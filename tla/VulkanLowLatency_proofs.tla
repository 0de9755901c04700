------------------------ MODULE VulkanLowLatency_proofs ------------------------
(***************************************************************************)
(* Proofs about VulkanLowLatency, for any number of users, VkDevices,      *)
(* semaphores and sleeps, and whatever the devices offer: it leaves the    *)
(* library's lifetime as ApiLifetime describes it, no semaphore is leaked, *)
(* and a device found without the mutex still exists when it is used.      *)
(***************************************************************************)
EXTENDS VulkanLowLatency, TLAPS

-----------------------------------------------------------------------------
(* The forms of a call in progress, and the types *)

ImplementationKinds == {"legacy", "lowLatency2", "fake"}

InitCalls ==
  [op : {"init"}, d : VkDevices, at : {"lock", "try", "emplace"}, impl : 1 .. 3,
   semaphore : Semaphores \cup {0}]
DestroyCalls == [op : {"destroy"}, d : VkDevices]
EntryCalls ==
  [op : {"entry"}, what : {"sleepMode", "sleep", "other"}, d : VkDevices,
   at : {"invoke", "missed", "store", "wait"}, semaphore : Semaphores, mode : BOOLEAN,
   value : Nat]
VulkanCalls == Calls \cup InitCalls \cup DestroyCalls \cup EntryCalls

Devices == [impl : ImplementationKinds, semaphore : Semaphores, mode : BOOLEAN]

VulkanTypeOK ==
  /\ factoryMutex \in Threads \cup {Nobody}
  /\ deviceMap \in [VkDevices -> {NoDevice} \cup Devices]
  /\ semaphores \subseteq Semaphores
  /\ value \in [Semaphores -> Nat]
  /\ driverMode \in [VkDevices -> BOOLEAN]
  /\ sleeping \subseteq Semaphores \X Nat
  /\ given \in [VkDevices -> Semaphores \cup {0}]
  /\ call \in [Threads -> VulkanCalls]

(* What a call has begun with says which fields it has.                    *)
LEMMA CallForms ==
  ASSUME NEW c \in VulkanCalls
  PROVE  /\ c.op = "init" => c \in InitCalls
         /\ c.op = "destroy" => c \in DestroyCalls
         /\ c.op = "entry" => c \in EntryCalls
         /\ c.op \notin {"init", "destroy", "entry"} => c \in Calls
  BY DEF VulkanCalls, Calls, Idle, InitCalls, DestroyCalls, EntryCalls

(* The implementations TryCreate goes through.                             *)
LEMMA ThreeImplementations ==
  /\ Len(Implementations) = 3
  /\ \A i \in 1 .. 3 : Implementations[i] \in ImplementationKinds
  BY DEF Implementations, ImplementationKinds

-----------------------------------------------------------------------------
(* The library's lifetime *)

\* A call of this module is none of ApiLifetime's.
IsVulkanCall(c) == c.op \in {"init", "destroy", "entry"}
lifetimeCall == [t \in Threads |-> IF IsVulkanCall(call[t]) THEN Idle ELSE call[t]]

Lifetime == INSTANCE ApiLifetime_proofs WITH call <- lifetimeCall

LEMMA LifetimeAssumptions ==
  Lifetime!IsFiniteSet(Threads) /\ "nobody" \notin Threads /\ "nullptr" \notin Gpus
  BY ThreadsAssumption, GpusAssumption DEF IsFiniteSet, Lifetime!IsFiniteSet

LEMMA LifetimeInit == VInit => Lifetime!Init
  BY DEF VInit, Init, Lifetime!Init, lifetimeCall, IsVulkanCall, Idle, Lifetime!Idle, Nobody,
     Lifetime!Nobody, Lifetime!Nothing, Nothing

(* A step that begins, continues or ends a call of this module is none of  *)
(* the library's lifetime.                                                 *)
LEMMA LifetimeStutters ==
  ASSUME VulkanTypeOK, NEW t \in Threads, NEW c, call' = [call EXCEPT ![t] = c],
         call[t] = Idle \/ IsVulkanCall(call[t]), c = Idle \/ IsVulkanCall(c)
  PROVE  lifetimeCall' = lifetimeCall
<1>1. /\ call'[t] = c
      /\ \A u \in Threads \ {t} : call'[u] = call[u]
  BY DEF VulkanTypeOK
<1> QED
  BY <1>1 DEF lifetimeCall, IsVulkanCall, Idle

(* A step of the library's lifetime is one there, too.                     *)
LEMMA LifetimeContinues ==
  ASSUME VulkanTypeOK, NEW t \in Threads, NEW c, call' = [call EXCEPT ![t] = c],
         ~IsVulkanCall(call[t]), ~IsVulkanCall(c)
  PROVE  lifetimeCall' = [lifetimeCall EXCEPT ![t] = c] /\ lifetimeCall[t] = call[t]
<1>1. /\ call'[t] = c
      /\ \A u \in Threads \ {t} : call'[u] = call[u]
  BY DEF VulkanTypeOK
<1> QED
  BY <1>1 DEF lifetimeCall, IsVulkanCall

LEMMA LifetimeSteps ==
  ASSUME VulkanTypeOK, NEW t \in Threads, LifetimeStep(t) \/ Reset(t)
  PROVE  /\ Lifetime!Next
         /\ call'[t].op \notin {"init", "destroy", "entry"}
         /\ \A u \in Threads \ {t} : call'[u] = call[u]
         /\ call[t].op \notin {"init", "destroy", "entry"}
<1> USE DEF Idle, Lifetime!Idle, Nobody, Lifetime!Nobody, Nothing, Lifetime!Nothing
<1> DEFINE Goal == /\ Lifetime!Next
                   /\ call'[t].op \notin {"init", "destroy", "entry"}
                   /\ \A u \in Threads \ {t} : call'[u] = call[u]
                   /\ call[t].op \notin {"init", "destroy", "entry"}
<1>1. ASSUME NEW c, call' = [call EXCEPT ![t] = c], ~IsVulkanCall(c), ~IsVulkanCall(call[t])
      PROVE  /\ lifetimeCall' = [lifetimeCall EXCEPT ![t] = c] /\ lifetimeCall[t] = call[t]
             /\ call'[t] = c /\ \A u \in Threads \ {t} : call'[u] = call[u]
  <2>1. lifetimeCall' = [lifetimeCall EXCEPT ![t] = c] /\ lifetimeCall[t] = call[t]
    BY <1>1, LifetimeContinues
  <2> QED
    BY <1>1, <2>1 DEF VulkanTypeOK
<1>2. ASSUME UNCHANGED call PROVE lifetimeCall' = lifetimeCall
  BY <1>2 DEF lifetimeCall
<1>3. CASE InitializeAgain(t)
  <2>1. lifetimeCall' = lifetimeCall /\ lifetimeCall[t] = Idle
    BY <1>3, <1>2 DEF InitializeAgain, lifetimeCall
  <2>2. Lifetime!InitializeAgain(t)
    BY <1>3, <2>1 DEF InitializeAgain, Lifetime!InitializeAgain
  <2> QED
    BY <1>3, <2>2 DEF InitializeAgain, Lifetime!Next
<1>4. CASE InitializeFirst(t)
  <2> DEFINE c == [op |-> "initialize"]
  <2>1. call' = [call EXCEPT ![t] = c] /\ ~IsVulkanCall(c) /\ ~IsVulkanCall(call[t])
    BY <1>4 DEF InitializeFirst, Continue, IsVulkanCall
  <2>2. Lifetime!InitializeFirst(t)
    BY <1>1, <1>4, <2>1 DEF InitializeFirst, Lifetime!InitializeFirst, Lifetime!Continue
  <2>3. call'[t] = c /\ \A u \in Threads \ {t} : call'[u] = call[u]
    BY <1>1, <2>1
  <2> QED
    BY <2>1, <2>2, <2>3 DEF Lifetime!Next, IsVulkanCall
<1>5. CASE FindAdapters(t)
  <2>1. call' = [call EXCEPT ![t] = Idle] /\ ~IsVulkanCall(Idle) /\ ~IsVulkanCall(call[t])
    BY <1>5 DEF FindAdapters, Return, Continue, IsVulkanCall
  <2>2. Lifetime!FindAdapters(t)
    BY <1>1, <1>5, <2>1 DEF FindAdapters, Lifetime!FindAdapters, Lifetime!Return, Lifetime!Continue
  <2>3. call'[t] = Idle /\ \A u \in Threads \ {t} : call'[u] = call[u]
    BY <1>1, <2>1
  <2> QED
    BY <2>1, <2>2, <2>3 DEF Lifetime!Next, IsVulkanCall
<1>6. CASE FailInitialize(t)
  <2> DEFINE c == Teardown("reset", {})
  <2>1. call' = [call EXCEPT ![t] = c] /\ ~IsVulkanCall(c) /\ ~IsVulkanCall(call[t])
    BY <1>6 DEF FailInitialize, Continue, IsVulkanCall, Teardown
  <2>2. Lifetime!FailInitialize(t)
    BY <1>1, <1>6, <2>1 DEF FailInitialize, Lifetime!FailInitialize, Lifetime!Continue,
       Teardown, Lifetime!Teardown
  <2>3. call'[t] = c /\ \A u \in Threads \ {t} : call'[u] = call[u]
    BY <1>1, <2>1
  <2> QED
    BY <2>1, <2>2, <2>3 DEF Lifetime!Next, IsVulkanCall
<1>7. CASE Unload(t)
  <2>1. CASE initializationCount = 1
    <3> DEFINE c == Teardown("reset", registry)
    <3>1. call' = [call EXCEPT ![t] = c] /\ ~IsVulkanCall(c) /\ ~IsVulkanCall(call[t])
      BY <1>7, <2>1 DEF Unload, Continue, IsVulkanCall, Teardown
    <3>2. Lifetime!Unload(t)
      BY <1>1, <1>7, <2>1, <3>1 DEF Unload, Lifetime!Unload, Lifetime!Continue,
         Teardown, Lifetime!Teardown
    <3>3. call'[t] = c /\ \A u \in Threads \ {t} : call'[u] = call[u]
      BY <1>1, <3>1
    <3> QED
      BY <3>1, <3>2, <3>3 DEF Lifetime!Next, IsVulkanCall
  <2>2. CASE initializationCount # 1
    <3>1. lifetimeCall' = lifetimeCall /\ lifetimeCall[t] = Idle
      BY <1>7, <1>2, <2>2 DEF Unload, lifetimeCall
    <3>2. Lifetime!Unload(t)
      BY <1>7, <2>2, <3>1 DEF Unload, Lifetime!Unload
    <3> QED
      BY <1>7, <2>2, <3>2 DEF Unload, Lifetime!Next
  <2> QED
    BY <2>1, <2>2
<1>8. CASE DeleteAdapters(t)
  <2>1. call' = [call EXCEPT ![t] = Idle] /\ ~IsVulkanCall(Idle) /\ ~IsVulkanCall(call[t])
    BY <1>8 DEF DeleteAdapters, Return, Continue, IsVulkanCall
  <2>2. Lifetime!DeleteAdapters(t)
    BY <1>1, <1>8, <2>1 DEF DeleteAdapters, Lifetime!DeleteAdapters, Lifetime!Return,
       Lifetime!Continue
  <2>3. call'[t] = Idle /\ \A u \in Threads \ {t} : call'[u] = call[u]
    BY <1>1, <2>1
  <2> QED
    BY <2>1, <2>2, <2>3 DEF Lifetime!Next, IsVulkanCall
<1>9. CASE Reset(t)
  <2> DEFINE c == [call[t] EXCEPT !.at = "delete"]
  <2>1. call[t] \in [op : {"teardown"}, at : {"reset", "delete"}, adapters : SUBSET Addresses]
    BY <1>9, CallForms DEF Reset, ResetCaches, VulkanTypeOK, Calls
  <2>2. call' = [call EXCEPT ![t] = c] /\ ~IsVulkanCall(c) /\ ~IsVulkanCall(call[t])
    BY <1>9, <2>1 DEF Reset, ResetCaches, IsVulkanCall
  <2>3. lifetimeCall' = [lifetimeCall EXCEPT ![t] = c] /\ lifetimeCall[t] = call[t]
    BY <1>1, <2>2
  <2>4. UNCHANGED lifetimeVars /\ call[t].op = "teardown" /\ call[t].at = "reset"
    BY <1>9 DEF Reset, ResetCaches
  <2>5. Lifetime!ResetCaches(t)
    BY <2>3, <2>4 DEF Lifetime!ResetCaches, lifetimeVars, Lifetime!lifetimeVars
  <2>6. call'[t] = c /\ \A u \in Threads \ {t} : call'[u] = call[u]
    BY <1>1, <2>2
  <2> QED
    BY <2>2, <2>5, <2>6 DEF Lifetime!Next, IsVulkanCall
<1> QED
  BY <1>3, <1>4, <1>5, <1>6, <1>7, <1>8, <1>9 DEF LifetimeStep

-----------------------------------------------------------------------------
(* The inductive invariant *)

Makes(t) == call[t].op = "init" /\ call[t].at \in {"try", "emplace"}
Emplaces(t) == call[t].op = "init" /\ call[t].at = "emplace"
Destroys(t) == call[t].op = "destroy"
Uses(t) == call[t].op = "entry"
Stores(t) == Uses(t) /\ call[t].at = "store"

\* A call is made by a user, who does not unload meanwhile.
UsersOK == \A t \in Threads : IsVulkanCall(call[t]) => t \in holders

\* Who makes or destroys a device holds the mutex, and makes none that exists.
MakersOK ==
  \A t \in Threads :
    /\ Makes(t) \/ Destroys(t) => factoryMutex = t
    /\ Makes(t) => ~Mapped(call[t].d)

\* No other call works with the device that is being destroyed.
DestroysAlone ==
  \A t \in Threads : Destroys(t) =>
    /\ given[call[t].d] = 0
    /\ \A u \in Threads \ {t} : IsVulkanCall(call[u]) => call[u].d # call[t].d

\* Each semaphore is that of one device, or of one about to be mapped.
OwnersOK ==
  /\ \A s \in Semaphores : s \in semaphores <=>
       \/ \E d \in VkDevices : Mapped(d) /\ deviceMap[d].semaphore = s
       \/ \E t \in Threads : Emplaces(t) /\ call[t].semaphore = s
  /\ \A d, e \in VkDevices :
       Mapped(d) /\ Mapped(e) /\ deviceMap[d].semaphore = deviceMap[e].semaphore => d = e
  /\ \A t \in Threads : Emplaces(t) =>
       /\ call[t].semaphore # 0
       /\ \A d \in VkDevices : Mapped(d) => deviceMap[d].semaphore # call[t].semaphore

GivenOK == \A d \in VkDevices : given[d] # 0 => deviceMap[d].semaphore = given[d]

\* A call that found its device works with the one its caller was given.
UsesOK ==
  \A t \in Threads : Uses(t) /\ call[t].at # "missed" =>
    deviceMap[call[t].d].semaphore = call[t].semaphore

\* One thread at a time sets the mode of a device.  Until it is stored the driver has it.
SettersOK ==
  /\ \A t, u \in Threads : Uses(t) /\ Uses(u) /\ call[t].d = call[u].d
       /\ call[t].what = "sleepMode" /\ call[u].what = "sleepMode" => t = u
  /\ \A t \in Threads : Stores(t) =>
       /\ call[t].what = "sleepMode"
       /\ deviceMap[call[t].d].impl = "lowLatency2" => driverMode[call[t].d] = call[t].mode

StatusOK ==
  \A d \in VkDevices :
    \/ \E t \in Threads : Stores(t) /\ call[t].d = d
    \/ Reported(d) => driverMode[d]

FactoryInv ==
  /\ UsersOK /\ MakersOK /\ DestroysAlone /\ OwnersOK
  /\ GivenOK /\ UsesOK /\ SettersOK /\ StatusOK

VulkanInv == VulkanTypeOK /\ Lifetime!LifetimeInv /\ FactoryInv

(* An address of a semaphore is none of no device's.                       *)
LEMMA MappedDevices ==
  ASSUME VulkanTypeOK, NEW d \in VkDevices
  PROVE  /\ Mapped(d) <=> deviceMap[d].semaphore # 0
         /\ Mapped(d) => deviceMap[d] \in Devices
         /\ ~Mapped(d) => deviceMap[d].impl = "none" /\ deviceMap[d].semaphore = 0
                          /\ deviceMap[d].mode = FALSE
         /\ deviceMap[d].semaphore \in Semaphores \cup {0}
         /\ 0 \notin Semaphores
  BY DEF VulkanTypeOK, Mapped, NoDevice, Devices, ImplementationKinds, Semaphores

(* Of the calls in progress the mutex lets one at a time make a device.    *)
LEMMA OneMaker ==
  ASSUME FactoryInv, NEW t \in Threads, NEW u \in Threads,
         Makes(t) \/ Destroys(t), Makes(u) \/ Destroys(u)
  PROVE  t = u
  BY DEF FactoryInv, MakersOK

(* While a call of this module is in progress the library stays up.        *)
LEMMA NoTeardown ==
  ASSUME VulkanTypeOK, Lifetime!LifetimeInv, NEW t \in Threads, call[t].op = "teardown"
  PROVE  holders = {}
<1>1. lifetimeCall[t].op = "teardown"
  BY DEF lifetimeCall, IsVulkanCall
<1> QED
  BY <1>1 DEF Lifetime!LifetimeInv, Lifetime!HeapOK, Lifetime!TearingDown

LEMMA FactoryInvInit == VInit => VulkanTypeOK /\ FactoryInv
<1> SUFFICES ASSUME VInit PROVE VulkanTypeOK /\ FactoryInv
  OBVIOUS
<1>1. call = [t \in Threads |-> Idle]
  BY DEF VInit, Init
<1>2. VulkanTypeOK
  BY <1>1 DEF VInit, VulkanTypeOK, VulkanCalls, Calls
<1>3. \A t \in Threads : call[t].op = "idle"
  BY <1>1 DEF Idle
<1>4. \A d \in VkDevices : ~Mapped(d) /\ ~Reported(d) /\ given[d] = 0
  BY DEF VInit, Mapped, Reported, NoDevice
<1>5. semaphores = {}
  BY DEF VInit
<1> QED
  BY <1>2, <1>3, <1>4, <1>5 DEF FactoryInv, UsersOK, MakersOK, DestroysAlone, OwnersOK, GivenOK,
     UsesOK, SettersOK, StatusOK, Makes, Emplaces, Destroys, Uses, Stores, IsVulkanCall

(* A thread that begins, ends or goes on with a call that neither makes    *)
(* nor destroys nor stores anything.                                       *)
LEMMA QuietStep ==
  ASSUME VulkanTypeOK, FactoryInv, NEW t \in Threads,
         UNCHANGED <<deviceMap, semaphores, driverMode, given>>,
         ~Emplaces(t), ~Stores(t), ~IsVulkanCall(call'[t]),
         \A u \in Threads \ {t} : call'[u] = call[u],
         \A u \in Threads \ {t} : factoryMutex = u => factoryMutex' = u,
         \A u \in Threads \ {t} : u \in holders => u \in holders'
  PROVE  FactoryInv'
<1>1. call'[t].op \notin {"init", "destroy", "entry"}
  BY DEF IsVulkanCall
<1>2. UsersOK' /\ MakersOK' /\ DestroysAlone'
  BY <1>1 DEF FactoryInv, UsersOK, MakersOK, DestroysAlone, IsVulkanCall, Makes, Destroys, Mapped
<1>3. OwnersOK'
  BY <1>1 DEF FactoryInv, OwnersOK, Emplaces, Mapped
<1>4. GivenOK' /\ UsesOK' /\ SettersOK'
  BY <1>1 DEF FactoryInv, GivenOK, UsesOK, SettersOK, Uses, Stores
<1>5. StatusOK'
  <2> SUFFICES ASSUME NEW d \in VkDevices, (Reported(d) /\ ~driverMode[d])'
               PROVE  \E u \in Threads : (Stores(u) /\ call[u].d = d)'
    BY DEF StatusOK
  <2>1. Reported(d) /\ ~driverMode[d]
    BY DEF Reported
  <2>2. PICK u \in Threads : Stores(u) /\ call[u].d = d
    BY <2>1 DEF FactoryInv, StatusOK
  <2> QED
    BY <2>2 DEF Stores, Uses
<1> QED
  BY <1>2, <1>3, <1>4, <1>5 DEF FactoryInv

-----------------------------------------------------------------------------
(* The steps *)

\* What each lemma about a step shows.
Kept == VulkanTypeOK' /\ FactoryInv' /\ UNCHANGED <<lifetimeVars, lifetimeCall>>

LEMMA CallBecomes ==
  ASSUME VulkanTypeOK, NEW t \in Threads, NEW c \in VulkanCalls, call' = [call EXCEPT ![t] = c]
  PROVE  /\ call' \in [Threads -> VulkanCalls]
         /\ call'[t] = c
         /\ \A u \in Threads \ {t} : call'[u] = call[u]
  BY DEF VulkanTypeOK

LEMMA IdleIsNoVulkanCall ==
  Idle \in VulkanCalls /\ ~IsVulkanCall(Idle)
  BY DEF VulkanCalls, Calls, Idle, IsVulkanCall

(* Steps that end a call and leave the factory and its devices as they are.*)
LEMMA QuietSteps ==
  ASSUME VulkanTypeOK, FactoryInv, NEW t \in Threads,
         \/ HandleInvalidated(t) \/ OtherCall(t) \/ Wake(t)
         \/ TryCreateFails(t) /\ call[t].impl >= 3
         \/ LockFactory(t) /\ ~Mapped(call[t].d) /\ ~vk
         \/ DriverSetSleepMode(t) /\ call' = [call EXCEPT ![t] = Idle] /\ UNCHANGED driverMode
         \/ LatencySleep(t) /\ call' = [call EXCEPT ![t] = Idle] /\ UNCHANGED <<value, sleeping>>
  PROVE  Kept
<1>1. call[t] \in VulkanCalls
  BY DEF VulkanTypeOK
<1>2. /\ call' = [call EXCEPT ![t] = Idle]
      /\ IsVulkanCall(call[t]) /\ ~Emplaces(t) /\ ~Stores(t)
      /\ UNCHANGED <<lifetimeVars, deviceMap, semaphores, given>>
      /\ factoryMutex' \in {factoryMutex, Nobody} /\ (factoryMutex' = factoryMutex \/ Makes(t))
  BY <1>1, ThreeImplementations, CallForms
     DEF HandleInvalidated, OtherCall, Wake, TryCreateFails, LockFactory, DriverSetSleepMode,
         LatencySleep, Invoked, Return, Continue, vulkanVars, driverVars, IsVulkanCall, Emplaces,
         Stores, Uses, Makes, InitCalls
<1>3. UNCHANGED <<value, driverMode, sleeping>>
  BY DEF HandleInvalidated, OtherCall, Wake, TryCreateFails, LockFactory, DriverSetSleepMode,
     LatencySleep, vulkanVars, driverVars
<1>4. lifetimeCall' = lifetimeCall
  BY <1>2, IdleIsNoVulkanCall, LifetimeStutters
<1>5. /\ call' \in [Threads -> VulkanCalls] /\ ~IsVulkanCall(call'[t])
      /\ \A u \in Threads \ {t} : call'[u] = call[u]
  BY <1>2, IdleIsNoVulkanCall, CallBecomes
<1>6. VulkanTypeOK'
  BY <1>2, <1>3, <1>5 DEF VulkanTypeOK
<1>7. \A u \in Threads \ {t} : factoryMutex = u => factoryMutex' = u
  BY <1>2 DEF FactoryInv, MakersOK
<1>8. FactoryInv'
  BY <1>2, <1>3, <1>5, <1>7, QuietStep DEF lifetimeVars
<1> QED
  BY <1>2, <1>4, <1>6, <1>8 DEF Kept

(* Initialize may load m_vk and goes on to GetOrCreate.                    *)
LEMMA LoadVulkanStep ==
  ASSUME VulkanTypeOK, FactoryInv, NEW t \in Threads, NEW d \in VkDevices, LoadVulkan(t, d)
  PROVE  Kept
<1> DEFINE c == [op |-> "init", d |-> d, at |-> "lock", impl |-> 1, semaphore |-> 0]
<1>1. /\ call[t] = Idle /\ t \in holders /\ ~Destroying(d)
      /\ call' = [call EXCEPT ![t] = c]
      /\ UNCHANGED <<lifetimeVars, factoryMutex, deviceMap, semaphores, value, driverMode,
                     sleeping, given>>
  BY DEF LoadVulkan, Continue, driverVars
<1>2. c \in InitCalls
  BY DEF InitCalls
<1>3. c \in VulkanCalls /\ IsVulkanCall(c)
  BY <1>2 DEF VulkanCalls, IsVulkanCall
<1>4. /\ call' \in [Threads -> VulkanCalls] /\ call'[t] = c
      /\ \A u \in Threads \ {t} : call'[u] = call[u]
  BY <1>1, <1>3, CallBecomes
<1>5. lifetimeCall' = lifetimeCall
  BY <1>1, <1>3, LifetimeStutters
<1>6. VulkanTypeOK'
  BY <1>1, <1>4 DEF VulkanTypeOK
<1>7. \A u \in Threads : Destroys(u) => call[u].d # d
  BY <1>1 DEF Destroying, On, Destroys
<1>8. /\ call[t].op = "idle"
      /\ call'[t].op = "init" /\ call'[t].d = d /\ call'[t].at = "lock"
  BY <1>1, <1>4 DEF Idle
<1> HIDE DEF c
<1>9. UsersOK' /\ MakersOK'
  BY <1>1, <1>4, <1>8 DEF FactoryInv, UsersOK, MakersOK, IsVulkanCall, Makes, Destroys, Mapped,
     lifetimeVars
<1>10. DestroysAlone'
  BY <1>1, <1>4, <1>7, <1>8 DEF FactoryInv, DestroysAlone, IsVulkanCall, Destroys
<1>11. OwnersOK'
  BY <1>1, <1>4, <1>8 DEF FactoryInv, OwnersOK, Emplaces, Mapped
<1>12. GivenOK' /\ UsesOK' /\ SettersOK'
  BY <1>1, <1>4, <1>8 DEF FactoryInv, GivenOK, UsesOK, SettersOK, Uses, Stores
<1>13. StatusOK'
  BY <1>1, <1>4, <1>8 DEF FactoryInv, StatusOK, Stores, Uses, Reported
<1> QED
  BY <1>1, <1>5, <1>6, <1>9, <1>10, <1>11, <1>12, <1>13 DEF Kept, FactoryInv

(* GetOrCreate finds the device, or begins to make one under the mutex.    *)
LEMMA LockFactoryStep ==
  ASSUME VulkanTypeOK, FactoryInv, NEW t \in Threads, LockFactory(t)
  PROVE  Kept
<1> DEFINE d == call[t].d
<1>1. /\ call[t] \in InitCalls /\ call[t].at = "lock" /\ d \in VkDevices
      /\ factoryMutex = Nobody
      /\ UNCHANGED <<lifetimeVars, deviceMap, semaphores, value, driverMode, sleeping>>
  BY CallForms DEF LockFactory, VulkanTypeOK, InitCalls, driverVars
<1>2. CASE Mapped(d)
  <2>1. /\ call' = [call EXCEPT ![t] = Idle]
        /\ factoryMutex' = factoryMutex
        /\ given' = [given EXCEPT ![d] = deviceMap[d].semaphore]
    BY <1>2 DEF LockFactory, Return, Continue
  <2>2. /\ call' \in [Threads -> VulkanCalls] /\ call'[t] = Idle
        /\ \A u \in Threads \ {t} : call'[u] = call[u]
    BY <2>1, IdleIsNoVulkanCall, CallBecomes
  <2>3. lifetimeCall' = lifetimeCall
    BY <1>1, <2>1, IdleIsNoVulkanCall, LifetimeStutters DEF IsVulkanCall, InitCalls
  <2>4. VulkanTypeOK'
    BY <1>1, <2>1, <2>2, MappedDevices DEF VulkanTypeOK
  <2>5. call[t].op = "init" /\ call'[t].op = "idle"
    BY <1>1, <2>2 DEF InitCalls, Idle
  <2>6. \A u \in Threads : ~Destroys(u)
    BY <1>1, ThreadsAssumption DEF FactoryInv, MakersOK, Nobody
  <2>7. UsersOK' /\ MakersOK' /\ DestroysAlone'
    BY <1>1, <2>1, <2>2, <2>5, <2>6 DEF FactoryInv, UsersOK, MakersOK, DestroysAlone,
       IsVulkanCall, Makes, Destroys, Mapped, lifetimeVars
  <2>8. OwnersOK'
    BY <1>1, <2>2, <2>5 DEF FactoryInv, OwnersOK, Emplaces, Mapped
  <2>9. GivenOK' /\ UsesOK' /\ SettersOK'
    BY <1>1, <2>1, <2>2, <2>5 DEF VulkanTypeOK, FactoryInv, GivenOK, UsesOK, SettersOK, Uses, Stores
  <2>10. StatusOK'
    BY <1>1, <2>2, <2>5 DEF FactoryInv, StatusOK, Stores, Uses, Reported
  <2> QED
    BY <1>1, <2>3, <2>4, <2>7, <2>8, <2>9, <2>10 DEF Kept, FactoryInv
<1>3. CASE ~Mapped(d) /\ ~vk
  BY <1>3, QuietSteps
<1>4. CASE ~Mapped(d) /\ vk
  <2> DEFINE c == [call[t] EXCEPT !.at = "try"]
  <2>1. /\ call' = [call EXCEPT ![t] = c]
        /\ factoryMutex' = t /\ UNCHANGED given
    BY <1>4 DEF LockFactory
  <2>2. c \in InitCalls /\ c.op = "init" /\ c.d = d /\ c.at = "try"
    BY <1>1 DEF InitCalls
  <2>3. c \in VulkanCalls /\ IsVulkanCall(c)
    BY <2>2 DEF VulkanCalls, IsVulkanCall
  <2>4. call[t].op = "init" /\ IsVulkanCall(call[t])
    BY <1>1 DEF InitCalls, IsVulkanCall
  <2> HIDE DEF c
  <2>5. /\ call' \in [Threads -> VulkanCalls] /\ call'[t] = c
        /\ \A u \in Threads \ {t} : call'[u] = call[u]
    BY <2>1, <2>3, CallBecomes
  <2>6. lifetimeCall' = lifetimeCall
    BY <2>1, <2>3, <2>4, LifetimeStutters
  <2>7. VulkanTypeOK'
    BY <1>1, <2>1, <2>5 DEF VulkanTypeOK
  <2>8. \A u \in Threads : ~Makes(u) /\ ~Destroys(u)
    BY <1>1, ThreadsAssumption DEF FactoryInv, MakersOK, Nobody
  <2>9. UsersOK' /\ MakersOK' /\ DestroysAlone'
    BY <1>1, <1>4, <2>1, <2>2, <2>4, <2>5, <2>8 DEF FactoryInv, UsersOK, MakersOK, DestroysAlone,
       IsVulkanCall, Makes, Destroys, Mapped, lifetimeVars
  <2>10. OwnersOK'
    BY <1>1, <2>2, <2>5 DEF FactoryInv, OwnersOK, Emplaces, Mapped
  <2>11. GivenOK' /\ UsesOK' /\ SettersOK'
    BY <1>1, <2>1, <2>2, <2>5 DEF FactoryInv, GivenOK, UsesOK, SettersOK, Uses, Stores
  <2>12. StatusOK'
    BY <1>1, <2>2, <2>4, <2>5 DEF FactoryInv, StatusOK, Stores, Uses, Reported
  <2> QED
    BY <1>1, <2>6, <2>7, <2>9, <2>10, <2>11, <2>12 DEF Kept, FactoryInv
<1> QED
  BY <1>2, <1>3, <1>4

(* An implementation's semaphore is created: the call now owns it.         *)
LEMMA TryCreateStep ==
  ASSUME VulkanTypeOK, FactoryInv, NEW t \in Threads, TryCreate(t)
  PROVE  Kept
<1>1. PICK s \in Semaphores \ semaphores :
        /\ semaphores' = semaphores \cup {s}
        /\ value' = [value EXCEPT ![s] = 0]
        /\ call' = [call EXCEPT ![t] = [call[t] EXCEPT !.at = "emplace", !.semaphore = s]]
  BY DEF TryCreate, VulkanTypeOK
<1> DEFINE c == [call[t] EXCEPT !.at = "emplace", !.semaphore = s]
<1>2. /\ call[t] \in InitCalls /\ call[t].at = "try" /\ call[t].op = "init"
      /\ UNCHANGED <<lifetimeVars, factoryMutex, deviceMap, driverMode, sleeping, given>>
  BY CallForms DEF TryCreate, VulkanTypeOK
<1>3. /\ c \in InitCalls /\ c.op = "init" /\ c.d = call[t].d /\ c.at = "emplace"
      /\ c.semaphore = s
  BY <1>2 DEF InitCalls
<1>4. c \in VulkanCalls /\ IsVulkanCall(c) /\ IsVulkanCall(call[t])
  BY <1>2, <1>3 DEF VulkanCalls, IsVulkanCall
<1>5. call' = [call EXCEPT ![t] = c]
  BY <1>1
<1> HIDE DEF c
<1>6. /\ call' \in [Threads -> VulkanCalls] /\ call'[t] = c
      /\ \A u \in Threads \ {t} : call'[u] = call[u]
  BY <1>4, <1>5, CallBecomes
<1>7. lifetimeCall' = lifetimeCall
  BY <1>4, <1>5, LifetimeStutters
<1>8. VulkanTypeOK'
  BY <1>1, <1>2, <1>6 DEF VulkanTypeOK
<1>9. UsersOK' /\ MakersOK' /\ DestroysAlone'
  BY <1>2, <1>3, <1>4, <1>6 DEF FactoryInv, UsersOK, MakersOK, DestroysAlone, IsVulkanCall, Makes,
     Destroys, Mapped, lifetimeVars
<1>10. \A u \in Threads : ~Emplaces(u)
  BY <1>2, OneMaker DEF Emplaces, Makes
<1>11. OwnersOK'
  <2>1. \A u \in Threads : Emplaces(u)' <=> u = t
    BY <1>3, <1>6, <1>10 DEF Emplaces
  <2>2. \A d \in VkDevices : /\ Mapped(d)' <=> Mapped(d)
                             /\ Mapped(d) => deviceMap[d].semaphore \in semaphores
    BY <1>2, MappedDevices DEF FactoryInv, OwnersOK, Mapped
  <2>3. \A r \in Semaphores : r \in semaphores <=>
          \E d \in VkDevices : Mapped(d) /\ deviceMap[d].semaphore = r
    BY <1>10 DEF FactoryInv, OwnersOK
  <2>4. s # 0 /\ call'[t].semaphore = s
    BY <1>3, <1>6 DEF Semaphores
  <2>5. \A r \in Semaphores : r \in semaphores' <=>
          \/ \E d \in VkDevices : Mapped(d)' /\ deviceMap'[d].semaphore = r
          \/ \E u \in Threads : Emplaces(u)' /\ call'[u].semaphore = r
    BY <1>1, <1>2, <2>1, <2>2, <2>3, <2>4
  <2>6. \A d, e \in VkDevices :
          Mapped(d) /\ Mapped(e) /\ deviceMap[d].semaphore = deviceMap[e].semaphore => d = e
    BY DEF FactoryInv, OwnersOK
  <2> QED
    BY <1>1, <1>2, <2>1, <2>2, <2>4, <2>5, <2>6 DEF OwnersOK
<1>12. GivenOK' /\ UsesOK' /\ SettersOK'
  BY <1>2, <1>3, <1>6 DEF FactoryInv, GivenOK, UsesOK, SettersOK, Uses, Stores
<1>13. StatusOK'
  BY <1>2, <1>3, <1>6 DEF FactoryInv, StatusOK, Stores, Uses, Reported
<1> QED
  BY <1>2, <1>7, <1>8, <1>9, <1>11, <1>12, <1>13 DEF Kept, FactoryInv

(* An implementation that cannot be created is followed by the next one,   *)
(* the last by giving up.                                                  *)
LEMMA TryCreateFailsStep ==
  ASSUME VulkanTypeOK, FactoryInv, NEW t \in Threads, TryCreateFails(t)
  PROVE  Kept
<1>1. /\ call[t] \in InitCalls /\ call[t].at = "try" /\ call[t].op = "init"
      /\ call[t].impl \in 1 .. 3
      /\ UNCHANGED <<lifetimeVars, deviceMap, semaphores, value, driverMode, sleeping, given>>
  BY CallForms DEF TryCreateFails, VulkanTypeOK, InitCalls, driverVars
<1>2. CASE call[t].impl >= 3
  BY <1>2, QuietSteps
<1>3. CASE call[t].impl < 3
  <2> DEFINE c == [call[t] EXCEPT !.impl = @ + 1]
  <2>1. call' = [call EXCEPT ![t] = c] /\ UNCHANGED factoryMutex
    BY <1>1, <1>3, ThreeImplementations DEF TryCreateFails
  <2>2. c \in InitCalls /\ c.op = "init" /\ c.d = call[t].d /\ c.at = "try"
    BY <1>1, <1>3 DEF InitCalls
  <2>3. c \in VulkanCalls /\ IsVulkanCall(c) /\ IsVulkanCall(call[t])
    BY <1>1, <2>2 DEF VulkanCalls, IsVulkanCall
  <2> HIDE DEF c
  <2>4. /\ call' \in [Threads -> VulkanCalls] /\ call'[t] = c
        /\ \A u \in Threads \ {t} : call'[u] = call[u]
    BY <2>1, <2>3, CallBecomes
  <2>5. lifetimeCall' = lifetimeCall
    BY <2>1, <2>3, LifetimeStutters
  <2>6. VulkanTypeOK'
    BY <1>1, <2>1, <2>4 DEF VulkanTypeOK
  <2>7. UsersOK' /\ MakersOK' /\ DestroysAlone'
    BY <1>1, <2>1, <2>2, <2>3, <2>4 DEF FactoryInv, UsersOK, MakersOK, DestroysAlone,
       IsVulkanCall, Makes, Destroys, Mapped, lifetimeVars
  <2>8. OwnersOK'
    BY <1>1, <2>2, <2>4 DEF FactoryInv, OwnersOK, Emplaces, Mapped
  <2>9. GivenOK' /\ UsesOK' /\ SettersOK'
    BY <1>1, <2>2, <2>4 DEF FactoryInv, GivenOK, UsesOK, SettersOK, Uses, Stores
  <2>10. StatusOK'
    BY <1>1, <2>2, <2>4 DEF FactoryInv, StatusOK, Stores, Uses, Reported
  <2> QED
    BY <1>1, <2>5, <2>6, <2>7, <2>8, <2>9, <2>10 DEF Kept, FactoryInv
<1> QED
  BY <1>1, <1>2, <1>3

(* The new device is put in the map and its semaphore given to the caller. *)
LEMMA EmplaceStep ==
  ASSUME VulkanTypeOK, FactoryInv, NEW t \in Threads, Emplace(t)
  PROVE  Kept
<1>0. PICK d, s : d = call[t].d /\ s = call[t].semaphore
  OBVIOUS
<1> DEFINE device == [impl |-> Implementations[call[t].impl], semaphore |-> s, mode |-> FALSE]
<1>1. /\ call[t] \in InitCalls /\ call[t].at = "emplace" /\ call[t].op = "init"
      /\ deviceMap' = [deviceMap EXCEPT ![d] = device]
      /\ given' = [given EXCEPT ![d] = s]
      /\ factoryMutex' = Nobody
      /\ call' = [call EXCEPT ![t] = Idle]
      /\ UNCHANGED <<lifetimeVars, semaphores, value, driverMode, sleeping>>
  BY <1>0, CallForms DEF Emplace, VulkanTypeOK, Return, Continue, driverVars
<1>2. /\ d \in VkDevices /\ ~Mapped(d) /\ s \in Semaphores /\ s # 0
      /\ \A e \in VkDevices : Mapped(e) => deviceMap[e].semaphore # s
      /\ Emplaces(t) /\ Makes(t)
  BY <1>0, <1>1 DEF FactoryInv, MakersOK, OwnersOK, Makes, Emplaces, InitCalls
<1>3. device \in Devices /\ device.semaphore = s /\ device.mode = FALSE
      /\ device.impl \in ImplementationKinds
  BY <1>1, <1>2, ThreeImplementations DEF Devices, InitCalls
<1> HIDE DEF device
<1>4. /\ call' \in [Threads -> VulkanCalls] /\ call'[t] = Idle
      /\ \A u \in Threads \ {t} : call'[u] = call[u]
  BY <1>1, IdleIsNoVulkanCall, CallBecomes
<1>5. lifetimeCall' = lifetimeCall
  BY <1>1, IdleIsNoVulkanCall, LifetimeStutters DEF IsVulkanCall
<1>6. VulkanTypeOK'
  BY <1>1, <1>2, <1>3, <1>4 DEF VulkanTypeOK
<1>7. /\ deviceMap'[d] = device /\ given'[d] = s
      /\ \A e \in VkDevices \ {d} : deviceMap'[e] = deviceMap[e] /\ given'[e] = given[e]
  BY <1>1, <1>2 DEF VulkanTypeOK
<1>8. /\ Mapped(d)'
      /\ \A e \in VkDevices \ {d} : Mapped(e)' <=> Mapped(e)
  <2>1. device # NoDevice
    BY <1>2, <1>3 DEF NoDevice
  <2> QED
    BY <1>7, <2>1 DEF Mapped
<1>9. \A u \in Threads \ {t} : ~Makes(u) /\ ~Destroys(u)
  BY <1>2, OneMaker
<1>10. call'[t].op = "idle"
  BY <1>4 DEF Idle
<1>11. \A u \in Threads : ~Makes(u)' /\ ~Emplaces(u)' /\ ~Destroys(u)'
  BY <1>4, <1>9, <1>10 DEF Makes, Emplaces, Destroys
<1>12. UsersOK' /\ MakersOK' /\ DestroysAlone'
  BY <1>1, <1>4, <1>10, <1>11 DEF FactoryInv, UsersOK, MakersOK, DestroysAlone, IsVulkanCall,
     lifetimeVars
<1>13. OwnersOK'
  <2>1. \A r \in Semaphores : r \in semaphores <=>
          \/ \E e \in VkDevices : Mapped(e) /\ deviceMap[e].semaphore = r
          \/ r = s
    BY <1>0, <1>2, <1>9 DEF FactoryInv, OwnersOK, Emplaces, Makes
  <2>2. \A r \in Semaphores : r \in semaphores' <=>
          \E e \in VkDevices : Mapped(e)' /\ deviceMap'[e].semaphore = r
    <3> SUFFICES ASSUME NEW r \in Semaphores
                 PROVE  r \in semaphores <=>
                          \E e \in VkDevices : Mapped(e)' /\ deviceMap'[e].semaphore = r
      BY <1>1
    <3>1. CASE r = s
      BY <1>2, <1>3, <1>7, <1>8, <2>1, <3>1
    <3>2. CASE r # s
      <4>1. ASSUME NEW e \in VkDevices
            PROVE  Mapped(e) /\ deviceMap[e].semaphore = r <=>
                     Mapped(e)' /\ deviceMap'[e].semaphore = r
        BY <1>2, <1>3, <1>7, <1>8, <3>2
      <4> QED
        BY <2>1, <3>2, <4>1
    <3> QED
      BY <3>1, <3>2
  <2>3. \A e, f \in VkDevices :
          Mapped(e)' /\ Mapped(f)' /\ deviceMap'[e].semaphore = deviceMap'[f].semaphore => e = f
    BY <1>2, <1>3, <1>7, <1>8 DEF FactoryInv, OwnersOK
  <2> QED
    BY <1>11, <2>2, <2>3 DEF OwnersOK
<1>14. \A u \in Threads : Uses(u)' /\ call'[u].at # "missed" =>
         /\ u # t /\ Uses(u) /\ call[u] = call'[u]
         /\ call[u].d \in VkDevices \ {d}
  <2> SUFFICES ASSUME NEW u \in Threads, Uses(u)', call'[u].at # "missed"
               PROVE  u # t /\ Uses(u) /\ call[u] = call'[u] /\ call[u].d \in VkDevices \ {d}
    OBVIOUS
  <2>1. u # t /\ Uses(u) /\ call[u] = call'[u]
    BY <1>4, <1>10 DEF Uses
  <2>2. call[u] \in EntryCalls
    BY <2>1, CallForms DEF Uses, VulkanTypeOK
  <2>3. deviceMap[call[u].d].semaphore = call[u].semaphore
    BY <2>1 DEF FactoryInv, UsesOK
  <2> QED
    BY <1>2, <2>1, <2>2, <2>3, MappedDevices DEF EntryCalls
<1>15. GivenOK' /\ UsesOK' /\ SettersOK'
  <2>1. GivenOK'
    BY <1>3, <1>7 DEF FactoryInv, GivenOK
  <2>2. UsesOK'
    BY <1>7, <1>14 DEF FactoryInv, UsesOK
  <2>3. SettersOK'
    BY <1>1, <1>4, <1>7, <1>10, <1>14 DEF FactoryInv, SettersOK, Uses, Stores
  <2> QED
    BY <2>1, <2>2, <2>3
<1>16. StatusOK'
  <2> SUFFICES ASSUME NEW e \in VkDevices, (Reported(e) /\ ~driverMode[e])'
               PROVE  \E u \in Threads : (Stores(u) /\ call[u].d = e)'
    BY DEF StatusOK
  <2>1. e # d
    <3> SUFFICES ASSUME e = d PROVE FALSE
      OBVIOUS
    <3>1. device.impl = "legacy" /\ driverMode'[d]
      BY <1>3, <1>7 DEF Reported
    <3> QED
      BY <3>1
  <2>2. Reported(e) /\ ~driverMode[e]
    BY <1>1, <1>7, <2>1 DEF Reported
  <2>3. PICK u \in Threads : Stores(u) /\ call[u].d = e
    BY <2>2 DEF FactoryInv, StatusOK
  <2> QED
    BY <1>1, <1>4, <2>3 DEF Stores, Uses
<1> QED
  BY <1>1, <1>5, <1>6, <1>12, <1>13, <1>15, <1>16 DEF Kept, FactoryInv

(* Destroy begins once no other call on the VkDevice is in progress.       *)
LEMMA DestroyStep ==
  ASSUME VulkanTypeOK, FactoryInv, NEW t \in Threads, NEW d \in VkDevices,
         DestroyLowLatencyDevice(t, d)
  PROVE  Kept
<1> DEFINE c == [op |-> "destroy", d |-> d]
<1>1. /\ call[t] = Idle /\ t \in holders
      /\ \A u \in Threads : ~On(u, d)
      /\ factoryMutex = Nobody /\ factoryMutex' = t
      /\ given' = [given EXCEPT ![d] = 0]
      /\ call' = [call EXCEPT ![t] = c]
      /\ UNCHANGED <<lifetimeVars, deviceMap, semaphores, value, driverMode, sleeping>>
  BY DEF DestroyLowLatencyDevice, Continue, driverVars
<1>2. c \in VulkanCalls /\ IsVulkanCall(c) /\ c.op = "destroy" /\ c.d = d
  BY DEF VulkanCalls, DestroyCalls, IsVulkanCall
<1> HIDE DEF c
<1>3. /\ call' \in [Threads -> VulkanCalls] /\ call'[t] = c
      /\ \A u \in Threads \ {t} : call'[u] = call[u]
  BY <1>1, <1>2, CallBecomes
<1>4. lifetimeCall' = lifetimeCall
  BY <1>1, <1>2, LifetimeStutters
<1>5. VulkanTypeOK'
  BY <1>1, <1>3 DEF VulkanTypeOK
<1>6. call[t].op = "idle"
  BY <1>1 DEF Idle
<1>7. \A u \in Threads : ~Makes(u) /\ ~Destroys(u)
  BY <1>1, ThreadsAssumption DEF FactoryInv, MakersOK, Nobody
<1>8. \A u \in Threads : IsVulkanCall(call[u]) => call[u].d # d
  BY <1>1 DEF On, IsVulkanCall
<1>9. UsersOK' /\ MakersOK'
  BY <1>1, <1>2, <1>3, <1>6, <1>7 DEF FactoryInv, UsersOK, MakersOK, IsVulkanCall, Makes, Destroys,
     Mapped, lifetimeVars
<1>10. DestroysAlone'
  BY <1>1, <1>2, <1>3, <1>7, <1>8 DEF DestroysAlone, Destroys, IsVulkanCall, VulkanTypeOK
<1>11. OwnersOK'
  BY <1>1, <1>2, <1>3, <1>6 DEF FactoryInv, OwnersOK, Emplaces, Mapped
<1>12. GivenOK' /\ UsesOK' /\ SettersOK'
  BY <1>1, <1>2, <1>3, <1>6 DEF VulkanTypeOK, FactoryInv, GivenOK, UsesOK, SettersOK, Uses, Stores
<1>13. StatusOK'
  BY <1>1, <1>2, <1>3, <1>6 DEF FactoryInv, StatusOK, Stores, Uses, Reported
<1> QED
  BY <1>1, <1>4, <1>5, <1>9, <1>10, <1>11, <1>12, <1>13 DEF Kept, FactoryInv

(* The destructors of some devices leave the others' semaphores and modes. *)
LEMMA DestroyedDevices ==
  ASSUME VulkanTypeOK, FactoryInv, NEW gone \in SUBSET VkDevices, Destroyed(gone),
         \A u \in Threads : ~Emplaces(u),
         deviceMap' = [d \in VkDevices |-> IF d \in gone THEN NoDevice ELSE deviceMap[d]]
  PROVE  /\ semaphores' \subseteq Semaphores
         /\ driverMode' \in [VkDevices -> BOOLEAN]
         /\ deviceMap' \in [VkDevices -> {NoDevice} \cup Devices]
         /\ \A d \in VkDevices : Mapped(d)' <=> d \notin gone /\ Mapped(d)
         /\ \A d \in VkDevices \ gone : deviceMap'[d] = deviceMap[d] /\ driverMode'[d] = driverMode[d]
         /\ \A d \in gone : deviceMap'[d] = NoDevice
         /\ \A s \in Semaphores : s \in semaphores' <=>
              \E d \in VkDevices : Mapped(d)' /\ deviceMap'[d].semaphore = s
<1>1. /\ semaphores' = semaphores \ {deviceMap[d].semaphore : d \in gone}
      /\ driverMode' = [d \in VkDevices |->
           IF d \in gone /\ deviceMap[d].impl = "legacy" THEN FALSE ELSE driverMode[d]]
  BY DEF Destroyed
<1>2. semaphores' \subseteq Semaphores /\ driverMode' \in [VkDevices -> BOOLEAN]
  BY <1>1 DEF VulkanTypeOK
<1>3. deviceMap' \in [VkDevices -> {NoDevice} \cup Devices]
  BY DEF VulkanTypeOK
<1>4. \A d \in VkDevices : Mapped(d)' <=> d \notin gone /\ Mapped(d)
  BY DEF Mapped
<1>5. \A d \in VkDevices \ gone : deviceMap'[d] = deviceMap[d] /\ driverMode'[d] = driverMode[d]
  BY <1>1
<1>6. ASSUME NEW s \in Semaphores
      PROVE  s \in semaphores' <=>
               \E d \in VkDevices : Mapped(d)' /\ deviceMap'[d].semaphore = s
  <2>1. s \in semaphores <=> \E d \in VkDevices : Mapped(d) /\ deviceMap[d].semaphore = s
    BY DEF FactoryInv, OwnersOK
  <2>2. \A d, e \in VkDevices :
          Mapped(d) /\ deviceMap[d].semaphore = s /\ deviceMap[e].semaphore = s => d = e
    BY MappedDevices DEF FactoryInv, OwnersOK
  <2>3. ASSUME s \in semaphores'
        PROVE  \E d \in VkDevices : Mapped(d)' /\ deviceMap'[d].semaphore = s
    <3>1. PICK d \in VkDevices : Mapped(d) /\ deviceMap[d].semaphore = s
      BY <1>1, <2>1, <2>3
    <3>2. d \notin gone
      BY <1>1, <2>3, <3>1
    <3> QED
      BY <1>4, <1>5, <3>1, <3>2
  <2>4. ASSUME NEW d \in VkDevices, Mapped(d)', deviceMap'[d].semaphore = s
        PROVE  s \in semaphores'
    <3>1. d \notin gone /\ Mapped(d) /\ deviceMap[d].semaphore = s
      BY <1>4, <1>5, <2>4
    <3>2. \A e \in gone : deviceMap[e].semaphore # s
      BY <2>2, <3>1
    <3> QED
      BY <1>1, <2>1, <3>1, <3>2
  <2> QED
    BY <2>3, <2>4
<1> QED
  BY <1>2, <1>3, <1>4, <1>5, <1>6

(* Extract destroys the device with its semaphore, under the mutex.        *)
LEMMA ExtractStep ==
  ASSUME VulkanTypeOK, FactoryInv, NEW t \in Threads, Extract(t)
  PROVE  Kept
<1>0. PICK d : d = call[t].d
  OBVIOUS
<1>1. /\ call[t] \in DestroyCalls /\ d \in VkDevices /\ Destroys(t) /\ call[t].op = "destroy"
      /\ Destroyed({d})
      /\ deviceMap' = [deviceMap EXCEPT ![d] = NoDevice]
      /\ factoryMutex' = Nobody
      /\ call' = [call EXCEPT ![t] = Idle]
      /\ UNCHANGED <<lifetimeVars, value, sleeping, given>>
  BY <1>0, CallForms DEF Extract, VulkanTypeOK, Return, Continue, DestroyCalls, Destroys
<1>2. /\ call' \in [Threads -> VulkanCalls] /\ call'[t] = Idle
      /\ \A u \in Threads \ {t} : call'[u] = call[u]
  BY <1>1, IdleIsNoVulkanCall, CallBecomes
<1>3. lifetimeCall' = lifetimeCall
  BY <1>1, IdleIsNoVulkanCall, LifetimeStutters DEF IsVulkanCall
<1>4. \A u \in Threads \ {t} : ~Makes(u) /\ ~Destroys(u)
  BY <1>1, OneMaker
<1>5. call'[t].op = "idle"
  BY <1>2 DEF Idle
<1>6. \A u \in Threads : ~Emplaces(u)
  BY <1>1, <1>4 DEF Emplaces, Makes
<1>7. \A u \in Threads : ~Makes(u)' /\ ~Emplaces(u)' /\ ~Destroys(u)'
  BY <1>2, <1>4, <1>5 DEF Makes, Emplaces, Destroys
<1>8. deviceMap' = [e \in VkDevices |-> IF e \in {d} THEN NoDevice ELSE deviceMap[e]]
  BY <1>1 DEF VulkanTypeOK
<1>9. /\ semaphores' \subseteq Semaphores
      /\ driverMode' \in [VkDevices -> BOOLEAN]
      /\ deviceMap' \in [VkDevices -> {NoDevice} \cup Devices]
      /\ \A e \in VkDevices : Mapped(e)' <=> e # d /\ Mapped(e)
      /\ \A e \in VkDevices \ {d} : deviceMap'[e] = deviceMap[e] /\ driverMode'[e] = driverMode[e]
      /\ deviceMap'[d] = NoDevice
      /\ \A s \in Semaphores : s \in semaphores' <=>
           \E e \in VkDevices : Mapped(e)' /\ deviceMap'[e].semaphore = s
  <2>1. {d} \in SUBSET VkDevices
    BY <1>1
  <2> QED
    BY <1>1, <1>6, <1>8, <2>1, DestroyedDevices
<1>10. VulkanTypeOK'
  BY <1>1, <1>2, <1>9 DEF VulkanTypeOK
<1>11. UsersOK' /\ MakersOK' /\ DestroysAlone'
  BY <1>1, <1>2, <1>5, <1>7 DEF FactoryInv, UsersOK, MakersOK, DestroysAlone, IsVulkanCall,
     lifetimeVars
<1>12. OwnersOK'
  BY <1>7, <1>9 DEF FactoryInv, OwnersOK
<1>13. \A u \in Threads : Uses(u)' =>
         u # t /\ Uses(u) /\ call[u] = call'[u] /\ call[u].d \in VkDevices \ {d}
  <2> SUFFICES ASSUME NEW u \in Threads, Uses(u)'
               PROVE  u # t /\ Uses(u) /\ call[u] = call'[u] /\ call[u].d \in VkDevices \ {d}
    OBVIOUS
  <2>1. u # t /\ Uses(u) /\ call[u] = call'[u]
    BY <1>2, <1>5 DEF Uses
  <2>2. call[u] \in EntryCalls
    BY <2>1, CallForms DEF Uses, VulkanTypeOK
  <2>3. call[u].d # d
    BY <1>0, <1>1, <2>1 DEF FactoryInv, DestroysAlone, IsVulkanCall, Uses
  <2> QED
    BY <2>1, <2>2, <2>3 DEF EntryCalls
<1>14. GivenOK' /\ UsesOK' /\ SettersOK'
  <2>1. GivenOK'
    BY <1>0, <1>1, <1>9 DEF FactoryInv, GivenOK, DestroysAlone
  <2>2. UsesOK'
    BY <1>9, <1>13 DEF FactoryInv, UsesOK
  <2>3. SettersOK'
    BY <1>9, <1>13 DEF FactoryInv, SettersOK, Uses, Stores
  <2> QED
    BY <2>1, <2>2, <2>3
<1>15. StatusOK'
  <2> SUFFICES ASSUME NEW e \in VkDevices, (Reported(e) /\ ~driverMode[e])'
               PROVE  \E u \in Threads : (Stores(u) /\ call[u].d = e)'
    BY DEF StatusOK
  <2>1. e # d
    BY <1>9 DEF Reported, NoDevice
  <2>2. Reported(e) /\ ~driverMode[e]
    BY <1>9, <2>1 DEF Reported
  <2>3. PICK u \in Threads : Stores(u) /\ call[u].d = e
    BY <2>2 DEF FactoryInv, StatusOK
  <2> QED
    BY <1>1, <1>2, <2>3 DEF Stores, Uses
<1> QED
  BY <1>1, <1>3, <1>10, <1>11, <1>12, <1>14, <1>15 DEF Kept, FactoryInv


(* An entry point finds the device its caller was given, or misses it.     *)
LEMMA GetStep ==
  ASSUME VulkanTypeOK, FactoryInv, NEW t \in Threads, NEW d \in VkDevices,
         NEW what \in {"sleepMode", "sleep", "other"}, NEW mode \in BOOLEAN, NEW v \in Nat,
         Get(t, what, d, mode, v)
  PROVE  Kept
<1>1. PICK at \in {"invoke", "missed"} : call' = [call EXCEPT ![t] = Entry(what, d, at, mode, v)]
  BY DEF Get, Continue
<1> DEFINE c == Entry(what, d, at, mode, v)
<1>2. /\ call[t] = Idle /\ t \in holders
      /\ given[d] # 0 /\ ~Destroying(d)
      /\ \A u \in Threads : On(u, d) /\ call[u].op = "entry" => call[u].what # what \/ what = "other"
      /\ UNCHANGED <<lifetimeVars, factoryMutex, deviceMap, semaphores, value, driverMode,
                     sleeping, given>>
  BY DEF Get, vulkanVars
<1>3. c \in EntryCalls
  BY <1>2 DEF EntryCalls, Entry, VulkanTypeOK
<1>4. /\ c \in VulkanCalls /\ IsVulkanCall(c)
      /\ c.op = "entry" /\ c.d = d /\ c.what = what /\ c.at = at /\ c.semaphore = given[d]
  BY <1>3 DEF VulkanCalls, IsVulkanCall, Entry
<1>5. call' = [call EXCEPT ![t] = c]
  BY <1>1
<1> HIDE DEF c
<1>6. /\ call' \in [Threads -> VulkanCalls] /\ call'[t] = c
      /\ \A u \in Threads \ {t} : call'[u] = call[u]
  BY <1>4, <1>5, CallBecomes
<1>7. lifetimeCall' = lifetimeCall
  BY <1>2, <1>4, <1>5, LifetimeStutters
<1>8. VulkanTypeOK'
  BY <1>2, <1>6 DEF VulkanTypeOK
<1>9. call[t].op = "idle"
  BY <1>2 DEF Idle
<1>10. UsersOK' /\ MakersOK'
  BY <1>2, <1>4, <1>6, <1>9 DEF FactoryInv, UsersOK, MakersOK, IsVulkanCall, Makes, Destroys,
     Mapped, lifetimeVars
<1>11. DestroysAlone'
  <2>1. \A u \in Threads : Destroys(u) => call[u].d # d
    BY <1>2 DEF Destroying, On, Destroys
  <2> QED
    BY <1>2, <1>4, <1>6, <2>1 DEF FactoryInv, DestroysAlone, IsVulkanCall, Destroys
<1>12. OwnersOK'
  BY <1>2, <1>4, <1>6, <1>9 DEF FactoryInv, OwnersOK, Emplaces, Mapped
<1>13. GivenOK' /\ UsesOK'
  BY <1>2, <1>4, <1>6, <1>9 DEF FactoryInv, GivenOK, UsesOK, Uses
<1>14. SettersOK'
  <2>1. \A u \in Threads : Uses(u) /\ call[u].d = d => call[u].what # what \/ what = "other"
    BY <1>2 DEF On, Uses
  <2> QED
    BY <1>2, <1>4, <1>6, <1>9, <2>1 DEF FactoryInv, SettersOK, Uses, Stores
<1>15. StatusOK'
  BY <1>2, <1>4, <1>6, <1>9 DEF FactoryInv, StatusOK, Stores, Uses, Reported
<1> QED
  BY <1>2, <1>7, <1>8, <1>10, <1>11, <1>12, <1>13, <1>14, <1>15 DEF Kept, FactoryInv

(* A mode the driver takes is the one it runs with until it is stored.     *)
LEMMA DriverSetSleepModeStep ==
  ASSUME VulkanTypeOK, FactoryInv, NEW t \in Threads, DriverSetSleepMode(t)
  PROVE  Kept
<1>0. PICK d : d = call[t].d
  OBVIOUS
<1>1. /\ call[t] \in EntryCalls /\ d \in VkDevices
      /\ call[t].op = "entry" /\ call[t].at = "invoke" /\ call[t].what = "sleepMode"
      /\ call[t].mode \in BOOLEAN
      /\ UNCHANGED <<lifetimeVars, factoryMutex, deviceMap, semaphores, value, sleeping, given>>
  BY <1>0, CallForms DEF DriverSetSleepMode, Invoked, VulkanTypeOK, EntryCalls
<1>2. CASE call' = [call EXCEPT ![t] = Idle] /\ UNCHANGED driverMode
  BY <1>2, QuietSteps
<1>3. CASE /\ call' = [call EXCEPT ![t].at = "store"]
           /\ driverMode' = IF Impl(t) = "fake" THEN driverMode
                            ELSE [driverMode EXCEPT ![d] = call[t].mode]
  <2> DEFINE c == [call[t] EXCEPT !.at = "store"]
  <2>1. call' = [call EXCEPT ![t] = c]
    BY <1>3
  <2>2. /\ c \in EntryCalls /\ c.op = "entry" /\ c.d = d /\ c.at = "store"
        /\ c.what = "sleepMode" /\ c.mode = call[t].mode /\ c.semaphore = call[t].semaphore
    BY <1>0, <1>1 DEF EntryCalls
  <2>3. c \in VulkanCalls /\ IsVulkanCall(c) /\ IsVulkanCall(call[t])
    BY <1>1, <2>2 DEF VulkanCalls, IsVulkanCall
  <2> HIDE DEF c
  <2>4. /\ call' \in [Threads -> VulkanCalls] /\ call'[t] = c
        /\ \A u \in Threads \ {t} : call'[u] = call[u]
    BY <2>1, <2>3, CallBecomes
  <2>5. lifetimeCall' = lifetimeCall
    BY <2>1, <2>3, LifetimeStutters
  <2>6. /\ driverMode' \in [VkDevices -> BOOLEAN]
        /\ \A e \in VkDevices \ {d} : driverMode'[e] = driverMode[e]
        /\ deviceMap[d].impl # "fake" => driverMode'[d] = call[t].mode
    BY <1>0, <1>1, <1>3 DEF VulkanTypeOK, Impl
  <2>7. VulkanTypeOK'
    BY <1>1, <2>4, <2>6 DEF VulkanTypeOK
  <2>8. UsersOK' /\ MakersOK' /\ DestroysAlone'
    BY <1>0, <1>1, <2>2, <2>3, <2>4 DEF FactoryInv, UsersOK, MakersOK, DestroysAlone,
       IsVulkanCall, Makes, Destroys, Mapped, lifetimeVars
  <2>9. OwnersOK'
    BY <1>1, <2>2, <2>4 DEF FactoryInv, OwnersOK, Emplaces, Mapped
  <2>10. GivenOK' /\ UsesOK'
    BY <1>0, <1>1, <2>2, <2>4 DEF FactoryInv, GivenOK, UsesOK, Uses
  <2>11. ASSUME NEW u \in Threads, NEW w \in Threads, Uses(u)', Uses(w)',
                call'[u].d = call'[w].d, call'[u].what = "sleepMode", call'[w].what = "sleepMode"
         PROVE  u = w
    <3>1. \A x \in Threads : Uses(x)' => /\ Uses(x) /\ call'[x].d = call[x].d
                                         /\ call'[x].what = call[x].what
      BY <1>0, <1>1, <2>2, <2>4 DEF Uses
    <3> QED
      BY <2>11, <3>1 DEF FactoryInv, SettersOK
  <2>12. ASSUME NEW u \in Threads, Stores(u)'
         PROVE  /\ call'[u].what = "sleepMode"
                /\ (deviceMap[call[u].d].impl = "lowLatency2" => driverMode[call[u].d] = call[u].mode)'
    <3>1. CASE u = t
      BY <1>1, <2>2, <2>4, <2>6, <3>1
    <3>2. CASE u # t
      <4>1. Stores(u) /\ call'[u] = call[u]
        BY <2>4, <2>12, <3>2 DEF Stores, Uses
      <4>2. call[u] \in EntryCalls /\ call[u].what = "sleepMode"
        BY <4>1, CallForms DEF Stores, Uses, VulkanTypeOK, FactoryInv, SettersOK
      <4>3. call[u].d \in VkDevices \ {d}
        BY <1>0, <1>1, <3>2, <4>1, <4>2 DEF FactoryInv, SettersOK, Stores, Uses, EntryCalls
      <4>4. deviceMap[call[u].d].impl = "lowLatency2" => driverMode[call[u].d] = call[u].mode
        BY <4>1 DEF FactoryInv, SettersOK
      <4> QED
        BY <1>1, <2>6, <4>1, <4>2, <4>3, <4>4
    <3> QED
      BY <3>1, <3>2
  <2>13. SettersOK'
    BY <2>11, <2>12 DEF SettersOK
  <2>14. StatusOK'
    <3> SUFFICES ASSUME NEW e \in VkDevices, (Reported(e) /\ ~driverMode[e])'
                 PROVE  \E u \in Threads : (Stores(u) /\ call[u].d = e)'
      BY DEF StatusOK
    <3>1. CASE e = d
      BY <2>2, <2>4, <3>1 DEF Stores, Uses
    <3>2. CASE e # d
      <4>1. Reported(e) /\ ~driverMode[e]
        BY <1>1, <2>6, <3>2 DEF Reported
      <4>2. PICK u \in Threads : Stores(u) /\ call[u].d = e
        BY <4>1 DEF FactoryInv, StatusOK
      <4>3. u # t
        BY <1>0, <3>2, <4>2
      <4> QED
        BY <2>4, <4>2, <4>3 DEF Stores, Uses
    <3> QED
      BY <3>1, <3>2
  <2> QED
    BY <1>1, <2>5, <2>7, <2>8, <2>9, <2>10, <2>13, <2>14 DEF Kept, FactoryInv
<1> QED
  BY <1>0, <1>2, <1>3 DEF DriverSetSleepMode, Return, Continue

(* Of the kinds of device only "lowLatency2" keeps the mode that was set.  *)
LEMMA StoreModeStep ==
  ASSUME VulkanTypeOK, FactoryInv, NEW t \in Threads, StoreMode(t)
  PROVE  Kept
<1>0. PICK d, m : /\ d = call[t].d
                  /\ m = IF Impl(t) = "lowLatency2" THEN call[t].mode ELSE deviceMap[d].mode
  OBVIOUS
<1>1. /\ call[t] \in EntryCalls /\ d \in VkDevices
      /\ call[t].op = "entry" /\ call[t].at = "store" /\ call[t].mode \in BOOLEAN
      /\ call[t].semaphore \in Semaphores
      /\ call' = [call EXCEPT ![t] = Idle]
      /\ UNCHANGED <<lifetimeVars, factoryMutex, semaphores, value, driverMode, sleeping, given>>
  BY <1>0, CallForms DEF StoreMode, VulkanTypeOK, EntryCalls, Return, Continue, driverVars
<1>2. Stores(t) /\ Uses(t) /\ IsVulkanCall(call[t])
  BY <1>1 DEF Stores, Uses, IsVulkanCall
<1>3. Mapped(d) /\ deviceMap[d] \in Devices
  <2>1. deviceMap[d].semaphore = call[t].semaphore
    BY <1>0, <1>1, <1>2 DEF FactoryInv, UsesOK
  <2> QED
    BY <1>1, <2>1, MappedDevices
<1>4. deviceMap' = [deviceMap EXCEPT ![d] = [deviceMap[d] EXCEPT !.mode = m]]
  BY <1>0 DEF StoreMode
<1> DEFINE device == [deviceMap[d] EXCEPT !.mode = m]
<1>5. /\ device \in Devices /\ device.semaphore = deviceMap[d].semaphore
      /\ device.impl = deviceMap[d].impl /\ device.mode = m
  BY <1>0, <1>1, <1>3 DEF Devices
<1>6. deviceMap' = [deviceMap EXCEPT ![d] = device]
  BY <1>4
<1> HIDE DEF device
<1>7. /\ deviceMap' \in [VkDevices -> {NoDevice} \cup Devices]
      /\ deviceMap'[d] = device
      /\ \A e \in VkDevices \ {d} : deviceMap'[e] = deviceMap[e]
  BY <1>1, <1>5, <1>6 DEF VulkanTypeOK
<1>8. \A e \in VkDevices : /\ deviceMap'[e].semaphore = deviceMap[e].semaphore
                           /\ deviceMap'[e].impl = deviceMap[e].impl
                           /\ Mapped(e)' <=> Mapped(e)
  <2>1. Mapped(d)'
    <3>1. deviceMap[d].semaphore # 0
      BY <1>1, <1>3, MappedDevices
    <3> QED
      BY <1>5, <1>7, <3>1 DEF Mapped, NoDevice
  <2> QED
    BY <1>3, <1>5, <1>7, <2>1 DEF Mapped
<1>9. /\ call' \in [Threads -> VulkanCalls] /\ call'[t] = Idle
      /\ \A u \in Threads \ {t} : call'[u] = call[u]
  BY <1>1, IdleIsNoVulkanCall, CallBecomes
<1>10. lifetimeCall' = lifetimeCall
  BY <1>1, <1>2, IdleIsNoVulkanCall, LifetimeStutters
<1>11. VulkanTypeOK'
  BY <1>1, <1>7, <1>9 DEF VulkanTypeOK
<1>12. call'[t].op = "idle"
  BY <1>9 DEF Idle
<1>13. \A u \in Threads : IsVulkanCall(call'[u]) =>
         /\ u # t /\ call'[u] = call[u] /\ call[u].d \in VkDevices
  <2> SUFFICES ASSUME NEW u \in Threads, IsVulkanCall(call'[u])
               PROVE  u # t /\ call'[u] = call[u] /\ call[u].d \in VkDevices
    OBVIOUS
  <2>1. u # t /\ call'[u] = call[u]
    BY <1>9, <1>12 DEF IsVulkanCall
  <2>2. call[u] \in InitCalls \cup DestroyCalls \cup EntryCalls
    BY <2>1, CallForms DEF IsVulkanCall, VulkanTypeOK
  <2> QED
    BY <2>1, <2>2 DEF InitCalls, DestroyCalls, EntryCalls
<1>14. UsersOK' /\ MakersOK' /\ DestroysAlone'
  BY <1>1, <1>8, <1>13 DEF FactoryInv, UsersOK, MakersOK, DestroysAlone, IsVulkanCall, Makes,
     Destroys, lifetimeVars
<1>15. OwnersOK'
  <2>1. \A u \in Threads : /\ Emplaces(u)' <=> Emplaces(u)
                           /\ Emplaces(u) => call'[u] = call[u]
    BY <1>1, <1>9, <1>12 DEF Emplaces
  <2> QED
    BY <1>1, <1>8, <2>1 DEF FactoryInv, OwnersOK
<1>16. GivenOK' /\ UsesOK'
  BY <1>1, <1>8, <1>13 DEF FactoryInv, GivenOK, UsesOK, IsVulkanCall, Uses
<1>17. SettersOK'
  BY <1>1, <1>8, <1>13 DEF FactoryInv, SettersOK, IsVulkanCall, Uses, Stores
<1>18. StatusOK'
  <2> SUFFICES ASSUME NEW e \in VkDevices, (Reported(e) /\ ~driverMode[e])'
               PROVE  \E u \in Threads : (Stores(u) /\ call[u].d = e)'
    BY DEF StatusOK
  <2>1. e # d
    <3> SUFFICES ASSUME e = d PROVE FALSE
      OBVIOUS
    <3>1. deviceMap[d].impl = "lowLatency2" /\ m /\ ~driverMode[d]
      BY <1>1, <1>5, <1>7 DEF Reported
    <3>2. driverMode[d] = call[t].mode
      BY <1>0, <1>2, <3>1 DEF FactoryInv, SettersOK
    <3> QED
      BY <1>0, <3>1, <3>2 DEF Impl
  <2>2. Reported(e) /\ ~driverMode[e]
    BY <1>1, <1>7, <2>1 DEF Reported
  <2>3. PICK u \in Threads : Stores(u) /\ call[u].d = e
    BY <2>2 DEF FactoryInv, StatusOK
  <2>4. u # t
    BY <1>0, <2>1, <2>3
  <2> QED
    BY <1>9, <2>3, <2>4 DEF Stores, Uses
<1> QED
  BY <1>1, <1>10, <1>11, <1>14, <1>15, <1>16, <1>17, <1>18 DEF Kept, FactoryInv

(* A sleep the device accepts: its caller waits for the semaphore.         *)
LEMMA LatencySleepStep ==
  ASSUME VulkanTypeOK, FactoryInv, NEW t \in Threads, LatencySleep(t)
  PROVE  Kept
<1>0. PICK s : s = deviceMap[call[t].d].semaphore
  OBVIOUS
<1>1. /\ call[t] \in EntryCalls
      /\ call[t].op = "entry" /\ call[t].at = "invoke"
      /\ call[t].value \in Nat /\ call[t].semaphore \in Semaphores
      /\ UNCHANGED <<lifetimeVars, factoryMutex, deviceMap, semaphores, driverMode, given>>
  BY CallForms DEF LatencySleep, Invoked, VulkanTypeOK, EntryCalls
<1>2. s \in Semaphores
  BY <1>0, <1>1 DEF FactoryInv, UsesOK, Uses
<1>3. CASE call' = [call EXCEPT ![t] = Idle] /\ UNCHANGED <<value, sleeping>>
  BY <1>3, QuietSteps
<1>4. CASE /\ call' = [call EXCEPT ![t].at = "wait"]
           /\ \/ sleeping' = sleeping \cup {<<s, call[t].value>>} /\ UNCHANGED value
              \/ value' = [value EXCEPT ![s] = call[t].value] /\ UNCHANGED sleeping
  <2> DEFINE c == [call[t] EXCEPT !.at = "wait"]
  <2>1. call' = [call EXCEPT ![t] = c]
    BY <1>4
  <2>2. /\ c \in EntryCalls /\ c.op = "entry" /\ c.d = call[t].d /\ c.at = "wait"
        /\ c.what = call[t].what /\ c.semaphore = call[t].semaphore
    BY <1>1 DEF EntryCalls
  <2>3. c \in VulkanCalls /\ IsVulkanCall(c) /\ IsVulkanCall(call[t])
    BY <1>1, <2>2 DEF VulkanCalls, IsVulkanCall
  <2> HIDE DEF c
  <2>4. /\ call' \in [Threads -> VulkanCalls] /\ call'[t] = c
        /\ \A u \in Threads \ {t} : call'[u] = call[u]
    BY <2>1, <2>3, CallBecomes
  <2>5. lifetimeCall' = lifetimeCall
    BY <2>1, <2>3, LifetimeStutters
  <2>6. value' \in [Semaphores -> Nat] /\ sleeping' \subseteq Semaphores \X Nat
    BY <1>1, <1>2, <1>4 DEF VulkanTypeOK
  <2>7. VulkanTypeOK'
    BY <1>1, <2>4, <2>6 DEF VulkanTypeOK
  <2>8. UsersOK' /\ MakersOK' /\ DestroysAlone'
    BY <1>1, <2>2, <2>3, <2>4 DEF FactoryInv, UsersOK, MakersOK, DestroysAlone,
       IsVulkanCall, Makes, Destroys, Mapped, lifetimeVars
  <2>9. OwnersOK'
    BY <1>1, <2>2, <2>4 DEF FactoryInv, OwnersOK, Emplaces, Mapped
  <2>10. GivenOK' /\ UsesOK'
    BY <1>1, <2>2, <2>4 DEF FactoryInv, GivenOK, UsesOK, Uses
  <2>11. \A u \in Threads : /\ Uses(u)' => /\ Uses(u) /\ call'[u].d = call[u].d
                                           /\ call'[u].what = call[u].what
                            /\ Stores(u)' => Stores(u) /\ call'[u] = call[u]
                            /\ Stores(u) => Stores(u)' /\ call'[u] = call[u]
    BY <1>1, <2>2, <2>4 DEF Uses, Stores
  <2>12. SettersOK'
    BY <1>1, <2>11 DEF FactoryInv, SettersOK
  <2>13. StatusOK'
    BY <1>1, <2>11 DEF FactoryInv, StatusOK, Reported
  <2> QED
    BY <1>1, <2>5, <2>7, <2>8, <2>9, <2>10, <2>12, <2>13 DEF Kept, FactoryInv
<1> QED
  BY <1>0, <1>3, <1>4 DEF LatencySleep, Wait, Return, Continue

(* The driver's signals concern no device.                                 *)
LEMMA DriverSignalsStep ==
  ASSUME VulkanTypeOK, FactoryInv, NEW s \in Semaphores, DriverSignals(s)
  PROVE  Kept
<1>1. UNCHANGED <<lifetimeVars, call, factoryMutex, deviceMap, semaphores, driverMode, given>>
  BY DEF DriverSignals
<1>2. value' \in [Semaphores -> Nat] /\ sleeping' \subseteq Semaphores \X Nat
  <2>1. PICK p \in Semaphores \X Nat :
          value' = [value EXCEPT ![p[1]] = p[2]] /\ sleeping' = sleeping \ {p}
    BY DEF DriverSignals, VulkanTypeOK
  <2> QED
    BY <2>1 DEF VulkanTypeOK
<1>3. VulkanTypeOK'
  BY <1>1, <1>2 DEF VulkanTypeOK
<1>4. lifetimeCall' = lifetimeCall
  BY <1>1 DEF lifetimeCall, IsVulkanCall
<1>5. UsersOK' /\ MakersOK' /\ DestroysAlone'
  BY <1>1 DEF FactoryInv, UsersOK, MakersOK, DestroysAlone, IsVulkanCall, Makes, Destroys, Mapped,
     lifetimeVars
<1>6. OwnersOK'
  BY <1>1 DEF FactoryInv, OwnersOK, Emplaces, Mapped
<1>7. GivenOK' /\ UsesOK' /\ SettersOK' /\ StatusOK'
  BY <1>1 DEF FactoryInv, GivenOK, UsesOK, SettersOK, StatusOK, Uses, Stores, Reported
<1> QED
  BY <1>1, <1>3, <1>4, <1>5, <1>6, <1>7 DEF Kept, FactoryInv

(* A call of the library's lifetime remains one.                           *)
LEMMA LifetimeCallForms ==
  ASSUME VulkanTypeOK, Lifetime!LifetimeInv', NEW t \in Threads, LifetimeStep(t) \/ Reset(t)
  PROVE  call' \in [Threads -> VulkanCalls]
<1>1. call' = [u \in Threads |-> call'[u]]
  <2>1. ASSUME NEW c, call' = [call EXCEPT ![t] = c] PROVE call' = [u \in Threads |-> call'[u]]
    BY <2>1 DEF VulkanTypeOK
  <2>2. CASE UNCHANGED call
    BY <2>2 DEF VulkanTypeOK
  <2>3. CASE InitializeAgain(t)
    BY <2>2, <2>3 DEF InitializeAgain
  <2>4. CASE InitializeFirst(t)
    BY <2>1, <2>4 DEF InitializeFirst, Continue
  <2>5. CASE FindAdapters(t)
    BY <2>1, <2>5 DEF FindAdapters, Return, Continue
  <2>6. CASE FailInitialize(t)
    BY <2>1, <2>6 DEF FailInitialize, Continue
  <2>7. CASE Unload(t)
    BY <2>1, <2>2, <2>7 DEF Unload, Continue
  <2>8. CASE DeleteAdapters(t)
    BY <2>1, <2>8 DEF DeleteAdapters, Return, Continue
  <2>9. CASE Reset(t)
    BY <2>1, <2>9 DEF Reset, ResetCaches
  <2> QED
    BY <2>3, <2>4, <2>5, <2>6, <2>7, <2>8, <2>9 DEF LifetimeStep
<1>2. call'[t] \in VulkanCalls
  <2>1. lifetimeCall'[t] = call'[t]
    BY LifetimeSteps DEF lifetimeCall, IsVulkanCall
  <2>2. lifetimeCall'[t] \in Lifetime!Calls
    BY DEF Lifetime!LifetimeInv, Lifetime!TypeOK
  <2>3. Lifetime!Calls = Calls
    BY DEF Lifetime!Calls, Calls, Idle, Lifetime!Idle
  <2> QED
    BY <2>1, <2>2, <2>3 DEF VulkanCalls
<1>3. \A u \in Threads \ {t} : call'[u] \in VulkanCalls
  BY LifetimeSteps DEF VulkanTypeOK
<1> QED
  BY <1>1, <1>2, <1>3

(* Initialize and Unload leave the factory as it is, ...                   *)
LEMMA LifetimeStepKeeps ==
  ASSUME VulkanInv, Lifetime!LifetimeInv', NEW t \in Threads, LifetimeStep(t)
  PROVE  VulkanTypeOK' /\ FactoryInv'
<1> USE DEF VulkanInv
<1>1. UNCHANGED vulkanVars
  BY DEF LifetimeStep
<1>2. /\ call[t].op \notin {"init", "destroy", "entry"}
      /\ call'[t].op \notin {"init", "destroy", "entry"}
      /\ \A u \in Threads \ {t} : call'[u] = call[u]
  BY LifetimeSteps
<1>3. VulkanTypeOK'
  BY <1>1, LifetimeCallForms DEF VulkanTypeOK, vulkanVars
<1>4. \A u \in Threads \ {t} : u \in holders => u \in holders'
  BY DEF LifetimeStep, InitializeAgain, InitializeFirst, FindAdapters, FailInitialize, Unload,
     DeleteAdapters
<1>5. ~Emplaces(t) /\ ~Stores(t) /\ ~IsVulkanCall(call'[t])
  BY <1>2 DEF Emplaces, Stores, Uses, IsVulkanCall
<1>6. FactoryInv'
  BY <1>1, <1>2, <1>4, <1>5, QuietStep DEF vulkanVars
<1> QED
  BY <1>3, <1>6

(* ... and the teardown, which no call of this module is in the way of,    *)
(* destroys every device.                                                  *)
LEMMA ResetKeeps ==
  ASSUME VulkanInv, Lifetime!LifetimeInv', NEW t \in Threads, Reset(t)
  PROVE  VulkanTypeOK' /\ FactoryInv'
<1> USE DEF VulkanInv
<1> DEFINE gone == {d \in VkDevices : Mapped(d)}
<1>1. /\ call[t].op = "teardown"
      /\ Destroyed(gone)
      /\ deviceMap' = [d \in VkDevices |-> NoDevice]
      /\ given' = IF holders = {} THEN [d \in VkDevices |-> 0] ELSE given
      /\ UNCHANGED <<lifetimeVars, factoryMutex, value, sleeping>>
  BY DEF Reset, ResetCaches
<1>2. holders = {}
  BY <1>1, NoTeardown
<1>3. \A u \in Threads : ~IsVulkanCall(call[u])
  BY <1>2 DEF FactoryInv, UsersOK
<1>4. \A u \in Threads : ~IsVulkanCall(call'[u])
  BY <1>3, LifetimeSteps DEF IsVulkanCall
<1>5. \A u \in Threads : ~Emplaces(u)
  BY <1>3 DEF Emplaces, IsVulkanCall
<1>6. deviceMap' = [d \in VkDevices |-> IF d \in gone THEN NoDevice ELSE deviceMap[d]]
  BY <1>1 DEF Mapped
<1>7. /\ semaphores' \subseteq Semaphores
      /\ driverMode' \in [VkDevices -> BOOLEAN]
      /\ deviceMap' \in [VkDevices -> {NoDevice} \cup Devices]
      /\ \A d \in VkDevices : ~Mapped(d)' /\ deviceMap'[d] = NoDevice
      /\ \A s \in Semaphores : s \in semaphores' <=>
           \E d \in VkDevices : Mapped(d)' /\ deviceMap'[d].semaphore = s
  <2>1. gone \in SUBSET VkDevices
    OBVIOUS
  <2> HIDE DEF gone
  <2>2. /\ semaphores' \subseteq Semaphores
        /\ driverMode' \in [VkDevices -> BOOLEAN]
        /\ deviceMap' \in [VkDevices -> {NoDevice} \cup Devices]
        /\ \A s \in Semaphores : s \in semaphores' <=>
             \E d \in VkDevices : Mapped(d)' /\ deviceMap'[d].semaphore = s
    BY <1>1, <1>5, <1>6, <2>1, DestroyedDevices
  <2> QED
    BY <1>1, <2>2 DEF Mapped
<1>8. VulkanTypeOK'
  BY <1>1, <1>2, <1>7, LifetimeCallForms DEF VulkanTypeOK
<1>9. \A u \in Threads : ~Makes(u)' /\ ~Emplaces(u)' /\ ~Destroys(u)' /\ ~Uses(u)' /\ ~Stores(u)'
  BY <1>4 DEF IsVulkanCall, Makes, Emplaces, Destroys, Uses, Stores
<1>10. UsersOK' /\ MakersOK' /\ DestroysAlone'
  BY <1>4, <1>9 DEF UsersOK, MakersOK, DestroysAlone
<1>11. OwnersOK'
  BY <1>7, <1>9 DEF OwnersOK
<1>12. GivenOK' /\ UsesOK' /\ SettersOK'
  BY <1>1, <1>2, <1>9 DEF GivenOK, UsesOK, SettersOK
<1>13. StatusOK'
  BY <1>7 DEF StatusOK, Reported, NoDevice
<1> QED
  BY <1>8, <1>10, <1>11, <1>12, <1>13 DEF FactoryInv

-----------------------------------------------------------------------------
(* What the factory promises *)

\* Every step but the library's own.
FactoryStep ==
  \/ \E t \in Threads :
       \/ \E d \in VkDevices :
            \/ LoadVulkan(t, d) \/ DestroyLowLatencyDevice(t, d)
            \/ \E mode \in BOOLEAN : SetSleepMode(t, d, mode)
            \/ Sleep(t, d) \/ OtherEntryPoint(t, d)
       \/ LockFactory(t) \/ TryCreate(t) \/ TryCreateFails(t) \/ Emplace(t)
       \/ Extract(t)
       \/ HandleInvalidated(t) \/ DriverSetSleepMode(t) \/ StoreMode(t)
       \/ LatencySleep(t) \/ OtherCall(t) \/ Wake(t)
  \/ \E s \in Semaphores : DriverSignals(s)

LEMMA FactoryStepKeeps ==
  ASSUME VulkanTypeOK, FactoryInv, FactoryStep
  PROVE  Kept
<1>1. CASE \E s \in Semaphores : DriverSignals(s)
  BY <1>1, DriverSignalsStep
<1>2. ASSUME NEW t \in Threads, NEW d \in VkDevices,
             \/ LoadVulkan(t, d) \/ DestroyLowLatencyDevice(t, d)
             \/ \E mode \in BOOLEAN : SetSleepMode(t, d, mode)
             \/ Sleep(t, d) \/ OtherEntryPoint(t, d)
      PROVE  Kept
  <2>1. CASE LoadVulkan(t, d)
    BY <2>1, LoadVulkanStep
  <2>2. CASE DestroyLowLatencyDevice(t, d)
    BY <2>2, DestroyStep
  <2>3. CASE \E mode \in BOOLEAN : SetSleepMode(t, d, mode)
    <3>1. PICK mode \in BOOLEAN : Get(t, "sleepMode", d, mode, 0)
      BY <2>3 DEF SetSleepMode
    <3> QED
      BY <3>1, GetStep
  <2>4. CASE Sleep(t, d)
    <3>1. Get(t, "sleep", d, FALSE, value[given[d]] + 1) /\ given[d] # 0
      BY <2>4 DEF Sleep
    <3>2. value[given[d]] + 1 \in Nat
      BY <3>1 DEF VulkanTypeOK
    <3> QED
      BY <3>1, <3>2, GetStep
  <2>5. CASE OtherEntryPoint(t, d)
    BY <2>5, GetStep DEF OtherEntryPoint
  <2> QED
    BY <1>2, <2>1, <2>2, <2>3, <2>4, <2>5
<1>3. ASSUME NEW t \in Threads,
             \/ LockFactory(t) \/ TryCreate(t) \/ TryCreateFails(t) \/ Emplace(t)
             \/ Extract(t)
             \/ HandleInvalidated(t) \/ DriverSetSleepMode(t) \/ StoreMode(t)
             \/ LatencySleep(t) \/ OtherCall(t) \/ Wake(t)
      PROVE  Kept
  BY <1>3, LockFactoryStep, TryCreateStep, TryCreateFailsStep, EmplaceStep, ExtractStep,
     QuietSteps, DriverSetSleepModeStep, StoreModeStep, LatencySleepStep
<1> QED
  BY <1>1, <1>2, <1>3 DEF FactoryStep

(* A step of this module is one of the library's lifetime or leaves it be. *)
LEMMA LifetimeRefined ==
  ASSUME VulkanTypeOK, FactoryInv, [VNext]_allVars
  PROVE  [Lifetime!Next]_(Lifetime!vars)
<1>1. CASE \E t \in Threads : LifetimeStep(t) \/ Reset(t)
  BY <1>1, LifetimeSteps
<1>2. CASE FactoryStep
  BY <1>2, FactoryStepKeeps DEF Kept, lifetimeVars, Lifetime!vars
<1>3. CASE UNCHANGED allVars
  BY <1>3 DEF allVars, lifetimeVars, lifetimeCall, IsVulkanCall, Lifetime!vars
<1> QED
  BY <1>1, <1>2, <1>3 DEF VNext, FactoryStep

LEMMA VulkanInvInit == VInit => VulkanInv
  BY FactoryInvInit, LifetimeInit, LifetimeAssumptions, Lifetime!InitLifetime DEF VulkanInv

LEMMA VulkanInvNext == VulkanInv /\ [VNext]_allVars => VulkanInv'
<1> SUFFICES ASSUME VulkanInv, [VNext]_allVars PROVE VulkanInv'
  OBVIOUS
<1>1. VulkanTypeOK /\ FactoryInv /\ Lifetime!LifetimeInv
  BY DEF VulkanInv
<1>2. Lifetime!LifetimeInv'
  <2>1. [Lifetime!Next]_(Lifetime!vars)
    BY <1>1, LifetimeRefined
  <2> QED
    BY <1>1, <2>1, LifetimeAssumptions, Lifetime!LifetimeNext
<1>3. CASE \E t \in Threads : LifetimeStep(t) \/ Reset(t)
  BY <1>2, <1>3, LifetimeStepKeeps, ResetKeeps DEF VulkanInv
<1>4. CASE FactoryStep
  BY <1>1, <1>2, <1>4, FactoryStepKeeps DEF Kept, VulkanInv
<1>5. CASE UNCHANGED allVars
  <2>1. VulkanTypeOK'
    BY <1>1, <1>5 DEF VulkanTypeOK, allVars, vulkanVars
  <2>2. UsersOK' /\ MakersOK' /\ DestroysAlone'
    BY <1>1, <1>5 DEF FactoryInv, UsersOK, MakersOK, DestroysAlone, IsVulkanCall, Makes, Destroys,
       Mapped, allVars, vulkanVars, lifetimeVars
  <2>3. OwnersOK'
    BY <1>1, <1>5 DEF FactoryInv, OwnersOK, Emplaces, Mapped, allVars, vulkanVars
  <2>4. GivenOK' /\ UsesOK' /\ SettersOK' /\ StatusOK'
    BY <1>1, <1>5 DEF FactoryInv, GivenOK, UsesOK, SettersOK, StatusOK, Uses, Stores, Reported,
       allVars, vulkanVars
  <2> QED
    BY <1>2, <2>1, <2>2, <2>3, <2>4 DEF VulkanInv, FactoryInv
<1> QED
  BY <1>3, <1>4, <1>5 DEF VNext, FactoryStep

LEMMA VulkanInductive == VSpec => []VulkanInv
  BY VulkanInvInit, VulkanInvNext, PTL DEF VSpec

(* The device a call works with is mapped, so its semaphore is alive.      *)
LEMMA DeviceInUse ==
  ASSUME VulkanInv, NEW t \in Threads, Uses(t), call[t].at # "missed"
  PROVE  /\ deviceMap[call[t].d].semaphore = call[t].semaphore
         /\ call[t].semaphore \in semaphores
         /\ call[t].d \in VkDevices /\ Mapped(call[t].d)
<1>1. VulkanTypeOK /\ OwnersOK
  BY DEF VulkanInv, FactoryInv
<1>2. deviceMap[call[t].d].semaphore = call[t].semaphore
  BY DEF VulkanInv, FactoryInv, UsesOK
<1>3. call[t] \in EntryCalls
  BY <1>1, CallForms DEF Uses, VulkanTypeOK
<1>4. call[t].d \in VkDevices /\ call[t].semaphore \in Semaphores
  BY <1>3 DEF EntryCalls
<1>5. Mapped(call[t].d)
  BY <1>1, <1>2, <1>4, MappedDevices
<1> QED
  BY <1>1, <1>2, <1>4, <1>5 DEF OwnersOK

-----------------------------------------------------------------------------
(* The theorems *)

(* With the factory in it, whose devices the teardown destroys and whose   *)
(* calls interleave with everybody's Initialize and Unload, the library is *)
(* initialised and unloaded exactly as ApiLifetime says: every step maps   *)
(* to a step of that module or to a stutter, so what is proved there holds *)
(* here.                                                                   *)
THEOREM ImplementsLifetime == VSpec => Lifetime!Init /\ [][Lifetime!Next]_(Lifetime!vars)
<1>1. VInit => Lifetime!Init
  BY LifetimeInit
<1>2. VulkanInv /\ [VNext]_allVars => [Lifetime!Next]_(Lifetime!vars)
  BY LifetimeRefined DEF VulkanInv
<1> QED
  BY <1>1, <1>2, VulkanInductive, PTL DEF VSpec

(* No path through the three implementations, their failures, Destroy and  *)
(* the library's teardown leaks a semaphore or destroys one twice.         *)
THEOREM NoSemaphoreLeaks == VSpec => []SemaphoresAccountedFor
<1>1. VulkanInv => SemaphoresAccountedFor
  <2> SUFFICES ASSUME VulkanInv PROVE SemaphoresAccountedFor
    OBVIOUS
  <2> DEFINE owned == [d \in {e \in VkDevices : Mapped(e)} |-> deviceMap[d].semaphore]
             made == {call[t].semaphore : t \in {u \in Threads : call[u].op = "init"
                                                                 /\ call[u].at = "emplace"}}
  <2>1. VulkanTypeOK /\ OwnersOK
    BY DEF VulkanInv, FactoryInv
  <2>2. \A d \in VkDevices : Mapped(d) => deviceMap[d].semaphore \in Semaphores
    BY <2>1, MappedDevices
  <2>3. \A t \in Threads : Emplaces(t) => call[t].semaphore \in Semaphores
    <3> SUFFICES ASSUME NEW t \in Threads, Emplaces(t) PROVE call[t].semaphore \in Semaphores
      OBVIOUS
    <3>1. call[t] \in InitCalls
      BY <2>1, CallForms DEF Emplaces, VulkanTypeOK
    <3> QED
      BY <2>1, <3>1 DEF OwnersOK, InitCalls
  <2>4. \A s : s \in semaphores <=> s \in {owned[d] : d \in DOMAIN owned} \cup made
    <3>1. ASSUME NEW s \in semaphores PROVE s \in {owned[d] : d \in DOMAIN owned} \cup made
      <4>1. \/ \E d \in VkDevices : Mapped(d) /\ deviceMap[d].semaphore = s
            \/ \E t \in Threads : Emplaces(t) /\ call[t].semaphore = s
        BY <2>1 DEF OwnersOK, VulkanTypeOK
      <4> QED
        BY <4>1 DEF Emplaces
    <3>2. ASSUME NEW d \in DOMAIN owned PROVE owned[d] \in semaphores
      BY <2>1, <2>2 DEF OwnersOK
    <3>3. ASSUME NEW t \in Threads, Emplaces(t) PROVE call[t].semaphore \in semaphores
      BY <2>1, <2>3, <3>3 DEF OwnersOK
    <3> QED
      BY <3>1, <3>2, <3>3 DEF Emplaces
  <2>5. \A d, e \in DOMAIN owned : owned[d] = owned[e] => d = e
    BY <2>1 DEF OwnersOK
  <2>6. \A d \in DOMAIN owned : owned[d] \notin made
    BY <2>1 DEF OwnersOK, Emplaces
  <2> QED
    BY <2>4, <2>5, <2>6 DEF SemaphoresAccountedFor
<1> QED
  BY <1>1, VulkanInductive, PTL

(* While the library is in use, the semaphore the application was given is *)
(* the one its device sleeps on: a second initialisation or another user's *)
(* Initialize and Unload never replace it.                                 *)
THEOREM GivenSemaphores == VSpec => []GivenSemaphoreIsUsed
<1>1. VulkanInv => GivenSemaphoreIsUsed
  <2> SUFFICES ASSUME VulkanInv, NEW d \in VkDevices, given[d] # 0
               PROVE  given[d] \in semaphores /\ deviceMap[d].semaphore = given[d]
    BY DEF GivenSemaphoreIsUsed
  <2>1. VulkanTypeOK /\ OwnersOK
    BY DEF VulkanInv, FactoryInv
  <2>2. deviceMap[d].semaphore = given[d]
    BY DEF VulkanInv, FactoryInv, GivenOK
  <2>3. Mapped(d) /\ given[d] \in Semaphores
    BY <2>1, <2>2, MappedDevices
  <2> QED
    BY <2>1, <2>2, <2>3 DEF OwnersOK
<1> QED
  BY <1>1, VulkanInductive, PTL

(* A device that Get found without the mutex still exists when the entry   *)
(* point uses it, and the semaphore while the caller waits for its sleep.  *)
THEOREM DevicesInUse == VSpec => []DeviceInUseExists
<1>1. VulkanInv => DeviceInUseExists
  BY DeviceInUse DEF DeviceInUseExists, Uses
<1> QED
  BY <1>1, VulkanInductive, PTL

(* GetSleepStatus never reports a low latency mode the driver does not run *)
(* with, unless a change of mode is between the driver and the stored mode.*)
THEOREM ReportedStatus == VSpec => []StatusNeverOverstates
<1>1. VulkanInv => StatusNeverOverstates
  <2> SUFFICES ASSUME VulkanInv, NEW d \in VkDevices,
                      \A t \in Threads : On(t, d) /\ call[t].op = "entry" => call[t].at # "store"
               PROVE  Reported(d) => driverMode[d]
    BY DEF StatusNeverOverstates
  <2>1. \A t \in Threads : ~(Stores(t) /\ call[t].d = d)
    BY DEF On, Stores, Uses
  <2> QED
    BY <2>1 DEF VulkanInv, FactoryInv, StatusOK
<1> QED
  BY <1>1, VulkanInductive, PTL

-----------------------------------------------------------------------------
(* Sleeps, and the signals they are owed *)

\* A call that sleeps on a device it has found, and one whose sleep the device accepted.
Sleeps(t) == Uses(t) /\ call[t].what = "sleep" /\ call[t].at # "missed"
Waits(t) == Uses(t) /\ call[t].at = "wait"
Signal(t) == <<call[t].semaphore, call[t].value>>

\* One call at a time sleeps on a device.  What it asks for is the semaphore's next value,
\* until that is signalled; and nothing else is to be signalled.
SleepsOK ==
  /\ \A t \in Threads : Waits(t) => call[t].what = "sleep"
  /\ \A t, u \in Threads : Sleeps(t) /\ Sleeps(u) /\ call[t].d = call[u].d => t = u
  /\ \A p \in sleeping : \E t \in Threads : Waits(t) /\ Signal(t) = p
  /\ \A t \in Threads : Sleeps(t) =>
       call[t].value = IF Waits(t) /\ Signal(t) \notin sleeping
                         THEN value[call[t].semaphore]
                         ELSE value[call[t].semaphore] + 1

(* Two calls do not sleep on one semaphore.                                *)
LEMMA SemaphoreHasOneSleeper ==
  ASSUME VulkanInv, SleepsOK, NEW t \in Threads, NEW u \in Threads, Sleeps(t), Sleeps(u),
         call[t].semaphore = call[u].semaphore
  PROVE  t = u
<1>1. /\ call[t].d \in VkDevices /\ call[u].d \in VkDevices
      /\ Mapped(call[t].d) /\ Mapped(call[u].d)
      /\ deviceMap[call[t].d].semaphore = deviceMap[call[u].d].semaphore
  BY DeviceInUse DEF Sleeps
<1>2. call[t].d = call[u].d
  BY <1>1 DEF VulkanInv, FactoryInv, OwnersOK
<1> QED
  BY <1>2 DEF SleepsOK

(* A step of a thread that is owed no signal and does not go to sleep.     *)
LEMMA SleepsStay ==
  ASSUME SleepsOK, NEW t \in Threads, UNCHANGED <<value, sleeping>>,
         \A u \in Threads \ {t} : call'[u] = call[u],
         ~Sleeps(t)', ~Waits(t)', Waits(t) => Signal(t) \notin sleeping
  PROVE  SleepsOK'
<1>1. \A u \in Threads \ {t} : /\ Sleeps(u)' <=> Sleeps(u)
                               /\ Waits(u)' <=> Waits(u)
                               /\ Signal(u)' = Signal(u)
  BY DEF Sleeps, Waits, Uses, Signal
<1>2. \A p \in sleeping : \E u \in Threads \ {t} : Waits(u) /\ Signal(u) = p
  BY DEF SleepsOK
<1> QED
  BY <1>1, <1>2 DEF SleepsOK

(* The steps that neither sleep nor wake anybody nor make a semaphore.     *)
LEMMA WakefulSteps ==
  ASSUME VulkanInv, SleepsOK, NEW t \in Threads,
         \/ LifetimeStep(t) \/ Reset(t)
         \/ \E d \in VkDevices :
              \/ LoadVulkan(t, d) \/ DestroyLowLatencyDevice(t, d)
              \/ \E mode \in BOOLEAN : SetSleepMode(t, d, mode)
              \/ OtherEntryPoint(t, d)
         \/ LockFactory(t) \/ TryCreateFails(t) \/ Emplace(t) \/ Extract(t)
         \/ HandleInvalidated(t) \/ DriverSetSleepMode(t) \/ StoreMode(t) \/ OtherCall(t)
  PROVE  SleepsOK'
<1>0. VulkanTypeOK
  BY DEF VulkanInv
<1>1. ASSUME NEW c, call' = [call EXCEPT ![t] = c], UNCHANGED <<value, sleeping>>, ~Waits(t),
             c.op = "entry" => c.what # "sleep" /\ c.at # "wait"
      PROVE  SleepsOK'
  <2>1. call'[t] = c /\ \A u \in Threads \ {t} : call'[u] = call[u]
    BY <1>0, <1>1 DEF VulkanTypeOK
  <2>2. ~Sleeps(t)' /\ ~Waits(t)'
    BY <1>1, <2>1 DEF Sleeps, Waits, Uses
  <2> QED
    BY <1>1, <2>1, <2>2, SleepsStay
<1>2. CASE LifetimeStep(t) \/ Reset(t)
  <2>1. UNCHANGED <<value, sleeping>>
    BY <1>2 DEF LifetimeStep, Reset, vulkanVars
  <2>2. /\ call[t].op # "entry" /\ call'[t].op # "entry"
        /\ \A u \in Threads \ {t} : call'[u] = call[u]
    BY <1>0, <1>2, LifetimeSteps
  <2>3. ~Waits(t) /\ ~Waits(t)' /\ ~Sleeps(t)'
    BY <2>2 DEF Sleeps, Waits, Uses
  <2> QED
    BY <2>1, <2>2, <2>3, SleepsStay
<1>3. ASSUME NEW d \in VkDevices, LoadVulkan(t, d) PROVE SleepsOK'
  <2>1. PICK c : /\ c = [op |-> "init", d |-> d, at |-> "lock", impl |-> 1, semaphore |-> 0]
                 /\ call' = [call EXCEPT ![t] = c]
    BY <1>3 DEF LoadVulkan, Continue
  <2>2. UNCHANGED <<value, sleeping>> /\ ~Waits(t) /\ c.op = "init"
    BY <1>3, <2>1 DEF LoadVulkan, driverVars, Waits, Uses, Idle
  <2> QED
    BY <1>1, <2>1, <2>2
<1>4. ASSUME NEW d \in VkDevices, DestroyLowLatencyDevice(t, d) PROVE SleepsOK'
  <2>1. PICK c : c = [op |-> "destroy", d |-> d] /\ call' = [call EXCEPT ![t] = c]
    BY <1>4 DEF DestroyLowLatencyDevice, Continue
  <2>2. UNCHANGED <<value, sleeping>> /\ ~Waits(t) /\ c.op = "destroy"
    BY <1>4, <2>1 DEF DestroyLowLatencyDevice, driverVars, Waits, Uses, Idle
  <2> QED
    BY <1>1, <2>1, <2>2
<1>5. ASSUME NEW d \in VkDevices, NEW what \in {"sleepMode", "other"}, NEW mode \in BOOLEAN,
             Get(t, what, d, mode, 0)
      PROVE  SleepsOK'
  <2>1. PICK at \in {"invoke", "missed"} : call' = [call EXCEPT ![t] = Entry(what, d, at, mode, 0)]
    BY <1>5 DEF Get, Continue
  <2>2. UNCHANGED <<value, sleeping>> /\ ~Waits(t)
    BY <1>5 DEF Get, vulkanVars, Waits, Uses, Idle
  <2>3. Entry(what, d, at, mode, 0).what # "sleep" /\ Entry(what, d, at, mode, 0).at # "wait"
    BY DEF Entry
  <2> QED
    BY <1>1, <2>1, <2>2, <2>3
<1>6. CASE call[t].op = "init" /\ (LockFactory(t) \/ TryCreateFails(t) \/ Emplace(t))
  <2>1. UNCHANGED <<value, sleeping>> /\ ~Waits(t)
    BY <1>6 DEF LockFactory, TryCreateFails, Emplace, driverVars, Waits, Uses
  <2>2. call[t] \in InitCalls
    BY <1>0, <1>6, CallForms DEF VulkanTypeOK
  <2>3. CASE call' = [call EXCEPT ![t] = Idle]
    BY <1>1, <2>1, <2>3 DEF Idle
  <2>4. CASE call' = [call EXCEPT ![t] = [call[t] EXCEPT !.at = "try"]]
    <3>1. [call[t] EXCEPT !.at = "try"].op = "init"
      BY <2>2 DEF InitCalls
    <3> QED
      BY <1>1, <2>1, <2>4, <3>1
  <2>5. CASE call' = [call EXCEPT ![t] = [call[t] EXCEPT !.impl = call[t].impl + 1]]
    <3>1. [call[t] EXCEPT !.impl = call[t].impl + 1].op = "init"
      BY <2>2 DEF InitCalls
    <3> QED
      BY <1>1, <2>1, <2>5, <3>1
  <2> QED
    BY <1>6, <2>3, <2>4, <2>5 DEF LockFactory, TryCreateFails, Emplace, Return, Continue
<1>7. CASE Extract(t)
  BY <1>1, <1>7 DEF Extract, Return, Continue, Idle, Waits, Uses
<1>8. CASE HandleInvalidated(t) \/ StoreMode(t) \/ OtherCall(t)
  BY <1>1, <1>8 DEF HandleInvalidated, StoreMode, OtherCall, Invoked, Return, Continue, Idle,
     vulkanVars, driverVars, Waits, Uses
<1>9. CASE DriverSetSleepMode(t)
  <2>1. UNCHANGED <<value, sleeping>> /\ ~Waits(t)
    BY <1>9 DEF DriverSetSleepMode, Invoked, Waits, Uses
  <2>2. CASE call' = [call EXCEPT ![t] = Idle]
    BY <1>1, <2>1, <2>2 DEF Idle
  <2>3. CASE call' = [call EXCEPT ![t] = [call[t] EXCEPT !.at = "store"]]
    <3>1. call[t] \in EntryCalls /\ call[t].what = "sleepMode"
      BY <1>0, <1>9, CallForms DEF DriverSetSleepMode, Invoked, VulkanTypeOK
    <3>2. /\ [call[t] EXCEPT !.at = "store"].what # "sleep"
          /\ [call[t] EXCEPT !.at = "store"].at # "wait"
      BY <3>1 DEF EntryCalls
    <3> QED
      BY <1>1, <2>1, <2>3, <3>2
  <2> QED
    BY <1>9, <2>2, <2>3 DEF DriverSetSleepMode, Return, Continue
<1> QED
  BY <1>2, <1>3, <1>4, <1>5, <1>6, <1>7, <1>8, <1>9
     DEF SetSleepMode, OtherEntryPoint, LockFactory, TryCreateFails, Emplace

(* A sleep begins with the next value of the semaphore, or misses its      *)
(* device.                                                                 *)
LEMMA SleepBegins ==
  ASSUME VulkanInv, SleepsOK, NEW t \in Threads, NEW d \in VkDevices, Sleep(t, d)
  PROVE  SleepsOK'
<1> DEFINE v == value[given[d]] + 1
<1>0. VulkanTypeOK
  BY DEF VulkanInv
<1>1. /\ call[t].op = "idle"
      /\ \A u \in Threads : On(u, d) /\ call[u].op = "entry" => call[u].what # "sleep"
      /\ UNCHANGED <<value, sleeping>>
  BY DEF Sleep, Get, Idle, vulkanVars
<1>2. PICK at \in {"invoke", "missed"} : call' = [call EXCEPT ![t] = Entry("sleep", d, at, FALSE, v)]
  BY DEF Sleep, Get, Continue
<1>3. /\ call'[t] = Entry("sleep", d, at, FALSE, v)
      /\ \A u \in Threads \ {t} : call'[u] = call[u]
  BY <1>0, <1>2 DEF VulkanTypeOK
<1>4. /\ call'[t].op = "entry" /\ call'[t].what = "sleep" /\ call'[t].d = d /\ call'[t].at = at
      /\ call'[t].semaphore = given[d] /\ call'[t].value = v
  BY <1>3 DEF Entry
<1>5. ~Waits(t)' /\ ~Waits(t) /\ ~Sleeps(t)
  BY <1>1, <1>4 DEF Waits, Sleeps, Uses
<1>6. CASE at = "missed"
  <2>1. ~Sleeps(t)'
    BY <1>4, <1>6 DEF Sleeps
  <2> QED
    BY <1>1, <1>3, <1>5, <2>1, SleepsStay
<1>7. CASE at = "invoke"
  <2>1. \A u \in Threads \ {t} : /\ Sleeps(u)' <=> Sleeps(u)
                                 /\ Waits(u)' <=> Waits(u)
                                 /\ Signal(u)' = Signal(u)
                                 /\ Sleeps(u) => call[u].d # d
    BY <1>1, <1>3 DEF Sleeps, Waits, Uses, Signal, On
  <2>2. \A u \in Threads : Waits(u)' => call'[u].what = "sleep"
    BY <1>3, <1>5, <2>1 DEF SleepsOK
  <2>3. \A u, w \in Threads : Sleeps(u)' /\ Sleeps(w)' /\ call'[u].d = call'[w].d => u = w
    BY <1>3, <1>4, <2>1 DEF SleepsOK
  <2>4. \A p \in sleeping' : \E u \in Threads : Waits(u)' /\ Signal(u)' = p
    BY <1>1, <1>5, <2>1 DEF SleepsOK
  <2>5. ASSUME NEW u \in Threads, Sleeps(u)'
        PROVE  (call[u].value = IF Waits(u) /\ Signal(u) \notin sleeping
                                  THEN value[call[u].semaphore]
                                  ELSE value[call[u].semaphore] + 1)'
    <3>1. CASE u = t
      BY <1>1, <1>4, <1>5, <3>1
    <3>2. CASE u # t
      BY <1>1, <1>3, <2>1, <2>5, <3>2 DEF SleepsOK
    <3> QED
      BY <3>1, <3>2
  <2> QED
    BY <2>2, <2>3, <2>4, <2>5 DEF SleepsOK
<1> QED
  BY <1>6, <1>7

(* Values of other semaphores: of all that a call sleeps on but this one's.*)
LEMMA OneSleepChanges ==
  ASSUME VulkanInv, SleepsOK, NEW t \in Threads, Sleeps(t), Sleeps(t)', Waits(t)',
         \A u \in Threads \ {t} : call'[u] = call[u],
         call'[t].d = call[t].d, call'[t].what = "sleep",
         Signal(t)' = Signal(t),
         value' \in [Semaphores -> Nat],
         \A s \in Semaphores \ {call[t].semaphore} : value'[s] = value[s],
         sleeping' \ {Signal(t)} = sleeping \ {Signal(t)},
         call[t].value = IF Signal(t) \in sleeping' THEN value'[call[t].semaphore] + 1
                                                   ELSE value'[call[t].semaphore]
  PROVE  SleepsOK'
<1>0. VulkanTypeOK
  BY DEF VulkanInv
<1>1. \A u \in Threads \ {t} : /\ Sleeps(u)' <=> Sleeps(u)
                               /\ Waits(u)' <=> Waits(u)
                               /\ Signal(u)' = Signal(u)
                               /\ call'[u].d = call[u].d
                               /\ call'[u].what = call[u].what
  BY DEF Sleeps, Waits, Uses, Signal
<1>2. \A u \in Threads : Waits(u)' => call'[u].what = "sleep"
  BY <1>1 DEF SleepsOK
<1>3. \A u, w \in Threads : Sleeps(u)' /\ Sleeps(w)' /\ call'[u].d = call'[w].d => u = w
  BY <1>1 DEF SleepsOK
<1>4. \A p \in sleeping' : \E u \in Threads : Waits(u)' /\ Signal(u)' = p
  <2> SUFFICES ASSUME NEW p \in sleeping' PROVE \E u \in Threads : Waits(u)' /\ Signal(u)' = p
    OBVIOUS
  <2>1. CASE p = Signal(t)
    BY <2>1
  <2>2. CASE p # Signal(t)
    <3>1. p \in sleeping
      BY <2>2
    <3>2. PICK u \in Threads : Waits(u) /\ Signal(u) = p
      BY <3>1 DEF SleepsOK
    <3> QED
      BY <1>1, <2>2, <3>2
  <2> QED
    BY <2>1, <2>2
<1>5. ASSUME NEW u \in Threads, Sleeps(u)'
      PROVE  (call[u].value = IF Waits(u) /\ Signal(u) \notin sleeping
                                THEN value[call[u].semaphore]
                                ELSE value[call[u].semaphore] + 1)'
  <2>1. CASE u = t
    BY <2>1 DEF Signal
  <2>2. CASE u # t
    <3>1. Sleeps(u) /\ call'[u] = call[u]
      BY <1>1, <1>5, <2>2
    <3>2. call[u].semaphore # call[t].semaphore
      BY <2>2, <3>1, SemaphoreHasOneSleeper
    <3>3. call[u].semaphore \in Semaphores
      BY <1>0, <3>1, DeviceInUse DEF Sleeps, VulkanTypeOK
    <3>4. Signal(u) # Signal(t)
      BY <3>2 DEF Signal
    <3>5. Signal(u) \in sleeping' <=> Signal(u) \in sleeping
      BY <3>4
    <3>6. value'[call[u].semaphore] = value[call[u].semaphore]
      BY <3>2, <3>3
    <3> QED
      BY <1>1, <2>2, <3>1, <3>5, <3>6 DEF SleepsOK
  <2> QED
    BY <2>1, <2>2
<1> QED
  BY <1>2, <1>3, <1>4, <1>5 DEF SleepsOK

(* The value a sleep asks for is that of the device's semaphore.           *)
LEMMA SleepsOn ==
  ASSUME VulkanInv, SleepsOK, NEW t \in Threads, Sleeps(t)
  PROVE  /\ call[t] \in EntryCalls
         /\ call[t].semaphore \in Semaphores /\ call[t].semaphore \in semaphores
         /\ deviceMap[call[t].d].semaphore = call[t].semaphore
         /\ value[call[t].semaphore] \in Nat /\ call[t].value \in Nat
<1>1. VulkanTypeOK
  BY DEF VulkanInv
<1>2. call[t] \in EntryCalls
  BY <1>1, CallForms DEF Sleeps, Uses, VulkanTypeOK
<1>3. /\ deviceMap[call[t].d].semaphore = call[t].semaphore
      /\ call[t].semaphore \in semaphores
  BY DeviceInUse DEF Sleeps
<1>4. call[t].semaphore \in Semaphores /\ call[t].value \in Nat
  BY <1>2 DEF EntryCalls
<1> QED
  BY <1>1, <1>2, <1>3, <1>4 DEF VulkanTypeOK

(* An accepted sleep is owed its signal, or has it from a fake device.     *)
LEMMA SleepIsAccepted ==
  ASSUME VulkanInv, SleepsOK, NEW t \in Threads, LatencySleep(t)
  PROVE  SleepsOK'
<1>0. VulkanTypeOK
  BY DEF VulkanInv
<1>1. Sleeps(t) /\ ~Waits(t)
  BY DEF LatencySleep, Invoked, Sleeps, Waits, Uses
<1>2. /\ call[t] \in EntryCalls
      /\ call[t].semaphore \in Semaphores
      /\ deviceMap[call[t].d].semaphore = call[t].semaphore
      /\ value[call[t].semaphore] \in Nat /\ call[t].value \in Nat
  BY <1>1, SleepsOn
<1>3. call[t].value = value[call[t].semaphore] + 1
  BY <1>1 DEF SleepsOK
<1>4. Signal(t) \notin sleeping
  <2> SUFFICES ASSUME Signal(t) \in sleeping PROVE FALSE
    OBVIOUS
  <2>1. PICK u \in Threads : Waits(u) /\ Signal(u) = Signal(t)
    BY DEF SleepsOK
  <2>2. Sleeps(u) /\ call[u].semaphore = call[t].semaphore
    BY <2>1 DEF SleepsOK, Waits, Sleeps, Signal
  <2> QED
    BY <1>1, <2>1, <2>2, SemaphoreHasOneSleeper
<1>5. CASE call' = [call EXCEPT ![t] = Idle] /\ UNCHANGED <<value, sleeping>>
  <2>1. call'[t] = Idle /\ \A u \in Threads \ {t} : call'[u] = call[u]
    BY <1>0, <1>5 DEF VulkanTypeOK
  <2>2. ~Sleeps(t)' /\ ~Waits(t)'
    BY <2>1 DEF Sleeps, Waits, Uses, Idle
  <2> QED
    BY <1>1, <1>5, <2>1, <2>2, SleepsStay
<1>6. CASE /\ call' = [call EXCEPT ![t] = [call[t] EXCEPT !.at = "wait"]]
           /\ \/ sleeping' = sleeping \cup {Signal(t)} /\ UNCHANGED value
              \/ /\ value' = [value EXCEPT ![call[t].semaphore] = call[t].value]
                 /\ UNCHANGED sleeping
  <2>1. /\ call'[t] = [call[t] EXCEPT !.at = "wait"]
        /\ \A u \in Threads \ {t} : call'[u] = call[u]
    BY <1>0, <1>6 DEF VulkanTypeOK
  <2>2. /\ call'[t].op = "entry" /\ call'[t].what = "sleep" /\ call'[t].at = "wait"
        /\ call'[t].d = call[t].d /\ call'[t].semaphore = call[t].semaphore
        /\ call'[t].value = call[t].value
    BY <1>1, <1>2, <2>1 DEF EntryCalls, Sleeps, Uses
  <2>3. Sleeps(t)' /\ Waits(t)' /\ Signal(t)' = Signal(t)
    BY <2>2 DEF Sleeps, Waits, Uses, Signal
  <2>4. /\ value' \in [Semaphores -> Nat]
        /\ \A s \in Semaphores \ {call[t].semaphore} : value'[s] = value[s]
        /\ sleeping' \ {Signal(t)} = sleeping \ {Signal(t)}
    BY <1>0, <1>2, <1>6 DEF VulkanTypeOK
  <2>5. call[t].value = IF Signal(t) \in sleeping' THEN value'[call[t].semaphore] + 1
                                                   ELSE value'[call[t].semaphore]
    BY <1>0, <1>2, <1>3, <1>4, <1>6 DEF VulkanTypeOK
  <2> QED
    BY <1>1, <2>1, <2>2, <2>3, <2>4, <2>5, OneSleepChanges
<1> QED
  BY <1>2, <1>5, <1>6 DEF LatencySleep, Wait, Return, Continue, Signal

(* The signal a sleeper is owed comes.                                     *)
LEMMA SignalComes ==
  ASSUME VulkanInv, SleepsOK, NEW s \in Semaphores, DriverSignals(s)
  PROVE  SleepsOK'
<1>0. VulkanTypeOK
  BY DEF VulkanInv
<1>1. PICK p \in sleeping : value' = [value EXCEPT ![p[1]] = p[2]] /\ sleeping' = sleeping \ {p}
  BY DEF DriverSignals
<1>2. UNCHANGED call
  BY DEF DriverSignals
<1>3. PICK t \in Threads : Waits(t) /\ Signal(t) = p
  BY DEF SleepsOK
<1>4. Sleeps(t) /\ call[t].what = "sleep"
  BY <1>3 DEF SleepsOK, Waits, Sleeps
<1>5. /\ call[t].semaphore \in Semaphores
      /\ value[call[t].semaphore] \in Nat /\ call[t].value \in Nat
  BY <1>4, SleepsOn
<1>6. p[1] = call[t].semaphore /\ p[2] = call[t].value
  BY <1>3 DEF Signal
<1>7. Sleeps(t)' /\ Waits(t)' /\ Signal(t)' = Signal(t)
  BY <1>2, <1>3, <1>4 DEF Sleeps, Waits, Uses, Signal
<1>8. /\ value' \in [Semaphores -> Nat]
      /\ \A r \in Semaphores \ {call[t].semaphore} : value'[r] = value[r]
      /\ value'[call[t].semaphore] = call[t].value
      /\ sleeping' \ {Signal(t)} = sleeping \ {Signal(t)}
      /\ Signal(t) \notin sleeping'
  BY <1>0, <1>1, <1>3, <1>5, <1>6 DEF VulkanTypeOK
<1>9. call[t].value = IF Signal(t) \in sleeping' THEN value'[call[t].semaphore] + 1
                                                 ELSE value'[call[t].semaphore]
  BY <1>8
<1> QED
  BY <1>2, <1>4, <1>7, <1>8, <1>9, OneSleepChanges

(* A sleeper that wakes has had its signal.                                *)
LEMMA SleepEnds ==
  ASSUME VulkanInv, SleepsOK, NEW t \in Threads, Wake(t)
  PROVE  SleepsOK'
<1>1. /\ call' = [call EXCEPT ![t] = Idle]
      /\ value[call[t].semaphore] >= call[t].value
      /\ UNCHANGED <<value, sleeping>>
  BY DEF Wake, Return, Continue, vulkanVars
<1>2. Waits(t) /\ Sleeps(t)
  BY DEF Wake, Waits, Uses, SleepsOK, Sleeps
<1>3. value[call[t].semaphore] \in Nat
  BY <1>2, SleepsOn
<1>4. Signal(t) \notin sleeping
  BY <1>1, <1>2, <1>3 DEF SleepsOK
<1>5. call'[t] = Idle /\ \A u \in Threads \ {t} : call'[u] = call[u]
  BY <1>1 DEF VulkanInv, VulkanTypeOK
<1>6. ~Sleeps(t)' /\ ~Waits(t)'
  BY <1>5 DEF Sleeps, Waits, Uses, Idle
<1> QED
  BY <1>1, <1>4, <1>5, <1>6, SleepsStay

(* A semaphore that is made is none that anybody sleeps on.                *)
LEMMA SemaphoreIsMade ==
  ASSUME VulkanInv, SleepsOK, NEW t \in Threads, TryCreate(t)
  PROVE  SleepsOK'
<1>0. VulkanTypeOK
  BY DEF VulkanInv
<1>1. PICK s \in Semaphores \ semaphores :
        /\ value' = [value EXCEPT ![s] = 0]
        /\ call' = [call EXCEPT ![t] = [call[t] EXCEPT !.at = "emplace", !.semaphore = s]]
  BY DEF TryCreate
<1>2. /\ call[t] \in InitCalls /\ call[t].op = "init" /\ UNCHANGED sleeping
  BY <1>0, CallForms DEF TryCreate, VulkanTypeOK
<1>3. /\ call'[t] = [call[t] EXCEPT !.at = "emplace", !.semaphore = s]
      /\ \A u \in Threads \ {t} : call'[u] = call[u]
  BY <1>0, <1>1 DEF VulkanTypeOK
<1>4. call'[t].op = "init"
  BY <1>2, <1>3 DEF InitCalls
<1>5. \A u \in Threads : /\ Sleeps(u)' <=> Sleeps(u)
                         /\ Waits(u)' <=> Waits(u)
                         /\ Sleeps(u) \/ Waits(u) => call'[u] = call[u]
  BY <1>2, <1>3, <1>4 DEF Sleeps, Waits, Uses
<1>6. \A u \in Threads : Sleeps(u) => value'[call[u].semaphore] = value[call[u].semaphore]
  <2> SUFFICES ASSUME NEW u \in Threads, Sleeps(u)
               PROVE  value'[call[u].semaphore] = value[call[u].semaphore]
    OBVIOUS
  <2>1. call[u].semaphore \in Semaphores /\ call[u].semaphore # s
    BY <1>1, SleepsOn
  <2> QED
    BY <1>0, <1>1, <2>1 DEF VulkanTypeOK
<1>7. \A u \in Threads : Waits(u)' => call'[u].what = "sleep"
  BY <1>5 DEF SleepsOK
<1>8. \A u, w \in Threads : Sleeps(u)' /\ Sleeps(w)' /\ call'[u].d = call'[w].d => u = w
  BY <1>5 DEF SleepsOK
<1>9. \A p \in sleeping' : \E u \in Threads : Waits(u)' /\ Signal(u)' = p
  <2> SUFFICES ASSUME NEW p \in sleeping PROVE \E u \in Threads : Waits(u)' /\ Signal(u)' = p
    BY <1>2
  <2>1. PICK u \in Threads : Waits(u) /\ Signal(u) = p
    BY DEF SleepsOK
  <2> QED
    BY <1>5, <2>1 DEF Signal
<1>10. ASSUME NEW u \in Threads, Sleeps(u)'
       PROVE  (call[u].value = IF Waits(u) /\ Signal(u) \notin sleeping
                                 THEN value[call[u].semaphore]
                                 ELSE value[call[u].semaphore] + 1)'
  <2>1. Sleeps(u) /\ call'[u] = call[u] /\ (Waits(u)' <=> Waits(u)) /\ Signal(u)' = Signal(u)
    BY <1>5, <1>10 DEF Signal
  <2> QED
    BY <1>2, <1>6, <2>1 DEF SleepsOK
<1> QED
  BY <1>7, <1>8, <1>9, <1>10 DEF SleepsOK

LEMMA SleepsOKNext == VulkanInv /\ SleepsOK /\ [VNext]_allVars => SleepsOK'
<1> SUFFICES ASSUME VulkanInv, SleepsOK, [VNext]_allVars PROVE SleepsOK'
  OBVIOUS
<1>1. CASE UNCHANGED allVars
  BY <1>1 DEF allVars, vulkanVars, driverVars, SleepsOK, Sleeps, Waits, Uses, Signal
<1>2. CASE \E s \in Semaphores : DriverSignals(s)
  BY <1>2, SignalComes
<1>3. ASSUME NEW t \in Threads,
             \/ TryCreate(t) \/ LatencySleep(t) \/ Wake(t)
             \/ \E d \in VkDevices : Sleep(t, d)
      PROVE  SleepsOK'
  BY <1>3, SemaphoreIsMade, SleepIsAccepted, SleepEnds, SleepBegins
<1> QED
  BY <1>1, <1>2, <1>3, WakefulSteps DEF VNext

LEMMA SleepsInductive == VSpec => [](VulkanInv /\ SleepsOK)
<1>1. VInit => SleepsOK
  <2> SUFFICES ASSUME VInit PROVE SleepsOK
    OBVIOUS
  <2>1. \A t \in Threads : call[t].op = "idle"
    BY DEF VInit, Init, Idle
  <2> QED
    BY <2>1 DEF VInit, SleepsOK, Sleeps, Waits, Uses
<1> QED
  BY <1>1, SleepsOKNext, VulkanInductive, PTL DEF VSpec

\* Whoever waits for a sleep has been signalled, or will be by a signal the driver has to make.
SleepersAreSignalled ==
  \A t \in Threads : Waits(t) => Signal(t) \in sleeping \/ value[call[t].semaphore] = call[t].value

\* A signal to be made is of a semaphore alive, and some call waits for it.
SignalsAreAwaited ==
  \A p \in sleeping : p[1] \in semaphores /\ \E t \in Threads : Waits(t) /\ Signal(t) = p

SemaphoresCountUp ==
  [][\A s \in semaphores \cap semaphores' : value'[s] >= value[s]]_allVars

(* A sleep that a low latency device accepts is signalled or will be, with *)
(* the very value its caller waits for: what SleepReturns needs beside the *)
(* driver's fairness, whichever of the three implementations the device is.*)
THEOREM SleepsAreSignalled == VSpec => []SleepersAreSignalled
<1>1. VulkanInv /\ SleepsOK => SleepersAreSignalled
  BY DEF SleepsOK, SleepersAreSignalled, Waits, Sleeps
<1> QED
  BY <1>1, SleepsInductive, PTL

(* The driver never signals a semaphore that was destroyed, or one that has*)
(* its handle: Destroy and the teardown leave no sleep behind.             *)
THEOREM NoStraySignals == VSpec => []SignalsAreAwaited
<1>1. VulkanInv /\ SleepsOK => SignalsAreAwaited
  <2> SUFFICES ASSUME VulkanInv, SleepsOK, NEW p \in sleeping
               PROVE  p[1] \in semaphores /\ \E t \in Threads : Waits(t) /\ Signal(t) = p
    BY DEF SignalsAreAwaited
  <2>1. PICK t \in Threads : Waits(t) /\ Signal(t) = p
    BY DEF SleepsOK
  <2>2. Sleeps(t)
    BY <2>1 DEF SleepsOK, Waits, Sleeps
  <2>3. p[1] = call[t].semaphore
    BY <2>1 DEF Signal
  <2> QED
    BY <2>1, <2>2, <2>3, SleepsOn
<1> QED
  BY <1>1, SleepsInductive, PTL

(* While a semaphore exists its value only grows, as the extension demands *)
(* of who signals it, the driver or a fake device.                         *)
THEOREM SemaphoreValues == VSpec => SemaphoresCountUp
<1>1. ASSUME VulkanInv, SleepsOK, [VNext]_allVars
      PROVE  [\A s \in semaphores \cap semaphores' : value'[s] >= value[s]]_allVars
  <2> SUFFICES ASSUME NEW s \in semaphores, VNext PROVE value'[s] >= value[s]
    BY <1>1
  <2>0. VulkanTypeOK /\ s \in Semaphores /\ value[s] \in Nat
    BY <1>1 DEF VulkanInv, VulkanTypeOK
  <2>1. CASE UNCHANGED value
    BY <2>0, <2>1
  <2>2. ASSUME NEW t \in Threads, TryCreate(t) PROVE value'[s] = value[s]
    BY <2>0, <2>2 DEF TryCreate, VulkanTypeOK
  <2>3. ASSUME NEW t \in Threads, LatencySleep(t) PROVE value'[s] >= value[s]
    <3>1. Sleeps(t) /\ ~Waits(t)
      BY <2>3 DEF LatencySleep, Invoked, Sleeps, Waits, Uses
    <3>2. /\ deviceMap[call[t].d].semaphore = call[t].semaphore
          /\ value[call[t].semaphore] \in Nat
      BY <1>1, <3>1, SleepsOn
    <3>3. call[t].value = value[call[t].semaphore] + 1
      BY <1>1, <3>1 DEF SleepsOK
    <3> QED
      BY <2>0, <2>1, <2>3, <3>2, <3>3 DEF LatencySleep, VulkanTypeOK
  <2>4. ASSUME NEW r \in Semaphores, DriverSignals(r) PROVE value'[s] >= value[s]
    <3>1. PICK p \in sleeping : value' = [value EXCEPT ![p[1]] = p[2]]
      BY <2>4 DEF DriverSignals
    <3>2. PICK t \in Threads : Waits(t) /\ Signal(t) = p
      BY <1>1 DEF SleepsOK
    <3>3. Sleeps(t)
      BY <1>1, <3>2 DEF SleepsOK, Waits, Sleeps
    <3>4. p[1] = call[t].semaphore /\ p[2] = value[p[1]] + 1 /\ value[p[1]] \in Nat
      BY <1>1, <3>2, <3>3, SleepsOn DEF SleepsOK, Signal
    <3> QED
      BY <2>0, <3>1, <3>4 DEF VulkanTypeOK
  <2>5. ASSUME NEW t \in Threads,
               \/ LifetimeStep(t) \/ Reset(t)
               \/ \E d \in VkDevices :
                    \/ LoadVulkan(t, d) \/ DestroyLowLatencyDevice(t, d)
                    \/ \E mode \in BOOLEAN : SetSleepMode(t, d, mode)
                    \/ Sleep(t, d) \/ OtherEntryPoint(t, d)
               \/ LockFactory(t) \/ TryCreateFails(t) \/ Emplace(t) \/ Extract(t)
               \/ HandleInvalidated(t) \/ DriverSetSleepMode(t) \/ StoreMode(t)
               \/ OtherCall(t) \/ Wake(t)
        PROVE  UNCHANGED value
    BY <2>5 DEF LifetimeStep, Reset, LoadVulkan, DestroyLowLatencyDevice, SetSleepMode, Sleep,
       OtherEntryPoint, Get, LockFactory, TryCreateFails, Emplace, Extract, HandleInvalidated,
       DriverSetSleepMode, StoreMode, OtherCall, Wake, vulkanVars, driverVars
  <2> QED
    BY <2>0, <2>1, <2>2, <2>3, <2>4, <2>5 DEF VNext
<1> QED
  BY <1>1, SleepsInductive, PTL DEF VSpec, SemaphoresCountUp

=============================================================================
