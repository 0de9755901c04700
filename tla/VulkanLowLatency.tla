--------------------------- MODULE VulkanLowLatency ---------------------------
(***************************************************************************)
(* NvapiVulkanLowLatencyDeviceFactory, the three kinds of low latency      *)
(* device it makes and the NvAPI_Vulkan_* entry points, together with      *)
(* Initialize and Unload, whose teardown resets the factory.               *)
(*                                                                         *)
(* The factory's methods hold m_mutex, but for Get, which the entry points *)
(* call without it: they find a device, and go on to use the pointer.      *)
(* Assumed of the application: it calls these entry points between its     *)
(* Initialize and its Unload, destroys a low latency device only when no   *)
(* other call on that VkDevice is in progress and before the VkDevice      *)
(* itself, and has one thread at a time set a device's sleep mode, and one *)
(* at a time sleep on it.  The driver is external; for the "lowLatency2"   *)
(* kind it stands for the Reflex layer too, which keeps the sleep mode.    *)
(***************************************************************************)
EXTENDS ApiLifetime, Sequences

CONSTANTS
  VkDevices,
  Offers,         \* what a VkDevice may offer: sets of "legacy", "lowLatency2", "signal"
  Fakes,          \* values of DXVK_NVAPI_FAKE_VKREFLEX explored
  MaxSemaphores,  \* bound of the model: semaphores alive at once
  MaxValue        \* bound of the model: values of a semaphore

ASSUME OffersAssumption == Offers \subseteq SUBSET {"legacy", "lowLatency2", "signal"}
ASSUME FakesAssumption == Fakes \subseteq BOOLEAN
ASSUME BoundsAssumption == MaxSemaphores \in Nat /\ MaxValue \in Nat

VARIABLES
  offers,         \* VkDevice -> which functions vkGetDeviceProcAddr finds
  fake,           \* whether fake success is enabled
  vk,             \* whether m_vk is a usable loader
  factoryMutex,   \* the thread that holds the factory's m_mutex
  deviceMap,      \* m_nvapiDeviceMap
  semaphores,     \* driver: the semaphores alive
  value,          \* driver: semaphore -> its value
  driverMode,     \* driver: VkDevice -> whether it runs in low latency mode
  sleeping,       \* driver: <<semaphore, value>> it has yet to signal
  given           \* history: VkDevice -> the semaphore the application was given, or 0

driverVars == <<semaphores, value, driverMode, sleeping>>
vulkanVars == <<offers, fake, vk, factoryMutex, deviceMap, semaphores, value, driverMode,
                sleeping, given>>
allVars == <<lifetimeVars, call, vulkanVars>>

Semaphores == 1 .. MaxSemaphores
Implementations == <<"legacy", "lowLatency2", "fake">>
NoDevice == [impl |-> "none", semaphore |-> 0, mode |-> FALSE]
Mapped(d) == deviceMap[d] # NoDevice

VInit ==
  /\ Init
  /\ offers \in [VkDevices -> Offers]
  /\ fake \in Fakes
  /\ vk = FALSE
  /\ factoryMutex = Nobody
  /\ deviceMap = [d \in VkDevices |-> NoDevice]
  /\ semaphores = {}
  /\ value = [s \in Semaphores |-> 0]
  /\ driverMode = [d \in VkDevices |-> FALSE]
  /\ sleeping = {}
  /\ given = [d \in VkDevices |-> 0]

On(u, d) == call[u].op \in {"init", "destroy", "entry"} /\ call[u].d = d
Destroying(d) == \E u \in Threads : On(u, d) /\ call[u].op = "destroy"

\* The semaphores and the driver's modes once the destructors of `gone` have run.
Destroyed(gone) ==
  /\ semaphores' = semaphores \ {deviceMap[d].semaphore : d \in gone}
  /\ driverMode' = [d \in VkDevices |->
                      IF d \in gone /\ deviceMap[d].impl = "legacy" THEN FALSE ELSE driverMode[d]]

-----------------------------------------------------------------------------
(* NvAPI_Vulkan_InitLowLatencyDevice *)

\* Initialize: m_vk is loaded unless it is already.
LoadVulkan(t, d) ==
  /\ call[t] = Idle /\ t \in holders /\ ~Destroying(d)
  /\ resourceFactory
  /\ factoryMutex = Nobody
  /\ vk' \in {TRUE, vk}
  /\ Continue(t, [op |-> "init", d |-> d, at |-> "lock", impl |-> 1, semaphore |-> 0])
  /\ UNCHANGED <<lifetimeVars, offers, fake, factoryMutex, deviceMap, driverVars, given>>

\* Mutant: a device is made whether or not there is one.
CreateAnew(t) ==
  /\ call[t].op = "init" /\ call[t].at = "lock"
  /\ factoryMutex = Nobody /\ vk
  /\ factoryMutex' = t
  /\ call' = [call EXCEPT ![t].at = "try"]
  /\ UNCHANGED <<lifetimeVars, offers, fake, vk, deviceMap, driverVars, given>>

\* GetOrCreate takes the mutex; the device may exist by now, or m_vk be missing.
LockFactory(t) ==
  /\ call[t].op = "init" /\ call[t].at = "lock"
  /\ factoryMutex = Nobody
  /\ LET d == call[t].d
     IN  IF Mapped(d)
           THEN /\ given' = [given EXCEPT ![d] = deviceMap[d].semaphore]
                /\ Return(t)
                /\ UNCHANGED factoryMutex
         ELSE IF ~vk
           THEN Return(t) /\ UNCHANGED <<factoryMutex, given>>
           ELSE /\ factoryMutex' = t
                /\ call' = [call EXCEPT ![t].at = "try"]
                /\ UNCHANGED given
  /\ UNCHANGED <<lifetimeVars, offers, fake, vk, deviceMap, driverVars>>

Usable(impl, d) ==
  IF impl = "fake" THEN fake /\ "signal" \in offers[d] ELSE impl \in offers[d]

\* TryCreate of one implementation after the other; creating its semaphore is the
\* last thing each does that may fail.
TryCreate(t) ==
  /\ call[t].op = "init" /\ call[t].at = "try"
  /\ Usable(Implementations[call[t].impl], call[t].d)
  /\ \E s \in Semaphores \ semaphores :
       /\ semaphores' = semaphores \cup {s}
       /\ value' = [value EXCEPT ![s] = 0]
       /\ call' = [call EXCEPT ![t] = [@ EXCEPT !.at = "emplace", !.semaphore = s]]
  /\ UNCHANGED <<lifetimeVars, offers, fake, vk, factoryMutex, deviceMap, driverMode,
                 sleeping, given>>

TryCreateFails(t) ==
  /\ call[t].op = "init" /\ call[t].at = "try"
  /\ IF call[t].impl < Len(Implementations)
       THEN call' = [call EXCEPT ![t].impl = @ + 1] /\ UNCHANGED factoryMutex
       ELSE Return(t) /\ factoryMutex' = Nobody
  /\ UNCHANGED <<lifetimeVars, offers, fake, vk, deviceMap, driverVars, given>>

Emplace(t) ==
  /\ call[t].op = "init" /\ call[t].at = "emplace"
  /\ LET d == call[t].d
         s == call[t].semaphore
     IN  /\ deviceMap' = [deviceMap EXCEPT ![d] =
               [impl |-> Implementations[call[t].impl], semaphore |-> s, mode |-> FALSE]]
         /\ given' = [given EXCEPT ![d] = s]
  /\ factoryMutex' = Nobody
  /\ Return(t)
  /\ UNCHANGED <<lifetimeVars, offers, fake, vk, driverVars>>

-----------------------------------------------------------------------------
(* NvAPI_Vulkan_DestroyLowLatencyDevice, and Reset *)

DestroyLowLatencyDevice(t, d) ==
  /\ call[t] = Idle /\ t \in holders
  /\ \A u \in Threads : ~On(u, d)
  /\ Mapped(d)
  /\ factoryMutex = Nobody
  /\ factoryMutex' = t
  /\ given' = [given EXCEPT ![d] = 0]
  /\ Continue(t, [op |-> "destroy", d |-> d])
  /\ UNCHANGED <<lifetimeVars, offers, fake, vk, deviceMap, driverVars>>

\* Mutant: the entry goes, the device is not destroyed.
ExtractOnly(t) ==
  /\ call[t].op = "destroy"
  /\ deviceMap' = [deviceMap EXCEPT ![call[t].d] = NoDevice]
  /\ factoryMutex' = Nobody
  /\ Return(t)
  /\ UNCHANGED <<lifetimeVars, offers, fake, vk, driverVars, given>>

\* The entry is extracted, and the device destroyed before the mutex is given back.
Extract(t) ==
  /\ call[t].op = "destroy"
  /\ Destroyed({call[t].d})
  /\ deviceMap' = [deviceMap EXCEPT ![call[t].d] = NoDevice]
  /\ factoryMutex' = Nobody
  /\ Return(t)
  /\ UNCHANGED <<lifetimeVars, offers, fake, vk, value, sleeping, given>>

\* The part of a registry's teardown that concerns the factory.
Reset(t) ==
  /\ ResetCaches(t)
  /\ factoryMutex = Nobody
  /\ Destroyed({d \in VkDevices : Mapped(d)})
  /\ deviceMap' = [d \in VkDevices |-> NoDevice]
  /\ vk' = FALSE
  /\ given' = IF holders = {} THEN [d \in VkDevices |-> 0] ELSE given
  /\ UNCHANGED <<offers, fake, factoryMutex, value, sleeping>>

-----------------------------------------------------------------------------
(* The other NvAPI_Vulkan_* entry points *)

\* Another thread is in the middle of changing the map that Get reads.
MapChanging(t) ==
  \E u \in Threads \ {t} :
    \/ call[u].op = "init" /\ call[u].at = "emplace"
    \/ call[u].op = "destroy"

Entry(what, d, at, mode, v) ==
  [op |-> "entry", what |-> what, d |-> d, at |-> at, semaphore |-> given[d],
   mode |-> mode, value |-> v]

\* Get.  A find in an unordered_map that another thread is changing may miss.
Get(t, what, d, mode, v) ==
  /\ call[t] = Idle /\ t \in holders
  /\ given[d] # 0 /\ ~Destroying(d)
  /\ \A u \in Threads : On(u, d) /\ call[u].op = "entry" => call[u].what # what \/ what = "other"
  /\ \/ Mapped(d) /\ Continue(t, Entry(what, d, "invoke", mode, v))
     \/ MapChanging(t) /\ Continue(t, Entry(what, d, "missed", mode, v))
  /\ UNCHANGED <<lifetimeVars, vulkanVars>>

SetSleepMode(t, d, mode) == Get(t, "sleepMode", d, mode, 0)

Sleep(t, d) ==
  /\ given[d] # 0 /\ value[given[d]] < MaxValue
  /\ Get(t, "sleep", d, FALSE, value[given[d]] + 1)

\* GetSleepStatus, GetLatency, SetLatencyMarker and NotifyOutOfBandVkQueue.
OtherEntryPoint(t, d) == Get(t, "other", d, FALSE, 0)

HandleInvalidated(t) ==
  /\ call[t].op = "entry" /\ call[t].at = "missed"
  /\ Return(t)
  /\ UNCHANGED <<lifetimeVars, vulkanVars>>

Invoked(t, what) == call[t].op = "entry" /\ call[t].at = "invoke" /\ call[t].what = what
Impl(t) == deviceMap[call[t].d].impl

\* Mutant: the mode is stored whatever the driver answered.
IgnoreRefusal(t) ==
  /\ Invoked(t, "sleepMode")
  /\ \/ driverMode' = IF Impl(t) = "fake" THEN driverMode
                      ELSE [driverMode EXCEPT ![call[t].d] = call[t].mode]
     \/ Impl(t) = "lowLatency2" /\ UNCHANGED driverMode
  /\ call' = [call EXCEPT ![t].at = "store"]
  /\ UNCHANGED <<lifetimeVars, offers, fake, vk, factoryMutex, deviceMap, semaphores, value,
                 sleeping, given>>

\* The device passes the mode to the driver; a fake one does nothing, and only
\* vkSetLatencySleepModeNV may fail.
DriverSetSleepMode(t) ==
  /\ Invoked(t, "sleepMode")
  /\ \/ /\ driverMode' = IF Impl(t) = "fake" THEN driverMode
                         ELSE [driverMode EXCEPT ![call[t].d] = call[t].mode]
        /\ call' = [call EXCEPT ![t].at = "store"]
     \/ /\ Impl(t) = "lowLatency2"
        /\ Return(t)
        /\ UNCHANGED driverMode
  /\ UNCHANGED <<lifetimeVars, offers, fake, vk, factoryMutex, deviceMap, semaphores, value,
                 sleeping, given>>

\* Only the "lowLatency2" kind keeps the mode.
StoreMode(t) ==
  /\ call[t].op = "entry" /\ call[t].at = "store"
  /\ deviceMap' = [deviceMap EXCEPT ![call[t].d].mode =
                     IF Impl(t) = "lowLatency2" THEN call[t].mode ELSE @]
  /\ Return(t)
  /\ UNCHANGED <<lifetimeVars, offers, fake, vk, factoryMutex, driverVars, given>>

Wait(t) == call' = [call EXCEPT ![t].at = "wait"]

\* Mutant: a fake device does nothing.
FakeWithoutSignal(t) ==
  /\ Invoked(t, "sleep")
  /\ LET s == deviceMap[call[t].d].semaphore
     IN  \/ Impl(t) # "fake" /\ sleeping' = sleeping \cup {<<s, call[t].value>>}
         \/ Impl(t) = "fake" /\ UNCHANGED sleeping
  /\ Wait(t)
  /\ UNCHANGED <<lifetimeVars, offers, fake, vk, factoryMutex, deviceMap, semaphores, value,
                 driverMode, given>>

\* The driver is asked to signal the semaphore; a fake device signals it itself.
LatencySleep(t) ==
  /\ Invoked(t, "sleep")
  /\ LET s == deviceMap[call[t].d].semaphore
     IN  \/ Impl(t) # "fake" /\ Wait(t) /\ sleeping' = sleeping \cup {<<s, call[t].value>>}
            /\ UNCHANGED value
         \/ Impl(t) = "fake" /\ Wait(t) /\ value' = [value EXCEPT ![s] = call[t].value]
            /\ UNCHANGED sleeping
         \/ Impl(t) # "legacy" /\ Return(t) /\ UNCHANGED <<value, sleeping>>   \* refused
  /\ UNCHANGED <<lifetimeVars, offers, fake, vk, factoryMutex, deviceMap, semaphores,
                 driverMode, given>>

OtherCall(t) ==
  /\ Invoked(t, "other")
  /\ Return(t)
  /\ UNCHANGED <<lifetimeVars, vulkanVars>>

DriverSignals(s) ==
  /\ \E p \in sleeping :
       p[1] = s /\ value' = [value EXCEPT ![p[1]] = p[2]] /\ sleeping' = sleeping \ {p}
  /\ UNCHANGED <<lifetimeVars, call, offers, fake, vk, factoryMutex, deviceMap, semaphores,
                 driverMode, given>>

Wake(t) ==
  /\ call[t].op = "entry" /\ call[t].at = "wait"
  /\ value[call[t].semaphore] >= call[t].value
  /\ Return(t)
  /\ UNCHANGED <<lifetimeVars, vulkanVars>>

-----------------------------------------------------------------------------

LifetimeStep(t) ==
  /\ \/ InitializeAgain(t) \/ InitializeFirst(t) \/ FindAdapters(t) \/ FailInitialize(t)
     \/ Unload(t) \/ DeleteAdapters(t)
  /\ UNCHANGED vulkanVars

VNext ==
  \/ \E t \in Threads :
       \/ LifetimeStep(t) \/ Reset(t)
       \/ \E d \in VkDevices :
            \/ LoadVulkan(t, d) \/ DestroyLowLatencyDevice(t, d)
            \/ \E mode \in BOOLEAN : SetSleepMode(t, d, mode)
            \/ Sleep(t, d) \/ OtherEntryPoint(t, d)
       \/ LockFactory(t) \/ TryCreate(t) \/ TryCreateFails(t) \/ Emplace(t)
       \/ Extract(t)
       \/ HandleInvalidated(t) \/ DriverSetSleepMode(t) \/ StoreMode(t)
       \/ LatencySleep(t) \/ OtherCall(t) \/ Wake(t)
  \/ \E s \in Semaphores : DriverSignals(s)

\* The driver signals every sleep it accepted, and a thread goes on with its sleep.
VSpec ==
  /\ VInit /\ [][VNext]_allVars
  /\ \A s \in Semaphores : WF_allVars(DriverSignals(s))
  /\ \A t \in Threads : WF_allVars(LatencySleep(t) \/ Wake(t))

-----------------------------------------------------------------------------
(* Properties *)

(* No semaphore is leaked or destroyed twice, on any path through the      *)
(* three implementations, their failures, Destroy and the library going    *)
(* down: the semaphores alive are those of mapped devices, each with one   *)
(* of its own, and those of devices about to be mapped.                    *)
SemaphoresAccountedFor ==
  LET owned == [d \in {e \in VkDevices : Mapped(e)} |-> deviceMap[d].semaphore]
      made == {call[t].semaphore : t \in {u \in Threads : call[u].op = "init"
                                                          /\ call[u].at = "emplace"}}
  IN  /\ semaphores = {owned[d] : d \in DOMAIN owned} \cup made
      /\ \A d, e \in DOMAIN owned : owned[d] = owned[e] => d = e
      /\ \A d \in DOMAIN owned : owned[d] \notin made

(* While the library is in use, the semaphore the application was given    *)
(* for a VkDevice stays the one its low latency device sleeps on: a second *)
(* initialisation, other users' failed or successful Initialize and Unload *)
(* never replace it.                                                       *)
GivenSemaphoreIsUsed ==
  holders # {} => \A d \in VkDevices : given[d] # 0 =>
    given[d] \in semaphores /\ deviceMap[d].semaphore = given[d]

(* An entry point that has got its device without the mutex still has a    *)
(* device that exists when it uses it, and while the caller waits for its  *)
(* sleep the semaphore exists.                                             *)
DeviceInUseExists ==
  \A t \in Threads : call[t].op = "entry" /\ call[t].at # "missed" =>
    /\ deviceMap[call[t].d].semaphore = call[t].semaphore
    /\ call[t].semaphore \in semaphores

(* What GetSleepStatus answers; a fake device always says "off".           *)
Reported(d) ==
  \/ deviceMap[d].impl = "lowLatency2" /\ deviceMap[d].mode
  \/ deviceMap[d].impl = "legacy" /\ driverMode[d]

(* GetSleepStatus never reports a low latency mode the driver does not run *)
(* with: not on a fake device, and not after a refused change or after the *)
(* device was destroyed and initialised again (when a "lowLatency2" device *)
(* reports "off" though the layer kept the mode).                          *)
StatusNeverOverstates ==
  \A d \in VkDevices :
    (\A t \in Threads : On(t, d) /\ call[t].op = "entry" => call[t].at # "store") =>
      (Reported(d) => driverMode[d])

(* A VkDevice the application has initialised is not answered with         *)
(* HandleInvalidated.                                                      *)
InitialisedDeviceIsFound ==
  \A t \in Threads : call[t].op = "entry" => call[t].at # "missed"

(* A thread that sleeps through a low latency device always goes on.       *)
SleepReturns ==
  \A t \in Threads : (call[t].op = "entry" /\ call[t].what = "sleep" /\ call[t].at # "missed")
                       ~> call[t] = Idle

=============================================================================
