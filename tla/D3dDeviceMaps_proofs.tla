-------------------------- MODULE D3dDeviceMaps_proofs --------------------------
(***************************************************************************)
(* Proofs about D3dDeviceMaps, for any number of users, D3D objects and    *)
(* devices: it leaves the library's lifetime as ApiLifetime describes it,  *)
(* a device in use is not destroyed, there is one for each driver          *)
(* interface, and a call reaches the interface of its object unless that   *)
(* was created at an address its map still knew.                           *)
(***************************************************************************)
EXTENDS D3dDeviceMaps, TLAPS

-----------------------------------------------------------------------------
(* The forms of a call in progress, and the types *)

NvapiDevices == [made : Objects, interface : D3dDevices \X (Objects \cup {Nothing})]
D3dCalls == [op : {"d3d"}, class : Classes, o : Objects, device : NvapiDevices]
HalfTeardowns == [op : {"teardown"}, at : {"resetLowLatency"}, adapters : SUBSET Addresses]
MapCalls == Calls \cup D3dCalls \cup HalfTeardowns

D3dObjects == [kind : Kinds, device : D3dDevices]

MapTypeOK ==
  /\ objects \in [Objects -> {NoObject} \cup D3dObjects]
  /\ deviceMap \in [Classes -> [Objects -> {NoEntry} \cup NvapiDevices]]
  /\ call \in [Threads -> MapCalls]

(* What a call has begun with, and how far a teardown has come, say which  *)
(* fields it has.                                                          *)
LEMMA CallForms ==
  ASSUME NEW c \in MapCalls
  PROVE  /\ c.op = "d3d" => c \in D3dCalls
         /\ c.op # "d3d" => c \in Calls \cup HalfTeardowns
         /\ c.op = "teardown" /\ c.at = "resetLowLatency" => c \in HalfTeardowns
         /\ c.op # "d3d" /\ ~(c.op = "teardown" /\ c.at = "resetLowLatency") => c \in Calls
  BY DEF MapCalls, Calls, Idle, D3dCalls, HalfTeardowns

LEMMA EntriesDiffer ==
  /\ NoEntry \notin NvapiDevices
  /\ NoObject \notin D3dObjects
  BY ObjectsAssumption DEF NoEntry, NvapiDevices, NoObject, D3dObjects, Nothing

-----------------------------------------------------------------------------
(* The library's lifetime *)

\* To ApiLifetime a call with a D3D object is none, and a teardown that has emptied one
\* of the maps has yet to reset the caches.
HalfWay(c) == c.op = "teardown" /\ c.at = "resetLowLatency"
LifetimeForm(c) ==
  IF c.op = "d3d" THEN Idle ELSE IF HalfWay(c) THEN Teardown("reset", c.adapters) ELSE c
lifetimeCall == [t \in Threads |-> LifetimeForm(call[t])]

Lifetime == INSTANCE ApiLifetime_proofs WITH call <- lifetimeCall

LEMMA LifetimeAssumptions ==
  Lifetime!IsFiniteSet(Threads) /\ "nobody" \notin Threads /\ "nullptr" \notin Gpus
  BY ThreadsAssumption, GpusAssumption DEF IsFiniteSet, Lifetime!IsFiniteSet

LEMMA LifetimeInit == DInit => Lifetime!Init
  BY DEF DInit, Init, Lifetime!Init, lifetimeCall, LifetimeForm, HalfWay, Idle, Lifetime!Idle,
     Nobody, Lifetime!Nobody, Lifetime!Nothing, Nothing

(* A call that changes its form changes it for ApiLifetime, too.           *)
LEMMA LifetimeContinues ==
  ASSUME MapTypeOK, NEW t \in Threads, NEW c, call' = [call EXCEPT ![t] = c]
  PROVE  /\ lifetimeCall' = [lifetimeCall EXCEPT ![t] = LifetimeForm(c)]
         /\ lifetimeCall[t] = LifetimeForm(call[t])
         /\ LifetimeForm(c) = LifetimeForm(call[t]) => lifetimeCall' = lifetimeCall
         /\ call'[t] = c
         /\ \A u \in Threads \ {t} : call'[u] = call[u]
<1>1. /\ call'[t] = c
      /\ \A u \in Threads \ {t} : call'[u] = call[u]
  BY DEF MapTypeOK
<1>2. lifetimeCall' = [u \in Threads |-> LifetimeForm(call'[u])]
  BY DEF lifetimeCall, LifetimeForm, HalfWay, Teardown, Idle
<1>3. lifetimeCall = [u \in Threads |-> LifetimeForm(call[u])]
  BY DEF lifetimeCall
<1>4. lifetimeCall' = [lifetimeCall EXCEPT ![t] = LifetimeForm(c)]
  BY <1>1, <1>2, <1>3
<1>5. lifetimeCall[t] = LifetimeForm(call[t])
  BY <1>3
<1>6. LifetimeForm(c) = LifetimeForm(call[t]) => lifetimeCall' = lifetimeCall
  BY <1>3, <1>4
<1> QED
  BY <1>1, <1>4, <1>5, <1>6

LEMMA LifetimeStays ==
  ASSUME UNCHANGED call
  PROVE  lifetimeCall' = lifetimeCall
  BY DEF lifetimeCall, LifetimeForm, HalfWay, Teardown, Idle

\* A call that is neither the one nor the other is the same to both modules.
Plain(c) == c.op # "d3d" /\ ~HalfWay(c)

LEMMA LifetimeSteps ==
  ASSUME MapTypeOK, NEW t \in Threads, LifetimeStep(t)
  PROVE  /\ Lifetime!Next
         /\ call' = [u \in Threads |-> IF u = t THEN call'[t] ELSE call[u]]
         /\ Plain(call[t]) /\ Plain(call'[t])
<1> USE DEF Idle, Lifetime!Idle, Nobody, Lifetime!Nobody, Nothing, Lifetime!Nothing
<1>1. ASSUME NEW c, call' = [call EXCEPT ![t] = c], Plain(c), Plain(call[t])
      PROVE  /\ lifetimeCall' = [lifetimeCall EXCEPT ![t] = c] /\ lifetimeCall[t] = call[t]
             /\ call' = [u \in Threads |-> IF u = t THEN call'[t] ELSE call[u]]
             /\ Plain(call[t]) /\ Plain(call'[t])
  <2>1. lifetimeCall' = [lifetimeCall EXCEPT ![t] = c] /\ lifetimeCall[t] = call[t]
    BY <1>1, LifetimeContinues DEF LifetimeForm, Plain
  <2> QED
    BY <1>1, <2>1 DEF MapTypeOK
<1>2. ASSUME UNCHANGED call, call[t] = Idle
      PROVE  /\ lifetimeCall' = lifetimeCall /\ lifetimeCall[t] = Idle
             /\ call' = [u \in Threads |-> IF u = t THEN call'[t] ELSE call[u]]
             /\ Plain(call[t]) /\ Plain(call'[t])
  BY <1>2, LifetimeStays DEF lifetimeCall, LifetimeForm, HalfWay, Plain, MapTypeOK
<1>3. CASE InitializeAgain(t)
  <2>1. UNCHANGED call /\ call[t] = Idle
    BY <1>3 DEF InitializeAgain
  <2>2. Lifetime!InitializeAgain(t)
    BY <1>2, <1>3, <2>1 DEF InitializeAgain, Lifetime!InitializeAgain
  <2> QED
    BY <1>2, <2>1, <2>2 DEF Lifetime!Next
<1>4. CASE InitializeFirst(t)
  <2> DEFINE c == [op |-> "initialize"]
  <2>1. call' = [call EXCEPT ![t] = c] /\ Plain(c) /\ Plain(call[t])
    BY <1>4 DEF InitializeFirst, Continue, Plain, HalfWay
  <2>2. Lifetime!InitializeFirst(t)
    BY <1>1, <1>4, <2>1 DEF InitializeFirst, Lifetime!InitializeFirst, Lifetime!Continue
  <2> QED
    BY <1>1, <2>1, <2>2 DEF Lifetime!Next
<1>5. CASE FindAdapters(t)
  <2>1. call' = [call EXCEPT ![t] = Idle] /\ Plain(Idle) /\ Plain(call[t])
    BY <1>5 DEF FindAdapters, Return, Continue, Plain, HalfWay
  <2>2. Lifetime!FindAdapters(t)
    BY <1>1, <1>5, <2>1 DEF FindAdapters, Lifetime!FindAdapters, Lifetime!Return, Lifetime!Continue
  <2> QED
    BY <1>1, <2>1, <2>2 DEF Lifetime!Next
<1>6. CASE FailInitialize(t)
  <2> DEFINE c == Teardown("reset", {})
  <2>1. call' = [call EXCEPT ![t] = c] /\ Plain(c) /\ Plain(call[t])
    BY <1>6 DEF FailInitialize, Continue, Plain, HalfWay, Teardown
  <2>2. Lifetime!FailInitialize(t)
    BY <1>1, <1>6, <2>1 DEF FailInitialize, Lifetime!FailInitialize, Lifetime!Continue,
       Teardown, Lifetime!Teardown
  <2> QED
    BY <1>1, <2>1, <2>2 DEF Lifetime!Next
<1>7. CASE Unload(t)
  <2>1. CASE initializationCount = 1
    <3> DEFINE c == Teardown("reset", registry)
    <3>1. call' = [call EXCEPT ![t] = c] /\ Plain(c) /\ Plain(call[t])
      BY <1>7, <2>1 DEF Unload, Continue, Plain, HalfWay, Teardown
    <3>2. Lifetime!Unload(t)
      BY <1>1, <1>7, <2>1, <3>1 DEF Unload, Lifetime!Unload, Lifetime!Continue,
         Teardown, Lifetime!Teardown
    <3> QED
      BY <1>1, <3>1, <3>2 DEF Lifetime!Next
  <2>2. CASE initializationCount # 1
    <3>1. UNCHANGED call /\ call[t] = Idle
      BY <1>7, <2>2 DEF Unload
    <3>2. Lifetime!Unload(t)
      BY <1>2, <1>7, <2>2, <3>1 DEF Unload, Lifetime!Unload
    <3> QED
      BY <1>2, <3>1, <3>2 DEF Lifetime!Next
  <2> QED
    BY <2>1, <2>2
<1>8. CASE DeleteAdapters(t)
  <2>1. call' = [call EXCEPT ![t] = Idle] /\ Plain(Idle) /\ Plain(call[t])
    BY <1>8 DEF DeleteAdapters, Return, Continue, Plain, HalfWay
  <2>2. Lifetime!DeleteAdapters(t)
    BY <1>1, <1>8, <2>1 DEF DeleteAdapters, Lifetime!DeleteAdapters, Lifetime!Return,
       Lifetime!Continue
  <2> QED
    BY <1>1, <2>1, <2>2 DEF Lifetime!Next
<1>9. CASE EnumPhysicalGPUs(t)
  <2>1. UNCHANGED call /\ call[t] = Idle
    BY <1>9 DEF EnumPhysicalGPUs
  <2>2. Lifetime!EnumPhysicalGPUs(t)
    BY <1>2, <1>9, <2>1 DEF EnumPhysicalGPUs, Lifetime!EnumPhysicalGPUs
  <2> QED
    BY <1>2, <2>1, <2>2 DEF Lifetime!Next
<1>10. CASE IsAdapter(t)
  <2>1. PICK h \in handles[t] : h[1] \in registry /\ Continue(t, [op |-> "use", handle |-> h])
    BY <1>10 DEF IsAdapter
  <2> DEFINE c == [op |-> "use", handle |-> h]
  <2>2. call' = [call EXCEPT ![t] = c] /\ Plain(c) /\ Plain(call[t])
    <3>1. call' = [call EXCEPT ![t] = c]
      BY <2>1 DEF Continue
    <3>2. Plain(c)
      BY DEF Plain, HalfWay
    <3>3. Plain(call[t])
      BY <1>10 DEF IsAdapter, Plain, HalfWay
    <3> QED
      BY <3>1, <3>2, <3>3
  <2>3. Lifetime!IsAdapter(t)
    BY <1>1, <1>10, <2>1, <2>2 DEF IsAdapter, Lifetime!IsAdapter, Lifetime!Continue, lifetimeVars,
       Lifetime!lifetimeVars
  <2> QED
    BY <1>1, <2>2, <2>3 DEF Lifetime!Next
<1>11. CASE UseAdapter(t)
  <2>1. call' = [call EXCEPT ![t] = Idle] /\ Plain(Idle) /\ Plain(call[t])
    BY <1>11 DEF UseAdapter, Return, Continue, Plain, HalfWay
  <2>2. Lifetime!UseAdapter(t)
    BY <1>1, <1>11, <2>1 DEF UseAdapter, Lifetime!UseAdapter, Lifetime!Return, Lifetime!Continue,
       lifetimeVars, Lifetime!lifetimeVars
  <2> QED
    BY <1>1, <2>1, <2>2 DEF Lifetime!Next
<1> QED
  BY <1>3, <1>4, <1>5, <1>6, <1>7, <1>8, <1>9, <1>10, <1>11 DEF LifetimeStep

(* Resetting the first map is no step of the lifetime yet, ...             *)
LEMMA FirstResetStutters ==
  ASSUME MapTypeOK, NEW t \in Threads, ResetD3d11(t)
  PROVE  /\ lifetimeCall' = lifetimeCall
         /\ call' \in [Threads -> MapCalls]
         /\ call'[t].op = "teardown" /\ call[t].op = "teardown"
         /\ \A u \in Threads \ {t} : call'[u] = call[u]
<1> DEFINE c == [call[t] EXCEPT !.at = "resetLowLatency"]
<1>1. /\ call[t] \in [op : {"teardown"}, at : {"reset", "delete"}, adapters : SUBSET Addresses]
      /\ call[t].at = "reset"
  BY CallForms DEF ResetD3d11, MapTypeOK, Calls, Idle
<1>2. call' = [call EXCEPT ![t] = c]
  BY DEF ResetD3d11
<1>3. c \in HalfTeardowns /\ c.op = "teardown" /\ c.at = "resetLowLatency"
      /\ c.adapters = call[t].adapters
  BY <1>1 DEF HalfTeardowns
<1>4. LifetimeForm(c) = LifetimeForm(call[t])
  <2>1. call[t] = [op |-> "teardown", at |-> "reset", adapters |-> call[t].adapters]
    BY <1>1
  <2>2. LifetimeForm(call[t]) = call[t]
    BY <1>1 DEF LifetimeForm, HalfWay
  <2>3. LifetimeForm(c) = [op |-> "teardown", at |-> "reset", adapters |-> call[t].adapters]
    BY <1>3 DEF LifetimeForm, HalfWay, Teardown
  <2> QED
    BY <2>1, <2>2, <2>3
<1> HIDE DEF c
<1>5. lifetimeCall' = lifetimeCall /\ call'[t] = c /\ \A u \in Threads \ {t} : call'[u] = call[u]
  BY <1>2, <1>4, LifetimeContinues
<1>6. call' \in [Threads -> MapCalls]
  BY <1>2, <1>3 DEF MapTypeOK, MapCalls
<1> QED
  BY <1>1, <1>3, <1>5, <1>6

(* ... resetting the second is what ApiLifetime calls ResetCaches.         *)
LEMMA SecondResetSteps ==
  ASSUME MapTypeOK, NEW t \in Threads, ResetLowLatency(t)
  PROVE  /\ Lifetime!Next
         /\ call' \in [Threads -> MapCalls]
         /\ Plain(call'[t])
         /\ \A u \in Threads \ {t} : call'[u] = call[u]
<1> DEFINE c == [call[t] EXCEPT !.at = "delete"]
           b == Teardown("reset", call[t].adapters)
<1>1. call[t] \in HalfTeardowns
  BY CallForms DEF ResetLowLatency, MapTypeOK
<1>2. call' = [call EXCEPT ![t] = c] /\ UNCHANGED lifetimeVars
  BY DEF ResetLowLatency
<1>3. /\ c = [op |-> "teardown", at |-> "delete", adapters |-> call[t].adapters]
      /\ c \in Calls /\ Plain(c)
  BY <1>1 DEF HalfTeardowns, Calls, Plain, HalfWay
<1>4. LifetimeForm(c) = c
  BY <1>3 DEF LifetimeForm, Plain
<1>5. LifetimeForm(call[t]) = b
  BY <1>1 DEF LifetimeForm, HalfWay, HalfTeardowns
<1>6. /\ lifetimeCall' = [lifetimeCall EXCEPT ![t] = c] /\ lifetimeCall[t] = b
      /\ call'[t] = c /\ \A u \in Threads \ {t} : call'[u] = call[u]
  <2> HIDE DEF c, b
  <2> QED
    BY <1>2, <1>4, <1>5, LifetimeContinues
<1>7. c = [b EXCEPT !.at = "delete"] /\ b.op = "teardown" /\ b.at = "reset"
  BY <1>3 DEF Teardown
<1>8. Lifetime!ResetCaches(t)
  BY <1>2, <1>6, <1>7 DEF Lifetime!ResetCaches, lifetimeVars, Lifetime!lifetimeVars
<1>9. call' \in [Threads -> MapCalls]
  BY <1>2, <1>3 DEF MapTypeOK, MapCalls
<1> QED
  BY <1>3, <1>6, <1>8, <1>9 DEF Lifetime!Next

-----------------------------------------------------------------------------
(* The inductive invariant *)

\* A call is made by a user, who does not unload meanwhile, with an object that lives
\* meanwhile, and works with the device that is mapped for it.
CallersOK ==
  \A t \in Threads : call[t].op = "d3d" =>
    /\ t \in holders
    /\ objects[call[t].o] # NoObject
    /\ deviceMap[call[t].class][call[t].o] = call[t].device

\* No D3D11 device is made between the resets of the two maps.
TeardownOK ==
  \A t \in Threads : HalfWay(call[t]) => \A o \in Objects : ~Mapped("d3d11", o)

\* Of an address in a map the object may be gone; the one that lives there was there when
\* it was mapped, or came upon the entry.
AddressesOK ==
  \A class \in Classes : \A o \in Objects :
    Mapped(class, o) /\ objects[o] # NoObject /\ <<class, o>> \notin inherited =>
      deviceMap[class][o].interface = Interface(class, o)

MapsOK == CallersOK /\ OneDevicePerInterface /\ TeardownOK /\ AddressesOK
MapsInv == MapTypeOK /\ Lifetime!LifetimeInv /\ MapsOK

(* While the library is taken down it has no users.                        *)
LEMMA NoTeardown ==
  ASSUME MapTypeOK, Lifetime!LifetimeInv, NEW t \in Threads, call[t].op = "teardown"
  PROVE  holders = {} /\ \A u \in Threads : CallersOK => call[u].op # "d3d"
<1>1. lifetimeCall[t].op = "teardown"
  BY DEF lifetimeCall, LifetimeForm, Teardown
<1>2. holders = {}
  BY <1>1 DEF Lifetime!LifetimeInv, Lifetime!HeapOK, Lifetime!TearingDown
<1> QED
  BY <1>2 DEF CallersOK

LEMMA MapsInit == DInit => MapTypeOK /\ MapsOK
<1> SUFFICES ASSUME DInit PROVE MapTypeOK /\ MapsOK
  OBVIOUS
<1>1. call = [t \in Threads |-> Idle]
  BY DEF DInit, Init
<1>2. \A class \in Classes : \A o \in Objects : ~Mapped(class, o)
  BY DEF DInit, Mapped
<1>3. MapTypeOK
  BY <1>1 DEF DInit, MapTypeOK, MapCalls, Calls
<1>4. \A t \in Threads : call[t].op = "idle"
  BY <1>1 DEF Idle
<1> QED
  BY <1>2, <1>3, <1>4 DEF MapsOK, CallersOK, OneDevicePerInterface, TeardownOK, AddressesOK, HalfWay

(* Steps that leave the objects and the maps, and begin no call with them. *)
LEMMA QuietStep ==
  ASSUME MapsOK, NEW t \in Threads, UNCHANGED mapVars,
         Plain(call'[t]),
         \A u \in Threads \ {t} : call'[u] = call[u],
         \A u \in Threads \ {t} : u \in holders => u \in holders'
  PROVE  MapsOK'
<1>1. UNCHANGED <<objects, deviceMap, inherited>>
  BY DEF mapVars
<1>2. CallersOK'
  BY <1>1 DEF MapsOK, CallersOK, Plain
<1>3. TeardownOK'
  BY <1>1 DEF MapsOK, TeardownOK, Plain, HalfWay, Mapped
<1>4. OneDevicePerInterface'
  BY <1>1 DEF MapsOK, OneDevicePerInterface, Mapped
<1>5. AddressesOK'
  BY <1>1 DEF MapsOK, AddressesOK, Mapped, Interface
<1> QED
  BY <1>2, <1>3, <1>4, <1>5 DEF MapsOK

-----------------------------------------------------------------------------
(* The steps *)

LEMMA LifetimeStepKeeps ==
  ASSUME MapsInv, Lifetime!LifetimeInv', NEW t \in Threads, LifetimeStep(t)
  PROVE  MapTypeOK' /\ MapsOK'
<1>1. MapTypeOK /\ MapsOK
  BY DEF MapsInv
<1>2. UNCHANGED mapVars
  BY DEF LifetimeStep
<1>3. /\ call' = [u \in Threads |-> IF u = t THEN call'[t] ELSE call[u]]
      /\ Plain(call'[t])
  BY <1>1, LifetimeSteps
<1>4. call'[t] \in MapCalls
  <2>1. lifetimeCall'[t] = LifetimeForm(call'[t])
    BY DEF lifetimeCall, LifetimeForm, HalfWay, Teardown, Idle
  <2>2. LifetimeForm(call'[t]) = call'[t]
    BY <1>3 DEF LifetimeForm, Plain
  <2>3. lifetimeCall'[t] \in Lifetime!Calls
    BY DEF Lifetime!LifetimeInv, Lifetime!TypeOK
  <2>4. Lifetime!Calls = Calls
    BY DEF Lifetime!Calls, Calls, Idle, Lifetime!Idle
  <2> QED
    BY <2>1, <2>2, <2>3, <2>4 DEF MapCalls
<1>5. call' \in [Threads -> MapCalls]
  BY <1>1, <1>3, <1>4 DEF MapTypeOK
<1>6. MapTypeOK'
  BY <1>1, <1>2, <1>5 DEF MapTypeOK, mapVars
<1>7. \A u \in Threads \ {t} : u \in holders => u \in holders'
  BY DEF LifetimeStep, InitializeAgain, InitializeFirst, FindAdapters, FailInitialize, Unload,
     DeleteAdapters, EnumPhysicalGPUs, IsAdapter, UseAdapter, lifetimeVars
<1>8. \A u \in Threads \ {t} : call'[u] = call[u]
  BY <1>3
<1> QED
  BY <1>1, <1>2, <1>3, <1>6, <1>7, <1>8, QuietStep

(* A map that is emptied while no call is in progress.                     *)
LEMMA EmptiedMap ==
  ASSUME MapTypeOK, NEW class \in Classes, deviceMap' = Emptied(class)
  PROVE  /\ deviceMap' \in [Classes -> [Objects -> {NoEntry} \cup NvapiDevices]]
         /\ \A o \in Objects : ~Mapped(class, o)'
         /\ \A c \in Classes \ {class} : deviceMap'[c] = deviceMap[c]
<1>1. deviceMap'[class] = [o \in Objects |-> NoEntry]
  BY DEF MapTypeOK, Emptied
<1> QED
  BY <1>1 DEF MapTypeOK, Emptied, Mapped

LEMMA ResetD3d11Step ==
  ASSUME MapsInv, NEW t \in Threads, ResetD3d11(t)
  PROVE  MapTypeOK' /\ MapsOK'
<1>1. MapTypeOK /\ MapsOK /\ Lifetime!LifetimeInv
  BY DEF MapsInv
<1>2. /\ call' \in [Threads -> MapCalls]
      /\ call'[t].op = "teardown" /\ call[t].op = "teardown"
      /\ \A u \in Threads \ {t} : call'[u] = call[u]
  BY <1>1, FirstResetStutters
<1>3. /\ deviceMap' = Emptied("d3d11") /\ inherited' = InheritedBut("d3d11")
      /\ UNCHANGED <<lifetimeVars, objects>>
  BY DEF ResetD3d11
<1>4. /\ deviceMap' \in [Classes -> [Objects -> {NoEntry} \cup NvapiDevices]]
      /\ \A o \in Objects : ~Mapped("d3d11", o)'
      /\ \A c \in Classes \ {"d3d11"} : deviceMap'[c] = deviceMap[c]
  <2>1. "d3d11" \in Classes
    BY DEF Classes
  <2> QED
    BY <1>1, <1>3, <2>1, EmptiedMap
<1>5. MapTypeOK'
  BY <1>1, <1>2, <1>3, <1>4 DEF MapTypeOK
<1>6. CallersOK'
  <2>1. \A u \in Threads : call[u].op # "d3d"
    BY <1>1, <1>2, NoTeardown DEF MapsOK
  <2> QED
    BY <1>2, <2>1 DEF CallersOK
<1>7. TeardownOK'
  BY <1>4 DEF TeardownOK
<1>8. \A class \in Classes : \A o \in Objects : Mapped(class, o)' =>
        class # "d3d11" /\ Mapped(class, o) /\ deviceMap'[class] = deviceMap[class]
  BY <1>4 DEF Mapped
<1>9. OneDevicePerInterface'
  BY <1>1, <1>8 DEF MapsOK, OneDevicePerInterface
<1>10. AddressesOK'
  <2> SUFFICES ASSUME NEW k \in Classes, NEW o \in Objects, Mapped(k, o)',
                      objects'[o] # NoObject, <<k, o>> \notin inherited'
               PROVE  deviceMap'[k][o].interface = Interface(k, o)'
    BY DEF AddressesOK
  <2>1. k # "d3d11" /\ Mapped(k, o) /\ deviceMap'[k] = deviceMap[k]
    BY <1>8
  <2>2. <<k, o>> \notin inherited
    BY <1>3, <2>1 DEF InheritedBut
  <2>3. Interface(k, o)' = Interface(k, o) /\ objects[o] # NoObject
    BY <1>3 DEF Interface
  <2> QED
    BY <1>1, <2>1, <2>2, <2>3 DEF MapsOK, AddressesOK
<1> QED
  BY <1>5, <1>6, <1>7, <1>9, <1>10 DEF MapsOK

(* With this both maps are empty.                                          *)
LEMMA ResetLowLatencyStep ==
  ASSUME MapsInv, NEW t \in Threads, ResetLowLatency(t)
  PROVE  MapTypeOK' /\ MapsOK'
<1>1. MapTypeOK /\ MapsOK /\ Lifetime!LifetimeInv
  BY DEF MapsInv
<1>2. /\ call' \in [Threads -> MapCalls]
      /\ Plain(call'[t])
      /\ \A u \in Threads \ {t} : call'[u] = call[u]
  BY <1>1, SecondResetSteps
<1>3. /\ call[t].op = "teardown" /\ HalfWay(call[t])
      /\ deviceMap' = Emptied("lowLatency") /\ UNCHANGED <<lifetimeVars, objects>>
  BY DEF ResetLowLatency, HalfWay
<1>4. /\ deviceMap' \in [Classes -> [Objects -> {NoEntry} \cup NvapiDevices]]
      /\ \A o \in Objects : ~Mapped("lowLatency", o)'
      /\ \A c \in Classes \ {"lowLatency"} : deviceMap'[c] = deviceMap[c]
  <2>1. "lowLatency" \in Classes
    BY DEF Classes
  <2> QED
    BY <1>1, <1>3, <2>1, EmptiedMap
<1>5. MapTypeOK'
  BY <1>1, <1>2, <1>3, <1>4 DEF MapTypeOK
<1>6. CallersOK'
  <2>1. \A u \in Threads : call[u].op # "d3d"
    BY <1>1, <1>3, NoTeardown DEF MapsOK
  <2> QED
    BY <1>2, <2>1 DEF CallersOK, Plain
<1>7. \A class \in Classes : \A o \in Objects : ~Mapped(class, o)'
  <2>1. \A o \in Objects : ~Mapped("d3d11", o)
    BY <1>1, <1>3 DEF MapsOK, TeardownOK
  <2> QED
    BY <1>4, <2>1 DEF Classes, Mapped
<1>8. TeardownOK' /\ OneDevicePerInterface' /\ AddressesOK'
  BY <1>7 DEF TeardownOK, OneDevicePerInterface, AddressesOK, Classes
<1> QED
  BY <1>5, <1>6, <1>8 DEF MapsOK

(* GetOrCreate maps the object to the device it has, to one that another   *)
(* object with the same interface has, or to a new one.                    *)
LEMMA GetOrCreateStep ==
  ASSUME MapsInv, NEW t \in Threads, NEW class \in Classes, NEW o \in Objects,
         GetOrCreate(t, class, o)
  PROVE  MapTypeOK' /\ MapsOK' /\ UNCHANGED <<lifetimeVars, lifetimeCall>>
<1>1. MapTypeOK /\ MapsOK /\ Lifetime!LifetimeInv
  BY DEF MapsInv
<1>2. PICK device \in IF Mapped(class, o) THEN {deviceMap[class][o]}
                      ELSE IF Sharing(class, o) # {} THEN Sharing(class, o)
                      ELSE {NvapiDevice(class, o)} :
        /\ deviceMap' = [deviceMap EXCEPT ![class][o] = device]
        /\ Continue(t, [op |-> "d3d", class |-> class, o |-> o, device |-> device])
  BY DEF GetOrCreate
<1> DEFINE c == [op |-> "d3d", class |-> class, o |-> o, device |-> device]
<1>3. /\ call[t] = Idle /\ t \in holders
      /\ objects[o] # NoObject
      /\ UNCHANGED <<lifetimeVars, objects, inherited>>
  BY DEF GetOrCreate
<1>4. Interface(class, o) \in D3dDevices \X (Objects \cup {Nothing})
  BY <1>1, <1>3 DEF Interface, MapTypeOK, D3dObjects
<1>5. /\ device \in NvapiDevices
      /\ \/ Mapped(class, o) /\ device = deviceMap[class][o]
         \/ /\ ~Mapped(class, o) /\ device.interface = Interface(class, o)
            /\ \/ \E p \in Objects : Mapped(class, p) /\ device = deviceMap[class][p]
               \/ \A p \in Objects : Mapped(class, p) =>
                    deviceMap[class][p].interface # Interface(class, o)
  <2>1. CASE Mapped(class, o)
    BY <1>1, <1>2, <2>1 DEF Mapped, MapTypeOK
  <2>2. CASE ~Mapped(class, o) /\ Sharing(class, o) # {}
    <3>1. PICK p \in Objects : /\ Mapped(class, p) /\ device = deviceMap[class][p]
                               /\ deviceMap[class][p].interface = Interface(class, o)
      BY <1>2, <2>2 DEF Sharing
    <3>2. device \in NvapiDevices
      BY <1>1, <3>1 DEF Mapped, MapTypeOK
    <3> QED
      BY <2>2, <3>1, <3>2
  <2>3. CASE ~Mapped(class, o) /\ Sharing(class, o) = {}
    <3>1. device = NvapiDevice(class, o)
      BY <1>2, <2>3
    <3>2. \A p \in Objects : Mapped(class, p) =>
            deviceMap[class][p].interface # Interface(class, o)
      BY <2>3 DEF Sharing
    <3> QED
      BY <1>4, <2>3, <3>1, <3>2 DEF NvapiDevice, NvapiDevices
  <2> QED
    BY <2>1, <2>2, <2>3
<1>6. c \in MapCalls /\ c.op = "d3d" /\ c.class = class /\ c.o = o /\ c.device = device
  BY <1>5 DEF MapCalls, D3dCalls
<1>7. LifetimeForm(c) = Idle /\ LifetimeForm(call[t]) = Idle /\ call[t].op = "idle"
  BY <1>3, <1>6 DEF LifetimeForm, HalfWay, Idle
<1>8. call' = [call EXCEPT ![t] = c]
  BY <1>2 DEF Continue
<1> HIDE DEF c
<1>9. /\ call' \in [Threads -> MapCalls] /\ call'[t] = c /\ lifetimeCall' = lifetimeCall
      /\ \A u \in Threads \ {t} : call'[u] = call[u]
  BY <1>1, <1>6, <1>7, <1>8, LifetimeContinues DEF MapTypeOK
<1>10. /\ deviceMap' \in [Classes -> [Objects -> {NoEntry} \cup NvapiDevices]]
       /\ deviceMap'[class][o] = device
       /\ \A p \in Objects \ {o} : deviceMap'[class][p] = deviceMap[class][p]
       /\ \A k \in Classes \ {class} : deviceMap'[k] = deviceMap[k]
  BY <1>1, <1>2, <1>5 DEF MapTypeOK
<1>11. MapTypeOK'
  BY <1>1, <1>3, <1>9, <1>10 DEF MapTypeOK
<1>12. /\ Mapped(class, o)'
       /\ \A k \in Classes, p \in Objects : k # class \/ p # o =>
            (Mapped(k, p)' <=> Mapped(k, p)) /\ deviceMap'[k][p] = deviceMap[k][p]
  BY <1>5, <1>10, EntriesDiffer DEF Mapped
<1>13. CallersOK'
  <2> SUFFICES ASSUME NEW u \in Threads, call'[u].op = "d3d"
               PROVE  /\ u \in holders
                      /\ objects[call'[u].o] # NoObject
                      /\ deviceMap'[call'[u].class][call'[u].o] = call'[u].device
    BY <1>3 DEF CallersOK, lifetimeVars
  <2>1. CASE u = t
    BY <1>3, <1>6, <1>9, <1>10, <2>1
  <2>2. CASE u # t
    <3>1. call'[u] = call[u] /\ call[u] \in D3dCalls
      BY <1>1, <1>9, <2>2, CallForms DEF MapTypeOK
    <3>2. /\ u \in holders
          /\ objects[call[u].o] # NoObject
          /\ deviceMap[call[u].class][call[u].o] = call[u].device
      BY <1>1, <3>1 DEF MapsOK, CallersOK
    <3>3. CASE call[u].class = class /\ call[u].o = o
      <4>1. Mapped(class, o)
        BY <3>1, <3>2, <3>3, EntriesDiffer DEF D3dCalls, Mapped
      <4>2. deviceMap'[class][o] = deviceMap[class][o]
        BY <1>5, <1>10, <4>1
      <4> QED
        BY <3>1, <3>2, <3>3, <4>2
    <3>4. CASE ~(call[u].class = class /\ call[u].o = o)
      BY <1>12, <3>1, <3>2, <3>4 DEF D3dCalls
    <3> QED
      BY <3>3, <3>4
  <2> QED
    BY <2>1, <2>2
<1>14. OneDevicePerInterface'
  <2> SUFFICES ASSUME NEW k \in Classes, NEW p \in Objects, NEW q \in Objects,
                      Mapped(k, p)', Mapped(k, q)',
                      deviceMap'[k][p].interface = deviceMap'[k][q].interface
               PROVE  deviceMap'[k][p] = deviceMap'[k][q]
    BY DEF OneDevicePerInterface
  <2>1. \A r, s \in Objects :
          /\ Mapped(k, r) /\ Mapped(k, s)
          /\ deviceMap[k][r].interface = deviceMap[k][s].interface
          => deviceMap[k][r] = deviceMap[k][s]
    BY <1>1 DEF MapsOK, OneDevicePerInterface
  <2>2. CASE k # class \/ (p # o /\ q # o)
    BY <1>12, <2>1, <2>2
  <2>3. ASSUME k = class, NEW r \in Objects \ {o}, Mapped(class, r)',
               deviceMap'[class][r].interface = device.interface
        PROVE  deviceMap'[class][r] = device
    <3>1. Mapped(class, r) /\ deviceMap'[class][r] = deviceMap[class][r]
      BY <1>12, <2>3
    <3> QED
      BY <1>5, <2>1, <2>3, <3>1
  <2> QED
    BY <1>10, <2>2, <2>3
<1>15. TeardownOK'
  <2>1. \A u \in Threads : ~HalfWay(call[u])
    BY <1>1, <1>3, NoTeardown DEF HalfWay
  <2> QED
    BY <1>6, <1>9, <2>1 DEF TeardownOK, HalfWay
<1>16. AddressesOK'
  <2> SUFFICES ASSUME NEW k \in Classes, NEW p \in Objects, Mapped(k, p)',
                      objects'[p] # NoObject, <<k, p>> \notin inherited'
               PROVE  deviceMap'[k][p].interface = Interface(k, p)'
    BY DEF AddressesOK
  <2>1. Interface(k, p)' = Interface(k, p) /\ objects[p] # NoObject /\ <<k, p>> \notin inherited
    BY <1>3 DEF Interface
  <2>2. Mapped(k, p) => deviceMap[k][p].interface = Interface(k, p)
    BY <1>1, <2>1 DEF MapsOK, AddressesOK
  <2>3. CASE k = class /\ p = o
    BY <1>5, <1>10, <2>1, <2>2, <2>3
  <2>4. CASE k # class \/ p # o
    BY <1>12, <2>1, <2>2, <2>4
  <2> QED
    BY <2>3, <2>4
<1> QED
  BY <1>3, <1>9, <1>11, <1>13, <1>14, <1>15, <1>16 DEF MapsOK

LEMMA UseDeviceStep ==
  ASSUME MapsInv, NEW t \in Threads, UseDevice(t)
  PROVE  MapTypeOK' /\ MapsOK' /\ UNCHANGED <<lifetimeVars, lifetimeCall>>
<1>1. MapTypeOK /\ MapsOK
  BY DEF MapsInv
<1>2. /\ call[t].op = "d3d" /\ call' = [call EXCEPT ![t] = Idle]
      /\ UNCHANGED <<lifetimeVars, mapVars>>
  BY DEF UseDevice, Return, Continue
<1>3. LifetimeForm(call[t]) = Idle /\ LifetimeForm(Idle) = Idle /\ Plain(Idle)
  BY <1>2 DEF LifetimeForm, HalfWay, Idle, Plain
<1>4. /\ lifetimeCall' = lifetimeCall /\ call'[t] = Idle
      /\ \A u \in Threads \ {t} : call'[u] = call[u]
  BY <1>1, <1>2, <1>3, LifetimeContinues
<1>5. MapTypeOK'
  BY <1>1, <1>2 DEF MapTypeOK, MapCalls, Calls, mapVars
<1>6. MapsOK'
  BY <1>1, <1>2, <1>3, <1>4, QuietStep DEF lifetimeVars
<1> QED
  BY <1>2, <1>4, <1>5, <1>6

(* An object comes upon the entries that its address has in the maps.      *)
LEMMA CreateObjectStep ==
  ASSUME MapsInv, NEW o \in Objects, NEW kind \in Kinds, NEW d \in D3dDevices,
         CreateObject(o, kind, d)
  PROVE  MapTypeOK' /\ MapsOK' /\ UNCHANGED <<lifetimeVars, lifetimeCall>>
<1>1. MapTypeOK /\ MapsOK
  BY DEF MapsInv
<1>2. /\ objects[o] = NoObject
      /\ objects' = [objects EXCEPT ![o] = [kind |-> kind, device |-> d]]
      /\ inherited' = inherited \cup {<<c, o>> : c \in {k \in Classes : Mapped(k, o)}}
      /\ UNCHANGED <<lifetimeVars, call, deviceMap>>
  BY DEF CreateObject
<1>3. MapTypeOK'
  BY <1>1, <1>2 DEF MapTypeOK, D3dObjects
<1>4. \A p \in Objects \ {o} : objects'[p] = objects[p]
  BY <1>1, <1>2 DEF MapTypeOK
<1>5. CallersOK'
  <2> SUFFICES ASSUME NEW u \in Threads, call[u].op = "d3d"
               PROVE  /\ u \in holders
                      /\ objects'[call[u].o] # NoObject
                      /\ deviceMap[call[u].class][call[u].o] = call[u].device
    BY <1>2 DEF CallersOK, lifetimeVars
  <2>1. call[u].o \in Objects
    BY <1>1, CallForms DEF MapTypeOK, D3dCalls
  <2> QED
    BY <1>1, <1>2, <1>4, <2>1 DEF MapsOK, CallersOK
<1>6. OneDevicePerInterface' /\ TeardownOK'
  BY <1>1, <1>2 DEF MapsOK, OneDevicePerInterface, TeardownOK, Mapped, HalfWay
<1>7. AddressesOK'
  <2> SUFFICES ASSUME NEW k \in Classes, NEW p \in Objects, Mapped(k, p)',
                      objects'[p] # NoObject, <<k, p>> \notin inherited'
               PROVE  deviceMap'[k][p].interface = Interface(k, p)'
    BY DEF AddressesOK
  <2>1. Mapped(k, p) /\ <<k, p>> \notin inherited
    BY <1>2 DEF Mapped
  <2>2. p # o
    BY <1>2, <2>1
  <2>3. objects'[p] = objects[p] /\ Interface(k, p)' = Interface(k, p)
    BY <1>4, <2>2 DEF Interface
  <2> QED
    BY <1>1, <1>2, <2>1, <2>3 DEF MapsOK, AddressesOK
<1>8. lifetimeCall' = lifetimeCall
  BY <1>2, LifetimeStays
<1> QED
  BY <1>2, <1>3, <1>5, <1>6, <1>7, <1>8 DEF MapsOK

(* No object is released during a call it was passed to.                   *)
LEMMA ReleaseObjectStep ==
  ASSUME MapsInv, NEW o \in Objects, ReleaseObject(o)
  PROVE  MapTypeOK' /\ MapsOK' /\ UNCHANGED <<lifetimeVars, lifetimeCall>>
<1>1. MapTypeOK /\ MapsOK
  BY DEF MapsInv
<1>2. /\ \A t \in Threads : call[t].op = "d3d" => call[t].o # o
      /\ objects' = [objects EXCEPT ![o] = NoObject]
      /\ UNCHANGED <<lifetimeVars, call, deviceMap, inherited>>
  BY DEF ReleaseObject
<1>3. MapTypeOK'
  BY <1>1, <1>2 DEF MapTypeOK
<1>4. objects'[o] = NoObject /\ \A p \in Objects \ {o} : objects'[p] = objects[p]
  BY <1>1, <1>2 DEF MapTypeOK
<1>5. CallersOK'
  <2> SUFFICES ASSUME NEW u \in Threads, call[u].op = "d3d"
               PROVE  /\ u \in holders
                      /\ objects'[call[u].o] # NoObject
                      /\ deviceMap[call[u].class][call[u].o] = call[u].device
    BY <1>2 DEF CallersOK, lifetimeVars
  <2>1. call[u].o \in Objects \ {o}
    BY <1>1, <1>2, CallForms DEF MapTypeOK, D3dCalls
  <2> QED
    BY <1>1, <1>4, <2>1 DEF MapsOK, CallersOK
<1>6. OneDevicePerInterface' /\ TeardownOK'
  BY <1>1, <1>2 DEF MapsOK, OneDevicePerInterface, TeardownOK, Mapped, HalfWay
<1>7. AddressesOK'
  <2> SUFFICES ASSUME NEW k \in Classes, NEW p \in Objects, Mapped(k, p)',
                      objects'[p] # NoObject, <<k, p>> \notin inherited'
               PROVE  deviceMap'[k][p].interface = Interface(k, p)'
    BY DEF AddressesOK
  <2>1. Mapped(k, p) /\ <<k, p>> \notin inherited /\ p # o
    BY <1>2, <1>4 DEF Mapped
  <2>2. objects'[p] = objects[p] /\ Interface(k, p)' = Interface(k, p)
    BY <1>4, <2>1 DEF Interface
  <2> QED
    BY <1>1, <1>2, <2>1, <2>2 DEF MapsOK, AddressesOK
<1>8. lifetimeCall' = lifetimeCall
  BY <1>2, LifetimeStays
<1> QED
  BY <1>2, <1>3, <1>5, <1>6, <1>7, <1>8 DEF MapsOK

-----------------------------------------------------------------------------
(* The theorems *)

\* Every step but the library's own.
MapStep ==
  \/ \E t \in Threads :
       \/ \E o \in Objects : D3d11Call(t, o) \/ LowLatencyCall(t, o)
       \/ UseDevice(t)
  \/ \E o \in Objects :
       \/ \E kind \in Kinds, d \in D3dDevices : CreateObject(o, kind, d)
       \/ ReleaseObject(o)

LEMMA MapStepKeeps ==
  ASSUME MapsInv, MapStep
  PROVE  MapTypeOK' /\ MapsOK' /\ UNCHANGED <<lifetimeVars, lifetimeCall>>
<1>1. ASSUME NEW t \in Threads, NEW o \in Objects, D3d11Call(t, o) \/ LowLatencyCall(t, o)
      PROVE  MapTypeOK' /\ MapsOK' /\ UNCHANGED <<lifetimeVars, lifetimeCall>>
  <2>1. "d3d11" \in Classes /\ "lowLatency" \in Classes
    BY DEF Classes
  <2>2. GetOrCreate(t, "d3d11", o) \/ GetOrCreate(t, "lowLatency", o)
    BY <1>1 DEF D3d11Call, LowLatencyCall
  <2> QED
    BY <2>1, <2>2, GetOrCreateStep
<1> QED
  BY <1>1, UseDeviceStep, CreateObjectStep, ReleaseObjectStep DEF MapStep

LEMMA LifetimeRefined ==
  ASSUME MapsInv, [DNext]_allVars
  PROVE  [Lifetime!Next]_(Lifetime!vars)
<1>1. MapTypeOK
  BY DEF MapsInv
<1>2. CASE \E t \in Threads : LifetimeStep(t) \/ ResetLowLatency(t)
  BY <1>1, <1>2, LifetimeSteps, SecondResetSteps
<1>3. CASE \E t \in Threads : ResetD3d11(t)
  BY <1>1, <1>3, FirstResetStutters DEF ResetD3d11, lifetimeVars, Lifetime!vars
<1>4. CASE MapStep
  BY <1>4, MapStepKeeps DEF lifetimeVars, Lifetime!vars
<1>5. CASE UNCHANGED allVars
  BY <1>5, LifetimeStays DEF allVars, lifetimeVars, Lifetime!vars
<1> QED
  BY <1>2, <1>3, <1>4, <1>5 DEF DNext, MapStep

LEMMA MapsInvInit == DInit => MapsInv
  BY MapsInit, LifetimeInit, LifetimeAssumptions, Lifetime!InitLifetime DEF MapsInv

LEMMA MapsInvNext == MapsInv /\ [DNext]_allVars => MapsInv'
<1> SUFFICES ASSUME MapsInv, [DNext]_allVars PROVE MapsInv'
  OBVIOUS
<1>1. Lifetime!LifetimeInv'
  <2>1. [Lifetime!Next]_(Lifetime!vars) /\ Lifetime!LifetimeInv
    BY LifetimeRefined DEF MapsInv
  <2> QED
    BY <2>1, LifetimeAssumptions, Lifetime!LifetimeNext
<1>2. CASE \E t \in Threads : LifetimeStep(t) \/ ResetD3d11(t) \/ ResetLowLatency(t)
  BY <1>1, <1>2, LifetimeStepKeeps, ResetD3d11Step, ResetLowLatencyStep DEF MapsInv
<1>3. CASE MapStep
  BY <1>1, <1>3, MapStepKeeps DEF MapsInv
<1>4. CASE UNCHANGED allVars
  <2>1. UNCHANGED <<objects, deviceMap, inherited, call, holders>>
    BY <1>4 DEF allVars, mapVars, lifetimeVars
  <2>2. MapTypeOK'
    BY <2>1 DEF MapsInv, MapTypeOK
  <2>3. CallersOK' /\ TeardownOK'
    BY <2>1 DEF MapsInv, MapsOK, CallersOK, TeardownOK, HalfWay, Mapped
  <2>4. OneDevicePerInterface'
    BY <2>1 DEF MapsInv, MapsOK, OneDevicePerInterface, Mapped
  <2>5. AddressesOK'
    BY <2>1 DEF MapsInv, MapsOK, AddressesOK, Mapped, Interface
  <2> QED
    BY <1>1, <2>2, <2>3, <2>4, <2>5 DEF MapsInv, MapsOK
<1> QED
  BY <1>2, <1>3, <1>4 DEF DNext, MapStep

LEMMA MapsInductive == DSpec => []MapsInv
  BY MapsInvInit, MapsInvNext, PTL DEF DSpec

(* With the maps of the D3D classes in it, which the teardown empties one  *)
(* after the other, the library is initialised and unloaded exactly as     *)
(* ApiLifetime says: the first reset is a stutter there, the second its    *)
(* ResetCaches.                                                            *)
THEOREM ImplementsLifetime == DSpec => Lifetime!Init /\ [][Lifetime!Next]_(Lifetime!vars)
<1>1. DInit => Lifetime!Init
  BY LifetimeInit
<1>2. MapsInv /\ [DNext]_allVars => [Lifetime!Next]_(Lifetime!vars)
  BY LifetimeRefined
<1> QED
  BY <1>1, <1>2, MapsInductive, PTL DEF DSpec

(* The NVAPI device a call works with, without the mutex, is one its map   *)
(* still holds: the teardown that empties the maps waits for no call, but  *)
(* begins only when the last user, who would make it, has left.            *)
THEOREM DeviceInUseIsMapped == DSpec => []MappedDeviceInUse
<1>1. MapsInv => MappedDeviceInUse
  <2> SUFFICES ASSUME MapsInv, NEW t \in Threads, call[t].op = "d3d"
               PROVE  \E o \in Objects : call[t].device = deviceMap[call[t].class][o]
    BY DEF MappedDeviceInUse
  <2>1. call[t].o \in Objects
    BY CallForms DEF MapsInv, MapTypeOK, D3dCalls
  <2>2. deviceMap[call[t].class][call[t].o] = call[t].device
    BY DEF MapsInv, MapsOK, CallersOK
  <2> QED
    BY <2>1, <2>2
<1> QED
  BY <1>1, MapsInductive, PTL

(* Objects with the same driver interface share one NVAPI device, and so   *)
(* the frame ids it hands out, in whatever order threads pass them first.  *)
THEOREM OneDevice == DSpec => []OneDevicePerInterface
<1>1. MapsInv => OneDevicePerInterface
  BY DEF MapsInv, MapsOK
<1> QED
  BY <1>1, MapsInductive, PTL

(* A call goes to the interface of the object it was passed, although the  *)
(* maps outlive the objects and addresses come back at once: with but one  *)
(* exception, an object created where its map still had an entry, which    *)
(* each Reset puts an end to.                                              *)
THEOREM CallsReachTheirDevice == DSpec => []CallReachesItsDevice
<1>1. MapsInv => CallReachesItsDevice
  <2> SUFFICES ASSUME MapsInv, NEW t \in Threads, call[t].op = "d3d",
                      <<call[t].class, call[t].o>> \notin inherited
               PROVE  call[t].device.interface = Interface(call[t].class, call[t].o)
    BY DEF CallReachesItsDevice
  <2>1. call[t] \in D3dCalls
    BY CallForms DEF MapsInv, MapTypeOK
  <2>2. /\ objects[call[t].o] # NoObject
        /\ deviceMap[call[t].class][call[t].o] = call[t].device
    BY DEF MapsInv, MapsOK, CallersOK
  <2>3. call[t].class \in Classes /\ call[t].o \in Objects /\ call[t].device # NoEntry
    BY <2>1, EntriesDiffer DEF D3dCalls
  <2> QED
    BY <2>2, <2>3 DEF MapsInv, MapsOK, AddressesOK, Mapped
<1> QED
  BY <1>1, MapsInductive, PTL

=============================================================================
