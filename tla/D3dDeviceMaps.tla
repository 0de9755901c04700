----------------------------- MODULE D3dDeviceMaps -----------------------------
(***************************************************************************)
(* NvapiD3d11Device and NvapiD3dLowLatencyDevice: the maps from the D3D    *)
(* objects an application passes to the NVAPI devices that talk to DXVK    *)
(* and vkd3d-proton, together with Initialize and Unload, whose teardown   *)
(* resets them.                                                            *)
(*                                                                         *)
(* A D3D device, its contexts and queues lead to one driver interface, and *)
(* objects with the same interface are to share one NVAPI device.  Neither *)
(* map references what it is keyed by, nor a device the interface it       *)
(* keeps.  GetOrCreate and Reset hold the mutex of their class all the     *)
(* time and are one step each; the device they answer with is used without *)
(* it.                                                                     *)
(*                                                                         *)
(* Assumed of the application: it makes these calls between its Initialize *)
(* and its Unload, and releases no object during a call it was passed to.  *)
(* The address of a released object may come back as any other at once.    *)
(* An object without the interfaces that no map knows is answered with     *)
(* nullptr and changes nothing.                                            *)
(***************************************************************************)
EXTENDS ApiLifetime

CONSTANTS
  Objects,        \* addresses of D3D objects
  D3dDevices,     \* addresses of D3D devices' driver interfaces
  Creations       \* <<address, kind, device>>: the objects the application creates

ASSUME ObjectsAssumption == "nullptr" \notin Objects /\ "nullptr" \notin D3dDevices

VARIABLES
  objects,        \* application: the D3D objects alive
  deviceMap,      \* class -> m_nvapiDeviceMap
  inherited       \* history: <<class, object>>, the object created where the map of the
                  \* class had an entry since its last Reset

mapVars == <<objects, deviceMap, inherited>>
allVars == <<lifetimeVars, call, mapVars>>

Classes == {"d3d11", "lowLatency"}

\* A D3D11 device and its immediate context are alike here, as are a D3D12 device and
\* its queues; a deferred context has a context interface of its own.
Kinds == {"d3d11", "deferred", "d3d12"}
NoObject == [kind |-> "none", device |-> Nothing]

\* What NvapiD3d11Device or NvapiD3dLowLatencyDevice would keep for an object.
Interface(class, o) ==
  IF class = "d3d11" /\ objects[o].kind = "deferred"
    THEN <<objects[o].device, o>>
    ELSE <<objects[o].device, Nothing>>

Offers(class, o) == class = "d3d11" => objects[o].kind # "d3d12"

\* An NVAPI device is named after the object it was made for.
NvapiDevice(class, o) == [made |-> o, interface |-> Interface(class, o)]
NoEntry == [made |-> Nothing, interface |-> <<>>]
Mapped(class, o) == deviceMap[class][o] # NoEntry

DInit ==
  /\ Init
  /\ objects = [o \in Objects |-> NoObject]
  /\ deviceMap = [c \in Classes |-> [o \in Objects |-> NoEntry]]
  /\ inherited = {}

-----------------------------------------------------------------------------
(* The application's objects (external) *)

Live(d) == {o \in Objects : objects[o].device = d}
OneApi(kind, other) == (kind = "d3d12") <=> (other = "d3d12")

CreateObject(o, kind, d) ==
  /\ objects[o] = NoObject
  /\ \A p \in Live(d) : OneApi(kind, objects[p].kind)
  /\ Live(d) = {} => kind # "deferred"
  /\ objects' = [objects EXCEPT ![o] = [kind |-> kind, device |-> d]]
  /\ inherited' = inherited \cup {<<c, o>> : c \in {k \in Classes : Mapped(k, o)}}
  /\ UNCHANGED <<lifetimeVars, call, deviceMap>>

ReleaseObject(o) ==
  /\ objects[o] # NoObject
  /\ \A t \in Threads : call[t].op = "d3d" => call[t].o # o
  /\ objects' = [objects EXCEPT ![o] = NoObject]
  /\ UNCHANGED <<lifetimeVars, call, deviceMap, inherited>>

-----------------------------------------------------------------------------
(* GetOrCreate, and the use of the device it answers with *)

\* Mutant: each object gets an NVAPI device of its own.
NeverShared(class, o) == {}

\* find_if: devices in the map with the interface that was found for the object.
Sharing(class, o) ==
  {deviceMap[class][p] : p \in {q \in Objects :
     Mapped(class, q) /\ deviceMap[class][q].interface = Interface(class, o)}}

GetOrCreate(t, class, o) ==
  /\ call[t] = Idle /\ t \in holders
  /\ objects[o] # NoObject /\ (Mapped(class, o) \/ Offers(class, o))
  /\ \E device \in IF Mapped(class, o) THEN {deviceMap[class][o]}
                   ELSE IF Sharing(class, o) # {} THEN Sharing(class, o)
                   ELSE {NvapiDevice(class, o)} :
       /\ deviceMap' = [deviceMap EXCEPT ![class][o] = device]
       /\ Continue(t, [op |-> "d3d", class |-> class, o |-> o, device |-> device])
  /\ UNCHANGED <<lifetimeVars, objects, inherited>>

\* The entry points for D3D11 do not ask whether the library is initialised.
D3d11Call(t, o) == GetOrCreate(t, "d3d11", o)
LowLatencyCall(t, o) == registry # {} /\ GetOrCreate(t, "lowLatency", o)

\* The call is passed on to the interface.
UseDevice(t) ==
  /\ call[t].op = "d3d"
  /\ Return(t)
  /\ UNCHANGED <<lifetimeVars, mapVars>>

-----------------------------------------------------------------------------
(* ~NvapiAdapterRegistry resets the D3D11 devices first *)

Emptied(class) == [deviceMap EXCEPT ![class] = [o \in Objects |-> NoEntry]]
InheritedBut(class) == {i \in inherited : i[1] # class}

ResetD3d11(t) ==
  /\ call[t].op = "teardown" /\ call[t].at = "reset"
  /\ deviceMap' = Emptied("d3d11")
  /\ call' = [call EXCEPT ![t].at = "resetLowLatency"]
  /\ inherited' = InheritedBut("d3d11")
  /\ UNCHANGED <<lifetimeVars, objects>>

\* Mutant: the map of the low latency devices is left as it is.
KeepLowLatency(t) ==
  /\ call[t].op = "teardown" /\ call[t].at = "resetLowLatency"
  /\ call' = [call EXCEPT ![t].at = "delete"]
  /\ inherited' = InheritedBut("lowLatency")
  /\ UNCHANGED <<lifetimeVars, objects, deviceMap>>

ResetLowLatency(t) ==
  /\ call[t].op = "teardown" /\ call[t].at = "resetLowLatency"
  /\ deviceMap' = Emptied("lowLatency")
  /\ call' = [call EXCEPT ![t].at = "delete"]
  /\ inherited' = InheritedBut("lowLatency")
  /\ UNCHANGED <<lifetimeVars, objects>>

-----------------------------------------------------------------------------

LifetimeStep(t) ==
  /\ \/ InitializeAgain(t) \/ InitializeFirst(t) \/ FindAdapters(t) \/ FailInitialize(t)
     \/ Unload(t) \/ DeleteAdapters(t)
     \/ EnumPhysicalGPUs(t) \/ IsAdapter(t) \/ UseAdapter(t)
  /\ UNCHANGED mapVars

DNext ==
  \/ \E t \in Threads :
       \/ LifetimeStep(t) \/ ResetD3d11(t) \/ ResetLowLatency(t)
       \/ \E o \in Objects : D3d11Call(t, o) \/ LowLatencyCall(t, o)
       \/ UseDevice(t)
  \/ \E o \in Objects :
       \/ \E kind \in Kinds, d \in D3dDevices :
            <<o, kind, d>> \in Creations /\ CreateObject(o, kind, d)
       \/ ReleaseObject(o)

\* A call that changes the library goes on once it has begun.
DSpec ==
  /\ DInit /\ [][DNext]_allVars
  /\ \A t \in Threads : WF_allVars(\/ FindAdapters(t) /\ UNCHANGED mapVars
                                   \/ FailInitialize(t) /\ UNCHANGED mapVars
                                   \/ ResetD3d11(t) \/ ResetLowLatency(t)
                                   \/ DeleteAdapters(t) /\ UNCHANGED mapVars)

-----------------------------------------------------------------------------
(* Properties *)

(* The NVAPI device a call works with is not destroyed under it: Reset     *)
(* takes the map's mutex, but not the device's users into account.         *)
MappedDeviceInUse ==
  \A t \in Threads :
    call[t].op = "d3d" => call[t].device \in {deviceMap[call[t].class][o] : o \in Objects}

(* Objects that lead to one driver interface share one NVAPI device, so    *)
(* that a queue's markers and its device's reports use the same frame ids, *)
(* in whatever order threads pass them first.                              *)
OneDevicePerInterface ==
  \A class \in Classes : \A o, p \in Objects :
    /\ Mapped(class, o) /\ Mapped(class, p)
    /\ deviceMap[class][o].interface = deviceMap[class][p].interface
    => deviceMap[class][o] = deviceMap[class][p]

(* A call goes to the interface of the object it was passed, although the  *)
(* maps outlive the objects and neither is told of their release.  What    *)
(* can go wrong is an address that came back as another object while its   *)
(* entry was still there, and nothing else: an entry for another object,   *)
(* or one that a Reset should have taken, is never answered with.          *)
CallReachesItsDevice ==
  \A t \in Threads :
    call[t].op = "d3d" /\ <<call[t].class, call[t].o>> \notin inherited =>
      call[t].device.interface = Interface(call[t].class, call[t].o)

=============================================================================
