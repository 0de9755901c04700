------------------------------ MODULE D3d12Objects ------------------------------
(***************************************************************************)
(* NvapiD3d12Device, NvapiD3d12CommandQueue and                            *)
(* NvapiD3d12GraphicsCommandList: GetOrCreate and Reset.                   *)
(*                                                                         *)
(* GetOrCreate keeps the object it makes in the private data of the D3D12  *)
(* object, stamped with QueryPerformanceCounter; Reset, run when an        *)
(* adapter registry goes, stamps the class, and what is not stamped later  *)
(* than its class is made anew.  GetOrCreate looks once without and once   *)
(* with the mutex of its class.  A command list asks for its device while  *)
(* it is made.  Only the devices' Reset takes the mutex.                   *)
(*                                                                         *)
(* The D3D12 entry points work with or without an initialised library, so  *)
(* they may run during a Reset; there is one Reset at a time, since        *)
(* Initialize and Unload hold their mutex.  Private data is read and       *)
(* written atomically by D3D12; it is external, as is the clock.           *)
(***************************************************************************)
EXTENDS Naturals, Sequences, SequencesExt

CONSTANTS
  Threads,
  Devices, CommandQueues, CommandLists,
  DeviceOf,       \* command list -> its device
  Extended,       \* the objects of vkd3d-proton, which have the extension interface
  MaxClock,       \* bound of the model: ticks of the clock
  MaxResets       \* bound of the model: resets of each class

Objects == Devices \cup CommandQueues \cup CommandLists
Kinds == {"device", "queue", "list"}

ASSUME ThreadsAssumption == "nobody" \notin Threads /\ "resetter" \notin Threads
ASSUME KindsAssumption ==        \* an object is of one class
  /\ Devices \cap CommandQueues = {} /\ Devices \cap CommandLists = {}
  /\ CommandQueues \cap CommandLists = {}
ASSUME DeviceOfAssumption == DeviceOf \in [CommandLists -> Devices]
ASSUME ExtendedAssumption == Extended \subseteq Objects
ASSUME BoundsAssumption == MaxClock \in Nat \ {0, 1} /\ MaxResets \in Nat

VARIABLES
  clock,            \* QueryPerformanceCounter
  m_resetTimestamp, \* class -> when it was reset
  m_mutex,          \* class -> who holds its mutex
  privateData,      \* object -> what GetOrCreate left there; Nothing: no such data
  calls,            \* thread -> the calls of GetOrCreate it is in, the innermost last
  reset,            \* the Reset in progress
  resets            \* history: class -> how many of its resets have read the clock

vars == <<clock, m_resetTimestamp, m_mutex, privateData, calls, reset, resets>>

Nobody == "nobody"
Resetter == "resetter"
NoReset == [kind |-> "none", tick |-> 0]

\* m_creationTimestamp, and, as history, the resets of the class before it.
NvapiObject(tick, after) == [m_creationTimestamp |-> tick, after |-> after]
Nothing == NvapiObject(0, 0)

Kind(o) ==
  IF o \in Devices THEN "device" ELSE IF o \in CommandQueues THEN "queue" ELSE "list"

Init ==
  /\ clock = 1
  /\ m_resetTimestamp = [k \in Kinds |-> 0]
  /\ m_mutex = [k \in Kinds |-> Nobody]
  /\ privateData = [o \in Objects |-> Nothing]
  /\ calls = [t \in Threads |-> <<>>]
  /\ reset = NoReset
  /\ resets = [k \in Kinds |-> 0]

\* No reset is stamped with the last tick of the model.
Tick ==
  /\ clock < IF reset = NoReset THEN MaxClock ELSE MaxClock - 1
  /\ clock' = clock + 1
  /\ UNCHANGED <<m_resetTimestamp, m_mutex, privateData, calls, reset, resets>>

-----------------------------------------------------------------------------
(* Reset: devices, then queues, then lists, as ~NvapiAdapterRegistry runs them *)

NextKind(k) == IF k = "device" THEN "queue" ELSE "list"

ReadClock(k) ==
  /\ reset' = [kind |-> k, tick |-> clock]
  /\ resets' = [resets EXCEPT ![k] = @ + 1]

Reset ==
  /\ reset = NoReset
  /\ resets["device"] < MaxResets /\ clock < MaxClock
  /\ m_mutex["device"] = Nobody
  /\ m_mutex' = [m_mutex EXCEPT !["device"] = Resetter]
  /\ ReadClock("device")
  /\ UNCHANGED <<clock, m_resetTimestamp, privateData, calls>>

StoreReset ==
  /\ reset # NoReset
  /\ m_resetTimestamp' = [m_resetTimestamp EXCEPT ![reset.kind] = reset.tick]
  /\ IF reset.kind = "list"
       THEN reset' = NoReset /\ UNCHANGED resets
       ELSE ReadClock(NextKind(reset.kind))
  /\ m_mutex' = [m_mutex EXCEPT !["device"] = IF @ = Resetter THEN Nobody ELSE @]
  /\ UNCHANGED <<clock, privateData, calls>>

\* The resets of a class that are complete.
Completed(k) == IF reset.kind = k THEN resets[k] - 1 ELSE resets[k]

-----------------------------------------------------------------------------
(* GetOrCreate *)

\* Mutant: what was made in the tick of the reset passes for newer.
CountsAsFresh(o, object) ==
  object # Nothing /\ object.m_creationTimestamp >= m_resetTimestamp[Kind(o)]

Fresh(o, object) ==
  object # Nothing /\ object.m_creationTimestamp > m_resetTimestamp[Kind(o)]

\* Mutant: one mutex for all three classes.
OneMutex(o) == "device"

MutexOf(o) == Kind(o)

In(t, at) == calls[t] # <<>> /\ Last(calls[t]).at = at
Now(t) == Last(calls[t])
Update(t, call) == calls' = [calls EXCEPT ![t] = Append(Front(@), call)]
Unlock(o) == m_mutex' = [m_mutex EXCEPT ![MutexOf(o)] = Nobody]
Answer(t, object) == Update(t, [Now(t) EXCEPT !.at = "answer", !.object = object])

\* The first look at the private data.
Call(o) == [o |-> o, at |-> "check", object |-> privateData[o], since |-> Completed(Kind(o))]

GetOrCreate(t, o) ==
  /\ calls[t] = <<>>
  /\ calls' = [calls EXCEPT ![t] = <<Call(o)>>]
  /\ UNCHANGED <<clock, m_resetTimestamp, m_mutex, privateData, reset, resets>>

Check(t) ==
  /\ In(t, "check")
  /\ IF Fresh(Now(t).o, Now(t).object)
       THEN Answer(t, Now(t).object)
       ELSE Update(t, [Now(t) EXCEPT !.at = "lock", !.object = Nothing])
  /\ UNCHANGED <<clock, m_resetTimestamp, m_mutex, privateData, reset, resets>>

\* The mutex, and the second look.
Lock(t) ==
  /\ In(t, "lock")
  /\ m_mutex[MutexOf(Now(t).o)] = Nobody
  /\ m_mutex' = [m_mutex EXCEPT ![MutexOf(Now(t).o)] = t]
  /\ Update(t, [Now(t) EXCEPT !.at = "recheck", !.object = privateData[Now(t).o]])
  /\ UNCHANGED <<clock, m_resetTimestamp, privateData, reset, resets>>

\* Mutant: no second look.
CreateUnchecked(t) ==
  /\ In(t, "recheck")
  /\ LET o == Now(t).o
         made == NvapiObject(clock, resets[Kind(o)])
     IN  IF o \notin Extended
           THEN Unlock(o) /\ Answer(t, Nothing)
           ELSE /\ Update(t, [Now(t) EXCEPT !.at = IF o \in CommandLists THEN "construct"
                                                   ELSE "store",
                                            !.object = made])
                /\ UNCHANGED m_mutex
  /\ UNCHANGED <<clock, m_resetTimestamp, privateData, reset, resets>>

\* Nothing usable: the object is made and stamped, if it can be made.
Recheck(t) ==
  /\ In(t, "recheck")
  /\ LET o == Now(t).o
         made == NvapiObject(clock, resets[Kind(o)])
     IN  IF Fresh(o, Now(t).object)
           THEN Unlock(o) /\ Answer(t, Now(t).object)
         ELSE IF o \notin Extended
           THEN Unlock(o) /\ Answer(t, Nothing)
           ELSE /\ Update(t, [Now(t) EXCEPT !.at = IF o \in CommandLists THEN "construct"
                                                   ELSE "store",
                                            !.object = made])
                /\ UNCHANGED m_mutex
  /\ UNCHANGED <<clock, m_resetTimestamp, privateData, reset, resets>>

\* The constructor of a command list asks the device what it supports.
Construct(t) ==
  /\ In(t, "construct")
  /\ calls' = [calls EXCEPT ![t] =
                 Append(Append(Front(@), [Now(t) EXCEPT !.at = "store"]),
                        Call(DeviceOf[Now(t).o]))]
  /\ UNCHANGED <<clock, m_resetTimestamp, m_mutex, privateData, reset, resets>>

Store(t) ==
  /\ In(t, "store")
  /\ privateData' = [privateData EXCEPT ![Now(t).o] = Now(t).object]
  /\ Unlock(Now(t).o)
  /\ Answer(t, Now(t).object)
  /\ UNCHANGED <<clock, m_resetTimestamp, reset, resets>>

Return(t) ==
  /\ In(t, "answer")
  /\ calls' = [calls EXCEPT ![t] = Front(@)]
  /\ UNCHANGED <<clock, m_resetTimestamp, m_mutex, privateData, reset, resets>>

-----------------------------------------------------------------------------

Step(t) ==
  Check(t) \/ Lock(t) \/ Recheck(t) \/ Construct(t) \/ Store(t) \/ Return(t)

Next ==
  \/ Tick \/ Reset \/ StoreReset
  \/ \E t \in Threads : Step(t) \/ \E o \in Objects : GetOrCreate(t, o)

\* Threads go on with their calls, a Reset that has begun ends, and time passes.
Spec ==
  /\ Init /\ [][Next]_vars
  /\ WF_vars(Tick)
  /\ WF_vars(StoreReset)
  /\ \A t \in Threads : WF_vars(Step(t))

-----------------------------------------------------------------------------
(* Properties *)

(* No call answers with an object that was made before a reset which was   *)
(* complete when the call began, whatever the clock's resolution: an       *)
(* object and a reset of the same tick count as stale, and an object made  *)
(* during an unlocked Reset is kept only if it is stamped later.           *)
NoStaleAnswer ==
  \A t \in Threads : In(t, "answer") /\ Now(t).object # Nothing =>
    Now(t).object.after >= Now(t).since

(* Threads that race to make the object of one D3D12 object agree on it:   *)
(* what is in the private data is replaced only after a reset.             *)
OnlyStaleReplaced ==
  [][\A o \in Objects :
       privateData'[o] # privateData[o] => ~Fresh(o, privateData[o])]_vars

(* A mutex is always given back, though a command list takes the devices'  *)
(* mutex while it holds its own, and Reset runs in between.                *)
MutexIsReleased ==
  \A k \in Kinds : m_mutex[k] # Nobody ~> m_mutex[k] = Nobody

=============================================================================
