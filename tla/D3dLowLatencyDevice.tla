------------------------- MODULE D3dLowLatencyDevice -------------------------
(***************************************************************************)
(* NvapiD3dLowLatencyDevice and the NvAPI_D3D_* / NvAPI_D3D12_* entry      *)
(* points that use it: several threads of the application set latency      *)
(* markers and read latency reports through one device and its frame id    *)
(* generator, in front of the driver (DXVK or VKD3D-Proton).               *)
(*                                                                         *)
(* Only the generator has a lock.  A marker is translated under that lock  *)
(* and sent to the driver after it is released; a batch of reports is      *)
(* translated one id at a time, each under the lock.  Those are the steps. *)
(* A call that returns early (not initialised, bad argument, no low        *)
(* latency support, a marker type Vulkan has no equivalent for) changes no *)
(* state and is no step.                                                   *)
(***************************************************************************)
EXTENDS FrameIdGenerator

CONSTANTS
  Threads,      \* threads of the application
  Setter,       \* the one that sets the sleep mode (m_lowLatencyMode is a plain bool)
  Reports,      \* size of D3D_LATENCY_RESULTS::frame_reports, 64 in the code
  MaxId         \* bound of the model: ids handed out

ASSUME SetterAssumption == Setter \in Threads
ASSUME ReportsAssumption == Reports \in Nat \ {0}
ASSUME MaxIdAssumption == MaxId \in Nat

VARIABLES
  call,             \* what each thread is in the middle of
  lowLatencyMode,   \* m_lowLatencyMode
  driverMode,       \* the mode the driver runs with
  driverFrames      \* <<device id, application id>> the driver got a marker for

vars == <<nextId, deviceIdOf, appIdList, call, lowLatencyMode, driverMode, driverFrames>>

Idle == [op |-> "idle"]
Slots == 1 .. Reports
DriverIds == {p[1] : p \in driverFrames}

\* What a thread holds between two steps of a call.  `raw` keeps what the
\* driver reported, for the properties; the code overwrites the ids in place.
Calls ==
  {Idle}
  \cup [op : {"marker"}, id : Nat, app : AppIds]
  \cup [op : {"sleepMode"}, mode : BOOLEAN, ok : BOOLEAN]
  \cup [op : {"reports"}, raw : [Slots -> Nat], ids : [Slots -> Nat], at : 1 .. Reports + 1]

Batch(raw, ids, at) == [op |-> "reports", raw |-> raw, ids |-> ids, at |-> at]

TypeOK ==
  /\ GeneratorTypeOK
  /\ call \in [Threads -> Calls]
  /\ lowLatencyMode \in BOOLEAN
  /\ driverMode \in BOOLEAN
  /\ driverFrames \subseteq Nat \X AppIds

Init ==
  /\ GeneratorInit
  /\ call = [t \in Threads |-> Idle]
  /\ lowLatencyMode = FALSE
  /\ driverMode = FALSE
  /\ driverFrames = {}

-----------------------------------------------------------------------------
(* SetLatencyMarker *)

\* The argument of the driver call: the frame id translated under the lock.
TranslateMarker(t, app) ==
  /\ call[t] = Idle
  /\ Remembered(app) \/ nextId <= MaxId
  /\ call' = [call EXCEPT ![t] = [op |-> "marker", id |-> DeviceIdFor(app), app |-> app]]
  /\ GetLowLatencyDeviceFrameId(app)
  /\ UNCHANGED <<lowLatencyMode, driverMode, driverFrames>>

\* The driver call itself, which the driver may refuse.
SendMarker(t) ==
  /\ call[t].op = "marker"
  /\ \/ driverFrames' = driverFrames \cup {<<call[t].id, call[t].app>>}
     \/ driverFrames' = driverFrames
  /\ call' = [call EXCEPT ![t] = Idle]
  /\ UNCHANGED <<nextId, deviceIdOf, appIdList, lowLatencyMode, driverMode>>

-----------------------------------------------------------------------------
(* SetLatencySleepMode *)

DriverSetSleepMode(mode, ok) ==
  /\ call[Setter] = Idle
  /\ call' = [call EXCEPT ![Setter] = [op |-> "sleepMode", mode |-> mode, ok |-> ok]]
  /\ driverMode' = IF ok THEN mode ELSE driverMode
  /\ UNCHANGED <<nextId, deviceIdOf, appIdList, lowLatencyMode, driverFrames>>

\* Mutant: the mode is stored whatever the driver returned.
StoreAnyMode(t) ==
  /\ call[t].op = "sleepMode"
  /\ lowLatencyMode' = call[t].mode
  /\ call' = [call EXCEPT ![t] = Idle]
  /\ UNCHANGED <<nextId, deviceIdOf, appIdList, driverMode, driverFrames>>

StoreSleepMode(t) ==
  /\ call[t].op = "sleepMode"
  /\ lowLatencyMode' = IF call[t].ok THEN call[t].mode ELSE lowLatencyMode
  /\ call' = [call EXCEPT ![t] = Idle]
  /\ UNCHANGED <<nextId, deviceIdOf, appIdList, driverMode, driverFrames>>

-----------------------------------------------------------------------------
(* GetLatencyInfo *)

\* The driver fills every slot: with a frame it got a marker for, or with 0.
FetchReports(t) ==
  /\ call[t] = Idle
  /\ \E raw \in [Slots -> DriverIds \cup {0}] :
       call' = [call EXCEPT ![t] = Batch(raw, raw, 1)]
  /\ UNCHANGED <<nextId, deviceIdOf, appIdList, lowLatencyMode, driverMode, driverFrames>>

\* The batch after one iteration of the loop: one id translated, or everything
\* cleared and the loop left because this id has no application frame.
Translated(batch) ==
  LET app == GetApplicationFrameId(batch.ids[batch.at])
  IN  IF app = 0
        THEN Batch(batch.raw, [i \in Slots |-> 0], Reports + 1)
        ELSE Batch(batch.raw, [batch.ids EXCEPT ![batch.at] = app], batch.at + 1)

TranslateReport(t) ==
  /\ call[t].op = "reports"
  /\ call[t].at <= Reports
  /\ call' = [call EXCEPT ![t] = Translated(@)]
  /\ UNCHANGED <<nextId, deviceIdOf, appIdList, lowLatencyMode, driverMode, driverFrames>>

ReturnReports(t) ==
  /\ call[t].op = "reports"
  /\ call[t].at > Reports
  /\ call' = [call EXCEPT ![t] = Idle]
  /\ UNCHANGED <<nextId, deviceIdOf, appIdList, lowLatencyMode, driverMode, driverFrames>>

-----------------------------------------------------------------------------

Next ==
  \/ \E t \in Threads :
       \/ \E app \in AppIds : TranslateMarker(t, app)
       \/ SendMarker(t)
       \/ StoreSleepMode(t)
       \/ FetchReports(t)
       \/ TranslateReport(t)
       \/ ReturnReports(t)
  \/ \E mode, ok \in BOOLEAN : DriverSetSleepMode(mode, ok)

Spec == Init /\ [][Next]_vars

-----------------------------------------------------------------------------
(* Properties *)

\* Every pairing of a device id with an application frame that has left the
\* generator: sent to the driver, or in a thread's hands on the way to it.
Pairings ==
  driverFrames \cup
  {<<call[t].id, call[t].app>> : t \in {u \in Threads : call[u].op = "marker"}}

(* The driver never sees one id used for two different frames, even when a *)
(* thread sits on a translated id while other threads number new frames.   *)
OneFramePerId ==
  \A p, q \in Pairings : p[1] = q[1] => p[2] = q[2]

(* A frame is renumbered only after it was forgotten: two ids of one frame *)
(* are more than ListSize apart, so all markers of a frame that the        *)
(* application spreads over fewer than ListSize frames meet at the driver. *)
RenumberedOnlyWhenForgotten ==
  \A p, q \in Pairings : p[2] = q[2] /\ p[1] < q[1] => q[1] - p[1] > ListSize

Finished(batch) == batch.op = "reports" /\ batch.at > Reports
Cleared(batch) == \A i \in Slots : batch.ids[i] = 0

(* GetLatencyInfo returns either no report or a full batch, and then every *)
(* report carries the frame whose markers the driver saw under that id,    *)
(* whatever was numbered by other threads while the batch was translated.  *)
ReportsAreTruthful ==
  \A t \in Threads : Finished(call[t]) =>
    \/ Cleared(call[t])
    \/ \A i \in Slots : <<call[t].raw[i], call[t].ids[i]>> \in driverFrames

(* The batch is thrown away only for one of three reasons: a slot the      *)
(* driver left empty, an id that ListSize - 1 newer ones have pushed out   *)
(* of the window, or application frame 0, which reads as "unknown".        *)
ClearedOnlyForCause ==
  \A t \in Threads : Finished(call[t]) /\ Cleared(call[t]) =>
    \E i \in Slots :
      \/ call[t].raw[i] = 0
      \/ nextId - call[t].raw[i] >= ListSize
      \/ <<call[t].raw[i], 0>> \in driverFrames

(* Outside a SetLatencySleepMode call the mode GetSleepStatus reports is   *)
(* the mode the driver runs with, also after the driver refused a change.  *)
SleepStatusAgreesWithDriver ==
  call[Setter].op # "sleepMode" => lowLatencyMode = driverMode

\* The state of the abstract window: how many ids were handed out, which frame
\* has each id that is still live, and what each thread's marker call works with.
Issued == nextId - 1
NumberedFrames ==
  [id \in {d \in 1 .. Issued : Issued - d < ListSize} |-> appIdList[Slot(id)]]
Held ==
  [t \in Threads |->
     IF call[t].op = "marker" THEN <<call[t].id, call[t].app>> ELSE <<0, 0>>]

Window == INSTANCE FrameIdWindow WITH
  issued <- Issued, numbered <- NumberedFrames, held <- Held

(* Hash map, ring and lock together implement the window of remembered     *)
(* frames: a marker call either reuses the number of a frame that is still *)
(* remembered or takes the next one and forgets the oldest frame.          *)
ImplementsWindow == Window!Spec

=============================================================================
