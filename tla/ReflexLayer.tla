------------------------------ MODULE ReflexLayer ------------------------------
(***************************************************************************)
(* The Vulkan Reflex layer: it sits between the application (or DXVK-NVAPI *)
(* acting for it) and a driver with VK_NV_low_latency2, remembers which    *)
(* swapchain the latency calls are about, re-applies the sleep mode to new *)
(* swapchains, and tags queue submissions and presents with the id of the  *)
(* frame whose latency markers are open.                                   *)
(*                                                                         *)
(* The layer has no lock.  A call is a step up to the first read of the    *)
(* device context that another thread may change, and one step from each   *)
(* such read or driver call to the next.  The module describes one device  *)
(* that CreateDevice has given a context; without one every call is passed *)
(* on as it is.  Calls with a null argument return at once and are left    *)
(* out.  The driver is external: it hands out swapchain handles, which it  *)
(* may use again after they were destroyed, and may refuse any call.       *)
(*                                                                         *)
(* A marker is two plain fields that one thread writes and others read, a  *)
(* data race: a start's two stores, and a reader's two loads, may each     *)
(* come in either order.  The application sets the markers of one kind one *)
(* after the other.                                                        *)
(***************************************************************************)
EXTENDS Naturals, Sequences, FiniteSets

CONSTANTS
  Threads,      \* threads of the application
  Does,         \* thread -> the calls it makes
  Marks,        \* thread -> the kinds of latency marker it sets
  Swapchains,   \* handles of the driver
  Queues,
  FrameIds,     \* frame ids in latency markers; a frame 0 would read as "no frame"
  AppModes,     \* sleep modes the application sets
  Settings,     \* environment settings explored: what to inject, which fallbacks
  MaxValue      \* bound of the model: values of the sleep semaphore

ASSUME FrameIdsAssumption == 0 \notin FrameIds
ASSUME SwapchainsAssumption == "VK_NULL_HANDLE" \notin Swapchains
ASSUME MaxValueAssumption == MaxValue \in Nat
ASSUME AppModesAssumption == AppModes \subseteq {"none", "off", "on"}
ASSUME SettingsAssumption ==
  Settings \subseteq [inject : SUBSET {"submit", "present"},
                      allow : SUBSET {"outOfBand", "present", "simulation"}]

VARIABLES
  setting,              \* the static flags, read once from the environment
  swapchain,            \* deviceContext.swapchain
  latencySleepModeInfo, \* deviceContext.latencySleepModeInfo
  markers,              \* deviceContext.markers
  outOfBand,            \* queue -> the kinds of work it does out of band
  live,                 \* driver: swapchains that exist
  sleepMode,            \* driver: swapchain -> its sleep mode
  semaphore,            \* value of the sleep semaphore
  sleeping,             \* driver: values it has yet to signal
  open,                 \* history: kind of marker -> the frame it is open for, 0 for none
  newest,               \* history: the swapchain whose creation returned last
  raced,                \* history: see SleepModeReachesSwapchain
  call                  \* what each thread is in the middle of

context == <<setting, swapchain, latencySleepModeInfo, markers, outOfBand>>
driver == <<live, sleepMode, semaphore, sleeping>>
history == <<open, newest, raced>>
vars == <<setting, swapchain, latencySleepModeInfo, markers, outOfBand,
          live, sleepMode, semaphore, sleeping, open, newest, raced, call>>

NoSwapchain == "VK_NULL_HANDLE"
Modes == {"none", "off", "on"}   \* "none": no sleep mode was ever set
Kinds == {"simulation", "renderSubmit", "present", "outOfBandRenderSubmit", "outOfBandPresent"}
Work == {"render", "present"}
InjectsFrameIDs == setting.inject # {}

Idle == [op |-> "idle"]

Init ==
  /\ setting \in Settings
  /\ swapchain = NoSwapchain
  /\ latencySleepModeInfo = "none"
  /\ markers = [k \in Kinds |-> [id |-> 0, ongoing |-> FALSE]]
  /\ outOfBand = [q \in Queues |-> {}]
  /\ live = {}
  /\ sleepMode = [s \in Swapchains |-> "none"]
  /\ semaphore = 0
  /\ sleeping = {}
  /\ open = [k \in Kinds |-> 0]
  /\ newest = NoSwapchain
  /\ raced = FALSE
  /\ call = [t \in Threads |-> Idle]

May(t, op) == op \in Does[t] /\ call[t] = Idle
Continue(t, c) == call' = [call EXCEPT ![t] = c]
Return(t) == Continue(t, Idle)

\* CreateSwapchainKHR and SetLatencySleepModeNV both end with a swapchain and a
\* stored mode that should agree.  `alone` says no call of the other kind overlapped.
Rival == [create |-> "sleepMode", sleepMode |-> "create"]
StartAlone(t, c) ==
  LET rivals == {u \in Threads : call[u].op = Rival[c.op]}
  IN  call' = [u \in Threads |->
        IF u = t THEN [c EXCEPT !.alone = (rivals = {})]
        ELSE IF u \in rivals THEN [call[u] EXCEPT !.alone = FALSE]
        ELSE call[u]]

-----------------------------------------------------------------------------
(* CreateSwapchainKHR *)

CreateSwapchain(t) ==
  /\ May(t, "create")
  /\ \E s \in Swapchains \ live :
       /\ live' = live \cup {s}
       /\ sleepMode' = [sleepMode EXCEPT ![s] = "none"]
       /\ StartAlone(t, [op |-> "create", sc |-> s, at |-> "apply", alone |-> TRUE])
  /\ UNCHANGED <<context, semaphore, sleeping, history>>

\* Mutant: the stored sleep mode is not applied to the new swapchain.
SkipStoredMode(t) ==
  /\ call[t].op = "create" /\ call[t].at = "apply"
  /\ call' = [call EXCEPT ![t].at = "register"]
  /\ UNCHANGED <<context, driver, history>>

\* A sleep mode that was set before is applied to the new swapchain.
ApplyStoredMode(t) ==
  /\ call[t].op = "create" /\ call[t].at = "apply"
  /\ \/ /\ latencySleepModeInfo = "none"
        /\ call' = [call EXCEPT ![t].at = "register"]
        /\ UNCHANGED sleepMode
     \/ /\ latencySleepModeInfo # "none"
        /\ call' = [call EXCEPT ![t].at = "register"]
        /\ sleepMode' = [sleepMode EXCEPT ![call[t].sc] = latencySleepModeInfo]
     \/ /\ latencySleepModeInfo # "none"      \* the driver refuses
        /\ call' = [call EXCEPT ![t].at = "undo"]
        /\ UNCHANGED sleepMode
  /\ UNCHANGED <<context, live, semaphore, sleeping, history>>

RegisterSwapchain(t) ==
  /\ call[t].op = "create" /\ call[t].at = "register"
  /\ swapchain' = call[t].sc
  /\ newest' = call[t].sc
  /\ raced' = ~call[t].alone
  /\ Return(t)
  /\ UNCHANGED <<setting, latencySleepModeInfo, markers, outOfBand, driver, open>>

UndoCreate(t) ==
  /\ call[t].op = "create" /\ call[t].at = "undo"
  /\ live' = live \ {call[t].sc}
  /\ Return(t)
  /\ UNCHANGED <<context, sleepMode, semaphore, sleeping, history>>

-----------------------------------------------------------------------------
(* DestroySwapchainKHR *)

\* The application knows a handle once its creation has returned.
Known(s) == s \in live /\ \A t \in Threads : call[t].op = "create" => call[t].sc # s

DestroySwapchain(t, s) ==
  /\ May(t, "destroy")
  /\ Known(s)
  /\ live' = live \ {s}
  /\ Continue(t, [op |-> "destroy", sc |-> s])
  /\ UNCHANGED <<context, sleepMode, semaphore, sleeping, history>>

\* Mutants: the registered swapchain is cleared whichever was destroyed; never.
ForgetAnySwapchain(t) ==
  /\ call[t].op = "destroy"
  /\ swapchain' = NoSwapchain
  /\ Return(t)
  /\ UNCHANGED <<setting, latencySleepModeInfo, markers, outOfBand, driver, history>>
KeepSwapchain(t) ==
  /\ call[t].op = "destroy"
  /\ Return(t)
  /\ UNCHANGED <<context, driver, history>>

ForgetSwapchain(t) ==
  /\ call[t].op = "destroy"
  /\ swapchain' = IF swapchain = call[t].sc THEN NoSwapchain ELSE swapchain
  /\ Return(t)
  /\ UNCHANGED <<setting, latencySleepModeInfo, markers, outOfBand, driver, history>>

-----------------------------------------------------------------------------
(* SetLatencySleepModeNV; mode "none" is a null pSleepModeInfo *)

SetLatencySleepMode(t, mode) ==
  /\ May(t, "sleepMode")
  /\ StartAlone(t, [op |-> "sleepMode", sc |-> swapchain, mode |-> mode,
                    at |-> IF swapchain = NoSwapchain THEN "store" ELSE "driver",
                    alone |-> TRUE])
  /\ UNCHANGED <<context, driver, history>>

DriverSetSleepMode(t) ==
  /\ call[t].op = "sleepMode" /\ call[t].at = "driver"
  /\ \/ /\ sleepMode' = [sleepMode EXCEPT ![call[t].sc] = call[t].mode]
        /\ call' = [call EXCEPT ![t].at = "store"]
     \/ /\ Return(t)                          \* the driver refuses
        /\ UNCHANGED sleepMode
  /\ UNCHANGED <<context, live, semaphore, sleeping, history>>

StoreSleepMode(t) ==
  /\ call[t].op = "sleepMode" /\ call[t].at = "store"
  /\ latencySleepModeInfo' = call[t].mode
  /\ raced' = ~call[t].alone
  /\ Return(t)
  /\ UNCHANGED <<setting, swapchain, markers, outOfBand, driver, open, newest>>

-----------------------------------------------------------------------------
(* LatencySleepNV, and the application's wait for the semaphore *)

LatencySleep(t) ==
  /\ May(t, "sleep")
  /\ semaphore < MaxValue
  /\ Continue(t, [op |-> "sleep", sc |-> swapchain, value |-> semaphore + 1])
  /\ UNCHANGED <<context, driver, history>>

Wait(t) == Continue(t, [op |-> "wait", value |-> call[t].value])

DriverSleep(t) ==
  /\ call[t].op = "sleep" /\ call[t].sc # NoSwapchain
  /\ \/ Wait(t) /\ sleeping' = sleeping \cup {call[t].value}
     \/ Return(t) /\ UNCHANGED sleeping        \* the driver refuses
  /\ UNCHANGED <<context, live, sleepMode, semaphore, history>>

\* Mutant: without a swapchain there is nothing to do.
SkipSignal(t) ==
  /\ call[t].op = "sleep" /\ call[t].sc = NoSwapchain
  /\ Wait(t)
  /\ UNCHANGED <<context, driver, history>>

\* Without a swapchain the layer signals the semaphore itself.
SignalSemaphore(t) ==
  /\ call[t].op = "sleep" /\ call[t].sc = NoSwapchain
  /\ \/ Wait(t) /\ semaphore' = call[t].value
     \/ Return(t) /\ UNCHANGED semaphore
  /\ UNCHANGED <<context, live, sleepMode, sleeping, history>>

DriverSignals ==
  /\ \E v \in sleeping : semaphore' = v /\ sleeping' = sleeping \ {v}
  /\ UNCHANGED <<context, live, sleepMode, history, call>>

Wake(t) ==
  /\ call[t].op = "wait" /\ semaphore >= call[t].value
  /\ Return(t)
  /\ UNCHANGED <<context, driver, history>>

-----------------------------------------------------------------------------
(* SetLatencyMarkerNV and QueueNotifyOutOfBandNV *)

Fields == {"id", "ongoing"}

\* Mutant: an end marker leaves its frame open.
EndIgnored(k) == markers

\* One store of a start, and the store of an end.
Stored(k, field, id) ==
  [markers EXCEPT ![k] = IF field = "id" THEN [@ EXCEPT !.id = id] ELSE [@ EXCEPT !.ongoing = TRUE]]
Ended(k) == [markers EXCEPT ![k].ongoing = FALSE]

\* A start of this kind has stored one field and has yet to store the other.
Starting(k) == \E t \in Threads : call[t].op = "marker" /\ call[t].kind = k

\* History of a call in progress that looks for a frame id.  `seen`: the ids that were
\* open at some time, and those a start that overlaps the call replaces; `steady`: the
\* kinds of marker whose start had returned before and that have not ended since.
WithStart(c, k, id) ==
  IF c.op # "tag" \/ k \notin c.allowed THEN c
  ELSE [c EXCEPT !.seen = @ \cup {id, markers[k].id}]
WithEnd(c, k) == IF c.op = "tag" THEN [c EXCEPT !.steady = @ \ {k}] ELSE c

\* The marker is forwarded if there is a swapchain, and recorded.
StartMarker(t, k, id) ==
  /\ call[t] = Idle /\ k \in Marks[t] /\ ~Starting(k)
  /\ InjectsFrameIDs
  /\ \E field \in Fields :
       /\ markers' = Stored(k, field, id)
       /\ call' = [u \in Threads |->
            IF u = t THEN [op |-> "marker", kind |-> k, id |-> id,
                           left |-> IF field = "id" THEN "ongoing" ELSE "id"]
            ELSE WithStart(call[u], k, id)]
  /\ open' = [open EXCEPT ![k] = id]
  /\ UNCHANGED <<setting, swapchain, latencySleepModeInfo, outOfBand, driver, newest, raced>>

FinishStart(t) ==
  /\ call[t].op = "marker"
  /\ markers' = Stored(call[t].kind, call[t].left, call[t].id)
  /\ Return(t)
  /\ UNCHANGED <<setting, swapchain, latencySleepModeInfo, outOfBand, driver, history>>

EndMarker(t, k) ==
  /\ call[t] = Idle /\ k \in Marks[t] /\ ~Starting(k)
  /\ InjectsFrameIDs
  /\ markers' = Ended(k)
  /\ open' = [open EXCEPT ![k] = 0]
  /\ call' = [u \in Threads |-> WithEnd(call[u], k)]
  /\ UNCHANGED <<setting, swapchain, latencySleepModeInfo, outOfBand, driver, newest, raced>>

QueueNotifyOutOfBand(t, q, work) ==
  /\ May(t, "notify")
  /\ InjectsFrameIDs
  /\ outOfBand' = [outOfBand EXCEPT ![q] = @ \cup {work}]
  /\ UNCHANGED <<setting, swapchain, latencySleepModeInfo, markers, driver, history, call>>

-----------------------------------------------------------------------------
(* GetFrameId, QueueSubmit, QueueSubmit2 and QueuePresentKHR *)

If(condition, seq) == IF condition THEN seq ELSE <<>>
Allow(fallback) == fallback \in setting.allow

\* Mutant: an out-of-band queue only looks at its own marker.
ChainWithoutFallback(present, oob) ==
  IF present THEN <<IF oob THEN "outOfBandPresent" ELSE "present">>
             ELSE <<IF oob THEN "outOfBandRenderSubmit" ELSE "renderSubmit">>

\* The markers GetFrameId tries, in order.
Chain(present, oob) ==
  If(~present,
     If(~oob, <<"renderSubmit">>)
     \o If(oob \/ Allow("outOfBand"), <<"outOfBandRenderSubmit">>)
     \o If(Allow("simulation"), <<"simulation">>))
  \o If(present \/ Allow("present"),
        If(~oob, <<"present">>)
        \o If(oob \/ Allow("outOfBand"), <<"outOfBandPresent">>))

\* The kinds of marker a call may take its id from, as the README describes the
\* three ALLOW_FALLBACK settings.
Allowed(present, oob) ==
  {k \in Kinds :
     /\ present => k \in {"present", "outOfBandPresent"}
     /\ oob => k \notin {"renderSubmit", "present"}
     /\ ~oob /\ ~Allow("outOfBand") => k \notin {"outOfBandRenderSubmit", "outOfBandPresent"}
     /\ ~present /\ ~Allow("present") => k \notin {"present", "outOfBandPresent"}
     /\ ~Allow("simulation") => k # "simulation"}

\* The ids that starts in progress are about to replace.
Replaced(kinds) ==
  {markers[k].id : k \in {l \in kinds : \E u \in Threads :
     call[u].op = "marker" /\ call[u].kind = l /\ call[u].left = "id"}}

\* A submission has no swapchains.
Tag(t, work, q, scs, hasIds) ==
  LET present == work = "present"
      oob == work \in outOfBand[q]
      allowed == Allowed(present, oob)
      opened == {k \in allowed : open[k] # 0}
  IN  /\ latencySleepModeInfo = "on"
      /\ Continue(t, [op |-> "tag", at |-> "try", chain |-> Chain(present, oob), id |-> 0,
                      scs |-> scs, hasIds |-> hasIds, allowed |-> allowed,
                      seen |-> {open[k] : k \in opened} \cup Replaced(allowed),
                      steady |-> {k \in opened : ~Starting(k)}])
      /\ UNCHANGED <<context, driver, history>>

QueueSubmit(t, q) ==
  /\ May(t, "submit")
  /\ "submit" \in setting.inject
  /\ Tag(t, "render", q, <<>>, FALSE)

\* hasIds: the application passes present ids of its own.
QueuePresent(t, q, scs, hasIds) ==
  /\ May(t, "present")
  /\ "present" \in setting.inject
  /\ \A i \in 1 .. Len(scs) : Known(scs[i])
  /\ Tag(t, "present", q, scs, hasIds)

\* The first marker of the chain is not open: on to the next.
Missed(c) ==
  [c EXCEPT !.chain = Tail(c.chain), !.id = 0, !.at = IF Tail(c.chain) = <<>> THEN "done" ELSE "try"]

\* GetFrameId reads the flag and the id of one marker after the other, and answers with
\* the id of the first that is open; 0 says there is none.  The flag comes first in the
\* source, and the id may come first in the build.
TryMarker(t) ==
  LET c == call[t]
  IN  /\ c.op = "tag" /\ c.at \in {"try", "flag"}
      /\ Continue(t, IF ~markers[Head(c.chain)].ongoing THEN Missed(c)
                     ELSE [c EXCEPT !.at = IF @ = "try" THEN "read" ELSE "done"])
      /\ UNCHANGED <<context, driver, history>>

ReadMarkerId(t) ==
  LET c == call[t]
  IN  /\ c.op = "tag" /\ c.at \in {"try", "read"}
      /\ Continue(t, [c EXCEPT !.id = markers[Head(c.chain)].id,
                               !.at = IF @ = "try" THEN "flag" ELSE "done"])
      /\ UNCHANGED <<context, driver, history>>

Answered(c) == c.op = "tag" /\ c.at = "done"

\* The ids a present carries: a vector made from the braced list {swapchainCount},
\* which has that one element, with an entry assigned for the layer's swapchain.
PresentIds(scs, i, id) == [<<Len(scs)>> EXCEPT ![i] = id]

\* The command goes to the driver, with the ids if the layer adds any.
Forward(t) ==
  /\ Answered(call[t])
  /\ LET c == call[t]
         mine == {i \in 1 .. Len(c.scs) : c.scs[i] = swapchain}
         ids == IF c.id = 0 \/ mine = {} \/ c.hasIds THEN <<>>
                ELSE PresentIds(c.scs, CHOOSE i \in mine : \A j \in mine : i <= j, c.id)
     IN  Continue(t, [op |-> "forward", scs |-> c.scs, ids |-> ids])
  /\ UNCHANGED <<context, driver, history>>

DriverReturns(t) ==
  /\ call[t].op = "forward"
  /\ Return(t)
  /\ UNCHANGED <<context, driver, history>>

-----------------------------------------------------------------------------

\* One swapchain or two different ones presented together.
SwapchainLists == {<<s>> : s \in Swapchains} \cup
                  {scs \in Swapchains \X Swapchains : scs[1] # scs[2]}

Next ==
  \/ \E t \in Threads :
       \/ CreateSwapchain(t) \/ ApplyStoredMode(t) \/ RegisterSwapchain(t) \/ UndoCreate(t)
       \/ \E s \in Swapchains : DestroySwapchain(t, s)
       \/ ForgetSwapchain(t)
       \/ \E mode \in AppModes : SetLatencySleepMode(t, mode)
       \/ DriverSetSleepMode(t) \/ StoreSleepMode(t)
       \/ LatencySleep(t) \/ DriverSleep(t) \/ SignalSemaphore(t) \/ Wake(t)
       \/ \E k \in Kinds, id \in FrameIds : StartMarker(t, k, id)
       \/ FinishStart(t)
       \/ \E k \in Kinds : EndMarker(t, k)
       \/ \E q \in Queues, work \in Work : QueueNotifyOutOfBand(t, q, work)
       \/ \E q \in Queues : QueueSubmit(t, q)
       \/ \E q \in Queues, scs \in SwapchainLists, hasIds \in BOOLEAN :
             QueuePresent(t, q, scs, hasIds)
       \/ TryMarker(t) \/ ReadMarkerId(t) \/ Forward(t) \/ DriverReturns(t)
  \/ DriverSignals

\* A thread finishes the call it has begun, and the driver signals every sleep it
\* has accepted, as vkLatencySleepNV requires of it.
Fairness ==
  /\ WF_vars(DriverSignals)
  /\ \A t \in Threads : WF_vars(DriverSleep(t) \/ SignalSemaphore(t) \/ Wake(t))

Spec == Init /\ [][Next]_vars /\ Fairness

-----------------------------------------------------------------------------
(* Properties *)

Calls ==
  {Idle}
  \cup [op : {"create"}, sc : Swapchains, at : {"apply", "register", "undo"}, alone : BOOLEAN]
  \cup [op : {"destroy"}, sc : Swapchains]
  \cup [op : {"sleepMode"}, sc : Swapchains \cup {NoSwapchain}, mode : Modes,
        at : {"driver", "store"}, alone : BOOLEAN]
  \cup [op : {"sleep"}, sc : Swapchains \cup {NoSwapchain}, value : 1 .. MaxValue]
  \cup [op : {"wait"}, value : 1 .. MaxValue]
  \cup [op : {"marker"}, kind : Kinds, id : FrameIds, left : Fields]
  \cup [op : {"tag"}, at : {"try", "read", "flag", "done"}, chain : Seq(Kinds),
        id : FrameIds \cup {0}, scs : Seq(Swapchains), hasIds : BOOLEAN, allowed : SUBSET Kinds,
        seen : SUBSET (FrameIds \cup {0}), steady : SUBSET Kinds]
  \cup [op : {"forward"}, scs : Seq(Swapchains), ids : Seq(Nat \cup FrameIds)]

TypeOK ==
  /\ setting \in Settings
  /\ swapchain \in Swapchains \cup {NoSwapchain}
  /\ latencySleepModeInfo \in Modes
  /\ markers \in [Kinds -> [id : FrameIds \cup {0}, ongoing : BOOLEAN]]
  /\ outOfBand \in [Queues -> SUBSET Work]
  /\ live \subseteq Swapchains
  /\ sleepMode \in [Swapchains -> Modes]
  /\ semaphore \in 0 .. MaxValue
  /\ sleeping \subseteq 1 .. MaxValue
  /\ open \in [Kinds -> FrameIds \cup {0}]
  /\ newest \in Swapchains \cup {NoSwapchain}
  /\ raced \in BOOLEAN
  /\ call \in [Threads -> Calls]

InProgress(op, s) == \E t \in Threads : call[t].op = op /\ call[t].sc = s

(* The layer remembers a destroyed swapchain at most while the call that   *)
(* destroys it is still in progress, so a latency call that begins after   *)
(* DestroySwapchainKHR has returned never reaches a dead handle.           *)
StaleOnlyDuringDestroy ==
  swapchain \notin live \cup {NoSwapchain} => InProgress("destroy", swapchain)

(* The newest swapchain, as long as it exists and no call is about to      *)
(* change that, is the one latency calls go to: destroying the swapchain   *)
(* it replaced does not cut it off.                                        *)
NewestIsRegistered ==
  /\ newest \in live
  /\ ~InProgress("create", newest)
  => swapchain = newest

(* The registered swapchain runs with the sleep mode the layer has stored, *)
(* across destroyed and new swapchains and refused changes.  The layer has *)
(* no lock, so this is only so if SetLatencySleepModeNV and                *)
(* CreateSwapchainKHR did not overlap the last time one of them succeeded. *)
SleepModeReachesSwapchain ==
  /\ ~raced
  /\ swapchain \in live
  /\ \A t \in Threads : call[t].op = "sleepMode" => call[t].at # "store"
  => sleepMode[swapchain] = latencySleepModeInfo

(* The id added to a submission or present is the id of a frame whose      *)
(* marker, of a kind the settings allow, was open at some time during the  *)
(* call.  A marker's fields are not written together, so it may also be    *)
(* the id that a start overlapping the call was replacing; never that of   *)
(* any other frame that had ended before.                                  *)
InjectedFrameWasOpen ==
  \A t \in Threads :
    Answered(call[t]) /\ call[t].id # 0 => call[t].id \in call[t].seen

(* A call goes without an id only if no allowed marker was open for the    *)
(* whole call, or if the first start ever of such a marker overlapped it   *)
(* and showed its flag before its id.                                      *)
OpenFrameIsInjected ==
  \A t \in Threads :
    Answered(call[t]) /\ call[t].id = 0 => call[t].steady = {} \/ 0 \in call[t].seen

(* Each present the layer adds ids to has one for each of its swapchains,  *)
(* and the layer's own swapchain gets the frame id.                        *)
PresentIdsMatchSwapchains ==
  \A t \in Threads :
    call[t].op = "forward" /\ call[t].ids # <<>> /\ call[t].scs # <<>> =>
      Len(call[t].ids) = Len(call[t].scs)

(* A thread that sleeps always gets to go on, with or without a swapchain. *)
SleeperWakes == \A t \in Threads : call[t].op \in {"sleep", "wait"} ~> call[t] = Idle

=============================================================================
