--------------------------- MODULE FrameIdGenerator ---------------------------
(***************************************************************************)
(* LowLatencyFrameIdGenerator: the translation between the frame ids of    *)
(* the application (64-bit numbers in any order) and the ids sent to the   *)
(* driver, which count up from 1.                                          *)
(*                                                                         *)
(* Both public methods hold m_frameIdGeneratorMutex from their first line  *)
(* to their return, so each is one step.  The module has no next-state     *)
(* relation: D3dLowLatencyDevice owns the generator and calls it.          *)
(***************************************************************************)
EXTENDS Integers

CONSTANTS
  AppIds,       \* frame ids the application uses (uint64_t)
  ListSize      \* applicationIdListSize, 1000 in the code

ASSUME AppIdsAssumption == AppIds \subseteq Nat
ASSUME ListSizeAssumption == ListSize \in Nat \ {0}

VARIABLES
  nextId,       \* m_nextLowLatencyDeviceFrameId
  deviceIdOf,   \* m_applicationIdToDeviceId; 0 = no entry (device ids start at 1)
  appIdList     \* m_applicationIdList, indexed from 0

generatorVars == <<nextId, deviceIdOf, appIdList>>

GeneratorTypeOK ==
  /\ nextId \in Nat \ {0}
  /\ deviceIdOf \in [AppIds -> Nat]
  /\ appIdList \in [0 .. ListSize - 1 -> AppIds \cup {0}]

GeneratorInit ==
  /\ nextId = 1
  /\ deviceIdOf = [app \in AppIds |-> 0]
  /\ appIdList = [i \in 0 .. ListSize - 1 |-> 0]

Slot(id) == (id - 1) % ListSize

Remembered(app) == deviceIdOf[app] # 0

\* Mutant: the new id is taken from the ring index.
DeviceIdFromSlot(app) == IF Remembered(app) THEN deviceIdOf[app] ELSE Slot(nextId) + 1

\* What GetLowLatencyDeviceFrameId(app) returns.
DeviceIdFor(app) == IF Remembered(app) THEN deviceIdOf[app] ELSE nextId

\* Mutants: the eviction starts one issue late; it hits the newest frame.
EraseOneLate ==
  IF nextId - 1 > ListSize
    THEN [deviceIdOf EXCEPT ![appIdList[Slot(nextId)]] = 0]
    ELSE deviceIdOf

EraseNewest ==
  IF nextId - 1 >= ListSize
    THEN [deviceIdOf EXCEPT ![appIdList[Slot(nextId - 1)]] = 0]
    ELSE deviceIdOf

\* The map without the entry of the frame whose slot is about to be reused.
MapAfterErase ==
  IF nextId - 1 >= ListSize
    THEN [deviceIdOf EXCEPT ![appIdList[Slot(nextId)]] = 0]
    ELSE deviceIdOf

\* Mutant: the lookup is missing, every marker numbers its frame anew.
NumberAlways(app) ==
  /\ nextId' = nextId + 1
  /\ deviceIdOf' = [MapAfterErase EXCEPT ![app] = nextId]
  /\ appIdList' = [appIdList EXCEPT ![Slot(nextId)] = app]

GetLowLatencyDeviceFrameId(app) ==
  IF Remembered(app)
    THEN UNCHANGED generatorVars
    ELSE /\ nextId' = nextId + 1
         /\ deviceIdOf' = [MapAfterErase EXCEPT ![app] = nextId]
         /\ appIdList' = [appIdList EXCEPT ![Slot(nextId)] = app]

\* Mutants: ids that were overwritten pass; the oldest valid id does not.
KnownId(id) == id < nextId
WindowOneShort(id) == id < nextId /\ nextId - id < ListSize - 1

LowLatencyDeviceFrameIdInWindow(id) == id < nextId /\ nextId - id < ListSize

\* What GetApplicationFrameId(id) returns; 0 says "unknown".
GetApplicationFrameId(id) ==
  IF id = 0 \/ ~LowLatencyDeviceFrameIdInWindow(id)
    THEN 0
    ELSE appIdList[Slot(id)]

(***************************************************************************)
(* The ids that still have a slot of their own, and the consistency of the *)
(* map with the ring: an entry of the map is the content of its slot, and  *)
(* every slot in use is an entry of the map.  Each later lookup, eviction  *)
(* and translation relies on it.                                           *)
(***************************************************************************)
LiveIds == {id \in 1 .. nextId - 1 : nextId - id <= ListSize}

MapMatchesList ==
  \A app \in AppIds : Remembered(app) =>
    /\ deviceIdOf[app] \in LiveIds
    /\ appIdList[Slot(deviceIdOf[app])] = app

ListMatchesMap ==
  \A id \in LiveIds :
    /\ appIdList[Slot(id)] \in AppIds
    /\ deviceIdOf[appIdList[Slot(id)]] = id

GeneratorInv == MapMatchesList /\ ListMatchesMap

=============================================================================
