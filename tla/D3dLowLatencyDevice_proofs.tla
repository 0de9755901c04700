---------------------- MODULE D3dLowLatencyDevice_proofs ----------------------
(***************************************************************************)
(* Proofs about LowLatencyFrameIdGenerator and D3dLowLatencyDevice, for    *)
(* any number of threads, any set of application frame ids, any size of    *)
(* the ring and of a report batch, and any bound on the ids handed out.    *)
(***************************************************************************)
EXTENDS D3dLowLatencyDevice, TLAPS

USE AppIdsAssumption, ListSizeAssumption

-----------------------------------------------------------------------------
(* Division with remainder *)

(* Quotient and remainder of the ring index computation have their usual   *)
(* ranges and recompose the dividend.                                      *)
LEMMA DivMod ==
  ASSUME NEW x \in Nat, NEW n \in Nat \ {0}
  PROVE  /\ x % n \in 0 .. n - 1
         /\ x \div n \in Nat
         /\ x = n * (x \div n) + (x % n)
  BY SMT

(* A number has one quotient and one remainder.                            *)
LEMMA DivModUnique ==
  ASSUME NEW n \in Nat \ {0}, NEW q \in Nat, NEW r \in 0 .. n - 1,
         NEW k \in Nat, NEW s \in 0 .. n - 1, n * q + r = n * k + s
  PROVE  q = k /\ r = s
  <1>1. ASSUME NEW i \in Nat, NEW j \in Nat, i < j
        PROVE  n * i + n <= n * j
    <2>1. j >= i + 1
      BY <1>1
    <2>2. n * j >= n * (i + 1)
      BY <2>1, SMT
    <2>. QED BY <2>2, SMT
  <1>2. CASE q < k
    BY <1>1, <1>2, SMT
  <1>3. CASE k < q
    BY <1>1, <1>3, SMT
  <1>4. CASE q = k
    BY <1>4, SMT
  <1>. QED BY <1>2, <1>3, <1>4

(* Ids ListSize apart share a slot of the ring.                            *)
LEMMA SlotReuse ==
  ASSUME NEW id \in Nat \ {0}
  PROVE  /\ Slot(id) \in 0 .. ListSize - 1
         /\ Slot(id + ListSize) = Slot(id)
  <1> DEFINE x == id - 1
             y == x + ListSize
  <1>1. x \in Nat /\ y \in Nat
    BY SMT
  <1>2. x = ListSize * (x \div ListSize) + (x % ListSize)
    BY <1>1, DivMod
  <1>3. y = ListSize * (y \div ListSize) + (y % ListSize)
    BY <1>1, DivMod
  <1>4. y = ListSize * (x \div ListSize + 1) + (x % ListSize)
    <2>1. x \div ListSize \in Nat
      BY <1>1, DivMod
    <2>. QED BY <1>1, <1>2, <2>1, SMT
  <1>5. /\ x % ListSize \in 0 .. ListSize - 1
        /\ y % ListSize \in 0 .. ListSize - 1
        /\ x \div ListSize \in Nat
        /\ y \div ListSize \in Nat
    BY <1>1, DivMod
  <1>6. x \div ListSize + 1 \in Nat
    BY <1>5
  <1>7. y % ListSize = x % ListSize
    <2>1. ListSize * (y \div ListSize) + (y % ListSize)
            = ListSize * (x \div ListSize + 1) + (x % ListSize)
      BY <1>3, <1>4
    <2> HIDE DEF x, y
    <2>. QED BY <1>5, <1>6, <2>1, DivModUnique
  <1>8. (id + ListSize) - 1 = y
    BY SMT
  <1>. QED BY <1>5, <1>7, <1>8 DEF Slot

(* Two different ids less than ListSize apart have slots of their own.     *)
LEMMA SlotsDistinct ==
  ASSUME NEW a \in Nat \ {0}, NEW b \in Nat \ {0}, a < b, b - a < ListSize
  PROVE  Slot(a) # Slot(b)
  <1> DEFINE x == a - 1
             y == b - 1
  <1>1. x \in Nat /\ y \in Nat /\ x < y /\ y - x < ListSize
    BY SMT
  <1>2. SUFFICES ASSUME x % ListSize = y % ListSize
                 PROVE  FALSE
    BY DEF Slot
  <1>3. /\ x = ListSize * (x \div ListSize) + (x % ListSize)
        /\ y = ListSize * (y \div ListSize) + (x % ListSize)
        /\ x \div ListSize \in Nat
        /\ y \div ListSize \in Nat
        /\ x % ListSize \in 0 .. ListSize - 1
    BY <1>1, <1>2, DivMod
  <1>4. CASE x \div ListSize < y \div ListSize
    <2>1. y \div ListSize >= x \div ListSize + 1
      BY <1>3, <1>4
    <2>2. ListSize * (y \div ListSize) >= ListSize * (x \div ListSize + 1)
      BY <1>3, <2>1, SMT
    <2>3. ListSize * (x \div ListSize + 1) = ListSize * (x \div ListSize) + ListSize
      BY <1>3, SMT
    <2>. QED BY <1>1, <1>3, <2>2, <2>3, SMT
  <1>5. CASE ~(x \div ListSize < y \div ListSize)
    <2>1. x \div ListSize >= y \div ListSize
      BY <1>3, <1>5
    <2>2. ListSize * (x \div ListSize) >= ListSize * (y \div ListSize)
      BY <1>3, <2>1, SMT
    <2>. QED BY <1>1, <1>3, <2>2, SMT
  <1>. QED BY <1>4, <1>5

-----------------------------------------------------------------------------
(* The methods preserve the consistency of map and ring *)

(* A new generator is consistent: no id is live.                           *)
LEMMA GeneratorStarts == GeneratorInit => GeneratorTypeOK /\ GeneratorInv
  <1> SUFFICES ASSUME GeneratorInit
               PROVE  GeneratorTypeOK /\ GeneratorInv
    OBVIOUS
  <1>1. GeneratorTypeOK
    BY DEF GeneratorInit, GeneratorTypeOK
  <1>2. LiveIds = {}
    BY DEF GeneratorInit, LiveIds
  <1>3. MapMatchesList
    BY DEF GeneratorInit, MapMatchesList, Remembered
  <1>. QED BY <1>1, <1>2, <1>3 DEF GeneratorInv, ListMatchesMap

(* Numbering a frame forgets exactly the frame that was numbered ListSize  *)
(* issues ago, and no other entry of the map or slot of the ring changes.  *)
LEMMA NumberingEffect ==
  ASSUME GeneratorTypeOK, GeneratorInv, NEW app \in AppIds, ~Remembered(app),
         GetLowLatencyDeviceFrameId(app)
  PROVE  /\ nextId' = nextId + 1
         /\ deviceIdOf' \in [AppIds -> Nat]
         /\ deviceIdOf'[app] = nextId
         /\ \A a \in AppIds \ {app} :
              deviceIdOf'[a] = IF deviceIdOf[a] = nextId - ListSize THEN 0 ELSE deviceIdOf[a]
         /\ appIdList' \in [0 .. ListSize - 1 -> AppIds \cup {0}]
         /\ appIdList'[Slot(nextId)] = app
         /\ \A i \in 0 .. ListSize - 1 : i # Slot(nextId) => appIdList'[i] = appIdList[i]
  <1> USE DEF GeneratorTypeOK
  <1>1. /\ nextId' = nextId + 1
        /\ deviceIdOf' = [MapAfterErase EXCEPT ![app] = nextId]
        /\ appIdList' = [appIdList EXCEPT ![Slot(nextId)] = app]
    BY DEF GetLowLatencyDeviceFrameId
  <1>2. Slot(nextId) \in 0 .. ListSize - 1
    BY SlotReuse
  <1>3. MapAfterErase \in [AppIds -> Nat]
    BY DEF MapAfterErase
  <1>4. ASSUME NEW a \in AppIds
        PROVE  MapAfterErase[a] = IF deviceIdOf[a] = nextId - ListSize THEN 0 ELSE deviceIdOf[a]
    <2>1. CASE nextId - 1 >= ListSize
      <3> DEFINE old == nextId - ListSize
      <3>1. old \in Nat \ {0} /\ old \in LiveIds /\ old + ListSize = nextId
        BY <2>1 DEF LiveIds
      <3>2. Slot(old) = Slot(nextId)
        BY <3>1, SlotReuse
      <3>3. /\ appIdList[Slot(nextId)] \in AppIds
            /\ deviceIdOf[appIdList[Slot(nextId)]] = old
        BY <3>1, <3>2 DEF GeneratorInv, ListMatchesMap
      <3>4. deviceIdOf[a] = old => appIdList[Slot(nextId)] = a
        BY <3>1, <3>2 DEF GeneratorInv, MapMatchesList, Remembered
      <3>. QED BY <2>1, <3>3, <3>4 DEF MapAfterErase
    <2>2. CASE ~(nextId - 1 >= ListSize)
      <3>1. MapAfterErase[a] = deviceIdOf[a]
        BY <2>2 DEF MapAfterErase
      <3>2. deviceIdOf[a] = nextId - ListSize => deviceIdOf[a] = 0
        BY <2>2
      <3>. QED BY <3>1, <3>2
    <2>. QED BY <2>1, <2>2
  <1>. QED BY <1>1, <1>2, <1>3, <1>4

(* GetLowLatencyDeviceFrameId keeps the generator well typed and           *)
(* consistent.                                                             *)
LEMMA GeneratorStep ==
  ASSUME GeneratorTypeOK, GeneratorInv, NEW app \in AppIds, GetLowLatencyDeviceFrameId(app)
  PROVE  GeneratorTypeOK' /\ GeneratorInv'
  <1>1. CASE Remembered(app)
    BY <1>1 DEF GetLowLatencyDeviceFrameId, generatorVars, GeneratorTypeOK, GeneratorInv,
                MapMatchesList, ListMatchesMap, LiveIds, Remembered
  <1>2. CASE ~Remembered(app)
    <2> USE DEF GeneratorTypeOK
    <2>1. /\ nextId' = nextId + 1
          /\ deviceIdOf' \in [AppIds -> Nat]
          /\ deviceIdOf'[app] = nextId
          /\ \A a \in AppIds \ {app} :
               deviceIdOf'[a] = IF deviceIdOf[a] = nextId - ListSize THEN 0 ELSE deviceIdOf[a]
          /\ appIdList' \in [0 .. ListSize - 1 -> AppIds \cup {0}]
          /\ appIdList'[Slot(nextId)] = app
          /\ \A i \in 0 .. ListSize - 1 : i # Slot(nextId) => appIdList'[i] = appIdList[i]
      BY <1>2, NumberingEffect
    <2>2. GeneratorTypeOK'
      BY <2>1
    <2>3. ASSUME NEW id \in LiveIds, id # nextId - ListSize
          PROVE  /\ id \in LiveIds'
                 /\ appIdList'[Slot(id)] = appIdList[Slot(id)]
      <3>1. id \in Nat \ {0} /\ id < nextId /\ nextId - id < ListSize
        BY <2>3 DEF LiveIds
      <3>2. Slot(id) # Slot(nextId) /\ Slot(id) \in 0 .. ListSize - 1
        BY <3>1, SlotsDistinct, SlotReuse
      <3>. QED BY <2>1, <3>1, <3>2 DEF LiveIds
    <2>4. LiveIds' \subseteq (LiveIds \ {nextId - ListSize}) \cup {nextId}
      BY <2>1 DEF LiveIds
    <2>5. nextId \in LiveIds'
      BY <2>1 DEF LiveIds
    <2>6. MapMatchesList'
      <3> SUFFICES ASSUME NEW a \in AppIds, deviceIdOf'[a] # 0
                   PROVE  /\ deviceIdOf'[a] \in LiveIds'
                          /\ appIdList'[Slot(deviceIdOf'[a])] = a
        BY DEF MapMatchesList, Remembered, Slot
      <3>1. CASE a = app
        BY <2>1, <2>5, <3>1
      <3>2. CASE a # app
        <4>1. deviceIdOf'[a] = deviceIdOf[a] /\ deviceIdOf[a] # nextId - ListSize
          BY <2>1, <3>2
        <4>2. deviceIdOf[a] \in LiveIds /\ appIdList[Slot(deviceIdOf[a])] = a
          BY <4>1 DEF GeneratorInv, MapMatchesList, Remembered
        <4>. QED BY <2>3, <4>1, <4>2
      <3>. QED BY <3>1, <3>2
    <2>7. ListMatchesMap'
      <3> SUFFICES ASSUME NEW id \in LiveIds'
                   PROVE  /\ appIdList'[Slot(id)] \in AppIds
                          /\ deviceIdOf'[appIdList'[Slot(id)]] = id
        BY DEF ListMatchesMap, Slot
      <3>1. CASE id = nextId
        BY <2>1, <3>1
      <3>2. CASE id # nextId
        <4>1. id \in LiveIds /\ id # nextId - ListSize
          BY <2>4, <3>2
        <4>2. /\ appIdList[Slot(id)] \in AppIds
              /\ deviceIdOf[appIdList[Slot(id)]] = id
          BY <4>1 DEF GeneratorInv, ListMatchesMap
        <4>3. id # 0
          BY <4>1 DEF LiveIds
        <4>4. appIdList[Slot(id)] # app
          BY <1>2, <4>2, <4>3 DEF Remembered
        <4>. QED BY <2>1, <2>3, <4>1, <4>2, <4>4
      <3>. QED BY <3>1, <3>2
    <2>. QED BY <2>2, <2>6, <2>7 DEF GeneratorInv
  <1>. QED BY <1>1, <1>2

(* A translated id is an application frame or 0.                           *)
LEMMA TranslationTyped ==
  ASSUME GeneratorTypeOK, NEW id \in Nat
  PROVE  GetApplicationFrameId(id) \in AppIds \cup {0}
  <1>1. id # 0 => Slot(id) \in 0 .. ListSize - 1
    BY SlotReuse
  <1>. QED BY <1>1 DEF GetApplicationFrameId, LowLatencyDeviceFrameIdInWindow, GeneratorTypeOK

(* A nonzero translation is the frame in the id's own slot, and zero says  *)
(* that the id is 0, outside the window, or belongs to frame 0.            *)
LEMMA TranslationCases ==
  ASSUME GeneratorTypeOK, GeneratorInv, NEW id \in Nat, id < nextId
  PROVE  /\ GetApplicationFrameId(id) \in AppIds \cup {0}
         /\ GetApplicationFrameId(id) # 0 =>
              id \in LiveIds /\ GetApplicationFrameId(id) = appIdList[Slot(id)]
         /\ GetApplicationFrameId(id) = 0 =>
              \/ id = 0
              \/ nextId - id >= ListSize
              \/ id \in LiveIds /\ appIdList[Slot(id)] = 0
  <1>1. id # 0 /\ nextId - id < ListSize => id \in LiveIds
    BY DEF GeneratorTypeOK, LiveIds
  <1>2. id # 0 => Slot(id) \in 0 .. ListSize - 1
    BY SlotReuse
  <1>. QED BY <1>1, <1>2 DEF GetApplicationFrameId, LowLatencyDeviceFrameIdInWindow, GeneratorTypeOK

-----------------------------------------------------------------------------
(* D3dLowLatencyDevice *)

USE SetterAssumption, ReportsAssumption

(* The forms a call in progress can have.                                  *)
LEMMA CallForms ==
  ASSUME TypeOK, NEW t \in Threads
  PROVE  /\ call[t].op = "marker" =>
              call[t] \in [op : {"marker"}, id : Nat, app : AppIds]
         /\ call[t].op = "sleepMode" =>
              call[t] \in [op : {"sleepMode"}, mode : BOOLEAN, ok : BOOLEAN]
         /\ call[t].op = "reports" =>
              call[t] \in [op : {"reports"}, raw : [Slots -> Nat],
                           ids : [Slots -> Nat], at : 1 .. Reports + 1]
  BY DEF TypeOK, Calls, Idle

(* One iteration of the loop of GetLatencyInfo yields a batch again.       *)
LEMMA TranslatedIsBatch ==
  ASSUME TypeOK, NEW t \in Threads, call[t].op = "reports", call[t].at <= Reports
  PROVE  Translated(call[t]) \in Calls
  <1> DEFINE b == call[t]
             app == GetApplicationFrameId(b.ids[b.at])
  <1>1. /\ b \in [op : {"reports"}, raw : [Slots -> Nat],
                  ids : [Slots -> Nat], at : 1 .. Reports + 1]
        /\ b.at \in Slots
    BY CallForms DEF Slots
  <1>2. app \in Nat
    <2>1. b.ids[b.at] \in Nat
      BY <1>1
    <2>2. app \in AppIds \cup {0}
      BY <2>1, TranslationTyped DEF TypeOK
    <2>3. AppIds \cup {0} \subseteq Nat
      OBVIOUS
    <2> HIDE DEF app
    <2>. QED BY <2>2, <2>3, Zenon
  <1>3. CASE app = 0
    BY <1>1, <1>3 DEF Translated, Batch, Calls, Slots
  <1>4. CASE app # 0
    <2>1. [b.ids EXCEPT ![b.at] = app] \in [Slots -> Nat]
      BY <1>1, <1>2
    <2>2. b.at + 1 \in 1 .. Reports + 1
      BY <1>1 DEF Slots
    <2>3. Translated(b) = Batch(b.raw, [b.ids EXCEPT ![b.at] = app], b.at + 1)
      BY <1>4 DEF Translated
    <2>. QED BY <1>1, <2>1, <2>2, <2>3 DEF Batch, Calls
  <1>. QED BY <1>3, <1>4

(* The id handed to a marker call is a natural number.                     *)
LEMMA DeviceIdIsNat ==
  ASSUME GeneratorTypeOK, NEW app \in AppIds
  PROVE  DeviceIdFor(app) \in Nat
  BY DEF GeneratorTypeOK, DeviceIdFor

-----------------------------------------------------------------------------
(* Type correctness and consistency of the generator *)

GeneratorOK == TypeOK /\ GeneratorInv

(* The initial state is well typed and consistent.                         *)
LEMMA GeneratorOKInit == Init => GeneratorOK
  BY GeneratorStarts DEF Init, GeneratorOK, TypeOK, Calls, Idle

(* Every step keeps the state well typed and the generator consistent.     *)
LEMMA GeneratorOKNext == GeneratorOK /\ [Next]_vars => GeneratorOK'
  <1> SUFFICES ASSUME GeneratorOK, [Next]_vars
               PROVE  GeneratorOK'
    OBVIOUS
  <1> USE DEF GeneratorOK
  <1>1. ASSUME NEW t \in Threads, NEW app \in AppIds, TranslateMarker(t, app)
        PROVE  GeneratorOK'
    <2>1. GeneratorTypeOK' /\ GeneratorInv'
      BY <1>1, GeneratorStep DEF TranslateMarker, TypeOK
    <2>2. [op |-> "marker", id |-> DeviceIdFor(app), app |-> app] \in Calls
      BY DeviceIdIsNat DEF Calls, TypeOK
    <2>3. call' \in [Threads -> Calls]
      BY <1>1, <2>2 DEF TranslateMarker, TypeOK
    <2>. QED BY <1>1, <2>1, <2>3 DEF TranslateMarker, TypeOK
  <1>2. ASSUME UNCHANGED <<nextId, deviceIdOf, appIdList>>
        PROVE  GeneratorTypeOK' /\ GeneratorInv'
    BY <1>2 DEF TypeOK, GeneratorTypeOK, GeneratorInv, MapMatchesList, ListMatchesMap,
                LiveIds, Remembered, Slot
  <1>3. ASSUME NEW t \in Threads, SendMarker(t)
        PROVE  GeneratorOK'
    <2>1. <<call[t].id, call[t].app>> \in Nat \X AppIds
      BY <1>3, CallForms DEF SendMarker
    <2>2. call' \in [Threads -> Calls]
      BY <1>3 DEF SendMarker, TypeOK, Calls
    <2>. QED BY <1>2, <1>3, <2>1, <2>2 DEF SendMarker, TypeOK
  <1>4. ASSUME NEW t \in Threads, StoreSleepMode(t)
        PROVE  GeneratorOK'
    <2>1. call' \in [Threads -> Calls]
      BY <1>4 DEF StoreSleepMode, TypeOK, Calls
    <2>2. lowLatencyMode' \in BOOLEAN
      BY <1>4, CallForms DEF StoreSleepMode, TypeOK
    <2>. QED BY <1>2, <1>4, <2>1, <2>2 DEF StoreSleepMode, TypeOK
  <1>5. ASSUME NEW t \in Threads, FetchReports(t)
        PROVE  GeneratorOK'
    <2>1. PICK raw \in [Slots -> DriverIds \cup {0}] :
            call' = [call EXCEPT ![t] = Batch(raw, raw, 1)]
      BY <1>5 DEF FetchReports
    <2>2. raw \in [Slots -> Nat]
      BY DEF TypeOK, DriverIds
    <2>3. call' \in [Threads -> Calls]
      BY <2>1, <2>2 DEF TypeOK, Batch, Calls
    <2>. QED BY <1>2, <1>5, <2>3 DEF FetchReports, TypeOK
  <1>6. ASSUME NEW t \in Threads, TranslateReport(t)
        PROVE  GeneratorOK'
    <2>1. call' \in [Threads -> Calls]
      BY <1>6, TranslatedIsBatch DEF TranslateReport, TypeOK
    <2>. QED BY <1>2, <1>6, <2>1 DEF TranslateReport, TypeOK
  <1>7. ASSUME NEW t \in Threads, ReturnReports(t)
        PROVE  GeneratorOK'
    <2>1. call' \in [Threads -> Calls]
      BY <1>7 DEF ReturnReports, TypeOK, Calls
    <2>. QED BY <1>2, <1>7, <2>1 DEF ReturnReports, TypeOK
  <1>8. ASSUME NEW mode \in BOOLEAN, NEW ok \in BOOLEAN, DriverSetSleepMode(mode, ok)
        PROVE  GeneratorOK'
    <2>1. call' \in [Threads -> Calls]
      BY <1>8 DEF DriverSetSleepMode, TypeOK, Calls
    <2>. QED BY <1>2, <1>8, <2>1 DEF DriverSetSleepMode, TypeOK
  <1>9. CASE UNCHANGED vars
    BY <1>2, <1>9 DEF vars, TypeOK
  <1>. QED BY <1>1, <1>3, <1>4, <1>5, <1>6, <1>7, <1>8, <1>9 DEF Next

(* The state is always well typed.                                         *)
THEOREM Typing == Spec => []TypeOK
  <1>1. GeneratorOK => TypeOK
    BY DEF GeneratorOK
  <1>. QED BY <1>1, GeneratorOKInit, GeneratorOKNext, PTL DEF Spec

(* Map and ring of the frame id generator always agree, whatever threads   *)
(* do between its calls.                                                   *)
THEOREM GeneratorConsistent == Spec => []GeneratorInv
  <1>1. GeneratorOK => GeneratorInv
    BY DEF GeneratorOK
  <1>. QED BY <1>1, GeneratorOKInit, GeneratorOKNext, PTL DEF Spec

-----------------------------------------------------------------------------
(* One id, one frame *)

(* Pairings alone are not inductive: a frame whose marker the driver       *)
(* refused leaves no pairing, yet its next marker brings its id back.  The *)
(* entries of the map are therefore counted in.                            *)
Numbered ==
  Pairings \cup {<<deviceIdOf[app], app>> : app \in {a \in AppIds : Remembered(a)}}

HistoryInv ==
  /\ \A p \in Numbered :
       /\ p \in (1 .. nextId - 1) \X AppIds
       /\ p[1] \in LiveIds => appIdList[Slot(p[1])] = p[2]
  /\ \A p, q \in Numbered : p[1] = q[1] => p[2] = q[2]
  /\ \A p, q \in Numbered : p[2] = q[2] /\ p[1] < q[1] => q[1] - p[1] > ListSize

(* A step that adds no pairing and leaves the generator alone.             *)
LEMMA HistoryKept ==
  ASSUME HistoryInv, UNCHANGED <<nextId, deviceIdOf, appIdList>>, Pairings' \subseteq Pairings
  PROVE  HistoryInv'
  <1>1. Numbered' \subseteq Numbered
    BY DEF Numbered, Remembered
  <1>2. LiveIds' = LiveIds
    BY DEF LiveIds
  <1>. QED BY <1>1, <1>2 DEF HistoryInv, Slot

(* Numbering a frame: the new id is larger than every id in use, and the   *)
(* frame's earlier ids are no longer live.                                 *)
LEMMA HistoryGrows ==
  ASSUME GeneratorTypeOK, GeneratorInv, HistoryInv,
         NEW app \in AppIds, ~Remembered(app), GetLowLatencyDeviceFrameId(app),
         Pairings' \subseteq Pairings \cup {<<nextId, app>>}
  PROVE  HistoryInv'
  <1> USE DEF GeneratorTypeOK
  <1> DEFINE new == <<nextId, app>>
  <1>1. /\ nextId' = nextId + 1
        /\ deviceIdOf'[app] = nextId
        /\ \A a \in AppIds \ {app} : deviceIdOf'[a] # 0 => deviceIdOf'[a] = deviceIdOf[a]
        /\ appIdList'[Slot(nextId)] = app
        /\ \A i \in 0 .. ListSize - 1 : i # Slot(nextId) => appIdList'[i] = appIdList[i]
    BY NumberingEffect
  <1>2. Numbered' \subseteq Numbered \cup {new}
    <2> SUFFICES ASSUME NEW a \in AppIds, Remembered(a)'
                 PROVE  <<deviceIdOf'[a], a>> \in Numbered \cup {new}
      BY DEF Numbered
    <2>. QED BY <1>1 DEF Numbered, Remembered
  <1>3. ASSUME NEW p \in Numbered
        PROVE  /\ p \in (1 .. nextId - 1) \X AppIds
               /\ p[1] \in LiveIds => appIdList[Slot(p[1])] = p[2]
               /\ p[2] = app => nextId - p[1] > ListSize
    <2>1. /\ p \in (1 .. nextId - 1) \X AppIds
          /\ p[1] \in LiveIds => appIdList[Slot(p[1])] = p[2]
      BY DEF HistoryInv
    <2>2. p[1] \in LiveIds => deviceIdOf[p[2]] = p[1] /\ p[1] # 0
      BY <2>1 DEF GeneratorInv, ListMatchesMap, LiveIds
    <2>3. p[2] = app => p[1] \notin LiveIds
      BY <2>2 DEF Remembered
    <2>4. p[1] \notin LiveIds => nextId - p[1] > ListSize
      BY <2>1 DEF LiveIds
    <2>. QED BY <2>1, <2>3, <2>4
  <1>4. new \in (1 .. nextId' - 1) \X AppIds
    BY <1>1
  <1>5. ASSUME NEW p \in Numbered'
        PROVE  /\ p \in (1 .. nextId' - 1) \X AppIds
               /\ p[1] \in LiveIds' => appIdList'[Slot(p[1])] = p[2]
    <2>1. CASE p = new
      BY <1>1, <1>4, <2>1
    <2>2. CASE p \in Numbered
      <3>1. p \in (1 .. nextId - 1) \X AppIds
        BY <1>3, <2>2
      <3>2. ASSUME p[1] \in LiveIds'
            PROVE  appIdList'[Slot(p[1])] = appIdList[Slot(p[1])] /\ p[1] \in LiveIds
        <4>1. p[1] \in Nat \ {0} /\ p[1] < nextId /\ nextId - p[1] < ListSize
          BY <1>1, <3>1, <3>2 DEF LiveIds
        <4>2. Slot(p[1]) # Slot(nextId) /\ Slot(p[1]) \in 0 .. ListSize - 1
          BY <4>1, SlotsDistinct, SlotReuse
        <4>. QED BY <1>1, <4>1, <4>2 DEF LiveIds
      <3>. QED BY <1>1, <1>3, <2>2, <3>1, <3>2
    <2>. QED BY <1>2, <2>1, <2>2
  <1>6. ASSUME NEW p \in Numbered', NEW q \in Numbered'
        PROVE  /\ p[1] = q[1] => p[2] = q[2]
               /\ p[2] = q[2] /\ p[1] < q[1] => q[1] - p[1] > ListSize
    <2>1. CASE p \in Numbered /\ q \in Numbered
      BY <2>1 DEF HistoryInv
    <2>2. CASE p = new /\ q = new
      BY <2>2
    <2>3. CASE p = new /\ q \in Numbered
      <3>1. q[1] < p[1]
        BY <1>3, <2>3
      <3>2. q[1] \in Int /\ p[1] \in Int
        BY <1>3, <2>3
      <3>. QED BY <3>1, <3>2
    <2>4. CASE p \in Numbered /\ q = new
      <3>1. p[1] # q[1]
        BY <1>3, <2>4
      <3>. QED BY <1>3, <2>4, <3>1
    <2>. QED BY <1>2, <2>1, <2>2, <2>3, <2>4
  <1>7. \A p \in Numbered' : p[1] \in LiveIds' => (appIdList[Slot(p[1])])' = p[2]
    BY <1>5 DEF Slot
  <1>. QED BY <1>5, <1>6 DEF HistoryInv, Slot

(* A frame that is still numbered brings back an id that is counted in     *)
(* already.                                                                *)
LEMMA HistoryReused ==
  ASSUME HistoryInv, NEW app \in AppIds, Remembered(app), GetLowLatencyDeviceFrameId(app),
         Pairings' \subseteq Pairings \cup {<<deviceIdOf[app], app>>}
  PROVE  HistoryInv'
  <1>1. UNCHANGED <<nextId, deviceIdOf, appIdList>>
    BY DEF GetLowLatencyDeviceFrameId, generatorVars
  <1>2. Numbered' \subseteq Numbered
    BY <1>1 DEF Numbered, Remembered
  <1>3. LiveIds' = LiveIds
    BY <1>1 DEF LiveIds
  <1>. QED BY <1>1, <1>2, <1>3 DEF HistoryInv, Slot

(* What a marker call in progress adds to the pairings.                    *)
LEMMA PairingsOfStep ==
  ASSUME TypeOK, NEW t \in Threads, NEW c, call' = [call EXCEPT ![t] = c],
         driverFrames' \subseteq Pairings, c.op # "marker"
  PROVE  Pairings' \subseteq Pairings
  <1> SUFFICES ASSUME NEW u \in Threads, call'[u].op = "marker"
               PROVE  <<call'[u].id, call'[u].app>> \in Pairings
    BY DEF Pairings
  <1>1. u # t
    BY DEF TypeOK
  <1>. QED BY <1>1 DEF Pairings, TypeOK

PairingsOK == GeneratorOK /\ HistoryInv

(* No marker has been numbered in the initial state.                       *)
LEMMA PairingsOKInit == Init => PairingsOK
  <1> SUFFICES ASSUME Init
               PROVE  HistoryInv
    BY GeneratorOKInit DEF PairingsOK
  <1>1. Numbered = {}
    BY DEF Init, GeneratorInit, Numbered, Pairings, Remembered, Idle
  <1>. QED BY <1>1 DEF HistoryInv

(* Every step of every thread keeps the numbering history intact.          *)
LEMMA PairingsOKNext == PairingsOK /\ [Next]_vars => PairingsOK'
  <1> SUFFICES ASSUME PairingsOK, [Next]_vars
               PROVE  HistoryInv'
    BY GeneratorOKNext DEF PairingsOK
  <1> USE DEF PairingsOK, GeneratorOK
  <1>1. ASSUME NEW t \in Threads, NEW app \in AppIds, TranslateMarker(t, app)
        PROVE  HistoryInv'
    <2> DEFINE c == [op |-> "marker", id |-> DeviceIdFor(app), app |-> app]
    <2>1. Pairings' \subseteq Pairings \cup {<<DeviceIdFor(app), app>>}
      <3> SUFFICES ASSUME NEW u \in Threads, call'[u].op = "marker"
                   PROVE  <<call'[u].id, call'[u].app>> \in Pairings \cup {<<DeviceIdFor(app), app>>}
        BY <1>1 DEF TranslateMarker, Pairings
      <3>1. CASE u = t
        BY <1>1, <3>1 DEF TranslateMarker, TypeOK
      <3>2. CASE u # t
        BY <1>1, <3>2 DEF TranslateMarker, TypeOK, Pairings
      <3>. QED BY <3>1, <3>2
    <2>2. CASE Remembered(app)
      BY <1>1, <2>1, <2>2, HistoryReused DEF TranslateMarker, DeviceIdFor
    <2>3. CASE ~Remembered(app)
      BY <1>1, <2>1, <2>3, HistoryGrows DEF TranslateMarker, DeviceIdFor, TypeOK
    <2>. QED BY <2>2, <2>3
  <1>2. ASSUME NEW t \in Threads, SendMarker(t)
        PROVE  HistoryInv'
    <2>1. driverFrames' \subseteq Pairings
      BY <1>2 DEF SendMarker, Pairings
    <2>2. Pairings' \subseteq Pairings
      <3>1. call' = [call EXCEPT ![t] = Idle] /\ Idle.op # "marker"
        BY <1>2 DEF SendMarker, Idle
      <3>. QED BY <2>1, <3>1, PairingsOfStep
    <2>. QED BY <1>2, <2>2, HistoryKept DEF SendMarker
  <1>3. ASSUME NEW t \in Threads, StoreSleepMode(t) \/ ReturnReports(t)
        PROVE  HistoryInv'
    <2>1. Pairings' \subseteq Pairings
      BY <1>3, PairingsOfStep DEF StoreSleepMode, ReturnReports, Idle, Pairings
    <2>. QED BY <1>3, <2>1, HistoryKept DEF StoreSleepMode, ReturnReports
  <1>4. ASSUME NEW t \in Threads, FetchReports(t)
        PROVE  HistoryInv'
    <2>1. PICK raw \in [Slots -> DriverIds \cup {0}] :
            call' = [call EXCEPT ![t] = Batch(raw, raw, 1)]
      BY <1>4 DEF FetchReports
    <2>2. Batch(raw, raw, 1).op # "marker"
      BY DEF Batch
    <2>3. Pairings' \subseteq Pairings
      BY <1>4, <2>1, <2>2, PairingsOfStep DEF FetchReports, Pairings
    <2>. QED BY <1>4, <2>3, HistoryKept DEF FetchReports
  <1>5. ASSUME NEW t \in Threads, TranslateReport(t)
        PROVE  HistoryInv'
    <2>1. Translated(call[t]).op # "marker"
      BY DEF Translated, Batch
    <2>2. call' = [call EXCEPT ![t] = Translated(call[t])]
      BY <1>5 DEF TranslateReport
    <2>3. Pairings' \subseteq Pairings
      BY <1>5, <2>1, <2>2, PairingsOfStep DEF TranslateReport, Pairings
    <2>. QED BY <1>5, <2>3, HistoryKept DEF TranslateReport
  <1>6. ASSUME NEW mode \in BOOLEAN, NEW ok \in BOOLEAN, DriverSetSleepMode(mode, ok)
        PROVE  HistoryInv'
    <2> DEFINE c == [op |-> "sleepMode", mode |-> mode, ok |-> ok]
    <2>1. c.op # "marker"
      OBVIOUS
    <2>2. call' = [call EXCEPT ![Setter] = c] /\ driverFrames' \subseteq Pairings
      BY <1>6 DEF DriverSetSleepMode, Pairings
    <2>3. Pairings' \subseteq Pairings
      <3> HIDE DEF c
      <3>. QED BY <2>1, <2>2, PairingsOfStep, SetterAssumption
    <2>. QED BY <1>6, <2>3, HistoryKept DEF DriverSetSleepMode
  <1>7. CASE UNCHANGED vars
    <2>1. Pairings' \subseteq Pairings
      BY <1>7 DEF vars, Pairings
    <2>. QED BY <1>7, <2>1, HistoryKept DEF vars
  <1>. QED BY <1>1, <1>2, <1>3, <1>4, <1>5, <1>6, <1>7 DEF Next

(* The driver never sees one id for two frames, for any number of threads  *)
(* between translating a marker and sending it.                            *)
THEOREM OneFrame == Spec => []OneFramePerId
  <1>1. PairingsOK => OneFramePerId
    BY DEF PairingsOK, HistoryInv, Numbered, OneFramePerId
  <1>. QED BY <1>1, PairingsOKInit, PairingsOKNext, PTL DEF Spec

(* A frame gets a second id only when ListSize other ids were handed out   *)
(* since its first.                                                        *)
THEOREM Renumbering == Spec => []RenumberedOnlyWhenForgotten
  <1>1. PairingsOK => RenumberedOnlyWhenForgotten
    BY DEF PairingsOK, HistoryInv, Numbered, RenumberedOnlyWhenForgotten
  <1>. QED BY <1>1, PairingsOKInit, PairingsOKNext, PTL DEF Spec

-----------------------------------------------------------------------------
(* Latency reports *)

\* What a cleared batch is cleared for (see ClearedOnlyForCause), when `next` is
\* the next id and `frames` is what the driver was told.
Cause(batch, next, frames) ==
  \E i \in Slots :
    \/ batch.raw[i] = 0
    \/ next - batch.raw[i] >= ListSize
    \/ <<batch.raw[i], 0>> \in frames

\* A batch halfway through the loop: translated up to `at`, untouched beyond.
HalfTranslated(batch, frames) ==
  \A i \in Slots :
    IF i < batch.at
      THEN batch.ids[i] # 0 /\ <<batch.raw[i], batch.ids[i]>> \in frames
      ELSE batch.ids[i] = batch.raw[i]

BatchOK(batch, next, frames) ==
  /\ batch.raw \in [Slots -> {p[1] : p \in frames} \cup {0}]
  /\ \/ HalfTranslated(batch, frames)
     \/ batch.at = Reports + 1 /\ Cleared(batch) /\ Cause(batch, next, frames)

BatchInv ==
  \A t \in Threads : call[t].op = "reports" => BatchOK(call[t], nextId, driverFrames)

Batches == [op : {"reports"}, raw : [Slots -> Nat], ids : [Slots -> Nat], at : 1 .. Reports + 1]

(* The causes for clearing a batch and its translated part outlive every   *)
(* step: ids only grow and the driver forgets nothing it was told.         *)
LEMMA BatchOKStable ==
  ASSUME NEW old \in Nat, NEW next \in Nat, next >= old,
         NEW before, NEW after, before \subseteq after,
         NEW batch \in Batches, BatchOK(batch, old, before)
  PROVE  BatchOK(batch, next, after)
  <1>1. batch.raw \in [Slots -> {p[1] : p \in after} \cup {0}]
    BY DEF BatchOK
  <1>2. HalfTranslated(batch, before) => HalfTranslated(batch, after)
    BY DEF HalfTranslated
  <1>3. Cause(batch, old, before) => Cause(batch, next, after)
    <2> SUFFICES ASSUME NEW i \in Slots,
                        \/ batch.raw[i] = 0
                        \/ old - batch.raw[i] >= ListSize
                        \/ <<batch.raw[i], 0>> \in before
                 PROVE  Cause(batch, next, after)
      BY DEF Cause
    <2>1. batch.raw[i] \in Nat
      BY DEF Batches
    <2>2. old - batch.raw[i] >= ListSize => next - batch.raw[i] >= ListSize
      BY <2>1
    <2>. QED BY <2>2 DEF Cause
  <1>. QED BY <1>1, <1>2, <1>3 DEF BatchOK

(* One iteration of the loop.  The id comes from a pairing of the driver,  *)
(* so a slot of the ring that is still the id's own holds its frame.       *)
LEMMA BatchTranslated ==
  ASSUME PairingsOK, NEW t \in Threads, call[t].op = "reports", call[t].at <= Reports,
         BatchOK(call[t], nextId, driverFrames)
  PROVE  BatchOK(Translated(call[t]), nextId, driverFrames)
  <1> USE DEF PairingsOK, GeneratorOK
  <1> DEFINE b == call[t]
             id == b.raw[b.at]
             app == GetApplicationFrameId(id)
  <1>1. /\ b.raw \in [Slots -> Nat]
        /\ b.ids \in [Slots -> Nat]
        /\ b.at \in Slots
        /\ b.raw \in [Slots -> DriverIds \cup {0}]
    BY CallForms DEF Slots, BatchOK, DriverIds
  <1>2. b.at # Reports + 1
    BY ReportsAssumption
  <1>3. HalfTranslated(b, driverFrames)
    BY <1>2 DEF BatchOK
  <1>4. b.ids[b.at] = id
    <2>1. b.at \in Int /\ ~(b.at < b.at)
      BY <1>1 DEF Slots
    <2>. QED BY <1>1, <1>3, <2>1 DEF HalfTranslated
  <1>5. id # 0 => \E p \in driverFrames : /\ p = <<id, p[2]>>
                                          /\ id \in 1 .. nextId - 1
                                          /\ id \in LiveIds => p[2] = appIdList[Slot(id)]
    <2> SUFFICES ASSUME id # 0
                 PROVE  \E p \in driverFrames : /\ p = <<id, p[2]>>
                                                /\ id \in 1 .. nextId - 1
                                                /\ id \in LiveIds => p[2] = appIdList[Slot(id)]
      OBVIOUS
    <2>1. PICK p \in driverFrames : p[1] = id
      BY <1>1 DEF DriverIds
    <2>2. p \in Numbered
      BY DEF Numbered, Pairings
    <2>3. p \in (1 .. nextId - 1) \X AppIds
      BY <2>2 DEF HistoryInv
    <2>4. p[1] \in LiveIds => appIdList[Slot(p[1])] = p[2]
      BY <2>2 DEF HistoryInv
    <2>. QED BY <2>1, <2>3, <2>4
  <1>6. id \in Nat /\ id < nextId
    BY <1>1, <1>5 DEF TypeOK, GeneratorTypeOK
  <1>7. /\ app # 0 => id \in LiveIds /\ app = appIdList[Slot(id)]
        /\ app = 0 => \/ id = 0
                      \/ nextId - id >= ListSize
                      \/ id \in LiveIds /\ appIdList[Slot(id)] = 0
    BY <1>6, TranslationCases DEF TypeOK
  <1>8. app # 0 => <<id, app>> \in driverFrames
    <2>1. 0 \notin LiveIds
      BY DEF LiveIds
    <2>. QED BY <1>5, <1>7, <2>1
  <1>9. app = 0 => id = 0 \/ nextId - id >= ListSize \/ <<id, 0>> \in driverFrames
    BY <1>5, <1>7
  <1>10. app \in AppIds \cup {0}
    BY <1>6, TranslationTyped DEF TypeOK
  <1>11. Translated(b) = IF app = 0
                           THEN Batch(b.raw, [i \in Slots |-> 0], Reports + 1)
                           ELSE Batch(b.raw, [b.ids EXCEPT ![b.at] = app], b.at + 1)
    BY <1>4 DEF Translated
  <1> HIDE DEF id, app
  <1>12. CASE app = 0
    <2> DEFINE c == Batch(b.raw, [i \in Slots |-> 0], Reports + 1)
    <2>1. c.raw = b.raw /\ c.at = Reports + 1 /\ Cleared(c)
      BY DEF Batch, Cleared
    <2>2. id = b.raw[b.at]
      BY DEF id
    <2> HIDE DEF c
    <2>3. Cause(c, nextId, driverFrames)
      BY <1>1, <1>9, <1>12, <2>1, <2>2 DEF Cause
    <2>4. Translated(b) = c
      BY <1>11, <1>12 DEF c
    <2>. QED BY <1>1, <2>1, <2>3, <2>4 DEF BatchOK
  <1>13. CASE app # 0
    <2> DEFINE ids == [b.ids EXCEPT ![b.at] = app]
               c == Batch(b.raw, ids, b.at + 1)
    <2>1. c.raw = b.raw /\ c.at = b.at + 1 /\ c.ids = ids
      BY DEF Batch
    <2>2. id = b.raw[b.at]
      BY DEF id
    <2>3. ids[b.at] = app /\ \A i \in Slots : i # b.at => ids[i] = b.ids[i]
      BY <1>1
    <2> HIDE DEF c, ids
    <2>4. ASSUME NEW i \in Slots
          PROVE  IF i < c.at
                   THEN c.ids[i] # 0 /\ <<c.raw[i], c.ids[i]>> \in driverFrames
                   ELSE c.ids[i] = c.raw[i]
      <3>1. CASE i = b.at
        <4>1. i < c.at
          BY <1>1, <2>1, <3>1 DEF Slots
        <4>2. c.ids[i] = app /\ c.raw[i] = id
          BY <2>1, <2>2, <2>3, <3>1
        <4>. QED BY <1>8, <1>13, <4>1, <4>2
      <3>2. CASE i # b.at
        <4>1. i < c.at <=> i < b.at
          <5>1. i \in Int /\ b.at \in Int
            BY <1>1 DEF Slots
          <5> HIDE DEF b
          <5>. QED BY <5>1, <2>1, <3>2
        <4>2. c.ids[i] = b.ids[i] /\ c.raw[i] = b.raw[i]
          BY <2>1, <2>3, <3>2
        <4>. QED BY <1>3, <4>1, <4>2 DEF HalfTranslated
      <3>. QED BY <3>1, <3>2
    <2>5. Translated(b) = c
      BY <1>11, <1>13 DEF c, ids
    <2>. QED BY <1>1, <2>1, <2>4, <2>5 DEF BatchOK, HalfTranslated
  <1>. QED BY <1>12, <1>13

ReportsOK == PairingsOK /\ BatchInv

(* No batch is in progress in the initial state.                           *)
LEMMA ReportsOKInit == Init => ReportsOK
  BY PairingsOKInit DEF ReportsOK, BatchInv, Init, Idle

(* A step of one thread that leaves it with call c keeps every batch of    *)
(* reports correct if c is.                                                *)
LEMMA BatchInvStep ==
  ASSUME TypeOK, BatchInv, nextId' \in Nat, nextId' >= nextId,
         driverFrames \subseteq driverFrames',
         NEW t \in Threads, NEW c, call' = [call EXCEPT ![t] = c],
         c.op = "reports" => BatchOK(c, nextId', driverFrames')
  PROVE  BatchInv'
  <1> SUFFICES ASSUME NEW u \in Threads, call'[u].op = "reports"
               PROVE  BatchOK(call'[u], nextId', driverFrames')
    BY DEF BatchInv, BatchOK, HalfTranslated, Cause, Cleared, Slots
  <1>1. CASE u = t
    <2>1. call'[u] = c
      BY <1>1 DEF TypeOK
    <2>. QED BY <2>1
  <1>2. CASE u # t
    <2>1. call'[u] = call[u]
      BY <1>2 DEF TypeOK
    <2>2. BatchOK(call[u], nextId, driverFrames)
      BY <2>1 DEF BatchInv
    <2>3. call[u] \in Batches
      BY <2>1, CallForms DEF Batches
    <2>4. nextId \in Nat
      BY DEF TypeOK, GeneratorTypeOK
    <2>. QED BY <2>1, <2>2, <2>3, <2>4, BatchOKStable
  <1>. QED BY <1>1, <1>2

(* Every step keeps every batch of reports correct.                        *)
LEMMA ReportsOKNext == ReportsOK /\ [Next]_vars => ReportsOK'
  <1> SUFFICES ASSUME ReportsOK, [Next]_vars
               PROVE  BatchInv'
    BY PairingsOKNext DEF ReportsOK
  <1>1. TypeOK /\ BatchInv /\ PairingsOK /\ nextId \in Nat \ {0}
    BY DEF ReportsOK, PairingsOK, GeneratorOK, TypeOK, GeneratorTypeOK
  <1>2. ASSUME NEW t \in Threads, NEW app \in AppIds, TranslateMarker(t, app)
        PROVE  BatchInv'
    <2> DEFINE c == [op |-> "marker", id |-> DeviceIdFor(app), app |-> app]
    <2>1. c.op # "reports"
      OBVIOUS
    <2>2. nextId' \in Nat /\ nextId' >= nextId /\ driverFrames \subseteq driverFrames'
      BY <1>1, <1>2 DEF TranslateMarker, GetLowLatencyDeviceFrameId, generatorVars
    <2>3. call' = [call EXCEPT ![t] = c]
      BY <1>2 DEF TranslateMarker
    <2> HIDE DEF c
    <2>. QED BY <1>1, <2>1, <2>2, <2>3, BatchInvStep
  <1>3. ASSUME NEW t \in Threads, SendMarker(t) \/ StoreSleepMode(t) \/ ReturnReports(t)
        PROVE  BatchInv'
    <2>1. nextId' \in Nat /\ nextId' >= nextId /\ driverFrames \subseteq driverFrames'
      BY <1>1, <1>3 DEF SendMarker, StoreSleepMode, ReturnReports
    <2>2. call' = [call EXCEPT ![t] = Idle] /\ Idle.op # "reports"
      BY <1>3 DEF SendMarker, StoreSleepMode, ReturnReports, Idle
    <2>. QED BY <1>1, <2>1, <2>2, BatchInvStep
  <1>4. ASSUME NEW t \in Threads, FetchReports(t)
        PROVE  BatchInv'
    <2>1. PICK raw \in [Slots -> DriverIds \cup {0}] :
            call' = [call EXCEPT ![t] = Batch(raw, raw, 1)]
      BY <1>4 DEF FetchReports
    <2>2. nextId' = nextId /\ driverFrames' = driverFrames
      BY <1>4 DEF FetchReports
    <2>3. BatchOK(Batch(raw, raw, 1), nextId', driverFrames')
      BY <2>2 DEF BatchOK, HalfTranslated, Batch, Slots, DriverIds
    <2>4. nextId' \in Nat /\ nextId' >= nextId
      BY <1>1, <2>2
    <2>. QED BY <1>1, <2>1, <2>2, <2>3, <2>4, BatchInvStep
  <1>5. ASSUME NEW t \in Threads, TranslateReport(t)
        PROVE  BatchInv'
    <2>1. nextId' = nextId /\ driverFrames' = driverFrames
      BY <1>5 DEF TranslateReport
    <2>2. call' = [call EXCEPT ![t] = Translated(call[t])]
      BY <1>5 DEF TranslateReport
    <2>3. BatchOK(Translated(call[t]), nextId, driverFrames)
      BY <1>1, <1>5, BatchTranslated DEF TranslateReport, BatchInv
    <2>4. nextId' \in Nat /\ nextId' >= nextId
      BY <1>1, <2>1
    <2>5. BatchOK(Translated(call[t]), nextId', driverFrames')
      BY <2>1, <2>3
    <2>. QED BY <1>1, <2>1, <2>2, <2>4, <2>5, BatchInvStep
  <1>6. ASSUME NEW mode \in BOOLEAN, NEW ok \in BOOLEAN, DriverSetSleepMode(mode, ok)
        PROVE  BatchInv'
    <2> DEFINE c == [op |-> "sleepMode", mode |-> mode, ok |-> ok]
    <2>1. c.op # "reports"
      OBVIOUS
    <2>2. call' = [call EXCEPT ![Setter] = c] /\ nextId' = nextId /\ driverFrames' = driverFrames
      BY <1>6 DEF DriverSetSleepMode
    <2>3. nextId' \in Nat /\ nextId' >= nextId
      BY <1>1, <2>2
    <2> HIDE DEF c
    <2>. QED BY <1>1, <2>1, <2>2, <2>3, BatchInvStep, SetterAssumption
  <1>7. CASE UNCHANGED vars
    BY <1>1, <1>7 DEF vars, BatchInv
  <1>. QED BY <1>2, <1>3, <1>4, <1>5, <1>6, <1>7 DEF Next

(* A full batch carries, under every id, the frame whose markers the       *)
(* driver saw under that id, however other threads interleave.             *)
THEOREM TruthfulReports == Spec => []ReportsAreTruthful
  <1>1. ReportsOK => ReportsAreTruthful
    <2> SUFFICES ASSUME ReportsOK, NEW t \in Threads, Finished(call[t]), ~Cleared(call[t]),
                        NEW i \in Slots
                 PROVE  <<call[t].raw[i], call[t].ids[i]>> \in driverFrames
      BY DEF ReportsAreTruthful
    <2>1. HalfTranslated(call[t], driverFrames)
      BY DEF ReportsOK, BatchInv, BatchOK, Finished
    <2>2. call[t].at \in Int /\ call[t].at > Reports /\ i \in Int /\ i <= Reports
      BY CallForms DEF Finished, Slots, ReportsOK, PairingsOK, GeneratorOK
    <2>3. i < call[t].at
      BY <2>2
    <2>. QED BY <2>1, <2>3 DEF HalfTranslated
  <1>. QED BY <1>1, ReportsOKInit, ReportsOKNext, PTL DEF Spec

(* A batch is thrown away only for an empty slot, an id pushed out of the  *)
(* window, or application frame 0.                                         *)
THEOREM ClearedForCause == Spec => []ClearedOnlyForCause
  <1>1. ReportsOK => ClearedOnlyForCause
    <2> SUFFICES ASSUME ReportsOK, NEW t \in Threads, Finished(call[t]), Cleared(call[t])
                 PROVE  Cause(call[t], nextId, driverFrames)
      BY DEF ClearedOnlyForCause, Cause
    <2>1. call[t].at \in Int /\ call[t].at > Reports
      BY CallForms DEF Finished, ReportsOK, PairingsOK, GeneratorOK
    <2>2. 1 \in Slots /\ 1 < call[t].at
      BY <2>1, ReportsAssumption DEF Slots
    <2>3. ~HalfTranslated(call[t], driverFrames)
      BY <2>2 DEF HalfTranslated, Cleared
    <2>. QED BY <2>3 DEF ReportsOK, BatchInv, BatchOK, Finished
  <1>. QED BY <1>1, ReportsOKInit, ReportsOKNext, PTL DEF Spec

-----------------------------------------------------------------------------
(* Sleep mode *)

SleepInv ==
  /\ \A t \in Threads : call[t].op = "sleepMode" => t = Setter
  /\ LET c == call[Setter]
     IN  IF c.op = "sleepMode"
           THEN driverMode = IF c.ok THEN c.mode ELSE lowLatencyMode
           ELSE driverMode = lowLatencyMode

(* Outside a SetLatencySleepMode call the reported mode is the driver's.   *)
THEOREM SleepStatus == Spec => []SleepStatusAgreesWithDriver
  <1>1. Init => SleepInv
    <2> SUFFICES ASSUME Init
                 PROVE  SleepInv
      OBVIOUS
    <2>1. \A t \in Threads : call[t].op # "sleepMode"
      BY DEF Init, Idle
    <2>. QED BY <2>1, SetterAssumption DEF Init, SleepInv
  <1>2. TypeOK /\ SleepInv /\ [Next]_vars => SleepInv'
    <2> SUFFICES ASSUME TypeOK, SleepInv, [Next]_vars
                 PROVE  SleepInv'
      OBVIOUS
    <2> USE SetterAssumption
    <2>1. ASSUME NEW t \in Threads, NEW c, call' = [call EXCEPT ![t] = c],
                 c.op # "sleepMode", call[t].op # "sleepMode",
                 UNCHANGED <<lowLatencyMode, driverMode>>
          PROVE  SleepInv'
      BY <2>1 DEF TypeOK, SleepInv
    <2>2. ASSUME NEW t \in Threads, NEW app \in AppIds, TranslateMarker(t, app)
          PROVE  SleepInv'
      <3> DEFINE c == [op |-> "marker", id |-> DeviceIdFor(app), app |-> app]
      <3>1. c.op # "sleepMode"
        OBVIOUS
      <3>2. /\ call' = [call EXCEPT ![t] = c] /\ call[t].op # "sleepMode"
            /\ UNCHANGED <<lowLatencyMode, driverMode>>
        BY <2>2 DEF TranslateMarker, Idle
      <3> HIDE DEF c
      <3>. QED BY <2>1, <3>1, <3>2
    <2>3. ASSUME NEW t \in Threads, SendMarker(t) \/ ReturnReports(t)
          PROVE  SleepInv'
      <3>1. /\ call' = [call EXCEPT ![t] = Idle] /\ call[t].op # "sleepMode"
            /\ Idle.op # "sleepMode" /\ UNCHANGED <<lowLatencyMode, driverMode>>
        BY <2>3 DEF SendMarker, ReturnReports, Idle
      <3>. QED BY <2>1, <3>1
    <2>4. ASSUME NEW t \in Threads, StoreSleepMode(t)
          PROVE  SleepInv'
      BY <2>4 DEF StoreSleepMode, SleepInv, TypeOK, Idle
    <2>5. ASSUME NEW t \in Threads, FetchReports(t)
          PROVE  SleepInv'
      <3>1. PICK raw \in [Slots -> DriverIds \cup {0}] :
              call' = [call EXCEPT ![t] = Batch(raw, raw, 1)]
        BY <2>5 DEF FetchReports
      <3>2. /\ Batch(raw, raw, 1).op # "sleepMode" /\ call[t].op # "sleepMode"
            /\ UNCHANGED <<lowLatencyMode, driverMode>>
        BY <2>5 DEF FetchReports, Batch, Idle
      <3>. QED BY <2>1, <3>1, <3>2
    <2>6. ASSUME NEW t \in Threads, TranslateReport(t)
          PROVE  SleepInv'
      <3>1. call' = [call EXCEPT ![t] = Translated(call[t])]
        BY <2>6 DEF TranslateReport
      <3>2. /\ Translated(call[t]).op # "sleepMode" /\ call[t].op # "sleepMode"
            /\ UNCHANGED <<lowLatencyMode, driverMode>>
        BY <2>6 DEF TranslateReport, Translated, Batch
      <3>. QED BY <2>1, <3>1, <3>2
    <2>7. ASSUME NEW mode \in BOOLEAN, NEW ok \in BOOLEAN, DriverSetSleepMode(mode, ok)
          PROVE  SleepInv'
      BY <2>7 DEF DriverSetSleepMode, SleepInv, TypeOK, Idle
    <2>8. CASE UNCHANGED vars
      BY <2>8 DEF vars, SleepInv
    <2>. QED BY <2>2, <2>3, <2>4, <2>5, <2>6, <2>7, <2>8 DEF Next
  <1>3. SleepInv => SleepStatusAgreesWithDriver
    BY DEF SleepInv, SleepStatusAgreesWithDriver
  <1>. QED BY <1>1, <1>2, <1>3, Typing, PTL DEF Spec

-----------------------------------------------------------------------------
(* Refinement of FrameIdWindow *)

(* The live ids are those of the abstract window.                          *)
LEMMA WindowIsLive ==
  ASSUME GeneratorTypeOK
  PROVE  Window!Live(Issued) = LiveIds /\ NumberedFrames = [id \in LiveIds |-> appIdList[Slot(id)]]
  BY DEF Window!Live, Issued, LiveIds, NumberedFrames, GeneratorTypeOK

(* A step of thread t changes what t holds, and nothing else of Held.      *)
LEMMA HeldOfStep ==
  ASSUME TypeOK, NEW t \in Threads, NEW c, call' = [call EXCEPT ![t] = c]
  PROVE  Held' = [Held EXCEPT ![t] = IF c.op = "marker" THEN <<c.id, c.app>> ELSE <<0, 0>>]
  <1>1. ASSUME NEW u \in Threads
        PROVE  call'[u] = IF u = t THEN c ELSE call[u]
    BY DEF TypeOK
  <1> DEFINE x == IF c.op = "marker" THEN <<c.id, c.app>> ELSE <<0, 0>>
  <1>2. [Held EXCEPT ![t] = x] = [u \in Threads |-> IF u = t THEN x ELSE Held[u]]
    BY DEF Held
  <1>3. ASSUME NEW u \in Threads
        PROVE  (IF call'[u].op = "marker" THEN <<call'[u].id, call'[u].app>> ELSE <<0, 0>>)
                 = IF u = t THEN x ELSE Held[u]
    BY <1>1 DEF Held
  <1>4. Held' = [u \in Threads |-> IF u = t THEN x ELSE Held[u]]
    BY <1>3 DEF Held
  <1>. QED BY <1>2, <1>4

(* A thread that is not in a marker call and does not enter one leaves the *)
(* window as it is.                                                        *)
LEMMA WindowStutters ==
  ASSUME TypeOK, NEW t \in Threads, NEW c, call' = [call EXCEPT ![t] = c],
         c.op # "marker", call[t].op # "marker", UNCHANGED <<nextId, deviceIdOf, appIdList>>
  PROVE  UNCHANGED Window!vars
  <1>1. Held' = Held
    <2>1. Held' = [Held EXCEPT ![t] = <<0, 0>>]
      BY HeldOfStep
    <2>2. Held[t] = <<0, 0>>
      BY DEF Held
    <2>3. Held = [u \in Threads |-> Held[u]]
      BY DEF Held
    <2>. QED BY <2>1, <2>2, <2>3
  <1>2. Issued' = Issued /\ NumberedFrames' = NumberedFrames
    BY DEF Issued, NumberedFrames, Slot
  <1>. QED BY <1>1, <1>2 DEF Window!vars

(* A remembered frame keeps its number.                                    *)
LEMMA WindowReuses ==
  ASSUME GeneratorOK, NEW t \in Threads, NEW app \in AppIds,
         TranslateMarker(t, app), Remembered(app)
  PROVE  Window!Reuse(t, app)
  <1> USE DEF GeneratorOK
  <1> DEFINE d == deviceIdOf[app]
             c == [op |-> "marker", id |-> DeviceIdFor(app), app |-> app]
  <1>1. UNCHANGED <<nextId, deviceIdOf, appIdList>>
    BY DEF TranslateMarker, GetLowLatencyDeviceFrameId, generatorVars
  <1>2. Issued' = Issued /\ NumberedFrames' = NumberedFrames
    BY <1>1 DEF Issued, NumberedFrames, Slot
  <1>3. d \in LiveIds /\ appIdList[Slot(d)] = app
    BY DEF GeneratorInv, MapMatchesList
  <1>4. d \in Window!Live(Issued) /\ NumberedFrames[d] = app
    BY <1>3, WindowIsLive DEF TypeOK
  <1>5. c.op = "marker" /\ c.id = d /\ c.app = app
    BY DEF DeviceIdFor
  <1>6. call' = [call EXCEPT ![t] = c]
    BY DEF TranslateMarker
  <1>7. Held' = [Held EXCEPT ![t] = <<d, app>>]
    <2> HIDE DEF c, d
    <2>. QED BY <1>5, <1>6, HeldOfStep
  <1>. QED BY <1>2, <1>4, <1>7 DEF Window!Reuse

(* A frame that is not remembered takes the next number, and exactly the   *)
(* oldest one leaves the window.                                           *)
LEMMA WindowNumbers ==
  ASSUME GeneratorOK, NEW t \in Threads, NEW app \in AppIds,
         TranslateMarker(t, app), ~Remembered(app)
  PROVE  Window!Number(t, app)
  <1> USE DEF GeneratorOK
  <1> DEFINE c == [op |-> "marker", id |-> DeviceIdFor(app), app |-> app]
  <1>1. GetLowLatencyDeviceFrameId(app) /\ TypeOK /\ GeneratorTypeOK
    BY DEF TranslateMarker, TypeOK
  <1>2. /\ nextId' = nextId + 1
        /\ appIdList'[Slot(nextId)] = app
        /\ \A i \in 0 .. ListSize - 1 : i # Slot(nextId) => appIdList'[i] = appIdList[i]
    BY <1>1, NumberingEffect
  <1>3. nextId \in Nat \ {0} /\ Issued + 1 = nextId /\ Issued' = Issued + 1
    BY <1>1, <1>2 DEF Issued, GeneratorTypeOK
  <1>4. \A d \in Window!Live(Issued) : NumberedFrames[d] # app
    <2> SUFFICES ASSUME NEW d \in LiveIds
                 PROVE  appIdList[Slot(d)] # app
      BY <1>1, WindowIsLive
    <2>1. deviceIdOf[appIdList[Slot(d)]] = d /\ d # 0
      BY DEF GeneratorInv, ListMatchesMap, LiveIds
    <2>. QED BY <2>1 DEF Remembered
  <1>5. NumberedFrames' = [d \in Window!Live(Issued + 1) |->
                             IF d = Issued + 1 THEN app ELSE NumberedFrames[d]]
    <2>1. NumberedFrames' = [d \in Window!Live(Issued + 1) |-> appIdList'[Slot(d)]]
      BY <1>3 DEF NumberedFrames, Window!Live, Slot
    <2>2. ASSUME NEW d \in Window!Live(Issued + 1)
          PROVE  appIdList'[Slot(d)] = IF d = Issued + 1 THEN app ELSE NumberedFrames[d]
      <3>1. CASE d = Issued + 1
        BY <1>2, <1>3, <3>1
      <3>2. CASE d # Issued + 1
        <4>1. d \in Nat \ {0} /\ d < nextId /\ nextId - d < ListSize
          BY <1>3, <3>2 DEF Window!Live
        <4>2. Slot(d) # Slot(nextId) /\ Slot(d) \in 0 .. ListSize - 1
          BY <1>3, <4>1, SlotsDistinct, SlotReuse
        <4>3. d \in LiveIds
          BY <1>3, <4>1 DEF LiveIds
        <4>. QED BY <1>1, <1>2, <3>2, <4>2, <4>3, WindowIsLive
      <3>. QED BY <3>1, <3>2
    <2>. QED BY <2>1, <2>2
  <1>6. c.op = "marker" /\ c.id = Issued + 1 /\ c.app = app
    BY <1>3 DEF DeviceIdFor
  <1>7. call' = [call EXCEPT ![t] = c]
    BY DEF TranslateMarker
  <1>8. Held' = [Held EXCEPT ![t] = <<Issued + 1, app>>]
    <2> HIDE DEF c
    <2>. QED BY <1>1, <1>6, <1>7, HeldOfStep
  <1>. QED BY <1>3, <1>4, <1>5, <1>8 DEF Window!Number

(* The initial state is an initial state of the window.                    *)
LEMMA WindowInit == Init => Window!Init
  <1> SUFFICES ASSUME Init
               PROVE  Window!Init
    OBVIOUS
  <1>1. Issued = 0
    BY DEF Init, GeneratorInit, Issued
  <1>2. Window!Live(0) = {}
    BY DEF Window!Live
  <1>3. NumberedFrames = [d \in Window!Live(0) |-> 0]
    BY <1>1, <1>2 DEF NumberedFrames, Window!Live
  <1>4. Held = [t \in Threads |-> Window!NoPair]
    BY DEF Init, Idle, Held, Window!NoPair
  <1>. QED BY <1>1, <1>3, <1>4 DEF Window!Init

(* Every step is a step of the window or leaves it alone.                  *)
LEMMA WindowStep == GeneratorOK /\ [Next]_vars => [Window!Next]_(Window!vars)
  <1> SUFFICES ASSUME GeneratorOK, [Next]_vars
               PROVE  Window!Next \/ UNCHANGED Window!vars
    OBVIOUS
  <1> USE DEF GeneratorOK
  <1>1. ASSUME NEW t \in Threads, NEW app \in AppIds, TranslateMarker(t, app)
        PROVE  Window!Next
    BY <1>1, WindowReuses, WindowNumbers DEF Window!Next
  <1>2. ASSUME NEW t \in Threads, SendMarker(t)
        PROVE  Window!Next
    <2>1. call' = [call EXCEPT ![t] = Idle] /\ Idle.op # "marker"
      BY <1>2 DEF SendMarker, Idle
    <2>2. Held' = [Held EXCEPT ![t] = Window!NoPair]
      BY <2>1, HeldOfStep DEF Window!NoPair
    <2>3. Issued' = Issued /\ NumberedFrames' = NumberedFrames
      BY <1>2 DEF SendMarker, Issued, NumberedFrames, Slot
    <2>. QED BY <2>2, <2>3 DEF Window!Next, Window!Release
  <1>3. ASSUME NEW t \in Threads, StoreSleepMode(t) \/ ReturnReports(t)
        PROVE  UNCHANGED Window!vars
    <2>1. /\ call' = [call EXCEPT ![t] = Idle] /\ Idle.op # "marker"
          /\ call[t].op # "marker" /\ UNCHANGED <<nextId, deviceIdOf, appIdList>>
      BY <1>3 DEF StoreSleepMode, ReturnReports, Idle
    <2>. QED BY <2>1, WindowStutters
  <1>4. ASSUME NEW t \in Threads, FetchReports(t)
        PROVE  UNCHANGED Window!vars
    <2>1. PICK raw \in [Slots -> DriverIds \cup {0}] :
            call' = [call EXCEPT ![t] = Batch(raw, raw, 1)]
      BY <1>4 DEF FetchReports
    <2>2. /\ Batch(raw, raw, 1).op # "marker" /\ call[t].op # "marker"
          /\ UNCHANGED <<nextId, deviceIdOf, appIdList>>
      BY <1>4 DEF FetchReports, Batch, Idle
    <2>. QED BY <2>1, <2>2, WindowStutters
  <1>5. ASSUME NEW t \in Threads, TranslateReport(t)
        PROVE  UNCHANGED Window!vars
    <2>1. call' = [call EXCEPT ![t] = Translated(call[t])]
      BY <1>5 DEF TranslateReport
    <2>2. /\ Translated(call[t]).op # "marker" /\ call[t].op # "marker"
          /\ UNCHANGED <<nextId, deviceIdOf, appIdList>>
      BY <1>5 DEF TranslateReport, Translated, Batch
    <2>. QED BY <2>1, <2>2, WindowStutters
  <1>6. ASSUME NEW mode \in BOOLEAN, NEW ok \in BOOLEAN, DriverSetSleepMode(mode, ok)
        PROVE  UNCHANGED Window!vars
    <2> DEFINE c == [op |-> "sleepMode", mode |-> mode, ok |-> ok]
    <2>1. c.op # "marker"
      OBVIOUS
    <2>2. /\ call' = [call EXCEPT ![Setter] = c] /\ call[Setter].op # "marker"
          /\ UNCHANGED <<nextId, deviceIdOf, appIdList>>
      BY <1>6 DEF DriverSetSleepMode, Idle
    <2> HIDE DEF c
    <2>. QED BY <2>1, <2>2, WindowStutters, SetterAssumption
  <1>7. CASE UNCHANGED vars
    BY <1>7 DEF vars, Window!vars, Issued, NumberedFrames, Held, Slot
  <1>. QED BY <1>1, <1>2, <1>3, <1>4, <1>5, <1>6, <1>7 DEF Next

(* Hash map, ring and lock implement the window of remembered frames.      *)
THEOREM Refinement == Spec => ImplementsWindow
  BY WindowInit, WindowStep, GeneratorOKInit, GeneratorOKNext, PTL
     DEF Spec, ImplementsWindow, Window!Spec

=============================================================================
