--------------------------- MODULE ReflexLayer_proofs ---------------------------
(***************************************************************************)
(* Proofs about the Reflex layer.  ReflexLayer: for any threads, swapchain *)
(* handles, queues, frames and settings, and any number of sleeps.         *)
(* ReflexSetup, at the end: for any instances, devices and chains the      *)
(* application asks for, and any number of devices from one chain.         *)
(***************************************************************************)
EXTENDS ReflexLayer, ReflexSetup, SequenceTheorems, TLAPS

-----------------------------------------------------------------------------
(* The forms of a call in progress *)

CreateCalls ==
  [op : {"create"}, sc : Swapchains, at : {"apply", "register", "undo"}, alone : BOOLEAN]
DestroyCalls == [op : {"destroy"}, sc : Swapchains]
SleepModeCalls ==
  [op : {"sleepMode"}, sc : Swapchains \cup {NoSwapchain}, mode : Modes,
   at : {"driver", "store"}, alone : BOOLEAN]
SleepCalls == [op : {"sleep"}, sc : Swapchains \cup {NoSwapchain}, value : 1 .. MaxValue]
WaitCalls == [op : {"wait"}, value : 1 .. MaxValue]
MarkerCalls == [op : {"marker"}, kind : Kinds, id : FrameIds, left : Fields]
TagCalls ==
  [op : {"tag"}, at : {"try", "read", "flag", "done"}, chain : Seq(Kinds),
   id : FrameIds \cup {0}, scs : Seq(Swapchains), hasIds : BOOLEAN, allowed : SUBSET Kinds,
   seen : SUBSET (FrameIds \cup {0}), steady : SUBSET Kinds]
ForwardCalls == [op : {"forward"}, scs : Seq(Swapchains), ids : Seq(Nat \cup FrameIds)]

LEMMA CallsAre ==
  Calls = {Idle} \cup CreateCalls \cup DestroyCalls \cup SleepModeCalls \cup SleepCalls
          \cup WaitCalls \cup MarkerCalls \cup TagCalls \cup ForwardCalls
  BY DEF Calls, CreateCalls, DestroyCalls, SleepModeCalls, SleepCalls, WaitCalls, MarkerCalls,
         TagCalls, ForwardCalls

(* What a call has begun with says which fields it has.                    *)
LEMMA CallForms ==
  ASSUME NEW c \in Calls
  PROVE  /\ c.op = "create" => c \in CreateCalls
         /\ c.op = "destroy" => c \in DestroyCalls
         /\ c.op = "sleepMode" => c \in SleepModeCalls
         /\ c.op = "sleep" => c \in SleepCalls
         /\ c.op = "wait" => c \in WaitCalls
         /\ c.op = "marker" => c \in MarkerCalls
         /\ c.op = "tag" => c \in TagCalls
         /\ c.op = "forward" => c \in ForwardCalls
  BY CallsAre DEF Idle, CreateCalls, DestroyCalls, SleepModeCalls, SleepCalls, WaitCalls,
         MarkerCalls, TagCalls, ForwardCalls

(* A call that starts alone, or not, leaves the calls of other threads as  *)
(* they are but for the mark that they are not alone.                      *)
LEMMA StartAloneTyped ==
  ASSUME TypeOK, NEW t \in Threads, NEW c \in CreateCalls \cup SleepModeCalls, StartAlone(t, c)
  PROVE  /\ call' \in [Threads -> Calls]
         /\ call'[t] = [c EXCEPT !.alone = \A u \in Threads : call[u].op # Rival[c.op]]
         /\ \A u \in Threads \ {t} :
              call'[u] = IF call[u].op = Rival[c.op] THEN [call[u] EXCEPT !.alone = FALSE]
                         ELSE call[u]
<1>1. \A u \in Threads : call[u] \in Calls
  BY DEF TypeOK
<1>2. Rival[c.op] \in {"create", "sleepMode"}
  BY DEF Rival, CreateCalls, SleepModeCalls
<1>3. \A u \in Threads : call[u].op = Rival[c.op] => [call[u] EXCEPT !.alone = FALSE] \in Calls
  <2> SUFFICES ASSUME NEW u \in Threads, call[u].op = Rival[c.op]
               PROVE  [call[u] EXCEPT !.alone = FALSE] \in Calls
    OBVIOUS
  <2>1. call[u] \in CreateCalls \cup SleepModeCalls
    BY <1>1, <1>2, CallForms
  <2>2. [call[u] EXCEPT !.alone = FALSE] \in CreateCalls \cup SleepModeCalls
    BY <2>1 DEF CreateCalls, SleepModeCalls
  <2> QED
    BY <2>2, CallsAre, Zenon
<1>4. \A b \in BOOLEAN : [c EXCEPT !.alone = b] \in Calls
  BY CallsAre DEF CreateCalls, SleepModeCalls
<1> DEFINE rivals == {u \in Threads : call[u].op = Rival[c.op]}
<1>5. (rivals = {}) = (\A u \in Threads : call[u].op # Rival[c.op])
  OBVIOUS
<1>6. call' = [u \in Threads |->
                IF u = t THEN [c EXCEPT !.alone = (rivals = {})]
                ELSE IF u \in rivals THEN [call[u] EXCEPT !.alone = FALSE]
                ELSE call[u]]
  BY DEF StartAlone
<1> QED
  BY <1>1, <1>3, <1>4, <1>5, <1>6

-----------------------------------------------------------------------------
(* Sequences *)

Elements(s) == {s[i] : i \in 1 .. Len(s)}

(* The elements of one sequence after another are those of both.           *)
LEMMA ConcatElements ==
  ASSUME NEW S, NEW s \in Seq(S), NEW u \in Seq(S)
  PROVE  /\ s \o u \in Seq(S)
         /\ Elements(s \o u) = Elements(s) \cup Elements(u)
<1>1. /\ s \o u \in Seq(S) /\ Len(s \o u) = Len(s) + Len(u)
      /\ Len(s) \in Nat /\ Len(u) \in Nat
      /\ \A i \in 1 .. Len(s) : (s \o u)[i] = s[i]
      /\ \A i \in 1 .. Len(u) : (s \o u)[Len(s) + i] = u[i]
  BY ConcatProperties, LenProperties
<1>2. ASSUME NEW x \in Elements(s \o u) PROVE x \in Elements(s) \cup Elements(u)
  <2>1. PICK i \in 1 .. Len(s) + Len(u) : x = (s \o u)[i]
    BY <1>1 DEF Elements
  <2>2. CASE i <= Len(s)
    BY <1>1, <2>1, <2>2 DEF Elements
  <2>3. CASE i > Len(s)
    <3>1. i - Len(s) \in 1 .. Len(u) /\ i = Len(s) + (i - Len(s))
      BY <1>1, <2>1, <2>3
    <3> QED
      BY <1>1, <2>1, <3>1 DEF Elements
  <2> QED
    BY <1>1, <2>1, <2>2, <2>3
<1>3. Elements(s) \subseteq Elements(s \o u)
  BY <1>1 DEF Elements
<1>4. ASSUME NEW i \in 1 .. Len(u) PROVE u[i] \in Elements(s \o u)
  <2>1. Len(s) + i \in 1 .. Len(s \o u)
    BY <1>1
  <2> QED
    BY <1>1, <2>1 DEF Elements
<1> QED
  BY <1>1, <1>2, <1>3, <1>4 DEF Elements

(* A list of one element that is there or not, and of no element.          *)
LEMMA IfElements ==
  ASSUME NEW S, NEW k \in S, NEW b \in BOOLEAN
  PROVE  /\ If(b, <<k>>) \in Seq(S)
         /\ Elements(If(b, <<k>>)) = IF b THEN {k} ELSE {}
<1>1. Elements(<<k>>) = {k} /\ <<k>> \in Seq(S)
  BY DEF Elements
<1>2. Elements(<<>>) = {} /\ <<>> \in Seq(S)
  BY DEF Elements
<1> QED
  BY <1>1, <1>2 DEF If

(* GetFrameId tries exactly the kinds of marker that the settings allow.   *)
LEMMA ChainIsAllowed ==
  ASSUME NEW present \in BOOLEAN, NEW oob \in BOOLEAN
  PROVE  /\ Chain(present, oob) \in Seq(Kinds)
         /\ Chain(present, oob) # <<>>
         /\ Elements(Chain(present, oob)) = Allowed(present, oob)
<1> DEFINE other == Allow("outOfBand")
           p == present \/ Allow("present")
           r1 == If(~oob, <<"renderSubmit">>)
           r2 == If(oob \/ other, <<"outOfBandRenderSubmit">>)
           r3 == If(Allow("simulation"), <<"simulation">>)
           p1 == If(~oob, <<"present">>)
           p2 == If(oob \/ other, <<"outOfBandPresent">>)
           r == If(~present, r1 \o r2 \o r3)
           q == If(p, p1 \o p2)
<1>1. {"renderSubmit", "outOfBandRenderSubmit", "simulation", "present", "outOfBandPresent"} = Kinds
  BY DEF Kinds
<1>2. /\ other \in BOOLEAN /\ Allow("simulation") \in BOOLEAN /\ p \in BOOLEAN
      /\ Allow("present") \in BOOLEAN
  BY DEF Allow
<1>3. /\ r1 \in Seq(Kinds) /\ Elements(r1) = IF oob THEN {} ELSE {"renderSubmit"}
      /\ r2 \in Seq(Kinds)
      /\ Elements(r2) = IF oob \/ other THEN {"outOfBandRenderSubmit"} ELSE {}
      /\ r3 \in Seq(Kinds) /\ Elements(r3) = IF Allow("simulation") THEN {"simulation"} ELSE {}
      /\ p1 \in Seq(Kinds) /\ Elements(p1) = IF oob THEN {} ELSE {"present"}
      /\ p2 \in Seq(Kinds)
      /\ Elements(p2) = IF oob \/ other THEN {"outOfBandPresent"} ELSE {}
  BY <1>1, <1>2, IfElements
<1>4. /\ r1 \o r2 \o r3 \in Seq(Kinds)
      /\ Elements(r1 \o r2 \o r3) = Elements(r1) \cup Elements(r2) \cup Elements(r3)
      /\ p1 \o p2 \in Seq(Kinds)
      /\ Elements(p1 \o p2) = Elements(p1) \cup Elements(p2)
  <2> HIDE DEF r1, r2, r3, p1, p2
  <2>1. /\ r1 \o r2 \in Seq(Kinds)
        /\ Elements(r1 \o r2) = Elements(r1) \cup Elements(r2)
    BY <1>3, ConcatElements
  <2>2. /\ (r1 \o r2) \o r3 \in Seq(Kinds)
        /\ Elements((r1 \o r2) \o r3) = Elements(r1 \o r2) \cup Elements(r3)
    <3> DEFINE r12 == r1 \o r2
    <3>1. r12 \in Seq(Kinds)
      BY <2>1
    <3> HIDE DEF r12
    <3>2. /\ r12 \o r3 \in Seq(Kinds)
          /\ Elements(r12 \o r3) = Elements(r12) \cup Elements(r3)
      BY <1>3, <3>1, ConcatElements
    <3> QED
      BY <3>2 DEF r12
  <2>3. /\ p1 \o p2 \in Seq(Kinds)
        /\ Elements(p1 \o p2) = Elements(p1) \cup Elements(p2)
    BY <1>3, ConcatElements
  <2> QED
    BY <2>1, <2>2, <2>3
<1>5. <<>> \in Seq(Kinds) /\ Elements(<<>>) = {}
  BY DEF Elements
<1>6. /\ r \in Seq(Kinds) /\ q \in Seq(Kinds)
      /\ Elements(r) = IF present THEN {} ELSE Elements(r1) \cup Elements(r2) \cup Elements(r3)
      /\ Elements(q) = IF p THEN Elements(p1) \cup Elements(p2) ELSE {}
  <2> HIDE DEF r1, r2, r3, p1, p2, p
  <2> QED
    BY <1>4, <1>5 DEF If
<1>7. Chain(present, oob) = r \o q
  BY DEF Chain
<1>8. /\ Chain(present, oob) \in Seq(Kinds)
      /\ Elements(Chain(present, oob)) = Elements(r) \cup Elements(q)
  <2> HIDE DEF r, q
  <2> QED
    BY <1>6, <1>7, ConcatElements
<1>9. Elements(r) \cup Elements(q) =
        {k \in Kinds :
           IF k \in {"present", "outOfBandPresent"}
             THEN p /\ (IF k = "present" THEN ~oob ELSE oob \/ other)
             ELSE /\ ~present /\ k \in {"renderSubmit", "outOfBandRenderSubmit", "simulation"}
                  /\ k = "renderSubmit" => ~oob
                  /\ k = "outOfBandRenderSubmit" => oob \/ other
                  /\ k = "simulation" => Allow("simulation")}
  <2> HIDE DEF r, q, r1, r2, r3, p1, p2, p, other
  <2> QED
    BY <1>2, <1>3, <1>6 DEF Kinds
<1>10. Elements(r) \cup Elements(q) = Allowed(present, oob)
  <2> HIDE DEF r, q
  <2> QED
    BY <1>2, <1>9 DEF Allowed, Kinds
<1>11. Allowed(present, oob) # {}
  <2>1. (IF present THEN IF oob THEN "outOfBandPresent" ELSE "present"
         ELSE IF oob THEN "outOfBandRenderSubmit" ELSE "renderSubmit") \in Allowed(present, oob)
    BY DEF Allowed, Kinds
  <2> QED
    BY <2>1
<1> QED
  BY <1>5, <1>8, <1>10, <1>11

-----------------------------------------------------------------------------
(* Type correctness *)

LEMMA TypingInit == Init => TypeOK
<1> SUFFICES ASSUME Init PROVE TypeOK
  OBVIOUS
<1>1. Idle \in Calls
  BY CallsAre
<1>2. call \in [Threads -> Calls]
  BY <1>1 DEF Init
<1> QED
  <2>1. semaphore \in 0 .. MaxValue /\ sleeping \subseteq 1 .. MaxValue
    BY MaxValueAssumption DEF Init
  <2>2. /\ markers \in [Kinds -> [id : FrameIds \cup {0}, ongoing : BOOLEAN]]
        /\ open \in [Kinds -> FrameIds \cup {0}]
        /\ outOfBand \in [Queues -> SUBSET Work]
        /\ sleepMode \in [Swapchains -> Modes]
    BY DEF Init, Modes
  <2> QED
    BY <1>2, <2>1, <2>2 DEF Init, TypeOK, Modes

\* A thread's call becomes another one of the right form.
LEMMA NewCall ==
  ASSUME TypeOK, NEW t \in Threads, NEW c, Continue(t, c),
         c \in {Idle} \cup CreateCalls \cup DestroyCalls \cup SleepModeCalls \cup SleepCalls
               \cup WaitCalls \cup MarkerCalls \cup TagCalls \cup ForwardCalls
  PROVE  call' \in [Threads -> Calls] /\ call' = [call EXCEPT ![t] = c]
<1>1. c \in Calls
  BY CallsAre
<1> QED
  BY <1>1 DEF Continue, TypeOK

LEMMA TypingLifecycle ==
  ASSUME TypeOK, NEW t \in Threads,
         \/ CreateSwapchain(t) \/ ApplyStoredMode(t) \/ RegisterSwapchain(t) \/ UndoCreate(t)
         \/ (\E s \in Swapchains : DestroySwapchain(t, s)) \/ ForgetSwapchain(t)
  PROVE  TypeOK'
<1>1. call[t] \in Calls
  BY DEF TypeOK
<1> USE DEF context, driver, history
<1>2. CASE CreateSwapchain(t)
  <2>1. PICK s \in Swapchains \ live :
          /\ live' = live \cup {s}
          /\ sleepMode' = [sleepMode EXCEPT ![s] = "none"]
          /\ StartAlone(t, [op |-> "create", sc |-> s, at |-> "apply", alone |-> TRUE])
    BY <1>2 DEF CreateSwapchain
  <2>2. [op |-> "create", sc |-> s, at |-> "apply", alone |-> TRUE] \in CreateCalls
    BY DEF CreateCalls
  <2>3. call' \in [Threads -> Calls]
    BY <2>1, <2>2, StartAloneTyped
  <2> QED
    BY <1>2, <2>1, <2>3 DEF CreateSwapchain, TypeOK, Modes
<1>3. CASE ApplyStoredMode(t)
  <2>1. call[t] \in CreateCalls
    BY <1>1, <1>3, CallForms DEF ApplyStoredMode
  <2>2. /\ [call[t] EXCEPT !.at = "register"] \in CreateCalls
        /\ [call[t] EXCEPT !.at = "undo"] \in CreateCalls
        /\ call[t].sc \in Swapchains
    BY <2>1 DEF CreateCalls
  <2>3. \/ call' = [call EXCEPT ![t] = [call[t] EXCEPT !.at = "register"]]
        \/ call' = [call EXCEPT ![t] = [call[t] EXCEPT !.at = "undo"]]
    BY <1>3 DEF ApplyStoredMode, TypeOK
  <2>4. call' \in [Threads -> Calls]
    BY <2>2, <2>3, NewCall DEF Continue
  <2> QED
    BY <1>3, <2>2, <2>4 DEF ApplyStoredMode, TypeOK
<1>4. CASE RegisterSwapchain(t)
  <2>1. call[t] \in CreateCalls
    BY <1>1, <1>4, CallForms DEF RegisterSwapchain
  <2>2. call[t].sc \in Swapchains /\ call[t].alone \in BOOLEAN
    BY <2>1 DEF CreateCalls
  <2>3. call' \in [Threads -> Calls]
    BY <1>4, NewCall DEF RegisterSwapchain, Return
  <2> QED
    BY <1>4, <2>2, <2>3 DEF RegisterSwapchain, TypeOK
<1>5. CASE UndoCreate(t)
  <2>1. call' \in [Threads -> Calls]
    BY <1>5, NewCall DEF UndoCreate, Return
  <2> QED
    BY <1>5, <2>1 DEF UndoCreate, TypeOK
<1>6. ASSUME NEW s \in Swapchains, DestroySwapchain(t, s) PROVE TypeOK'
  <2>1. [op |-> "destroy", sc |-> s] \in DestroyCalls
    BY DEF DestroyCalls
  <2>2. call' \in [Threads -> Calls]
    BY <1>6, <2>1, NewCall DEF DestroySwapchain
  <2> QED
    BY <1>6, <2>2 DEF DestroySwapchain, TypeOK
<1>7. CASE ForgetSwapchain(t)
  <2>1. call' \in [Threads -> Calls]
    BY <1>7, NewCall DEF ForgetSwapchain, Return
  <2> QED
    BY <1>7, <2>1 DEF ForgetSwapchain, TypeOK
<1> QED
  BY <1>2, <1>3, <1>4, <1>5, <1>6, <1>7

LEMMA TypingSleep ==
  ASSUME TypeOK, NEW t \in Threads,
         \/ \E mode \in AppModes : SetLatencySleepMode(t, mode)
         \/ DriverSetSleepMode(t) \/ StoreSleepMode(t)
         \/ LatencySleep(t) \/ DriverSleep(t) \/ SignalSemaphore(t) \/ Wake(t)
  PROVE  TypeOK'
<1>1. call[t] \in Calls
  BY DEF TypeOK
<1> USE DEF context, driver, history
<1>2. ASSUME NEW mode \in AppModes, SetLatencySleepMode(t, mode) PROVE TypeOK'
  <2> DEFINE c == [op |-> "sleepMode", sc |-> swapchain, mode |-> mode,
                   at |-> IF swapchain = NoSwapchain THEN "store" ELSE "driver",
                   alone |-> TRUE]
  <2>1. c \in SleepModeCalls
    BY AppModesAssumption DEF SleepModeCalls, TypeOK, Modes
  <2>2. StartAlone(t, c)
    BY <1>2 DEF SetLatencySleepMode
  <2>3. call' \in [Threads -> Calls]
    <3> HIDE DEF c
    <3> QED
      BY <2>1, <2>2, StartAloneTyped
  <2> QED
    BY <1>2, <2>3 DEF SetLatencySleepMode, TypeOK
<1>3. CASE DriverSetSleepMode(t)
  <2>1. call[t] \in SleepModeCalls
    BY <1>1, <1>3, CallForms DEF DriverSetSleepMode
  <2>2. /\ [call[t] EXCEPT !.at = "store"] \in SleepModeCalls
        /\ call[t].mode \in Modes
    BY <2>1 DEF SleepModeCalls
  <2>3. \/ call' = [call EXCEPT ![t] = [call[t] EXCEPT !.at = "store"]]
        \/ call' = [call EXCEPT ![t] = Idle]
    BY <1>3 DEF DriverSetSleepMode, TypeOK, Return, Continue
  <2>4. call' \in [Threads -> Calls]
    BY <2>2, <2>3, NewCall DEF Continue
  <2> QED
    BY <1>3, <2>2, <2>4 DEF DriverSetSleepMode, TypeOK
<1>4. CASE StoreSleepMode(t)
  <2>1. call[t] \in SleepModeCalls
    BY <1>1, <1>4, CallForms DEF StoreSleepMode
  <2>2. call[t].mode \in Modes /\ call[t].alone \in BOOLEAN
    BY <2>1 DEF SleepModeCalls
  <2>3. call' \in [Threads -> Calls]
    BY <1>4, NewCall DEF StoreSleepMode, Return
  <2> QED
    BY <1>4, <2>2, <2>3 DEF StoreSleepMode, TypeOK
<1>5. CASE LatencySleep(t)
  <2>1. [op |-> "sleep", sc |-> swapchain, value |-> semaphore + 1] \in SleepCalls
    BY <1>5, MaxValueAssumption DEF LatencySleep, SleepCalls, TypeOK
  <2>2. call' \in [Threads -> Calls]
    BY <1>5, <2>1, NewCall DEF LatencySleep
  <2> QED
    BY <1>5, <2>2 DEF LatencySleep, TypeOK
<1>6. ASSUME call[t].op = "sleep", Wait(t) \/ Return(t)
      PROVE  call' \in [Threads -> Calls] /\ call[t].value \in 1 .. MaxValue
  <2>1. call[t] \in SleepCalls
    BY <1>1, <1>6, CallForms
  <2>2. call[t].value \in 1 .. MaxValue
    BY <2>1 DEF SleepCalls
  <2>3. [op |-> "wait", value |-> call[t].value] \in WaitCalls
    BY <2>2 DEF WaitCalls
  <2> QED
    BY <1>6, <2>2, <2>3, NewCall DEF Wait, Return
<1>7. CASE DriverSleep(t)
  BY <1>6, <1>7 DEF DriverSleep, TypeOK
<1>8. CASE SignalSemaphore(t)
  BY <1>6, <1>8, MaxValueAssumption DEF SignalSemaphore, TypeOK
<1>9. CASE Wake(t)
  <2>1. call' \in [Threads -> Calls]
    BY <1>9, NewCall DEF Wake, Return
  <2> QED
    BY <1>9, <2>1 DEF Wake, TypeOK
<1> QED
  BY <1>2, <1>3, <1>4, <1>5, <1>7, <1>8, <1>9

LEMMA AllowedKinds == \A present, oob : Allowed(present, oob) \subseteq Kinds
  BY DEF Allowed

\* What a submission or present starts with.
Started(present, oob, scs, hasIds) ==
  LET opened == {k \in Allowed(present, oob) : open[k] # 0}
  IN  [op |-> "tag", at |-> "try", chain |-> Chain(present, oob), id |-> 0,
       scs |-> scs, hasIds |-> hasIds, allowed |-> Allowed(present, oob),
       seen |-> {open[k] : k \in opened} \cup Replaced(Allowed(present, oob)),
       steady |-> {k \in opened : ~Starting(k)}]

LEMMA TagTyped ==
  ASSUME TypeOK, NEW t \in Threads, NEW work \in Work, NEW q \in Queues,
         NEW scs \in Seq(Swapchains), NEW hasIds \in BOOLEAN, Tag(t, work, q, scs, hasIds)
  PROVE  LET c == Started(work = "present", work \in outOfBand[q], scs, hasIds)
         IN  /\ c \in TagCalls /\ call' = [call EXCEPT ![t] = c]
             /\ call' \in [Threads -> Calls]
             /\ UNCHANGED <<context, driver, history>>
<1> DEFINE present == work = "present"
           oob == work \in outOfBand[q]
           allowed == Allowed(present, oob)
           opened == {k \in allowed : open[k] # 0}
           c == Started(present, oob, scs, hasIds)
<1>1. Chain(present, oob) \in Seq(Kinds) /\ allowed \subseteq Kinds /\ opened \subseteq Kinds
  <2>1. present \in BOOLEAN /\ oob \in BOOLEAN
    OBVIOUS
  <2> HIDE DEF present, oob
  <2> QED
    BY <2>1, ChainIsAllowed, AllowedKinds
<1>2. {open[k] : k \in opened} \cup Replaced(allowed) \subseteq FrameIds \cup {0}
  <2> HIDE DEF allowed, opened, present, oob
  <2>1. {open[k] : k \in opened} \subseteq FrameIds \cup {0}
    BY <1>1 DEF TypeOK
  <2>2. Replaced(allowed) \subseteq {markers[k].id : k \in allowed}
    BY DEF Replaced
  <2>3. {markers[k].id : k \in allowed} \subseteq FrameIds \cup {0}
    BY <1>1 DEF TypeOK
  <2> QED
    BY <2>1, <2>2, <2>3
<1>3. c \in TagCalls
  <2> HIDE DEF allowed, opened, present, oob
  <2> QED
    BY <1>1, <1>2 DEF TagCalls, Started, allowed, opened
<1>4. Continue(t, c) /\ UNCHANGED <<context, driver, history>>
  BY DEF Tag, Started
<1>5. call' \in [Threads -> Calls] /\ call' = [call EXCEPT ![t] = c]
  <2> HIDE DEF c
  <2> QED
    BY <1>3, <1>4, NewCall
<1> QED
  BY <1>3, <1>4, <1>5

\* The history of a call in progress is all that the markers of other threads change.
LEMMA WitnessTyped ==
  ASSUME TypeOK, NEW c \in Calls, NEW k \in Kinds, NEW id \in FrameIds
  PROVE  /\ WithStart(c, k, id) \in Calls /\ WithEnd(c, k) \in Calls
         /\ WithStart(c, k, id).op = c.op /\ WithEnd(c, k).op = c.op
         /\ c.op # "tag" => WithStart(c, k, id) = c /\ WithEnd(c, k) = c
<1>1. CASE c.op = "tag"
  <2>1. c \in TagCalls
    BY <1>1, CallForms
  <2>2. markers[k].id \in FrameIds \cup {0}
    BY DEF TypeOK
  <2>3. WithStart(c, k, id) \in TagCalls
    BY <2>1, <2>2 DEF WithStart, TagCalls
  <2>4. WithEnd(c, k) \in TagCalls
    BY <2>1 DEF WithEnd, TagCalls
  <2>5. \A d \in TagCalls : d \in Calls /\ d.op = "tag"
    BY CallsAre DEF TagCalls
  <2> QED
    BY <1>1, <2>3, <2>4, <2>5
<1> QED
  BY <1>1 DEF WithStart, WithEnd

-----------------------------------------------------------------------------
(* Frame ids on their way to a submission or present *)

\* The layer's markers say what is open, but for the field that a start has yet to store;
\* one thread at a time starts a marker of a kind.
Setting(u, k) == call[u].op = "marker" /\ call[u].kind = k
MarkersOK ==
  /\ \A k \in Kinds :
       /\ open[k] = 0 => ~markers[k].ongoing
       /\ open[k] # 0 /\ ~Starting(k) => markers[k].ongoing
       /\ open[k] # 0 => \/ markers[k].id = open[k]
                        \/ \E u \in Threads : Setting(u, k) /\ call[u].left = "id"
  /\ \A u \in Threads, k \in Kinds : Setting(u, k) =>
       /\ open[k] = call[u].id
       /\ call[u].left = "ongoing" => markers[k].id = call[u].id
       /\ call[u].left = "id" => markers[k].ongoing
  /\ \A u, v \in Threads, k \in Kinds : Setting(u, k) /\ Setting(v, k) => u = v

\* A search of GetFrameId: it has yet to try every marker that was open all the time,
\* or it has found one that was open or being started during the call.
SearchOK(c) ==
  /\ c.at # "done" => c.chain # <<>> /\ Elements(c.chain) \subseteq c.allowed
  /\ \A k \in c.allowed : open[k] # 0 => open[k] \in c.seen /\ markers[k].id \in c.seen
  /\ \A k \in c.steady : k \in c.allowed /\ markers[k].ongoing /\ open[k] # 0
  /\ c.at \in {"try", "flag"} => c.steady \subseteq Elements(c.chain)
  /\ c.at = "read" => markers[Head(c.chain)].id \in c.seen
  /\ c.at = "flag" => c.id = markers[Head(c.chain)].id \/ c.id \in c.seen
  /\ c.at = "done" => IF c.id = 0 THEN c.steady = {} \/ 0 \in c.seen ELSE c.id \in c.seen

FramesInv == MarkersOK /\ \A t \in Threads : call[t].op = "tag" => SearchOK(call[t])

\* The first of a list and the rest.
LEMMA HeadRest ==
  ASSUME NEW S, NEW s \in Seq(S), s # <<>>
  PROVE  /\ Head(s) \in Elements(s) /\ Head(s) \in S /\ Tail(s) \in Seq(S)
         /\ Elements(s) = {Head(s)} \cup Elements(Tail(s))
<1>1. /\ Len(s) \in Nat \ {0} /\ Head(s) = s[1] /\ Tail(s) \in Seq(S)
      /\ Len(Tail(s)) = Len(s) - 1
      /\ \A i \in 1 .. Len(Tail(s)) : Tail(s)[i] = s[i + 1]
      /\ s \in [1 .. Len(s) -> S]
  BY HeadTailProperties, LenProperties, EmptySeq
<1>2. Head(s) \in Elements(s) /\ Head(s) \in S
  BY <1>1 DEF Elements
<1>3. ASSUME NEW i \in 1 .. Len(s) PROVE s[i] \in {Head(s)} \cup Elements(Tail(s))
  <2>1. CASE i # 1
    <3>1. i - 1 \in 1 .. Len(Tail(s)) /\ Tail(s)[i - 1] = s[i]
      BY <1>1, <2>1
    <3> QED
      BY <3>1 DEF Elements
  <2> QED
    BY <1>1, <2>1
<1>4. ASSUME NEW i \in 1 .. Len(Tail(s)) PROVE Tail(s)[i] \in Elements(s)
  <2>1. i + 1 \in 1 .. Len(s) /\ Tail(s)[i] = s[i + 1]
    BY <1>1
  <2> QED
    BY <2>1 DEF Elements
<1> QED
  BY <1>1, <1>2, <1>3, <1>4 DEF Elements

LEMMA FramesInit == Init => FramesInv
  BY DEF Init, FramesInv, MarkersOK, Setting, Idle

(* Steps that neither touch a marker nor a search keep what is said of     *)
(* them.                                                                   *)
SameMarkerCalls ==
  \A u \in Threads : call[u].op = "marker" \/ call'[u].op = "marker" => call'[u] = call[u]

LEMMA MarkersFrame ==
  ASSUME MarkersOK, markers' = markers, open' = open, SameMarkerCalls
  PROVE  MarkersOK'
<1>1. \A u \in Threads, k \in Kinds :
        /\ Setting(u, k)' <=> Setting(u, k)
        /\ Setting(u, k) => call'[u] = call[u]
  BY DEF SameMarkerCalls, Setting
<1>2. \A k \in Kinds : Starting(k)' <=> Starting(k)
  BY <1>1 DEF Starting, Setting
<1> QED
  BY <1>1, <1>2 DEF MarkersOK

LEMMA FramesFrame ==
  ASSUME FramesInv, markers' = markers, open' = open, SameMarkerCalls,
         \A t \in Threads : call'[t].op = "tag" => call'[t] = call[t]
  PROVE  FramesInv'
<1>1. MarkersOK'
  BY MarkersFrame DEF FramesInv
<1> QED
  BY <1>1 DEF FramesInv, SearchOK

LEMMA FramesTag ==
  ASSUME TypeOK, FramesInv, NEW t \in Threads, NEW work \in Work, NEW q \in Queues,
         NEW scs \in Seq(Swapchains), NEW hasIds \in BOOLEAN, call[t] = Idle,
         Tag(t, work, q, scs, hasIds)
  PROVE  TypeOK' /\ FramesInv'
<1> DEFINE present == work = "present"
           oob == work \in outOfBand[q]
           c == Started(present, oob, scs, hasIds)
<1>1. /\ call' = [call EXCEPT ![t] = c]
      /\ call' \in [Threads -> Calls]
      /\ UNCHANGED <<context, driver, history>>
  BY TagTyped
<1>2. TypeOK'
  BY <1>1 DEF TypeOK, context, driver, history
<1>3. present \in BOOLEAN /\ oob \in BOOLEAN
  OBVIOUS
<1>4. Chain(present, oob) # <<>> /\ Elements(Chain(present, oob)) = Allowed(present, oob)
  <2> HIDE DEF present, oob
  <2> QED
    BY <1>3, ChainIsAllowed
<1>5. SearchOK(c)
  <2> DEFINE allowed == Allowed(present, oob)
             opened == {k \in allowed : open[k] # 0}
  <2>1. /\ c.at = "try" /\ c.chain = Chain(present, oob) /\ c.allowed = allowed
        /\ c.seen = {open[k] : k \in opened} \cup Replaced(allowed)
        /\ c.steady = {k \in opened : ~Starting(k)}
    BY DEF Started
  <2>2. allowed \subseteq Kinds
    <3> HIDE DEF present, oob
    <3> QED
      BY AllowedKinds
  <2>3. Elements(c.chain) = allowed /\ c.chain # <<>>
    BY <1>4, <2>1
  <2> HIDE DEF c, allowed
  <2>4. \A k \in opened : open[k] \in c.seen
    BY <2>1
  <2>5. \A k \in opened : markers[k].id \in c.seen
    <3> SUFFICES ASSUME NEW k \in opened PROVE markers[k].id \in c.seen
      OBVIOUS
    <3>1. CASE markers[k].id = open[k]
      BY <2>4, <3>1
    <3>2. ASSUME NEW u \in Threads, Setting(u, k), call[u].left = "id"
          PROVE  markers[k].id \in c.seen
      <4>1. k \in allowed
        OBVIOUS
      <4>2. markers[k].id \in Replaced(allowed)
        BY <3>2, <4>1 DEF Replaced, Setting
      <4> QED
        BY <2>1, <4>2
    <3> QED
      BY <2>2, <3>1, <3>2 DEF FramesInv, MarkersOK
  <2>6. \A k \in c.steady : k \in allowed /\ markers[k].ongoing /\ open[k] # 0
    BY <2>1, <2>2 DEF FramesInv, MarkersOK
  <2> QED
    BY <2>1, <2>3, <2>4, <2>5, <2>6 DEF SearchOK
<1>6. open' = open /\ markers' = markers
  BY <1>1 DEF context, history
<1>7. FramesInv'
  <2> HIDE DEF c
  <2>1. ASSUME NEW u \in Threads, call'[u].op = "tag" PROVE SearchOK(call[u])'
    <3>1. CASE u = t
      <4>1. call'[t] = c
        BY <1>1 DEF TypeOK
      <4> QED
        BY <1>5, <1>6, <3>1, <4>1 DEF SearchOK
    <3>2. CASE u # t
      <4>1. call'[u] = call[u]
        BY <1>1, <3>2 DEF TypeOK
      <4>2. SearchOK(call[u])
        BY <2>1, <4>1 DEF FramesInv
      <4> QED
        BY <1>6, <4>1, <4>2 DEF SearchOK
    <3> QED
      BY <3>1, <3>2
  <2>2. SameMarkerCalls
    <3>1. c.op = "tag"
      BY DEF c, Started
    <3> QED
      BY <1>1, <3>1 DEF SameMarkerCalls, Idle, TypeOK
  <2>3. MarkersOK'
    BY <1>6, <2>2, MarkersFrame DEF FramesInv
  <2> QED
    BY <2>1, <2>3 DEF FramesInv
<1> QED
  BY <1>2, <1>7

LEMMA FramesStart ==
  ASSUME TypeOK, FramesInv, NEW t \in Threads, NEW k \in Kinds, NEW id \in FrameIds,
         StartMarker(t, k, id)
  PROVE  TypeOK' /\ FramesInv'
<1>1. PICK field \in Fields :
        /\ markers' = Stored(k, field, id)
        /\ call' = [u \in Threads |->
             IF u = t THEN [op |-> "marker", kind |-> k, id |-> id,
                            left |-> IF field = "id" THEN "ongoing" ELSE "id"]
             ELSE WithStart(call[u], k, id)]
  BY DEF StartMarker
<1>2. /\ call[t] = Idle /\ ~Starting(k) /\ open' = [open EXCEPT ![k] = id]
      /\ UNCHANGED <<setting, swapchain, latencySleepModeInfo, outOfBand, driver, newest, raced>>
  BY DEF StartMarker
<1> DEFINE n == [op |-> "marker", kind |-> k, id |-> id,
                 left |-> IF field = "id" THEN "ongoing" ELSE "id"]
<1>3. id # 0 /\ \A u \in Threads : call[u] \in Calls
  BY FrameIdsAssumption DEF TypeOK
<1>4. n \in MarkerCalls
  BY DEF MarkerCalls, Fields
<1>5. call'[t] = n /\ \A u \in Threads \ {t} : call'[u] = WithStart(call[u], k, id)
  BY <1>1
<1>6. call' \in [Threads -> Calls]
  <2>1. n \in Calls
    BY <1>4, CallsAre
  <2>2. \A u \in Threads : WithStart(call[u], k, id) \in Calls
    BY <1>3, WitnessTyped
  <2> QED
    BY <1>1, <2>1, <2>2
<1>7. TypeOK'
  <2>1. markers' \in [Kinds -> [id : FrameIds \cup {0}, ongoing : BOOLEAN]]
    BY <1>1 DEF Stored, TypeOK
  <2>2. open' \in [Kinds -> FrameIds \cup {0}]
    BY <1>2 DEF TypeOK
  <2> QED
    BY <1>2, <1>6, <2>1, <2>2 DEF TypeOK, driver
<1>8. /\ \A l \in Kinds \ {k} : markers'[l] = markers[l] /\ open'[l] = open[l]
      /\ markers'[k].id = (IF field = "id" THEN id ELSE markers[k].id)
      /\ markers'[k].ongoing = (IF field = "id" THEN markers[k].ongoing ELSE TRUE)
      /\ open'[k] = id
  BY <1>1, <1>2 DEF Stored, TypeOK
<1>9. MarkersOK'
  <2>1. /\ n.op = "marker" /\ n.kind = k /\ n.id = id
        /\ n.left = IF field = "id" THEN "ongoing" ELSE "id"
    OBVIOUS
  <2>2. \A u \in Threads \ {t} : call[u].op # "tag" => call'[u] = call[u]
    BY <1>3, <1>5, WitnessTyped
  <2>3. \A u \in Threads \ {t} : call'[u].op = call[u].op
    BY <1>3, <1>5, WitnessTyped
  <2> HIDE DEF n
  <2>4. \A l \in Kinds : Setting(t, l)' <=> l = k
    BY <1>5, <2>1 DEF Setting
  <2>5. \A u \in Threads \ {t}, l \in Kinds :
          /\ Setting(u, l)' <=> Setting(u, l)
          /\ Setting(u, l) => call'[u] = call[u] /\ l # k
    BY <1>2, <2>2, <2>3 DEF Setting, Starting
  <2>6. \A l \in Kinds : ~Setting(t, l)
    BY <1>2 DEF Setting, Idle
  <2>7. \A l \in Kinds \ {k} : Starting(l)' <=> Starting(l)
    BY <2>4, <2>5, <2>6 DEF Starting, Setting
  <2>8. Starting(k)'
    BY <2>4 DEF Starting, Setting
  <2>9. call'[t].id = id /\ call'[t].left = IF field = "id" THEN "ongoing" ELSE "id"
    BY <1>5, <2>1
  <2>10. MarkersOK
    BY DEF FramesInv
  <2>11. \A l \in Kinds :
           /\ open'[l] = 0 => ~markers'[l].ongoing
           /\ open'[l] # 0 /\ ~Starting(l)' => markers'[l].ongoing
    BY <1>3, <1>8, <2>7, <2>8, <2>10 DEF MarkersOK
  <2>12. ASSUME NEW l \in Kinds, open'[l] # 0
         PROVE  \/ markers'[l].id = open'[l]
                \/ \E u \in Threads : Setting(u, l)' /\ call'[u].left = "id"
    <3>1. CASE l = k
      BY <1>8, <2>4, <2>9, <3>1
    <3>2. CASE l # k
      BY <1>8, <2>5, <2>6, <2>10, <2>12, <3>2 DEF MarkersOK
    <3> QED
      BY <3>1, <3>2
  <2>13. ASSUME NEW u \in Threads, NEW l \in Kinds, Setting(u, l)'
         PROVE  /\ open'[l] = call'[u].id
                /\ call'[u].left = "ongoing" => markers'[l].id = call'[u].id
                /\ call'[u].left = "id" => markers'[l].ongoing
    <3>1. CASE u = t
      <4>1. field = "id" \/ field = "ongoing"
        BY DEF Fields
      <4> QED
        BY <1>8, <2>4, <2>9, <2>13, <3>1, <4>1
    <3>2. CASE u # t
      BY <1>8, <2>5, <2>10, <2>13, <3>2 DEF MarkersOK
    <3> QED
      BY <3>1, <3>2
  <2>14. \A u, v \in Threads, l \in Kinds : Setting(u, l)' /\ Setting(v, l)' => u = v
    BY <2>4, <2>5, <2>10 DEF MarkersOK
  <2> QED
    BY <2>11, <2>12, <2>13, <2>14 DEF MarkersOK
<1>10. ASSUME NEW u \in Threads, call'[u].op = "tag" PROVE SearchOK(call[u])'
  <2> DEFINE c == call[u]
             d == call'[u]
  <2>1. u # t
    BY <1>5, <1>10
  <2>2. d = WithStart(c, k, id)
    BY <1>5, <2>1
  <2>3. c.op = "tag"
    BY <1>3, <1>10, <2>2, WitnessTyped
  <2>4. c \in TagCalls /\ SearchOK(c)
    BY <1>3, <2>3, CallForms DEF FramesInv
  <2>5. c.at # "done" => Head(c.chain) \in c.allowed
    <3>1. c.chain \in Seq(Kinds)
      BY <2>4 DEF TagCalls
    <3> QED
      BY <2>4, <3>1, HeadRest DEF SearchOK
  <2>6. c.allowed \subseteq Kinds /\ c.steady \subseteq Kinds
    BY <2>4 DEF TagCalls
  <2>7. /\ d.at = c.at /\ d.chain = c.chain /\ d.allowed = c.allowed /\ d.id = c.id
        /\ d.seen = IF k \in c.allowed THEN c.seen \cup {id, markers[k].id} ELSE c.seen
        /\ d.steady = c.steady
    BY <2>2, <2>3, <2>4 DEF WithStart, TagCalls
  <2>8. \A l \in c.allowed :
          markers'[l].id = markers[l].id \/ (markers'[l].id = id /\ l = k)
    BY <1>8, <2>6
  <2> HIDE DEF c, d
  <2>9. /\ d.at # "done" => d.chain # <<>> /\ Elements(d.chain) \subseteq d.allowed
        /\ d.at \in {"try", "flag"} => d.steady \subseteq Elements(d.chain)
        /\ d.at = "done" => IF d.id = 0 THEN d.steady = {} \/ 0 \in d.seen ELSE d.id \in d.seen
    BY <2>4, <2>7 DEF SearchOK
  <2>10. ASSUME NEW l \in d.allowed, open'[l] # 0
         PROVE  open'[l] \in d.seen /\ markers'[l].id \in d.seen
    <3>1. CASE l = k
      BY <1>8, <2>7, <3>1
    <3>2. CASE l # k
      BY <1>8, <2>4, <2>6, <2>7, <2>10, <3>2 DEF SearchOK
    <3> QED
      BY <3>1, <3>2
  <2>11. \A l \in d.steady : l \in d.allowed /\ markers'[l].ongoing /\ open'[l] # 0
    BY <1>3, <1>8, <2>4, <2>6, <2>7 DEF SearchOK
  <2>12. d.at = "read" => markers'[Head(d.chain)].id \in d.seen
    BY <2>4, <2>5, <2>7, <2>8 DEF SearchOK
  <2>13. d.at = "flag" => d.id = markers'[Head(d.chain)].id \/ d.id \in d.seen
    <3> SUFFICES ASSUME c.at = "flag"
                 PROVE  c.id = markers'[Head(c.chain)].id \/ c.id \in d.seen
      BY <2>7
    <3>1. CASE Head(c.chain) = k
      BY <2>4, <2>5, <2>7, <3>1 DEF SearchOK
    <3>2. CASE Head(c.chain) # k
      BY <1>8, <2>4, <2>5, <2>6, <2>7, <3>2 DEF SearchOK
    <3> QED
      BY <3>1, <3>2
  <2> QED
    BY <2>9, <2>10, <2>11, <2>12, <2>13 DEF SearchOK, d
<1> QED
  BY <1>7, <1>9, <1>10 DEF FramesInv

LEMMA FramesFinish ==
  ASSUME TypeOK, FramesInv, NEW t \in Threads, FinishStart(t)
  PROVE  TypeOK' /\ FramesInv'
<1>1. PICK k, id, left : k = call[t].kind /\ id = call[t].id /\ left = call[t].left
  OBVIOUS
<1>2. call[t] \in MarkerCalls
  BY CallForms DEF FinishStart, TypeOK
<1>3. k \in Kinds /\ id \in FrameIds /\ left \in {"id", "ongoing"} /\ id # 0 /\ Setting(t, k)
  BY <1>1, <1>2, FrameIdsAssumption DEF MarkerCalls, Fields, Setting
<1>4. /\ markers' = Stored(k, left, id) /\ Continue(t, Idle)
      /\ UNCHANGED <<setting, swapchain, latencySleepModeInfo, outOfBand, driver, history>>
  BY <1>1 DEF FinishStart, Return
<1>5. call' \in [Threads -> Calls] /\ call' = [call EXCEPT ![t] = Idle]
  BY <1>4, NewCall
<1>6. call'[t] = Idle /\ \A u \in Threads \ {t} : call'[u] = call[u]
  BY <1>5 DEF TypeOK
<1>7. TypeOK'
  <2>1. markers' \in [Kinds -> [id : FrameIds \cup {0}, ongoing : BOOLEAN]]
    BY <1>3, <1>4 DEF Stored, TypeOK
  <2> QED
    BY <1>4, <1>5, <2>1 DEF TypeOK, driver, history
<1>8. /\ \A l \in Kinds \ {k} : markers'[l] = markers[l]
      /\ markers'[k].id = (IF left = "id" THEN id ELSE markers[k].id)
      /\ markers'[k].ongoing = (IF left = "id" THEN markers[k].ongoing ELSE TRUE)
      /\ open' = open
  BY <1>3, <1>4 DEF Stored, TypeOK, history
<1>9. MarkersOK
  BY DEF FramesInv
<1>10. /\ open[k] = id
       /\ markers'[k].id = id /\ markers'[k].ongoing
  BY <1>1, <1>3, <1>8, <1>9 DEF MarkersOK
<1>11. \A u \in Threads \ {t} : ~Setting(u, k)
  BY <1>3, <1>9 DEF MarkersOK
<1>12. MarkersOK'
  <2>1. \A l \in Kinds : ~Setting(t, l)'
    BY <1>6 DEF Setting, Idle
  <2>2. \A u \in Threads \ {t}, l \in Kinds :
          (Setting(u, l)' <=> Setting(u, l)) /\ (Setting(u, l) => call'[u] = call[u] /\ l # k)
    BY <1>6, <1>11 DEF Setting
  <2>3. \A l \in Kinds \ {k} : ~Setting(t, l)
    BY <1>3 DEF Setting
  <2>4. \A l \in Kinds \ {k} : Starting(l)' <=> Starting(l)
    <3>1. \A u \in Threads, l \in Kinds \ {k} : Setting(u, l)' <=> Setting(u, l)
      BY <2>1, <2>2, <2>3
    <3> QED
      BY <3>1 DEF Starting, Setting
  <2>5. \A l \in Kinds :
          /\ open'[l] = 0 => ~markers'[l].ongoing
          /\ open'[l] # 0 /\ ~Starting(l)' => markers'[l].ongoing
    BY <1>3, <1>8, <1>9, <1>10, <2>4 DEF MarkersOK
  <2>6. \A l \in Kinds : open'[l] # 0 =>
          \/ markers'[l].id = open'[l]
          \/ \E u \in Threads : Setting(u, l)' /\ call'[u].left = "id"
    <3> SUFFICES ASSUME NEW l \in Kinds, open[l] # 0, l # k
                 PROVE  \/ markers[l].id = open[l]
                        \/ \E u \in Threads : Setting(u, l)' /\ call'[u].left = "id"
      BY <1>8, <1>10
    <3>1. CASE markers[l].id = open[l]
      BY <3>1
    <3>2. ASSUME NEW u \in Threads, Setting(u, l), call[u].left = "id"
          PROVE  Setting(u, l)' /\ call'[u].left = "id"
      <4>1. u # t
        BY <2>3, <3>2
      <4> QED
        BY <2>2, <3>2, <4>1
    <3> QED
      BY <1>9, <3>1, <3>2 DEF MarkersOK
  <2>7. \A u \in Threads, l \in Kinds : Setting(u, l)' =>
          /\ open'[l] = call'[u].id
          /\ call'[u].left = "ongoing" => markers'[l].id = call'[u].id
          /\ call'[u].left = "id" => markers'[l].ongoing
    BY <1>8, <1>9, <2>1, <2>2 DEF MarkersOK
  <2>8. \A u, v \in Threads, l \in Kinds : Setting(u, l)' /\ Setting(v, l)' => u = v
    BY <1>9, <2>1, <2>2 DEF MarkersOK
  <2> QED
    BY <2>5, <2>6, <2>7, <2>8 DEF MarkersOK
<1>13. ASSUME NEW u \in Threads, call'[u].op = "tag" PROVE SearchOK(call[u])'
  <2>1. PICK c : c = call[u]
    OBVIOUS
  <2>2. call'[u] = c /\ c \in TagCalls /\ SearchOK(c)
    <3>1. u # t
      BY <1>6, <1>13 DEF Idle
    <3> QED
      BY <1>6, <1>13, <2>1, <3>1, CallForms DEF FramesInv, TypeOK
  <2>3. c.at # "done" => Head(c.chain) \in c.allowed
    <3>1. c.chain \in Seq(Kinds)
      BY <2>2 DEF TagCalls
    <3> QED
      BY <2>2, <3>1, HeadRest DEF SearchOK
  <2>4. c.allowed \subseteq Kinds
    BY <2>2 DEF TagCalls
  <2>5. k \in c.allowed => markers[k].id \in c.seen /\ id \in c.seen
    BY <1>3, <1>10, <2>2 DEF SearchOK
  <2>6. \A l \in c.allowed : open'[l] # 0 => open'[l] \in c.seen /\ markers'[l].id \in c.seen
    BY <1>8, <1>10, <2>2, <2>4, <2>5 DEF SearchOK
  <2>7. \A l \in c.steady : l \in c.allowed /\ markers'[l].ongoing /\ open'[l] # 0
    BY <1>8, <1>10, <2>2, <2>4 DEF SearchOK
  <2>8. c.at = "read" => markers'[Head(c.chain)].id \in c.seen
    BY <1>8, <1>10, <2>2, <2>3, <2>4, <2>5 DEF SearchOK
  <2>9. c.at = "flag" => c.id = markers'[Head(c.chain)].id \/ c.id \in c.seen
    BY <1>8, <2>2, <2>3, <2>4, <2>5 DEF SearchOK
  <2>10. SearchOK(c)'
    BY <2>2, <2>6, <2>7, <2>8, <2>9 DEF SearchOK
  <2> QED
    BY <2>2, <2>6, <2>7, <2>8, <2>9 DEF SearchOK
<1> QED
  BY <1>7, <1>12, <1>13 DEF FramesInv

LEMMA FramesEnd ==
  ASSUME TypeOK, FramesInv, NEW t \in Threads, NEW k \in Kinds, EndMarker(t, k)
  PROVE  TypeOK' /\ FramesInv'
<1>1. /\ markers' = Ended(k) /\ open' = [open EXCEPT ![k] = 0] /\ ~Starting(k)
      /\ call' = [u \in Threads |-> WithEnd(call[u], k)]
      /\ UNCHANGED <<setting, swapchain, latencySleepModeInfo, outOfBand, driver, newest, raced>>
  BY DEF EndMarker
<1>2. \A u \in Threads :
        /\ WithEnd(call[u], k) \in Calls /\ WithEnd(call[u], k).op = call[u].op
        /\ call[u].op # "tag" => WithEnd(call[u], k) = call[u]
  <2> SUFFICES ASSUME NEW u \in Threads
               PROVE  /\ WithEnd(call[u], k) \in Calls /\ WithEnd(call[u], k).op = call[u].op
                      /\ call[u].op # "tag" => WithEnd(call[u], k) = call[u]
    OBVIOUS
  <2>1. call[u] \in Calls
    BY DEF TypeOK
  <2>2. CASE call[u].op = "tag"
    <3>1. call[u] \in TagCalls
      BY <2>1, <2>2, CallForms
    <3>2. WithEnd(call[u], k) \in TagCalls
      BY <2>2, <3>1 DEF WithEnd, TagCalls
    <3>3. \A d \in TagCalls : d \in Calls /\ d.op = "tag"
      BY CallsAre DEF TagCalls
    <3> QED
      BY <2>2, <3>2, <3>3
  <2> QED
    BY <2>1, <2>2 DEF WithEnd
<1>3. call' \in [Threads -> Calls]
  BY <1>1, <1>2
<1>4. TypeOK'
  <2>1. markers' \in [Kinds -> [id : FrameIds \cup {0}, ongoing : BOOLEAN]]
    BY <1>1 DEF Ended, TypeOK
  <2>2. open' \in [Kinds -> FrameIds \cup {0}]
    BY <1>1 DEF TypeOK
  <2> QED
    BY <1>1, <1>3, <2>1, <2>2 DEF TypeOK, driver
<1>5. /\ \A l \in Kinds \ {k} : markers'[l] = markers[l] /\ open'[l] = open[l]
      /\ markers'[k].id = markers[k].id /\ ~markers'[k].ongoing /\ open'[k] = 0
  BY <1>1 DEF Ended, TypeOK
<1>6. \A l \in Kinds : markers'[l].id = markers[l].id
  BY <1>5
<1>7. MarkersOK'
  <2>1. \A u \in Threads, l \in Kinds :
          /\ Setting(u, l)' <=> Setting(u, l)
          /\ Setting(u, l) => call'[u] = call[u] /\ l # k
    BY <1>1, <1>2 DEF Setting, Starting
  <2>2. \A l \in Kinds : Starting(l)' <=> Starting(l)
    BY <2>1 DEF Starting, Setting
  <2> QED
    BY <1>5, <2>1, <2>2 DEF FramesInv, MarkersOK
<1>8. ASSUME NEW u \in Threads, call'[u].op = "tag" PROVE SearchOK(call[u])'
  <2>1. PICK c, d : c = call[u] /\ d = call'[u]
    OBVIOUS
  <2>2. d = WithEnd(c, k) /\ c.op = "tag" /\ c \in TagCalls /\ SearchOK(c)
    BY <1>1, <1>2, <1>8, <2>1, CallForms DEF FramesInv, TypeOK
  <2>3. c.at # "done" => Head(c.chain) \in c.allowed
    <3>1. c.chain \in Seq(Kinds)
      BY <2>2 DEF TagCalls
    <3> QED
      BY <2>2, <3>1, HeadRest DEF SearchOK
  <2>4. c.allowed \subseteq Kinds
    BY <2>2 DEF TagCalls
  <2>5. /\ d.at = c.at /\ d.chain = c.chain /\ d.allowed = c.allowed /\ d.id = c.id
        /\ d.seen = c.seen /\ d.steady = c.steady \ {k}
    BY <2>2 DEF WithEnd, TagCalls
  <2>6. \A l \in c.allowed : open'[l] # 0 => open'[l] \in c.seen /\ markers'[l].id \in c.seen
    BY <1>5, <2>2, <2>4 DEF SearchOK
  <2>7. \A l \in d.steady : l \in d.allowed /\ markers'[l].ongoing /\ open'[l] # 0
    BY <1>5, <2>2, <2>4, <2>5 DEF SearchOK
  <2>8. c.at = "read" => markers'[Head(c.chain)].id \in c.seen
    BY <1>6, <2>2, <2>3, <2>4 DEF SearchOK
  <2>9. c.at = "flag" => c.id = markers'[Head(c.chain)].id \/ c.id \in c.seen
    BY <1>6, <2>2, <2>3, <2>4 DEF SearchOK
  <2> QED
    BY <2>1, <2>2, <2>5, <2>6, <2>7, <2>8, <2>9 DEF SearchOK
<1> QED
  BY <1>4, <1>7, <1>8 DEF FramesInv

LEMMA FramesTry ==
  ASSUME TypeOK, FramesInv, NEW t \in Threads, TryMarker(t) \/ ReadMarkerId(t)
  PROVE  TypeOK' /\ FramesInv'
<1> DEFINE c == call[t]
           k == Head(c.chain)
           rest == Tail(c.chain)
<1>1. c \in TagCalls /\ SearchOK(c) /\ c.at # "done"
  BY CallForms DEF TryMarker, ReadMarkerId, FramesInv, TypeOK
<1>2. /\ k \in Elements(c.chain) /\ k \in Kinds /\ k \in c.allowed /\ rest \in Seq(Kinds)
      /\ Elements(c.chain) = {k} \cup Elements(rest)
  <2>1. c.chain \in Seq(Kinds) /\ c.chain # <<>>
    BY <1>1 DEF TagCalls, SearchOK
  <2> QED
    BY <1>1, <2>1, HeadRest DEF SearchOK
<1>3. UNCHANGED <<context, driver, history>>
  BY DEF TryMarker, ReadMarkerId
<1>4. markers' = markers /\ open' = open
  BY <1>3 DEF context, history
<1>5. /\ markers[k].ongoing => open[k] # 0
      /\ markers[k].ongoing => markers[k].id \in c.seen
      /\ markers[k].id \in FrameIds \cup {0}
  BY <1>1, <1>2 DEF FramesInv, MarkersOK, SearchOK, TypeOK
<1>6. \E e \in TagCalls : Continue(t, e) /\ SearchOK(e)
  <2>1. ASSUME TryMarker(t), markers[k].ongoing
        PROVE  \E e \in TagCalls : Continue(t, e) /\ SearchOK(e)
    <3> DEFINE e == [c EXCEPT !.at = IF @ = "try" THEN "read" ELSE "done"]
    <3>1. Continue(t, e) /\ c.at \in {"try", "flag"}
      BY <2>1 DEF TryMarker
    <3>2. e \in TagCalls
      BY <1>1 DEF TagCalls
    <3>3. /\ e.at = (IF c.at = "try" THEN "read" ELSE "done") /\ e.chain = c.chain /\ e.id = c.id
          /\ e.allowed = c.allowed /\ e.seen = c.seen /\ e.steady = c.steady
      BY <1>1 DEF TagCalls
    <3> HIDE DEF e, c
    <3>4. SearchOK(e)
      BY <1>1, <1>5, <2>1, <3>1, <3>3 DEF SearchOK, k
    <3> QED
      BY <3>1, <3>2, <3>4
  <2>2. ASSUME TryMarker(t), ~markers[k].ongoing
        PROVE  \E e \in TagCalls : Continue(t, e) /\ SearchOK(e)
    <3> DEFINE e == Missed(c)
    <3>1. Continue(t, e) /\ c.at \in {"try", "flag"}
      BY <2>2, SMTT(30) DEF TryMarker
    <3>2. e \in TagCalls
      BY <1>1, <1>2 DEF TagCalls, Missed
    <3>3. /\ e.at = (IF rest = <<>> THEN "done" ELSE "try") /\ e.chain = rest /\ e.id = 0
          /\ e.allowed = c.allowed /\ e.seen = c.seen /\ e.steady = c.steady
      BY <1>1 DEF TagCalls, Missed
    <3>4. \A s : s = <<>> => Elements(s) = {}
      BY DEF Elements
    <3> HIDE DEF e, c, k, rest
    <3>5. k \notin c.steady /\ c.steady \subseteq Elements(c.chain)
      BY <1>1, <2>2, <3>1 DEF SearchOK
    <3>6. e.steady \subseteq Elements(rest) /\ Elements(rest) \subseteq e.allowed
      BY <1>1, <1>2, <3>3, <3>5 DEF SearchOK
    <3>7. SearchOK(e)
      BY <1>1, <3>3, <3>4, <3>6 DEF SearchOK
    <3> QED
      BY <3>1, <3>2, <3>7
  <2>3. ASSUME ReadMarkerId(t)
        PROVE  \E e \in TagCalls : Continue(t, e) /\ SearchOK(e)
    <3> DEFINE e == [c EXCEPT !.id = markers[k].id, !.at = IF @ = "try" THEN "flag" ELSE "done"]
    <3>1. Continue(t, e) /\ c.at \in {"try", "read"}
      BY <2>3 DEF ReadMarkerId
    <3>2. e \in TagCalls
      BY <1>1, <1>5 DEF TagCalls
    <3>3. /\ e.at = (IF c.at = "try" THEN "flag" ELSE "done") /\ e.chain = c.chain
          /\ e.id = markers[k].id
          /\ e.allowed = c.allowed /\ e.seen = c.seen /\ e.steady = c.steady
      BY <1>1 DEF TagCalls
    <3> HIDE DEF e, c
    <3>4. SearchOK(e)
      BY <1>1, <3>1, <3>3 DEF SearchOK, k
    <3> QED
      BY <3>1, <3>2, <3>4
  <2> QED
    BY <2>1, <2>2, <2>3
<1>7. PICK e \in TagCalls : Continue(t, e) /\ SearchOK(e)
  BY <1>6
<1>8. call' \in [Threads -> Calls] /\ call' = [call EXCEPT ![t] = e]
  BY <1>7, NewCall
<1>9. TypeOK'
  BY <1>3, <1>8 DEF TypeOK, context, driver, history
<1>10. call'[t] = e /\ \A u \in Threads \ {t} : call'[u] = call[u]
  BY <1>8 DEF TypeOK
<1>11. ASSUME NEW u \in Threads, call'[u].op = "tag" PROVE SearchOK(call[u])'
  <2>1. SearchOK(call'[u])
    BY <1>7, <1>10, <1>11 DEF FramesInv
  <2> QED
    BY <1>4, <2>1 DEF SearchOK
<1>12. SameMarkerCalls
  <2>1. e.op = "tag" /\ call[t].op = "tag"
    BY <1>1, <1>7 DEF TagCalls
  <2> QED
    BY <1>10, <2>1 DEF SameMarkerCalls
<1>13. MarkersOK'
  BY <1>4, <1>12, MarkersFrame DEF FramesInv
<1> QED
  BY <1>9, <1>11, <1>13 DEF FramesInv

LEMMA FramesForward ==
  ASSUME TypeOK, FramesInv, NEW t \in Threads,
         \/ \E q \in Queues, work \in Work : QueueNotifyOutOfBand(t, q, work)
         \/ Forward(t) \/ DriverReturns(t)
  PROVE  TypeOK' /\ FramesInv'
<1> USE DEF context, driver, history
<1>1. CASE \E q \in Queues, work \in Work : QueueNotifyOutOfBand(t, q, work)
  <2>1. TypeOK'
    BY <1>1 DEF QueueNotifyOutOfBand, TypeOK
  <2> QED
    BY <1>1, <2>1, FramesFrame DEF QueueNotifyOutOfBand, SameMarkerCalls
<1>2. CASE Forward(t)
  <2> DEFINE c == call[t]
             mine == {i \in 1 .. Len(c.scs) : c.scs[i] = swapchain}
             first == CHOOSE i \in mine : \A j \in mine : i <= j
             ids == IF c.id = 0 \/ mine = {} \/ c.hasIds THEN <<>>
                    ELSE PresentIds(c.scs, first, c.id)
  <2>1. c \in TagCalls
    BY <1>2, CallForms DEF Forward, Answered, TypeOK
  <2>2. Len(c.scs) \in Nat /\ c.scs \in Seq(Swapchains) /\ c.id \in FrameIds \cup {0}
    BY <2>1 DEF TagCalls
  <2>3. ids \in Seq(Nat \cup FrameIds)
    <3> HIDE DEF mine, first
    <3>1. ASSUME c.id # 0 PROVE [<<Len(c.scs)>> EXCEPT ![first] = c.id] \in Seq(Nat \cup FrameIds)
      <4>1. <<Len(c.scs)>> \in [1 .. 1 -> Nat \cup FrameIds]
        BY <2>2
      <4>2. [<<Len(c.scs)>> EXCEPT ![first] = c.id] \in [1 .. 1 -> Nat \cup FrameIds]
        BY <2>2, <3>1, <4>1
      <4> QED
        BY <4>2, SeqDef
    <3>2. <<>> \in Seq(Nat \cup FrameIds)
      OBVIOUS
    <3> QED
      BY <3>1, <3>2 DEF PresentIds
  <2>4. [op |-> "forward", scs |-> c.scs, ids |-> ids] \in ForwardCalls
    <3> HIDE DEF ids
    <3> QED
      BY <2>2, <2>3 DEF ForwardCalls
  <2>5. Continue(t, [op |-> "forward", scs |-> c.scs, ids |-> ids])
    BY <1>2 DEF Forward
  <2>6. /\ call' \in [Threads -> Calls]
        /\ call' = [call EXCEPT ![t] = [op |-> "forward", scs |-> c.scs, ids |-> ids]]
    <3> HIDE DEF ids, c
    <3> QED
      BY <2>4, <2>5, NewCall
  <2>7. \A u \in Threads : call'[u].op = "tag" => call'[u] = call[u]
    <3> HIDE DEF ids, c
    <3> QED
      BY <2>6 DEF TypeOK
  <2>8. UNCHANGED <<context, driver, history>>
    BY <1>2 DEF Forward
  <2>9. SameMarkerCalls
    <3>1. call[t].op = "tag"
      BY <2>1 DEF TagCalls
    <3> HIDE DEF ids, c
    <3> QED
      BY <2>6, <3>1 DEF SameMarkerCalls, TypeOK
  <2> QED
    BY <2>6, <2>7, <2>8, <2>9, FramesFrame DEF TypeOK
<1>3. CASE DriverReturns(t)
  <2>1. call' \in [Threads -> Calls] /\ call' = [call EXCEPT ![t] = Idle]
    BY <1>3, NewCall DEF DriverReturns, Return
  <2>2. \A u \in Threads : call'[u].op = "tag" => call'[u] = call[u]
    BY <2>1 DEF TypeOK, Idle
  <2>3. SameMarkerCalls
    BY <1>3, <2>1 DEF DriverReturns, SameMarkerCalls, TypeOK, Idle
  <2> QED
    BY <1>3, <2>1, <2>2, <2>3, FramesFrame DEF DriverReturns, TypeOK
<1> QED
  BY <1>1, <1>2, <1>3

\* The calls of the other lemmas neither set a marker nor look for a frame.
LEMMA FramesOthers ==
  ASSUME TypeOK, FramesInv,
         \/ \E t \in Threads :
              \/ CreateSwapchain(t) \/ ApplyStoredMode(t) \/ RegisterSwapchain(t) \/ UndoCreate(t)
              \/ (\E s \in Swapchains : DestroySwapchain(t, s)) \/ ForgetSwapchain(t)
              \/ (\E mode \in AppModes : SetLatencySleepMode(t, mode))
              \/ DriverSetSleepMode(t) \/ StoreSleepMode(t)
              \/ LatencySleep(t) \/ DriverSleep(t) \/ SignalSemaphore(t) \/ Wake(t)
         \/ DriverSignals
  PROVE  FramesInv'
<1> USE DEF context, driver, history
<1>1. ASSUME NEW t \in Threads,
             \/ CreateSwapchain(t)
             \/ \E mode \in AppModes : SetLatencySleepMode(t, mode)
      PROVE  FramesInv'
  <2>1. \E c \in CreateCalls \cup SleepModeCalls : StartAlone(t, c)
    <3>1. CASE CreateSwapchain(t)
      <4>1. \A s \in Swapchains :
              [op |-> "create", sc |-> s, at |-> "apply", alone |-> TRUE] \in CreateCalls
        BY DEF CreateCalls
      <4> QED
        BY <3>1, <4>1 DEF CreateSwapchain
    <3>2. ASSUME NEW mode \in AppModes, SetLatencySleepMode(t, mode)
          PROVE  \E c \in CreateCalls \cup SleepModeCalls : StartAlone(t, c)
      <4>1. [op |-> "sleepMode", sc |-> swapchain, mode |-> mode,
             at |-> IF swapchain = NoSwapchain THEN "store" ELSE "driver",
             alone |-> TRUE] \in SleepModeCalls
        BY AppModesAssumption DEF SleepModeCalls, TypeOK, Modes
      <4> QED
        BY <3>2, <4>1 DEF SetLatencySleepMode
    <3> QED
      BY <1>1, <3>1, <3>2
  <2>2. PICK c \in CreateCalls \cup SleepModeCalls : StartAlone(t, c)
    BY <2>1
  <2>3. /\ c.op \in {"create", "sleepMode"}
        /\ call'[t].op = c.op
        /\ \A u \in Threads \ {t} :
             call'[u] = IF call[u].op = Rival[c.op] THEN [call[u] EXCEPT !.alone = FALSE] ELSE call[u]
    <3>1. call'[t] = [c EXCEPT !.alone = \A u \in Threads : call[u].op # Rival[c.op]]
      BY <2>2, StartAloneTyped
    <3> QED
      BY <2>2, <3>1, StartAloneTyped DEF CreateCalls, SleepModeCalls
  <2>4. ASSUME NEW u \in Threads, call[u].op = "marker" \/ call'[u].op \in {"tag", "marker"}
        PROVE  call'[u] = call[u]
    <3>1. u # t
      <4>1. call[t] = Idle
        BY <1>1 DEF CreateSwapchain, SetLatencySleepMode, May
      <4> QED
        BY <2>3, <2>4, <4>1 DEF Idle
    <3>2. CASE call[u].op = Rival[c.op]
      <4>1. call[u] \in CreateCalls \cup SleepModeCalls
        BY <2>3, <3>2, CallForms DEF Rival, TypeOK
      <4>2. call'[u] = [call[u] EXCEPT !.alone = FALSE]
        BY <2>3, <3>1, <3>2
      <4>3. /\ call'[u].op \in {"create", "sleepMode"}
            /\ call[u].op \in {"create", "sleepMode"}
        BY <4>1, <4>2 DEF CreateCalls, SleepModeCalls
      <4> QED
        BY <2>4, <4>3
    <3> QED
      BY <2>3, <3>1, <3>2
  <2> QED
    BY <1>1, <2>4, FramesFrame DEF CreateSwapchain, SetLatencySleepMode, SameMarkerCalls
<1>2. ASSUME NEW t \in Threads,
             \/ ApplyStoredMode(t) \/ RegisterSwapchain(t) \/ UndoCreate(t)
             \/ (\E s \in Swapchains : DestroySwapchain(t, s)) \/ ForgetSwapchain(t)
             \/ DriverSetSleepMode(t) \/ StoreSleepMode(t)
             \/ LatencySleep(t) \/ DriverSleep(t) \/ SignalSemaphore(t) \/ Wake(t)
      PROVE  FramesInv'
  <2>1. \E c : c.op \notin {"tag", "marker"} /\ call' = [call EXCEPT ![t] = c]
    <3>1. CASE ApplyStoredMode(t)
      <4>1. \E at : call' = [call EXCEPT ![t] = [call[t] EXCEPT !.at = at]] /\ call[t].op = "create"
        BY <3>1 DEF ApplyStoredMode, TypeOK
      <4>2. \A at : call[t].op = "create" => [call[t] EXCEPT !.at = at].op = "create"
        BY CallForms DEF CreateCalls, TypeOK
      <4> QED
        BY <4>1, <4>2
    <3>2. CASE DriverSetSleepMode(t)
      <4>1. \/ call' = [call EXCEPT ![t] = Idle]
            \/ \E at : call' = [call EXCEPT ![t] = [call[t] EXCEPT !.at = at]]
        BY <3>2 DEF DriverSetSleepMode, TypeOK, Return, Continue
      <4>2. \A at : [call[t] EXCEPT !.at = at].op \notin {"tag", "marker"}
        BY <3>2, CallForms DEF DriverSetSleepMode, SleepModeCalls, TypeOK
      <4>3. Idle.op \notin {"tag", "marker"}
        BY DEF Idle
      <4> QED
        BY <4>1, <4>2, <4>3
    <3> QED
      BY <1>2, <3>1, <3>2 DEF RegisterSwapchain, UndoCreate, DestroySwapchain, ForgetSwapchain,
         StoreSleepMode, LatencySleep, DriverSleep, SignalSemaphore, Wake, Wait, Return, Continue, Idle
  <2>2. \A u \in Threads : call'[u].op = "tag" => call'[u] = call[u]
    BY <2>1 DEF TypeOK
  <2>3. markers' = markers /\ open' = open
    BY <1>2 DEF ApplyStoredMode, RegisterSwapchain, UndoCreate, DestroySwapchain, ForgetSwapchain,
         DriverSetSleepMode, StoreSleepMode, LatencySleep, DriverSleep, SignalSemaphore, Wake
  <2>4. call[t].op # "marker"
    <3>1. ApplyStoredMode(t) \/ RegisterSwapchain(t) \/ UndoCreate(t) => call[t].op = "create"
      BY DEF ApplyStoredMode, RegisterSwapchain, UndoCreate
    <3>2. DriverSetSleepMode(t) \/ StoreSleepMode(t) => call[t].op = "sleepMode"
      BY DEF DriverSetSleepMode, StoreSleepMode
    <3>3. DriverSleep(t) \/ SignalSemaphore(t) \/ Wake(t) => call[t].op \in {"sleep", "wait"}
      BY DEF DriverSleep, SignalSemaphore, Wake
    <3>4. ForgetSwapchain(t) => call[t].op = "destroy"
      BY DEF ForgetSwapchain
    <3>5. LatencySleep(t) \/ (\E s \in Swapchains : DestroySwapchain(t, s)) => call[t] = Idle
      BY DEF LatencySleep, DestroySwapchain, May
    <3>6. Idle.op = "idle"
      BY DEF Idle
    <3> HIDE DEF context, driver, history
    <3> QED
      BY <1>2, <3>1, <3>2, <3>3, <3>4, <3>5, <3>6
  <2>5. SameMarkerCalls
    <3>1. PICK c : c.op \notin {"tag", "marker"} /\ call' = [call EXCEPT ![t] = c]
      BY <2>1
    <3>2. call'[t].op # "marker" /\ \A u \in Threads \ {t} : call'[u] = call[u]
      BY <3>1 DEF TypeOK
    <3> QED
      BY <2>4, <3>2 DEF SameMarkerCalls
  <2> QED
    BY <2>2, <2>3, <2>5, FramesFrame
<1>3. CASE DriverSignals
  BY <1>3, FramesFrame DEF DriverSignals, SameMarkerCalls
<1> QED
  BY <1>1, <1>2, <1>3

-----------------------------------------------------------------------------

LayerInv == TypeOK /\ FramesInv

LEMMA LayerInvInit == Init => LayerInv
  BY TypingInit, FramesInit DEF LayerInv

LEMMA LayerInvNext == LayerInv /\ [Next]_vars => LayerInv'
<1> SUFFICES ASSUME LayerInv, [Next]_vars PROVE LayerInv'
  OBVIOUS
<1>1. TypeOK /\ FramesInv
  BY DEF LayerInv
<1>2. CASE UNCHANGED vars
  <2>1. TypeOK'
    BY <1>1, <1>2 DEF vars, TypeOK
  <2>2. FramesInv'
    BY <1>1, <1>2, FramesFrame DEF vars, SameMarkerCalls
  <2> QED
    BY <2>1, <2>2 DEF LayerInv
<1>3. CASE DriverSignals
  <2>1. PICK v \in sleeping : semaphore' = v /\ sleeping' = sleeping \ {v}
    BY <1>3 DEF DriverSignals
  <2>2. semaphore' \in 0 .. MaxValue /\ sleeping' \subseteq 1 .. MaxValue
    BY <1>1, <2>1, MaxValueAssumption DEF TypeOK
  <2>3. UNCHANGED <<context, live, sleepMode, history, call>>
    BY <1>3 DEF DriverSignals
  <2>4. TypeOK'
    BY <1>1, <2>2, <2>3 DEF TypeOK, context, history
  <2> QED
    BY <1>1, <1>3, <2>4, FramesOthers DEF LayerInv
<1>4. ASSUME NEW t \in Threads, NEW q \in Queues, QueueSubmit(t, q) PROVE LayerInv'
  <2>1. "render" \in Work /\ <<>> \in Seq(Swapchains)
    BY DEF Work
  <2>2. Tag(t, "render", q, <<>>, FALSE) /\ call[t] = Idle
    BY <1>4 DEF QueueSubmit, May
  <2> QED
    BY <1>1, <2>1, <2>2, FramesTag DEF LayerInv
<1>5. ASSUME NEW t \in Threads, NEW q \in Queues, NEW scs \in SwapchainLists,
             NEW hasIds \in BOOLEAN, QueuePresent(t, q, scs, hasIds)
      PROVE  LayerInv'
  <2>1. scs \in Seq(Swapchains) /\ "present" \in Work
    BY DEF SwapchainLists, Work
  <2>2. Tag(t, "present", q, scs, hasIds) /\ call[t] = Idle
    BY <1>5 DEF QueuePresent, May
  <2> QED
    BY <1>1, <2>1, <2>2, FramesTag DEF LayerInv
<1>6. ASSUME NEW t \in Threads,
             \/ CreateSwapchain(t) \/ ApplyStoredMode(t) \/ RegisterSwapchain(t) \/ UndoCreate(t)
             \/ (\E s \in Swapchains : DestroySwapchain(t, s)) \/ ForgetSwapchain(t)
      PROVE  LayerInv'
  <2>1. TypeOK'
    BY <1>1, <1>6, TypingLifecycle
  <2> QED
    BY <1>1, <1>6, <2>1, FramesOthers DEF LayerInv
<1>7. ASSUME NEW t \in Threads,
             \/ \E mode \in AppModes : SetLatencySleepMode(t, mode)
             \/ DriverSetSleepMode(t) \/ StoreSleepMode(t)
             \/ LatencySleep(t) \/ DriverSleep(t) \/ SignalSemaphore(t) \/ Wake(t)
      PROVE  LayerInv'
  <2>1. TypeOK'
    BY <1>1, <1>7, TypingSleep
  <2> QED
    BY <1>1, <1>7, <2>1, FramesOthers DEF LayerInv
<1>8. ASSUME NEW t \in Threads,
             \/ \E k \in Kinds, id \in FrameIds : StartMarker(t, k, id)
             \/ FinishStart(t)
             \/ \E k \in Kinds : EndMarker(t, k)
      PROVE  LayerInv'
  BY <1>1, <1>8, FramesStart, FramesFinish, FramesEnd DEF LayerInv
<1>9. ASSUME NEW t \in Threads, TryMarker(t) \/ ReadMarkerId(t) PROVE LayerInv'
  BY <1>1, <1>9, FramesTry DEF LayerInv
<1>10. ASSUME NEW t \in Threads,
              \/ \E q \in Queues, work \in Work : QueueNotifyOutOfBand(t, q, work)
              \/ Forward(t) \/ DriverReturns(t)
       PROVE  LayerInv'
  BY <1>1, <1>10, FramesForward DEF LayerInv
<1> QED
  BY <1>2, <1>3, <1>4, <1>5, <1>6, <1>7, <1>8, <1>9, <1>10 DEF Next

(* The state of the layer, the driver and every call is always well typed, *)
(* whatever the threads do.                                                *)
THEOREM LayerTyping == Spec => []TypeOK
<1>1. LayerInv => TypeOK
  BY DEF LayerInv
<1> QED
  BY <1>1, LayerInvInit, LayerInvNext, PTL DEF Spec

(* For any threads, queues, frames and settings, and either order of the   *)
(* two stores and of the two loads: the id GetFrameId answers with is that *)
(* of a frame whose marker was open at some time during the call, or the   *)
(* one that a start overlapping the call was replacing.                    *)
THEOREM InjectedIdsAreOpen == Spec => []InjectedFrameWasOpen
<1>1. LayerInv => InjectedFrameWasOpen
  BY DEF LayerInv, FramesInv, SearchOK, InjectedFrameWasOpen, Answered
<1> QED
  BY <1>1, LayerInvInit, LayerInvNext, PTL DEF Spec

(* GetFrameId answers with no id only if no marker it may use was open for *)
(* the whole call, or a first start of one overlapped it, for any threads, *)
(* queues, frames and settings, and either order of stores and loads.      *)
THEOREM OpenFramesAreInjected == Spec => []OpenFrameIsInjected
<1>1. LayerInv => OpenFrameIsInjected
  BY DEF LayerInv, FramesInv, SearchOK, OpenFrameIsInjected, Answered
<1> QED
  BY <1>1, LayerInvInit, LayerInvNext, PTL DEF Spec

-----------------------------------------------------------------------------
(* Swapchains and the registered one *)

SwapchainCall(c) == c.op \in {"create", "destroy", "sleepMode"}

\* Steps that concern neither swapchains nor sleep modes.
Quiet ==
  /\ UNCHANGED <<swapchain, live, latencySleepModeInfo, sleepMode, newest, raced>>
  /\ \A u \in Threads :
       SwapchainCall(call[u]) \/ SwapchainCall(call'[u]) => call'[u] = call[u]

SwapchainStep(t) ==
  \/ CreateSwapchain(t) \/ ApplyStoredMode(t) \/ RegisterSwapchain(t) \/ UndoCreate(t)
  \/ \E s \in Swapchains : DestroySwapchain(t, s)
  \/ ForgetSwapchain(t)

SleepModeStep(t) ==
  \/ \E mode \in AppModes : SetLatencySleepMode(t, mode)
  \/ DriverSetSleepMode(t) \/ StoreSleepMode(t)

SleepStep(t) == LatencySleep(t) \/ DriverSleep(t) \/ SignalSemaphore(t) \/ Wake(t)

\* Steps of the latency markers, submissions and presents.
FrameStep(t) ==
  \/ \E k \in Kinds, id \in FrameIds : StartMarker(t, k, id)
  \/ FinishStart(t)
  \/ \E k \in Kinds : EndMarker(t, k)
  \/ \E q \in Queues, work \in Work : QueueNotifyOutOfBand(t, q, work)
  \/ \E q \in Queues : QueueSubmit(t, q)
  \/ \E q \in Queues, scs \in SwapchainLists, hasIds \in BOOLEAN : QueuePresent(t, q, scs, hasIds)
  \/ TryMarker(t) \/ ReadMarkerId(t) \/ Forward(t) \/ DriverReturns(t)

\* What they do to a call: one in progress goes on, ends or begins.
FrameCall(u) ==
  \/ call'[u] = call[u]
  \/ /\ call[u].op \in {"idle", "marker", "tag", "forward"}
     /\ call'[u].op \in {"idle", "marker", "tag", "forward"}
     /\ call'[u].op = "forward" => Forward(u)

LEMMA FrameSteps ==
  ASSUME TypeOK, NEW t \in Threads, FrameStep(t)
  PROVE  /\ UNCHANGED <<swapchain, latencySleepModeInfo, driver, newest, raced>>
         /\ \A u \in Threads : FrameCall(u)
<1> USE DEF context, driver, history
<1>1. CASE DriverReturns(t)
  <2>1. call'[t].op = "idle" /\ call[t].op = "forward" /\ \A u \in Threads \ {t} : call'[u] = call[u]
    BY <1>1 DEF DriverReturns, Return, Continue, Idle, TypeOK
  <2> QED
    BY <1>1, <2>1 DEF DriverReturns, FrameCall
<1>2. ASSUME \/ \E k \in Kinds, id \in FrameIds : StartMarker(t, k, id)
             \/ FinishStart(t)
             \/ \E k \in Kinds : EndMarker(t, k),
             NEW u \in Threads
      PROVE  FrameCall(u)
  <2>1. \A v \in Threads : call[v] \in Calls
    BY DEF TypeOK
  <2>2. ASSUME NEW k \in Kinds, NEW id \in FrameIds, StartMarker(t, k, id) PROVE FrameCall(u)
    <3>1. CASE u = t
      <4>1. call[t] = Idle
        BY <2>2 DEF StartMarker
      <4>2. call'[t].op = "marker"
        BY <2>2 DEF StartMarker
      <4> QED
        BY <3>1, <4>1, <4>2 DEF FrameCall, Idle
    <3>2. CASE u # t
      <4>1. call'[u] = WithStart(call[u], k, id)
        BY <2>2, <3>2 DEF StartMarker
      <4> QED
        BY <2>1, <4>1, WitnessTyped DEF FrameCall
    <3> QED
      BY <3>1, <3>2
  <2>3. CASE FinishStart(t)
    <3>1. call[t].op = "marker" /\ call' = [call EXCEPT ![t] = Idle]
      BY <2>3 DEF FinishStart, Return, Continue
    <3> QED
      BY <3>1 DEF FrameCall, Idle, TypeOK
  <2>4. ASSUME NEW k \in Kinds, EndMarker(t, k) PROVE FrameCall(u)
    <3>1. call'[u] = WithEnd(call[u], k)
      BY <2>4 DEF EndMarker
    <3>2. CASE call[u].op = "tag"
      <4>1. call[u] \in TagCalls
        BY <2>1, <3>2, CallForms
      <4>2. call'[u].op = "tag"
        BY <3>1, <3>2, <4>1 DEF WithEnd, TagCalls
      <4> QED
        BY <3>2, <4>2 DEF FrameCall
    <3>3. CASE call[u].op # "tag"
      BY <3>1, <3>3 DEF WithEnd, FrameCall
    <3> QED
      BY <3>2, <3>3
  <2> QED
    BY <1>2, <2>2, <2>3, <2>4
<1>3. ASSUME NEW q \in Queues, NEW work \in Work, QueueNotifyOutOfBand(t, q, work), NEW u \in Threads
      PROVE  FrameCall(u)
  BY <1>3 DEF QueueNotifyOutOfBand, FrameCall
<1>4. ASSUME NEW q \in Queues, NEW work \in Work, NEW scs \in Seq(Swapchains),
             NEW hasIds \in BOOLEAN, call[t] = Idle, Tag(t, work, q, scs, hasIds),
             NEW u \in Threads
      PROVE  FrameCall(u)
  <2>1. PICK c : c.op = "tag" /\ call' = [call EXCEPT ![t] = c]
    BY <1>4, TagTyped DEF TagCalls
  <2> QED
    BY <1>4, <2>1 DEF FrameCall, Idle, TypeOK
<1>5. ASSUME NEW q \in Queues, QueueSubmit(t, q), NEW u \in Threads PROVE FrameCall(u)
  <2>1. "render" \in Work /\ <<>> \in Seq(Swapchains)
    BY DEF Work
  <2>2. call[t] = Idle /\ Tag(t, "render", q, <<>>, FALSE)
    BY <1>5 DEF QueueSubmit, May
  <2> QED
    BY <1>4, <2>1, <2>2
<1>6. ASSUME NEW q \in Queues, NEW scs \in SwapchainLists,
             NEW hasIds \in BOOLEAN, QueuePresent(t, q, scs, hasIds), NEW u \in Threads
      PROVE  FrameCall(u)
  <2>1. scs \in Seq(Swapchains) /\ "present" \in Work
    <3>1. PICK list : list = scs /\ list \in SwapchainLists
      OBVIOUS
    <3>2. list \in Seq(Swapchains)
      BY <3>1 DEF SwapchainLists
    <3> QED
      BY <3>1, <3>2 DEF Work
  <2>2. call[t] = Idle /\ Tag(t, "present", q, scs, hasIds)
    BY <1>6 DEF QueuePresent, May
  <2> QED
    BY <1>4, <2>1, <2>2
<1>7. ASSUME TryMarker(t) \/ ReadMarkerId(t) \/ Forward(t), NEW u \in Threads
      PROVE  FrameCall(u)
  <2>1. call[t] \in TagCalls
    BY <1>7, CallForms DEF TryMarker, ReadMarkerId, Forward, Answered, TypeOK
  <2>2. /\ call'[t].op \in {"tag", "forward"} /\ (call'[t].op = "forward" => Forward(t))
        /\ \A v \in Threads \ {t} : call'[v] = call[v]
    <3>1. CASE TryMarker(t)
      <4>1. \E e : e.op = "tag" /\ Continue(t, e)
        <5>1. Missed(call[t]).op = "tag"
          BY <2>1 DEF Missed, TagCalls
        <5>2. \A at : [call[t] EXCEPT !.at = at].op = "tag"
          BY <2>1 DEF TagCalls
        <5> QED
          BY <3>1, <5>1, <5>2 DEF TryMarker
      <4> QED
        BY <4>1 DEF Continue, TypeOK
    <3>2. CASE ReadMarkerId(t)
      <4>1. \A id, at : [call[t] EXCEPT !.id = id, !.at = at].op = "tag"
        BY <2>1 DEF TagCalls
      <4>2. \E e : e.op = "tag" /\ Continue(t, e)
        BY <3>2, <4>1 DEF ReadMarkerId
      <4> QED
        BY <4>2 DEF Continue, TypeOK
    <3>3. CASE Forward(t)
      <4>1. \E scs, ids : call' = [call EXCEPT ![t] = [op |-> "forward", scs |-> scs, ids |-> ids]]
        BY <3>3 DEF Forward, Continue
      <4>2. call'[t].op = "forward" /\ \A v \in Threads \ {t} : call'[v] = call[v]
        BY <4>1 DEF TypeOK
      <4> QED
        BY <3>3, <4>2
    <3> QED
      BY <1>7, <3>1, <3>2, <3>3
  <2>3. call[t].op = "tag"
    BY <2>1 DEF TagCalls
  <2> QED
    BY <2>2, <2>3 DEF FrameCall
<1>8. UNCHANGED <<swapchain, latencySleepModeInfo, driver, newest, raced>>
  BY DEF FrameStep, StartMarker, FinishStart, EndMarker, QueueNotifyOutOfBand, QueueSubmit,
     QueuePresent, Tag,
     TryMarker, ReadMarkerId, Forward, DriverReturns
<1>9. \A u \in Threads : FrameCall(u)
  <2>1. CASE DriverReturns(t) \/ TryMarker(t) \/ ReadMarkerId(t) \/ Forward(t)
    BY <1>1, <1>7, <2>1
  <2> QED
    BY <1>2, <1>3, <1>5, <1>6, <2>1 DEF FrameStep
<1> QED
  BY <1>8, <1>9

(* A step is one of a swapchain's or of the sleep mode, or is quiet.       *)
LEMMA StepKinds ==
  ASSUME TypeOK, [Next]_vars
  PROVE  Quiet \/ \E t \in Threads : SwapchainStep(t) \/ SleepModeStep(t)
<1> USE DEF context, driver, history
<1>1. ASSUME NEW t \in Threads, SleepStep(t) PROVE Quiet
  <2>1. /\ ~SwapchainCall(call[t]) /\ ~SwapchainCall(call'[t])
        /\ \A u \in Threads \ {t} : call'[u] = call[u]
    BY <1>1 DEF SleepStep, LatencySleep, DriverSleep, SignalSemaphore, Wake, May, Wait, Return,
         Continue, Idle, SwapchainCall, TypeOK
  <2> QED
    BY <1>1, <2>1 DEF SleepStep, LatencySleep, DriverSleep, SignalSemaphore, Wake, Quiet
<1>2. ASSUME NEW t \in Threads, FrameStep(t) PROVE Quiet
  BY <1>2, FrameSteps DEF FrameCall, Quiet, SwapchainCall
<1>3. CASE DriverSignals \/ UNCHANGED vars
  BY <1>3 DEF DriverSignals, vars, Quiet
<1> QED
  BY <1>1, <1>2, <1>3 DEF Next, SwapchainStep, SleepModeStep, SleepStep, FrameStep

Creating(u, s) == call[u].op = "create" /\ call[u].sc = s
Destroying(u, s) == call[u].op = "destroy" /\ call[u].sc = s

\* A swapchain in the middle of its creation exists, no two calls create the same one, and
\* if it is registered it is as the one before that had its handle, which is being
\* destroyed.
SwapchainsInv ==
  /\ \A t \in Threads, s \in Swapchains : Creating(t, s) =>
       /\ s \in live
       /\ \A u \in Threads : Creating(u, s) => u = t
       /\ s = swapchain => InProgress("destroy", s)
  /\ StaleOnlyDuringDestroy

(* How each step changes which swapchains are created and destroyed.       *)
LEMMA CreatingAfterCreate ==
  ASSUME TypeOK, NEW t \in Threads, CreateSwapchain(t)
  PROVE  \E s \in Swapchains \ live, b \in BOOLEAN :
           /\ live' = live \cup {s} /\ sleepMode' = [sleepMode EXCEPT ![s] = "none"]
           /\ b = \A u \in Threads : call[u].op # "sleepMode"
           /\ call'[t] = [op |-> "create", sc |-> s, at |-> "apply", alone |-> b]
           /\ \A u \in Threads \ {t} : call'[u] =
                IF call[u].op = "sleepMode" THEN [call[u] EXCEPT !.alone = FALSE] ELSE call[u]
<1>1. PICK s \in Swapchains \ live :
        /\ live' = live \cup {s}
        /\ sleepMode' = [sleepMode EXCEPT ![s] = "none"]
        /\ StartAlone(t, [op |-> "create", sc |-> s, at |-> "apply", alone |-> TRUE])
  BY DEF CreateSwapchain
<1> DEFINE c == [op |-> "create", sc |-> s, at |-> "apply", alone |-> TRUE]
           b == \A u \in Threads : call[u].op # "sleepMode"
<1>2. c \in CreateCalls /\ Rival[c.op] = "sleepMode"
  BY DEF CreateCalls, Rival
<1>3. /\ call'[t] = [c EXCEPT !.alone = b]
      /\ \A u \in Threads \ {t} : call'[u] =
           IF call[u].op = "sleepMode" THEN [call[u] EXCEPT !.alone = FALSE] ELSE call[u]
  <2> HIDE DEF c
  <2>1. StartAlone(t, c)
    BY <1>1 DEF c
  <2> QED
    BY <1>2, <2>1, StartAloneTyped
<1>4. [c EXCEPT !.alone = b] = [op |-> "create", sc |-> s, at |-> "apply", alone |-> b]
  <2> HIDE DEF b
  <2> QED
    OBVIOUS
<1>5. b \in BOOLEAN
  OBVIOUS
<1> QED
  BY <1>1, <1>3, <1>4, <1>5

LEMMA SleepModeAfterStart ==
  ASSUME TypeOK, NEW t \in Threads, NEW mode \in AppModes, SetLatencySleepMode(t, mode)
  PROVE  \E b \in BOOLEAN :
           /\ b = \A u \in Threads : call[u].op # "create"
           /\ call'[t].op = "sleepMode"
           /\ call'[t].sc = swapchain /\ call'[t].mode = mode /\ call'[t].alone = b
           /\ call'[t].at = IF swapchain = NoSwapchain THEN "store" ELSE "driver"
           /\ \A u \in Threads \ {t} : call'[u] =
                IF call[u].op = "create" THEN [call[u] EXCEPT !.alone = FALSE] ELSE call[u]
<1> DEFINE at == IF swapchain = NoSwapchain THEN "store" ELSE "driver"
           c == [op |-> "sleepMode", sc |-> swapchain, mode |-> mode, at |-> at, alone |-> TRUE]
           b == \A u \in Threads : call[u].op # "create"
<1>1. StartAlone(t, c)
  BY DEF SetLatencySleepMode
<1>2. c \in SleepModeCalls /\ Rival[c.op] = "create"
  BY AppModesAssumption DEF SleepModeCalls, Rival, TypeOK, Modes
<1>3. /\ call'[t] = [c EXCEPT !.alone = b]
      /\ \A u \in Threads \ {t} : call'[u] =
           IF call[u].op = "create" THEN [call[u] EXCEPT !.alone = FALSE] ELSE call[u]
  <2> HIDE DEF c
  <2> QED
    BY <1>1, <1>2, StartAloneTyped
<1>4. [c EXCEPT !.alone = b] =
        [op |-> "sleepMode", sc |-> swapchain, mode |-> mode, at |-> at, alone |-> b]
  <2> HIDE DEF b, at
  <2> QED
    OBVIOUS
<1>5. b \in BOOLEAN
  OBVIOUS
<1> QED
  BY <1>3, <1>4, <1>5

(* A step of one thread leaves what the others are doing as it is, but for *)
(* the mark that they are no longer alone.                                 *)
SameCall(u) ==
  /\ call'[u].op = call[u].op
  /\ call'[u].sc = call[u].sc
  /\ call'[u].at = call[u].at
  /\ call'[u].mode = call[u].mode
  /\ SwapchainCall(call[u]) => (call'[u].alone => call[u].alone)

LEMMA OtherCalls ==
  ASSUME TypeOK, NEW t \in Threads, SwapchainStep(t) \/ SleepModeStep(t),
         NEW u \in Threads \ {t}
  PROVE  SameCall(u)
<1>1. ASSUME call'[u] = call[u] PROVE SameCall(u)
  BY <1>1 DEF SameCall
<1>2. ASSUME call[u] \in CreateCalls \cup SleepModeCalls,
             call'[u] = [call[u] EXCEPT !.alone = FALSE]
      PROVE  SameCall(u)
  <2>1. CASE call[u] \in CreateCalls
    BY <1>2, <2>1 DEF CreateCalls, SameCall
  <2>2. CASE call[u] \in SleepModeCalls
    BY <1>2, <2>2 DEF SleepModeCalls, SameCall
  <2> QED
    BY <1>2, <2>1, <2>2
<1>3. call[u] \in Calls
  BY DEF TypeOK
<1>4. CASE CreateSwapchain(t)
  <2>1. call'[u] = IF call[u].op = "sleepMode" THEN [call[u] EXCEPT !.alone = FALSE] ELSE call[u]
    BY <1>4, CreatingAfterCreate
  <2> QED
    BY <1>1, <1>2, <1>3, <2>1, CallForms
<1>5. ASSUME NEW mode \in AppModes, SetLatencySleepMode(t, mode) PROVE SameCall(u)
  <2>1. call'[u] = IF call[u].op = "create" THEN [call[u] EXCEPT !.alone = FALSE] ELSE call[u]
    BY <1>5, SleepModeAfterStart
  <2> QED
    BY <1>1, <1>2, <1>3, <2>1, CallForms
<1>6. CASE ApplyStoredMode(t) \/ DriverSetSleepMode(t)
  <2>1. call'[u] = call[u]
    BY <1>6 DEF ApplyStoredMode, DriverSetSleepMode, Return, Continue, TypeOK
  <2> QED
    BY <1>1, <2>1
<1>7. CASE \/ RegisterSwapchain(t) \/ UndoCreate(t) \/ ForgetSwapchain(t) \/ StoreSleepMode(t)
           \/ \E s \in Swapchains : DestroySwapchain(t, s)
  <2>1. call'[u] = call[u]
    BY <1>7 DEF RegisterSwapchain, UndoCreate, ForgetSwapchain, StoreSleepMode, DestroySwapchain,
       Return, Continue, TypeOK
  <2> QED
    BY <1>1, <2>1
<1> QED
  BY <1>4, <1>5, <1>6, <1>7 DEF SwapchainStep, SleepModeStep

(* What the calling thread of each step was doing and goes on to do.       *)
LEMMA OwnCall ==
  ASSUME TypeOK, NEW t \in Threads
  PROVE  /\ ApplyStoredMode(t) =>
              /\ call[t] \in CreateCalls
              /\ call'[t] = [call[t] EXCEPT !.at = call'[t].at]
              /\ call'[t].op = "create" /\ call'[t].sc = call[t].sc
              /\ call'[t].alone = call[t].alone
         /\ RegisterSwapchain(t) \/ UndoCreate(t) => call[t] \in CreateCalls /\ call'[t] = Idle
         /\ \A s \in Swapchains : DestroySwapchain(t, s) =>
              call[t] = Idle /\ call'[t] = [op |-> "destroy", sc |-> s]
         /\ ForgetSwapchain(t) => call[t] \in DestroyCalls /\ call'[t] = Idle
         /\ DriverSetSleepMode(t) =>
              /\ call[t] \in SleepModeCalls /\ call[t].at = "driver"
              /\ \/ call'[t] = Idle /\ UNCHANGED sleepMode
                 \/ /\ call'[t].op = "sleepMode" /\ call'[t].at = "store"
                    /\ call'[t].sc = call[t].sc /\ call'[t].mode = call[t].mode
                    /\ call'[t].alone = call[t].alone
                    /\ sleepMode' = [sleepMode EXCEPT ![call[t].sc] = call[t].mode]
         /\ StoreSleepMode(t) => call[t] \in SleepModeCalls /\ call'[t] = Idle
<1>1. call[t] \in Calls
  BY DEF TypeOK
<1>2. ASSUME ApplyStoredMode(t)
      PROVE  /\ call[t] \in CreateCalls
             /\ call'[t] = [call[t] EXCEPT !.at = call'[t].at]
             /\ call'[t].op = "create" /\ call'[t].sc = call[t].sc
             /\ call'[t].alone = call[t].alone
  <2>1. call[t] \in CreateCalls
    BY <1>1, <1>2, CallForms DEF ApplyStoredMode
  <2>2. \/ call'[t] = [call[t] EXCEPT !.at = "register"]
        \/ call'[t] = [call[t] EXCEPT !.at = "undo"]
    BY <1>2 DEF ApplyStoredMode, TypeOK
  <2> QED
    BY <2>1, <2>2 DEF CreateCalls
<1>3. ASSUME RegisterSwapchain(t) \/ UndoCreate(t)
      PROVE  call[t] \in CreateCalls /\ call'[t] = Idle
  BY <1>1, <1>3, CallForms DEF RegisterSwapchain, UndoCreate, Return, Continue, TypeOK
<1>4. ASSUME NEW s \in Swapchains, DestroySwapchain(t, s)
      PROVE  call[t] = Idle /\ call'[t] = [op |-> "destroy", sc |-> s]
  BY <1>4 DEF DestroySwapchain, May, Continue, TypeOK
<1>5. ASSUME ForgetSwapchain(t)
      PROVE  call[t] \in DestroyCalls /\ call'[t] = Idle
  BY <1>1, <1>5, CallForms DEF ForgetSwapchain, Return, Continue, TypeOK
<1>6. ASSUME DriverSetSleepMode(t)
      PROVE  /\ call[t] \in SleepModeCalls /\ call[t].at = "driver"
             /\ \/ call'[t] = Idle /\ UNCHANGED sleepMode
                \/ /\ call'[t].op = "sleepMode" /\ call'[t].at = "store"
                   /\ call'[t].sc = call[t].sc /\ call'[t].mode = call[t].mode
                   /\ call'[t].alone = call[t].alone
                   /\ sleepMode' = [sleepMode EXCEPT ![call[t].sc] = call[t].mode]
  <2>1. call[t] \in SleepModeCalls /\ call[t].at = "driver"
    BY <1>1, <1>6, CallForms DEF DriverSetSleepMode
  <2>2. \/ call'[t] = Idle /\ UNCHANGED sleepMode
        \/ /\ call'[t] = [call[t] EXCEPT !.at = "store"]
           /\ sleepMode' = [sleepMode EXCEPT ![call[t].sc] = call[t].mode]
    BY <1>6 DEF DriverSetSleepMode, Return, Continue, TypeOK
  <2> QED
    BY <2>1, <2>2 DEF SleepModeCalls
<1>7. ASSUME StoreSleepMode(t)
      PROVE  call[t] \in SleepModeCalls /\ call'[t] = Idle
  BY <1>1, <1>7, CallForms DEF StoreSleepMode, Return, Continue, TypeOK
<1> QED
  BY <1>2, <1>3, <1>4, <1>5, <1>6, <1>7

LEMMA SwapchainsInvInit == Init => SwapchainsInv
  BY DEF Init, Idle, SwapchainsInv, Creating, StaleOnlyDuringDestroy

LEMMA SwapchainsInvNext == TypeOK /\ SwapchainsInv /\ [Next]_vars => SwapchainsInv'
<1> SUFFICES ASSUME TypeOK, SwapchainsInv, [Next]_vars PROVE SwapchainsInv'
  OBVIOUS
<1> USE SwapchainsAssumption DEF NoSwapchain
<1>1. swapchain \in Swapchains \cup {NoSwapchain}
  BY DEF TypeOK
<1>2. CASE Quiet
  <2>1. \A u \in Threads, s \in Swapchains :
          /\ Creating(u, s)' = Creating(u, s)
          /\ Destroying(u, s)' = Destroying(u, s)
    BY <1>2 DEF Quiet, SwapchainCall, Creating, Destroying
  <2> QED
    BY <1>2, <2>1, <1>1 DEF Quiet, SwapchainsInv, StaleOnlyDuringDestroy, InProgress, Creating,
       Destroying
<1>3. ASSUME NEW t \in Threads, SwapchainStep(t) \/ SleepModeStep(t)
      PROVE  SwapchainsInv'
  <2>1. \A u \in Threads \ {t}, s \in Swapchains :
          /\ Creating(u, s)' <=> Creating(u, s)
          /\ Destroying(u, s)' <=> Destroying(u, s)
    BY <1>3, OtherCalls DEF SameCall, Creating, Destroying
  <2> DEFINE Alive(s) == s \in live \cup {NoSwapchain} \/ \E u \in Threads : Destroying(u, s)
  <2>2. Alive(swapchain)
    BY DEF SwapchainsInv, StaleOnlyDuringDestroy, InProgress, Destroying
  <2>3. ASSUME NEW s \in Swapchains, NEW u \in Threads, Creating(u, s)
        PROVE  /\ s \in live
               /\ \A v \in Threads : Creating(v, s) => v = u
               /\ s = swapchain => \E v \in Threads : Destroying(v, s)
    BY <2>3 DEF SwapchainsInv, InProgress, Destroying
  <2>4. SUFFICES
          /\ \A u \in Threads, s \in Swapchains : Creating(u, s)' =>
               /\ s \in live'
               /\ \A v \in Threads : Creating(v, s)' => v = u
               /\ s = swapchain' => \E v \in Threads : Destroying(v, s)'
          /\ swapchain' \in live' \cup {NoSwapchain}
               \/ \E u \in Threads : Destroying(u, swapchain)'
    BY DEF SwapchainsInv, StaleOnlyDuringDestroy, InProgress, Creating, Destroying
  <2> HIDE DEF Alive
  <2>5. CASE CreateSwapchain(t)
    <3>1. PICK s \in Swapchains \ live :
            /\ live' = live \cup {s}
            /\ call'[t].op = "create" /\ call'[t].sc = s
      <4>1. PICK s \in Swapchains \ live, b \in BOOLEAN :
              /\ live' = live \cup {s}
              /\ call'[t] = [op |-> "create", sc |-> s, at |-> "apply", alone |-> b]
        BY <2>5, CreatingAfterCreate
      <4> QED
        BY <4>1
    <3>2. call[t] = Idle /\ swapchain' = swapchain
      BY <2>5 DEF CreateSwapchain, May, context
    <3>3. \A r \in Swapchains : /\ Creating(t, r)' <=> r = s
                                /\ ~Creating(t, r) /\ ~Destroying(t, r) /\ ~Destroying(t, r)'
      BY <3>1, <3>2 DEF Creating, Destroying, Idle
    <3>4. \A u \in Threads : ~Creating(u, s)
      BY <2>3, <3>1
    <3> QED
      BY <1>1, <2>1, <2>2, <2>3, <2>4, <3>1, <3>2, <3>3, <3>4 DEF Alive
  <2>6. CASE ApplyStoredMode(t)
    <3>1. /\ live' = live /\ swapchain' = swapchain
          /\ call[t].op = "create" /\ call'[t].op = "create" /\ call'[t].sc = call[t].sc
      BY <2>6, OwnCall DEF ApplyStoredMode, context
    <3>2. \A r \in Swapchains : /\ Creating(t, r)' <=> Creating(t, r)
                                /\ ~Destroying(t, r) /\ ~Destroying(t, r)'
      BY <3>1 DEF Creating, Destroying
    <3> QED
      BY <1>1, <2>1, <2>2, <2>3, <2>4, <3>1, <3>2 DEF Alive
  <2>7. CASE RegisterSwapchain(t)
    <3>1. /\ live' = live /\ swapchain' = call[t].sc /\ call[t].sc \in Swapchains
          /\ call[t].op = "create" /\ call'[t] = Idle
      BY <2>7, OwnCall DEF RegisterSwapchain, driver, CreateCalls
    <3>2. \A r \in Swapchains : /\ Creating(t, r) <=> r = swapchain'
                                /\ ~Creating(t, r)'
                                /\ ~Destroying(t, r) /\ ~Destroying(t, r)'
      BY <3>1 DEF Creating, Destroying, Idle
    <3> QED
      BY <2>1, <2>3, <2>4, <3>1, <3>2
  <2>8. CASE UndoCreate(t)
    <3>1. /\ live' = live \ {call[t].sc} /\ swapchain' = swapchain /\ call[t].sc \in Swapchains
          /\ call[t].op = "create" /\ call'[t] = Idle
      BY <2>8, OwnCall DEF UndoCreate, context, CreateCalls
    <3>2. \A r \in Swapchains : /\ Creating(t, r) <=> r = call[t].sc
                                /\ ~Creating(t, r)'
                                /\ ~Destroying(t, r) /\ ~Destroying(t, r)'
      BY <3>1 DEF Creating, Destroying, Idle
    <3>3. \A u \in Threads, r \in Swapchains : Creating(u, r)' =>
            r # call[t].sc /\ Creating(u, r)
      BY <2>1, <2>3, <3>1, <3>2
    <3> QED
      BY <1>1, <2>1, <2>2, <2>3, <2>4, <3>1, <3>2, <3>3 DEF Alive
  <2>9. CASE \E s \in Swapchains : DestroySwapchain(t, s)
    <3> PICK s \in Swapchains : DestroySwapchain(t, s)
      BY <2>9
    <3>1. /\ live' = live \ {s} /\ swapchain' = swapchain
          /\ call[t] = Idle /\ call'[t].op = "destroy" /\ call'[t].sc = s
          /\ \A u \in Threads : ~Creating(u, s)
      <4>1. call[t] = Idle /\ call'[t] = [op |-> "destroy", sc |-> s]
        BY OwnCall
      <4> QED
        BY <4>1 DEF DestroySwapchain, Known, context, Creating
    <3>2. \A r \in Swapchains : /\ ~Creating(t, r) /\ ~Creating(t, r)'
                                /\ ~Destroying(t, r)
                                /\ Destroying(t, r)' <=> r = s
      BY <3>1 DEF Creating, Destroying, Idle
    <3> QED
      BY <1>1, <2>1, <2>2, <2>3, <2>4, <3>1, <3>2 DEF Alive
  <2>10. CASE ForgetSwapchain(t)
    <3>1. /\ live' = live /\ call[t].op = "destroy" /\ call'[t] = Idle
          /\ swapchain' = IF swapchain = call[t].sc THEN NoSwapchain ELSE swapchain
      BY <2>10, OwnCall DEF ForgetSwapchain, driver
    <3>2. \A r \in Swapchains : /\ ~Creating(t, r) /\ ~Creating(t, r)'
                                /\ Destroying(t, r) <=> r = call[t].sc
                                /\ ~Destroying(t, r)'
      BY <3>1 DEF Creating, Destroying, Idle
    <3> QED
      BY <1>1, <2>1, <2>2, <2>3, <2>4, <3>1, <3>2 DEF Alive
  <2>11. CASE \E mode \in AppModes : SetLatencySleepMode(t, mode)
    <3> PICK mode \in AppModes : SetLatencySleepMode(t, mode)
      BY <2>11
    <3>1. /\ live' = live /\ swapchain' = swapchain
          /\ call[t] = Idle /\ call'[t].op = "sleepMode"
      <4>1. call'[t].op = "sleepMode"
        BY SleepModeAfterStart
      <4> QED
        BY <4>1 DEF SetLatencySleepMode, May, context, driver
    <3>2. \A r \in Swapchains : /\ ~Creating(t, r) /\ ~Creating(t, r)'
                                /\ ~Destroying(t, r) /\ ~Destroying(t, r)'
      BY <3>1 DEF Creating, Destroying, Idle
    <3> QED
      BY <1>1, <2>1, <2>2, <2>3, <2>4, <3>1, <3>2 DEF Alive
  <2>12. CASE DriverSetSleepMode(t) \/ StoreSleepMode(t)
    <3>1. /\ live' = live /\ swapchain' = swapchain
          /\ call[t].op = "sleepMode" /\ call'[t].op \in {"sleepMode", "idle"}
      <4>1. call'[t] = Idle \/ call'[t].op = "sleepMode"
        BY <2>12, OwnCall
      <4> QED
        BY <2>12, <4>1 DEF DriverSetSleepMode, StoreSleepMode, context, driver, Idle
    <3>2. \A r \in Swapchains : /\ ~Creating(t, r) /\ ~Creating(t, r)'
                                /\ ~Destroying(t, r) /\ ~Destroying(t, r)'
      BY <3>1 DEF Creating, Destroying, Idle
    <3> QED
      BY <1>1, <2>1, <2>2, <2>3, <2>4, <3>1, <3>2 DEF Alive
  <2> QED
    BY <1>3, <2>5, <2>6, <2>7, <2>8, <2>9, <2>10, <2>11, <2>12 DEF SwapchainStep, SleepModeStep
<1> QED
  BY <1>2, <1>3, StepKinds

(* For any threads and swapchains, with creations, destructions and their  *)
(* undoing interleaved in any way and handles used again: the layer's      *)
(* swapchain is one that exists, or the call that destroys it has not      *)
(* returned.                                                               *)
THEOREM RegisteredIsAlive == Spec => []StaleOnlyDuringDestroy
<1>1. SwapchainsInv => StaleOnlyDuringDestroy
  BY DEF SwapchainsInv
<1> QED
  BY <1>1, SwapchainsInvInit, SwapchainsInvNext, LayerTyping, PTL DEF Spec

-----------------------------------------------------------------------------
(* Who calls what *)

Owned == \A u \in Threads : SwapchainCall(call[u]) => call[u].op \in Does[u]

LEMMA OwnedInit == Init => Owned
  BY DEF Init, Idle, Owned, SwapchainCall

(* A thread is in the middle of a call only if it makes such calls.        *)
LEMMA OwnedNext == TypeOK /\ Owned /\ [Next]_vars => Owned'
<1> SUFFICES ASSUME TypeOK, Owned, [Next]_vars PROVE Owned'
  OBVIOUS
<1>1. CASE Quiet
  BY <1>1 DEF Quiet, Owned
<1>2. ASSUME NEW t \in Threads, SwapchainStep(t) \/ SleepModeStep(t) PROVE Owned'
  <2>1. \A u \in Threads \ {t} : call'[u].op = call[u].op
    BY <1>2, OtherCalls DEF SameCall
  <2>2. SwapchainCall(call'[t]) => call'[t].op \in Does[t]
    <3>1. CASE CreateSwapchain(t)
      <4>1. PICK s \in Swapchains \ live, b \in BOOLEAN :
              call'[t] = [op |-> "create", sc |-> s, at |-> "apply", alone |-> b]
        BY <3>1, CreatingAfterCreate
      <4> QED
        BY <3>1, <4>1 DEF CreateSwapchain, May
    <3>2. ASSUME NEW s \in Swapchains, DestroySwapchain(t, s)
          PROVE  SwapchainCall(call'[t]) => call'[t].op \in Does[t]
      <4>1. call'[t] = [op |-> "destroy", sc |-> s]
        BY <3>2, OwnCall
      <4> QED
        BY <3>2, <4>1 DEF DestroySwapchain, May
    <3>3. ASSUME NEW mode \in AppModes, SetLatencySleepMode(t, mode)
          PROVE  SwapchainCall(call'[t]) => call'[t].op \in Does[t]
      <4>1. call'[t].op = "sleepMode"
        BY <3>3, SleepModeAfterStart
      <4> QED
        BY <3>3, <4>1 DEF SetLatencySleepMode, May
    <3>4. CASE \/ ApplyStoredMode(t) \/ RegisterSwapchain(t) \/ UndoCreate(t)
               \/ ForgetSwapchain(t) \/ DriverSetSleepMode(t) \/ StoreSleepMode(t)
      <4>1. call'[t] = Idle \/ call'[t].op = call[t].op
        BY <3>4, OwnCall DEF CreateCalls, SleepModeCalls
      <4> QED
        BY <4>1 DEF Owned, SwapchainCall, Idle
    <3> QED
      BY <1>2, <3>1, <3>2, <3>3, <3>4 DEF SwapchainStep, SleepModeStep
  <2> QED
    BY <2>1, <2>2 DEF Owned, SwapchainCall
<1> QED
  BY <1>1, <1>2, StepKinds

-----------------------------------------------------------------------------
(* The newest swapchain *)

\* The application creates and destroys swapchains from one thread.
OneOwner == \A t, u \in Threads : "create" \in Does[t] /\ "destroy" \in Does[u] => t = u

NewestInv ==
  /\ TypeOK /\ SwapchainsInv /\ Owned
  /\ \A u \in Threads, s \in Swapchains : Destroying(u, s) => s \notin live
  /\ NewestIsRegistered

\* A swapchain being created is not the registered one, and none is destroyed meanwhile.
LEMMA CreatingIsNotRegistered ==
  ASSUME OneOwner, SwapchainsInv, Owned, NEW u \in Threads, NEW s \in Swapchains, Creating(u, s)
  PROVE  s # swapchain /\ \A v \in Threads : call[v].op # "destroy"
<1>1. \A v \in Threads : call[v].op # "destroy"
  BY DEF OneOwner, Owned, SwapchainCall, Creating
<1> QED
  BY <1>1 DEF SwapchainsInv, InProgress

LEMMA NewestInvInit == Init => NewestInv
<1> SUFFICES ASSUME Init PROVE NewestInv
  OBVIOUS
<1>1. TypeOK /\ SwapchainsInv /\ Owned
  BY LayerInvInit, SwapchainsInvInit, OwnedInit DEF LayerInv
<1> QED
  BY <1>1, SwapchainsAssumption DEF Init, Idle, NewestInv, NewestIsRegistered, Destroying

LEMMA NewestInvNext ==
  ASSUME OneOwner
  PROVE  NewestInv /\ TypeOK' /\ [Next]_vars => NewestInv'
<1> SUFFICES ASSUME TypeOK, SwapchainsInv, Owned, NewestInv, TypeOK', [Next]_vars
             PROVE  NewestInv'
  BY DEF NewestInv
<1>1. TypeOK' /\ SwapchainsInv' /\ Owned'
  BY SwapchainsInvNext, OwnedNext
<1>2. live \subseteq Swapchains
  BY DEF TypeOK
<1> DEFINE Dead(u) == \A s \in Swapchains : Destroying(u, s) => s \notin live
           InCreation == \E u \in Threads : Creating(u, newest)
<1>3. \A u \in Threads : Dead(u)
  BY DEF NewestInv
<1>4. newest \in live /\ ~InCreation => swapchain = newest
  BY DEF NewestInv, NewestIsRegistered, InProgress, Creating
<1>5. SUFFICES /\ \A u \in Threads : Dead(u)'
               /\ newest' \in live' /\ ~InCreation' => swapchain' = newest'
  BY <1>1 DEF NewestInv, NewestIsRegistered, InProgress, Creating
<1>6. CASE Quiet
  <2>1. \A u \in Threads, s \in Swapchains :
          /\ Creating(u, s)' = Creating(u, s)
          /\ Destroying(u, s)' = Destroying(u, s)
    BY <1>6 DEF Quiet, SwapchainCall, Creating, Destroying
  <2>2. newest' = newest /\ live' = live /\ swapchain' = swapchain
    BY <1>6 DEF Quiet
  <2>3. newest \in live => (InCreation' <=> InCreation)
    BY <1>2, <2>1, <2>2
  <2> QED
    BY <1>3, <1>4, <2>1, <2>2, <2>3
<1>7. ASSUME NEW t \in Threads, SwapchainStep(t) \/ SleepModeStep(t)
      PROVE  /\ \A u \in Threads : Dead(u)'
             /\ newest' \in live' /\ ~InCreation' => swapchain' = newest'
  <2>1. \A u \in Threads \ {t}, s \in Swapchains :
          /\ Creating(u, s)' <=> Creating(u, s)
          /\ Destroying(u, s)' <=> Destroying(u, s)
    BY <1>7, OtherCalls DEF SameCall, Creating, Destroying
  <2>3. CASE CreateSwapchain(t)
    <3>1. PICK s \in Swapchains \ live, b \in BOOLEAN :
            /\ live' = live \cup {s}
            /\ call'[t] = [op |-> "create", sc |-> s, at |-> "apply", alone |-> b]
      BY <2>3, CreatingAfterCreate
    <3>2. /\ call[t] = Idle /\ call'[t].op = "create" /\ call'[t].sc = s
          /\ swapchain' = swapchain /\ newest' = newest
      BY <2>3, <3>1 DEF CreateSwapchain, May, context, history
    <3>3. \A r \in Swapchains : /\ Creating(t, r)' <=> r = s
                                /\ ~Creating(t, r)
      BY <3>2 DEF Creating, Idle
    <3>4. \A u \in Threads, r \in Swapchains : ~Destroying(u, r)'
      BY <1>1, <3>3, CreatingIsNotRegistered, <3>2 DEF Owned, SwapchainCall, OneOwner, Destroying
    <3> QED
      BY <1>2, <1>4, <2>1, <3>1, <3>2, <3>3, <3>4
  <2>4. CASE ApplyStoredMode(t)
    <3>1. /\ live' = live /\ swapchain' = swapchain /\ newest' = newest
          /\ call[t].op = "create" /\ call'[t].op = "create" /\ call'[t].sc = call[t].sc
      BY <2>4, OwnCall DEF ApplyStoredMode, context, history
    <3>2. \A r \in Swapchains : /\ Creating(t, r)' <=> Creating(t, r)
                                /\ ~Destroying(t, r)'
      BY <3>1 DEF Creating, Destroying
    <3> QED
      BY <1>3, <1>2, <1>4, <2>1, <3>1, <3>2
  <2>5. CASE RegisterSwapchain(t)
    <3>1. live' = live /\ swapchain' = newest' /\ call'[t] = Idle
      BY <2>5, OwnCall DEF RegisterSwapchain, driver
    <3>2. \A r \in Swapchains : ~Destroying(t, r)'
      BY <3>1 DEF Destroying, Idle
    <3> QED
      BY <1>3, <2>1, <3>1, <3>2
  <2>6. CASE UndoCreate(t)
    <3>1. /\ live' = live \ {call[t].sc} /\ swapchain' = swapchain /\ newest' = newest
          /\ call'[t] = Idle
      BY <2>6, OwnCall DEF UndoCreate, context, history
    <3>2. \A r \in Swapchains : /\ Creating(t, r) => r = call[t].sc
                                /\ ~Destroying(t, r)'
      BY <3>1 DEF Creating, Destroying, Idle
    <3> QED
      BY <1>3, <1>2, <1>4, <2>1, <3>1, <3>2
  <2>7. CASE \E s \in Swapchains : DestroySwapchain(t, s)
    <3> PICK s \in Swapchains : DestroySwapchain(t, s)
      BY <2>7
    <3>1. call[t] = Idle /\ call'[t] = [op |-> "destroy", sc |-> s]
      BY OwnCall
    <3>2. live' = live \ {s} /\ swapchain' = swapchain /\ newest' = newest
      BY DEF DestroySwapchain, context, history
    <3>3. \A r \in Swapchains : /\ ~Creating(t, r)
                                /\ Destroying(t, r)' => r = s
      BY <3>1 DEF Creating, Destroying, Idle
    <3> QED
      BY <1>3, <1>2, <1>4, <2>1, <3>2, <3>3
  <2>8. CASE ForgetSwapchain(t)
    <3>1. /\ live' = live /\ newest' = newest
          /\ call[t].op = "destroy" /\ call[t].sc \in Swapchains /\ call'[t] = Idle
          /\ swapchain' = IF swapchain = call[t].sc THEN NoSwapchain ELSE swapchain
      BY <2>8, OwnCall DEF ForgetSwapchain, driver, history, DestroyCalls
    <3>2. \A r \in Swapchains : /\ ~Creating(t, r)
                                /\ Destroying(t, r) <=> r = call[t].sc
                                /\ ~Destroying(t, r)'
      BY <3>1 DEF Creating, Destroying, Idle
    <3> QED
      BY <1>3, <1>2, <1>4, <2>1, <3>1, <3>2
  <2>9. CASE SleepModeStep(t)
    <3>1. /\ live' = live /\ swapchain' = swapchain /\ newest' = newest
      BY <2>9 DEF SleepModeStep, SetLatencySleepMode, DriverSetSleepMode, StoreSleepMode,
         context, driver, history
    <3>2. call[t].op \notin {"create", "destroy"} /\ call'[t].op \notin {"create", "destroy"}
      <4>1. CASE DriverSetSleepMode(t) \/ StoreSleepMode(t)
        <5>1. call'[t] = Idle \/ call'[t].op = "sleepMode"
          BY <4>1, OwnCall
        <5> QED
          BY <4>1, <5>1 DEF DriverSetSleepMode, StoreSleepMode, Idle
      <4>2. ASSUME NEW mode \in AppModes, SetLatencySleepMode(t, mode)
            PROVE  call[t] = Idle /\ call'[t].op = "sleepMode"
        BY <4>2, SleepModeAfterStart DEF SetLatencySleepMode, May
      <4> QED
        BY <2>9, <4>1, <4>2 DEF SleepModeStep, Idle
    <3>3. \A r \in Swapchains : /\ ~Creating(t, r) /\ ~Creating(t, r)'
                                /\ ~Destroying(t, r) /\ ~Destroying(t, r)'
      BY <3>2 DEF Creating, Destroying
    <3> QED
      BY <1>3, <1>2, <1>4, <2>1, <3>1, <3>3
  <2> QED
    BY <1>7, <2>3, <2>4, <2>5, <2>6, <2>7, <2>8, <2>9 DEF SwapchainStep
<1> QED
  BY <1>6, <1>7, StepKinds

(* If one thread creates and destroys the swapchains, latency calls go to  *)
(* the newest one as long as it exists, whatever the driver refuses and    *)
(* whichever handles it uses again.                                        *)
THEOREM LatencyCallsFollowTheNewest ==
  ASSUME OneOwner
  PROVE  Spec => []NewestIsRegistered
<1>1. NewestInv => NewestIsRegistered
  BY DEF NewestInv
<1> QED
  BY <1>1, NewestInvInit, NewestInvNext, LayerTyping, PTL DEF Spec

-----------------------------------------------------------------------------
(* The sleep mode of the registered swapchain *)

\* DXVK-NVAPI's own low latency device sets the sleep mode under its lock.
OneSetter == \A t, u \in Threads : "sleepMode" \in Does[t] /\ "sleepMode" \in Does[u] => t = u

\* A creation and a change of the sleep mode that overlap both know.
OverlapsKnown ==
  \A t, u \in Threads : call[t].op = "create" /\ call[u].op = "sleepMode" =>
    ~call[t].alone /\ ~call[u].alone

\* A creation alone: the new swapchain has no sleep mode, then the stored one.
CreationInv ==
  \A t \in Threads : call[t].op = "create" /\ call[t].alone =>
    /\ call[t].at = "apply" => sleepMode[call[t].sc] = "none"
    /\ call[t].at = "register" => sleepMode[call[t].sc] = latencySleepModeInfo

\* A change alone: the registered swapchain is the one that was read, or was destroyed;
\* before the mode is stored the driver has it.
ChangeInv ==
  \A t \in Threads : call[t].op = "sleepMode" /\ call[t].alone =>
    /\ swapchain \in {call[t].sc, NoSwapchain}
    /\ call[t].at = "store" /\ swapchain \in live => sleepMode[swapchain] = call[t].mode

SleepModeInv ==
  /\ NewestInv
  /\ OverlapsKnown /\ CreationInv /\ ChangeInv
  /\ SleepModeReachesSwapchain

LEMMA SleepModeInvInit == Init => SleepModeInv
<1> SUFFICES ASSUME Init PROVE SleepModeInv
  OBVIOUS
<1>1. NewestInv
  BY NewestInvInit
<1> QED
  BY <1>1 DEF Init, Idle, SleepModeInv, OverlapsKnown, CreationInv, ChangeInv,
     SleepModeReachesSwapchain

LEMMA OverlapsKnownNext ==
  ASSUME TypeOK, TypeOK', OverlapsKnown, [Next]_vars
  PROVE  OverlapsKnown'
<1>1. CASE Quiet
  BY <1>1 DEF Quiet, SwapchainCall, OverlapsKnown
<1>2. ASSUME NEW t \in Threads, SwapchainStep(t) \/ SleepModeStep(t) PROVE OverlapsKnown'
  <2>1. \A u \in Threads \ {t} : SameCall(u)
    BY <1>2, OtherCalls
  <2>2. CASE CreateSwapchain(t)
    <3>1. PICK s \in Swapchains \ live, b \in BOOLEAN :
            /\ b = \A u \in Threads : call[u].op # "sleepMode"
            /\ call'[t] = [op |-> "create", sc |-> s, at |-> "apply", alone |-> b]
            /\ \A u \in Threads \ {t} : call'[u] =
                 IF call[u].op = "sleepMode" THEN [call[u] EXCEPT !.alone = FALSE] ELSE call[u]
      BY <2>2, CreatingAfterCreate
    <3>2. ASSUME NEW u \in Threads, call'[u].op = "sleepMode"
          PROVE  ~call'[u].alone /\ ~call'[t].alone
      <4>1. u # t
        BY <3>1, <3>2
      <4>2. call[u].op = "sleepMode"
        BY <2>1, <3>2, <4>1 DEF SameCall
      <4>3. call[u] \in SleepModeCalls
        BY <4>2, CallForms DEF TypeOK
      <4>4. call'[u] = [call[u] EXCEPT !.alone = FALSE]
        BY <3>1, <4>1, <4>2
      <4> QED
        BY <3>1, <4>2, <4>3, <4>4 DEF SleepModeCalls
    <3> QED
      BY <2>1, <3>1, <3>2 DEF OverlapsKnown, SameCall, SwapchainCall
  <2>3. CASE \E mode \in AppModes : SetLatencySleepMode(t, mode)
    <3> PICK mode \in AppModes : SetLatencySleepMode(t, mode)
      BY <2>3
    <3>1. /\ call'[t].op = "sleepMode"
          /\ call'[t].alone = \A u \in Threads : call[u].op # "create"
          /\ \A u \in Threads \ {t} : call'[u] =
               IF call[u].op = "create" THEN [call[u] EXCEPT !.alone = FALSE] ELSE call[u]
      BY SleepModeAfterStart, Zenon
    <3>2. ASSUME NEW u \in Threads, call'[u].op = "create"
          PROVE  ~call'[u].alone /\ ~call'[t].alone
      <4>1. u # t
        BY <3>1, <3>2
      <4>2. call[u].op = "create"
        BY <2>1, <3>2, <4>1 DEF SameCall
      <4>3. call[u] \in CreateCalls
        BY <4>2, CallForms DEF TypeOK
      <4>4. call'[u] = [call[u] EXCEPT !.alone = FALSE]
        BY <3>1, <4>1, <4>2
      <4> QED
        BY <3>1, <4>2, <4>3, <4>4 DEF CreateCalls
    <3>3. call'[t].op = "sleepMode"
      BY <3>1
    <3> QED
      BY <2>1, <3>2, <3>3 DEF OverlapsKnown, SameCall, SwapchainCall
  <2>4. CASE \/ ApplyStoredMode(t) \/ RegisterSwapchain(t) \/ UndoCreate(t)
             \/ ForgetSwapchain(t) \/ DriverSetSleepMode(t) \/ StoreSleepMode(t)
             \/ \E s \in Swapchains : DestroySwapchain(t, s)
    <3>1. \/ call'[t].op \notin {"create", "sleepMode"}
          \/ /\ call'[t].op = call[t].op /\ call'[t].alone = call[t].alone
      <4>1. CASE \E s \in Swapchains : DestroySwapchain(t, s)
        <5>1. PICK s \in Swapchains : call'[t] = [op |-> "destroy", sc |-> s]
          BY <4>1, OwnCall
        <5> QED
          BY <5>1
      <4>2. CASE \/ RegisterSwapchain(t) \/ UndoCreate(t) \/ ForgetSwapchain(t)
                 \/ StoreSleepMode(t)
        <5>1. call'[t] = Idle
          BY <4>2, OwnCall
        <5> QED
          BY <5>1 DEF Idle
      <4>3. CASE ApplyStoredMode(t)
        <5>1. call[t] \in CreateCalls /\ call'[t].op = "create" /\ call'[t].alone = call[t].alone
          BY <4>3, OwnCall
        <5> QED
          BY <5>1 DEF CreateCalls
      <4>4. CASE DriverSetSleepMode(t)
        <5>1. /\ call[t] \in SleepModeCalls
              /\ \/ call'[t] = Idle
                 \/ call'[t].op = "sleepMode" /\ call'[t].alone = call[t].alone
          BY <4>4, OwnCall
        <5> QED
          BY <5>1 DEF SleepModeCalls, Idle
      <4> QED
        BY <2>4, <4>1, <4>2, <4>3, <4>4
    <3> QED
      BY <2>1, <3>1 DEF OverlapsKnown, SameCall, SwapchainCall
  <2> QED
    BY <1>2, <2>2, <2>3, <2>4 DEF SwapchainStep, SleepModeStep
<1> QED
  BY <1>1, <1>2, StepKinds

LEMMA SleepModeInvNext ==
  ASSUME OneOwner, OneSetter
  PROVE  SleepModeInv /\ TypeOK' /\ [Next]_vars => SleepModeInv'
<1> SUFFICES ASSUME SleepModeInv, TypeOK, TypeOK', [Next]_vars PROVE SleepModeInv'
  BY DEF SleepModeInv, NewestInv
<1>1. /\ NewestInv' /\ OverlapsKnown'
      /\ SwapchainsInv /\ Owned /\ OverlapsKnown
  BY NewestInvNext, OverlapsKnownNext DEF SleepModeInv, NewestInv
<1>2. /\ live \subseteq Swapchains /\ sleepMode \in [Swapchains -> Modes]
      /\ NoSwapchain \notin Swapchains
      /\ \A u \in Threads : call[u] \in Calls
  BY SwapchainsAssumption DEF TypeOK, NoSwapchain
\* What the invariant says of one thread, with the names of its call's fields.
<1> DEFINE Made(u) == call[u].op = "create" /\ call[u].alone =>
              /\ call[u].at = "apply" => sleepMode[call[u].sc] = "none"
              /\ call[u].at = "register" => sleepMode[call[u].sc] = latencySleepModeInfo
           Changed(u) == call[u].op = "sleepMode" /\ call[u].alone =>
              /\ swapchain \in {call[u].sc, NoSwapchain}
              /\ call[u].at = "store" /\ swapchain \in live => sleepMode[swapchain] = call[u].mode
           NoStore == \A u \in Threads : call[u].op = "sleepMode" => call[u].at # "store"
           Reached == ~raced /\ swapchain \in live /\ NoStore
                        => sleepMode[swapchain] = latencySleepModeInfo
<1>3. /\ \A u \in Threads : Made(u) /\ Changed(u)
      /\ Reached
  BY DEF SleepModeInv, CreationInv, ChangeInv, SleepModeReachesSwapchain
<1>4. SUFFICES (\A u \in Threads : Made(u)' /\ Changed(u)') /\ Reached'
  BY <1>1 DEF SleepModeInv, CreationInv, ChangeInv, SleepModeReachesSwapchain
<1>5. \A u, v \in Threads : call[u].op = "create" =>
        /\ call[u].sc \in live /\ call[u].sc # swapchain
        /\ call[v].op = "create" /\ call[v].sc = call[u].sc => v = u
  <2> SUFFICES ASSUME NEW u \in Threads, NEW v \in Threads, call[u].op = "create"
               PROVE  /\ call[u].sc \in live /\ call[u].sc # swapchain
                      /\ call[v].op = "create" /\ call[v].sc = call[u].sc => v = u
    OBVIOUS
  <2>1. call[u].sc \in Swapchains
    BY <1>2, CallForms DEF CreateCalls
  <2>2. Creating(u, call[u].sc)
    BY DEF Creating
  <2> QED
    BY <1>1, <2>1, <2>2, CreatingIsNotRegistered DEF SwapchainsInv, Creating
<1>6. \A u, v \in Threads : call[u].op = "sleepMode" /\ call[v].op = "sleepMode" => u = v
  BY <1>1 DEF OneSetter, Owned, SwapchainCall
<1>7. CASE Quiet
  BY <1>3, <1>4, <1>7 DEF Quiet, SwapchainCall
<1>8. ASSUME NEW t \in Threads, SwapchainStep(t) \/ SleepModeStep(t)
      PROVE  (\A u \in Threads : Made(u)' /\ Changed(u)') /\ Reached'
  <2>1. \A u \in Threads \ {t} :
          /\ call'[u].op = call[u].op /\ call'[u].sc = call[u].sc
          /\ call'[u].at = call[u].at /\ call'[u].mode = call[u].mode
          /\ SwapchainCall(call[u]) => (call'[u].alone => call[u].alone)
    BY <1>8, OtherCalls DEF SameCall
  <2>2. CASE CreateSwapchain(t)
    <3>1. PICK s \in Swapchains \ live, b \in BOOLEAN :
            /\ live' = live \cup {s} /\ sleepMode' = [sleepMode EXCEPT ![s] = "none"]
            /\ call'[t] = [op |-> "create", sc |-> s, at |-> "apply", alone |-> b]
      BY <2>2, CreatingAfterCreate
    <3>2. /\ call[t] = Idle /\ "create" \in Does[t]
          /\ call'[t].op = "create" /\ call'[t].sc = s /\ call'[t].at = "apply"
          /\ UNCHANGED <<swapchain, latencySleepModeInfo, raced>>
      BY <2>2, <3>1 DEF CreateSwapchain, May, context, history
    <3>3. s # swapchain
      <4> SUFFICES ASSUME s = swapchain PROVE FALSE
        OBVIOUS
      <4>1. PICK v \in Threads : call[v].op = "destroy"
        BY <1>1, <1>2, <3>1 DEF SwapchainsInv, StaleOnlyDuringDestroy, InProgress
      <4>2. "destroy" \in Does[v]
        BY <1>1, <4>1 DEF Owned, SwapchainCall
      <4> QED
        BY <3>2, <4>1, <4>2 DEF OneOwner, Idle
    <3>4. \A u \in Threads : Made(u)'
      BY <1>2, <1>3, <1>5, <2>1, <3>1, <3>2 DEF SwapchainCall
    <3>5. \A u \in Threads : Changed(u)'
      BY <1>1, <3>2 DEF OverlapsKnown
    <3>6. NoStore' => NoStore
      BY <2>1, <3>2 DEF Idle
    <3> QED
      BY <1>2, <1>3, <3>1, <3>2, <3>3, <3>4, <3>5, <3>6
  <2>3. CASE ApplyStoredMode(t)
    <3>1. /\ call[t].op = "create" /\ call[t].at = "apply"
          /\ call'[t].op = "create" /\ call'[t].sc = call[t].sc /\ call'[t].alone = call[t].alone
          /\ UNCHANGED <<swapchain, latencySleepModeInfo, raced, live>>
      BY <2>3, OwnCall DEF ApplyStoredMode, context, history
    <3>2. \/ /\ latencySleepModeInfo = "none" /\ UNCHANGED sleepMode
             /\ call'[t].at = "register"
          \/ /\ sleepMode' = [sleepMode EXCEPT ![call[t].sc] = latencySleepModeInfo]
             /\ call'[t].at = "register"
          \/ call'[t].at = "undo" /\ UNCHANGED sleepMode
      <4>1. \A at : [call[t] EXCEPT !.at = at].at = at
        BY <2>3, OwnCall DEF CreateCalls
      <4>2. \/ /\ latencySleepModeInfo = "none" /\ UNCHANGED sleepMode
               /\ call'[t] = [call[t] EXCEPT !.at = "register"]
            \/ /\ sleepMode' = [sleepMode EXCEPT ![call[t].sc] = latencySleepModeInfo]
               /\ call'[t] = [call[t] EXCEPT !.at = "register"]
            \/ call'[t] = [call[t] EXCEPT !.at = "undo"] /\ UNCHANGED sleepMode
        BY <2>3 DEF ApplyStoredMode, TypeOK
      <4> QED
        BY <4>1, <4>2
    <3>3. call[t].sc \in Swapchains /\ call[t].sc # swapchain
      BY <1>2, <1>5, <3>1
    <3>4. \A u \in Threads : Made(u)'
      <4>1. Made(t)'
        BY <1>2, <1>3, <3>1, <3>2, <3>3
      <4>2. ASSUME NEW u \in Threads \ {t} PROVE Made(u)'
        <5>1. call[u].op = "create" => sleepMode'[call[u].sc] = sleepMode[call[u].sc]
          BY <1>2, <1>5, <3>1, <3>2, <3>3
        <5> QED
          BY <1>3, <2>1, <3>1, <5>1 DEF SwapchainCall
      <4> QED
        BY <4>1, <4>2
    <3>5. \A u \in Threads : Changed(u)'
      BY <1>1, <3>1 DEF OverlapsKnown
    <3>6. NoStore' => NoStore
      BY <2>1, <3>1
    <3> QED
      BY <1>2, <1>3, <3>1, <3>2, <3>3, <3>4, <3>5, <3>6
  <2>4. CASE RegisterSwapchain(t)
    <3>1. /\ call[t].op = "create" /\ call[t].at = "register" /\ call'[t] = Idle
          /\ swapchain' = call[t].sc /\ raced' = ~call[t].alone
          /\ UNCHANGED <<latencySleepModeInfo, live, sleepMode>>
      BY <2>4, OwnCall DEF RegisterSwapchain, driver
    <3>2. \A u \in Threads : Made(u)'
      BY <1>3, <2>1, <3>1 DEF SwapchainCall, Idle
    <3>3. \A u \in Threads : Changed(u)'
      BY <1>1, <2>1, <3>1 DEF OverlapsKnown, SwapchainCall, Idle
    <3> QED
      BY <1>3, <3>1, <3>2, <3>3
  <2>5. CASE \/ UndoCreate(t) \/ ForgetSwapchain(t)
             \/ \E s \in Swapchains : DestroySwapchain(t, s)
    <3>1. /\ live' \subseteq live /\ UNCHANGED <<latencySleepModeInfo, sleepMode, raced>>
          /\ swapchain' \in {swapchain, NoSwapchain}
      BY <2>5 DEF UndoCreate, ForgetSwapchain, DestroySwapchain, context, driver, history
    <3>2. call[t].op # "sleepMode" /\ call'[t].op \notin {"create", "sleepMode"}
      <4>1. \/ call[t] \in CreateCalls \cup DestroyCalls /\ call'[t] = Idle
            \/ \E s \in Swapchains : call[t] = Idle /\ call'[t] = [op |-> "destroy", sc |-> s]
        BY <2>5, OwnCall
      <4>2. CASE call[t] \in CreateCalls \cup DestroyCalls /\ call'[t] = Idle
        BY <4>2 DEF Idle, CreateCalls, DestroyCalls
      <4>3. ASSUME NEW s \in Swapchains, call[t] = Idle, call'[t] = [op |-> "destroy", sc |-> s]
            PROVE  call[t].op = "idle" /\ call'[t].op = "destroy"
        BY <4>3 DEF Idle
      <4> QED
        BY <4>1, <4>2, <4>3
    <3>3. \A u \in Threads : Made(u)' /\ Changed(u)'
      BY <1>2, <1>3, <2>1, <3>1, <3>2 DEF SwapchainCall
    <3>4. NoStore' => NoStore
      BY <2>1, <3>2
    <3> QED
      BY <1>2, <1>3, <3>1, <3>3, <3>4
  <2>6. CASE \E mode \in AppModes : SetLatencySleepMode(t, mode)
    <3> PICK mode \in AppModes : SetLatencySleepMode(t, mode)
      BY <2>6
    <3>1. /\ call'[t].op = "sleepMode" /\ call'[t].sc = swapchain
          /\ call'[t].at = IF swapchain = NoSwapchain THEN "store" ELSE "driver"
      BY SleepModeAfterStart
    <3>2. /\ call[t] = Idle
          /\ UNCHANGED <<swapchain, latencySleepModeInfo, raced, live, sleepMode>>
      BY DEF SetLatencySleepMode, May, context, driver, history
    <3>3. \A u \in Threads : Made(u)'
      BY <1>1, <3>1 DEF OverlapsKnown
    <3>4. \A u \in Threads : Changed(u)'
      BY <1>2, <1>3, <2>1, <3>1, <3>2 DEF SwapchainCall
    <3>5. NoStore' => NoStore
      BY <2>1, <3>2 DEF Idle
    <3> QED
      BY <1>3, <3>2, <3>3, <3>4, <3>5
  <2>7. CASE DriverSetSleepMode(t)
    <3>1. /\ call[t].op = "sleepMode" /\ call[t].at = "driver"
          /\ UNCHANGED <<swapchain, latencySleepModeInfo, raced, live>>
      BY <2>7 DEF DriverSetSleepMode, context, history
    <3>2. \/ call'[t] = Idle /\ UNCHANGED sleepMode
          \/ /\ call'[t].op = "sleepMode" /\ call'[t].at = "store"
             /\ call'[t].sc = call[t].sc /\ call'[t].mode = call[t].mode
             /\ call'[t].alone = call[t].alone
             /\ sleepMode' = [sleepMode EXCEPT ![call[t].sc] = call[t].mode]
      BY <2>7, OwnCall
    <3>3. \A u \in Threads : Made(u)'
      BY <1>1, <2>1, <3>1, <3>2 DEF OverlapsKnown, SwapchainCall, Idle
    <3>4. \A u \in Threads : Changed(u)'
      <4>1. \A u \in Threads \ {t} : call'[u].op # "sleepMode"
        BY <1>6, <2>1, <3>1
      <4>2. Changed(t)'
        <5>1. CASE call'[t] = Idle
          BY <5>1 DEF Idle
        <5>2. ASSUME call'[t].sc = call[t].sc, call'[t].mode = call[t].mode,
                     call'[t].alone = call[t].alone,
                     sleepMode' = [sleepMode EXCEPT ![call[t].sc] = call[t].mode]
              PROVE  Changed(t)'
          <6>1. call[t].sc \in Swapchains => sleepMode'[call[t].sc] = call[t].mode
            BY <1>2, <5>2
          <6> QED
            BY <1>2, <1>3, <3>1, <5>2, <6>1
        <5> QED
          BY <3>2, <5>1, <5>2
      <4> QED
        BY <4>1, <4>2
    <3>5. NoStore' => NoStore /\ UNCHANGED sleepMode
      BY <2>1, <3>1, <3>2
    <3> QED
      BY <1>3, <3>1, <3>3, <3>4, <3>5
  <2>8. CASE StoreSleepMode(t)
    <3>1. /\ call[t].op = "sleepMode" /\ call[t].at = "store" /\ call'[t] = Idle
          /\ latencySleepModeInfo' = call[t].mode /\ raced' = ~call[t].alone
          /\ UNCHANGED <<swapchain, live, sleepMode>>
      BY <2>8, OwnCall DEF StoreSleepMode, driver
    <3>2. \A u \in Threads : Made(u)'
      BY <1>1, <2>1, <3>1 DEF OverlapsKnown, SwapchainCall, Idle
    <3>3. \A u \in Threads : Changed(u)'
      BY <1>3, <2>1, <3>1 DEF SwapchainCall, Idle
    <3> QED
      BY <1>3, <3>1, <3>2, <3>3
  <2> QED
    BY <1>8, <2>2, <2>3, <2>4, <2>5, <2>6, <2>7, <2>8 DEF SwapchainStep, SleepModeStep
<1> QED
  BY <1>4, <1>7, <1>8, StepKinds

(* If one thread owns the swapchains and one sets the sleep mode, the      *)
(* registered swapchain runs with the stored sleep mode whenever the last  *)
(* creation or change to succeed did not overlap one of the other kind,    *)
(* whatever the driver refuses and whichever handles it uses again.        *)
THEOREM StoredModeReachesSwapchain ==
  ASSUME OneOwner, OneSetter
  PROVE  Spec => []SleepModeReachesSwapchain
<1>1. SleepModeInv => SleepModeReachesSwapchain
  BY DEF SleepModeInv
<1> QED
  BY <1>1, SleepModeInvInit, SleepModeInvNext, LayerTyping, PTL DEF Spec

-----------------------------------------------------------------------------
(* Which calls a step changes *)

\* What a call is about.
About(c, ops) == c.op \in ops \cup {"idle"}

\* A call stays as it is, or goes on being about `ops`.
OnlyAbout(u, ops) == call'[u] = call[u] \/ (About(call[u], ops) /\ About(call'[u], ops))

SwapchainOps == {"create", "destroy", "sleepMode"}
SleepOps == {"sleep", "wait"}

LEMMA SwapchainCalls ==
  ASSUME TypeOK, NEW t \in Threads, SwapchainStep(t) \/ SleepModeStep(t)
  PROVE  /\ UNCHANGED <<semaphore, sleeping>>
         /\ \A u \in Threads : OnlyAbout(u, SwapchainOps)
<1> USE DEF context, driver, history
<1>1. UNCHANGED <<semaphore, sleeping>>
  BY DEF SwapchainStep, SleepModeStep, CreateSwapchain, ApplyStoredMode, RegisterSwapchain,
     UndoCreate, DestroySwapchain, ForgetSwapchain, SetLatencySleepMode, DriverSetSleepMode,
     StoreSleepMode
<1>2. ASSUME NEW u \in Threads \ {t} PROVE OnlyAbout(u, SwapchainOps)
  <2>1. call'[u].op = call[u].op
    BY OtherCalls DEF SameCall
  <2>2. call'[u] = call[u] \/ call[u].op \in SwapchainOps
    <3>1. CASE CreateSwapchain(t)
      BY <3>1, CreatingAfterCreate DEF SwapchainOps
    <3>2. ASSUME NEW mode \in AppModes, SetLatencySleepMode(t, mode)
          PROVE  call'[u] = call[u] \/ call[u].op \in SwapchainOps
      BY <3>2, SleepModeAfterStart DEF SwapchainOps
    <3>3. CASE \/ ApplyStoredMode(t) \/ RegisterSwapchain(t) \/ UndoCreate(t) \/ ForgetSwapchain(t)
               \/ DriverSetSleepMode(t) \/ StoreSleepMode(t)
               \/ \E s \in Swapchains : DestroySwapchain(t, s)
      BY <3>3 DEF ApplyStoredMode, RegisterSwapchain, UndoCreate, ForgetSwapchain,
         DriverSetSleepMode, StoreSleepMode, DestroySwapchain, Return, Continue, TypeOK
    <3> QED
      BY <3>1, <3>2, <3>3 DEF SwapchainStep, SleepModeStep
  <2> QED
    BY <2>1, <2>2 DEF OnlyAbout, About
<1>3. OnlyAbout(t, SwapchainOps)
  <2>1. CASE CreateSwapchain(t)
    <3>1. call'[t].op = "create"
      <4>1. PICK s \in Swapchains \ live, b \in BOOLEAN :
              call'[t] = [op |-> "create", sc |-> s, at |-> "apply", alone |-> b]
        BY <2>1, CreatingAfterCreate
      <4> QED
        BY <4>1
    <3>2. call[t].op = "idle"
      BY <2>1 DEF CreateSwapchain, May, Idle
    <3> QED
      BY <3>1, <3>2 DEF OnlyAbout, About, SwapchainOps
  <2>2. ASSUME NEW mode \in AppModes, SetLatencySleepMode(t, mode)
        PROVE  OnlyAbout(t, SwapchainOps)
    <3>1. call'[t].op = "sleepMode"
      BY <2>2, SleepModeAfterStart
    <3>2. call[t].op = "idle"
      BY <2>2 DEF SetLatencySleepMode, May, Idle
    <3> QED
      BY <3>1, <3>2 DEF OnlyAbout, About, SwapchainOps
  <2>3. ASSUME NEW s \in Swapchains, DestroySwapchain(t, s) PROVE OnlyAbout(t, SwapchainOps)
    <3>1. call[t].op = "idle" /\ call'[t].op = "destroy"
      <4>1. call[t] = Idle /\ call'[t] = [op |-> "destroy", sc |-> s]
        BY <2>3, OwnCall
      <4> QED
        BY <4>1 DEF Idle
    <3> QED
      BY <3>1 DEF OnlyAbout, About, SwapchainOps
  <2>4. CASE \/ ApplyStoredMode(t) \/ RegisterSwapchain(t) \/ UndoCreate(t)
             \/ ForgetSwapchain(t) \/ DriverSetSleepMode(t) \/ StoreSleepMode(t)
    <3>1. call'[t] = Idle \/ call'[t].op = call[t].op
      BY <2>4, OwnCall DEF CreateCalls, SleepModeCalls
    <3>2. call[t].op \in SwapchainOps
      BY <2>4 DEF ApplyStoredMode, RegisterSwapchain, UndoCreate, ForgetSwapchain,
         DriverSetSleepMode, StoreSleepMode, SwapchainOps
    <3> QED
      BY <3>1, <3>2 DEF OnlyAbout, About, Idle
  <2> QED
    BY <2>1, <2>2, <2>3, <2>4 DEF SwapchainStep, SleepModeStep
<1> QED
  BY <1>1, <1>2, <1>3

LEMMA SleepCallsOnly ==
  ASSUME TypeOK, NEW t \in Threads, SleepStep(t)
  PROVE  /\ \A u \in Threads \ {t} : call'[u] = call[u]
         /\ OnlyAbout(t, SleepOps)
  BY DEF SleepStep, LatencySleep, DriverSleep, SignalSemaphore, Wake, May, Wait, Return, Continue,
     Idle, TypeOK, OnlyAbout, About, SleepOps

-----------------------------------------------------------------------------
(* Presents of one swapchain *)

(* When the layer adds ids to a present of one swapchain, there is one,    *)
(* and it is a frame's.  That is as far as PresentIdsMatchSwapchains goes: *)
(* the list is made with one element, whatever is presented.               *)
OnePresentId(c) ==
  c.op = "forward" /\ c.ids # <<>> /\ Len(c.scs) = 1 => Len(c.ids) = 1 /\ c.ids[1] \in FrameIds
SinglePresentHasItsId == \A t \in Threads : OnePresentId(call[t])

LEMMA PresentIdOfOne ==
  ASSUME TypeOK, NEW t \in Threads, Forward(t)
  PROVE  OnePresentId(call'[t])
<1>1. PICK c : c = call[t]
  OBVIOUS
<1>2. c \in TagCalls
  BY <1>1, CallForms DEF Forward, Answered, TypeOK
<1> DEFINE mine == {i \in 1 .. Len(c.scs) : c.scs[i] = swapchain}
           first == CHOOSE i \in mine : \A j \in mine : i <= j
           ids == IF c.id = 0 \/ mine = {} \/ c.hasIds THEN <<>> ELSE PresentIds(c.scs, first, c.id)
<1>3. call'[t] = [op |-> "forward", scs |-> c.scs, ids |-> ids]
  BY <1>1 DEF Forward, Continue, TypeOK
<1>4. ASSUME ids # <<>>, Len(c.scs) = 1 PROVE Len(ids) = 1 /\ ids[1] \in FrameIds
  <2>1. mine # {} /\ c.id # 0 /\ ids = PresentIds(c.scs, first, c.id)
    BY <1>4
  <2>2. mine = {1}
    BY <1>4, <2>1
  <2>3. first = 1
    <3> HIDE DEF mine
    <3> QED
      BY <2>2
  <2>4. ids = [<<1>> EXCEPT ![1] = c.id]
    BY <1>4, <2>1, <2>3 DEF PresentIds
  <2>5. c.id \in FrameIds
    BY <1>2, <2>1 DEF TagCalls
  <2>6. [<<1>> EXCEPT ![1] = c.id] = <<c.id>>
    OBVIOUS
  <2> HIDE DEF ids
  <2> QED
    BY <2>4, <2>5, <2>6
<1> HIDE DEF ids
<1> QED
  BY <1>3, <1>4 DEF OnePresentId

(* A present of one swapchain goes to the driver with no ids of the        *)
(* layer's, or with one: the frame id, for that swapchain.                 *)
THEOREM SinglePresentsAreTagged == Spec => []SinglePresentHasItsId
<1>1. Init => SinglePresentHasItsId
  BY DEF Init, Idle, SinglePresentHasItsId, OnePresentId
<1>2. TypeOK /\ SinglePresentHasItsId /\ [Next]_vars => SinglePresentHasItsId'
  <2> SUFFICES ASSUME TypeOK, SinglePresentHasItsId, [Next]_vars, NEW u \in Threads,
                      call'[u].op = "forward"
               PROVE  OnePresentId(call'[u])
    BY DEF SinglePresentHasItsId, OnePresentId
  <2>1. ASSUME call'[u] = call[u] PROVE OnePresentId(call'[u])
    BY <2>1 DEF SinglePresentHasItsId
  <2>2. ASSUME NEW t \in Threads, FrameStep(t) PROVE OnePresentId(call'[u])
    BY <2>1, <2>2, FrameSteps, PresentIdOfOne DEF FrameCall
  <2>3. ASSUME NEW t \in Threads, SwapchainStep(t) \/ SleepModeStep(t) \/ SleepStep(t)
        PROVE  call'[u] = call[u]
    BY <2>3, SwapchainCalls, SleepCallsOnly DEF OnlyAbout, About, SwapchainOps, SleepOps
  <2>4. CASE DriverSignals \/ UNCHANGED vars
    BY <2>1, <2>4 DEF DriverSignals, vars
  <2> QED
    BY <2>1, <2>2, <2>3, <2>4 DEF Next, SwapchainStep, SleepModeStep, SleepStep, FrameStep
<1> QED
  BY <1>1, <1>2, LayerTyping, PTL DEF Spec

-----------------------------------------------------------------------------
(* Sleeping *)

\* One thread sleeps, as the loop that makes the frames does.
OneSleeper == \A t, u \in Threads : "sleep" \in Does[t] /\ "sleep" \in Does[u] => t = u

Sleeping(c) == c.op \in SleepOps

\* Who sleeps makes such calls.  A call that is not with the driver yet finds no signal
\* pending; afterwards the one pending is that of the thread that waits, or its value has
\* been signalled.  If nobody sleeps, nothing is pending.
SleepInv ==
  /\ \A u \in Threads : Sleeping(call[u]) => "sleep" \in Does[u]
  /\ \A u \in Threads : call[u].op = "sleep" => call[u].value = semaphore + 1 /\ sleeping = {}
  /\ \A u \in Threads : call[u].op = "wait" =>
       \/ sleeping = {call[u].value} /\ call[u].value = semaphore + 1
       \/ sleeping = {} /\ call[u].value = semaphore
  /\ (\A u \in Threads : ~Sleeping(call[u])) => sleeping = {}

(* Who waits for the semaphore is owed the signal, until it has come: no   *)
(* sleep gets lost, with or without a swapchain.                           *)
SleeperIsOwedASignal ==
  \A t \in Threads : call[t].op = "wait" =>
    semaphore >= call[t].value \/ call[t].value \in sleeping

(* The timeline semaphore is never signalled with a value it has passed,   *)
(* whether the driver or the layer itself signals.                         *)
SemaphoreCountsUp == [][semaphore' # semaphore => semaphore' > semaphore]_vars

LEMMA SleepInvOthers ==
  ASSUME TypeOK, SleepInv, UNCHANGED <<semaphore, sleeping>>,
         NEW ops, ops \cap SleepOps = {}, \A u \in Threads : OnlyAbout(u, ops)
  PROVE  SleepInv'
<1>1. \A u \in Threads : Sleeping(call[u]) \/ Sleeping(call'[u]) => call'[u] = call[u]
  BY DEF OnlyAbout, About, Sleeping, SleepOps
<1> QED
  BY <1>1 DEF SleepInv, Sleeping, SleepOps

LEMMA SleepInvSteps ==
  ASSUME OneSleeper, TypeOK, SleepInv, NEW t \in Threads, SleepStep(t)
  PROVE  SleepInv' /\ (semaphore' # semaphore => semaphore' > semaphore)
<1>1. call[t] \in Calls /\ semaphore \in Nat
  BY MaxValueAssumption DEF TypeOK
<1>2. \A u \in Threads \ {t} : call'[u] = call[u]
  BY SleepCallsOnly
<1>3. "sleep" \in Does[t]
  BY DEF SleepStep, LatencySleep, DriverSleep, SignalSemaphore, Wake, May, SleepInv, Sleeping,
     SleepOps
<1>4. \A u \in Threads \ {t} : ~Sleeping(call[u])
  BY <1>3 DEF OneSleeper, SleepInv
<1>5. \A u \in Threads \ {t} : ~Sleeping(call'[u])
  BY <1>2, <1>4
<1>6. ASSUME NEW c, call'[t] = c,
             \/ c.op = "sleep" /\ c.value = semaphore' + 1 /\ sleeping' = {}
             \/ c.op = "wait" /\ \/ sleeping' = {c.value} /\ c.value = semaphore' + 1
                                 \/ sleeping' = {} /\ c.value = semaphore'
             \/ c.op = "idle" /\ sleeping' = {}
      PROVE  SleepInv'
  BY <1>3, <1>5, <1>6 DEF SleepInv, Sleeping, SleepOps
<1>7. CASE LatencySleep(t)
  <2>1. call'[t] = [op |-> "sleep", sc |-> swapchain, value |-> semaphore + 1]
    BY <1>7 DEF LatencySleep, Continue, TypeOK
  <2>2. sleeping = {} /\ UNCHANGED <<semaphore, sleeping>>
    BY <1>4, <1>7 DEF LatencySleep, May, Idle, SleepInv, Sleeping, SleepOps, driver
  <2> QED
    BY <1>6, <2>1, <2>2
<1>8. CASE DriverSleep(t)
  <2>1. call[t].value = semaphore + 1 /\ sleeping = {} /\ semaphore' = semaphore
    BY <1>8 DEF DriverSleep, SleepInv
  <2>2. CASE Wait(t) /\ sleeping' = sleeping \cup {call[t].value}
    <3>1. call'[t] = [op |-> "wait", value |-> call[t].value]
      BY <2>2 DEF Wait, Continue, TypeOK
    <3> QED
      BY <1>6, <2>1, <2>2, <3>1
  <2>3. CASE Return(t) /\ UNCHANGED sleeping
    <3>1. call'[t] = Idle
      BY <2>3 DEF Return, Continue, TypeOK
    <3> QED
      BY <1>6, <2>1, <2>3, <3>1 DEF Idle
  <2> QED
    BY <1>8, <2>2, <2>3 DEF DriverSleep
<1>9. CASE SignalSemaphore(t)
  <2>1. call[t].value = semaphore + 1 /\ sleeping = {} /\ sleeping' = sleeping
    BY <1>9 DEF SignalSemaphore, SleepInv
  <2>2. CASE Wait(t) /\ semaphore' = call[t].value
    <3>1. call'[t] = [op |-> "wait", value |-> call[t].value]
      BY <2>2 DEF Wait, Continue, TypeOK
    <3>2. semaphore' > semaphore
      BY <1>1, <2>1, <2>2
    <3> QED
      BY <1>6, <2>1, <2>2, <3>1, <3>2
  <2>3. CASE Return(t) /\ UNCHANGED semaphore
    <3>1. call'[t] = Idle
      BY <2>3 DEF Return, Continue, TypeOK
    <3> QED
      BY <1>6, <2>1, <2>3, <3>1 DEF Idle
  <2> QED
    BY <1>9, <2>2, <2>3 DEF SignalSemaphore
<1>10. CASE Wake(t)
  <2>1. call'[t] = Idle /\ UNCHANGED <<semaphore, sleeping>>
    BY <1>10 DEF Wake, Return, Continue, TypeOK, driver
  <2>2. call[t].op = "wait" /\ semaphore >= call[t].value
    BY <1>10 DEF Wake
  <2>3. sleeping = {}
    BY <1>1, <2>2 DEF SleepInv
  <2> QED
    BY <1>6, <2>1, <2>3 DEF Idle
<1> QED
  BY <1>7, <1>8, <1>9, <1>10 DEF SleepStep

LEMMA SleepInvSignal ==
  ASSUME TypeOK, SleepInv, OneSleeper, DriverSignals
  PROVE  SleepInv' /\ semaphore' > semaphore
<1>1. PICK v \in sleeping : semaphore' = v /\ sleeping' = sleeping \ {v} /\ call' = call
  BY DEF DriverSignals
<1>2. semaphore \in Nat
  BY MaxValueAssumption DEF TypeOK
<1>3. PICK t \in Threads : Sleeping(call[t])
  BY <1>1 DEF SleepInv
<1>4. \A u \in Threads \ {t} : ~Sleeping(call[u])
  BY <1>3 DEF OneSleeper, SleepInv
<1>5. call[t].op = "wait" /\ sleeping = {call[t].value} /\ call[t].value = semaphore + 1
  BY <1>1, <1>3 DEF Sleeping, SleepOps, SleepInv
<1>6. semaphore' = call[t].value /\ sleeping' = {}
  BY <1>1, <1>5
<1>7. SleepInv'
  BY <1>1, <1>4, <1>5, <1>6 DEF SleepInv, Sleeping, SleepOps
<1> QED
  BY <1>2, <1>5, <1>6, <1>7

LEMMA SleepInvNext ==
  ASSUME OneSleeper, TypeOK, SleepInv, [Next]_vars
  PROVE  SleepInv' /\ (semaphore' # semaphore => semaphore' > semaphore)
<1>1. CASE UNCHANGED vars
  BY <1>1 DEF vars, SleepInv
<1>2. ASSUME NEW t \in Threads, SwapchainStep(t) \/ SleepModeStep(t)
      PROVE  SleepInv' /\ semaphore' = semaphore
  <2>1. SwapchainOps \cap SleepOps = {}
    BY DEF SwapchainOps, SleepOps
  <2> QED
    BY <1>2, <2>1, SwapchainCalls, SleepInvOthers
<1>3. ASSUME NEW t \in Threads, FrameStep(t)
      PROVE  SleepInv' /\ semaphore' = semaphore
  <2>1. UNCHANGED <<semaphore, sleeping>> /\ \A u \in Threads : FrameCall(u)
    BY <1>3, FrameSteps DEF driver
  <2>2. {"marker", "tag", "forward"} \cap SleepOps = {}
    BY DEF SleepOps
  <2>3. \A u \in Threads : OnlyAbout(u, {"marker", "tag", "forward"})
    BY <2>1 DEF FrameCall, OnlyAbout, About
  <2> QED
    BY <2>1, <2>2, <2>3, SleepInvOthers
<1> QED
  BY <1>1, <1>2, <1>3, SleepInvSteps, SleepInvSignal
  DEF Next, SwapchainStep, SleepModeStep, SleepStep, FrameStep

LEMMA SleepInductive ==
  ASSUME OneSleeper
  PROVE  Spec => [](TypeOK /\ SleepInv)
<1>1. Init => SleepInv
  BY DEF Init, Idle, SleepInv, Sleeping, SleepOps
<1>2. TypeOK /\ SleepInv /\ [Next]_vars => SleepInv'
  BY SleepInvNext
<1> QED
  BY <1>1, <1>2, LayerTyping, PTL DEF Spec

(* If one thread sleeps, it is never left waiting for a signal nobody      *)
(* owes it: what the driver did not accept was refused, and without a      *)
(* swapchain the layer has signalled.                                      *)
THEOREM SleepersAreOwedSignals ==
  ASSUME OneSleeper
  PROVE  Spec => []SleeperIsOwedASignal
<1>1. TypeOK /\ SleepInv => SleeperIsOwedASignal
  <2>1. TypeOK => semaphore \in Nat
    BY MaxValueAssumption DEF TypeOK
  <2> QED
    BY <2>1 DEF SleepInv, SleeperIsOwedASignal
<1>2. Spec => [](TypeOK /\ SleepInv)
  BY SleepInductive
<1> QED
  BY <1>1, <1>2, PTL

(* If one thread sleeps, the semaphore only counts up, across swapchains   *)
(* that come and go between its sleeps and sleeps the driver refuses.      *)
THEOREM SignalsCountUp ==
  ASSUME OneSleeper
  PROVE  Spec => SemaphoreCountsUp
<1>1. TypeOK /\ SleepInv /\ [Next]_vars => [semaphore' # semaphore => semaphore' > semaphore]_vars
  BY SleepInvNext
<1>2. Spec => [](TypeOK /\ SleepInv)
  BY SleepInductive
<1> QED
  BY <1>1, <1>2, PTL DEF Spec, SemaphoreCountsUp

-----------------------------------------------------------------------------
(* ReflexSetup *)

(* An extension is appended unless it is there; nothing else changes.       *)
LEMMA WithExtensionAdds ==
  ASSUME NEW list \in Seq(Extensions), IsInjective(list), NEW ext \in Extensions
  PROVE  /\ WithExtension(list, ext) \in Seq(Extensions)
         /\ IsInjective(WithExtension(list, ext))
         /\ ToSet(WithExtension(list, ext)) = ToSet(list) \cup {ext}
         /\ Len(list) <= Len(WithExtension(list, ext))
         /\ \A i \in 1 .. Len(list) : WithExtension(list, ext)[i] = list[i]
<1>1. CASE ext \in ToSet(list)
  BY <1>1 DEF WithExtension
<1>2. CASE ext \notin ToSet(list)
  <2> DEFINE new == Append(list, ext)
  <2>1. WithExtension(list, ext) = new
    BY <1>2 DEF WithExtension
  <2>2. /\ new \in Seq(Extensions) /\ Len(new) = Len(list) + 1 /\ Len(list) \in Nat
        /\ DOMAIN new = 1 .. Len(list) + 1 /\ DOMAIN list = 1 .. Len(list)
        /\ \A i \in 1 .. Len(list) : new[i] = list[i]
        /\ new[Len(list) + 1] = ext
    OBVIOUS
  <2> HIDE DEF new
  <2>3. \A i \in 1 .. Len(list) : list[i] # ext
    BY <1>2, <2>2 DEF ToSet
  <2>4. ToSet(new) = ToSet(list) \cup {ext}
    <3>1. ToSet(new) \subseteq ToSet(list) \cup {ext}
      BY <2>2 DEF ToSet
    <3>2. ToSet(list) \cup {ext} \subseteq ToSet(new)
      BY <2>2 DEF ToSet
    <3> QED
      BY <3>1, <3>2
  <2>5. IsInjective(new)
    BY <2>2, <2>3 DEF IsInjective
  <2> QED
    BY <2>1, <2>2, <2>4, <2>5
<1> QED
  BY <1>1, <1>2

(* What the layer makes of a list of extensions without low_latency2:       *)
(* everything it needs is in it, nothing twice, and the application's own   *)
(* extensions stay in their places.                                         *)
LEMMA EnabledExtensionsComplete ==
  ASSUME NEW asked \in Seq(Extensions), IsInjective(asked), "ll2" \notin ToSet(asked),
         injectFrameIDs \in BOOLEAN
  PROVE  LET enabled == EnabledExtensions(asked)
         IN  /\ enabled \in Seq(Extensions) /\ IsInjective(enabled)
             /\ "ll2" \in ToSet(enabled) /\ "ll" \notin ToSet(enabled)
             /\ "ts" \in ToSet(enabled) \/ ~(instance.apiVersion < 12)
             /\ injectFrameIDs => "pid" \in ToSet(enabled)
             /\ \A i \in DOMAIN asked : asked[i] # "ll" => enabled[i] = asked[i]
             /\ ToSet(enabled) \subseteq
                  ToSet(asked) \cup {"ll2", "ts"} \cup (IF injectFrameIDs THEN {"pid"} ELSE {})
<1> DEFINE listed == IF asked = <<>> THEN DefaultExtensions ELSE asked
           replaced == [i \in DOMAIN listed |-> IF listed[i] = "ll" THEN "ll2" ELSE listed[i]]
           withLL2 == WithExtension(replaced, "ll2")
           withTS == IF instance.apiVersion < 12 THEN WithExtension(withLL2, "ts") ELSE withLL2
           enabled == IF injectFrameIDs THEN WithExtension(withTS, "pid") ELSE withTS
           Requested == ToSet(asked) \cup {"ll2", "ts"} \cup (IF injectFrameIDs THEN {"pid"} ELSE {})
<1>1. EnabledExtensions(asked) = enabled
  BY DEF EnabledExtensions
<1>2. /\ listed \in Seq(Extensions) /\ IsInjective(listed) /\ ToSet(listed) \subseteq Requested
      /\ Len(asked) <= Len(listed)
      /\ \A i \in 1 .. Len(asked) : listed[i] = asked[i]
      /\ "ll" \in ToSet(listed) => "ll2" \notin ToSet(listed)
  <2>1. CASE asked = <<>>
    <3>1. listed = DefaultExtensions /\ Len(asked) = 0
      BY <2>1
    <3>2. CASE injectFrameIDs
      <4>1. listed = <<"ts", "ll2", "pid">>
        BY <3>1, <3>2 DEF DefaultExtensions
      <4> HIDE DEF listed
      <4>2. /\ listed \in Seq(Extensions) /\ Len(listed) = 3 /\ DOMAIN listed = {1, 2, 3}
            /\ listed[1] = "ts" /\ listed[2] = "ll2" /\ listed[3] = "pid"
        BY <4>1 DEF Extensions
      <4>3. IsInjective(listed) /\ ToSet(listed) = {"ts", "ll2", "pid"}
        BY <4>2 DEF IsInjective, ToSet
      <4> QED
        BY <3>1, <3>2, <4>2, <4>3
    <3>3. CASE ~injectFrameIDs
      <4>1. listed = <<"ts", "ll2">>
        BY <3>1, <3>3 DEF DefaultExtensions
      <4> HIDE DEF listed
      <4>2. /\ listed \in Seq(Extensions) /\ Len(listed) = 2 /\ DOMAIN listed = {1, 2}
            /\ listed[1] = "ts" /\ listed[2] = "ll2"
        BY <4>1 DEF Extensions
      <4>3. IsInjective(listed) /\ ToSet(listed) = {"ts", "ll2"}
        BY <4>2 DEF IsInjective, ToSet
      <4> QED
        BY <3>1, <3>3, <4>2, <4>3
    <3> QED
      BY <3>2, <3>3
  <2>2. CASE asked # <<>>
    <3>1. listed = asked
      BY <2>2
    <3> QED
      BY <3>1
  <2> QED
    BY <2>1, <2>2
<1> HIDE DEF listed
<1>3. /\ DOMAIN listed = 1 .. Len(listed) /\ Len(listed) \in Nat
      /\ DOMAIN asked = 1 .. Len(asked) /\ Len(asked) \in Nat
      /\ \A i \in 1 .. Len(listed) : listed[i] \in Extensions /\ listed[i] \in ToSet(listed)
  BY <1>2 DEF ToSet
<1>4. /\ replaced \in Seq(Extensions) /\ IsInjective(replaced)
      /\ "ll" \notin ToSet(replaced) /\ ToSet(replaced) \subseteq Requested
      /\ Len(replaced) = Len(listed)
      /\ \A i \in 1 .. Len(asked) : asked[i] # "ll" => replaced[i] = asked[i]
  <2>1. /\ \A i \in 1 .. Len(listed) :
             replaced[i] = IF listed[i] = "ll" THEN "ll2" ELSE listed[i]
        /\ DOMAIN replaced = 1 .. Len(listed)
    BY <1>3
  <2>2. "ll2" \in Extensions
    BY DEF Extensions
  <2>3. replaced \in [1 .. Len(listed) -> Extensions]
    BY <1>3, <2>2
  <2>4. replaced \in Seq(Extensions) /\ Len(replaced) = Len(listed)
    BY <1>3, <2>3
  <2> HIDE DEF replaced
  <2>5. IsInjective(replaced)
    BY <1>2, <1>3, <2>1 DEF IsInjective
  <2>6. "ll" \notin ToSet(replaced) /\ ToSet(replaced) \subseteq Requested
    BY <1>2, <1>3, <2>1 DEF ToSet
  <2>7. \A i \in 1 .. Len(asked) : asked[i] # "ll" => replaced[i] = asked[i]
    BY <1>2, <1>3, <2>1
  <2> QED
    BY <2>4, <2>5, <2>6, <2>7
<1> HIDE DEF replaced
<1>5. "ll2" \in Extensions /\ "ts" \in Extensions /\ "pid" \in Extensions
  BY DEF Extensions
<1>6. /\ withLL2 \in Seq(Extensions) /\ IsInjective(withLL2)
      /\ "ll" \notin ToSet(withLL2) /\ "ll2" \in ToSet(withLL2) /\ ToSet(withLL2) \subseteq Requested
      /\ Len(listed) <= Len(withLL2)
      /\ \A i \in 1 .. Len(asked) : asked[i] # "ll" => withLL2[i] = asked[i]
  <2>1. /\ withLL2 \in Seq(Extensions) /\ IsInjective(withLL2)
        /\ ToSet(withLL2) = ToSet(replaced) \cup {"ll2"}
        /\ Len(replaced) <= Len(withLL2)
        /\ \A i \in 1 .. Len(replaced) : withLL2[i] = replaced[i]
    BY <1>4, <1>5, WithExtensionAdds
  <2> HIDE DEF withLL2
  <2>2. "ll" \notin ToSet(withLL2) /\ "ll2" \in ToSet(withLL2) /\ ToSet(withLL2) \subseteq Requested
    BY <1>4, <2>1
  <2>3. \A i \in 1 .. Len(asked) : asked[i] # "ll" => withLL2[i] = asked[i]
    BY <1>2, <1>3, <1>4, <2>1
  <2> QED
    BY <1>4, <2>1, <2>2, <2>3
<1> HIDE DEF withLL2
<1>7. Len(withLL2) \in Nat
  BY <1>6
<1>8. /\ withTS \in Seq(Extensions) /\ IsInjective(withTS)
      /\ "ll" \notin ToSet(withTS) /\ "ll2" \in ToSet(withTS) /\ ToSet(withTS) \subseteq Requested
      /\ "ts" \in ToSet(withTS) \/ ~(instance.apiVersion < 12)
      /\ Len(listed) <= Len(withTS)
      /\ \A i \in 1 .. Len(asked) : asked[i] # "ll" => withTS[i] = asked[i]
  <2>1. CASE instance.apiVersion < 12
    <3>1. withTS = WithExtension(withLL2, "ts")
      BY <2>1
    <3>2. /\ WithExtension(withLL2, "ts") \in Seq(Extensions)
          /\ IsInjective(WithExtension(withLL2, "ts"))
          /\ ToSet(WithExtension(withLL2, "ts")) = ToSet(withLL2) \cup {"ts"}
          /\ Len(withLL2) <= Len(WithExtension(withLL2, "ts"))
          /\ \A i \in 1 .. Len(withLL2) : WithExtension(withLL2, "ts")[i] = withLL2[i]
      BY <1>5, <1>6, WithExtensionAdds
    <3>3. Len(WithExtension(withLL2, "ts")) \in Nat
      BY <3>2
    <3> HIDE DEF withTS
    <3>4. "ll" \notin ToSet(withTS) /\ "ll2" \in ToSet(withTS) /\ ToSet(withTS) \subseteq Requested
      BY <1>6, <3>1, <3>2
    <3>5. Len(listed) <= Len(withTS)
      BY <1>3, <1>6, <1>7, <3>1, <3>2, <3>3
    <3>6. \A i \in 1 .. Len(asked) : asked[i] # "ll" => withTS[i] = asked[i]
      BY <1>2, <1>3, <1>6, <1>7, <3>1, <3>2
    <3> QED
      BY <3>1, <3>2, <3>4, <3>5, <3>6
  <2>2. CASE ~(instance.apiVersion < 12)
    BY <1>6, <2>2
  <2> QED
    BY <2>1, <2>2
<1> HIDE DEF withTS
<1>9. Len(withTS) \in Nat
  BY <1>8
<1>10. CASE injectFrameIDs
  <2>1. enabled = WithExtension(withTS, "pid")
    BY <1>10
  <2>2. /\ enabled \in Seq(Extensions) /\ IsInjective(enabled)
        /\ ToSet(enabled) = ToSet(withTS) \cup {"pid"}
        /\ \A i \in 1 .. Len(withTS) : enabled[i] = withTS[i]
    BY <1>5, <1>8, <2>1, WithExtensionAdds
  <2> HIDE DEF enabled
  <2>3. \A i \in 1 .. Len(asked) : asked[i] # "ll" => enabled[i] = asked[i]
    BY <1>2, <1>3, <1>8, <1>9, <2>2, SMTT(30)
  <2> QED
    BY <1>1, <1>3, <1>8, <1>10, <2>2, <2>3
<1>11. CASE ~injectFrameIDs
  <2>1. enabled = withTS
    BY <1>11
  <2> HIDE DEF enabled
  <2> QED
    BY <1>1, <1>3, <1>8, <1>11, <2>1
<1> QED
  BY <1>10, <1>11

-----------------------------------------------------------------------------

(* An instance is made once; one with a context and Vulkan 1.0 has what the *)
(* layer asks the GPU's properties with.                                    *)
InstanceOK ==
  /\ injectFrameIDs \in BOOLEAN
  /\ instance = NoInstance \/ instance.apiVersion \in {10, 11, 12}
  /\ instance.context /\ instance.apiVersion < 11 => "gpdp2" \in ToSet(instance.extensions)

(* The application's chain keeps its structures; none excludes another.     *)
ChainOK ==
  /\ chain \in [DOMAIN chain -> BOOLEAN]
  /\ DOMAIN chain \subseteq Structures
  /\ ~{"Vulkan12Features", "TimelineSemaphoreFeatures"} \subseteq DOMAIN chain

(* Devices are of an instance, and complete.                                *)
DeviceOK == LayerDeviceIsComplete /\ (device.created => instance # NoInstance)

SetupInv == InstanceOK /\ ChainOK /\ DeviceOK

LEMMA SetupInvInit == SetupInit => SetupInv
<1> SUFFICES ASSUME SetupInit PROVE SetupInv
  OBVIOUS
<1>1. InstanceOK
  BY DEF SetupInit, NothingSetUp, InstanceOK, NoInstance
<1>2. ChainOK
  BY ChainsAssumption DEF SetupInit, Given, ChainOK
<1>3. DeviceOK
  BY DEF SetupInit, NothingSetUp, DeviceOK, LayerDeviceIsComplete, NoDevice
<1> QED
  BY <1>1, <1>2, <1>3 DEF SetupInv

LEMMA InstanceSetup ==
  ASSUME SetupInv, NEW request \in InstanceRequests, NEW succeeds \in BOOLEAN,
         CreateInstance(request, succeeds)
  PROVE  SetupInv'
<1>1. /\ request.hasInfo \in BOOLEAN /\ request.apiVersion \in {10, 11, 12}
      /\ request.extensions \in Seq(Extensions) /\ IsInjective(request.extensions)
  BY InstanceRequestsAssumption
<1>2. InstanceOK'
  <2>1. injectFrameIDs' \in BOOLEAN
    BY DEF CreateInstance, GetFlag
  <2>2. CASE ~succeeds
    BY <2>1, <2>2 DEF CreateInstance, InstanceOK, NoInstance
  <2>3. CASE succeeds
    <3>1. instance' = [context |-> request.hasInfo, apiVersion |-> request.apiVersion,
             extensions |-> IF request.hasInfo /\ request.apiVersion < 11
                              THEN WithExtension(request.extensions, "gpdp2")
                              ELSE request.extensions]
      BY <2>3 DEF CreateInstance
    <3>2. "gpdp2" \in ToSet(WithExtension(request.extensions, "gpdp2"))
      BY <1>1, WithExtensionAdds DEF Extensions
    <3> QED
      BY <1>1, <2>1, <3>1, <3>2 DEF InstanceOK
  <2> QED
    BY <2>2, <2>3
<1>3. ChainOK'
  BY DEF CreateInstance, SetupInv, ChainOK
<1>4. DeviceOK'
  BY DEF CreateInstance, SetupInv, DeviceOK, LayerDeviceIsComplete
<1> QED
  BY <1>2, <1>3, <1>4 DEF SetupInv

(* The structures the layer passes: those of the application, with what     *)
(* they ask for, and what the layer's commands need, none excluding another. *)
LEMMA PassedChainComplete ==
  ASSUME ChainOK, injectFrameIDs \in BOOLEAN
  PROVE  /\ DOMAIN PassedChain = DOMAIN chain \cup SwitchedOn
         /\ ~{"Vulkan12Features", "TimelineSemaphoreFeatures"} \subseteq DOMAIN PassedChain
         /\ \A s \in SwitchedOn : PassedChain[s]
         /\ \A s \in DOMAIN chain : chain[s] => PassedChain[s]
<1>1. /\ DOMAIN PassedChain = DOMAIN chain \cup SwitchedOn
      /\ \A s \in DOMAIN chain \cup SwitchedOn :
           PassedChain[s] = (s \in SwitchedOn \/ chain[s])
  BY DEF PassedChain
<1>2. ~{"Vulkan12Features", "TimelineSemaphoreFeatures"} \subseteq DOMAIN PassedChain
  BY <1>1 DEF ChainOK, SwitchedOn, TimelineStructure
<1> QED
  BY <1>1, <1>2

LEMMA WrittenChainFits == ASSUME ChainOK, chain' = WrittenChain PROVE ChainOK'
<1>1. /\ DOMAIN chain' = DOMAIN chain
      /\ \A s \in DOMAIN chain : chain'[s] = (chain[s] \/ s \in SwitchedOn)
  BY DEF WrittenChain
<1>2. chain' \in [DOMAIN chain -> BOOLEAN]
  BY DEF WrittenChain, ChainOK
<1> QED
  BY <1>1, <1>2 DEF ChainOK

LEMMA DeviceSetup ==
  ASSUME SetupInv, NEW request \in DeviceRequests, NEW succeeds \in BOOLEAN,
         CreateDevice(request, succeeds)
  PROVE  SetupInv'
<1>1. request.extensions \in Seq(Extensions) /\ IsInjective(request.extensions)
  BY DeviceRequestsAssumption
<1>2. /\ instance # NoInstance /\ instance' = instance /\ injectFrameIDs' = injectFrameIDs
      /\ injectFrameIDs \in BOOLEAN /\ ChainOK
  BY DEF CreateDevice, SetupInv, InstanceOK
<1>3. InstanceOK'
  BY <1>2 DEF SetupInv, InstanceOK
<1>4. CASE Skips(request)
  <2>1. /\ device'.extensions = device'.asked.extensions
        /\ device'.features = device'.askedFeatures
        /\ device'.context = FALSE
        /\ chain' = chain
    <3>1. chain' = chain /\ DriverCreates(request, request.extensions, chain, FALSE, succeeds)
      BY <1>4 DEF CreateDevice
    <3> QED
      BY <3>1 DEF DriverCreates
  <2>2. LayerDeviceIsComplete'
    BY <2>1 DEF LayerDeviceIsComplete
  <2> QED
    BY <1>2, <1>3, <2>1, <2>2 DEF SetupInv, ChainOK, DeviceOK
<1>5. CASE ~Skips(request)
  <2> DEFINE enabled == EnabledExtensions(request.extensions)
  <2>1. instance.context /\ "ll2" \notin ToSet(request.extensions)
    BY <1>5 DEF Skips
  <2>2. /\ device'.asked = request /\ device'.askedFeatures = chain
        /\ device'.extensions = enabled /\ device'.features = PassedChain
        /\ device'.created = device'.context
        /\ chain' = WrittenChain
    BY <1>5 DEF CreateDevice, DriverCreates
  <2>3. /\ enabled \in Seq(Extensions) /\ IsInjective(enabled)
        /\ "ll2" \in ToSet(enabled) /\ "ll" \notin ToSet(enabled)
        /\ "ts" \in ToSet(enabled) \/ ~(instance.apiVersion < 12)
        /\ injectFrameIDs => "pid" \in ToSet(enabled)
        /\ \A i \in DOMAIN request.extensions :
             request.extensions[i] # "ll" => enabled[i] = request.extensions[i]
        /\ ToSet(enabled) \subseteq ToSet(request.extensions) \cup {"ll2", "ts"}
             \cup (IF injectFrameIDs THEN {"pid"} ELSE {})
    BY <1>1, <1>2, <2>1, EnabledExtensionsComplete
  <2> HIDE DEF enabled
  <2>4. /\ DOMAIN PassedChain = DOMAIN chain \cup SwitchedOn
        /\ ~{"Vulkan12Features", "TimelineSemaphoreFeatures"} \subseteq DOMAIN PassedChain
        /\ \A s \in SwitchedOn : PassedChain[s]
        /\ \A s \in DOMAIN chain : chain[s] => PassedChain[s]
    BY <1>2, PassedChainComplete
  <2>5. (\A s \in SwitchedOn : On(s)') /\ (\A s \in DOMAIN chain : chain[s] => On(s)')
    BY <2>2, <2>4 DEF On
  <2>6. HasWhatLayerUses'
    <3>1. On("Vulkan12Features")' \/ On("TimelineSemaphoreFeatures")'
      BY <2>5 DEF SwitchedOn, TimelineStructure
    <3>2. injectFrameIDs => On("PresentIdFeatures")'
      BY <2>5 DEF SwitchedOn
    <3>3. instance.apiVersion < 11 => "gpdp2" \in ToSet(instance.extensions)
      BY <2>1 DEF SetupInv, InstanceOK
    <3>4. "ts" \in ToSet(enabled) \/ instance.apiVersion >= 12
      BY <1>2, <2>3 DEF SetupInv, InstanceOK
    <3> QED
      BY <1>2, <2>2, <2>3, <3>1, <3>2, <3>3, <3>4 DEF HasWhatLayerUses
  <2>7. IsValid'
    BY <2>2, <2>3, <2>4 DEF IsValid
  <2>8. HasWhatWasAsked'
    BY <1>2, <2>2, <2>3, <2>5 DEF HasWhatWasAsked
  <2>9. LayerDeviceIsComplete'
    BY <2>2, <2>6, <2>7, <2>8 DEF LayerDeviceIsComplete
  <2> QED
    BY <1>2, <1>3, <2>2, <2>9, WrittenChainFits DEF SetupInv, DeviceOK
<1> QED
  BY <1>4, <1>5

LEMMA SetupInvariant == SetupSpec => []SetupInv
<1>1. SetupInv /\ [SetupNext]_setupVars => SetupInv'
  <2> SUFFICES ASSUME SetupInv, [SetupNext]_setupVars PROVE SetupInv'
    OBVIOUS
  <2>1. ASSUME NEW succeeds \in BOOLEAN, NEW request \in InstanceRequests,
               CreateInstance(request, succeeds)
        PROVE  SetupInv'
    BY <2>1, InstanceSetup
  <2>2. ASSUME NEW succeeds \in BOOLEAN, NEW request \in DeviceRequests,
               CreateDevice(request, succeeds)
        PROVE  SetupInv'
    BY <2>2, DeviceSetup
  <2>3. CASE UNCHANGED setupVars
    BY <2>3 DEF setupVars, SetupInv, InstanceOK, ChainOK, DeviceOK, LayerDeviceIsComplete,
      HasWhatLayerUses, IsValid, HasWhatWasAsked, On
  <2> QED
    BY <2>1, <2>2, <2>3 DEF SetupNext
<1> QED
  BY <1>1, SetupInvInit, PTL DEF SetupSpec

(* Whatever the environment says, whatever the application asks for and in  *)
(* however many devices its chain is used, a device with the layer's        *)
(* context has all the layer's commands use, a valid description and        *)
(* nothing less than what was asked for; any other is as it was asked for   *)
(* (CreateInstance and CreateDevice of the layer).                          *)
THEOREM LayerDevices == SetupSpec => []LayerDeviceIsComplete
<1>1. SetupInv => LayerDeviceIsComplete
  BY DEF SetupInv, DeviceOK
<1> QED
  BY <1>1, SetupInvariant, PTL

=============================================================================
