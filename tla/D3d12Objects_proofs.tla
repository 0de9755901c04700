-------------------------- MODULE D3d12Objects_proofs --------------------------
(***************************************************************************)
(* Proofs about D3d12Objects, for any number of threads, objects, ticks    *)
(* and resets: no call answers with what a completed reset has made stale, *)
(* only what is stale is replaced, and the mutexes never lock each other   *)
(* up.                                                                     *)
(***************************************************************************)
EXTENDS D3d12Objects, SequenceTheorems, TLAPS

-----------------------------------------------------------------------------
(* Types, and what a call keeps to *)

Made == [m_creationTimestamp : Nat, after : Nat]
Frames == [o : Objects, at : {"check", "lock", "recheck", "construct", "store", "answer"},
           object : Made, since : Nat]

ObjectsTypeOK ==
  /\ clock \in Nat \ {0}
  /\ m_resetTimestamp \in [Kinds -> Nat]
  /\ m_mutex \in [Kinds -> Threads \cup {Nobody, Resetter}]
  /\ privateData \in [Objects -> Made]
  /\ calls \in [Threads -> Seq(Frames)]
  /\ reset \in {NoReset} \cup [kind : Kinds, tick : Nat]
  /\ resets \in [Kinds -> Nat]

\* A class was stamped in the past, and is stamped with ever later ticks.
TimeOK ==
  /\ \A k \in Kinds : m_resetTimestamp[k] <= clock
  /\ reset # NoReset =>
       /\ resets[reset.kind] >= 1
       /\ reset.tick <= clock /\ m_resetTimestamp[reset.kind] <= reset.tick

\* What was made before a reset is not stamped later than it, whether the reset is
\* complete or has only read the clock.
Stamped(k, object) ==
  /\ object.m_creationTimestamp <= clock /\ object.after <= resets[k]
  /\ object.after < Completed(k) => object.m_creationTimestamp <= m_resetTimestamp[k]
  /\ reset.kind = k /\ object.after < resets[k] => object.m_creationTimestamp <= reset.tick

DataOK == \A o \in Objects : Stamped(Kind(o), privateData[o])

\* A call that holds the mutex of its class knows what is in the private data: what it has
\* read, then something stale, which it replaces.
Holds(c) == c.at \in {"recheck", "construct", "store"}
CallOK(t, c) ==
  /\ Stamped(Kind(c.o), c.object) /\ c.since <= Completed(Kind(c.o))
  /\ Holds(c) => m_mutex[Kind(c.o)] = t
  /\ c.at = "recheck" => c.object = privateData[c.o]
  /\ c.at = "construct" => c.o \in CommandLists
  /\ c.at \in {"construct", "store"} =>
       c.object.after >= c.since /\ ~Fresh(c.o, privateData[c.o])
  /\ c.at = "answer" /\ c.object # Nothing => c.object.after >= c.since

\* A call within a call is that of a command list to its device.
StackOK(s) ==
  /\ Len(s) <= 2
  /\ Len(s) = 2 => s[1].o \in CommandLists /\ s[2].o \in Devices

CallsOK ==
  \A t \in Threads :
    /\ StackOK(calls[t])
    /\ \A c \in ToSet(calls[t]) : CallOK(t, c)

ObjectsInv == ObjectsTypeOK /\ TimeOK /\ DataOK /\ CallsOK

LEMMA KindOf ==
  ASSUME NEW o \in Objects
  PROVE  /\ Kind(o) \in Kinds
         /\ o \in Devices => Kind(o) = "device"
         /\ o \in CommandLists => Kind(o) = "list"
  BY KindsAssumption DEF Kind, Kinds, Objects

LEMMA CompletedTyped ==
  ASSUME ObjectsTypeOK, TimeOK, NEW k \in Kinds
  PROVE  Completed(k) \in Nat /\ Completed(k) <= resets[k] /\ resets[k] \in Nat
<1>1. CASE reset.kind = k
  <2>1. reset # NoReset
    BY <1>1 DEF NoReset, Kinds
  <2> QED
    BY <1>1, <2>1 DEF ObjectsTypeOK, TimeOK, Completed
<1>2. CASE reset.kind # k
  BY <1>2 DEF ObjectsTypeOK, Completed
<1> QED
  BY <1>1, <1>2

LEMMA Members ==
  ASSUME NEW s \in Seq(Frames)
  PROVE  /\ Len(s) \in Nat
         /\ \A c : c \in ToSet(s) <=> \E k \in 1 .. Len(s) : c = s[k]
<1>1. Len(s) \in Nat /\ DOMAIN s = 1 .. Len(s)
  BY LenProperties
<1> QED
  BY <1>1 DEF ToSet

(* The innermost call, and the stack with another in its place.            *)
LEMMA Innermost ==
  ASSUME NEW s \in Seq(Frames), s # <<>>
  PROVE  /\ Len(s) \in Nat \ {0} /\ Last(s) = s[Len(s)] /\ Last(s) \in Frames
         /\ Front(s) \in Seq(Frames) /\ Len(Front(s)) = Len(s) - 1
         /\ \A k \in 1 .. Len(s) - 1 : Front(s)[k] = s[k]
         /\ Last(s) \in ToSet(s)
<1>1. Len(s) \in Nat \ {0}
  BY EmptySeq, LenProperties
<1>2. Len(s) \in 1 .. Len(s)
  BY <1>1
<1>3. Last(s) = s[Len(s)] /\ Last(s) \in Frames
  BY <1>2, ElementOfSeq DEF Last
<1>4. PICK n : n = Len(s) - 1
  OBVIOUS
<1>5. n \in Int /\ 1 \in Int /\ \A k \in 1 .. n : s[k] \in Frames
  <2>1. \A k \in 1 .. n : k \in 1 .. Len(s)
    BY <1>1, <1>4
  <2> QED
    BY <1>1, <1>4, <2>1, ElementOfSeq
<1>6. PICK f : f = SubSeq(s, 1, n)
  OBVIOUS
<1>7. /\ f \in Seq(Frames) /\ Len(f) = IF 1 <= n THEN n - 1 + 1 ELSE 0
      /\ \A k \in 1 .. n - 1 + 1 : f[k] = s[1 + k - 1]
  BY <1>5, <1>6, SubSeqProperties
<1>8. Len(f) = n /\ \A k \in 1 .. n : f[k] = s[k]
  <2>1. n \in Nat
    BY <1>1, <1>4
  <2> QED
    BY <1>7, <2>1
<1> QED
  BY <1>1, <1>2, <1>3, <1>4, <1>6, <1>7, <1>8, Members DEF Front

LEMMA Replaced ==
  ASSUME NEW s \in Seq(Frames), s # <<>>, NEW c \in Frames
  PROVE  LET r == Append(Front(s), c)
         IN  /\ r \in Seq(Frames) /\ Len(r) = Len(s) /\ r[Len(s)] = c
             /\ \A k \in 1 .. Len(s) - 1 : r[k] = s[k]
<1>1. PICK f : f = Front(s)
  OBVIOUS
<1>2. /\ f \in Seq(Frames) /\ Len(s) \in Nat \ {0} /\ Len(f) = Len(s) - 1
      /\ \A k \in 1 .. Len(s) - 1 : f[k] = s[k]
  BY <1>1, Innermost
<1>3. /\ Append(f, c) \in Seq(Frames) /\ Len(Append(f, c)) = Len(f) + 1
      /\ \A k \in 1 .. Len(f) : Append(f, c)[k] = f[k]
      /\ Append(f, c)[Len(f) + 1] = c
  BY <1>2, AppendProperties
<1>4. Len(f) + 1 = Len(s) /\ Append(f, c)[Len(s)] = c
  BY <1>2, <1>3
<1> QED
  BY <1>1, <1>2, <1>3, <1>4

-----------------------------------------------------------------------------
(* Time, and the resets *)

\* What no step undoes: what is stale stays so, and a completed reset stays complete.
Onward ==
  /\ \A k \in Kinds : \A object \in Made : Stamped(k, object) => Stamped(k, object)'
  /\ \A k \in Kinds : /\ Completed(k) <= Completed(k)'
                      /\ m_resetTimestamp[k] <= m_resetTimestamp'[k]

\* What a step of a call leaves alone.
TimeStops == UNCHANGED <<clock, m_resetTimestamp, reset, resets>>

LEMMA TimeMayStop ==
  ASSUME ObjectsTypeOK, TimeOK, TimeStops
  PROVE  Onward /\ TimeOK'
<1>1. \A k \in Kinds : Completed(k) \in Nat /\ m_resetTimestamp[k] \in Nat
  BY CompletedTyped DEF ObjectsTypeOK
<1>2. \A k : Completed(k)' = Completed(k)
  BY DEF TimeStops, Completed
<1> QED
  BY <1>1, <1>2 DEF TimeStops, Onward, Stamped, TimeOK

LEMMA TickMovesOn ==
  ASSUME ObjectsTypeOK, TimeOK, Tick
  PROVE  Onward /\ TimeOK' /\ clock' \in Nat \ {0}
<1>1. clock \in Nat \ {0} /\ clock' = clock + 1 /\ UNCHANGED <<m_resetTimestamp, reset, resets>>
  BY DEF Tick, ObjectsTypeOK
<1>2. \A k \in Kinds : Completed(k) \in Nat /\ m_resetTimestamp[k] \in Nat
  BY CompletedTyped DEF ObjectsTypeOK
<1>3. \A k : Completed(k)' = Completed(k)
  BY <1>1 DEF Completed
<1>4. TimeOK'
  <2>1. reset # NoReset => reset.tick \in Nat
    BY DEF ObjectsTypeOK
  <2> QED
    BY <1>1, <1>2, <2>1 DEF TimeOK
<1>5. ASSUME NEW k \in Kinds, NEW object \in Made, Stamped(k, object)
      PROVE  Stamped(k, object)'
  <2>1. object.m_creationTimestamp \in Nat
    BY DEF Made
  <2> QED
    BY <1>1, <1>3, <1>5, <2>1 DEF Stamped
<1> QED
  BY <1>1, <1>2, <1>3, <1>4, <1>5 DEF Onward

(* A reset of a class that reads the clock comes after everything that was *)
(* made, and counts as complete for nobody yet.                            *)
LEMMA ReadClockMovesOn ==
  ASSUME ObjectsTypeOK, TimeOK, NEW k \in Kinds, reset.kind # k,
         clock' = clock, ReadClock(k),
         \A j \in Kinds : /\ m_resetTimestamp'[j] \in Nat
                          /\ m_resetTimestamp[j] <= m_resetTimestamp'[j]
                          /\ m_resetTimestamp'[j] <= clock,
         \A j \in Kinds \ {reset.kind} : m_resetTimestamp'[j] = m_resetTimestamp[j],
         reset # NoReset => m_resetTimestamp'[reset.kind] = reset.tick
  PROVE  /\ Onward /\ TimeOK'
         /\ reset' \in [kind : Kinds, tick : Nat] /\ resets' \in [Kinds -> Nat]
<1>1. /\ reset' = [kind |-> k, tick |-> clock] /\ resets'[k] = resets[k] + 1
      /\ \A j \in Kinds \ {k} : resets'[j] = resets[j]
      /\ resets' \in [Kinds -> Nat] /\ clock \in Nat
  BY DEF ReadClock, ObjectsTypeOK
<1>2. \A j \in Kinds : Completed(j) \in Nat /\ resets[j] \in Nat /\ Completed(j) <= resets[j]
  BY CompletedTyped
<1>3. /\ \A j \in Kinds : Completed(j)' = resets[j]
      /\ \A j \in Kinds \ {reset.kind} : Completed(j) = resets[j]
  BY <1>1, <1>2 DEF Completed
<1>4. TimeOK'
  BY <1>1, <1>2 DEF TimeOK
<1>5. ASSUME NEW j \in Kinds, NEW object \in Made, Stamped(j, object)
      PROVE  Stamped(j, object)'
  <2>1. object.m_creationTimestamp \in Nat /\ object.after \in Nat
    BY DEF Made
  <2>2. /\ object.m_creationTimestamp <= clock' /\ object.after <= resets'[j]
    BY <1>1, <1>2, <1>5, <2>1 DEF Stamped
  <2>3. object.after < Completed(j)' => object.m_creationTimestamp <= m_resetTimestamp'[j]
    <3>1. CASE reset.kind = j
      <4>1. reset # NoReset
        BY <3>1 DEF NoReset, Kinds
      <4> QED
        BY <1>3, <1>5, <3>1, <4>1 DEF Stamped
    <3>2. CASE reset.kind # j
      BY <1>3, <1>5, <3>2 DEF Stamped
    <3> QED
      BY <3>1, <3>2
  <2>4. reset'.kind = j /\ object.after < resets'[j] => object.m_creationTimestamp <= reset'.tick
    BY <1>1, <1>5 DEF Stamped
  <2> QED
    BY <2>2, <2>3, <2>4 DEF Stamped
<1> QED
  BY <1>1, <1>2, <1>3, <1>4, <1>5 DEF Onward

LEMMA ResetMovesOn ==
  ASSUME ObjectsTypeOK, TimeOK, Reset
  PROVE  /\ Onward /\ TimeOK'
         /\ reset' \in [kind : Kinds, tick : Nat] /\ resets' \in [Kinds -> Nat]
<1>1. /\ reset = NoReset /\ "device" \in Kinds /\ reset.kind # "device"
      /\ ReadClock("device") /\ clock' = clock /\ m_resetTimestamp' = m_resetTimestamp
  BY DEF Reset, NoReset, Kinds
<1>2. \A j \in Kinds : /\ m_resetTimestamp'[j] \in Nat
                       /\ m_resetTimestamp[j] <= m_resetTimestamp'[j]
                       /\ m_resetTimestamp'[j] <= clock
  BY <1>1 DEF ObjectsTypeOK, TimeOK
<1> QED
  BY <1>1, <1>2, ReadClockMovesOn

LEMMA StoreResetMovesOn ==
  ASSUME ObjectsTypeOK, TimeOK, StoreReset
  PROVE  /\ Onward /\ TimeOK'
         /\ m_resetTimestamp' \in [Kinds -> Nat]
         /\ reset' \in {NoReset} \cup [kind : Kinds, tick : Nat] /\ resets' \in [Kinds -> Nat]
<1>1. /\ reset # NoReset /\ reset.kind \in Kinds /\ reset.tick \in Nat
      /\ m_resetTimestamp' = [m_resetTimestamp EXCEPT ![reset.kind] = reset.tick]
      /\ clock' = clock /\ clock \in Nat
  BY DEF StoreReset, ObjectsTypeOK
<1>2. /\ m_resetTimestamp' \in [Kinds -> Nat] /\ m_resetTimestamp'[reset.kind] = reset.tick
      /\ \A j \in Kinds \ {reset.kind} : m_resetTimestamp'[j] = m_resetTimestamp[j]
      /\ \A j \in Kinds : /\ m_resetTimestamp'[j] \in Nat
                          /\ m_resetTimestamp[j] <= m_resetTimestamp'[j]
                          /\ m_resetTimestamp'[j] <= clock
  BY <1>1 DEF ObjectsTypeOK, TimeOK
<1>3. CASE reset.kind = "list"
  <2>1. reset' = NoReset /\ resets' = resets
    BY <1>3 DEF StoreReset
  <2>2. TimeOK'
    BY <1>1, <1>2, <2>1 DEF TimeOK
  <2>3. \A k \in Kinds : Completed(k) \in Nat /\ resets[k] \in Nat /\ Completed(k) <= resets[k]
    BY CompletedTyped
  <2>4. \A k \in Kinds : Completed(k)' = resets[k] /\ NoReset.kind # k
    BY <2>1 DEF Completed, NoReset, Kinds
  <2>5. \A k \in Kinds \ {reset.kind} : Completed(k) = resets[k]
    BY DEF Completed
  <2>6. ASSUME NEW k \in Kinds, NEW object \in Made, Stamped(k, object)
        PROVE  Stamped(k, object)'
    BY <1>1, <1>2, <2>1, <2>4, <2>5, <2>6 DEF Stamped
  <2> QED
    BY <1>2, <2>1, <2>2, <2>3, <2>4, <2>6 DEF Onward, ObjectsTypeOK
<1>4. CASE reset.kind # "list"
  <2>1. /\ NextKind(reset.kind) \in Kinds /\ reset.kind # NextKind(reset.kind)
        /\ ReadClock(NextKind(reset.kind))
    BY <1>1, <1>4 DEF StoreReset, NextKind, Kinds
  <2> QED
    BY <1>1, <1>2, <2>1, ReadClockMovesOn
<1> QED
  BY <1>3, <1>4

-----------------------------------------------------------------------------
(* Calls *)

(* A call a step is not about stays as it was, if nobody takes its mutex.  *)
LEMMA CallStays ==
  ASSUME ObjectsInv, Onward, NEW t \in Threads, NEW c \in Frames, CallOK(t, c),
         Holds(c) => m_mutex'[Kind(c.o)] = t /\ privateData'[c.o] = privateData[c.o],
         m_resetTimestamp' \in [Kinds -> Nat], \A k \in Kinds : Completed(k)' \in Nat
  PROVE  CallOK(t, c)'
<1>1. /\ c.o \in Objects /\ Kind(c.o) \in Kinds /\ c.object \in Made /\ c.since \in Nat
      /\ c.at \in {"check", "lock", "recheck", "construct", "store", "answer"}
  BY KindOf DEF Frames
<1>2. Stamped(Kind(c.o), c.object)' /\ c.since <= Completed(Kind(c.o))'
  <2>1. Stamped(Kind(c.o), c.object)'
    BY <1>1 DEF CallOK, Onward
  <2>2. /\ Completed(Kind(c.o)) \in Nat /\ Completed(Kind(c.o))' \in Nat
        /\ Completed(Kind(c.o)) <= Completed(Kind(c.o))' /\ c.since <= Completed(Kind(c.o))
    BY <1>1, CompletedTyped DEF ObjectsInv, CallOK, Onward
  <2> QED
    BY <1>1, <2>1, <2>2
<1>3. Holds(c) /\ ~Fresh(c.o, privateData[c.o]) => ~Fresh(c.o, privateData[c.o])'
  <2> SUFFICES ASSUME Holds(c), ~Fresh(c.o, privateData[c.o])
               PROVE  ~Fresh(c.o, privateData[c.o])'
    OBVIOUS
  <2>1. PICK d : d = privateData[c.o]
    OBVIOUS
  <2>2. privateData'[c.o] = d /\ d \in Made /\ d.m_creationTimestamp \in Nat
    BY <1>1, <2>1 DEF ObjectsInv, ObjectsTypeOK, Made
  <2>3. /\ m_resetTimestamp[Kind(c.o)] \in Nat /\ m_resetTimestamp'[Kind(c.o)] \in Nat
        /\ m_resetTimestamp[Kind(c.o)] <= m_resetTimestamp'[Kind(c.o)]
    BY <1>1 DEF ObjectsInv, ObjectsTypeOK, Onward
  <2> QED
    BY <2>1, <2>2, <2>3 DEF Fresh
<1> QED
  BY <1>1, <1>2, <1>3 DEF CallOK, Holds

(* A mutex is held by one call: a command list and its device have two.    *)
LEMMA OneHolder ==
  ASSUME ObjectsInv, NEW t \in Threads, calls[t] # <<>>,
         NEW u \in Threads, NEW k \in 1 .. Len(calls[u]), u # t \/ k # Len(calls[t]),
         Holds(calls[u][k]), m_mutex[Kind(Now(t).o)] = t
  PROVE  Kind(calls[u][k].o) # Kind(Now(t).o)
<1>1. m_mutex[Kind(calls[u][k].o)] = u
  <2>1. calls[u][k] \in ToSet(calls[u])
    BY Members DEF ObjectsInv, ObjectsTypeOK
  <2> QED
    BY <2>1 DEF ObjectsInv, CallsOK, CallOK
<1>2. CASE u # t
  BY <1>1, <1>2
<1>3. CASE u = t
  <2>1. PICK n : n = Len(calls[t])
    OBVIOUS
  <2>2. n \in Nat /\ Now(t) = calls[t][n]
    BY <2>1, Innermost DEF ObjectsInv, ObjectsTypeOK, Now
  <2>3. n <= 2 /\ (n = 2 => calls[t][1].o \in CommandLists /\ calls[t][2].o \in Devices)
    BY <2>1 DEF ObjectsInv, CallsOK, StackOK
  <2>4. k \in 1 .. n /\ k # n
    BY <1>3, <2>1
  <2>5. k = 1 /\ n = 2
    BY <2>2, <2>3, <2>4
  <2>6. Kind(calls[t][1].o) = "list" /\ Kind(calls[t][2].o) = "device"
    BY <2>3, <2>5, KindOf DEF Objects
  <2> QED
    BY <1>3, <2>2, <2>5, <2>6
<1> QED
  BY <1>2, <1>3

\* A step that is about the innermost call of a thread leaves the others what they hold.
OthersHold(t) ==
  \A u \in Threads : \A k \in 1 .. Len(calls[u]) :
    (u # t \/ k # Len(calls[t])) /\ Holds(calls[u][k]) =>
      LET o == calls[u][k].o
      IN  m_mutex'[Kind(o)] = u /\ privateData'[o] = privateData[o]

(* A step of a thread's innermost call, whose new state is `c`.            *)
LEMMA CallSteps ==
  ASSUME ObjectsInv, TimeStops, NEW t \in Threads, calls[t] # <<>>,
         NEW c \in Frames, c.o = Now(t).o, Update(t, c),
         OthersHold(t), DataOK', CallOK(t, c)',
         m_mutex' \in [Kinds -> Threads \cup {Nobody, Resetter}],
         privateData' \in [Objects -> Made]
  PROVE  ObjectsInv'
<1>1. PICK r : r = Append(Front(calls[t]), c)
  OBVIOUS
<1>2. calls[t] \in Seq(Frames)
  BY DEF ObjectsInv, ObjectsTypeOK
<1>3. /\ Len(calls[t]) \in Nat \ {0} /\ Now(t) = calls[t][Len(calls[t])]
      /\ r \in Seq(Frames) /\ Len(r) = Len(calls[t]) /\ r[Len(calls[t])] = c
      /\ \A k \in 1 .. Len(calls[t]) - 1 : r[k] = calls[t][k]
  BY <1>1, <1>2, Innermost, Replaced DEF Now
<1>4. /\ calls'[t] = r /\ calls' \in [Threads -> Seq(Frames)]
      /\ \A u \in Threads \ {t} : calls'[u] = calls[u]
  BY <1>1, <1>3 DEF Update, ObjectsInv, ObjectsTypeOK
<1>5. ObjectsTypeOK' /\ TimeOK' /\ Onward
  BY <1>4, TimeMayStop DEF ObjectsInv, ObjectsTypeOK, TimeStops
<1>6. m_resetTimestamp' \in [Kinds -> Nat] /\ \A k \in Kinds : Completed(k)' \in Nat
  <2>1. \A k \in Kinds : Completed(k) \in Nat
    BY CompletedTyped DEF ObjectsInv
  <2> QED
    BY <1>5, <2>1 DEF ObjectsTypeOK, TimeStops, Completed
<1>7. ASSUME NEW u \in Threads, NEW k \in 1 .. Len(calls[u]), u # t \/ k # Len(calls[t]),
             NEW d, d = calls[u][k]
      PROVE  CallOK(u, d)'
  <2>1. d \in Frames /\ CallOK(u, d)
    BY <1>7, ElementOfSeq, Members DEF ObjectsInv, ObjectsTypeOK, CallsOK
  <2>2. Holds(d) => m_mutex'[Kind(d.o)] = u /\ privateData'[d.o] = privateData[d.o]
    BY <1>7 DEF OthersHold
  <2> QED
    BY <1>5, <1>6, <2>1, <2>2, CallStays
<1>8. ASSUME NEW u \in Threads, NEW d \in ToSet(calls'[u]) PROVE CallOK(u, d)'
  <2>1. PICK k \in 1 .. Len(calls'[u]) : d = calls'[u][k]
    BY <1>4, Members
  <2>2. CASE u # t
    BY <1>4, <1>7, <2>1, <2>2
  <2>3. CASE u = t
    <3>1. k \in 1 .. Len(calls[t]) /\ d = r[k]
      BY <1>3, <1>4, <2>1, <2>3
    <3>2. CASE k = Len(calls[t])
      BY <1>3, <2>3, <3>1, <3>2
    <3>3. CASE k # Len(calls[t])
      <4>1. k \in 1 .. Len(calls[t]) - 1
        BY <1>3, <3>1, <3>3
      <4> QED
        BY <1>3, <1>7, <2>3, <3>1, <3>3, <4>1
    <3> QED
      BY <3>2, <3>3
  <2> QED
    BY <2>2, <2>3
<1>9. ASSUME NEW u \in Threads PROVE StackOK(calls[u])'
  <2>1. StackOK(calls[u])
    BY DEF ObjectsInv, CallsOK
  <2>2. CASE u # t
    BY <1>4, <2>1, <2>2 DEF StackOK
  <2>3. CASE u = t
    <3>1. Len(calls[t]) = 2 => r[1].o = calls[t][1].o /\ r[2].o = calls[t][2].o
      BY <1>3
    <3> QED
      BY <1>3, <1>4, <2>1, <2>3, <3>1 DEF StackOK
  <2> QED
    BY <2>2, <2>3
<1>10. CallsOK'
  BY <1>8, <1>9 DEF CallsOK
<1> QED
  BY <1>5, <1>10 DEF ObjectsInv

(* Steps that leave time, the mutexes and the private data alone.          *)
LEMMA QuietCall ==
  ASSUME TimeStops, UNCHANGED <<m_mutex, privateData>>, NEW t, NEW c
  PROVE  CallOK(t, c)' <=> CallOK(t, c)
  BY DEF TimeStops, CallOK, Stamped, Completed, Fresh

LEMMA QuietOthers ==
  ASSUME ObjectsInv, UNCHANGED <<m_mutex, privateData>>, NEW t \in Threads
  PROVE  OthersHold(t)
<1> SUFFICES ASSUME NEW u \in Threads, NEW k \in 1 .. Len(calls[u]), Holds(calls[u][k])
             PROVE  m_mutex[Kind(calls[u][k].o)] = u
  BY DEF OthersHold
<1>1. calls[u][k] \in ToSet(calls[u])
  BY Members DEF ObjectsInv, ObjectsTypeOK
<1> QED
  BY <1>1 DEF ObjectsInv, CallsOK, CallOK

LEMMA DataStays ==
  ASSUME ObjectsInv, TimeStops
  PROVE  \A k \in Kinds : \A object \in Made : Stamped(k, object) => Stamped(k, object)'
  BY TimeMayStop DEF ObjectsInv, Onward

LEMMA QuietData ==
  ASSUME ObjectsInv, TimeStops, UNCHANGED privateData
  PROVE  DataOK'
<1> SUFFICES ASSUME NEW o \in Objects, NEW d, d = privateData[o] PROVE Stamped(Kind(o), d)'
  BY DEF DataOK, Stamped, Completed, TimeStops
<1>1. d \in Made /\ Kind(o) \in Kinds /\ Stamped(Kind(o), d)
  BY KindOf DEF ObjectsInv, ObjectsTypeOK, DataOK
<1> QED
  BY <1>1, DataStays

(* What is fresh was made after all resets that are complete.              *)
LEMMA FreshIsNew ==
  ASSUME ObjectsInv, NEW o \in Objects, NEW object \in Made, Stamped(Kind(o), object),
         Fresh(o, object)
  PROVE  object.after >= Completed(Kind(o))
<1>1. object.after \in Nat /\ object.m_creationTimestamp \in Nat
  BY DEF Made
<1>2. Completed(Kind(o)) \in Nat /\ m_resetTimestamp[Kind(o)] \in Nat
  BY KindOf, CompletedTyped DEF ObjectsInv, ObjectsTypeOK
<1> QED
  BY <1>1, <1>2 DEF Stamped, Fresh

LEMMA NothingStamped ==
  ASSUME ObjectsInv, NEW k \in Kinds
  PROVE  Nothing \in Made /\ Stamped(k, Nothing)
<1>1. /\ clock \in Nat /\ resets[k] \in Nat /\ m_resetTimestamp[k] \in Nat
      /\ Completed(k) \in Nat
  BY CompletedTyped DEF ObjectsInv, ObjectsTypeOK
<1>2. reset.kind = k => reset.tick \in Nat
  BY DEF ObjectsInv, ObjectsTypeOK, NoReset, Kinds
<1> QED
  BY <1>1, <1>2 DEF Nothing, NvapiObject, Made, Stamped

(* The innermost call of a thread.                                         *)
LEMMA TheCall ==
  ASSUME ObjectsInv, NEW t \in Threads, calls[t] # <<>>
  PROVE  /\ Now(t) \in Frames /\ CallOK(t, Now(t))
         /\ Now(t).o \in Objects /\ Now(t).object \in Made /\ Now(t).since \in Nat
         /\ Kind(Now(t).o) \in Kinds
<1>1. calls[t] \in Seq(Frames)
  BY DEF ObjectsInv, ObjectsTypeOK
<1>2. Now(t) \in Frames /\ Now(t) \in ToSet(calls[t])
  BY <1>1, Innermost DEF Now
<1>3. CallOK(t, Now(t))
  BY <1>2 DEF ObjectsInv, CallsOK
<1> QED
  BY <1>2, <1>3, KindOf DEF Frames

LEMMA CheckStep ==
  ASSUME ObjectsInv, NEW t \in Threads, Check(t)
  PROVE  ObjectsInv'
<1>0. PICK now : now = Now(t)
  OBVIOUS
<1>1. /\ calls[t] # <<>> /\ now.at = "check" /\ TimeStops /\ UNCHANGED <<m_mutex, privateData>>
  BY <1>0 DEF Check, In, Now, TimeStops
<1>2. /\ now \in Frames /\ CallOK(t, now) /\ now.o \in Objects /\ now.object \in Made
      /\ now.since \in Nat /\ Kind(now.o) \in Kinds
  BY <1>0, <1>1, TheCall
<1>3. PICK c : /\ Update(t, c)
               /\ \/ Fresh(now.o, now.object) /\ c = [now EXCEPT !.at = "answer", !.object = now.object]
                  \/ c = [now EXCEPT !.at = "lock", !.object = Nothing]
  BY <1>0 DEF Check, Answer
<1>4. CASE Fresh(now.o, now.object) /\ c = [now EXCEPT !.at = "answer", !.object = now.object]
  <2>1. /\ c \in Frames /\ c.o = now.o /\ c.at = "answer" /\ c.object = now.object
        /\ c.since = now.since
    BY <1>2, <1>4 DEF Frames
  <2>2. c.object.after >= c.since
    <3>1. /\ Completed(Kind(now.o)) \in Nat /\ now.since <= Completed(Kind(now.o))
          /\ Stamped(Kind(now.o), now.object) /\ now.object.after \in Nat
      BY <1>2, CompletedTyped DEF ObjectsInv, CallOK, Made
    <3>2. now.object.after >= Completed(Kind(now.o))
      BY <1>2, <1>4, <3>1, FreshIsNew
    <3> QED
      BY <1>2, <2>1, <3>1, <3>2
  <2>3. CallOK(t, c)
    BY <1>2, <2>1, <2>2 DEF CallOK, Holds
  <2> QED
    BY <1>0, <1>1, <1>3, <2>1, <2>3, CallSteps, QuietCall, QuietOthers, QuietData
    DEF ObjectsInv, ObjectsTypeOK
<1>5. CASE c = [now EXCEPT !.at = "lock", !.object = Nothing]
  <2>1. Nothing \in Made /\ Stamped(Kind(now.o), Nothing)
    BY <1>2, NothingStamped
  <2>2. /\ c \in Frames /\ c.o = now.o /\ c.at = "lock" /\ c.object = Nothing /\ c.since = now.since
    BY <1>2, <1>5, <2>1 DEF Frames
  <2>3. CallOK(t, c)
    BY <1>2, <2>1, <2>2 DEF CallOK, Holds
  <2> QED
    BY <1>0, <1>1, <1>3, <2>2, <2>3, CallSteps, QuietCall, QuietOthers, QuietData
    DEF ObjectsInv, ObjectsTypeOK
<1> QED
  BY <1>3, <1>4, <1>5

LEMMA LockStep ==
  ASSUME ObjectsInv, NEW t \in Threads, Lock(t)
  PROVE  ObjectsInv'
<1>0. PICK now, o, k : now = Now(t) /\ o = now.o /\ k = Kind(o)
  OBVIOUS
<1>1. /\ calls[t] # <<>> /\ now.at = "lock" /\ TimeStops /\ privateData' = privateData
      /\ m_mutex[k] = Nobody /\ m_mutex' = [m_mutex EXCEPT ![k] = t]
      /\ Update(t, [now EXCEPT !.at = "recheck", !.object = privateData[o]])
  BY <1>0 DEF Lock, In, Now, TimeStops, MutexOf
<1>2. /\ now \in Frames /\ CallOK(t, now) /\ o \in Objects /\ now.since \in Nat /\ k \in Kinds
      /\ privateData[o] \in Made
  BY <1>0, <1>1, TheCall DEF ObjectsInv, ObjectsTypeOK
<1>3. PICK c : c = [now EXCEPT !.at = "recheck", !.object = privateData[o]]
  OBVIOUS
<1>4. /\ c \in Frames /\ c.o = o /\ c.at = "recheck" /\ c.object = privateData[o]
      /\ c.since = now.since
  BY <1>0, <1>2, <1>3 DEF Frames
<1>5. /\ m_mutex' \in [Kinds -> Threads \cup {Nobody, Resetter}] /\ m_mutex'[k] = t
      /\ \A j \in Kinds \ {k} : m_mutex'[j] = m_mutex[j]
      /\ privateData' \in [Objects -> Made]
  BY <1>1, <1>2 DEF ObjectsInv, ObjectsTypeOK
<1>6. OthersHold(t)
  <2> SUFFICES ASSUME NEW u \in Threads, NEW j \in 1 .. Len(calls[u]), Holds(calls[u][j])
               PROVE  m_mutex'[Kind(calls[u][j].o)] = u
    BY <1>1 DEF OthersHold
  <2>1. PICK d : d = calls[u][j]
    OBVIOUS
  <2>2. d \in Frames /\ d \in ToSet(calls[u]) /\ Holds(d)
    BY <2>1, Members, ElementOfSeq DEF ObjectsInv, ObjectsTypeOK
  <2>3. m_mutex[Kind(d.o)] = u /\ Kind(d.o) \in Kinds
    BY <2>2, KindOf DEF ObjectsInv, CallsOK, CallOK, Frames
  <2>4. u # Nobody
    BY ThreadsAssumption DEF Nobody
  <2> QED
    BY <1>1, <1>5, <2>1, <2>3, <2>4
<1>7. CallOK(t, c)'
  <2>1. Stamped(k, c.object)'
    <3>1. Stamped(k, privateData[o])
      BY <1>0, <1>2 DEF ObjectsInv, DataOK
    <3> QED
      BY <1>1, <1>2, <1>4, <3>1, DataStays
  <2>2. c.since <= Completed(k)'
    BY <1>0, <1>1, <1>2, <1>4 DEF CallOK, Completed, TimeStops
  <2> QED
    BY <1>0, <1>1, <1>4, <1>5, <2>1, <2>2 DEF CallOK, Holds
<1> QED
  BY <1>0, <1>1, <1>3, <1>4, <1>5, <1>6, <1>7, CallSteps, QuietData

(* Giving back the mutex of the innermost call, which may have stored.     *)
LEMMA OthersHoldOn ==
  ASSUME ObjectsInv, NEW t \in Threads, calls[t] # <<>>, Holds(Now(t)),
         m_mutex' = [m_mutex EXCEPT ![Kind(Now(t).o)] = Nobody],
         \A o \in Objects : Kind(o) # Kind(Now(t).o) => privateData'[o] = privateData[o]
  PROVE  OthersHold(t)
<1>1. m_mutex[Kind(Now(t).o)] = t /\ Kind(Now(t).o) \in Kinds
  BY TheCall DEF CallOK
<1> SUFFICES ASSUME NEW u \in Threads, NEW j \in 1 .. Len(calls[u]),
                    u # t \/ j # Len(calls[t]), Holds(calls[u][j])
             PROVE  /\ m_mutex'[Kind(calls[u][j].o)] = u
                    /\ privateData'[calls[u][j].o] = privateData[calls[u][j].o]
  BY DEF OthersHold
<1>2. PICK d : d = calls[u][j]
  OBVIOUS
<1>3. d \in Frames /\ d \in ToSet(calls[u]) /\ Holds(d)
  BY <1>2, Members, ElementOfSeq DEF ObjectsInv, ObjectsTypeOK
<1>4. m_mutex[Kind(d.o)] = u /\ Kind(d.o) \in Kinds /\ d.o \in Objects
  BY <1>3, KindOf DEF ObjectsInv, CallsOK, CallOK, Frames
<1>5. Kind(d.o) # Kind(Now(t).o)
  BY <1>1, <1>2, OneHolder
<1> QED
  BY <1>1, <1>2, <1>4, <1>5 DEF ObjectsInv, ObjectsTypeOK

LEMMA RecheckStep ==
  ASSUME ObjectsInv, NEW t \in Threads, Recheck(t)
  PROVE  ObjectsInv'
<1>0. PICK now, o, k : now = Now(t) /\ o = now.o /\ k = Kind(o)
  OBVIOUS
<1>1. /\ calls[t] # <<>> /\ now.at = "recheck" /\ TimeStops /\ privateData' = privateData
  BY <1>0 DEF Recheck, In, Now, TimeStops
<1>2. /\ now \in Frames /\ CallOK(t, now) /\ o \in Objects /\ now.since \in Nat /\ k \in Kinds
      /\ now.object \in Made /\ now.object = privateData[o] /\ m_mutex[k] = t
  BY <1>0, <1>1, TheCall DEF CallOK, Holds
<1>3. /\ Completed(k) \in Nat /\ now.since <= Completed(k) /\ Completed(k) <= resets[k]
      /\ resets[k] \in Nat /\ clock \in Nat
      /\ Stamped(k, now.object) /\ now.object.after \in Nat
  BY <1>0, <1>2, CompletedTyped DEF ObjectsInv, ObjectsTypeOK, CallOK, Made
<1>4. ASSUME NEW object \in Made, Stamped(k, object), object # Nothing => object.after >= now.since,
             Unlock(o), Answer(t, object)
      PROVE  ObjectsInv'
  <2>1. PICK c : c = [now EXCEPT !.at = "answer", !.object = object]
    OBVIOUS
  <2>2. /\ c \in Frames /\ c.o = o /\ c.at = "answer" /\ c.object = object /\ c.since = now.since
    BY <1>0, <1>2, <1>4, <2>1 DEF Frames
  <2>3. Update(t, c)
    BY <1>0, <1>4, <2>1 DEF Answer
  <2>4. m_mutex' = [m_mutex EXCEPT ![k] = Nobody]
    BY <1>0, <1>4 DEF Unlock, MutexOf
  <2>5. m_mutex' \in [Kinds -> Threads \cup {Nobody, Resetter}]
    BY <2>4 DEF ObjectsInv, ObjectsTypeOK
  <2>6. OthersHold(t)
    BY <1>0, <1>1, <2>4, OthersHoldOn DEF Holds
  <2>7. Stamped(k, c.object)'
    BY <1>1, <1>2, <1>4, <2>2, DataStays
  <2>8. c.since <= Completed(k)'
    BY <1>1, <1>3, <2>2 DEF Completed, TimeStops
  <2>9. CallOK(t, c)'
    BY <1>0, <1>4, <2>2, <2>7, <2>8 DEF CallOK, Holds
  <2> QED
    BY <1>0, <1>1, <2>2, <2>3, <2>5, <2>6, <2>9, CallSteps, QuietData DEF ObjectsInv, ObjectsTypeOK
<1>5. CASE Fresh(o, now.object) /\ Unlock(o) /\ Answer(t, now.object)
  <2>1. now.object.after >= now.since
    <3>1. now.object.after >= Completed(k)
      BY <1>0, <1>2, <1>3, <1>5, FreshIsNew
    <3> QED
      BY <1>2, <1>3, <3>1
  <2> QED
    BY <1>2, <1>3, <1>4, <1>5, <2>1
<1>6. CASE Unlock(o) /\ Answer(t, Nothing)
  BY <1>2, <1>4, <1>6, NothingStamped
<1>7. ASSUME ~Fresh(o, now.object), UNCHANGED m_mutex,
             NEW at, at = IF o \in CommandLists THEN "construct" ELSE "store",
             Update(t, [now EXCEPT !.at = at, !.object = NvapiObject(clock, resets[k])])
      PROVE  ObjectsInv'
  <2>1. PICK made, c : made = NvapiObject(clock, resets[k]) /\ c = [now EXCEPT !.at = at, !.object = made]
    OBVIOUS
  <2>2. made \in Made /\ made.after = resets[k] /\ made.m_creationTimestamp = clock
    BY <1>3, <2>1 DEF Made, NvapiObject
  <2>3. /\ c \in Frames /\ c.o = o /\ c.at = at /\ c.object = made /\ c.since = now.since
        /\ at \in {"construct", "store"} /\ (at = "construct" => o \in CommandLists)
    BY <1>0, <1>2, <1>7, <2>1, <2>2 DEF Frames
  <2>4. Stamped(k, made)
    BY <1>3, <2>2 DEF Stamped
  <2>5. made.after >= now.since
    BY <1>2, <1>3, <2>2
  <2>6. CallOK(t, c)
    BY <1>0, <1>2, <1>3, <1>7, <2>3, <2>4, <2>5 DEF CallOK, Holds
  <2> QED
    BY <1>0, <1>1, <1>7, <2>1, <2>3, <2>6, CallSteps, QuietCall, QuietOthers, QuietData
    DEF ObjectsInv, ObjectsTypeOK
<1>8. \/ Fresh(o, now.object) /\ Unlock(o) /\ Answer(t, now.object)
      \/ Unlock(o) /\ Answer(t, Nothing)
      \/ /\ ~Fresh(o, now.object) /\ UNCHANGED m_mutex
         /\ Update(t, [now EXCEPT !.at = IF o \in CommandLists THEN "construct" ELSE "store",
                                  !.object = NvapiObject(clock, resets[k])])
  BY <1>0 DEF Recheck
<1> QED
  BY <1>5, <1>6, <1>7, <1>8

LEMMA StoreStep ==
  ASSUME ObjectsInv, NEW t \in Threads, Store(t)
  PROVE  ObjectsInv'
<1>0. PICK now, o, k : now = Now(t) /\ o = now.o /\ k = Kind(o)
  OBVIOUS
<1>1. /\ calls[t] # <<>> /\ now.at = "store" /\ TimeStops
      /\ privateData' = [privateData EXCEPT ![o] = now.object]
      /\ m_mutex' = [m_mutex EXCEPT ![k] = Nobody]
      /\ Update(t, [now EXCEPT !.at = "answer", !.object = now.object])
  BY <1>0 DEF Store, In, Now, TimeStops, Unlock, MutexOf, Answer
<1>2. /\ now \in Frames /\ CallOK(t, now) /\ o \in Objects /\ now.since \in Nat /\ k \in Kinds
      /\ now.object \in Made /\ m_mutex[k] = t /\ now.object.after >= now.since
      /\ now.since <= Completed(k) /\ Stamped(k, now.object)
  BY <1>0, <1>1, TheCall DEF CallOK, Holds
<1>3. PICK c : c = [now EXCEPT !.at = "answer", !.object = now.object]
  OBVIOUS
<1>4. /\ c \in Frames /\ c.o = o /\ c.at = "answer" /\ c.object = now.object /\ c.since = now.since
  BY <1>0, <1>2, <1>3 DEF Frames
<1>5. /\ m_mutex' \in [Kinds -> Threads \cup {Nobody, Resetter}]
      /\ privateData' \in [Objects -> Made] /\ privateData'[o] = now.object
      /\ \A p \in Objects \ {o} : privateData'[p] = privateData[p]
  BY <1>1, <1>2 DEF ObjectsInv, ObjectsTypeOK
<1>6. OthersHold(t)
  BY <1>0, <1>1, <1>5, OthersHoldOn DEF Holds
<1>7. Stamped(k, now.object)'
  BY <1>1, <1>2, DataStays
<1>8. DataOK'
  <2> SUFFICES ASSUME NEW p \in Objects, NEW d, d = privateData'[p] PROVE Stamped(Kind(p), d)'
    BY DEF DataOK, Stamped, Completed, TimeStops
  <2>1. CASE p = o
    BY <1>0, <1>5, <1>7, <2>1
  <2>2. CASE p # o
    <3>1. d = privateData[p] /\ d \in Made /\ Kind(p) \in Kinds /\ Stamped(Kind(p), d)
      BY <1>5, <2>2, KindOf DEF ObjectsInv, ObjectsTypeOK, DataOK
    <3> QED
      BY <1>1, <3>1, DataStays
  <2> QED
    BY <2>1, <2>2
<1>9. CallOK(t, c)'
  <2>1. c.since <= Completed(k)'
    BY <1>1, <1>2, <1>4 DEF Completed, TimeStops
  <2> QED
    BY <1>0, <1>2, <1>4, <1>7, <2>1 DEF CallOK, Holds
<1> QED
  BY <1>0, <1>1, <1>3, <1>4, <1>5, <1>6, <1>8, <1>9, CallSteps

(* Steps that begin calls or end them, and do nothing else.                *)
LEMMA QuietStackSteps ==
  ASSUME ObjectsInv, TimeStops, UNCHANGED <<m_mutex, privateData>>, NEW t \in Threads,
         NEW r \in Seq(Frames), calls' = [calls EXCEPT ![t] = r], StackOK(r),
         \A c \in ToSet(r) : c \in ToSet(calls[t]) \/ CallOK(t, c)
  PROVE  ObjectsInv'
<1>1. /\ calls'[t] = r /\ calls' \in [Threads -> Seq(Frames)]
      /\ \A u \in Threads \ {t} : calls'[u] = calls[u]
  BY DEF ObjectsInv, ObjectsTypeOK
<1>2. ObjectsTypeOK' /\ TimeOK'
  BY <1>1, TimeMayStop DEF ObjectsInv, ObjectsTypeOK, TimeStops
<1>3. ASSUME NEW u \in Threads, NEW c \in ToSet(calls'[u]) PROVE CallOK(u, c)'
  <2>1. CallOK(u, c)
    BY <1>1 DEF ObjectsInv, CallsOK
  <2> QED
    BY <2>1, QuietCall
<1>4. ASSUME NEW u \in Threads PROVE StackOK(calls[u])'
  <2>1. StackOK(calls'[u])
    BY <1>1 DEF ObjectsInv, CallsOK
  <2> QED
    BY <2>1 DEF StackOK
<1> QED
  BY <1>2, <1>3, <1>4, QuietData DEF ObjectsInv, CallsOK

(* A call that begins.                                                     *)
LEMMA CallBegins ==
  ASSUME ObjectsInv, NEW t \in Threads, NEW o \in Objects
  PROVE  Call(o) \in Frames /\ CallOK(t, Call(o)) /\ Call(o).o = o
<1>1. Kind(o) \in Kinds /\ Completed(Kind(o)) \in Nat /\ privateData[o] \in Made
  BY KindOf, CompletedTyped DEF ObjectsInv, ObjectsTypeOK
<1>2. PICK c : c = Call(o)
  OBVIOUS
<1>3. /\ c \in Frames /\ c.o = o /\ c.at = "check" /\ c.object = privateData[o]
      /\ c.since = Completed(Kind(o))
  BY <1>1, <1>2 DEF Call, Frames
<1>4. CallOK(t, c)
  BY <1>1, <1>3 DEF ObjectsInv, DataOK, CallOK, Holds
<1> QED
  BY <1>2, <1>3, <1>4

LEMMA GetOrCreateStep ==
  ASSUME ObjectsInv, NEW t \in Threads, NEW o \in Objects, GetOrCreate(t, o)
  PROVE  ObjectsInv'
<1>1. PICK c, r : c = Call(o) /\ r = <<c>>
  OBVIOUS
<1>2. c \in Frames /\ CallOK(t, c)
  BY <1>1, CallBegins
<1>3. r \in Seq(Frames) /\ Len(r) = 1 /\ r[1] = c
  BY <1>1, <1>2
<1>4. StackOK(r) /\ \A d \in ToSet(r) : CallOK(t, d)
  BY <1>2, <1>3, Members DEF StackOK
<1>5. /\ TimeStops /\ UNCHANGED <<m_mutex, privateData>>
      /\ calls' = [calls EXCEPT ![t] = r]
  BY <1>1 DEF GetOrCreate, TimeStops
<1> QED
  BY <1>3, <1>4, <1>5, QuietStackSteps

LEMMA ConstructStep ==
  ASSUME ObjectsInv, NEW t \in Threads, Construct(t)
  PROVE  ObjectsInv'
<1>0. PICK now, s : now = Now(t) /\ s = calls[t]
  OBVIOUS
<1>1. /\ s # <<>> /\ now.at = "construct" /\ TimeStops /\ UNCHANGED <<m_mutex, privateData>>
      /\ s \in Seq(Frames)
  BY <1>0 DEF Construct, In, Now, TimeStops, ObjectsInv, ObjectsTypeOK
<1>2. now \in Frames /\ CallOK(t, now) /\ now.o \in CommandLists
  BY <1>0, <1>1, TheCall DEF CallOK
<1>3. DeviceOf[now.o] \in Devices /\ DeviceOf[now.o] \in Objects
  BY <1>2, DeviceOfAssumption DEF Objects
<1>4. PICK c, d : c = [now EXCEPT !.at = "store"] /\ d = Call(DeviceOf[now.o])
  OBVIOUS
<1>5. /\ c \in Frames /\ c.o = now.o /\ c.at = "store" /\ c.object = now.object
      /\ c.since = now.since
  BY <1>2, <1>4 DEF Frames
<1>6. d \in Frames /\ d.o \in Devices /\ CallOK(t, d)
  BY <1>3, <1>4, CallBegins
<1>7. CallOK(t, c)
  BY <1>1, <1>2, <1>5 DEF CallOK, Holds
<1>8. Len(s) = 1
  <2>1. PICK n : n = Len(s)
    OBVIOUS
  <2>2. n \in Nat \ {0} /\ now = s[n]
    BY <1>0, <1>1, <2>1, Innermost DEF Now
  <2>3. n <= 2 /\ (n = 2 => s[2].o \in Devices)
    BY <1>0, <2>1 DEF ObjectsInv, CallsOK, StackOK
  <2>4. n # 2
    BY <1>2, <2>2, <2>3, KindsAssumption
  <2>5. n = 1
    BY <2>2, <2>3, <2>4
  <2> QED
    BY <2>1, <2>5
<1>9. PICK f, r : f = Append(Front(s), c) /\ r = Append(f, d)
  OBVIOUS
<1>10. f \in Seq(Frames) /\ Len(f) = 1 /\ f[1] = c
  BY <1>1, <1>5, <1>8, <1>9, Replaced
<1>11. r \in Seq(Frames) /\ Len(r) = 2 /\ r[1] = c /\ r[2] = d
  BY <1>6, <1>9, <1>10, AppendProperties
<1>12. StackOK(r)
  BY <1>2, <1>5, <1>6, <1>11 DEF StackOK
<1>13. \A e \in ToSet(r) : CallOK(t, e)
  <2>1. \A e \in ToSet(r) : e = c \/ e = d
    <3> SUFFICES ASSUME NEW e \in ToSet(r) PROVE e = c \/ e = d
      OBVIOUS
    <3>1. PICK k \in 1 .. Len(r) : e = r[k]
      BY <1>11, Members
    <3>2. k = 1 \/ k = 2
      BY <1>11
    <3> QED
      BY <1>11, <3>1, <3>2
  <2> QED
    BY <1>6, <1>7, <2>1
<1>14. calls' = [calls EXCEPT ![t] = r]
  BY <1>0, <1>4, <1>9 DEF Construct
<1> QED
  BY <1>1, <1>11, <1>12, <1>13, <1>14, QuietStackSteps

LEMMA ReturnStep ==
  ASSUME ObjectsInv, NEW t \in Threads, Return(t)
  PROVE  ObjectsInv'
<1>1. PICK s, r : s = calls[t] /\ r = Front(s)
  OBVIOUS
<1>2. /\ s # <<>> /\ s \in Seq(Frames) /\ TimeStops /\ UNCHANGED <<m_mutex, privateData>>
      /\ calls' = [calls EXCEPT ![t] = r]
  BY <1>1 DEF Return, In, TimeStops, ObjectsInv, ObjectsTypeOK
<1>3. /\ Len(s) \in Nat \ {0} /\ r \in Seq(Frames) /\ Len(r) = Len(s) - 1
      /\ \A k \in 1 .. Len(s) - 1 : r[k] = s[k]
  BY <1>1, <1>2, Innermost
<1>4. StackOK(r)
  <2>1. Len(s) <= 2
    BY <1>1 DEF ObjectsInv, CallsOK, StackOK
  <2> QED
    BY <1>3, <2>1 DEF StackOK
<1>5. \A c \in ToSet(r) : c \in ToSet(calls[t])
  <2> SUFFICES ASSUME NEW c \in ToSet(r) PROVE c \in ToSet(s)
    BY <1>1
  <2>1. PICK k \in 1 .. Len(r) : c = r[k]
    BY <1>3, Members
  <2>2. k \in 1 .. Len(s) /\ c = s[k]
    BY <1>3, <2>1
  <2> QED
    BY <1>2, <2>2, Members
<1> QED
  BY <1>2, <1>3, <1>4, <1>5, QuietStackSteps

(* The clock and the resets: no call ends, and a Reset takes a mutex only  *)
(* if nobody has it, or gives back its own.                                *)
LEMMA TimeSteps ==
  ASSUME ObjectsInv, Tick \/ Reset \/ StoreReset
  PROVE  ObjectsInv'
<1>1. UNCHANGED <<calls, privateData>>
  BY DEF Tick, Reset, StoreReset
<1>2. /\ Onward /\ TimeOK' /\ clock' \in Nat \ {0} /\ m_resetTimestamp' \in [Kinds -> Nat]
      /\ reset' \in {NoReset} \cup [kind : Kinds, tick : Nat] /\ resets' \in [Kinds -> Nat]
  <2>1. CASE Tick
    BY <2>1, TickMovesOn DEF ObjectsInv, ObjectsTypeOK, Tick
  <2>2. CASE Reset
    BY <2>2, ResetMovesOn DEF ObjectsInv, ObjectsTypeOK, Reset
  <2>3. CASE StoreReset
    BY <2>3, StoreResetMovesOn DEF ObjectsInv, ObjectsTypeOK, StoreReset
  <2> QED
    BY <2>1, <2>2, <2>3
<1>3. /\ m_mutex' \in [Kinds -> Threads \cup {Nobody, Resetter}]
      /\ \A k \in Kinds : \A t \in Threads : m_mutex[k] = t => m_mutex'[k] = t
  <2>1. m_mutex \in [Kinds -> Threads \cup {Nobody, Resetter}] /\ "device" \in Kinds
    BY DEF ObjectsInv, ObjectsTypeOK, Kinds
  <2>2. \A t \in Threads : t # Nobody /\ t # Resetter
    BY ThreadsAssumption DEF Nobody, Resetter
  <2>3. CASE Tick
    BY <2>1, <2>3 DEF Tick
  <2>4. CASE Reset
    BY <2>1, <2>2, <2>4 DEF Reset
  <2>5. CASE StoreReset
    BY <2>1, <2>2, <2>5 DEF StoreReset
  <2> QED
    BY <2>3, <2>4, <2>5
<1>4. ObjectsTypeOK'
  BY <1>1, <1>2, <1>3 DEF ObjectsInv, ObjectsTypeOK
<1>5. DataOK'
  <2> SUFFICES ASSUME NEW o \in Objects, NEW d, d = privateData[o] PROVE Stamped(Kind(o), d)'
    BY <1>1 DEF DataOK, Stamped, Completed
  <2>1. d \in Made /\ Kind(o) \in Kinds /\ Stamped(Kind(o), d)
    BY KindOf DEF ObjectsInv, ObjectsTypeOK, DataOK
  <2> QED
    BY <1>2, <2>1 DEF Onward
<1>6. ASSUME NEW k \in Kinds PROVE Completed(k)' \in Nat
  <2>1. resets'[k] \in Nat
    BY <1>2
  <2>2. reset'.kind = k => resets'[k] >= 1
    BY <1>2 DEF TimeOK, NoReset, Kinds
  <2> QED
    BY <2>1, <2>2 DEF Completed
<1>7. ASSUME NEW t \in Threads, NEW c \in ToSet(calls[t]) PROVE CallOK(t, c)'
  <2>1. c \in Frames /\ CallOK(t, c)
    BY Members, ElementOfSeq DEF ObjectsInv, ObjectsTypeOK, CallsOK
  <2>2. Holds(c) => m_mutex'[Kind(c.o)] = t /\ privateData'[c.o] = privateData[c.o]
    BY <1>1, <1>3, <2>1, KindOf DEF CallOK, Frames
  <2> QED
    BY <1>2, <1>6, <2>1, <2>2, CallStays
<1>8. ASSUME NEW t \in Threads PROVE StackOK(calls[t])'
  BY <1>1 DEF ObjectsInv, CallsOK, StackOK
<1> QED
  BY <1>1, <1>2, <1>4, <1>5, <1>7, <1>8 DEF ObjectsInv, CallsOK

-----------------------------------------------------------------------------
(* All steps, and what they keep *)

LEMMA ObjectsInit == Init => ObjectsInv
<1> SUFFICES ASSUME Init PROVE ObjectsInv
  OBVIOUS
<1>1. /\ reset = NoReset /\ resets = [k \in Kinds |-> 0] /\ clock = 1
      /\ m_resetTimestamp = [k \in Kinds |-> 0] /\ privateData = [o \in Objects |-> Nothing]
      /\ calls = [t \in Threads |-> <<>>] /\ m_mutex = [k \in Kinds |-> Nobody]
  BY DEF Init
<1>2. <<>> \in Seq(Frames) /\ Len(<<>>) = 0
  BY EmptySeq
<1>3. ObjectsTypeOK /\ TimeOK
  BY <1>1, <1>2 DEF ObjectsTypeOK, TimeOK, Nothing, NvapiObject, Made
<1>4. ASSUME NEW o \in Objects PROVE Stamped(Kind(o), privateData[o])
  <2>1. Kind(o) \in Kinds /\ NoReset.kind \notin Kinds
    BY KindOf DEF NoReset, Kinds
  <2> QED
    BY <1>1, <2>1 DEF Stamped, Nothing, NvapiObject, Completed
<1>5. CallsOK
  <2>1. PICK s : s = <<>>
    OBVIOUS
  <2>2. s \in Seq(Frames) /\ 1 .. Len(s) = {}
    BY <1>2, <2>1
  <2>3. ToSet(<<>>) = {}
    BY <2>1, <2>2, Members
  <2> QED
    BY <1>1, <1>2, <2>3 DEF CallsOK, StackOK
<1> QED
  BY <1>3, <1>4, <1>5 DEF ObjectsInv, DataOK

LEMMA ObjectsNext == ObjectsInv /\ [Next]_vars => ObjectsInv'
<1> SUFFICES ASSUME ObjectsInv, [Next]_vars PROVE ObjectsInv'
  OBVIOUS
<1>1. CASE Tick \/ Reset \/ StoreReset
  BY <1>1, TimeSteps
<1>2. ASSUME NEW t \in Threads, Step(t) PROVE ObjectsInv'
  BY <1>2, CheckStep, LockStep, RecheckStep, ConstructStep, StoreStep, ReturnStep DEF Step
<1>3. ASSUME NEW t \in Threads, NEW o \in Objects, GetOrCreate(t, o) PROVE ObjectsInv'
  BY <1>3, GetOrCreateStep
<1>4. CASE UNCHANGED vars
  <2>1. TimeStops /\ UNCHANGED <<m_mutex, privateData, calls>>
    BY <1>4 DEF vars, TimeStops
  <2>2. ObjectsTypeOK' /\ TimeOK' /\ DataOK'
    BY <2>1, TimeMayStop, QuietData DEF ObjectsInv, ObjectsTypeOK, TimeStops
  <2>3. ASSUME NEW t \in Threads, NEW c \in ToSet(calls[t]) PROVE CallOK(t, c)'
    BY <2>1, QuietCall DEF ObjectsInv, CallsOK
  <2>4. ASSUME NEW t \in Threads PROVE StackOK(calls[t])'
    BY <2>1 DEF ObjectsInv, CallsOK, StackOK
  <2> QED
    BY <2>1, <2>2, <2>3, <2>4 DEF ObjectsInv, CallsOK
<1> QED
  BY <1>1, <1>2, <1>3, <1>4 DEF Next

LEMMA ObjectsInductive == Spec => []ObjectsInv
  BY ObjectsInit, ObjectsNext, PTL DEF Spec

(* No call answers with an object made before a reset of its class that    *)
(* was complete when the call began: what passes either look is stamped    *)
(* later than the class, and so was made after its last completed reset.   *)
THEOREM AnswersAreFresh == Spec => []NoStaleAnswer
<1>1. ObjectsInv => NoStaleAnswer
  <2> SUFFICES ASSUME ObjectsInv, NEW t \in Threads, In(t, "answer"), Now(t).object # Nothing
               PROVE  Now(t).object.after >= Now(t).since
    BY DEF NoStaleAnswer
  <2>1. Now(t).at = "answer" /\ calls[t] # <<>>
    BY DEF In, Now
  <2> QED
    BY <2>1, TheCall DEF CallOK
<1> QED
  BY <1>1, ObjectsInductive, PTL

(* What a D3D12 object's private data holds is replaced only when a reset  *)
(* has made it stale: the thread that stores has held the mutex since it   *)
(* looked for the second time, also while it asked for the device.         *)
THEOREM ReplacesOnlyStale == Spec => OnlyStaleReplaced
<1>1. ObjectsInv /\ [Next]_vars =>
        [\A o \in Objects : privateData'[o] # privateData[o] => ~Fresh(o, privateData[o])]_vars
  <2> SUFFICES ASSUME ObjectsInv, Next, NEW o \in Objects, privateData'[o] # privateData[o]
               PROVE  ~Fresh(o, privateData[o])
    OBVIOUS
  <2>1. PICK t \in Threads : Store(t)
    <3>1. ~(Tick \/ Reset \/ StoreReset)
      BY DEF Tick, Reset, StoreReset
    <3>2. ASSUME NEW u \in Threads, Step(u) PROVE Store(u)
      BY <3>2 DEF Step, Check, Lock, Recheck, Construct, Return
    <3>3. \A u \in Threads, p \in Objects : ~GetOrCreate(u, p)
      BY DEF GetOrCreate
    <3> QED
      BY <3>1, <3>2, <3>3 DEF Next
  <2>2. /\ calls[t] # <<>> /\ Now(t).at = "store"
        /\ privateData' = [privateData EXCEPT ![Now(t).o] = Now(t).object]
    BY <2>1 DEF Store, In, Now
  <2>3. CallOK(t, Now(t))
    BY <2>2, TheCall
  <2>4. o = Now(t).o
    BY <2>2 DEF ObjectsInv, ObjectsTypeOK
  <2> QED
    BY <2>2, <2>3, <2>4 DEF CallOK
<1> QED
  BY <1>1, ObjectsInductive, PTL DEF Spec, OnlyStaleReplaced

-----------------------------------------------------------------------------
(* Who has the mutexes *)

\* A mutex is a thread's while a call of it works under the mutex, and Reset's only while
\* Reset stamps the devices.
LocksOK ==
  /\ \A k \in Kinds : m_mutex[k] \in Threads =>
       \E c \in ToSet(calls[m_mutex[k]]) : Kind(c.o) = k /\ Holds(c)
  /\ \A k \in Kinds : m_mutex[k] = Resetter => k = "device" /\ reset.kind = "device"

(* Whoever takes a mutex has a call to show for it, and nobody else's      *)
(* calls change.                                                           *)
LEMMA LocksStay ==
  ASSUME ObjectsInv, LocksOK, reset' = reset, NEW t \in Threads, NEW r \in Seq(Frames),
         calls' = [calls EXCEPT ![t] = r],
         \A k \in Kinds : m_mutex'[k] = t => \E c \in ToSet(r) : Kind(c.o) = k /\ Holds(c),
         \A k \in Kinds : m_mutex'[k] \in {t, Nobody, m_mutex[k]}
  PROVE  LocksOK'
<1>1. calls'[t] = r /\ \A u \in Threads \ {t} : calls'[u] = calls[u]
  BY DEF ObjectsInv, ObjectsTypeOK
<1>2. Nobody \notin Threads /\ Resetter \notin Threads /\ Nobody # Resetter
  BY ThreadsAssumption DEF Nobody, Resetter
<1>3. ASSUME NEW k \in Kinds, m_mutex'[k] \in Threads
      PROVE  \E c \in ToSet(calls'[m_mutex'[k]]) : Kind(c.o) = k /\ Holds(c)
  <2>1. CASE m_mutex'[k] = t
    BY <1>1, <2>1
  <2>2. CASE m_mutex'[k] # t
    <3>1. m_mutex'[k] = m_mutex[k] /\ calls'[m_mutex'[k]] = calls[m_mutex[k]]
      BY <1>1, <1>2, <1>3, <2>2
    <3> QED
      BY <1>3, <3>1 DEF LocksOK
  <2> QED
    BY <2>1, <2>2
<1>4. ASSUME NEW k \in Kinds, m_mutex'[k] = Resetter PROVE k = "device" /\ reset'.kind = "device"
  <2>1. m_mutex[k] = Resetter
    BY <1>2, <1>4
  <2> QED
    BY <2>1 DEF LocksOK
<1> QED
  BY <1>3, <1>4 DEF LocksOK

(* The step of an innermost call, whose new state is `c`, keeps its mutex  *)
(* or gives it back.                                                       *)
LEMMA CallKeepsLocks ==
  ASSUME ObjectsInv, LocksOK, reset' = reset, NEW t \in Threads, calls[t] # <<>>,
         NEW c \in Frames, c.o = Now(t).o, Update(t, c),
         \/ m_mutex' = m_mutex /\ (Holds(Now(t)) => Holds(c))
         \/ m_mutex' = [m_mutex EXCEPT ![Kind(c.o)] = Nobody]
         \/ m_mutex' = [m_mutex EXCEPT ![Kind(c.o)] = t] /\ Holds(c)
  PROVE  LocksOK'
<1>1. PICK s, r : s = calls[t] /\ r = Append(Front(s), c)
  OBVIOUS
<1>2. s \in Seq(Frames) /\ s # <<>>
  BY <1>1 DEF ObjectsInv, ObjectsTypeOK
<1>3. /\ Len(s) \in Nat \ {0} /\ Now(t) = s[Len(s)] /\ r \in Seq(Frames) /\ Len(r) = Len(s)
      /\ r[Len(s)] = c /\ \A j \in 1 .. Len(s) - 1 : r[j] = s[j]
  BY <1>1, <1>2, Innermost, Replaced DEF Now
<1>4. calls' = [calls EXCEPT ![t] = r]
  BY <1>1 DEF Update
<1>5. c \in ToSet(r)
  BY <1>3, Members
<1>6. /\ m_mutex \in [Kinds -> Threads \cup {Nobody, Resetter}] /\ Kind(c.o) \in Kinds
      /\ Nobody \notin Threads
  BY TheCall, ThreadsAssumption DEF ObjectsInv, ObjectsTypeOK, Nobody
<1>7. \A k \in Kinds : m_mutex'[k] \in {t, Nobody, m_mutex[k]}
  BY <1>6
<1>8. ASSUME NEW k \in Kinds, m_mutex'[k] = t PROVE \E d \in ToSet(r) : Kind(d.o) = k /\ Holds(d)
  <2>1. CASE k = Kind(c.o) /\ Holds(c)
    BY <1>5, <2>1
  <2>2. CASE ~(k = Kind(c.o) /\ Holds(c))
    <3>1. m_mutex[k] = t /\ ~(k = Kind(c.o) /\ Holds(Now(t)))
      BY <1>6, <1>8, <2>2
    <3>2. PICK d \in ToSet(s) : Kind(d.o) = k /\ Holds(d)
      BY <1>1, <3>1 DEF LocksOK
    <3>3. PICK j \in 1 .. Len(s) : d = s[j]
      BY <1>2, Members
    <3>4. j # Len(s)
      BY <1>3, <3>1, <3>2, <3>3
    <3>5. d = r[j] /\ j \in 1 .. Len(r)
      BY <1>3, <3>3, <3>4
    <3> QED
      BY <1>3, <3>2, <3>5, Members
  <2> QED
    BY <2>1, <2>2
<1> QED
  BY <1>3, <1>4, <1>7, <1>8, LocksStay

LEMMA StepKeepsLocks ==
  ASSUME ObjectsInv, LocksOK, NEW t \in Threads, Check(t) \/ Lock(t) \/ Recheck(t) \/ Store(t)
  PROVE  LocksOK'
<1>1. PICK now, k : now = Now(t) /\ k = Kind(now.o)
  OBVIOUS
<1>2. calls[t] # <<>> /\ reset' = reset
  BY DEF Check, Lock, Recheck, Store, In
<1>3. /\ now \in Frames /\ now.o \in Objects /\ k \in Kinds /\ now.object \in Made
      /\ privateData[now.o] \in Made /\ clock \in Nat /\ resets[k] \in Nat
  BY <1>1, <1>2, TheCall DEF ObjectsInv, ObjectsTypeOK
<1>4. Nothing \in Made /\ NvapiObject(clock, resets[k]) \in Made
  BY <1>3 DEF Nothing, NvapiObject, Made
<1>5. CASE Check(t)
  <2>1. PICK at, object, c :
          /\ at \in {"lock", "answer"} /\ object \in Made
          /\ c = [now EXCEPT !.at = at, !.object = object] /\ Update(t, c)
    BY <1>1, <1>3, <1>4, <1>5 DEF Check, Answer
  <2>2. now.at = "check" /\ m_mutex' = m_mutex
    BY <1>1, <1>5 DEF Check, In, Now
  <2>3. c \in Frames /\ c.o = now.o
    BY <1>3, <2>1 DEF Frames
  <2> QED
    BY <1>1, <1>2, <2>1, <2>2, <2>3, CallKeepsLocks DEF Holds
<1>6. CASE Lock(t)
  <2>1. PICK c : /\ c = [now EXCEPT !.at = "recheck", !.object = privateData[now.o]]
                 /\ Update(t, c)
    BY <1>1, <1>6 DEF Lock
  <2>2. c \in Frames /\ c.o = now.o /\ Holds(c)
    BY <1>3, <2>1 DEF Frames, Holds
  <2>3. m_mutex' = [m_mutex EXCEPT ![Kind(c.o)] = t]
    BY <1>1, <1>6, <2>2 DEF Lock, MutexOf
  <2> QED
    BY <1>1, <1>2, <2>1, <2>2, <2>3, CallKeepsLocks
<1>7. CASE Recheck(t)
  <2>1. PICK at, object, c :
          /\ at \in {"construct", "store", "answer"} /\ object \in Made
          /\ c = [now EXCEPT !.at = at, !.object = object] /\ Update(t, c)
          /\ \/ m_mutex' = m_mutex /\ at \in {"construct", "store"}
             \/ m_mutex' = [m_mutex EXCEPT ![k] = Nobody]
    BY <1>1, <1>3, <1>4, <1>7 DEF Recheck, Answer, Unlock, MutexOf
  <2>2. c \in Frames /\ c.o = now.o /\ (at \in {"construct", "store"} => Holds(c))
    <3>1. c \in Frames /\ c.o = now.o /\ c.at = at
      BY <1>3, <2>1 DEF Frames
    <3> QED
      BY <3>1 DEF Holds
  <2> QED
    BY <1>1, <1>2, <2>1, <2>2, CallKeepsLocks
<1>8. CASE Store(t)
  <2>1. PICK c : c = [now EXCEPT !.at = "answer", !.object = now.object] /\ Update(t, c)
    BY <1>1, <1>8 DEF Store, Answer
  <2>2. c \in Frames /\ c.o = now.o
    BY <1>3, <2>1 DEF Frames
  <2>3. m_mutex' = [m_mutex EXCEPT ![Kind(c.o)] = Nobody]
    BY <1>1, <1>8, <2>2 DEF Store, Unlock, MutexOf
  <2> QED
    BY <1>1, <1>2, <2>1, <2>2, <2>3, CallKeepsLocks
<1> QED
  BY <1>5, <1>6, <1>7, <1>8

(* Calls within calls, which begin and return.                             *)
LEMMA StackKeepsLocks ==
  ASSUME ObjectsInv, LocksOK, NEW t \in Threads,
         Construct(t) \/ Return(t) \/ (\E o \in Objects : GetOrCreate(t, o))
  PROVE  LocksOK'
<1>1. PICK s : s = calls[t]
  OBVIOUS
<1>2. s \in Seq(Frames) /\ reset' = reset /\ m_mutex' = m_mutex
  BY <1>1 DEF ObjectsInv, ObjectsTypeOK, Construct, Return, GetOrCreate
<1>3. ASSUME NEW k \in Kinds, m_mutex'[k] = t
      PROVE  \E d \in ToSet(s) : Kind(d.o) = k /\ Holds(d)
  BY <1>1, <1>2, <1>3 DEF LocksOK
<1>4. ASSUME NEW r \in Seq(Frames), calls' = [calls EXCEPT ![t] = r],
             \A d \in ToSet(s) : Holds(d) => \E c \in ToSet(r) : c.o = d.o /\ Holds(c)
      PROVE  LocksOK'
  <2>1. \A k \in Kinds : m_mutex'[k] = t => \E c \in ToSet(r) : Kind(c.o) = k /\ Holds(c)
    BY <1>3, <1>4
  <2> QED
    BY <1>2, <1>4, <2>1, LocksStay
<1>5. CASE Construct(t)
  <2>1. PICK now : now = Now(t)
    OBVIOUS
  <2>2. s # <<>> /\ now.at = "construct" /\ now \in Frames /\ now.o \in CommandLists
    BY <1>1, <1>5, <2>1, TheCall DEF Construct, In, Now, CallOK
  <2>3. PICK c, d : c = [now EXCEPT !.at = "store"] /\ d = Call(DeviceOf[now.o])
    OBVIOUS
  <2>4. c \in Frames /\ c.o = now.o /\ Holds(c)
    BY <2>2, <2>3 DEF Frames, Holds
  <2>5. d \in Frames
    <3>1. DeviceOf[now.o] \in Objects
      BY <2>2, DeviceOfAssumption DEF Objects
    <3> QED
      BY <2>3, <3>1, CallBegins
  <2>6. PICK f, r : f = Append(Front(s), c) /\ r = Append(f, d)
    OBVIOUS
  <2>7. /\ f \in Seq(Frames) /\ Len(f) = Len(s) /\ f[Len(s)] = c /\ now = s[Len(s)]
        /\ \A j \in 1 .. Len(s) - 1 : f[j] = s[j]
        /\ Len(s) \in Nat \ {0}
    BY <1>1, <1>2, <2>1, <2>2, <2>4, <2>6, Innermost, Replaced DEF Now
  <2>8. /\ r \in Seq(Frames) /\ Len(r) = Len(s) + 1
        /\ \A j \in 1 .. Len(s) : r[j] = f[j]
    BY <2>5, <2>6, <2>7, AppendProperties
  <2>9. ASSUME NEW e \in ToSet(s), Holds(e) PROVE \E b \in ToSet(r) : b.o = e.o /\ Holds(b)
    <3>1. PICK j \in 1 .. Len(s) : e = s[j]
      BY <1>2, Members
    <3>2. j \in 1 .. Len(r) /\ r[j] \in ToSet(r)
      BY <2>7, <2>8, Members
    <3>3. r[j].o = e.o /\ Holds(r[j])
      BY <2>4, <2>7, <2>8, <2>9, <3>1
    <3> QED
      BY <3>2, <3>3
  <2>10. calls' = [calls EXCEPT ![t] = r]
    BY <1>1, <1>5, <2>1, <2>3, <2>6 DEF Construct
  <2> QED
    BY <1>4, <2>8, <2>9, <2>10
<1>6. CASE Return(t)
  <2>1. PICK r : r = Front(s)
    OBVIOUS
  <2>2. s # <<>> /\ Now(t).at = "answer" /\ calls' = [calls EXCEPT ![t] = r]
    BY <1>1, <1>6, <2>1 DEF Return, In, Now
  <2>3. /\ Len(s) \in Nat \ {0} /\ r \in Seq(Frames) /\ Len(r) = Len(s) - 1
        /\ \A j \in 1 .. Len(s) - 1 : r[j] = s[j]
        /\ Now(t) = s[Len(s)]
    BY <1>1, <1>2, <2>1, <2>2, Innermost DEF Now
  <2>4. ASSUME NEW d \in ToSet(s), Holds(d) PROVE d \in ToSet(r)
    <3>1. PICK j \in 1 .. Len(s) : d = s[j]
      BY <1>2, Members
    <3>2. j # Len(s)
      BY <2>2, <2>3, <2>4, <3>1 DEF Holds
    <3>3. j \in 1 .. Len(r) /\ d = r[j]
      BY <2>3, <3>1, <3>2
    <3> QED
      BY <2>3, <3>3, Members
  <2> QED
    BY <1>4, <2>2, <2>3, <2>4
<1>7. ASSUME NEW o \in Objects, GetOrCreate(t, o) PROVE LocksOK'
  <2>1. PICK r : r = <<Call(o)>>
    OBVIOUS
  <2>2. s = <<>> /\ calls' = [calls EXCEPT ![t] = r]
    BY <1>1, <1>7, <2>1 DEF GetOrCreate
  <2>3. r \in Seq(Frames)
    BY <2>1, CallBegins
  <2>4. \A d : d \notin ToSet(s)
    <3>1. 1 .. Len(s) = {}
      BY <2>2, EmptySeq
    <3> QED
      BY <1>2, <3>1, Members
  <2> QED
    BY <1>4, <2>2, <2>3, <2>4
<1> QED
  BY <1>5, <1>6, <1>7

LEMMA ResetsKeepLocks ==
  ASSUME ObjectsInv, LocksOK, Tick \/ Reset \/ StoreReset
  PROVE  LocksOK'
<1>1. /\ calls' = calls /\ m_mutex \in [Kinds -> Threads \cup {Nobody, Resetter}]
      /\ "device" \in Kinds /\ Nobody # Resetter
      /\ Nobody \notin Threads /\ Resetter \notin Threads
  BY ThreadsAssumption
  DEF Tick, Reset, StoreReset, ObjectsInv, ObjectsTypeOK, Kinds, Nobody, Resetter
<1>2. CASE Tick
  BY <1>2 DEF Tick, LocksOK
<1>3. CASE Reset
  BY <1>1, <1>3 DEF Reset, ReadClock, LocksOK
<1>4. CASE StoreReset
  <2>1. m_mutex' = [m_mutex EXCEPT !["device"] = IF @ = Resetter THEN Nobody ELSE @]
    BY <1>4 DEF StoreReset
  <2>2. \A k \in Kinds : m_mutex'[k] # Resetter /\ (m_mutex'[k] \in Threads => m_mutex'[k] = m_mutex[k])
    BY <1>1, <2>1 DEF LocksOK
  <2> QED
    BY <1>1, <2>2 DEF LocksOK
<1> QED
  BY <1>2, <1>3, <1>4

LEMMA LocksInductive == Spec => []LocksOK
<1>1. Init => LocksOK
  BY ThreadsAssumption DEF Init, LocksOK, Nobody, Resetter
<1>2. ObjectsInv /\ LocksOK /\ [Next]_vars => LocksOK'
  <2> SUFFICES ASSUME ObjectsInv, LocksOK, [Next]_vars PROVE LocksOK'
    OBVIOUS
  <2>1. CASE Tick \/ Reset \/ StoreReset
    BY <2>1, ResetsKeepLocks
  <2>2. ASSUME NEW t \in Threads, Step(t) \/ \E o \in Objects : GetOrCreate(t, o) PROVE LocksOK'
    BY <2>2, StepKeepsLocks, StackKeepsLocks DEF Step
  <2>3. CASE UNCHANGED vars
    BY <2>3 DEF vars, LocksOK
  <2> QED
    BY <2>1, <2>2, <2>3 DEF Next
<1> QED
  BY <1>1, <1>2, ObjectsInductive, PTL DEF Spec

(* Who has a mutex can take its next step: Reset stamps the devices, and a *)
(* thread is not in a call that waits for a mutex.                         *)
CanGoOn(h) ==
  \/ h = Resetter /\ reset.kind = "device"
  \/ /\ h \in Threads /\ calls[h] # <<>>
     /\ In(h, "lock") => m_mutex[MutexOf(Now(h).o)] = Nobody

(* Nobody waits for whoever waits for him: the holder of a mutex can go    *)
(* on, or it makes a command list and waits for the devices' mutex, whose  *)
(* holder can go on.                                                       *)
HoldersGoOn ==
  \A k \in Kinds : m_mutex[k] # Nobody =>
    \/ CanGoOn(m_mutex[k])
    \/ k = "list" /\ m_mutex["device"] # Nobody /\ CanGoOn(m_mutex["device"])

(* The call of a thread that holds a mutex is its innermost one, or that   *)
(* of a command list which asks for its device.                            *)
LEMMA HoldersCall ==
  ASSUME ObjectsInv, LocksOK, NEW k \in Kinds, m_mutex[k] \in Threads
  PROVE  LET h == m_mutex[k]
         IN  /\ calls[h] # <<>>
             /\ k # "list" => Holds(Now(h))
             /\ k = "list" => Holds(Now(h)) \/ Now(h).o \in Devices
<1>1. PICK h : h = m_mutex[k]
  OBVIOUS
<1>2. PICK s : s = calls[h]
  OBVIOUS
<1>3. s \in Seq(Frames) /\ StackOK(s)
  BY <1>1, <1>2 DEF ObjectsInv, ObjectsTypeOK, CallsOK
<1>4. PICK c \in ToSet(s) : Kind(c.o) = k /\ Holds(c)
  BY <1>1, <1>2 DEF LocksOK
<1>5. PICK j \in 1 .. Len(s) : c = s[j]
  BY <1>3, Members
<1>6. s # <<>>
  BY <1>3, <1>5, EmptySeq
<1>7. Len(s) \in Nat \ {0} /\ Now(h) = s[Len(s)]
  BY <1>2, <1>3, <1>6, Innermost DEF Now
<1>8. j = Len(s) \/ (j = 1 /\ Len(s) = 2)
  <2>1. PICK n : n = Len(s)
    OBVIOUS
  <2>2. n \in Nat /\ n <= 2 /\ j \in 1 .. n
    BY <1>3, <1>5, <1>7, <2>1 DEF StackOK
  <2>3. j = n \/ (j = 1 /\ n = 2)
    BY <2>2
  <2> QED
    BY <2>1, <2>3
<1>9. CASE j = Len(s)
  BY <1>1, <1>2, <1>4, <1>5, <1>6, <1>7, <1>9
<1>10. CASE j = 1 /\ Len(s) = 2
  <2>1. c.o \in CommandLists /\ Now(h).o \in Devices
    BY <1>3, <1>5, <1>7, <1>10 DEF StackOK
  <2>2. k = "list"
    BY <1>4, <2>1, KindOf DEF Objects
  <2> QED
    BY <1>1, <1>2, <1>6, <2>1, <2>2
<1> QED
  BY <1>8, <1>9, <1>10

(* The mutexes of the classes never lock each other up: what a thread      *)
(* waits for while it holds one is the devices' mutex, whose holder waits  *)
(* for nothing.                                                            *)
THEOREM NoMutexDeadlock == Spec => []HoldersGoOn
<1>1. ObjectsInv /\ LocksOK => HoldersGoOn
  <2> SUFFICES ASSUME ObjectsInv, LocksOK, NEW k \in Kinds, m_mutex[k] # Nobody
               PROVE  \/ CanGoOn(m_mutex[k])
                      \/ k = "list" /\ m_mutex["device"] # Nobody /\ CanGoOn(m_mutex["device"])
    BY DEF HoldersGoOn
  <2>1. \A j \in Kinds : m_mutex[j] \in Threads \cup {Nobody, Resetter}
    BY DEF ObjectsInv, ObjectsTypeOK
  <2>2. \A j \in Kinds : m_mutex[j] = Resetter => CanGoOn(m_mutex[j])
    BY DEF LocksOK, CanGoOn
  <2>3. ASSUME NEW h \in Threads, calls[h] # <<>>, Holds(Now(h)) PROVE CanGoOn(h)
    BY <2>3 DEF Holds, CanGoOn, In, Now
  <2>4. ASSUME m_mutex["device"] # Nobody PROVE CanGoOn(m_mutex["device"])
    <3>1. "device" \in Kinds /\ "device" # "list"
      BY DEF Kinds
    <3> QED
      BY <2>1, <2>2, <2>3, <2>4, <3>1, HoldersCall
  <2>5. CASE m_mutex[k] \in Threads
    <3>1. PICK h : h = m_mutex[k]
      OBVIOUS
    <3>2. /\ h \in Threads /\ calls[h] # <<>> /\ (k # "list" => Holds(Now(h)))
          /\ (k = "list" => Holds(Now(h)) \/ Now(h).o \in Devices)
      BY <2>5, <3>1, HoldersCall
    <3>3. CASE Holds(Now(h))
      BY <2>3, <3>1, <3>2, <3>3
    <3>4. CASE k = "list" /\ Now(h).o \in Devices
      <4>1. MutexOf(Now(h).o) = "device"
        BY <3>4, KindOf DEF MutexOf, Objects
      <4>2. CASE m_mutex["device"] = Nobody
        BY <3>1, <3>2, <4>1, <4>2 DEF CanGoOn
      <4>3. CASE m_mutex["device"] # Nobody
        BY <2>4, <3>4, <4>3
      <4> QED
        BY <4>2, <4>3
    <3> QED
      BY <3>2, <3>3, <3>4
  <2> QED
    BY <2>1, <2>2, <2>5
<1> QED
  BY <1>1, ObjectsInductive, LocksInductive, PTL

=============================================================================
