--------------------------- MODULE OpticalFlow_proofs ---------------------------
(***************************************************************************)
(* Proofs about OpticalFlow, for any number of instances, any length of    *)
(* the ring of command buffers and any number of calls: what a signal      *)
(* means, which command buffer a call records into, that nothing leaks and *)
(* when a factory is replaced under the instances made with it.            *)
(***************************************************************************)
EXTENDS OpticalFlow, SequenceTheorems, TLAPS

-----------------------------------------------------------------------------
(* The queue of an instance, as it is enqueued to and run *)

Entries ==
  [op : {"wait", "signal"}, point : Nat]
  \cup [op : {"run"}, point : Nat, index : Indices, call : Nat]

\* With `done` signalled, `input` rendered and `last` given: the input of what entry k is to
\* signal is rendered or will be waited for, and work with no later a point is done first.
EntryFits(q, k, input, done, last) ==
  /\ q[k].point <= last
  /\ q[k].op = "run" => q[k].point > done
  /\ q[k].op = "signal" =>
       \/ q[k].point <= input
       \/ \E j \in 1 .. k - 1 : q[j].op = "wait" /\ q[j].point = q[k].point
  /\ \A j \in 1 .. k - 1 : q[j].op = "signal" /\ q[k].op = "run" => q[j].point < q[k].point

TimelineFits(q, input, done, last) ==
  /\ done <= input /\ done <= last
  /\ \A k \in 1 .. Len(q) : EntryFits(q, k, input, done, last)

\* The next buffer is as far beyond that of work in the queue as calls were made since.
Wrapped(x) == IF x >= CMDS_IN_FLIGHT THEN x - CMDS_IN_FLIGHT ELSE x
BufferFits(e, index, executes) ==
  LET since == executes - e.call + 1
  IN  since \in 1 .. CMDS_IN_FLIGHT /\ index = Wrapped(e.index + since)
RingFits(q, index, executes) ==
  \A k \in 1 .. Len(q) : q[k].op = "run" => BufferFits(q[k], index, executes)

LEMMA EntryForms ==
  ASSUME NEW e \in Entries
  PROVE  /\ e.op \in {"wait", "signal", "run"} /\ e.point \in Nat
         /\ e.op = "run" => e.index \in Indices /\ e.call \in Nat
  BY DEF Entries

(* What a call of Execute enqueues, and a registration.                    *)
LEMMA ExecuteEnqueues ==
  ASSUME NEW q \in Seq(Entries), NEW p \in Nat, NEW index \in Indices, NEW n \in Nat
  PROVE  LET r == q \o ExecuteCommands(p, index, n)
         IN  /\ r \in Seq(Entries) /\ Len(r) = Len(q) + 3
             /\ \A k \in 1 .. Len(q) : r[k] = q[k]
             /\ r[Len(q) + 1] = Wait(p) /\ r[Len(q) + 2] = Run(p, index, n)
             /\ r[Len(q) + 3] = Signal(p)
<1> DEFINE c == ExecuteCommands(p, index, n)
<1>1. Wait(p) \in Entries /\ Signal(p) \in Entries /\ Run(p, index, n) \in Entries
  BY DEF Wait, Signal, Run, Entries
<1>2. /\ c \in Seq(Entries) /\ Len(c) = 3
      /\ c[1] = Wait(p) /\ c[2] = Run(p, index, n) /\ c[3] = Signal(p)
  BY <1>1 DEF ExecuteCommands
<1> HIDE DEF c
<1>3. /\ q \o c \in Seq(Entries) /\ Len(q \o c) = Len(q) + Len(c)
      /\ \A k \in 1 .. Len(q) + Len(c) : (q \o c)[k] =
           IF k <= Len(q) THEN q[k] ELSE c[k - Len(q)]
  BY <1>2, ConcatProperties
<1>4. Len(q) \in Nat
  BY LenProperties
<1>5. \A k \in 1 .. Len(q) : (q \o c)[k] = q[k]
  BY <1>2, <1>3, <1>4
<1>6. (q \o c)[Len(q) + 1] = c[1] /\ (q \o c)[Len(q) + 2] = c[2] /\ (q \o c)[Len(q) + 3] = c[3]
  BY <1>2, <1>3, <1>4
<1> QED
  BY <1>2, <1>3, <1>5, <1>6 DEF c

LEMMA RegistrationEnqueues ==
  ASSUME NEW q \in Seq(Entries), NEW p \in Nat
  PROVE  LET r == q \o RegisterCommands(p)
         IN  /\ r \in Seq(Entries) /\ Len(r) = Len(q) + 2
             /\ \A k \in 1 .. Len(q) : r[k] = q[k]
             /\ r[Len(q) + 1] = Wait(p) /\ r[Len(q) + 2] = Signal(p)
<1> DEFINE c == RegisterCommands(p)
<1>1. Wait(p) \in Entries /\ Signal(p) \in Entries
  BY DEF Wait, Signal, Entries
<1>2. c \in Seq(Entries) /\ Len(c) = 2 /\ c[1] = Wait(p) /\ c[2] = Signal(p)
  BY <1>1 DEF RegisterCommands
<1> HIDE DEF c
<1>3. /\ q \o c \in Seq(Entries) /\ Len(q \o c) = Len(q) + Len(c)
      /\ \A k \in 1 .. Len(q) + Len(c) : (q \o c)[k] =
           IF k <= Len(q) THEN q[k] ELSE c[k - Len(q)]
  BY <1>2, ConcatProperties
<1>4. Len(q) \in Nat
  BY LenProperties
<1>5. \A k \in 1 .. Len(q) : (q \o c)[k] = q[k]
  BY <1>2, <1>3, <1>4
<1>6. (q \o c)[Len(q) + 1] = c[1] /\ (q \o c)[Len(q) + 2] = c[2]
  BY <1>2, <1>3, <1>4
<1> QED
  BY <1>2, <1>3, <1>5, <1>6 DEF c

(* What was in the queue fits as it did.                                   *)
LEMMA EntryKept ==
  ASSUME NEW q \in Seq(Entries), NEW r, NEW input \in Nat, NEW done \in Nat, NEW last \in Nat,
         TimelineFits(q, input, done, last), \A k \in 1 .. Len(q) : r[k] = q[k],
         NEW k \in 1 .. Len(q)
  PROVE  EntryFits(r, k, input, done, last + 1)
<1>1. EntryFits(q, k, input, done, last)
  BY DEF TimelineFits
<1>2. \A j \in 1 .. k : j \in 1 .. Len(q) /\ r[j] = q[j]
  BY LenProperties
<1>3. q[k].point \in Nat
  BY ElementOfSeq, EntryForms
<1>4. k \in 1 .. k /\ \A j \in 1 .. k - 1 : j \in 1 .. k
  OBVIOUS
<1>5. r[k] = q[k] /\ \A j \in 1 .. k - 1 : r[j] = q[j]
  BY <1>2, <1>4
<1>6. q[k].point <= last + 1 /\ (q[k].op = "run" => q[k].point > done)
  BY <1>1, <1>3 DEF EntryFits
<1>7. q[k].op = "signal" =>
        q[k].point <= input \/ \E j \in 1 .. k - 1 : r[j].op = "wait" /\ r[j].point = q[k].point
  BY <1>1, <1>5 DEF EntryFits
<1>8. \A j \in 1 .. k - 1 : r[j].op = "signal" /\ q[k].op = "run" => r[j].point < q[k].point
  BY <1>1, <1>5 DEF EntryFits
<1> QED
  BY <1>5, <1>6, <1>7, <1>8 DEF EntryFits

(* What is enqueued with the next point keeps the timeline in order.       *)
LEMMA TimelineGrows ==
  ASSUME NEW q \in Seq(Entries), NEW input \in Nat, NEW done \in Nat, NEW last \in Nat,
         TimelineFits(q, input, done, last)
  PROVE  /\ \A index \in Indices, n \in Nat :
              TimelineFits(q \o ExecuteCommands(last + 1, index, n), input, done, last + 1)
         /\ TimelineFits(q \o RegisterCommands(last + 1), input, done, last + 1)
<1>1. /\ Len(q) \in Nat
      /\ \A k \in 1 .. Len(q) : q[k] \in Entries /\ q[k].point \in Nat
  BY LenProperties, ElementOfSeq, EntryForms
<1>2. ASSUME NEW index \in Indices, NEW n \in Nat
      PROVE  TimelineFits(q \o ExecuteCommands(last + 1, index, n), input, done, last + 1)
  <2>0. PICK r : r = q \o ExecuteCommands(last + 1, index, n)
    OBVIOUS
  <2>1. /\ Len(r) = Len(q) + 3
        /\ \A k \in 1 .. Len(q) : r[k] = q[k]
        /\ r[Len(q) + 1] = Wait(last + 1) /\ r[Len(q) + 2] = Run(last + 1, index, n)
        /\ r[Len(q) + 3] = Signal(last + 1)
    <3>1. last + 1 \in Nat
      OBVIOUS
    <3> QED
      BY <2>0, <3>1, ExecuteEnqueues
  <2>2. ASSUME NEW k \in 1 .. Len(r) PROVE EntryFits(r, k, input, done, last + 1)
    <3>1. CASE k \in 1 .. Len(q)
      BY <2>1, <3>1, EntryKept
    <3>2. CASE k = Len(q) + 1
      BY <1>1, <2>1, <3>2 DEF Wait, EntryFits
    <3>3. CASE k = Len(q) + 2
      <4>1. r[k].op = "run" /\ r[k].point = last + 1
        BY <2>1, <3>3 DEF Run
      <4>2. \A j \in 1 .. k - 1 : r[j].op = "signal" => r[j].point < last + 1
        <5> SUFFICES ASSUME NEW j \in 1 .. k - 1, r[j].op = "signal"
                     PROVE  r[j].point < last + 1
          OBVIOUS
        <5>1. j \in 1 .. Len(q)
          BY <1>1, <2>1, <3>3 DEF Wait
        <5> QED
          BY <1>1, <2>1, <5>1 DEF TimelineFits, EntryFits
      <4> QED
        BY <4>1, <4>2 DEF TimelineFits, EntryFits
    <3>4. CASE k = Len(q) + 3
      <4>1. r[k].op = "signal" /\ r[k].point = last + 1
        BY <2>1, <3>4 DEF Signal
      <4>2. r[Len(q) + 1].op = "wait" /\ r[Len(q) + 1].point = last + 1
        BY <2>1 DEF Wait
      <4>3. Len(q) + 1 \in 1 .. k - 1
        BY <1>1, <3>4
      <4> QED
        BY <4>1, <4>2, <4>3 DEF EntryFits
    <3> QED
      BY <1>1, <2>1, <3>1, <3>2, <3>3, <3>4
  <2>3. done <= input /\ done <= last + 1
    BY DEF TimelineFits
  <2>4. TimelineFits(r, input, done, last + 1)
    BY <2>2, <2>3 DEF TimelineFits
  <2> QED
    BY <2>0, <2>4
<1>3. TimelineFits(q \o RegisterCommands(last + 1), input, done, last + 1)
  <2>0. PICK r : r = q \o RegisterCommands(last + 1)
    OBVIOUS
  <2>1. /\ Len(r) = Len(q) + 2
        /\ \A k \in 1 .. Len(q) : r[k] = q[k]
        /\ r[Len(q) + 1] = Wait(last + 1) /\ r[Len(q) + 2] = Signal(last + 1)
    <3>1. last + 1 \in Nat
      OBVIOUS
    <3> QED
      BY <2>0, <3>1, RegistrationEnqueues
  <2>2. ASSUME NEW k \in 1 .. Len(r) PROVE EntryFits(r, k, input, done, last + 1)
    <3>1. CASE k \in 1 .. Len(q)
      BY <2>1, <3>1, EntryKept
    <3>2. CASE k = Len(q) + 1
      BY <1>1, <2>1, <3>2 DEF Wait, EntryFits
    <3>3. CASE k = Len(q) + 2
      <4>1. r[k].op = "signal" /\ r[k].point = last + 1
        BY <2>1, <3>3 DEF Signal
      <4>2. r[Len(q) + 1].op = "wait" /\ r[Len(q) + 1].point = last + 1
        BY <2>1 DEF Wait
      <4>3. Len(q) + 1 \in 1 .. k - 1
        BY <1>1, <3>3
      <4> QED
        BY <4>1, <4>2, <4>3 DEF EntryFits
    <3> QED
      BY <1>1, <2>1, <3>1, <3>2, <3>3
  <2>3. done <= input /\ done <= last + 1
    BY DEF TimelineFits
  <2>4. TimelineFits(r, input, done, last + 1)
    BY <2>2, <2>3 DEF TimelineFits
  <2> QED
    BY <2>0, <2>4
<1> QED
  BY <1>2, <1>3

(* The queue's next step, which a wait holds up, keeps it in order.        *)
LEMMA TimelineRuns ==
  ASSUME NEW q \in Seq(Entries), q # <<>>,
         NEW input \in Nat, NEW done \in Nat, NEW last \in Nat,
         TimelineFits(q, input, done, last),
         q[1].op = "wait" => input >= q[1].point
  PROVE  LET after == IF q[1].op = "signal" THEN q[1].point ELSE done
         IN  after \in Nat /\ TimelineFits(Tail(q), input, after, last)
<1>1. /\ Len(q) \in Nat \ {0}
      /\ \A k \in 1 .. Len(q) : q[k] \in Entries /\ q[k].point \in Nat
      /\ Len(Tail(q)) = Len(q) - 1
      /\ \A k \in 1 .. Len(q) - 1 : Tail(q)[k] = q[k + 1]
  BY LenProperties, EmptySeq, ElementOfSeq, EntryForms, HeadTailProperties
<1>2. PICK after : after = IF q[1].op = "signal" THEN q[1].point ELSE done
  OBVIOUS
<1>3. after \in Nat /\ after <= input /\ after <= last
  BY <1>1, <1>2 DEF TimelineFits, EntryFits
<1>4. PICK r : r = Tail(q)
  OBVIOUS
<1>5. ASSUME NEW k \in 1 .. Len(r) PROVE EntryFits(r, k, input, after, last)
  <2>1. k + 1 \in 1 .. Len(q) /\ r[k] = q[k + 1] /\ 1 \in 1 .. k
    BY <1>1, <1>4
  <2>2. \A j \in 1 .. k - 1 : r[j] = q[j + 1] /\ j + 1 \in 1 .. k
    BY <1>1, <1>4, <2>1
  <2>3. r[k].point <= last
    BY <2>1 DEF TimelineFits, EntryFits
  <2>4. r[k].op = "run" => r[k].point > after
    <3> SUFFICES ASSUME r[k].op = "run" PROVE r[k].point > after
      OBVIOUS
    <3>1. q[k + 1].point > done
      BY <2>1 DEF TimelineFits, EntryFits
    <3>2. \A j \in 1 .. (k + 1) - 1 : q[j].op = "signal" => q[j].point < q[k + 1].point
      BY <2>1 DEF TimelineFits, EntryFits
    <3>3. q[1].op = "signal" => q[1].point < q[k + 1].point
      BY <2>1, <3>2
    <3> QED
      BY <1>1, <1>2, <2>1, <3>1, <3>3
  <2>5. r[k].op = "signal" =>
          \/ r[k].point <= input
          \/ \E j \in 1 .. k - 1 : r[j].op = "wait" /\ r[j].point = r[k].point
    <3> SUFFICES ASSUME r[k].op = "signal", ~(r[k].point <= input)
                 PROVE  \E j \in 1 .. k - 1 : r[j].op = "wait" /\ r[j].point = r[k].point
      OBVIOUS
    <3>1. PICK j \in 1 .. (k + 1) - 1 : q[j].op = "wait" /\ q[j].point = q[k + 1].point
      BY <2>1 DEF TimelineFits, EntryFits
    <3>2. j # 1
      BY <2>1, <3>1
    <3>3. j - 1 \in 1 .. k - 1 /\ r[j - 1] = q[j]
      BY <2>2, <3>1, <3>2
    <3> QED
      BY <2>1, <3>1, <3>3
  <2>6. \A j \in 1 .. k - 1 : r[j].op = "signal" /\ r[k].op = "run" => r[j].point < r[k].point
    <3>1. \A j \in 1 .. (k + 1) - 1 :
            q[j].op = "signal" /\ q[k + 1].op = "run" => q[j].point < q[k + 1].point
      BY <2>1 DEF TimelineFits, EntryFits
    <3> QED
      BY <2>1, <2>2, <3>1, SMTT(30)
  <2> QED
    BY <2>3, <2>4, <2>5, <2>6 DEF EntryFits
<1>6. TimelineFits(r, input, after, last)
  BY <1>3, <1>5 DEF TimelineFits
<1> QED
  BY <1>2, <1>3, <1>4, <1>6

(* The application's rendering takes nothing back.                         *)
LEMMA TimelineRenders ==
  ASSUME NEW q \in Seq(Entries), NEW input \in Nat, NEW done \in Nat, NEW last \in Nat,
         TimelineFits(q, input, done, last)
  PROVE  TimelineFits(q, input + 1, done, last)
<1>1. \A k \in 1 .. Len(q) : q[k].point \in Nat
  BY LenProperties, ElementOfSeq, EntryForms
<1> QED
  BY <1>1 DEF TimelineFits, EntryFits

(* The buffer that comes next is that of no work in the queue, unless the  *)
(* application has more calls in flight than there are buffers.            *)
LEMMA RingMoves ==
  ASSUME Ahead <= CMDS_IN_FLIGHT,
         NEW q \in Seq(Entries), NEW index \in Indices, NEW executes \in Nat,
         RingFits(q, index, executes),
         \A k \in 1 .. Len(q) : q[k].op = "run" => q[k].call > executes + 1 - Ahead
  PROVE  /\ \A k \in 1 .. Len(q) : q[k].op = "run" => q[k].index # index
         /\ RingFits(q, NextIndex(index), executes + 1)
         /\ \A p \in Nat :
              RingFits(q \o ExecuteCommands(p, index, executes + 1), NextIndex(index), executes + 1)
<1>1. ASSUME NEW k \in 1 .. Len(q), q[k].op = "run"
      PROVE  q[k].index # index /\ BufferFits(q[k], NextIndex(index), executes + 1)
  <2>1. PICK x, since : x = q[k].index /\ since = executes - q[k].call + 1
    OBVIOUS
  <2>2. q[k].call \in Nat /\ x \in Indices
    BY <1>1, <2>1, ElementOfSeq, EntryForms
  <2>3. since \in 1 .. CMDS_IN_FLIGHT /\ index = Wrapped(x + since)
    BY <1>1, <2>1 DEF RingFits, BufferFits
  <2>4. since + 1 <= CMDS_IN_FLIGHT
    BY <1>1, <2>1, <2>2, RingAssumption
  <2>5. x # index
    BY <2>2, <2>3, <2>4, RingAssumption DEF Wrapped, Indices
  <2>6. NextIndex(index) = Wrapped(x + (since + 1))
    BY <2>2, <2>3, <2>4, RingAssumption DEF Wrapped, Indices, NextIndex
  <2>7. (executes + 1) - q[k].call + 1 = since + 1
    BY <2>1, <2>2
  <2>8. (executes + 1) - q[k].call + 1 \in 1 .. CMDS_IN_FLIGHT
    BY <2>3, <2>4, <2>7, RingAssumption
  <2>9. NextIndex(index) = Wrapped(q[k].index + ((executes + 1) - q[k].call + 1))
    BY <2>1, <2>6, <2>7
  <2> QED
    BY <2>1, <2>5, <2>8, <2>9 DEF BufferFits
<1>2. RingFits(q, NextIndex(index), executes + 1)
  BY <1>1 DEF RingFits
<1>3. ASSUME NEW p \in Nat
      PROVE  RingFits(q \o ExecuteCommands(p, index, executes + 1), NextIndex(index), executes + 1)
  <2>0. PICK r, n : n = executes + 1 /\ r = q \o ExecuteCommands(p, index, n)
    OBVIOUS
  <2>1. /\ Len(r) = Len(q) + 3 /\ Len(q) \in Nat
        /\ \A k \in 1 .. Len(q) : r[k] = q[k]
        /\ r[Len(q) + 1] = Wait(p) /\ r[Len(q) + 2] = Run(p, index, n)
        /\ r[Len(q) + 3] = Signal(p)
    <3>1. n \in Nat
      BY <2>0
    <3>2. Len(q) \in Nat
      BY LenProperties
    <3> QED
      BY <2>0, <3>1, <3>2, ExecuteEnqueues
  <2>2. ASSUME NEW k \in 1 .. Len(r), r[k].op = "run"
        PROVE  BufferFits(r[k], NextIndex(index), n)
    <3>1. CASE k \in 1 .. Len(q)
      <4>1. r[k] = q[k] /\ q[k].op = "run"
        BY <2>1, <2>2, <3>1
      <4> QED
        BY <1>1, <2>0, <3>1, <4>1
    <3>2. CASE k \notin 1 .. Len(q)
      <4>1. k = Len(q) + 2
        BY <2>1, <2>2, <3>2 DEF Wait, Signal
      <4>2. r[k].index = index /\ r[k].call = n
        BY <2>1, <4>1 DEF Run
      <4>3. n - r[k].call + 1 = 1
        BY <2>0, <4>2
      <4>4. NextIndex(index) = Wrapped(index + 1)
        BY RingAssumption DEF Wrapped, Indices, NextIndex
      <4> QED
        BY <4>2, <4>3, <4>4, RingAssumption DEF BufferFits
    <3> QED
      BY <3>1, <3>2
  <2> QED
    BY <2>0, <2>2 DEF RingFits
<1> QED
  BY <1>1, <1>2, <1>3

(* What else happens to the queue leaves the ring as it is.                *)
LEMMA RingStays ==
  ASSUME NEW q \in Seq(Entries), NEW index \in Indices, NEW executes \in Nat,
         RingFits(q, index, executes)
  PROVE  /\ \A p \in Nat : RingFits(q \o RegisterCommands(p), index, executes)
         /\ q # <<>> => RingFits(Tail(q), index, executes)
<1>1. ASSUME NEW p \in Nat PROVE RingFits(q \o RegisterCommands(p), index, executes)
  <2>0. PICK r : r = q \o RegisterCommands(p)
    OBVIOUS
  <2>1. /\ Len(r) = Len(q) + 2 /\ Len(q) \in Nat
        /\ \A k \in 1 .. Len(q) : r[k] = q[k]
        /\ r[Len(q) + 1] = Wait(p) /\ r[Len(q) + 2] = Signal(p)
    BY <2>0, RegistrationEnqueues, LenProperties
  <2>2. \A k \in 1 .. Len(r) : r[k].op = "run" => k \in 1 .. Len(q) /\ r[k] = q[k]
    BY <2>1 DEF Wait, Signal
  <2>3. RingFits(r, index, executes)
    BY <2>2 DEF RingFits
  <2> QED
    BY <2>0, <2>3
<1>2. ASSUME q # <<>> PROVE RingFits(Tail(q), index, executes)
  <2>1. /\ Len(q) \in Nat
        /\ Len(Tail(q)) = Len(q) - 1
        /\ \A k \in 1 .. Len(q) - 1 : Tail(q)[k] = q[k + 1]
    BY <1>2, LenProperties, EmptySeq, HeadTailProperties
  <2>2. \A k \in 1 .. Len(Tail(q)) : k + 1 \in 1 .. Len(q) /\ Tail(q)[k] = q[k + 1]
    BY <2>1
  <2> QED
    BY <2>2 DEF RingFits
<1> QED
  BY <1>1, <1>2

-----------------------------------------------------------------------------
(* Instances: their types, and what exists for each of them *)

InstanceStates ==
  [at : {None, "factory", "construct", "initialize", "allocate", "ready", "gone"},
   factory : Nat, session : BOOLEAN, index : Indices, executes : Nat, point : Nat]

OpticalTypeOK ==
  /\ initializationMutex \in [Apis -> Instances \cup {None}]
  /\ resourceFactory \in Nat
  /\ instances \in [Instances -> InstanceStates]
  /\ pools \subseteq Instances
  /\ sessions \in [Instances -> Nat]
  /\ images \in [Instances -> {None, "viewed", "blank"}]
  /\ views \in [Instances -> Nat]
  /\ queue \in [Instances -> Seq(Entries)]
  /\ rendered \in [Instances -> Nat]
  /\ signalled \in [Instances -> Nat]

\* An instance that is not ready yet was given nothing.
Fresh(i) == instances[i].at \notin {"ready", "gone"}
FreshOK(i) ==
  Fresh(i) =>
    /\ ~instances[i].session
    /\ instances[i].index = 0 /\ instances[i].executes = 0 /\ instances[i].point = 0
    /\ queue[i] = <<>> /\ signalled[i] = 0

ExistsFor(i) ==
  /\ i \in pools <=> i \in VkInstances /\ instances[i].at \in {"allocate", "ready"}
  /\ sessions[i] = IF At(i, "ready") /\ instances[i].session THEN 1 ELSE 0
  /\ views[i] = IF images[i] = "viewed" THEN 1 ELSE 0

TimelineOK(i) == TimelineFits(queue[i], rendered[i], signalled[i], instances[i].point)
RingOK(i) ==
  Ahead <= CMDS_IN_FLIGHT => RingFits(queue[i], instances[i].index, instances[i].executes)

InstanceOK(i) == FreshOK(i) /\ ExistsFor(i) /\ TimelineOK(i) /\ RingOK(i)

\* A step of one instance leaves the others.
Elsewhere(i) ==
  \A j \in Instances \ {i} :
    /\ instances'[j] = instances[j] /\ queue'[j] = queue[j]
    /\ sessions'[j] = sessions[j] /\ images'[j] = images[j] /\ views'[j] = views[j]
    /\ rendered'[j] = rendered[j] /\ signalled'[j] = signalled[j]
    /\ j \in pools' <=> j \in pools

\* What the lemma about each step shows.
Kept(i) == OpticalTypeOK' /\ Elsewhere(i) /\ InstanceOK(i)'

LEMMA Constants ==
  /\ CMDS_IN_FLIGHT \in Nat \ {0} /\ 0 \in Indices
  /\ \A i \in Instances : Api(i) \in Apis /\ i # None
  /\ \A index \in Indices : NextIndex(index) \in Indices
  BY RingAssumption, KindsAssumption DEF Indices, Apis, Api, None, NextIndex

LEMMA NotCreatedState == NotCreated \in InstanceStates
  BY Constants DEF NotCreated, InstanceStates

LEMMA EmptyQueueFits ==
  /\ \A input \in Nat : TimelineFits(<<>>, input, 0, 0)
  /\ RingFits(<<>>, 0, 0)
<1>1. Len(<<>>) = 0
  BY EmptySeq
<1> QED
  BY <1>1 DEF TimelineFits, RingFits

\* Steps that give an instance no call and its queue no command.
Quiet(i) ==
  /\ instances'[i].index = instances[i].index /\ instances'[i].executes = instances[i].executes
  /\ instances'[i].point = instances[i].point
  /\ UNCHANGED <<queue, rendered, signalled>>

LEMMA QuietKeeps ==
  ASSUME NEW i \in Instances, InstanceOK(i), Quiet(i), Fresh(i)' => Fresh(i)
  PROVE  /\ TimelineOK(i)' /\ RingOK(i)'
         /\ (Fresh(i)' => ~instances'[i].session) => FreshOK(i)'
<1>1. /\ instances'[i].index = instances[i].index /\ instances'[i].executes = instances[i].executes
      /\ instances'[i].point = instances[i].point
      /\ queue' = queue /\ rendered' = rendered /\ signalled' = signalled
  BY DEF Quiet
<1>2. TimelineOK(i)'
  BY <1>1 DEF InstanceOK, TimelineOK
<1>3. RingOK(i)'
  BY <1>1 DEF InstanceOK, RingOK
<1>4. (Fresh(i)' => ~instances'[i].session) => FreshOK(i)'
  BY <1>1 DEF InstanceOK, FreshOK
<1> QED
  BY <1>2, <1>3, <1>4

-----------------------------------------------------------------------------
(* The steps *)

LEMMA CreateStep ==
  ASSUME OpticalTypeOK, NEW i \in Instances, InstanceOK(i), Create(i)
  PROVE  Kept(i)
<1>1. PICK state : state = [NotCreated EXCEPT !.at = IF FactoryMissing THEN "factory" ELSE "construct"]
  OBVIOUS
<1>2. /\ instances' = [instances EXCEPT ![i] = state]
      /\ initializationMutex' = [initializationMutex EXCEPT ![Api(i)] = i]
      /\ At(i, None)
      /\ UNCHANGED <<resourceFactory, pools, sessions, images, views, queue, rendered, signalled>>
  BY <1>1 DEF Create, Become, driverVars, imageVars
<1>3. /\ state \in InstanceStates /\ state.at \in {"factory", "construct"} /\ ~state.session
      /\ state.index = 0 /\ state.executes = 0 /\ state.point = 0
  BY <1>1, Constants DEF NotCreated, InstanceStates, OpticalTypeOK
<1>4. OpticalTypeOK' /\ instances'[i] = state /\ Elsewhere(i)
  BY <1>2, <1>3, Constants DEF OpticalTypeOK, Elsewhere
<1>5. Fresh(i)' /\ Fresh(i) /\ Quiet(i)
  BY <1>2, <1>3, <1>4 DEF Fresh, At, Quiet, InstanceOK, FreshOK, None
<1>6. ExistsFor(i)'
  BY <1>2, <1>3, <1>4 DEF InstanceOK, ExistsFor, At, None
<1> QED
  BY <1>3, <1>4, <1>5, <1>6, QuietKeeps DEF Kept, InstanceOK

LEMMA MakeFactoryStep ==
  ASSUME OpticalTypeOK, NEW i \in Instances, InstanceOK(i), MakeFactory(i)
  PROVE  Kept(i)
<1>1. PICK state : state = [instances[i] EXCEPT !.at = "construct"]
  OBVIOUS
<1>2. /\ instances' = [instances EXCEPT ![i] = state]
      /\ resourceFactory' = resourceFactory + 1
      /\ At(i, "factory")
      /\ UNCHANGED <<initializationMutex, pools, sessions, images, views, queue, rendered, signalled>>
  BY <1>1 DEF MakeFactory, Become, driverVars, imageVars
<1>3. /\ state \in InstanceStates /\ state.at = "construct" /\ state.session = instances[i].session
      /\ state.index = instances[i].index /\ state.executes = instances[i].executes
      /\ state.point = instances[i].point
  BY <1>1 DEF InstanceStates, OpticalTypeOK
<1>4. OpticalTypeOK' /\ instances'[i] = state /\ Elsewhere(i)
  BY <1>2, <1>3 DEF OpticalTypeOK, Elsewhere
<1>5. Fresh(i) /\ Quiet(i) /\ ~state.session
  BY <1>2, <1>3, <1>4 DEF Fresh, At, Quiet, InstanceOK, FreshOK
<1>6. ExistsFor(i)'
  BY <1>2, <1>3, <1>4 DEF InstanceOK, ExistsFor, At
<1> QED
  BY <1>4, <1>5, <1>6, QuietKeeps DEF Kept, InstanceOK

LEMMA ConstructStep ==
  ASSUME OpticalTypeOK, NEW i \in Instances, InstanceOK(i), Construct(i)
  PROVE  Kept(i)
<1>1. PICK state : state = [instances[i] EXCEPT !.at = "initialize", !.factory = resourceFactory]
  OBVIOUS
<1>2. /\ instances' = [instances EXCEPT ![i] = state]
      /\ At(i, "construct")
      /\ UNCHANGED <<initializationMutex, resourceFactory, pools, sessions, images, views, queue,
                     rendered, signalled>>
  BY <1>1 DEF Construct, Become, driverVars, imageVars
<1>3. /\ state \in InstanceStates /\ state.at = "initialize" /\ state.session = instances[i].session
      /\ state.index = instances[i].index /\ state.executes = instances[i].executes
      /\ state.point = instances[i].point
  <2>1. instances[i] \in InstanceStates /\ resourceFactory \in Nat
    BY DEF OpticalTypeOK
  <2> QED
    BY <1>1, <2>1 DEF InstanceStates
<1>4. OpticalTypeOK' /\ instances'[i] = state /\ Elsewhere(i)
  BY <1>2, <1>3 DEF OpticalTypeOK, Elsewhere
<1>5. Fresh(i) /\ Quiet(i) /\ ~state.session
  BY <1>2, <1>3, <1>4 DEF Fresh, At, Quiet, InstanceOK, FreshOK
<1>6. ExistsFor(i)'
  BY <1>2, <1>3, <1>4 DEF InstanceOK, ExistsFor, At
<1> QED
  BY <1>4, <1>5, <1>6, QuietKeeps DEF Kept, InstanceOK

LEMMA CreateCommandPoolStep ==
  ASSUME OpticalTypeOK, NEW i \in Instances, InstanceOK(i), CreateCommandPool(i)
  PROVE  Kept(i)
<1>1. PICK state : state = [instances[i] EXCEPT !.at = "allocate"]
  OBVIOUS
<1>2. /\ instances' = [instances EXCEPT ![i] = state]
      /\ pools' = pools \cup {i} /\ i \in VkInstances
      /\ At(i, "initialize")
      /\ UNCHANGED <<initializationMutex, resourceFactory, sessions, images, views, queue, rendered,
                     signalled>>
  BY <1>1 DEF CreateCommandPool, Become, imageVars
<1>3. /\ state \in InstanceStates /\ state.at = "allocate" /\ state.session = instances[i].session
      /\ state.index = instances[i].index /\ state.executes = instances[i].executes
      /\ state.point = instances[i].point
  BY <1>1 DEF InstanceStates, OpticalTypeOK
<1>4. OpticalTypeOK' /\ instances'[i] = state /\ Elsewhere(i)
  BY <1>2, <1>3 DEF OpticalTypeOK, Elsewhere
<1>5. Fresh(i) /\ Quiet(i) /\ ~state.session
  BY <1>2, <1>3, <1>4 DEF Fresh, At, Quiet, InstanceOK, FreshOK
<1>6. ExistsFor(i)'
  BY <1>2, <1>3, <1>4 DEF InstanceOK, ExistsFor, At
<1> QED
  BY <1>4, <1>5, <1>6, QuietKeeps DEF Kept, InstanceOK

LEMMA InitializedStep ==
  ASSUME OpticalTypeOK, NEW i \in Instances, InstanceOK(i), Initialized(i)
  PROVE  Kept(i)
<1>1. PICK state : state = [instances[i] EXCEPT !.at = "ready"]
  OBVIOUS
<1>2. /\ instances' = [instances EXCEPT ![i] = state]
      /\ initializationMutex' = [initializationMutex EXCEPT ![Api(i)] = None]
      /\ At(i, IF i \in VkInstances THEN "allocate" ELSE "initialize")
      /\ UNCHANGED <<resourceFactory, pools, sessions, images, views, queue, rendered, signalled>>
  BY <1>1 DEF Initialized, Become, GiveBack, driverVars, imageVars
<1>3. /\ state \in InstanceStates /\ state.at = "ready" /\ state.session = instances[i].session
      /\ state.index = instances[i].index /\ state.executes = instances[i].executes
      /\ state.point = instances[i].point
  BY <1>1 DEF InstanceStates, OpticalTypeOK
<1>4. OpticalTypeOK' /\ instances'[i] = state /\ Elsewhere(i)
  BY <1>2, <1>3, Constants DEF OpticalTypeOK, Elsewhere
<1>5. Fresh(i) /\ ~Fresh(i)' /\ Quiet(i) /\ ~state.session
  BY <1>2, <1>3, <1>4 DEF Fresh, At, Quiet, InstanceOK, FreshOK
<1>6. ExistsFor(i)'
  BY <1>2, <1>3, <1>4, <1>5 DEF InstanceOK, ExistsFor, At
<1> QED
  BY <1>4, <1>5, <1>6, QuietKeeps DEF Kept, InstanceOK

LEMMA InitializeFailsStep ==
  ASSUME OpticalTypeOK, NEW i \in Instances, InstanceOK(i), InitializeFails(i)
  PROVE  Kept(i)
<1>1. /\ instances' = [instances EXCEPT ![i] = NotCreated]
      /\ initializationMutex' = [initializationMutex EXCEPT ![Api(i)] = None]
      /\ instances[i].at \in {"initialize", "allocate"}
      /\ pools' = pools \ {i}
      /\ UNCHANGED <<resourceFactory, sessions, images, views, queue, rendered, signalled>>
  BY DEF InitializeFails, Become, GiveBack, At, imageVars
<1>2. OpticalTypeOK' /\ instances'[i] = NotCreated /\ Elsewhere(i)
  BY <1>1, Constants, NotCreatedState DEF OpticalTypeOK, Elsewhere
<1>3. Fresh(i) /\ Fresh(i)' /\ Quiet(i) /\ ~instances'[i].session
  BY <1>1, <1>2 DEF Fresh, Quiet, InstanceOK, FreshOK, NotCreated, None
<1>4. ExistsFor(i)'
  BY <1>1, <1>2 DEF InstanceOK, ExistsFor, At, NotCreated, None
<1> QED
  BY <1>2, <1>3, <1>4, QuietKeeps DEF Kept, InstanceOK

LEMMA InitSessionStep ==
  ASSUME OpticalTypeOK, NEW i \in Instances, InstanceOK(i), InitSession(i)
  PROVE  Kept(i)
<1>1. PICK state : state = [instances[i] EXCEPT !.session = TRUE]
  OBVIOUS
<1>2. /\ instances' = [instances EXCEPT ![i] = state]
      /\ sessions' = [sessions EXCEPT ![i] = sessions[i] + 1]
      /\ At(i, "ready") /\ ~instances[i].session
      /\ UNCHANGED <<initializationMutex, resourceFactory, pools, images, views, queue, rendered,
                     signalled>>
  BY <1>1 DEF InitSession, Become, imageVars
<1>3. /\ state \in InstanceStates /\ state.at = "ready" /\ state.session
      /\ state.index = instances[i].index /\ state.executes = instances[i].executes
      /\ state.point = instances[i].point
  BY <1>1, <1>2 DEF InstanceStates, OpticalTypeOK, At
<1>4. /\ OpticalTypeOK' /\ instances'[i] = state /\ Elsewhere(i)
      /\ sessions'[i] = sessions[i] + 1
  BY <1>2, <1>3 DEF OpticalTypeOK, Elsewhere
<1>5. ~Fresh(i)' /\ Quiet(i)
  BY <1>2, <1>3, <1>4 DEF Fresh, Quiet
<1>6. ExistsFor(i)'
  BY <1>2, <1>3, <1>4 DEF InstanceOK, ExistsFor, At
<1> QED
  BY <1>4, <1>5, <1>6, QuietKeeps DEF Kept, InstanceOK

LEMMA OFSessionDestroyStep ==
  ASSUME OpticalTypeOK, NEW i \in Instances, InstanceOK(i), OFSessionDestroy(i)
  PROVE  Kept(i)
<1>1. PICK state : state = [instances[i] EXCEPT !.at = "gone"]
  OBVIOUS
<1>2. /\ instances' = [instances EXCEPT ![i] = state]
      /\ sessions' = [sessions EXCEPT ![i] = IF instances[i].session THEN sessions[i] - 1
                                             ELSE sessions[i]]
      /\ pools' = pools \ {i}
      /\ At(i, "ready")
      /\ UNCHANGED <<initializationMutex, resourceFactory, images, views, queue, rendered, signalled>>
  BY <1>1 DEF OFSessionDestroy, Become, imageVars
<1>3. /\ state \in InstanceStates /\ state.at = "gone"
      /\ state.index = instances[i].index /\ state.executes = instances[i].executes
      /\ state.point = instances[i].point
  BY <1>1 DEF InstanceStates, OpticalTypeOK
<1>4. (IF instances[i].session THEN sessions[i] - 1 ELSE sessions[i]) = 0
  BY <1>2 DEF InstanceOK, ExistsFor
<1>5. /\ OpticalTypeOK' /\ instances'[i] = state /\ Elsewhere(i)
      /\ sessions'[i] = 0
  BY <1>2, <1>3, <1>4 DEF OpticalTypeOK, Elsewhere
<1>6. ~Fresh(i)' /\ Quiet(i)
  BY <1>2, <1>3, <1>5 DEF Fresh, Quiet
<1>7. ExistsFor(i)'
  BY <1>2, <1>3, <1>5 DEF InstanceOK, ExistsFor, At
<1> QED
  BY <1>5, <1>6, <1>7, QuietKeeps DEF Kept, InstanceOK

LEMMA UnregisterStep ==
  ASSUME OpticalTypeOK, NEW i \in Instances, InstanceOK(i), Unregister(i)
  PROVE  Kept(i)
<1>1. /\ images' = [images EXCEPT ![i] = None]
      /\ views' = [views EXCEPT ![i] = IF images[i] = "viewed" THEN views[i] - 1 ELSE views[i]]
      /\ UNCHANGED <<initializationMutex, resourceFactory, instances, pools, sessions, queue,
                     rendered, signalled>>
  BY DEF Unregister
<1>2. (IF images[i] = "viewed" THEN views[i] - 1 ELSE views[i]) = 0
  BY DEF InstanceOK, ExistsFor
<1>3. OpticalTypeOK' /\ Elsewhere(i) /\ images'[i] = None /\ views'[i] = 0
  BY <1>1, <1>2 DEF OpticalTypeOK, Elsewhere
<1>4. Quiet(i) /\ (Fresh(i)' <=> Fresh(i)) /\ (Fresh(i)' => ~instances'[i].session)
  BY <1>1 DEF Quiet, Fresh, InstanceOK, FreshOK
<1>5. ExistsFor(i)'
  BY <1>1, <1>3 DEF InstanceOK, ExistsFor, At, None
<1> QED
  BY <1>3, <1>4, <1>5, QuietKeeps DEF Kept, InstanceOK

(* What an instance has not been through, its queue has not been given.    *)
LEMMA RegisterBufferStep ==
  ASSUME OpticalTypeOK, NEW i \in Instances, InstanceOK(i), RegisterBuffer(i)
  PROVE  Kept(i)
<1>1. /\ At(i, "ready") /\ images[i] = None
      /\ RegisterEnqueues(i)
      /\ UNCHANGED <<initializationMutex, resourceFactory, pools, sessions, rendered, signalled>>
  BY DEF RegisterBuffer
<1>2. /\ images' \in [Instances -> {None, "viewed", "blank"}] /\ views' \in [Instances -> Nat]
      /\ \A j \in Instances \ {i} : images'[j] = images[j] /\ views'[j] = views[j]
      /\ views'[i] = IF images'[i] = "viewed" THEN 1 ELSE 0
  <2>1. views[i] = 0
    BY <1>1 DEF InstanceOK, ExistsFor, None
  <2>2. CASE images' = [images EXCEPT ![i] = "viewed"] /\ views' = [views EXCEPT ![i] = views[i] + 1]
    BY <2>1, <2>2 DEF OpticalTypeOK
  <2>3. CASE images' = [images EXCEPT ![i] = "blank"] /\ UNCHANGED views
    BY <2>1, <2>3 DEF OpticalTypeOK
  <2> QED
    BY <2>2, <2>3 DEF RegisterBuffer
<1>3. CASE i \in VkInstances
  <2>1. UNCHANGED <<instances, queue>>
    BY <1>1, <1>3 DEF RegisterEnqueues
  <2>2. OpticalTypeOK' /\ Elsewhere(i)
    BY <1>1, <1>2, <2>1 DEF OpticalTypeOK, Elsewhere
  <2>3. Quiet(i) /\ (Fresh(i)' <=> Fresh(i)) /\ (Fresh(i)' => ~instances'[i].session)
    BY <1>1, <2>1 DEF Quiet, Fresh, InstanceOK, FreshOK
  <2>4. ExistsFor(i)'
    BY <1>1, <1>2, <2>1 DEF InstanceOK, ExistsFor, At
  <2> QED
    BY <2>2, <2>3, <2>4, QuietKeeps DEF Kept, InstanceOK
<1>4. CASE i \notin VkInstances
  <2>1. PICK p, state : p = instances[i].point + 1 /\ state = [instances[i] EXCEPT !.point = p]
    OBVIOUS
  <2>2. /\ queue' = [queue EXCEPT ![i] = queue[i] \o RegisterCommands(p)]
        /\ instances' = [instances EXCEPT ![i] = state]
    BY <1>1, <1>4, <2>1 DEF RegisterEnqueues, Become
  <2>3. instances[i] \in InstanceStates /\ p \in Nat /\ queue[i] \in Seq(Entries)
    BY <2>1 DEF OpticalTypeOK, InstanceStates
  <2>4. /\ state \in InstanceStates /\ state.at = "ready" /\ state.session = instances[i].session
        /\ state.index = instances[i].index /\ state.executes = instances[i].executes
        /\ state.point = p
    BY <1>1, <2>1, <2>3 DEF InstanceStates, At
  <2>5. queue[i] \o RegisterCommands(p) \in Seq(Entries)
    BY <2>3, RegistrationEnqueues
  <2>6. /\ OpticalTypeOK' /\ instances'[i] = state /\ Elsewhere(i)
        /\ queue'[i] = queue[i] \o RegisterCommands(p)
    BY <1>1, <1>2, <2>2, <2>4, <2>5 DEF OpticalTypeOK, Elsewhere
  <2>7. FreshOK(i)'
    BY <2>4, <2>6 DEF FreshOK, Fresh
  <2>8. ExistsFor(i)'
    BY <1>1, <1>2, <2>4, <2>6 DEF InstanceOK, ExistsFor, At
  <2>9. TimelineOK(i)'
    <3>1. /\ rendered[i] \in Nat /\ signalled[i] \in Nat /\ instances[i].point \in Nat
      BY <2>3 DEF OpticalTypeOK, InstanceStates
    <3>2. TimelineFits(queue[i] \o RegisterCommands(p), rendered[i], signalled[i], p)
      BY <2>1, <2>3, <3>1, TimelineGrows DEF InstanceOK, TimelineOK
    <3> QED
      BY <1>1, <2>4, <2>6, <3>2 DEF TimelineOK
  <2>10. RingOK(i)'
    <3>1. instances[i].index \in Indices /\ instances[i].executes \in Nat
      BY <2>3 DEF InstanceStates
    <3> QED
      BY <2>3, <2>4, <2>6, <3>1, RingStays DEF InstanceOK, RingOK
  <2> QED
    BY <2>6, <2>7, <2>8, <2>9, <2>10 DEF Kept, InstanceOK
<1> QED
  BY <1>3, <1>4

(* The guard of Execute speaks of the work in the queue.                   *)
LEMMA PendingWork ==
  ASSUME OpticalTypeOK, NEW i \in Instances
  PROVE  \A e : e \in Pending(i) <=> \E k \in 1 .. Len(queue[i]) : queue[i][k] = e /\ e.op = "run"
<1>1. DOMAIN queue[i] = 1 .. Len(queue[i])
  BY LenProperties DEF OpticalTypeOK
<1> QED
  BY <1>1 DEF Pending, ToSet

LEMMA ExecuteStep ==
  ASSUME OpticalTypeOK, NEW i \in Instances, InstanceOK(i), Execute(i)
  PROVE  /\ Kept(i)
         /\ Ahead <= CMDS_IN_FLIGHT => \A e \in Pending(i) : e.index # instances[i].index
<1>1. PICK n, p, index, next :
        /\ n = instances[i].executes + 1 /\ p = instances[i].point + 1
        /\ index = NextIndex(instances[i].index)
        /\ next = [instances[i] EXCEPT !.index = index, !.executes = n]
  OBVIOUS
<1>2. /\ At(i, "ready")
      /\ \A e \in Pending(i) : e.call > n - Ahead
      /\ \/ /\ queue' = [queue EXCEPT ![i] = queue[i] \o ExecuteCommands(p, instances[i].index, n)]
            /\ instances' = [instances EXCEPT ![i] = [next EXCEPT !.point = p]]
         \/ /\ instances' = [instances EXCEPT ![i] = next]
            /\ UNCHANGED queue
      /\ UNCHANGED <<initializationMutex, resourceFactory, pools, sessions, images, views, rendered,
                     signalled>>
  BY <1>1 DEF Execute, Become, imageVars
<1>3. /\ instances[i] \in InstanceStates /\ queue[i] \in Seq(Entries)
      /\ instances[i].index \in Indices /\ instances[i].executes \in Nat
      /\ instances[i].point \in Nat /\ rendered[i] \in Nat /\ signalled[i] \in Nat
      /\ n \in Nat /\ p \in Nat /\ index \in Indices
  <2>1. instances[i] \in InstanceStates
    BY DEF OpticalTypeOK
  <2>2. instances[i].index \in Indices /\ instances[i].executes \in Nat /\ instances[i].point \in Nat
    BY <2>1 DEF InstanceStates
  <2> QED
    BY <1>1, <2>1, <2>2, Constants, SMTT(30) DEF OpticalTypeOK
<1>4. /\ next \in InstanceStates /\ next.at = "ready" /\ next.session = instances[i].session
      /\ next.index = index /\ next.executes = n /\ next.point = instances[i].point
  BY <1>1, <1>2, <1>3 DEF InstanceStates, At
<1>5. ASSUME Ahead <= CMDS_IN_FLIGHT
      PROVE  /\ \A e \in Pending(i) : e.index # instances[i].index
             /\ RingFits(queue[i], index, n)
             /\ RingFits(queue[i] \o ExecuteCommands(p, instances[i].index, n), index, n)
  <2>1. \A k \in 1 .. Len(queue[i]) : queue[i][k].op = "run" =>
          queue[i][k].call > instances[i].executes + 1 - Ahead
    <3> SUFFICES ASSUME NEW k \in 1 .. Len(queue[i]), queue[i][k].op = "run"
                 PROVE  queue[i][k].call > instances[i].executes + 1 - Ahead
      OBVIOUS
    <3>1. queue[i][k] \in Pending(i)
      BY PendingWork
    <3>2. queue[i][k].call > n - Ahead
      BY <1>2, <3>1
    <3>3. queue[i][k].call \in Nat
      BY <1>3, ElementOfSeq, EntryForms
    <3>4. PICK call, executes : call = queue[i][k].call /\ executes = instances[i].executes
      OBVIOUS
    <3>5. n = executes + 1 /\ executes \in Nat /\ Ahead \in Nat /\ call \in Nat /\ call > n - Ahead
      BY <1>1, <1>3, <3>2, <3>3, <3>4, RingAssumption
    <3>6. call > executes + 1 - Ahead
      BY <3>5
    <3> QED
      BY <3>4, <3>6
  <2>2. RingFits(queue[i], instances[i].index, instances[i].executes)
    BY <1>5 DEF InstanceOK, RingOK
  <2>3. /\ \A k \in 1 .. Len(queue[i]) : queue[i][k].op = "run" =>
             queue[i][k].index # instances[i].index
        /\ RingFits(queue[i], index, n)
        /\ RingFits(queue[i] \o ExecuteCommands(p, instances[i].index, n), index, n)
    BY <1>1, <1>3, <1>5, <2>1, <2>2, RingMoves
  <2> QED
    BY <2>3, PendingWork
<1>6. CASE /\ queue' = [queue EXCEPT ![i] = queue[i] \o ExecuteCommands(p, instances[i].index, n)]
           /\ instances' = [instances EXCEPT ![i] = [next EXCEPT !.point = p]]
  <2>1. PICK state : state = [next EXCEPT !.point = p]
    OBVIOUS
  <2>2. /\ state \in InstanceStates /\ state.at = "ready" /\ state.session = instances[i].session
        /\ state.index = index /\ state.executes = n /\ state.point = p
    BY <1>3, <1>4, <2>1 DEF InstanceStates
  <2>3. queue[i] \o ExecuteCommands(p, instances[i].index, n) \in Seq(Entries)
    BY <1>3, ExecuteEnqueues
  <2>4. /\ OpticalTypeOK' /\ instances'[i] = state /\ Elsewhere(i)
        /\ queue'[i] = queue[i] \o ExecuteCommands(p, instances[i].index, n)
    BY <1>2, <1>6, <2>1, <2>2, <2>3 DEF OpticalTypeOK, Elsewhere
  <2>5. FreshOK(i)'
    BY <2>2, <2>4 DEF FreshOK, Fresh
  <2>6. ExistsFor(i)'
    BY <1>2, <2>2, <2>4 DEF InstanceOK, ExistsFor, At
  <2>7. TimelineOK(i)'
    <3>1. TimelineFits(queue[i] \o ExecuteCommands(p, instances[i].index, n),
                       rendered[i], signalled[i], p)
      BY <1>1, <1>3, TimelineGrows DEF InstanceOK, TimelineOK
    <3> QED
      BY <1>2, <2>2, <2>4, <3>1 DEF TimelineOK
  <2>8. RingOK(i)'
    BY <1>5, <2>2, <2>4 DEF RingOK
  <2> QED
    BY <1>5, <2>4, <2>5, <2>6, <2>7, <2>8 DEF Kept, InstanceOK
<1>7. CASE instances' = [instances EXCEPT ![i] = next] /\ UNCHANGED queue
  <2>1. OpticalTypeOK' /\ instances'[i] = next /\ Elsewhere(i) /\ queue'[i] = queue[i]
    BY <1>2, <1>4, <1>7 DEF OpticalTypeOK, Elsewhere
  <2>2. FreshOK(i)'
    BY <1>4, <2>1 DEF FreshOK, Fresh
  <2>3. ExistsFor(i)'
    BY <1>2, <1>4, <2>1 DEF InstanceOK, ExistsFor, At
  <2>4. TimelineOK(i)'
    BY <1>2, <1>4, <2>1 DEF InstanceOK, TimelineOK
  <2>5. RingOK(i)'
    BY <1>4, <1>5, <2>1 DEF RingOK
  <2> QED
    BY <1>5, <2>1, <2>2, <2>3, <2>4, <2>5 DEF Kept, InstanceOK
<1> QED
  BY <1>2, <1>6, <1>7

LEMMA QueueStepStep ==
  ASSUME OpticalTypeOK, NEW i \in Instances, InstanceOK(i), QueueStep(i)
  PROVE  Kept(i)
<1>1. PICK q, after : q = queue[i] /\ after = IF q[1].op = "signal" THEN q[1].point ELSE signalled[i]
  OBVIOUS
<1>2. /\ q \in Seq(Entries) /\ q # <<>> /\ Head(q) = q[1]
      /\ instances[i] \in InstanceStates
      /\ rendered[i] \in Nat /\ signalled[i] \in Nat
  BY <1>1 DEF QueueStep, OpticalTypeOK
<1>3. instances[i].point \in Nat /\ instances[i].index \in Indices /\ instances[i].executes \in Nat
  BY <1>2 DEF InstanceStates
<1>4. /\ q[1].op = "wait" => rendered[i] >= q[1].point
      /\ queue' = [queue EXCEPT ![i] = Tail(q)]
      /\ UNCHANGED <<initializationMutex, resourceFactory, instances, pools, sessions, images, views,
                     rendered>>
  BY <1>1, <1>2 DEF QueueStep, imageVars
<1>5. /\ signalled'[i] = after
      /\ signalled' = [signalled EXCEPT ![i] = after]
  BY <1>1, <1>2 DEF QueueStep, OpticalTypeOK
<1>6. after \in Nat /\ TimelineFits(Tail(q), rendered[i], after, instances[i].point)
  BY <1>1, <1>2, <1>3, <1>4, TimelineRuns DEF InstanceOK, TimelineOK
<1>7. Tail(q) \in Seq(Entries)
  BY <1>2, HeadTailProperties
<1>8. OpticalTypeOK' /\ Elsewhere(i) /\ queue'[i] = Tail(q)
  BY <1>4, <1>5, <1>6, <1>7 DEF OpticalTypeOK, Elsewhere
<1>9. FreshOK(i)'
  BY <1>1, <1>2, <1>4 DEF InstanceOK, FreshOK, Fresh
<1>10. ExistsFor(i)'
  BY <1>4 DEF InstanceOK, ExistsFor, At
<1>11. TimelineOK(i)'
  BY <1>4, <1>5, <1>6, <1>8 DEF TimelineOK
<1>12. RingOK(i)'
  BY <1>1, <1>2, <1>3, <1>4, <1>8, RingStays DEF InstanceOK, RingOK
<1> QED
  BY <1>8, <1>9, <1>10, <1>11, <1>12 DEF Kept, InstanceOK

LEMMA RenderStep ==
  ASSUME OpticalTypeOK, NEW i \in Instances, InstanceOK(i), Render(i)
  PROVE  Kept(i)
<1>1. /\ rendered' = [rendered EXCEPT ![i] = rendered[i] + 1]
      /\ UNCHANGED <<initializationMutex, resourceFactory, instances, pools, sessions, images, views,
                     queue, signalled>>
  BY DEF Render, imageVars
<1>2. /\ rendered[i] \in Nat /\ signalled[i] \in Nat /\ instances[i].point \in Nat
      /\ queue[i] \in Seq(Entries)
  BY DEF OpticalTypeOK, InstanceStates
<1>3. OpticalTypeOK' /\ Elsewhere(i) /\ rendered'[i] = rendered[i] + 1
  BY <1>1, <1>2 DEF OpticalTypeOK, Elsewhere
<1>4. FreshOK(i)' /\ ExistsFor(i)' /\ RingOK(i)'
  BY <1>1 DEF InstanceOK, FreshOK, Fresh, ExistsFor, At, RingOK
<1>5. TimelineOK(i)'
  BY <1>1, <1>2, <1>3, TimelineRenders DEF InstanceOK, TimelineOK
<1> QED
  BY <1>3, <1>4, <1>5 DEF Kept, InstanceOK

-----------------------------------------------------------------------------
(* The typing and what holds of every instance, over all steps *)

OpticalInv == OpticalTypeOK /\ \A i \in Instances : InstanceOK(i)

LEMMA OpticalInit == Init => OpticalInv
<1> SUFFICES ASSUME Init PROVE OpticalInv
  OBVIOUS
<1>1. OpticalTypeOK
  <2>1. <<>> \in Seq(Entries)
    OBVIOUS
  <2> QED
    BY <2>1, NotCreatedState DEF Init, OpticalTypeOK, None
<1>2. ASSUME NEW i \in Instances PROVE InstanceOK(i)
  <2>1. /\ instances[i] = NotCreated /\ images[i] = None /\ sessions[i] = 0 /\ views[i] = 0
        /\ queue[i] = <<>> /\ rendered[i] = 0 /\ signalled[i] = 0 /\ i \notin pools
    BY DEF Init
  <2>2. FreshOK(i) /\ ExistsFor(i)
    BY <2>1 DEF FreshOK, Fresh, ExistsFor, At, NotCreated, None
  <2>3. TimelineOK(i) /\ RingOK(i)
    BY <2>1, EmptyQueueFits DEF TimelineOK, RingOK, NotCreated
  <2> QED
    BY <2>2, <2>3 DEF InstanceOK
<1> QED
  BY <1>1, <1>2 DEF OpticalInv

(* The steps of an instance, its queue's and its application's included.   *)
InstanceNext(i) ==
  \/ Create(i) \/ MakeFactory(i) \/ Construct(i)
  \/ CreateCommandPool(i) \/ Initialized(i) \/ InitializeFails(i)
  \/ InitSession(i) \/ OFSessionDestroy(i)
  \/ RegisterBuffer(i) \/ Unregister(i) \/ Execute(i)
  \/ QueueStep(i) \/ Render(i)

LEMMA EveryStepKeeps ==
  ASSUME OpticalTypeOK, NEW i \in Instances, InstanceOK(i), InstanceNext(i)
  PROVE  Kept(i)
  BY CreateStep, MakeFactoryStep, ConstructStep, CreateCommandPoolStep, InitializedStep, InitializeFailsStep,
     InitSessionStep, OFSessionDestroyStep, RegisterBufferStep, UnregisterStep, ExecuteStep,
     QueueStepStep, RenderStep
  DEF InstanceNext

LEMMA OpticalNext == OpticalInv /\ [Next]_vars => OpticalInv'
<1> SUFFICES ASSUME OpticalInv, [Next]_vars PROVE OpticalInv'
  OBVIOUS
<1>1. ASSUME NEW i \in Instances, InstanceNext(i) PROVE OpticalInv'
  <2>1. Kept(i)
    BY <1>1, EveryStepKeeps DEF OpticalInv
  <2>2. ASSUME NEW j \in Instances \ {i} PROVE InstanceOK(j)'
    <3>1. /\ instances'[j] = instances[j] /\ queue'[j] = queue[j]
          /\ sessions'[j] = sessions[j] /\ images'[j] = images[j] /\ views'[j] = views[j]
          /\ rendered'[j] = rendered[j] /\ signalled'[j] = signalled[j]
          /\ j \in pools' <=> j \in pools
      BY <2>1 DEF Kept, Elsewhere
    <3>2. InstanceOK(j)
      BY DEF OpticalInv
    <3> QED
      BY <3>1, <3>2 DEF InstanceOK, FreshOK, Fresh, ExistsFor, At, TimelineOK, RingOK
  <2> QED
    BY <2>1, <2>2 DEF Kept, OpticalInv
<1>2. CASE UNCHANGED vars
  BY <1>2 DEF vars, driverVars, imageVars, OpticalInv, OpticalTypeOK, InstanceOK, FreshOK, Fresh,
     ExistsFor, At, TimelineOK, RingOK
<1> QED
  BY <1>1, <1>2 DEF Next, InstanceNext

LEMMA OpticalInductive == Spec => []OpticalInv
  BY OpticalInit, OpticalNext, PTL DEF Spec

-----------------------------------------------------------------------------
(* What a signal means, and what is left *)

(* When a point of an instance's timeline is signalled, its input has been *)
(* rendered and all the work given with it or before it has run: the queue *)
(* is in the order of the calls, and every call's signal follows both its  *)
(* wait and its work.                                                      *)
THEOREM SignalsAfterWork == Spec => []SignalMeansDone
<1>1. OpticalInv => SignalMeansDone
  <2> SUFFICES ASSUME OpticalInv, NEW i \in Instances
               PROVE  /\ signalled[i] <= rendered[i]
                      /\ \A e \in Pending(i) : e.point > signalled[i]
    BY DEF SignalMeansDone
  <2>1. TimelineFits(queue[i], rendered[i], signalled[i], instances[i].point)
    BY DEF OpticalInv, InstanceOK, TimelineOK
  <2> QED
    BY <2>1, PendingWork DEF OpticalInv, TimelineFits, EntryFits
<1> QED
  BY <1>1, OpticalInductive, PTL

(* The driver's command pools and sessions are those of the instances that *)
(* exist, however far an instance comes before it fails, and its views are *)
(* those of the images that are registered.                                *)
THEOREM NoDriverObjectLeaks == Spec => []NothingLeaks
<1>1. OpticalInv => NothingLeaks
  BY DEF OpticalInv, OpticalTypeOK, InstanceOK, ExistsFor, NothingLeaks, Instances
<1> QED
  BY <1>1, OpticalInductive, PTL

(* The number of calls of Execute an instance has had is raised by Execute *)
(* only.                                                                   *)
LEMMA ExecutesOnlyGrowByExecute ==
  ASSUME OpticalInv, NEW i \in Instances, InstanceNext(i), ~Execute(i),
         NEW j \in Instances
  PROVE  ~(instances'[j].executes > instances[j].executes)
<1>1. /\ instances \in [Instances -> InstanceStates]
      /\ instances[j].executes \in Nat /\ InstanceOK(i)
  BY DEF OpticalInv, OpticalTypeOK, InstanceStates
<1>2. CASE j # i
  <2>1. instances'[j] = instances[j]
    BY <1>2, EveryStepKeeps DEF OpticalInv, Kept, Elsewhere
  <2> QED
    BY <1>1, <2>1
<1>3. CASE j = i
  <2>1. instances'[i].executes = instances[i].executes
    <3>1. CASE Create(i) \/ InitializeFails(i)
      <4>1. Fresh(i)
        BY <3>1 DEF Create, InitializeFails, At, Fresh, None
      <4>2. instances'[i].executes = 0
        <5>1. CASE Create(i)
          BY <1>1, <5>1 DEF Create, Become, NotCreated
        <5>2. CASE InitializeFails(i)
          BY <1>1, <5>2 DEF InitializeFails, Become, NotCreated
        <5> QED
          BY <3>1, <5>1, <5>2
      <4> QED
        BY <1>1, <4>1, <4>2 DEF InstanceOK, FreshOK
    <3>2. CASE \/ MakeFactory(i) \/ Construct(i) \/ CreateCommandPool(i) \/ Initialized(i)
               \/ InitSession(i) \/ OFSessionDestroy(i)
      <4>1. instances[i] \in InstanceStates
        BY <1>1
      <4>2. CASE MakeFactory(i)
        BY <1>1, <4>1, <4>2 DEF MakeFactory, Become, InstanceStates
      <4>5. CASE Construct(i)
        BY <1>1, <4>1, <4>5 DEF Construct, Become, InstanceStates
      <4>3. CASE CreateCommandPool(i) \/ Initialized(i)
        BY <1>1, <4>1, <4>3 DEF CreateCommandPool, Initialized, Become, InstanceStates
      <4>4. CASE InitSession(i) \/ OFSessionDestroy(i)
        BY <1>1, <4>1, <4>4 DEF InitSession, OFSessionDestroy, Become, InstanceStates
      <4> QED
        BY <3>2, <4>2, <4>3, <4>4, <4>5
    <3>3. CASE RegisterBuffer(i)
      <4>1. instances[i] \in InstanceStates
        BY <1>1
      <4>2. \/ UNCHANGED instances
            \/ instances' = [instances EXCEPT ![i] = [instances[i] EXCEPT !.point = instances[i].point + 1]]
        BY <3>3 DEF RegisterBuffer, RegisterEnqueues, Become
      <4> QED
        BY <1>1, <4>1, <4>2 DEF InstanceStates
    <3>4. CASE Unregister(i) \/ QueueStep(i) \/ Render(i)
      BY <3>4 DEF Unregister, QueueStep, Render
    <3> QED
      BY <3>1, <3>2, <3>3, <3>4 DEF InstanceNext
  <2> QED
    BY <1>1, <1>3, <2>1
<1> QED
  BY <1>2, <1>3

(* Execute records into no command buffer the queue has yet to run, as     *)
(* long as the application has no more calls in flight than the ring has   *)
(* buffers: the buffer of a call that is n calls old is n places back.     *)
THEOREM BuffersAreFree ==
  ASSUME Ahead <= CMDS_IN_FLIGHT
  PROVE  Spec => RecordsIntoFreeBuffer
<1>1. OpticalInv /\ [Next]_vars =>
        [\A i \in Instances : instances'[i].executes > instances[i].executes =>
           \A e \in Pending(i) : e.index # instances[i].index]_vars
  <2> SUFFICES ASSUME OpticalInv, NEW i \in Instances, InstanceNext(i),
                      NEW j \in Instances, instances'[j].executes > instances[j].executes
               PROVE  \A e \in Pending(j) : e.index # instances[j].index
    BY DEF Next, InstanceNext
  <2>1. Execute(i)
    BY ExecutesOnlyGrowByExecute
  <2>2. i = j
    <3>1. Elsewhere(i) /\ instances[j].executes \in Nat
      BY EveryStepKeeps DEF OpticalInv, Kept, OpticalTypeOK, InstanceStates
    <3> QED
      BY <3>1 DEF Elsewhere
  <2> QED
    BY <2>1, <2>2, ExecuteStep DEF OpticalInv
<1> QED
  BY <1>1, OpticalInductive, PTL DEF Spec, RecordsIntoFreeBuffer

-----------------------------------------------------------------------------
(* Every point that was given is signalled once, in its turn *)

\* With `done` signalled and `last` given, the points in between are to be signalled by the
\* queue, and nothing else is, in their order.
Owes(q, done, last) ==
  /\ \A p \in 1 .. last : p > done => \E k \in 1 .. Len(q) : q[k] = Signal(p)
  /\ \A k \in 1 .. Len(q) : q[k].op = "signal" => q[k].point > done
  /\ \A k \in 1 .. Len(q) : \A j \in 1 .. k - 1 :
       q[j].op = "signal" /\ q[k].op = "signal" => q[j].point < q[k].point

OwesOK(i) == Owes(queue[i], signalled[i], instances[i].point)

(* A queue that gets a signal of the next point as its last owes that, too.*)
LEMMA OwesMore ==
  ASSUME NEW q \in Seq(Entries), NEW done \in Nat, NEW last \in Nat, Owes(q, done, last),
         \A k \in 1 .. Len(q) : q[k].point <= last, done <= last,
         NEW r \in Seq(Entries), Len(r) > Len(q), \A k \in 1 .. Len(q) : r[k] = q[k],
         \A k \in Len(q) + 1 .. Len(r) - 1 : r[k].op # "signal", r[Len(r)] = Signal(last + 1)
  PROVE  Owes(r, done, last + 1)
<1>1. PICK m, n : m = Len(q) /\ n = Len(r)
  OBVIOUS
<1>2. m \in Nat /\ n \in Nat /\ m < n
  BY <1>1, LenProperties
<1>3. r[n].op = "signal" /\ r[n].point = last + 1
  BY <1>1 DEF Signal
<1>4. \A k \in 1 .. n : r[k].op = "signal" => k = n \/ k \in 1 .. m
  BY <1>1, <1>2
<1>5. ASSUME NEW p \in 1 .. last + 1, p > done PROVE \E k \in 1 .. n : r[k] = Signal(p)
  <2>1. CASE p = last + 1
    BY <1>1, <1>2, <2>1
  <2>2. CASE p # last + 1
    <3>1. p \in 1 .. last
      BY <2>2
    <3>2. PICK k \in 1 .. m : q[k] = Signal(p)
      BY <1>1, <1>5, <3>1 DEF Owes
    <3> QED
      BY <1>1, <1>2, <3>2
  <2> QED
    BY <2>1, <2>2
<1>6. ASSUME NEW k \in 1 .. n, r[k].op = "signal" PROVE r[k].point > done
  <2>1. CASE k = n
    BY <1>3, <2>1
  <2>2. CASE k \in 1 .. m
    BY <1>1, <1>6, <2>2 DEF Owes
  <2> QED
    BY <1>4, <1>6, <2>1, <2>2
<1>7. ASSUME NEW k \in 1 .. n, NEW j \in 1 .. k - 1, r[j].op = "signal", r[k].op = "signal"
      PROVE  r[j].point < r[k].point
  <2>0. j \in 1 .. n /\ j # n
    BY <1>2, <1>7
  <2>1. j \in 1 .. m /\ r[j] = q[j]
    BY <1>1, <1>4, <1>7, <2>0
  <2>2. CASE k = n
    <3>1. q[j].point <= last /\ q[j].point \in Nat
      BY <1>1, <2>1, ElementOfSeq, EntryForms
    <3> QED
      BY <1>3, <2>1, <2>2, <3>1
  <2>3. CASE k \in 1 .. m
    BY <1>1, <1>7, <2>1, <2>3 DEF Owes
  <2> QED
    BY <1>4, <1>7, <2>2, <2>3
<1> QED
  BY <1>1, <1>5, <1>6, <1>7 DEF Owes

(* A queue that goes on signals the next point, or none.                   *)
LEMMA OwesLess ==
  ASSUME NEW q \in Seq(Entries), q # <<>>, NEW done \in Nat, NEW last \in Nat,
         Owes(q, done, last), q[1].point <= last
  PROVE  /\ q[1].op = "signal" => q[1].point = done + 1 /\ Owes(Tail(q), done + 1, last)
         /\ q[1].op # "signal" => Owes(Tail(q), done, last)
<1>1. PICK n, r : n = Len(q) /\ r = Tail(q)
  OBVIOUS
<1>2. /\ n \in Nat \ {0}
      /\ \A k \in 1 .. n : q[k].point \in Nat
      /\ Len(r) = n - 1
      /\ \A k \in 1 .. n - 1 : r[k] = q[k + 1]
  BY <1>1, LenProperties, EmptySeq, ElementOfSeq, EntryForms, HeadTailProperties
<1>3. /\ \A p \in 1 .. last : p > done => \E k \in 1 .. n : q[k] = Signal(p)
      /\ \A k \in 1 .. n : q[k].op = "signal" => q[k].point > done
      /\ \A k \in 1 .. n : \A j \in 1 .. k - 1 :
           q[j].op = "signal" /\ q[k].op = "signal" => q[j].point < q[k].point
  BY <1>1 DEF Owes
<1>4. \A p \in 1 .. last : Signal(p).op = "signal" /\ Signal(p).point = p
  BY DEF Signal
<1>5. \A k \in 1 .. n - 1 : \A j \in 1 .. k - 1 :
        r[j].op = "signal" /\ r[k].op = "signal" => r[j].point < r[k].point
  <2> SUFFICES ASSUME NEW k \in 1 .. n - 1, NEW j \in 1 .. k - 1,
                      r[j].op = "signal", r[k].op = "signal"
               PROVE  r[j].point < r[k].point
    OBVIOUS
  <2>1. j \in 1 .. n - 1 /\ k + 1 \in 1 .. n /\ j + 1 \in 1 .. (k + 1) - 1
    BY <1>2
  <2>2. r[k] = q[k + 1] /\ r[j] = q[j + 1]
    BY <1>2, <2>1
  <2> QED
    BY <1>3, <2>1, <2>2
<1>6. ASSUME q[1].op = "signal"
      PROVE  q[1].point = done + 1 /\ Owes(r, done + 1, last)
  <2>1. 1 \in 1 .. n /\ q[1].point > done /\ q[1].point \in Nat
    BY <1>2, <1>3, <1>6
  <2>2. q[1].point = done + 1
    <3>1. done + 1 \in 1 .. last
      BY <2>1
    <3>2. PICK k \in 1 .. n : q[k] = Signal(done + 1)
      BY <1>3, <3>1
    <3>3. q[k].op = "signal" /\ q[k].point = done + 1
      BY <1>4, <3>1, <3>2
    <3>4. CASE k # 1
      <4>1. 1 \in 1 .. k - 1
        BY <3>4
      <4>2. q[1].point < done + 1
        BY <1>3, <1>6, <3>3, <4>1
      <4> QED
        BY <2>1, <4>2
    <3> QED
      BY <3>3, <3>4
  <2>3. ASSUME NEW p \in 1 .. last, p > done + 1 PROVE \E k \in 1 .. n - 1 : r[k] = Signal(p)
    <3>1. PICK k \in 1 .. n : q[k] = Signal(p)
      BY <1>3, <2>3
    <3>2. k # 1
      BY <1>4, <2>2, <2>3, <3>1
    <3>3. k - 1 \in 1 .. n - 1 /\ r[k - 1] = q[k]
      BY <1>2, <3>2
    <3> QED
      BY <3>1, <3>3
  <2>4. ASSUME NEW k \in 1 .. n - 1, r[k].op = "signal" PROVE r[k].point > done + 1
    <3>1. k + 1 \in 1 .. n /\ 1 \in 1 .. (k + 1) - 1 /\ r[k] = q[k + 1]
      BY <1>2
    <3>2. q[1].point < q[k + 1].point
      BY <1>3, <1>6, <2>4, <3>1
    <3> QED
      BY <2>2, <3>1, <3>2
  <2> QED
    BY <1>2, <1>5, <2>2, <2>3, <2>4 DEF Owes
<1>7. ASSUME q[1].op # "signal" PROVE Owes(r, done, last)
  <2>1. ASSUME NEW p \in 1 .. last, p > done PROVE \E k \in 1 .. n - 1 : r[k] = Signal(p)
    <3>1. PICK k \in 1 .. n : q[k] = Signal(p)
      BY <1>3, <2>1
    <3>2. k # 1
      BY <1>4, <1>7, <3>1
    <3>3. k - 1 \in 1 .. n - 1 /\ r[k - 1] = q[k]
      BY <1>2, <3>2
    <3> QED
      BY <3>1, <3>3
  <2>2. ASSUME NEW k \in 1 .. n - 1, r[k].op = "signal" PROVE r[k].point > done
    BY <1>2, <1>3, <2>2, SMTT(30)
  <2> QED
    BY <1>2, <1>5, <2>1, <2>2 DEF Owes
<1> QED
  BY <1>1, <1>6, <1>7

(* Who signals what: the queue, point by point.                            *)
LEMMA QueueOwesLess ==
  ASSUME OpticalInv, NEW i \in Instances, OwesOK(i), QueueStep(i)
  PROVE  OwesOK(i)' /\ signalled'[i] \in {signalled[i], signalled[i] + 1}
<1>1. PICK q, last : q = queue[i] /\ last = instances[i].point
  OBVIOUS
<1>2. /\ q \in Seq(Entries) /\ q # <<>> /\ Head(q) = q[1] /\ 1 \in 1 .. Len(q)
      /\ signalled[i] \in Nat /\ instances[i] \in InstanceStates
  BY <1>1, LenProperties, EmptySeq DEF QueueStep, OpticalInv, OpticalTypeOK
<1>3. last \in Nat /\ q[1].point <= last
  BY <1>1, <1>2 DEF InstanceStates, OpticalInv, InstanceOK, TimelineOK, TimelineFits, EntryFits
<1>4. Owes(q, signalled[i], last)
  BY <1>1 DEF OwesOK
<1>5. /\ signalled'[i] = IF q[1].op = "signal" THEN q[1].point ELSE signalled[i]
      /\ queue'[i] = Tail(q) /\ instances'[i].point = last
  BY <1>1, <1>2 DEF QueueStep, OpticalInv, OpticalTypeOK
<1>6. /\ q[1].op = "signal" => q[1].point = signalled[i] + 1 /\ Owes(Tail(q), signalled[i] + 1, last)
      /\ q[1].op # "signal" => Owes(Tail(q), signalled[i], last)
  BY <1>2, <1>3, <1>4, OwesLess
<1> QED
  BY <1>5, <1>6 DEF OwesOK

(* A call that is given a point enqueues its signal, last of all.          *)
LEMMA CallOwesMore ==
  ASSUME OpticalInv, NEW i \in Instances, OwesOK(i),
         NEW index \in Indices, NEW n \in Nat,
         \/ queue'[i] = queue[i] \o ExecuteCommands(instances[i].point + 1, index, n)
         \/ queue'[i] = queue[i] \o RegisterCommands(instances[i].point + 1),
         instances'[i].point = instances[i].point + 1, signalled'[i] = signalled[i]
  PROVE  OwesOK(i)'
<1>1. PICK q, r, last : q = queue[i] /\ r = queue'[i] /\ last = instances[i].point
  OBVIOUS
<1>2. /\ q \in Seq(Entries) /\ signalled[i] \in Nat /\ instances[i] \in InstanceStates
      /\ Len(q) \in Nat
  BY <1>1, LenProperties DEF OpticalInv, OpticalTypeOK
<1>3. /\ last \in Nat /\ last + 1 \in Nat /\ signalled[i] <= last
      /\ \A k \in 1 .. Len(q) : q[k].point <= last
  BY <1>1, <1>2 DEF InstanceStates, OpticalInv, InstanceOK, TimelineOK, TimelineFits, EntryFits
<1>4. /\ r \in Seq(Entries) /\ Len(r) > Len(q) /\ \A k \in 1 .. Len(q) : r[k] = q[k]
      /\ \A k \in Len(q) + 1 .. Len(r) - 1 : r[k].op # "signal"
      /\ r[Len(r)] = Signal(last + 1)
  <2>1. CASE r = q \o ExecuteCommands(last + 1, index, n)
    <3>1. /\ r \in Seq(Entries) /\ Len(r) = Len(q) + 3
          /\ \A k \in 1 .. Len(q) : r[k] = q[k]
          /\ r[Len(q) + 1] = Wait(last + 1) /\ r[Len(q) + 2] = Run(last + 1, index, n)
          /\ r[Len(q) + 3] = Signal(last + 1)
      BY <1>2, <1>3, <2>1, ExecuteEnqueues
    <3>2. r[Len(q) + 1].op # "signal" /\ r[Len(q) + 2].op # "signal"
      BY <3>1 DEF Wait, Run
    <3> QED
      BY <1>2, <3>1, <3>2
  <2>2. CASE r = q \o RegisterCommands(last + 1)
    <3>1. /\ r \in Seq(Entries) /\ Len(r) = Len(q) + 2
          /\ \A k \in 1 .. Len(q) : r[k] = q[k]
          /\ r[Len(q) + 1] = Wait(last + 1) /\ r[Len(q) + 2] = Signal(last + 1)
      BY <1>2, <1>3, <2>2, RegistrationEnqueues
    <3>2. r[Len(q) + 1].op # "signal"
      BY <3>1 DEF Wait
    <3> QED
      BY <1>2, <3>1, <3>2
  <2> QED
    BY <1>1, <2>1, <2>2
<1>5. Owes(q, signalled[i], last)
  BY <1>1 DEF OwesOK
<1>6. Owes(r, signalled[i], last + 1)
  BY <1>2, <1>3, <1>4, <1>5, OwesMore
<1> QED
  BY <1>1, <1>6 DEF OwesOK

LEMMA StepKeepsOwed ==
  ASSUME OpticalInv, NEW i \in Instances, OwesOK(i), InstanceNext(i)
  PROVE  OwesOK(i)' /\ signalled'[i] \in {signalled[i], signalled[i] + 1}
<1>1. /\ instances \in [Instances -> InstanceStates] /\ queue \in [Instances -> Seq(Entries)]
      /\ instances[i] \in InstanceStates /\ InstanceOK(i)
  BY DEF OpticalInv, OpticalTypeOK
<1>2. ASSUME instances'[i].point = instances[i].point, UNCHANGED <<queue, signalled>>
      PROVE  OwesOK(i)' /\ signalled'[i] \in {signalled[i], signalled[i] + 1}
  BY <1>2 DEF OwesOK
<1>3. CASE Create(i) \/ InitializeFails(i)
  <2>1. Fresh(i)
    BY <1>3 DEF Create, InitializeFails, At, Fresh, None
  <2>2. instances'[i].point = 0
    <3>1. CASE Create(i)
      BY <1>1, <3>1 DEF Create, Become, NotCreated
    <3>2. CASE InitializeFails(i)
      BY <1>1, <3>2 DEF InitializeFails, Become, NotCreated
    <3> QED
      BY <1>3, <3>1, <3>2
  <2>3. instances[i].point = 0
    BY <1>1, <2>1 DEF InstanceOK, FreshOK
  <2> QED
    BY <1>2, <1>3, <2>2, <2>3 DEF Create, InitializeFails, driverVars
<1>4. CASE \/ MakeFactory(i) \/ Construct(i) \/ CreateCommandPool(i) \/ Initialized(i)
           \/ InitSession(i) \/ OFSessionDestroy(i)
  <2>1. instances \in [Instances -> InstanceStates] /\ instances[i] \in InstanceStates
    BY <1>1
  <2>2. ASSUME MakeFactory(i) PROVE instances'[i].point = instances[i].point
    BY <2>1, <2>2 DEF MakeFactory, Become, InstanceStates
  <2>8. ASSUME Construct(i) PROVE instances'[i].point = instances[i].point
    BY <2>1, <2>8 DEF Construct, Become, InstanceStates
  <2>3. ASSUME CreateCommandPool(i) PROVE instances'[i].point = instances[i].point
    BY <2>1, <2>3 DEF CreateCommandPool, Become, InstanceStates
  <2>4. ASSUME Initialized(i) PROVE instances'[i].point = instances[i].point
    BY <2>1, <2>4 DEF Initialized, Become, InstanceStates
  <2>5. ASSUME InitSession(i) PROVE instances'[i].point = instances[i].point
    BY <2>1, <2>5 DEF InitSession, Become, InstanceStates
  <2>6. ASSUME OFSessionDestroy(i) PROVE instances'[i].point = instances[i].point
    BY <2>1, <2>6 DEF OFSessionDestroy, Become, InstanceStates
  <2>7. instances'[i].point = instances[i].point
    BY <1>4, <2>2, <2>3, <2>4, <2>5, <2>6, <2>8
  <2> QED
    BY <1>2, <1>4, <2>7 DEF MakeFactory, Construct, CreateCommandPool, Initialized, InitSession,
       OFSessionDestroy, driverVars
<1>5. CASE Unregister(i) \/ Render(i)
  BY <1>2, <1>5 DEF Unregister, Render
<1>6. CASE RegisterBuffer(i)
  <2>1. CASE UNCHANGED <<instances, queue>>
    BY <1>2, <1>6, <2>1 DEF RegisterBuffer
  <2>2. CASE ~UNCHANGED <<instances, queue>>
    <3>1. PICK p : p = instances[i].point + 1
      OBVIOUS
    <3>2. /\ queue' = [queue EXCEPT ![i] = queue[i] \o RegisterCommands(p)]
          /\ instances' = [instances EXCEPT ![i] = [instances[i] EXCEPT !.point = p]]
          /\ UNCHANGED signalled
      BY <1>6, <2>2, <3>1 DEF RegisterBuffer, RegisterEnqueues, Become
    <3>3. /\ queue'[i] = queue[i] \o RegisterCommands(p) /\ instances'[i].point = p
          /\ signalled'[i] = signalled[i]
      BY <1>1, <3>2 DEF InstanceStates
    <3>4. 0 \in Indices /\ 0 \in Nat
      BY Constants
    <3>5. OwesOK(i)'
      BY <3>1, <3>3, <3>4, CallOwesMore
    <3> QED
      BY <3>3, <3>5
  <2> QED
    BY <2>1, <2>2
<1>7. CASE Execute(i)
  <2>1. PICK n, p, next :
          /\ n = instances[i].executes + 1 /\ p = instances[i].point + 1
          /\ next = [instances[i] EXCEPT !.index = NextIndex(instances[i].index), !.executes = n]
    OBVIOUS
  <2>2. /\ \/ /\ queue' = [queue EXCEPT ![i] = queue[i] \o ExecuteCommands(p, instances[i].index, n)]
              /\ instances' = [instances EXCEPT ![i] = [next EXCEPT !.point = p]]
           \/ instances' = [instances EXCEPT ![i] = next] /\ UNCHANGED queue
        /\ UNCHANGED signalled
    BY <1>7, <2>1 DEF Execute, Become
  <2>3. /\ n \in Nat /\ instances[i].index \in Indices
        /\ next.point = instances[i].point /\ [next EXCEPT !.point = p].point = p
    BY <1>1, <2>1 DEF InstanceStates
  <2>4. CASE /\ queue' = [queue EXCEPT ![i] = queue[i] \o ExecuteCommands(p, instances[i].index, n)]
             /\ instances' = [instances EXCEPT ![i] = [next EXCEPT !.point = p]]
    <3>1. /\ queue'[i] = queue[i] \o ExecuteCommands(p, instances[i].index, n)
          /\ instances'[i].point = p /\ signalled'[i] = signalled[i]
      BY <1>1, <2>2, <2>3, <2>4
    <3>2. OwesOK(i)'
      BY <2>1, <2>3, <3>1, CallOwesMore
    <3> QED
      BY <3>1, <3>2
  <2>5. CASE instances' = [instances EXCEPT ![i] = next] /\ UNCHANGED queue
    <3>1. instances'[i].point = instances[i].point
      BY <1>1, <2>3, <2>5
    <3> QED
      BY <1>2, <2>2, <2>5, <3>1
  <2> QED
    BY <2>2, <2>4, <2>5
<1>8. CASE QueueStep(i)
  BY <1>8, QueueOwesLess
<1> QED
  BY <1>3, <1>4, <1>5, <1>6, <1>7, <1>8 DEF InstanceNext

OwedInv == \A i \in Instances : OwesOK(i)

LEMMA OwedInductive == Spec => [](OpticalInv /\ OwedInv)
<1>1. Init => OwedInv
  <2> SUFFICES ASSUME Init, NEW i \in Instances PROVE OwesOK(i)
    BY DEF OwedInv
  <2>1. queue[i] = <<>> /\ signalled[i] = 0 /\ instances[i].point = 0 /\ Len(<<>>) = 0
    BY EmptySeq DEF Init, NotCreated
  <2> QED
    BY <2>1 DEF OwesOK, Owes
<1>2. OpticalInv /\ OwedInv /\ [Next]_vars => OwedInv'
  <2> SUFFICES ASSUME OpticalInv, OwedInv, [Next]_vars, NEW j \in Instances PROVE OwesOK(j)'
    BY DEF OwedInv
  <2>1. ASSUME NEW i \in Instances, InstanceNext(i) PROVE OwesOK(j)'
    <3>1. CASE j = i
      BY <2>1, <3>1, StepKeepsOwed DEF OwedInv
    <3>2. CASE j # i
      <4>1. Kept(i)
        BY <2>1, EveryStepKeeps DEF OpticalInv
      <4>2. /\ instances'[j] = instances[j] /\ queue'[j] = queue[j]
            /\ signalled'[j] = signalled[j] /\ OwesOK(j)
        BY <3>2, <4>1 DEF Kept, Elsewhere, OwedInv
      <4> QED
        BY <4>2 DEF OwesOK
    <3> QED
      BY <3>1, <3>2
  <2>2. CASE UNCHANGED vars
    BY <2>2 DEF vars, driverVars, OwedInv, OwesOK
  <2> QED
    BY <2>1, <2>2 DEF Next, InstanceNext
<1> QED
  BY <1>1, <1>2, OpticalInductive, PTL DEF Spec

\* A point that was given is signalled, or the queue will signal it; and the queue waits for
\* no point but those.
PointsAreOwed ==
  \A i \in Instances :
    /\ \A p \in 1 .. instances[i].point :
         signalled[i] >= p \/ \E k \in 1 .. Len(queue[i]) : queue[i][k] = Signal(p)
    /\ \A k \in 1 .. Len(queue[i]) :
         queue[i][k].op = "wait" => queue[i][k].point <= instances[i].point

PointsInOrder ==
  [][\A i \in Instances : signalled'[i] \in {signalled[i], signalled[i] + 1}]_vars

(* No call loses its fence: a point that a registration or an accepted     *)
(* Execute was given is signalled or is in the queue to be, and the queue  *)
(* is held up by nothing but what the application has promised to render.  *)
(* This is what EveryPointIsSignalled needs beside fairness.               *)
THEOREM NoPointIsLost == Spec => []PointsAreOwed
<1>1. OpticalInv /\ OwedInv => PointsAreOwed
  <2> SUFFICES ASSUME OpticalInv, OwedInv, NEW i \in Instances
               PROVE  /\ \A p \in 1 .. instances[i].point :
                            signalled[i] >= p \/ \E k \in 1 .. Len(queue[i]) : queue[i][k] = Signal(p)
                      /\ \A k \in 1 .. Len(queue[i]) :
                            queue[i][k].op = "wait" => queue[i][k].point <= instances[i].point
    BY DEF PointsAreOwed
  <2>1. Owes(queue[i], signalled[i], instances[i].point) /\ signalled[i] \in Nat
    BY DEF OwedInv, OwesOK, OpticalInv, OpticalTypeOK
  <2>2. TimelineFits(queue[i], rendered[i], signalled[i], instances[i].point)
    BY DEF OpticalInv, InstanceOK, TimelineOK
  <2>3. instances[i].point \in Nat
    BY DEF OpticalInv, OpticalTypeOK, InstanceStates
  <2> QED
    BY <2>1, <2>2, <2>3 DEF Owes, TimelineFits, EntryFits
<1> QED
  BY <1>1, OwedInductive, PTL

(* The points of an instance's timeline are signalled one by one: none is  *)
(* passed over or signalled twice, and a fence never goes back.            *)
THEOREM OnePointAtATime == Spec => PointsInOrder
<1>1. ASSUME OpticalInv, OwedInv, [Next]_vars
      PROVE  [\A i \in Instances : signalled'[i] \in {signalled[i], signalled[i] + 1}]_vars
  <2> SUFFICES ASSUME NEW i \in Instances, InstanceNext(i), NEW j \in Instances
               PROVE  signalled'[j] \in {signalled[j], signalled[j] + 1}
    BY <1>1 DEF Next, InstanceNext
  <2>1. CASE j = i
    BY <1>1, <2>1, StepKeepsOwed DEF OwedInv
  <2>2. CASE j # i
    BY <1>1, <2>2, EveryStepKeeps DEF OpticalInv, Kept, Elsewhere
  <2> QED
    BY <2>1, <2>2
<1> QED
  BY <1>1, OwedInductive, PTL DEF Spec, PointsInOrder

-----------------------------------------------------------------------------
(* The resource factory *)

Creating(i) == instances[i].at \in {"factory", "construct", "initialize", "allocate"}
Constructed(i) == instances[i].at \in {"initialize", "allocate", "ready"}

\* Who creates an instance has the mutex of its api, so that no more than two make a
\* factory; the second of them has overlapped with the first.
MutexOK == \A i \in Instances : Creating(i) => initializationMutex[Api(i)] = i
FactoryCases ==
  \/ /\ resourceFactory = 0
     /\ \A i, j \in Instances : At(i, "factory") /\ At(j, "factory") => i = j \/ overlapped
  \/ /\ resourceFactory = 1
     /\ \A i, j \in Instances : At(i, "factory") /\ At(j, "factory") => i = j
     /\ \A i \in Instances : At(i, "factory") => overlapped
  \/ /\ resourceFactory = 2 /\ overlapped
     /\ \A i \in Instances : ~At(i, "factory")
ReferenceOK(i) ==
  /\ At(i, "construct") \/ Constructed(i) => resourceFactory # 0
  /\ Constructed(i) => instances[i].factory \in 1 .. resourceFactory

FactoryInv == MutexOK /\ FactoryCases /\ \A i \in Instances : ReferenceOK(i)

LEMMA FactoryInit == Init => FactoryInv
  BY DEF Init, FactoryInv, MutexOK, FactoryCases, ReferenceOK, Creating, Constructed, At, NotCreated,
     None

(* A creation that finds no factory, and one already making it, overlap.   *)
LEMMA CreateKeepsFactory ==
  ASSUME OpticalInv, FactoryInv, NEW i \in Instances, Create(i)
  PROVE  FactoryInv'
<1>1. /\ initializationMutex[Api(i)] = None
      /\ initializationMutex' = [initializationMutex EXCEPT ![Api(i)] = i]
      /\ resourceFactory' = resourceFactory
      /\ overlapped' = (overlapped \/ (resourceFactory = 0 /\ \E j \in Instances : At(j, "factory")))
  BY DEF Create, FactoryMissing
<1>2. PICK state : /\ instances' = [instances EXCEPT ![i] = state]
                   /\ state.at = IF resourceFactory = 0 THEN "factory" ELSE "construct"
  <2>1. PICK state : state = [NotCreated EXCEPT !.at = IF FactoryMissing THEN "factory" ELSE "construct"]
    OBVIOUS
  <2>2. instances' = [instances EXCEPT ![i] = state]
    BY <2>1 DEF Create, Become
  <2>3. state.at = IF resourceFactory = 0 THEN "factory" ELSE "construct"
    BY <2>1 DEF FactoryMissing, NotCreated
  <2> QED
    BY <2>2, <2>3
<1>3. instances'[i] = state /\ \A j \in Instances \ {i} : instances'[j] = instances[j]
  BY <1>2 DEF OpticalInv, OpticalTypeOK
<1>4. MutexOK'
  <2> SUFFICES ASSUME NEW j \in Instances, Creating(j)'
               PROVE  initializationMutex'[Api(j)] = j
    BY DEF MutexOK
  <2>1. initializationMutex \in [Apis -> Instances \cup {None}] /\ Api(i) \in Apis /\ Api(j) \in Apis
    BY Constants DEF OpticalInv, OpticalTypeOK
  <2>2. CASE j = i
    BY <1>1, <2>1, <2>2
  <2>3. CASE j # i
    <3>1. initializationMutex[Api(j)] = j
      BY <1>3, <2>3 DEF FactoryInv, MutexOK, Creating
    <3>2. Api(j) # Api(i)
      BY <1>1, <3>1, Constants
    <3> QED
      BY <1>1, <2>1, <3>1, <3>2
  <2> QED
    BY <2>2, <2>3
<1>5. \A j \in Instances \ {i} : At(j, "factory")' <=> At(j, "factory")
  BY <1>3 DEF At
<1>6. FactoryCases'
  <2>1. CASE resourceFactory = 0
    <3>1. \A j \in Instances : At(j, "factory")' /\ j # i => overlapped'
      BY <1>1, <1>5, <2>1
    <3>2. \A j, k \in Instances : At(j, "factory")' /\ At(k, "factory")' => j = k \/ overlapped'
      BY <3>1
    <3> QED
      BY <1>1, <2>1, <3>2 DEF FactoryCases
  <2>2. CASE resourceFactory # 0
    <3>1. ~At(i, "factory")' /\ (overlapped => overlapped')
      BY <1>1, <1>2, <1>3, <2>2 DEF At
    <3>2. FactoryCases
      BY DEF FactoryInv
    <3> QED
      BY <1>1, <1>5, <2>2, <3>1, <3>2 DEF FactoryCases
  <2> QED
    BY <2>1, <2>2
<1>7. ASSUME NEW j \in Instances PROVE ReferenceOK(j)'
  <2>1. CASE j = i
    BY <1>1, <1>2, <1>3, <2>1 DEF ReferenceOK, Constructed, At
  <2>2. CASE j # i
    <3>1. ReferenceOK(j) /\ instances'[j] = instances[j]
      BY <1>3, <2>2 DEF FactoryInv
    <3> QED
      BY <1>1, <3>1 DEF ReferenceOK, Constructed, At
  <2> QED
    BY <2>1, <2>2
<1> QED
  BY <1>4, <1>6, <1>7 DEF FactoryInv

(* The first to make the factory leaves one other at most that makes it    *)
(* still, of the other api; the second leaves none.                        *)
LEMMA MakeFactoryKeepsFactory ==
  ASSUME OpticalInv, FactoryInv, NEW i \in Instances, MakeFactory(i)
  PROVE  FactoryInv'
<1>1. /\ At(i, "factory") /\ resourceFactory' = resourceFactory + 1
      /\ overlapped' = overlapped /\ initializationMutex' = initializationMutex
  BY DEF MakeFactory
<1>2. PICK state : instances' = [instances EXCEPT ![i] = state] /\ state.at = "construct"
  <2>1. PICK state : state = [instances[i] EXCEPT !.at = "construct"]
    OBVIOUS
  <2>2. instances' = [instances EXCEPT ![i] = state] /\ instances[i] \in InstanceStates
    BY <2>1 DEF MakeFactory, Become, OpticalInv, OpticalTypeOK
  <2>3. state.at = "construct"
    BY <2>1, <2>2 DEF InstanceStates
  <2> QED
    BY <2>2, <2>3
<1>3. instances'[i] = state /\ \A j \in Instances \ {i} : instances'[j] = instances[j]
  BY <1>2 DEF OpticalInv, OpticalTypeOK
<1>4. MutexOK'
  BY <1>1, <1>2, <1>3 DEF FactoryInv, MutexOK, Creating, At
<1>5. \A j \in Instances : At(j, "factory")' => j # i /\ At(j, "factory")
  BY <1>2, <1>3 DEF At
<1>6. FactoryCases'
  <2>1. CASE resourceFactory = 0
    <3>1. \A j \in Instances : At(j, "factory")' => overlapped
      BY <1>1, <1>5, <2>1 DEF FactoryInv, FactoryCases
    <3>2. ASSUME NEW j \in Instances, NEW k \in Instances, At(j, "factory")', At(k, "factory")'
          PROVE  j = k
      <4>1. /\ initializationMutex[Api(i)] = i /\ initializationMutex[Api(j)] = j
            /\ initializationMutex[Api(k)] = k /\ i # j /\ i # k
        BY <1>1, <1>5, <3>2 DEF FactoryInv, MutexOK, Creating, At
      <4> QED
        BY <4>1 DEF Api
    <3>3. resourceFactory' = 1
      BY <1>1, <2>1
    <3> QED
      BY <1>1, <3>1, <3>2, <3>3 DEF FactoryCases
  <2>2. CASE resourceFactory = 1
    <3>1. overlapped /\ \A j \in Instances : ~At(j, "factory")'
      BY <1>1, <1>5, <2>2 DEF FactoryInv, FactoryCases
    <3>2. resourceFactory' = 2
      BY <1>1, <2>2
    <3> QED
      BY <1>1, <3>1, <3>2 DEF FactoryCases
  <2>3. resourceFactory = 0 \/ resourceFactory = 1
    BY <1>1 DEF FactoryInv, FactoryCases
  <2> QED
    BY <2>1, <2>2, <2>3
<1>7. ASSUME NEW j \in Instances PROVE ReferenceOK(j)'
  <2>1. resourceFactory \in Nat /\ resourceFactory' = resourceFactory + 1
    BY <1>1 DEF OpticalInv, OpticalTypeOK
  <2>2. CASE j = i
    BY <1>2, <1>3, <2>1, <2>2 DEF ReferenceOK, Constructed, At
  <2>3. CASE j # i
    <3>1. ReferenceOK(j) /\ instances'[j] = instances[j]
      BY <1>3, <2>3 DEF FactoryInv
    <3> QED
      BY <2>1, <3>1 DEF ReferenceOK, Constructed, At
  <2> QED
    BY <2>2, <2>3
<1> QED
  BY <1>4, <1>6, <1>7 DEF FactoryInv

(* An instance is constructed with the factory there is.                   *)
LEMMA ConstructKeepsFactory ==
  ASSUME OpticalInv, FactoryInv, NEW i \in Instances, Construct(i)
  PROVE  FactoryInv'
<1>1. /\ At(i, "construct")
      /\ UNCHANGED <<initializationMutex, resourceFactory, overlapped>>
  BY DEF Construct
<1>2. PICK state : /\ instances' = [instances EXCEPT ![i] = state]
                   /\ state.at = "initialize" /\ state.factory = resourceFactory
  <2>1. PICK state : state = [instances[i] EXCEPT !.at = "initialize", !.factory = resourceFactory]
    OBVIOUS
  <2>2. instances' = [instances EXCEPT ![i] = state] /\ instances[i] \in InstanceStates
    BY <2>1 DEF Construct, Become, OpticalInv, OpticalTypeOK
  <2>3. state.at = "initialize" /\ state.factory = resourceFactory
    BY <2>1, <2>2 DEF InstanceStates
  <2> QED
    BY <2>2, <2>3
<1>3. instances'[i] = state /\ \A j \in Instances \ {i} : instances'[j] = instances[j]
  BY <1>2 DEF OpticalInv, OpticalTypeOK
<1>4. MutexOK'
  BY <1>1, <1>2, <1>3 DEF FactoryInv, MutexOK, Creating, At
<1>5. \A j \in Instances : At(j, "factory")' <=> At(j, "factory")
  BY <1>1, <1>2, <1>3 DEF At
<1>6. FactoryCases'
  BY <1>1, <1>5 DEF FactoryInv, FactoryCases
<1>7. ASSUME NEW j \in Instances PROVE ReferenceOK(j)'
  <2>1. CASE j = i
    <3>1. resourceFactory # 0 /\ resourceFactory \in Nat
      BY <1>1 DEF FactoryInv, ReferenceOK, OpticalInv, OpticalTypeOK
    <3> QED
      BY <1>1, <1>2, <1>3, <2>1, <3>1 DEF ReferenceOK, Constructed, At
  <2>2. CASE j # i
    <3>1. ReferenceOK(j) /\ instances'[j] = instances[j]
      BY <1>3, <2>2 DEF FactoryInv
    <3> QED
      BY <1>1, <3>1 DEF ReferenceOK, Constructed, At
  <2> QED
    BY <2>1, <2>2
<1> QED
  BY <1>4, <1>6, <1>7 DEF FactoryInv

(* What else a step may do: it leaves the factory, and its instance comes  *)
(* nearer to ready, is given up, or is destroyed.                          *)
LEMMA OthersKeepFactory ==
  ASSUME OpticalInv, FactoryInv, NEW i \in Instances,
         InstanceNext(i), ~Create(i), ~MakeFactory(i), ~Construct(i)
  PROVE  FactoryInv'
<1>1. \A j \in Instances \ {i} : instances'[j] = instances[j]
  BY EveryStepKeeps DEF OpticalInv, Kept, Elsewhere
<1>2. instances[i] \in InstanceStates /\ instances \in [Instances -> InstanceStates]
  BY DEF OpticalInv, OpticalTypeOK
<1>3. /\ UNCHANGED <<resourceFactory, overlapped>>
      /\ \/ UNCHANGED initializationMutex /\ (Creating(i)' => Creating(i))
         \/ /\ Creating(i) /\ ~Creating(i)'
            /\ initializationMutex' = [initializationMutex EXCEPT ![Api(i)] = None]
      /\ At(i, "factory")' => At(i, "factory")
      /\ At(i, "construct")' => At(i, "construct")
      /\ Constructed(i)' => Constructed(i) /\ instances'[i].factory = instances[i].factory
  <2>1. CASE CreateCommandPool(i)
    BY <1>2, <2>1 DEF CreateCommandPool, Become, At, Creating, Constructed, InstanceStates
  <2>2. CASE Initialized(i)
    BY <1>2, <2>2 DEF Initialized, GiveBack, Become, At, Creating, Constructed, InstanceStates
  <2>3. CASE InitializeFails(i)
    BY <1>2, <2>3 DEF InitializeFails, GiveBack, Become, At, Creating, Constructed, NotCreated,
       None
  <2>4. CASE InitSession(i) \/ OFSessionDestroy(i)
    BY <1>2, <2>4 DEF InitSession, OFSessionDestroy, Become, At, Creating, Constructed, InstanceStates
  <2>5. CASE RegisterBuffer(i)
    <3>1. \/ UNCHANGED instances
          \/ instances' = [instances EXCEPT ![i] = [instances[i] EXCEPT !.point = instances[i].point + 1]]
      BY <2>5 DEF RegisterBuffer, RegisterEnqueues, Become
    <3>2. At(i, "ready") /\ UNCHANGED <<initializationMutex, resourceFactory, overlapped>>
      BY <2>5 DEF RegisterBuffer
    <3> QED
      BY <1>2, <3>1, <3>2 DEF At, Creating, Constructed, InstanceStates
  <2>6. CASE Execute(i)
    <3>1. instances'[i].at = instances[i].at /\ instances'[i].factory = instances[i].factory
      <4>1. PICK next : /\ next = [instances[i] EXCEPT !.index = NextIndex(instances[i].index),
                                                       !.executes = instances[i].executes + 1]
                        /\ \/ instances' = [instances EXCEPT ![i] =
                                             [next EXCEPT !.point = instances[i].point + 1]]
                           \/ instances' = [instances EXCEPT ![i] = next]
        BY <2>6 DEF Execute, Become
      <4>2. PICK last : last = [next EXCEPT !.point = instances[i].point + 1]
        OBVIOUS
      <4>3. /\ next.at = instances[i].at /\ next.factory = instances[i].factory
            /\ last.at = instances[i].at /\ last.factory = instances[i].factory
        BY <1>2, <4>1, <4>2 DEF InstanceStates
      <4>4. instances'[i] = last \/ instances'[i] = next
        BY <1>2, <4>1, <4>2
      <4> QED
        BY <4>3, <4>4
    <3>2. At(i, "ready") /\ UNCHANGED <<initializationMutex, resourceFactory, overlapped>>
      BY <2>6 DEF Execute
    <3> QED
      BY <1>2, <3>1, <3>2 DEF At, Creating, Constructed, InstanceStates
  <2>7. CASE Unregister(i) \/ QueueStep(i) \/ Render(i)
    <3>1. UNCHANGED <<instances, initializationMutex, resourceFactory, overlapped>>
      BY <2>7 DEF Unregister, QueueStep, Render
    <3> QED
      BY <3>1 DEF Creating, Constructed, At
  <2> QED
    BY <2>1, <2>2, <2>3, <2>4, <2>5, <2>6, <2>7 DEF InstanceNext
<1>4. MutexOK'
  <2> SUFFICES ASSUME NEW j \in Instances, Creating(j)'
               PROVE  initializationMutex'[Api(j)] = j
    BY DEF MutexOK
  <2>1. Creating(j)
    BY <1>1, <1>3 DEF Creating
  <2>2. initializationMutex[Api(j)] = j
    BY <2>1 DEF FactoryInv, MutexOK
  <2>3. CASE UNCHANGED initializationMutex
    BY <2>2, <2>3
  <2>4. CASE /\ Creating(i) /\ ~Creating(i)'
             /\ initializationMutex' = [initializationMutex EXCEPT ![Api(i)] = None]
    <3>1. i # j
      BY <2>4
    <3>2. Api(i) # Api(j)
      BY <2>2, <2>4, <3>1 DEF FactoryInv, MutexOK
    <3> QED
      BY <2>2, <2>4, <3>2, Constants DEF OpticalInv, OpticalTypeOK
  <2> QED
    BY <1>3, <2>3, <2>4
<1>5. FactoryCases'
  <2>1. \A j \in Instances : At(j, "factory")' => At(j, "factory")
    BY <1>1, <1>3 DEF At
  <2> QED
    BY <1>3, <2>1 DEF FactoryInv, FactoryCases
<1>6. ASSUME NEW j \in Instances PROVE ReferenceOK(j)'
  <2>1. ReferenceOK(j)
    BY DEF FactoryInv
  <2> QED
    BY <1>1, <1>3, <2>1 DEF ReferenceOK, Constructed, At
<1> QED
  BY <1>4, <1>5, <1>6 DEF FactoryInv

(* The factory an instance refers to is the library's, also when creations *)
(* of both apis run together, but in one case: there are two mutexes for   *)
(* it, and two creations that both found no factory make one each.  Then   *)
(* it is the first that was replaced, and never is a factory again.        *)
THEOREM FactoryStays == Spec => []FactoryOutlivesInstances
<1>1. OpticalInv /\ FactoryInv /\ [Next]_vars => FactoryInv'
  <2> SUFFICES ASSUME OpticalInv, FactoryInv, [Next]_vars PROVE FactoryInv'
    OBVIOUS
  <2>1. ASSUME NEW i \in Instances, InstanceNext(i) PROVE FactoryInv'
    BY <2>1, CreateKeepsFactory, MakeFactoryKeepsFactory, ConstructKeepsFactory, OthersKeepFactory
  <2>2. CASE UNCHANGED vars
    BY <2>2 DEF vars, driverVars, FactoryInv, MutexOK, FactoryCases, ReferenceOK, Creating,
       Constructed, At
  <2> QED
    BY <2>1, <2>2 DEF Next, InstanceNext
<1>2. FactoryInv => FactoryOutlivesInstances
  <2> SUFFICES ASSUME FactoryInv, NEW i \in Instances, Constructed(i),
                      instances[i].factory # resourceFactory
               PROVE  overlapped /\ instances[i].factory = 1 /\ resourceFactory = 2
    BY DEF FactoryOutlivesInstances, Constructed
  <2>1. instances[i].factory \in 1 .. resourceFactory
    BY DEF FactoryInv, ReferenceOK
  <2>2. resourceFactory \in {0, 1, 2} /\ (resourceFactory = 2 => overlapped)
    BY DEF FactoryInv, FactoryCases
  <2> QED
    BY <2>1, <2>2
<1> QED
  BY <1>1, <1>2, FactoryInit, OpticalInductive, PTL DEF Spec

=============================================================================
