---------------------------- MODULE FrameIdWindow ----------------------------
(***************************************************************************)
(* What LowLatencyFrameIdGenerator promises to the threads that set        *)
(* latency markers, without its hash map and its ring.                     *)
(*                                                                         *)
(* Application frame ids arrive in any order.  The driver wants ids that   *)
(* count up from 1.  A frame among the ListSize most recently numbered     *)
(* ones keeps its number; any other frame gets the next number, and the    *)
(* oldest numbered frame is forgotten once ListSize newer ones exist.      *)
(***************************************************************************)
EXTENDS Integers

CONSTANTS
  AppIds,       \* frame ids the application uses
  ListSize,     \* how many frames stay numbered
  Threads       \* the application's threads

VARIABLES
  issued,       \* how many numbers have been handed out
  numbered,     \* device id -> application frame id, for the remembered frames
  held          \* thread -> the <<device id, application id>> its call works with

vars == <<issued, numbered, held>>

NoPair == <<0, 0>>

\* The numbers still remembered once n numbers have been handed out.
Live(n) == {d \in 1 .. n : n - d < ListSize}

Init ==
  /\ issued = 0
  /\ numbered = [d \in Live(0) |-> 0]
  /\ held = [t \in Threads |-> NoPair]

\* A frame that is still numbered keeps its number.
Reuse(t, app) ==
  /\ \E d \in Live(issued) :
       /\ numbered[d] = app
       /\ held' = [held EXCEPT ![t] = <<d, app>>]
  /\ UNCHANGED <<issued, numbered>>

\* Any other frame gets the next number.
Number(t, app) ==
  /\ \A d \in Live(issued) : numbered[d] # app
  /\ issued' = issued + 1
  /\ numbered' = [d \in Live(issued + 1) |->
                    IF d = issued + 1 THEN app ELSE numbered[d]]
  /\ held' = [held EXCEPT ![t] = <<issued + 1, app>>]

\* The marker call of the thread ends.
Release(t) ==
  /\ held' = [held EXCEPT ![t] = NoPair]
  /\ UNCHANGED <<issued, numbered>>

Next ==
  \E t \in Threads :
    \/ \E app \in AppIds : Reuse(t, app) \/ Number(t, app)
    \/ Release(t)

Spec == Init /\ [][Next]_vars

=============================================================================
