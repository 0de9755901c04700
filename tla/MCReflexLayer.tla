----------------------------- MODULE MCReflexLayer -----------------------------
(***************************************************************************)
(* Instances of ReflexLayer for model checking: which thread makes which   *)
(* calls, and which environment settings are explored.                     *)
(***************************************************************************)
EXTENDS ReflexLayer, TLC

CONSTANTS t1, t2, t3

\* Lifecycle: one thread owns the swapchains, as a renderer does, one sets the
\* sleep mode, one sleeps.
LifecycleDoes == t1 :> {"create", "destroy"} @@ t2 :> {"sleepMode"} @@ t3 :> {"sleep"}
LifecycleMarks == [t \in {t1, t2, t3} |-> {}]
LifecycleSettings == {[inject |-> {}, allow |-> {"outOfBand", "present", "simulation"}]}

\* Injection: one thread sets markers, one submits and presents.
InjectionDoes == t1 :> {} @@ t2 :> {"create", "sleepMode", "notify", "submit", "present"}
InjectionMarks == t1 :> {"simulation", "outOfBandRenderSubmit", "present"} @@ t2 :> {}
InjectionSettings ==
  [inject : {{"submit", "present"}}, allow : {{"outOfBand", "present", "simulation"}, {}}]

\* Present ids: one thread does everything, with two swapchains to present at once.
PresentDoes == t1 :> {"create", "sleepMode", "present"}
PresentMarks == t1 :> Kinds
PresentSettings == {[inject |-> {"present"}, allow |-> {}]}

\* Frame ids are only compared.
FrameSymmetry == Permutations(FrameIds)

=============================================================================
