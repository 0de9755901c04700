------------------------------ MODULE Lookups_proofs ------------------------------
(***************************************************************************)
(* Proofs about what is looked up later, or by others.  CubinShaders: a    *)
(* shader is launched as it was created, unless its creation crossed a     *)
(* destruction at its address.  AsConverter: D3D12 is called for           *)
(* what can be converted, and finds what was asked for.  AdapterRegistry:  *)
(* handles, ids and names of GPUs and displays lead back to them, and the  *)
(* lists of displays agree.  DrsSettings: a setting has the value that the *)
(* environment configured.                                                 *)
(***************************************************************************)
EXTENDS CubinShaders, AsConverter, AdapterRegistry, DrsSettings, SequenceTheorems, WellFoundedInduction, TLAPS

-----------------------------------------------------------------------------
(* CubinShaders *)

(* A shader in the middle of its creation: it exists, nobody has it yet and *)
(* nothing is remembered under its handle, unless it crossed a destruction. *)
CreatingOK ==
  \A t \in Threads : call[t].op = "create" =>
    /\ shaders[call[t].h] = call[t].size
    /\ call[t].h \notin usable
    /\ call[t].h \notin crossed => m_cubinSmemMap[call[t].h] = NoShader
    /\ \A u \in Threads : call[u].op = "create" /\ call[u].h = call[t].h => u = t

(* What is about to be forgotten is no shader that exists, unless that one  *)
(* crossed the destruction.                                                 *)
DestroyingOK ==
  \A t \in Threads : call[t].op = "destroy" /\ call[t].h \notin crossed =>
    shaders[call[t].h] = NoShader

(* A shader the application has exists; what is remembered of it is right,  *)
(* unless it crossed a destruction.                                         *)
UsableOK ==
  \A h \in usable :
    /\ shaders[h] # NoShader
    /\ h \notin crossed =>
         /\ m_cubinSmemMap[h] \in {shaders[h], NoShader}
         /\ h \notin forgotten => m_cubinSmemMap[h] = shaders[h]

(* Every entry is of a shader that exists, or about to be erased.           *)
EntriesOK ==
  \A h \in Handles : m_cubinSmemMap[h] # NoShader =>
    shaders[h] # NoShader \/ \E t \in Threads : call[t].op = "destroy" /\ call[t].h = h

ShadersInv == TypeOK /\ CreatingOK /\ DestroyingOK /\ UsableOK /\ EntriesOK

USE DEF Idle, Creating, Destroying

LEMMA InitShaders == Init => ShadersInv
  BY SizesAssumption DEF Init, ShadersInv, TypeOK, CreatingOK, DestroyingOK, UsableOK,
    EntriesOK, NoShader

LEMMA CreateShaders ==
  ASSUME ShadersInv, NEW t \in Threads, NEW size \in Sizes, Create(t, size)
  PROVE  ShadersInv'
<1>0. TypeOK /\ CreatingOK /\ DestroyingOK /\ UsableOK /\ EntriesOK
  BY DEF ShadersInv
<1>1. PICK h \in Handles :
        /\ shaders[h] = NoShader
        /\ shaders' = [shaders EXCEPT ![h] = size]
        /\ forgotten' = forgotten \ {h}
        /\ crossed' = IF \E u \in Threads : call[u] = Destroying(h)
                        THEN crossed \cup {h} ELSE crossed \ {h}
        /\ call' = [call EXCEPT ![t] = Creating(h, size)]
  BY DEF Create
<1>2. /\ call[t] = Idle
      /\ m_cubinSmemMap' = m_cubinSmemMap /\ usable' = usable
  BY DEF Create
<1>3. size # NoShader
  BY SizesAssumption DEF NoShader
<1>4. /\ h \notin usable
      /\ \A g \in Handles \ {h} : g \in crossed' <=> g \in crossed
      /\ h \notin crossed' => \A u \in Threads : call[u] # Destroying(h)
  BY <1>0, <1>1 DEF UsableOK
<1>11. ASSUME h \notin crossed' PROVE m_cubinSmemMap[h] = NoShader
  <2>1. \A u \in Threads : ~(call[u].op = "destroy" /\ call[u].h = h)
    <3>1. \A u \in Threads : call[u].op = "destroy" => call[u] = Destroying(call[u].h)
      BY <1>0 DEF TypeOK
    <3> QED
      BY <1>4, <1>11, <3>1
  <2> QED
    BY <1>0, <1>1, <2>1 DEF EntriesOK
<1>5. \A u \in Threads : call[u].op = "create" => call[u].h # h
  BY <1>0, <1>1, SizesAssumption DEF CreatingOK, TypeOK, NoShader
<1>6. TypeOK'
  BY <1>0, <1>1, <1>2 DEF TypeOK
<1>7. CreatingOK'
  BY <1>0, <1>1, <1>2, <1>4, <1>5, <1>11 DEF CreatingOK, TypeOK
<1>8. DestroyingOK'
  <2> SUFFICES ASSUME NEW u \in Threads, call'[u].op = "destroy", call'[u].h \notin crossed'
               PROVE  shaders'[call'[u].h] = NoShader
    BY DEF DestroyingOK
  <2>1. u # t /\ call'[u] = call[u]
    BY <1>0, <1>1 DEF TypeOK
  <2>2. call[u].h \in Handles /\ call[u] = Destroying(call[u].h)
    BY <1>0, <2>1 DEF TypeOK
  <2>3. call[u].h # h
    BY <1>4, <2>1, <2>2
  <2> QED
    BY <1>0, <1>1, <1>4, <2>1, <2>2, <2>3 DEF DestroyingOK, TypeOK
<1>9. UsableOK'
  BY <1>0, <1>1, <1>2, <1>4 DEF UsableOK, TypeOK
<1>10. EntriesOK'
  <2> SUFFICES ASSUME NEW g \in Handles, m_cubinSmemMap[g] # NoShader, shaders'[g] = NoShader
               PROVE  \E u \in Threads : call'[u].op = "destroy" /\ call'[u].h = g
    BY <1>2 DEF EntriesOK
  <2>1. shaders[g] = NoShader
    BY <1>0, <1>1, <1>3 DEF TypeOK
  <2>2. PICK u \in Threads : call[u].op = "destroy" /\ call[u].h = g
    BY <1>0, <2>1 DEF EntriesOK
  <2>3. u # t
    BY <1>2, <2>2
  <2> QED
    BY <1>0, <1>1, <2>2, <2>3 DEF TypeOK
<1> QED
  BY <1>6, <1>7, <1>8, <1>9, <1>10 DEF ShadersInv

LEMMA RememberShaders ==
  ASSUME ShadersInv, NEW t \in Threads, Remember(t)
  PROVE  ShadersInv'
<1>0. TypeOK /\ CreatingOK /\ DestroyingOK /\ UsableOK /\ EntriesOK
  BY DEF ShadersInv
<1> DEFINE h == call[t].h
           size == call[t].size
<1>1. /\ call[t].op = "create" /\ h \in Handles /\ size \in Sizes
      /\ shaders[h] = size /\ h \notin usable
      /\ h \notin crossed => m_cubinSmemMap[h] = NoShader
  BY <1>0 DEF Remember, CreatingOK, TypeOK
<1>2. /\ m_cubinSmemMap' = [m_cubinSmemMap EXCEPT ![h] = IF @ = NoShader THEN size ELSE @]
      /\ usable' = usable \cup {h}
      /\ call' = [call EXCEPT ![t] = Idle]
      /\ shaders' = shaders /\ forgotten' = forgotten /\ crossed' = crossed
  BY DEF Remember
<1>3. size # NoShader
  BY <1>1, SizesAssumption DEF NoShader
<1> HIDE DEF h, size
<1>4. \A u \in Threads : u # t /\ call[u].op = "create" => call[u].h # h
  BY <1>0, <1>1 DEF CreatingOK, h
<1>5. /\ \A g \in Handles \ {h} : m_cubinSmemMap'[g] = m_cubinSmemMap[g]
      /\ h \notin crossed => m_cubinSmemMap'[h] = size
  BY <1>0, <1>1, <1>2 DEF TypeOK
<1>6. TypeOK'
  BY <1>0, <1>1, <1>2 DEF TypeOK
<1>7. CreatingOK'
  BY <1>0, <1>2, <1>4, <1>5 DEF CreatingOK, TypeOK
<1>8. DestroyingOK'
  BY <1>0, <1>2 DEF DestroyingOK, TypeOK
<1>9. UsableOK'
  <2> SUFFICES ASSUME NEW g \in usable'
               PROVE  /\ shaders[g] # NoShader
                      /\ g \notin crossed =>
                           /\ m_cubinSmemMap'[g] \in {shaders[g], NoShader}
                           /\ g \notin forgotten => m_cubinSmemMap'[g] = shaders[g]
    BY <1>2 DEF UsableOK
  <2>1. CASE g = h
    BY <1>1, <1>3, <1>5, <2>1
  <2>2. CASE g # h
    BY <1>0, <1>2, <1>5, <2>2 DEF UsableOK, TypeOK
  <2> QED
    BY <2>1, <2>2
<1>10. EntriesOK'
  <2> SUFFICES ASSUME NEW g \in Handles, m_cubinSmemMap'[g] # NoShader, shaders[g] = NoShader
               PROVE  \E u \in Threads : call'[u].op = "destroy" /\ call'[u].h = g
    BY <1>2 DEF EntriesOK
  <2>1. g # h /\ m_cubinSmemMap[g] # NoShader
    BY <1>1, <1>3, <1>5
  <2>2. PICK u \in Threads : call[u].op = "destroy" /\ call[u].h = g
    BY <1>0, <2>1 DEF EntriesOK
  <2>3. u # t
    BY <1>1, <2>2
  <2> QED
    BY <1>0, <1>2, <2>2, <2>3 DEF TypeOK
<1> QED
  BY <1>6, <1>7, <1>8, <1>9, <1>10 DEF ShadersInv

LEMMA DestroyShaders ==
  ASSUME ShadersInv, NEW t \in Threads, NEW h \in Handles, Destroy(t, h)
  PROVE  ShadersInv'
<1>0. TypeOK /\ CreatingOK /\ DestroyingOK /\ UsableOK /\ EntriesOK
  BY DEF ShadersInv
<1>1. /\ call[t] = Idle /\ h \in usable
      /\ usable' = usable \ {h}
      /\ shaders' = [shaders EXCEPT ![h] = NoShader]
      /\ call' = [call EXCEPT ![t] = Destroying(h)]
      /\ m_cubinSmemMap' = m_cubinSmemMap /\ forgotten' = forgotten /\ crossed' = crossed
  BY DEF Destroy
<1>2. \A u \in Threads : call[u].op = "create" => call[u].h # h
  BY <1>0, <1>1 DEF CreatingOK
<1>3. TypeOK'
  BY <1>0, <1>1 DEF TypeOK
<1>4. CreatingOK'
  BY <1>0, <1>1, <1>2 DEF CreatingOK, TypeOK
<1>5. DestroyingOK'
  BY <1>0, <1>1 DEF DestroyingOK, TypeOK
<1>6. UsableOK'
  BY <1>0, <1>1 DEF UsableOK, TypeOK
<1>7. EntriesOK'
  <2> SUFFICES ASSUME NEW g \in Handles, m_cubinSmemMap'[g] # NoShader
               PROVE  shaders'[g] # NoShader \/ \E u \in Threads : call'[u].op = "destroy"
                                                                  /\ call'[u].h = g
    BY DEF EntriesOK
  <2>1. CASE g = h
    BY <2>1, <1>0, <1>1 DEF TypeOK
  <2>2. CASE g # h /\ shaders[g] # NoShader
    BY <2>2, <1>0, <1>1 DEF TypeOK
  <2>3. CASE \E u \in Threads : call[u].op = "destroy" /\ call[u].h = g
    <3>1. PICK u \in Threads : call[u].op = "destroy" /\ call[u].h = g
      BY <2>3
    <3>2. u # t
      BY <3>1, <1>1
    <3> QED
      BY <3>1, <3>2, <1>1 DEF TypeOK
  <2> QED
    BY <2>1, <2>2, <2>3, <1>0, <1>1 DEF EntriesOK
<1> QED
  BY <1>3, <1>4, <1>5, <1>6, <1>7 DEF ShadersInv

LEMMA ForgetShaders ==
  ASSUME ShadersInv, NEW t \in Threads, Forget(t)
  PROVE  ShadersInv'
<1>0. TypeOK /\ CreatingOK /\ DestroyingOK /\ UsableOK /\ EntriesOK
  BY DEF ShadersInv
<1> DEFINE h == call[t].h
<1>1. /\ call[t].op = "destroy" /\ h \in Handles
      /\ h \notin crossed => shaders[h] = NoShader
  BY <1>0 DEF Forget, DestroyingOK, TypeOK
<1>2. /\ m_cubinSmemMap' = [m_cubinSmemMap EXCEPT ![h] = NoShader]
      /\ call' = [call EXCEPT ![t] = Idle]
      /\ shaders' = shaders /\ usable' = usable /\ forgotten' = forgotten /\ crossed' = crossed
  BY DEF Forget
<1> HIDE DEF h
<1>3. TypeOK'
  BY <1>0, <1>1, <1>2 DEF TypeOK
<1>4. CreatingOK'
  BY <1>0, <1>1, <1>2 DEF CreatingOK, TypeOK
<1>5. DestroyingOK'
  BY <1>0, <1>2 DEF DestroyingOK, TypeOK
<1>6. UsableOK'
  BY <1>0, <1>1, <1>2 DEF UsableOK, TypeOK
<1>7. EntriesOK'
  <2> SUFFICES ASSUME NEW g \in Handles, m_cubinSmemMap'[g] # NoShader, shaders[g] = NoShader
               PROVE  \E u \in Threads : call'[u].op = "destroy" /\ call'[u].h = g
    BY <1>2 DEF EntriesOK
  <2>1. g # h /\ m_cubinSmemMap[g] # NoShader
    BY <1>0, <1>1, <1>2 DEF TypeOK
  <2>2. PICK u \in Threads : call[u].op = "destroy" /\ call[u].h = g
    BY <2>1, <1>0 DEF EntriesOK
  <2>3. u # t
    BY <2>1, <2>2 DEF h
  <2> QED
    BY <2>2, <2>3, <1>0, <1>2 DEF TypeOK
<1> QED
  BY <1>3, <1>4, <1>5, <1>6, <1>7 DEF ShadersInv

LEMMA ResetShaders == ShadersInv /\ Reset => ShadersInv'
  BY DEF Reset, ShadersInv, TypeOK, CreatingOK, DestroyingOK, UsableOK, EntriesOK

LEMMA ShadersInductive == Spec => []ShadersInv
<1>1. ShadersInv /\ [Next]_vars => ShadersInv'
  <2> SUFFICES ASSUME ShadersInv, [Next]_vars PROVE ShadersInv'
    OBVIOUS
  <2>1. CASE UNCHANGED vars
    BY <2>1 DEF vars, ShadersInv, TypeOK, CreatingOK, DestroyingOK, UsableOK, EntriesOK
  <2> QED
    BY <2>1, CreateShaders, RememberShaders, DestroyShaders, ForgetShaders, ResetShaders
    DEF Next
<1> QED
  BY <1>1, InitShaders, PTL DEF Spec

(* Whatever the application creates and destroys, and in how many threads: *)
(* a shader is launched with the shared memory it was created with until   *)
(* the library is taken down, unless it was made at the address of one     *)
(* whose destruction was not over (LaunchCubinShader, FindCubinSmem).      *)
THEOREM Launching == Spec => []OnlyCrossingLosesSize
<1>1. ShadersInv => OnlyCrossingLosesSize
  BY SizesAssumption DEF ShadersInv, UsableOK, OnlyCrossingLosesSize, FindCubinSmem, TypeOK, NoShader
<1> QED
  BY <1>1, ShadersInductive, PTL

(* m_cubinSmemMap holds no entry of a shader that is gone, but for those   *)
(* being erased, whichever creations and destructions cross.               *)
THEOREM NoStaleEntries == Spec => []EntriesHaveShaders
<1>1. ShadersInv => EntriesHaveShaders
  BY DEF ShadersInv, EntriesOK, EntriesHaveShaders, TypeOK
<1> QED
  BY <1>1, ShadersInductive, PTL

-----------------------------------------------------------------------------
(* Numbers and folds.  What a fold computes is proved by induction over    *)
(* the numbers up to a list's length, for the set of those lengths for     *)
(* which it holds.                                                         *)

(* A set of numbers has a least one.                                       *)
LEMMA LeastOf ==
  ASSUME NEW S, S \subseteq Nat, S # {}
  PROVE  Min(S) \in S /\ \A n \in S : Min(S) <= n
<1>1. \E m \in S : \A n \in S : m <= n
  <2>1. PICK m \in S : \A n \in S : <<n, m>> \notin OpToRel(<, Nat)
    BY NatLessThanWellFounded, WFMin
  <2>2. \A n \in S : ~(n < m)
    BY <2>1 DEF OpToRel
  <2>3. \A n \in S : m <= n
    BY <2>2
  <2> QED
    BY <2>3
<1> QED
  BY <1>1 DEF Min

(* Induction up to a number, for the set of those for which something holds. *)
LEMMA UpTo ==
  ASSUME NEW n \in Nat, NEW S, 0 \in S, \A k \in 1 .. n : k - 1 \in S => k \in S
  PROVE  \A k \in 0 .. n : k \in S
<1> SUFFICES ASSUME NEW R, R = {k \in 0 .. n : k \notin S}, R # {} PROVE FALSE
  OBVIOUS
<1>1. PICK m : m \in R /\ \A k \in R : m <= k
  <2>1. R \subseteq Nat
    OBVIOUS
  <2> QED
    BY <2>1, LeastOf
<1>2. m \in 1 .. n /\ m - 1 \in 0 .. n /\ ~(m <= m - 1)
  BY <1>1
<1> QED
  BY <1>1, <1>2

(* The greatest number of a set of numbers up to n that has n.             *)
LEMMA GreatestOf ==
  ASSUME NEW n \in Nat, NEW S, S \subseteq 1 .. n, n \in S
  PROVE  Max(S) = n
<1>1. n \in S /\ \A y \in S : n >= y
  OBVIOUS
<1>2. \A x \in S : (\A y \in S : x >= y) => x = n
  OBVIOUS
<1> QED
  BY <1>1, <1>2 DEF Max

\* What a fold from the left is defined by: of a set of indices the greatest comes last.
FoldsTo(f, n, base, step) ==
  \A s \in SUBSET (1 .. n) : f[s] = IF s = {} THEN base ELSE step[f[s \ {Max(s)}]][Max(s)]

(* There is such a function, if the steps stay within a set of results.     *)
LEMMA FoldExists ==
  ASSUME NEW n \in Nat, NEW T, NEW base \in T, NEW step \in [T -> [1 .. n -> T]]
  PROVE  \E f \in [SUBSET (1 .. n) -> T] : FoldsTo(f, n, base, step)
<1>1. PICK Reached : Reached = {k \in 0 .. n : \E f \in [SUBSET (1 .. k) -> T] :
                                                  FoldsTo(f, k, base, step)}
  OBVIOUS
<1>2. 0 \in Reached
  <2>1. PICK f : f = [s \in SUBSET (1 .. 0) |-> base]
    OBVIOUS
  <2>2. \A s \in SUBSET (1 .. 0) : s = {}
    OBVIOUS
  <2>3. f \in [SUBSET (1 .. 0) -> T]
    BY <2>1
  <2>4. FoldsTo(f, 0, base, step)
    BY <2>1, <2>2 DEF FoldsTo
  <2> QED
    <3>1. 0 \in 0 .. n
      OBVIOUS
    <3> QED
      BY <1>1, <2>3, <2>4, <3>1
<1>3. ASSUME NEW k \in 1 .. n, k - 1 \in Reached PROVE k \in Reached
  <2>1. PICK f \in [SUBSET (1 .. k - 1) -> T] : FoldsTo(f, k - 1, base, step)
    BY <1>1, <1>3
  <2>2. /\ k \in Nat
        /\ \A s \in SUBSET (1 .. k) : k \notin s => s \in SUBSET (1 .. k - 1)
        /\ \A s \in SUBSET (1 .. k) : k \in s => s \ {k} \in SUBSET (1 .. k - 1)
    OBVIOUS
  <2>3. PICK g : g = [s \in SUBSET (1 .. k) |-> IF k \in s THEN step[f[s \ {k}]][k] ELSE f[s]]
    OBVIOUS
  <2>4. g \in [SUBSET (1 .. k) -> T]
    <3>1. ASSUME NEW s \in SUBSET (1 .. k)
          PROVE (IF k \in s THEN step[f[s \ {k}]][k] ELSE f[s]) \in T
      <4>1. CASE k \in s
        <5>1. f[s \ {k}] \in T
          BY <2>1, <2>2, <4>1
        <5> QED
          BY <4>1, <5>1
      <4>2. CASE k \notin s
        BY <2>1, <2>2, <4>2
      <4> QED
        BY <4>1, <4>2
    <3> QED
      BY <2>3, <3>1
  <2>5. ASSUME NEW s \in SUBSET (1 .. k), k \in s
        PROVE  s # {} /\ g[s] = step[g[s \ {Max(s)}]][Max(s)]
    <3>1. s \ {k} \in SUBSET (1 .. k) /\ k \notin s \ {k} /\ Max(s) = k
      BY <2>2, <2>5, GreatestOf
    <3>2. g[s \ {k}] = f[s \ {k}] /\ g[s] = step[f[s \ {k}]][k]
      BY <2>3, <2>5, <3>1
    <3> QED
      BY <3>1, <3>2, <2>5
  <2>6. ASSUME NEW s \in SUBSET (1 .. k), k \notin s
        PROVE  g[s] = IF s = {} THEN base ELSE step[g[s \ {Max(s)}]][Max(s)]
    <3>1. s \in SUBSET (1 .. k - 1)
      BY <2>2, <2>6
    <3>2. s \ {Max(s)} \in SUBSET (1 .. k) /\ k \notin s \ {Max(s)}
      BY <2>6
    <3>3. g[s] = f[s] /\ g[s \ {Max(s)}] = f[s \ {Max(s)}]
      BY <2>3, <2>6, <3>2
    <3>4. f[s] = IF s = {} THEN base ELSE step[f[s \ {Max(s)}]][Max(s)]
      BY <2>1, <3>1 DEF FoldsTo
    <3> QED
      BY <3>3, <3>4
  <2>7. FoldsTo(g, k, base, step)
    BY <2>5, <2>6 DEF FoldsTo
  <2> QED
    BY <1>1, <2>4, <2>7
<1>4. \A k \in 0 .. n : k \in Reached
  BY <1>2, <1>3, UpTo
<1>5. n \in 0 .. n
  OBVIOUS
<1> QED
  BY <1>1, <1>4, <1>5

(* The last index comes last, and leaves those before it.                   *)
LEMMA FirstIndices ==
  ASSUME NEW n \in Nat, NEW k \in 1 .. n
  PROVE  /\ 1 .. k \in SUBSET (1 .. n) /\ 1 .. k # {} /\ Max(1 .. k) = k
         /\ (1 .. k) \ {Max(1 .. k)} = 1 .. k - 1
<1>1. PICK s : s = 1 .. k
  OBVIOUS
<1>2. k \in Nat /\ s \subseteq 1 .. k /\ s \subseteq 1 .. n /\ k \in s
  BY <1>1
<1>3. Max(s) = k
  BY <1>2, GreatestOf
<1>4. \A i : i \in s /\ i # k <=> i \in 1 .. k - 1
  BY <1>1
<1>5. s \ {k} = 1 .. k - 1
  BY <1>4
<1> QED
  BY <1>1, <1>2, <1>3, <1>5

(* A set of indices that is not empty has a last one.                       *)
LEMMA LastIndex ==
  ASSUME NEW n \in Nat, NEW s \in SUBSET (1 .. n), s # {}
  PROVE  Max(s) \in s
<1>1. PICK m : m \in {k \in 0 .. n : \E i \in s : n - k <= i}
               /\ \A k \in {k \in 0 .. n : \E i \in s : n - k <= i} : m <= k
  <2>1. PICK S : S = {k \in 0 .. n : \E i \in s : n - k <= i}
    OBVIOUS
  <2>2. S \subseteq Nat /\ S # {}
    <3>1. PICK i \in s : TRUE
      OBVIOUS
    <3>2. i \in 1 .. n /\ n - i \in 0 .. n /\ n - (n - i) <= i
      OBVIOUS
    <3> QED
      BY <2>1, <3>1, <3>2
  <2> QED
    BY <2>1, <2>2, LeastOf
<1>2. PICK i \in s : n - m <= i
  BY <1>1
<1>3. ASSUME NEW j \in s PROVE i >= j
  <2>1. i \in 1 .. n /\ j \in 1 .. n /\ m \in 0 .. n /\ n - j \in 0 .. n
    BY <1>1
  <2>2. n - (n - j) <= j
    BY <2>1
  <2>3. m <= n - j
    BY <1>1, <1>3, <2>1, <2>2
  <2> QED
    BY <1>2, <2>1, <2>3
<1> QED
  BY <1>2, <1>3 DEF Max

-----------------------------------------------------------------------------
(* AsConverter: what can be converted *)

(* The fields of what the application may ask for.                         *)
LEMMA AskedForms ==
  ASSUME NEW asked \in Asked
  PROVE  /\ asked.type \in {"TOP_LEVEL", "BOTTOM_LEVEL", "OPACITY_MICROMAP_ARRAY"}
         /\ asked.op \in {"build", "prebuildInfo"} /\ asked.supportsOmm \in BOOLEAN
         /\ asked.layout \in {"ARRAY", "ARRAY_OF_POINTERS"} /\ asked.stride \in Nat
         /\ asked.descs \in Seq(Geometry) /\ Len(asked.descs) \in Nat
         /\ DOMAIN asked.descs = 1 .. Len(asked.descs)
         /\ \A i \in 1 .. Len(asked.descs) :
              /\ asked.descs[i] \in [type : GeometryTypes, data : STRING, attachment : STRING]
              /\ asked.descs[i].type # "OMM_TRIANGLES" => asked.descs[i].attachment = None
         /\ IsArray(asked) => asked.flags \cap OmmFlags = {}
<1>1. /\ asked.type \in {"TOP_LEVEL", "BOTTOM_LEVEL", "OPACITY_MICROMAP_ARRAY"}
      /\ asked.op \in {"build", "prebuildInfo"} /\ asked.supportsOmm \in BOOLEAN
      /\ asked.layout \in {"ARRAY", "ARRAY_OF_POINTERS"} /\ asked.stride \in Nat
      /\ asked.descs \in Seq(Geometry)
      /\ asked.flags \subseteq ArrayFlags
                      \cup (IF asked.type = "OPACITY_MICROMAP_ARRAY" THEN {} ELSE OmmFlags)
  BY ConverterAssumption DEF AskedAssumption
<1>2. Len(asked.descs) \in Nat /\ DOMAIN asked.descs = 1 .. Len(asked.descs)
  BY <1>1, LenProperties
<1>3. \A i \in 1 .. Len(asked.descs) : asked.descs[i] \in Geometry
  BY <1>1, ElementOfSeq
<1>4. IsArray(asked) => asked.flags \cap OmmFlags = {}
  BY <1>1 DEF IsArray, ArrayFlags, OmmFlags
<1> QED
  BY <1>1, <1>2, <1>3, <1>4 DEF Geometry, None

(* What stops the conversion of one geometry.                              *)
CanConvert(asked, g) ==
  /\ g.type \in {"TRIANGLES", "AABBS"} \cup (IF asked.supportsOmm THEN {"OMM_TRIANGLES"} ELSE {})
  /\ asked.layout = "ARRAY" => SizeOf(g.type) <= asked.stride

LEMMA GeometryConverts ==
  ASSUME NEW asked \in Asked, NEW g, g.type \in GeometryTypes
  PROVE  GeometryStatus(asked, g) = "OK" <=> CanConvert(asked, g)
<1>1. asked.supportsOmm \in BOOLEAN /\ asked.layout \in {"ARRAY", "ARRAY_OF_POINTERS"}
  BY AskedForms
<1>2. PICK size : size = SizeOf(g.type)
  OBVIOUS
<1>3. size \in Nat /\ asked.stride \in Nat
  BY <1>2, AskedForms DEF SizeOf
<1>4. StrideTooSmall(asked, g.type) <=> ~(asked.layout = "ARRAY" => size <= asked.stride)
  BY <1>1, <1>2, <1>3 DEF StrideTooSmall
<1> QED
  BY <1>1, <1>2, <1>4 DEF GeometryStatus, CanConvert, GeometryTypes

(* The loop over the geometries goes through exactly if all can be.        *)
LEMMA FailureIsFirst ==
  ASSUME NEW asked \in Asked
  PROVE  LET all == \A i \in 1 .. Len(asked.descs) : GeometryStatus(asked, asked.descs[i]) = "OK"
         IN  /\ all => FirstFailure(asked) = Len(asked.descs) + 1
             /\ ~all => /\ FirstFailure(asked) \in 1 .. Len(asked.descs)
                        /\ GeometryStatus(asked, asked.descs[FirstFailure(asked)]) # "OK"
<1>1. PICK I : I = {i \in 1 .. Len(asked.descs) : GeometryStatus(asked, asked.descs[i]) # "OK"}
  OBVIOUS
<1>2. FirstFailure(asked) = LET n == IF I # {} THEN Min(I) ELSE 0
                            IN  IF n = 0 THEN Len(asked.descs) + 1 ELSE n
  BY <1>1 DEF FirstFailure, SelectInSeq
<1>3. ASSUME I # {} PROVE Min(I) \in I /\ Min(I) # 0
  <2>1. I \subseteq Nat
    BY <1>1
  <2>2. Min(I) \in I
    BY <1>3, <2>1, LeastOf
  <2> QED
    BY <1>1, <2>2
<1>4. CASE I = {}
  BY <1>1, <1>2, <1>4
<1>5. CASE I # {}
  <2>1. FirstFailure(asked) \in I
    BY <1>2, <1>3, <1>5
  <2> QED
    BY <1>1, <2>1
<1> QED
  BY <1>4, <1>5

(* The answer is OK exactly for what can be converted.                     *)
LEMMA StatusConvertible ==
  ASSUME NEW asked \in Asked
  PROVE  ConvertStatus(asked) = "OK" <=> Convertible(asked)
<1>0. /\ asked.type \in {"TOP_LEVEL", "BOTTOM_LEVEL", "OPACITY_MICROMAP_ARRAY"}
      /\ DOMAIN asked.descs = 1 .. Len(asked.descs) /\ Len(asked.descs) \in Nat
      /\ asked.supportsOmm \in BOOLEAN
  BY AskedForms
<1>1. CASE IsArray(asked)
  BY <1>0, <1>1 DEF ConvertStatus, Convertible, IsArray
<1>2. CASE asked.type = "TOP_LEVEL"
  BY <1>2 DEF ConvertStatus, Convertible, IsArray
<1>3. CASE asked.type = "BOTTOM_LEVEL"
  <2>1. Convertible(asked) <=>
          "UNKNOWN" \notin asked.flags /\ \A i \in 1 .. Len(asked.descs) : CanConvert(asked, asked.descs[i])
    BY <1>0, <1>3 DEF Convertible, CanConvert, IsArray
  <2>2. \A i \in 1 .. Len(asked.descs) :
          GeometryStatus(asked, asked.descs[i]) = "OK" <=> CanConvert(asked, asked.descs[i])
    BY AskedForms, GeometryConverts
  <2>3. ConvertStatus(asked) = "OK" <=>
          /\ "UNKNOWN" \notin asked.flags
          /\ \A i \in 1 .. Len(asked.descs) : GeometryStatus(asked, asked.descs[i]) = "OK"
    BY <1>0, <1>3, FailureIsFirst DEF ConvertStatus, IsArray
  <2> QED
    BY <2>1, <2>2, <2>3
<1> QED
  BY <1>0, <1>1, <1>2, <1>3 DEF IsArray

(* The flags D3D12 is given.                                               *)
LEMMA FlagsConvert ==
  ASSUME NEW asked \in Asked
  PROVE  FlagsAgree(asked, Desc(asked).flags)
<1>1. CASE IsArray(asked)
  BY <1>1, AskedForms DEF Desc, FlagsAgree, OmmFlags
<1>2. CASE ~IsArray(asked)
  <2>1. PICK kept : kept = {f \in asked.flags : asked.supportsOmm \/ f \notin OmmFlags}
    OBVIOUS
  <2>2. Desc(asked).flags =
          {IF f = "ALLOW_OMM_OPACITY_STATES_UPDATE" THEN "ALLOW_OMM_UPDATE" ELSE f : f \in kept}
    BY <1>2, <2>1 DEF Desc, BuildFlagsToD3d12
  <2>3. \A f : f \in Desc(asked).flags <=>
          /\ f # "ALLOW_OMM_OPACITY_STATES_UPDATE"
          /\ \/ f \in kept
             \/ f = "ALLOW_OMM_UPDATE" /\ "ALLOW_OMM_OPACITY_STATES_UPDATE" \in kept
    BY <2>2
  <2> QED
    BY <2>1, <2>3 DEF FlagsAgree, OmmFlags
<1> QED
  BY <1>1, <1>2

-----------------------------------------------------------------------------
(* AsConverter: the arrays *)

\* The arrays hold what was asked for, in its order.
HoldsAsked(converter, asked) ==
  \A i \in 1 .. Len(asked.descs) :
    LET d == converter.geometryDescs[i]
        g == asked.descs[i]
    IN  /\ d.type = g.type /\ d.data = g.data
        /\ d.linkage = IF g.type = "OMM_TRIANGLES" THEN i ELSE 0
        /\ g.type = "OMM_TRIANGLES" => converter.linkageDescs[i] = g.attachment

LEMMA LenOfArray ==
  ASSUME NEW n \in Nat, NEW f, f = [i \in 1 .. n |-> f[i]]
  PROVE  Len(f) = n
  OBVIOUS

(* Whatever a converter held, there is room in it and it holds what was    *)
(* asked for, if all of it can be converted.                               *)
LEMMA ArraysHoldAsked ==
  ASSUME NEW asked \in Asked, NEW converter, m_reserved(converter) \in Nat
  PROVE  LET arrays == ConvertedArrays(converter, asked)
         IN  /\ m_reserved(arrays) \in Nat
             /\ FirstFailure(asked) = Len(asked.descs) + 1 => HoldsAsked(arrays, asked)
<1>1. PICK reserved, arrays, n : /\ reserved = Reserve(converter, Len(asked.descs))
                                 /\ arrays = ConvertedArrays(converter, asked)
                                 /\ n = m_reserved(reserved)
  OBVIOUS
<1>2. Len(asked.descs) \in Nat
  BY AskedForms
<1>3. n \in Nat /\ Len(asked.descs) <= n
  <2>1. CASE Len(asked.descs) <= m_reserved(converter)
    BY <1>1, <1>2, <2>1 DEF Reserve
  <2>2. CASE ~(Len(asked.descs) <= m_reserved(converter))
    <3>1. reserved.geometryDescs = [i \in 1 .. Len(asked.descs) |-> Uninitialized]
      BY <1>1, <2>2 DEF Reserve
    <3>2. Len(reserved.geometryDescs) = Len(asked.descs)
      BY <1>2, <3>1
    <3> QED
      BY <1>1, <1>2, <3>2 DEF m_reserved
  <2> QED
    BY <2>1, <2>2
<1>4. PICK f : f = arrays.geometryDescs
  OBVIOUS
<1>5. f = [i \in 1 .. n |-> f[i]]
  BY <1>1, <1>4 DEF ConvertedArrays
<1>6. Len(f) = n
  BY <1>3, <1>5, LenOfArray
<1>7. ASSUME FirstFailure(asked) = Len(asked.descs) + 1, NEW i \in 1 .. Len(asked.descs)
      PROVE  /\ f[i] = GeometryDesc(asked.descs[i], i)
             /\ asked.descs[i].type = "OMM_TRIANGLES" => arrays.linkageDescs[i] = asked.descs[i].attachment
  <2>1. i \in 1 .. n /\ i < FirstFailure(asked) /\ i <= Len(asked.descs)
    BY <1>2, <1>3, <1>7
  <2> QED
    BY <1>1, <1>4, <2>1 DEF ConvertedArrays
<1>8. m_reserved(arrays) \in Nat
  BY <1>3, <1>4, <1>6 DEF m_reserved
<1>9. ASSUME FirstFailure(asked) = Len(asked.descs) + 1 PROVE HoldsAsked(arrays, asked)
  <2> SUFFICES ASSUME NEW i \in 1 .. Len(asked.descs), NEW d, NEW g,
                      d = arrays.geometryDescs[i], g = asked.descs[i]
               PROVE  /\ d.type = g.type /\ d.data = g.data
                      /\ d.linkage = IF g.type = "OMM_TRIANGLES" THEN i ELSE 0
                      /\ g.type = "OMM_TRIANGLES" => arrays.linkageDescs[i] = g.attachment
    BY DEF HoldsAsked
  <2>1. d = GeometryDesc(g, i) /\ (g.type = "OMM_TRIANGLES" => arrays.linkageDescs[i] = g.attachment)
    BY <1>4, <1>7, <1>9
  <2> QED
    BY <2>1 DEF GeometryDesc
<1> QED
  BY <1>1, <1>8, <1>9

(* D3D12 reads what the arrays hold: the geometries as they were asked.    *)
LEMMA ReadsAsked ==
  ASSUME NEW asked \in Asked, NEW converter, HoldsAsked(converter, asked)
  PROVE  Read(converter, Len(asked.descs)) = asked.descs
<1>1. PICK r : r = Read(converter, Len(asked.descs))
  OBVIOUS
<1>2. ASSUME NEW i \in 1 .. Len(asked.descs) PROVE r[i] = asked.descs[i]
  <2>1. PICK d, g : d = converter.geometryDescs[i] /\ g = asked.descs[i]
    OBVIOUS
  <2>2. /\ d.type = g.type /\ d.data = g.data
        /\ d.linkage = IF g.type = "OMM_TRIANGLES" THEN i ELSE 0
        /\ g.type = "OMM_TRIANGLES" => converter.linkageDescs[i] = g.attachment
    BY <2>1 DEF HoldsAsked
  <2>3. /\ g \in [type : GeometryTypes, data : STRING, attachment : STRING]
        /\ g.type # "OMM_TRIANGLES" => g.attachment = None
        /\ i # 0
    BY <2>1, AskedForms
  <2>4. r[i] = [type |-> d.type, data |-> d.data,
                attachment |-> IF d.linkage = 0 THEN None ELSE converter.linkageDescs[d.linkage]]
    BY <1>1, <2>1 DEF Read
  <2>5. r[i] = [type |-> g.type, data |-> g.data, attachment |-> g.attachment]
    BY <2>2, <2>3, <2>4
  <2> QED
    BY <2>1, <2>3, <2>5
<1>3. r = [i \in 1 .. Len(asked.descs) |-> r[i]]
  BY <1>1 DEF Read
<1>4. asked.descs = [i \in 1 .. Len(asked.descs) |-> asked.descs[i]]
  BY AskedForms
<1> QED
  BY <1>1, <1>2, <1>3, <1>4

-----------------------------------------------------------------------------
(* AsConverter: the calls *)

\* The converter of a call.
Converter(t) == IF building[t].asked.op = "build" THEN converters[t] ELSE building[t].local

\* A call in progress; on its way to D3D12 it is for something that can be converted, and
\* the arrays hold it.
InProgress(c) ==
  c = [at |-> c.at, asked |-> c.asked, status |-> c.status, local |-> c.local, got |-> c.got]

Converting(t) ==
  building[t].at = "converted" =>
    /\ building[t].asked \in Asked /\ building[t].status = "OK"
    /\ Convertible(building[t].asked)
    /\ building[t].asked.type = "BOTTOM_LEVEL" => HoldsAsked(Converter(t), building[t].asked)

Answered(t) ==
  building[t].at = "done" =>
    LET c == building[t]
        asked == c.asked
    IN  IF ~Convertible(asked)
          THEN c.status # "OK" /\ c.got = NotCalled
          ELSE /\ c.status = "OK" /\ c.got # NotCalled
               /\ c.got.desc.data = asked.data
               /\ c.got.postbuild = asked.postbuild
               /\ FlagsAgree(asked, c.got.desc.flags)
               /\ asked.type = "BOTTOM_LEVEL" =>
                    /\ c.got.geometries = asked.descs
                    /\ c.got.desc.numDescs = Len(asked.descs)
                    /\ c.got.desc.layout = "ARRAY"

CallingOK(t) ==
  /\ m_reserved(converters[t]) \in Nat
  /\ building[t] = AsIdle \/ InProgress(building[t])
  /\ Converting(t) /\ Answered(t)

AsInv ==
  /\ converters = [t \in BuildThreads |-> converters[t]]
  /\ building = [t \in BuildThreads |-> building[t]]
  /\ \A t \in BuildThreads : CallingOK(t)

LEMMA NewReserves == m_reserved(NewConverter) \in Nat
<1>1. PICK f : f = NewConverter.geometryDescs
  OBVIOUS
<1>2. f = [i \in 1 .. StackReserve |-> f[i]] /\ StackReserve \in Nat
  BY <1>1, ConverterAssumption DEF NewConverter
<1> QED
  BY <1>1, <1>2, LenOfArray DEF m_reserved

LEMMA AsInitially == AsInit => AsInv
<1> SUFFICES ASSUME AsInit, NEW t \in BuildThreads
             PROVE  CallingOK(t)
  BY DEF AsInit, AsInv
<1> QED
  BY NewReserves DEF AsInit, CallingOK, Converting, Answered, AsIdle

(* The four calls, up to D3D12: what they convert into is the thread's own *)
(* converter or a new one.                                                 *)
LEMMA AnswerKeeps ==
  ASSUME AsInv, NEW t \in BuildThreads, NEW asked \in Asked, NEW local, Answer(t, asked, local),
         converters' = [u \in BuildThreads |-> converters'[u]],
         \A u \in BuildThreads \ {t} : converters'[u] = converters[u],
         m_reserved(converters'[t]) \in Nat,
         ConvertStatus(asked) = "OK" /\ asked.type = "BOTTOM_LEVEL" =>
           HoldsAsked(IF asked.op = "build" THEN converters'[t] ELSE local, asked)
  PROVE  AsInv'
<1>1. PICK status, c :
        /\ status = ConvertStatus(asked)
        /\ c = [at |-> IF status = "OK" THEN "converted" ELSE "done",
                asked |-> asked, status |-> status, local |-> local, got |-> NotCalled]
  OBVIOUS
<1>2. /\ building' = [building EXCEPT ![t] = c]
      /\ building = [u \in BuildThreads |-> building[u]]
  BY <1>1 DEF Answer, AsInv
<1>3. /\ building'[t] = c /\ building' = [u \in BuildThreads |-> building'[u]]
      /\ \A u \in BuildThreads \ {t} : building'[u] = building[u]
  BY <1>2
<1>4. status = "OK" <=> Convertible(asked)
  BY <1>1, StatusConvertible
<1>5. CallingOK(t)'
  <2>1. InProgress(building[t])'
    BY <1>1, <1>3 DEF InProgress
  <2>2. Converting(t)'
    BY <1>1, <1>3, <1>4 DEF Converting, Converter, HoldsAsked
  <2>3. Answered(t)'
    BY <1>1, <1>3, <1>4, SMTT(30) DEF Answered
  <2> QED
    BY <2>1, <2>2, <2>3 DEF CallingOK, m_reserved
<1>6. ASSUME NEW u \in BuildThreads \ {t} PROVE CallingOK(u)'
  <2>1. CallingOK(u) /\ building'[u] = building[u] /\ converters'[u] = converters[u]
    BY <1>3 DEF AsInv
  <2> QED
    BY <2>1 DEF CallingOK, Converting, Converter, HoldsAsked, Answered, InProgress, m_reserved
<1> QED
  BY <1>3, <1>5, <1>6 DEF AsInv

LEMMA CallsKeep ==
  ASSUME AsInv, NEW t \in BuildThreads, NEW asked \in Asked,
         \/ Build(t, asked) \/ GetPrebuildInfo(t, asked)
         \/ BuildArray(t, asked) \/ GetArrayPrebuildInfo(t, asked)
  PROVE  AsInv'
<1>1. /\ converters = [u \in BuildThreads |-> converters[u]]
      /\ \A u \in BuildThreads : m_reserved(converters[u]) \in Nat
  BY DEF AsInv, CallingOK
<1>2. ConvertStatus(asked) = "OK" /\ asked.type = "BOTTOM_LEVEL" =>
        ReachesGeometries(asked) /\ FirstFailure(asked) = Len(asked.descs) + 1
  <2> SUFFICES ASSUME ConvertStatus(asked) = "OK", asked.type = "BOTTOM_LEVEL"
               PROVE  ReachesGeometries(asked) /\ FirstFailure(asked) = Len(asked.descs) + 1
    OBVIOUS
  <2>1. "UNKNOWN" \notin asked.flags
    BY DEF ConvertStatus, IsArray
  <2>2. FirstFailure(asked) \in 1 .. Len(asked.descs) =>
          GeometryStatus(asked, asked.descs[FirstFailure(asked)]) = "OK"
    BY <2>1, AskedForms DEF ConvertStatus, IsArray
  <2> QED
    BY <2>1, <2>2, FailureIsFirst DEF ReachesGeometries
<1>3. CASE Build(t, asked)
  <2>1. asked.op = "build" /\ Answer(t, asked, NewConverter)
    BY <1>3 DEF Build
  <2>2. CASE ReachesGeometries(asked)
    <3>1. PICK arrays : arrays = ConvertedArrays(converters[t], asked)
      OBVIOUS
    <3>2. /\ m_reserved(arrays) \in Nat
          /\ ConvertStatus(asked) = "OK" /\ asked.type = "BOTTOM_LEVEL" => HoldsAsked(arrays, asked)
      BY <1>1, <1>2, <3>1, ArraysHoldAsked
    <3>3. converters' = [converters EXCEPT ![t] = arrays]
      BY <1>3, <2>2, <3>1 DEF Build, ThreadConverter
    <3>4. /\ converters'[t] = arrays /\ \A u \in BuildThreads \ {t} : converters'[u] = converters[u]
          /\ converters' = [u \in BuildThreads |-> converters'[u]]
      BY <1>1, <3>3
    <3> QED
      BY <2>1, <3>2, <3>4, AnswerKeeps
  <2>3. CASE ~ReachesGeometries(asked)
    <3>1. converters' = converters
      BY <1>3, <2>3 DEF Build
    <3> QED
      BY <1>1, <1>2, <2>1, <2>3, <3>1, AnswerKeeps
  <2> QED
    BY <2>2, <2>3
<1>4. CASE GetPrebuildInfo(t, asked)
  <2>1. PICK arrays : arrays = ConvertedArrays(NewConverter, asked)
    OBVIOUS
  <2>2. ConvertStatus(asked) = "OK" /\ asked.type = "BOTTOM_LEVEL" => HoldsAsked(arrays, asked)
    BY <1>2, <2>1, ArraysHoldAsked, NewReserves
  <2>3. /\ asked.op # "build" /\ converters' = converters
        /\ Answer(t, asked, IF ReachesGeometries(asked) THEN arrays ELSE NewConverter)
    BY <1>4, <2>1 DEF GetPrebuildInfo
  <2>4. ConvertStatus(asked) = "OK" /\ asked.type = "BOTTOM_LEVEL" =>
          HoldsAsked(IF ReachesGeometries(asked) THEN arrays ELSE NewConverter, asked)
    BY <1>2, <2>2
  <2> QED
    BY <1>1, <2>3, <2>4, AnswerKeeps
<1>5. CASE BuildArray(t, asked) \/ GetArrayPrebuildInfo(t, asked)
  <2>1. /\ asked.type # "BOTTOM_LEVEL" /\ converters' = converters
        /\ Answer(t, asked, NewConverter)
    BY <1>5 DEF BuildArray, GetArrayPrebuildInfo, IsArray
  <2> QED
    BY <1>1, <2>1, AnswerKeeps
<1> QED
  BY <1>3, <1>4, <1>5

(* D3D12 reads the converter of the call, in which other threads' calls    *)
(* have written nothing since.                                             *)
LEMMA CallD3d12Keeps ==
  ASSUME AsInv, NEW t \in BuildThreads, CallD3d12(t)
  PROVE  AsInv'
<1>1. PICK c, asked : c = building[t] /\ asked = c.asked
  OBVIOUS
<1>2. PICK got, after :
        /\ got = [desc |-> Desc(asked),
                  geometries |-> IF asked.type = "BOTTOM_LEVEL"
                                   THEN Read(Converter(t), Len(asked.descs)) ELSE <<>>,
                  postbuild |-> asked.postbuild]
        /\ after = [c EXCEPT !.at = "done", !.local = NewConverter, !.got = got]
  OBVIOUS
<1>3. /\ c.at = "converted" /\ converters' = converters
      /\ building' = [building EXCEPT ![t] = after]
  BY <1>1, <1>2 DEF CallD3d12, ThreadConverter, Converter
<1>4. /\ InProgress(c) /\ asked \in Asked /\ c.status = "OK" /\ Convertible(asked)
      /\ asked.type = "BOTTOM_LEVEL" => HoldsAsked(Converter(t), asked)
  BY <1>1, <1>3 DEF AsInv, CallingOK, Converting, AsIdle
<1>5. after = [at |-> "done", asked |-> asked, status |-> "OK", local |-> NewConverter, got |-> got]
  BY <1>1, <1>2, <1>4 DEF InProgress
<1>6. /\ building'[t] = after /\ building' = [u \in BuildThreads |-> building'[u]]
      /\ \A u \in BuildThreads \ {t} : building'[u] = building[u]
  BY <1>3 DEF AsInv
<1>7. CallingOK(t)'
  <2>1. /\ got.desc = Desc(asked) /\ got.postbuild = asked.postbuild
        /\ asked.type = "BOTTOM_LEVEL" => got.geometries = asked.descs
    BY <1>2, <1>4, ReadsAsked
  <2>2. got # NotCalled
    BY <1>2 DEF NotCalled, None, Desc
  <2>3. /\ FlagsAgree(asked, Desc(asked).flags) /\ Desc(asked).data = asked.data
        /\ asked.type = "BOTTOM_LEVEL" =>
             Desc(asked).numDescs = Len(asked.descs) /\ Desc(asked).layout = "ARRAY"
    BY <1>4, FlagsConvert DEF Desc, IsArray
  <2>4. Answered(t)'
    BY <1>4, <1>5, <1>6, <2>1, <2>2, <2>3 DEF Answered
  <2>5. InProgress(building[t])' /\ Converting(t)'
    BY <1>5, <1>6 DEF InProgress, Converting
  <2> QED
    BY <1>3, <2>4, <2>5 DEF CallingOK, AsInv, m_reserved
<1>8. ASSUME NEW u \in BuildThreads \ {t} PROVE CallingOK(u)'
  <2>1. CallingOK(u) /\ building'[u] = building[u] /\ converters'[u] = converters[u]
    BY <1>3, <1>6 DEF AsInv
  <2> QED
    BY <2>1 DEF CallingOK, Converting, Converter, HoldsAsked, Answered, InProgress, m_reserved
<1> QED
  BY <1>3, <1>6, <1>7, <1>8 DEF AsInv

LEMMA AsReturnKeeps ==
  ASSUME AsInv, NEW t \in BuildThreads,
         building' = [building EXCEPT ![t] = AsIdle], converters' = converters
  PROVE  AsInv'
<1>1. /\ building'[t] = AsIdle /\ building' = [u \in BuildThreads |-> building'[u]]
      /\ \A u \in BuildThreads \ {t} : building'[u] = building[u]
  BY DEF AsInv
<1>2. CallingOK(t)'
  BY <1>1 DEF AsInv, CallingOK, Converting, Answered, AsIdle, m_reserved
<1>3. ASSUME NEW u \in BuildThreads \ {t} PROVE CallingOK(u)'
  <2>1. CallingOK(u) /\ building'[u] = building[u] /\ converters'[u] = converters[u]
    BY <1>1 DEF AsInv
  <2> QED
    BY <2>1 DEF CallingOK, Converting, Converter, HoldsAsked, Answered, InProgress, m_reserved
<1> QED
  BY <1>1, <1>2, <1>3 DEF AsInv

(* D3D12 is called exactly for what can be converted and finds what this   *)
(* call asked for, geometries with their attachments and flags, whatever   *)
(* earlier calls left in the thread's arrays and whatever other threads    *)
(* convert in between.                                                     *)
THEOREM D3d12FindsWhatWasAsked == AsSpec => []BuildsWhatWasAsked
<1>1. AsInv /\ [AsNext]_asVars => AsInv'
  <2> SUFFICES ASSUME AsInv, [AsNext]_asVars PROVE AsInv'
    OBVIOUS
  <2>1. ASSUME NEW t \in BuildThreads, NEW asked \in Asked,
               \/ Build(t, asked) \/ GetPrebuildInfo(t, asked)
               \/ BuildArray(t, asked) \/ GetArrayPrebuildInfo(t, asked)
        PROVE  AsInv'
    BY <2>1, CallsKeep
  <2>2. ASSUME NEW t \in BuildThreads, CallD3d12(t) PROVE AsInv'
    BY <2>2, CallD3d12Keeps
  <2>3. ASSUME NEW t \in BuildThreads, Return(t) PROVE AsInv'
    BY <2>3, AsReturnKeeps DEF Return
  <2>4. CASE UNCHANGED asVars
    BY <2>4 DEF asVars, AsInv, CallingOK, Converting, Converter, HoldsAsked, Answered, InProgress,
       m_reserved
  <2> QED
    BY <2>1, <2>2, <2>3, <2>4 DEF AsNext
<1>2. AsInv => BuildsWhatWasAsked
  BY DEF AsInv, CallingOK, Answered, BuildsWhatWasAsked
<1> QED
  BY <1>1, <1>2, AsInitially, PTL DEF AsSpec

-----------------------------------------------------------------------------
(* AdapterRegistry: what a registry holds *)

(* DXGI reports a list of adapters; index says how far it has been read.    *)
ReportedOK ==
  /\ dxgiAdapters \in Seq(DxgiAdapters)
  /\ index \in 0 .. Len(dxgiAdapters)
  /\ primary \in {<<i, 0>> : i \in 1 .. MaxAdapters}

(* The adapters of the registry are among those, each once.                 *)
AdaptersOK == m_nvapiAdapters \in Seq(1 .. index) /\ IsInjective(m_nvapiAdapters)

(* Its outputs are all outputs of its adapters, each once.                  *)
HasOutput(a, j) == a \in ToSet(m_nvapiAdapters) /\ j \in 0 .. dxgiAdapters[a].outputs - 1

OutputsOK ==
  /\ m_nvapiOutputs = [n \in 1 .. Len(m_nvapiOutputs) |-> m_nvapiOutputs[n]]
  /\ Len(m_nvapiOutputs) \in Nat
  /\ \A n \in 1 .. Len(m_nvapiOutputs) :
       \E a, j : HasOutput(a, j) /\ m_nvapiOutputs[n] = Output(a, j)
  /\ \A a, j : HasOutput(a, j) =>
       \E n \in 1 .. Len(m_nvapiOutputs) : m_nvapiOutputs[n] = Output(a, j)
  /\ \A m, n \in 1 .. Len(m_nvapiOutputs) :
       m_nvapiOutputs[m].name = m_nvapiOutputs[n].name => m = n

RegistryInv == ReportedOK /\ AdaptersOK /\ OutputsOK

LEMMA RegistryInvInit == RegistryInit => RegistryInv
<1> SUFFICES ASSUME RegistryInit PROVE RegistryInv
  OBVIOUS
<1>1. /\ index = 0 /\ m_nvapiAdapters = <<>> /\ m_nvapiOutputs = <<>>
      /\ primary \in {<<i, 0>> : i \in 1 .. MaxAdapters}
  BY DEF RegistryInit, Reported, EmptyRegistry
<1>2. ReportedOK
  <2>1. PICK k \in 0 .. MaxAdapters : dxgiAdapters \in [1 .. k -> DxgiAdapters]
    BY DEF RegistryInit, Reported
  <2>2. dxgiAdapters \in Seq(DxgiAdapters)
    BY <2>1, MaxAdaptersAssumption
  <2>3. Len(dxgiAdapters) \in Nat
    BY <2>2
  <2> QED
    BY <1>1, <2>2, <2>3 DEF ReportedOK
<1>3. AdaptersOK
  BY <1>1 DEF AdaptersOK, IsInjective
<1>4. OutputsOK
  BY <1>1 DEF OutputsOK, HasOutput, ToSet
<1> QED
  BY <1>2, <1>3, <1>4 DEF RegistryInv

LEMMA IdsPerAdapterTyped == IdsPerAdapter \in Nat
  BY SMT DEF IdsPerAdapter

(* The fields of what there is.                                             *)
LEMMA AdapterFields ==
  ASSUME ReportedOK, NEW a \in 1 .. Len(dxgiAdapters)
  PROVE  dxgiAdapters[a].outputs \in 0 .. IdsPerAdapter - 2
<1>1. dxgiAdapters[a] \in DxgiAdapters
  BY DEF ReportedOK
<1> QED
  BY <1>1, KindsAssumption

LEMMA PairsAgree ==
  ASSUME NEW a, NEW b, NEW i, NEW j, <<a, i>> = <<b, j>>
  PROVE  a = b /\ i = j
  OBVIOUS

(* The elements of two lists put together.                                 *)
LEMMA ListsJoined ==
  ASSUME NEW m \in Nat, NEW n \in Nat, NEW s, NEW t,
         s = [k \in 1 .. m |-> s[k]], t = [k \in 1 .. n |-> t[k]], Len(s) = m, Len(t) = n
  PROVE  /\ s \o t = [k \in 1 .. m + n |-> (s \o t)[k]]
         /\ Len(s \o t) = m + n
         /\ \A k \in 1 .. m + n : (s \o t)[k] = IF k <= m THEN s[k] ELSE t[k - m]
<1>1. PICK Elements : Elements = {s[k] : k \in 1 .. m} \cup {t[k] : k \in 1 .. n}
  OBVIOUS
<1>2. (\A k \in 1 .. m : s[k] \in Elements) /\ (\A k \in 1 .. n : t[k] \in Elements)
  BY <1>1
<1>3. s \in Seq(Elements) /\ t \in Seq(Elements)
  <2>1. s \in Seq(Elements)
    BY <1>2
  <2>2. t \in Seq(Elements)
    BY <1>2
  <2> QED
    BY <2>1, <2>2
<1>4. /\ s \o t \in Seq(Elements) /\ Len(s \o t) = m + n
      /\ \A k \in 1 .. m + n : (s \o t)[k] = IF k <= m THEN s[k] ELSE t[k - m]
  BY <1>3, ConcatProperties
<1>5. PICK joined : joined = s \o t
  OBVIOUS
<1>6. joined \in Seq(Elements) /\ Len(joined) = m + n
  BY <1>4, <1>5
<1>7. joined = [k \in 1 .. m + n |-> joined[k]]
  BY <1>6, LenProperties
<1> QED
  BY <1>4, <1>5, <1>7

(* An adapter with its outputs is added after those before it.              *)
LEMMA AdapterAdded ==
  ASSUME RegistryInv, EnumAdapter,
         m_nvapiAdapters' = Append(m_nvapiAdapters, index + 1),
         m_nvapiOutputs' = m_nvapiOutputs \o Outputs(index + 1)
  PROVE  AdaptersOK' /\ OutputsOK'
<1> DEFINE new == index + 1
           old == Len(m_nvapiOutputs)
           added == dxgiAdapters[new].outputs
<1>1. /\ index \in Nat /\ new \in 1 .. Len(dxgiAdapters) /\ index' = new
      /\ Len(dxgiAdapters) \in Nat
      /\ dxgiAdapters' = dxgiAdapters /\ primary' = primary
  BY DEF RegistryInv, ReportedOK, EnumAdapter
<1>2. added \in 0 .. IdsPerAdapter - 2
  BY <1>1, AdapterFields DEF RegistryInv
<1>0. IdsPerAdapter \in Nat /\ added \in Nat
  BY <1>2, IdsPerAdapterTyped
<1>3. /\ m_nvapiAdapters \in Seq(1 .. index) /\ IsInjective(m_nvapiAdapters)
      /\ Len(m_nvapiAdapters) \in Nat /\ DOMAIN m_nvapiAdapters = 1 .. Len(m_nvapiAdapters)
      /\ \A k \in 1 .. Len(m_nvapiAdapters) : m_nvapiAdapters[k] \in 1 .. index
  <2>1. m_nvapiAdapters \in Seq(1 .. index) /\ IsInjective(m_nvapiAdapters)
    BY DEF RegistryInv, AdaptersOK
  <2> QED
    BY <2>1, LenProperties, ElementOfSeq
<1>4. /\ m_nvapiAdapters' \in Seq(1 .. index')
      /\ DOMAIN m_nvapiAdapters' = 1 .. Len(m_nvapiAdapters) + 1
      /\ \A k \in 1 .. Len(m_nvapiAdapters) : m_nvapiAdapters'[k] = m_nvapiAdapters[k]
      /\ m_nvapiAdapters'[Len(m_nvapiAdapters) + 1] = new
  <2>1. m_nvapiAdapters \in Seq(1 .. new) /\ new \in 1 .. new
    BY <1>1, <1>3, ElementOfSeq, LenProperties
  <2> HIDE DEF new
  <2> QED
    BY <1>1, <1>3, <2>1 DEF new
<1>5. IsInjective(m_nvapiAdapters')
  BY <1>1, <1>3, <1>4 DEF IsInjective
<1>6. ToSet(m_nvapiAdapters)' = ToSet(m_nvapiAdapters) \cup {new}
  <2>1. ToSet(m_nvapiAdapters') \subseteq ToSet(m_nvapiAdapters) \cup {new}
    BY <1>3, <1>4 DEF ToSet
  <2>2. ToSet(m_nvapiAdapters) \cup {new} \subseteq ToSet(m_nvapiAdapters')
    BY <1>3, <1>4 DEF ToSet
  <2> QED
    BY <2>1, <2>2
<1>7. new \notin ToSet(m_nvapiAdapters)
  BY <1>1, <1>3 DEF ToSet
<1>8. \A a, j : HasOutput(a, j)' <=> HasOutput(a, j) \/ (a = new /\ j \in 0 .. added - 1)
  BY <1>1, <1>6 DEF HasOutput
<1>9. \A a, j : Output(a, j)' = Output(a, j) /\ Output(a, j).name = <<a, j>>
  BY <1>1 DEF Output, OutputId
<1>10. /\ Len(Outputs(new)) = added /\ DOMAIN Outputs(new) = 1 .. added
       /\ \A k \in 1 .. added : Outputs(new)[k] = Output(new, k - 1)
  <2>1. Outputs(new) = [n \in 1 .. added |-> Output(new, n - 1)]
    BY DEF Outputs
  <2> HIDE DEF new, added
  <2> QED
    BY <1>0, <2>1
<1>11. /\ old \in Nat /\ m_nvapiOutputs = [n \in 1 .. old |-> m_nvapiOutputs[n]]
       /\ \A n \in 1 .. old : \E a, j : HasOutput(a, j) /\ m_nvapiOutputs[n] = Output(a, j)
       /\ \A a, j : HasOutput(a, j) => \E n \in 1 .. old : m_nvapiOutputs[n] = Output(a, j)
       /\ \A m, n \in 1 .. old : m_nvapiOutputs[m].name = m_nvapiOutputs[n].name => m = n
  BY DEF RegistryInv, OutputsOK
<1>12. /\ m_nvapiOutputs' = [n \in 1 .. old + added |-> m_nvapiOutputs'[n]]
       /\ Len(m_nvapiOutputs') = old + added
       /\ \A n \in 1 .. old : m_nvapiOutputs'[n] = m_nvapiOutputs[n]
       /\ \A n \in old + 1 .. old + added : m_nvapiOutputs'[n] = Output(new, n - old - 1)
  <2> DEFINE s == m_nvapiOutputs
             t == Outputs(new)
  <2>1. t = [k \in 1 .. added |-> t[k]]
    BY <1>10 DEF Outputs
  <2>2. m_nvapiOutputs' = s \o t
    OBVIOUS
  <2>3. s = [k \in 1 .. old |-> s[k]] /\ Len(s) = old /\ Len(t) = added
    BY <1>10, <1>11
  <2> HIDE DEF s, t, old, added
  <2>4. /\ s \o t = [n \in 1 .. old + added |-> (s \o t)[n]]
        /\ Len(s \o t) = old + added
        /\ \A n \in 1 .. old + added : (s \o t)[n] = IF n <= old THEN s[n] ELSE t[n - old]
    BY <1>0, <1>11, <2>1, <2>3, ListsJoined, SMTT(30)
  <2>5. \A n \in old + 1 .. old + added : (s \o t)[n] = Output(new, n - old - 1)
    <3> SUFFICES ASSUME NEW n \in old + 1 .. old + added
                 PROVE  (s \o t)[n] = Output(new, n - old - 1)
      OBVIOUS
    <3>1. n - old \in 1 .. added /\ n \in 1 .. old + added /\ ~(n <= old)
      BY <1>0, <1>11
    <3> HIDE DEF new
    <3> QED
      BY <1>10, <2>4, <3>1 DEF t
  <2>6. \A n \in 1 .. old : (s \o t)[n] = m_nvapiOutputs[n]
    <3> SUFFICES ASSUME NEW n \in 1 .. old PROVE (s \o t)[n] = m_nvapiOutputs[n]
      OBVIOUS
    <3>1. n \in 1 .. old + added /\ n <= old
      BY <1>0, <1>11
    <3> QED
      BY <2>4, <3>1 DEF s
  <2> QED
    BY <2>2, <2>4, <2>5, <2>6
<1> HIDE DEF new, old, added
<1>13. \A n \in 1 .. old + added :
         \E a, j : HasOutput(a, j)' /\ m_nvapiOutputs'[n] = Output(a, j)'
  <2> SUFFICES ASSUME NEW n \in 1 .. old + added
               PROVE  \E a, j : HasOutput(a, j)' /\ m_nvapiOutputs'[n] = Output(a, j)'
    OBVIOUS
  <2>1. CASE n \in 1 .. old
    <3>1. PICK a, j : HasOutput(a, j) /\ m_nvapiOutputs[n] = Output(a, j)
      BY <1>11, <2>1
    <3> QED
      BY <1>8, <1>9, <1>12, <2>1, <3>1
  <2>2. CASE n \in old + 1 .. old + added
    <3>1. n - old - 1 \in 0 .. added - 1
      BY <1>0, <1>11, <2>2
    <3> QED
      BY <1>8, <1>9, <1>12, <2>2, <3>1
  <2>3. n \in 1 .. old \/ n \in old + 1 .. old + added
    BY <1>0, <1>11
  <2> QED
    BY <2>1, <2>2, <2>3
<1>14. ASSUME NEW a, NEW j, HasOutput(a, j)'
       PROVE  \E n \in 1 .. old + added : m_nvapiOutputs'[n] = Output(a, j)'
  <2>1. CASE HasOutput(a, j)
    <3>1. PICK n \in 1 .. old : m_nvapiOutputs[n] = Output(a, j)
      BY <1>11, <2>1
    <3>2. n \in 1 .. old + added
      BY <1>0, <1>11
    <3> QED
      BY <1>9, <1>12, <3>1, <3>2
  <2>2. CASE a = new /\ j \in 0 .. added - 1
    <3>1. /\ old + j + 1 \in old + 1 .. old + added /\ old + j + 1 \in 1 .. old + added
          /\ (old + j + 1) - old - 1 = j
      BY <1>0, <1>11, <2>2, SMTT(30)
    <3>2. m_nvapiOutputs'[old + j + 1] = Output(a, j)
      BY <1>12, <2>2, <3>1
    <3> QED
      BY <1>9, <3>1, <3>2
  <2> QED
    BY <1>8, <1>14, <2>1, <2>2
<1>15. ASSUME NEW m \in 1 .. old + added, NEW n \in 1 .. old + added,
              m_nvapiOutputs'[m].name = m_nvapiOutputs'[n].name
       PROVE  m = n
  <2>1. \A k \in 1 .. old :
          \E a, j : a \in ToSet(m_nvapiAdapters) /\ m_nvapiOutputs'[k].name = <<a, j>>
    BY <1>9, <1>11, <1>12, SMTT(30) DEF HasOutput
  <2>2. \A k \in old + 1 .. old + added : m_nvapiOutputs'[k].name = <<new, k - old - 1>>
    BY <1>9, <1>12
  <2>3. CASE m \in 1 .. old /\ n \in 1 .. old
    BY <1>11, <1>12, <1>15, <2>3
  <2>4. CASE m \in old + 1 .. old + added /\ n \in old + 1 .. old + added
    <3>1. PICK i, j : i = m - old - 1 /\ j = n - old - 1
      OBVIOUS
    <3>2. <<new, i>> = <<new, j>>
      BY <1>15, <2>2, <2>4, <3>1
    <3>3. i = j
      BY <3>2, PairsAgree
    <3> QED
      BY <1>0, <1>11, <2>4, <3>1, <3>3
  <2>5. ASSUME NEW k \in 1 .. old, NEW l \in old + 1 .. old + added
        PROVE  m_nvapiOutputs'[k].name # m_nvapiOutputs'[l].name
    <3>1. PICK a, j : a \in ToSet(m_nvapiAdapters) /\ m_nvapiOutputs'[k].name = <<a, j>>
      BY <2>1
    <3>2. PICK i : m_nvapiOutputs'[l].name = <<new, i>>
      BY <2>2
    <3>3. a # new
      BY <1>7, <3>1
    <3>4. <<a, j>> # <<new, i>>
      BY <3>3, PairsAgree
    <3> QED
      BY <3>1, <3>2, <3>4
  <2>6. /\ m \in 1 .. old \/ m \in old + 1 .. old + added
        /\ n \in 1 .. old \/ n \in old + 1 .. old + added
    BY <1>0, <1>11
  <2> QED
    BY <1>15, <2>3, <2>4, <2>5, <2>6
<1>16. Len(m_nvapiOutputs') = old + added /\ old + added \in Nat
  BY <1>0, <1>11, <1>12
<1>17. AdaptersOK'
  BY <1>4, <1>5 DEF AdaptersOK
<1>18. OutputsOK'
  <2> DEFINE len == old + added
  <2>1. Len(m_nvapiOutputs') = len /\ len \in Nat
        /\ m_nvapiOutputs' = [n \in 1 .. len |-> m_nvapiOutputs'[n]]
    BY <1>12, <1>16
  <2>2. \A n \in 1 .. len : \E a, j : HasOutput(a, j)' /\ m_nvapiOutputs'[n] = Output(a, j)'
    BY <1>13
  <2>3. \A a, j : HasOutput(a, j)' => \E n \in 1 .. len : m_nvapiOutputs'[n] = Output(a, j)'
    BY <1>14
  <2>4. \A m, n \in 1 .. len : m_nvapiOutputs'[m].name = m_nvapiOutputs'[n].name => m = n
    BY <1>15
  <2> HIDE DEF len
  <2>5. (\A n \in 1 .. Len(m_nvapiOutputs) :
           \E a, j : HasOutput(a, j) /\ m_nvapiOutputs[n] = Output(a, j))'
    BY <2>1, <2>2
  <2>6. (\A a, j : HasOutput(a, j) =>
           \E n \in 1 .. Len(m_nvapiOutputs) : m_nvapiOutputs[n] = Output(a, j))'
    BY <2>1, <2>3
  <2>7. (\A m, n \in 1 .. Len(m_nvapiOutputs) :
           m_nvapiOutputs[m].name = m_nvapiOutputs[n].name => m = n)'
    BY <2>1, <2>4
  <2>8. (m_nvapiOutputs = [n \in 1 .. Len(m_nvapiOutputs) |-> m_nvapiOutputs[n]])'
    BY <2>1
  <2> QED
    BY <2>1, <2>5, <2>6, <2>7, <2>8 DEF OutputsOK
<1> QED
  BY <1>17, <1>18

LEMMA RegistryKept ==
  ASSUME RegistryInv, UNCHANGED <<dxgiAdapters, primary, m_nvapiAdapters, m_nvapiOutputs>>,
         index' \in index .. Len(dxgiAdapters)
  PROVE  RegistryInv'
<1>1. ReportedOK'
  BY DEF RegistryInv, ReportedOK
<1>2. AdaptersOK'
  <2>1. m_nvapiAdapters \in Seq(1 .. index')
    <3>1. /\ m_nvapiAdapters \in Seq(1 .. index) /\ index \in Nat
          /\ index' \in Nat /\ index <= index'
      BY DEF RegistryInv, ReportedOK, AdaptersOK
    <3>2. 1 .. index \subseteq 1 .. index'
      BY <3>1
    <3> QED
      BY <3>1, <3>2, ElementOfSeq, LenProperties
  <2> QED
    BY <2>1 DEF RegistryInv, AdaptersOK
<1>3. OutputsOK'
  BY DEF RegistryInv, OutputsOK, HasOutput, Output, OutputId
<1> QED
  BY <1>1, <1>2, <1>3 DEF RegistryInv

LEMMA RegistryInvariant == RegistrySpec => []RegistryInv
<1>1. ASSUME RegistryInv, [RegistryNext]_registryVars PROVE RegistryInv'
  <2>1. index \in Nat /\ Len(dxgiAdapters) \in Nat /\ index <= Len(dxgiAdapters)
    BY <1>1 DEF RegistryInv, ReportedOK
  <2>2. CASE Unavailable \/ EndOfAdapters \/ UNCHANGED registryVars
    <3>1. UNCHANGED <<dxgiAdapters, primary, index, m_nvapiAdapters, m_nvapiOutputs>>
      BY <2>2 DEF Unavailable, EndOfAdapters, registryVars
    <3> QED
      BY <1>1, <2>1, <3>1, RegistryKept
  <2>3. CASE EnumAdapter
    <3>1. /\ index' = index + 1 /\ index < Len(dxgiAdapters)
          /\ UNCHANGED <<dxgiAdapters, primary>>
      BY <2>3 DEF EnumAdapter
    <3>2. CASE /\ m_nvapiAdapters' = Append(m_nvapiAdapters, index + 1)
               /\ m_nvapiOutputs' = m_nvapiOutputs \o Outputs(index + 1)
      <4>1. ReportedOK'
        BY <1>1, <2>1, <3>1 DEF RegistryInv, ReportedOK
      <4> QED
        BY <1>1, <2>3, <3>2, <4>1, AdapterAdded DEF RegistryInv
    <3>3. CASE UNCHANGED <<m_nvapiAdapters, m_nvapiOutputs>>
      BY <1>1, <2>1, <3>1, <3>3, RegistryKept
    <3> QED
      BY <2>3, <3>2, <3>3 DEF EnumAdapter
  <2> QED
    BY <1>1, <2>2, <2>3 DEF RegistryNext
<1> QED
  BY <1>1, RegistryInvInit, PTL DEF RegistrySpec

-----------------------------------------------------------------------------
(* AdapterRegistry: what the look-ups find *)

(* The output's part of an id does not reach the adapter's.                 *)
LEMMA IdsAreApart ==
  ASSUME NEW w \in Nat, NEW a \in Nat, NEW b \in Nat, NEW j \in 0 .. w - 1, NEW k \in 0 .. w - 1,
         a * w + j = b * w + k
  PROVE  a = b /\ j = k
<1>1. ASSUME NEW x \in Nat, NEW y \in Nat, x < y
      PROVE  x * w + w <= y * w
  <2>1. PICK d \in Nat : y = x + 1 + d
    <3>1. y - x - 1 \in Nat /\ y = x + 1 + (y - x - 1)
      BY <1>1
    <3> QED
      BY <3>1
  <2>2. y * w = x * w + w + d * w /\ d * w \in Nat /\ x * w \in Nat
    BY <2>1
  <2> QED
    BY <2>2
<1>2. a * w \in Nat /\ b * w \in Nat
  OBVIOUS
<1>3. ~(a < b) /\ ~(b < a)
  BY <1>1, <1>2
<1>4. a = b
  BY <1>3
<1> QED
  BY <1>2, <1>4

LEMMA OnlyOne ==
  ASSUME NEW n \in Nat
  PROVE  Min({n}) = n /\ Max({n}) = n
  BY DEF Min, Max

(* Each output has a place, and no other has its name or its id.            *)
LEMMA OutputPlaces ==
  ASSUME RegistryInv, NEW n \in Displays
  PROVE  /\ n \in Nat /\ n # 0
         /\ m_nvapiOutputs[n].parent \in Gpus
         /\ m_nvapiOutputs[n].id # 0
         /\ FindOutputByName(m_nvapiOutputs[n].name) = n
         /\ FindOutput(m_nvapiOutputs[n].id) = n
<1>1. /\ Len(m_nvapiOutputs) \in Nat /\ Displays = 1 .. Len(m_nvapiOutputs)
      /\ \A k \in Displays : \E a, j : HasOutput(a, j) /\ m_nvapiOutputs[k] = Output(a, j)
      /\ \A m \in Displays : m_nvapiOutputs[m].name = m_nvapiOutputs[n].name => m = n
  BY DEF RegistryInv, OutputsOK, Displays
<1>2. ASSUME NEW a, NEW j, HasOutput(a, j)
      PROVE  a \in Nat /\ a > 0 /\ j \in 0 .. IdsPerAdapter - 3
  <2>0. IdsPerAdapter \in Nat
    BY IdsPerAdapterTyped
  <2>1. a \in 1 .. Len(dxgiAdapters) /\ Len(dxgiAdapters) \in Nat
    BY <1>2 DEF RegistryInv, ReportedOK, AdaptersOK, HasOutput, ToSet
  <2>2. dxgiAdapters[a].outputs \in 0 .. IdsPerAdapter - 2
    BY <2>1, AdapterFields DEF RegistryInv
  <2> QED
    BY <1>2, <2>0, <2>1, <2>2 DEF HasOutput
<1>3. PICK a, j : HasOutput(a, j) /\ m_nvapiOutputs[n] = Output(a, j)
  BY <1>1
<1>4. a \in Nat /\ a > 0 /\ j \in 0 .. IdsPerAdapter - 3 /\ a \in Gpus
  BY <1>2, <1>3 DEF HasOutput, Gpus, GetPhysicalGPUs
<1>5. \A b, k : /\ Output(b, k).parent = b /\ Output(b, k).name = <<b, k>>
                /\ Output(b, k).id = (b - 1 + 1) * IdsPerAdapter + (k + 1)
  BY DEF Output, OutputId
<1>6. m_nvapiOutputs[n].id # 0
  <2>1. a * IdsPerAdapter \in Nat /\ a - 1 + 1 = a
    BY <1>4, IdsPerAdapterTyped
  <2> QED
    BY <1>3, <1>4, <1>5, <2>1
<1>7. ASSUME NEW m \in Displays, m_nvapiOutputs[m].id = m_nvapiOutputs[n].id
      PROVE  m = n
  <2>1. PICK b, k : HasOutput(b, k) /\ m_nvapiOutputs[m] = Output(b, k)
    BY <1>1
  <2>2. b \in Nat /\ b > 0 /\ k \in 0 .. IdsPerAdapter - 3
    BY <1>2, <2>1
  <2>3. b * IdsPerAdapter + (k + 1) = a * IdsPerAdapter + (j + 1)
    BY <1>3, <1>4, <1>5, <1>7, <2>1, <2>2
  <2>4. b = a /\ k = j
    <3>1. IdsPerAdapter \in Nat
      BY IdsPerAdapterTyped
    <3>2. j + 1 \in 0 .. IdsPerAdapter - 1 /\ k + 1 \in 0 .. IdsPerAdapter - 1
      BY <1>4, <2>2, <3>1
    <3>3. b = a /\ k + 1 = j + 1
      BY <1>4, <2>2, <2>3, <3>1, <3>2, IdsAreApart
    <3> QED
      BY <1>4, <2>2, <3>3
  <2> QED
    BY <1>1, <1>3, <2>1, <2>4
<1>8. /\ {i \in 1 .. Len(m_nvapiOutputs) : m_nvapiOutputs[i].name = m_nvapiOutputs[n].name} = {n}
      /\ {i \in 1 .. Len(m_nvapiOutputs) : m_nvapiOutputs[i].id = m_nvapiOutputs[n].id} = {n}
  BY <1>1, <1>7
<1>9. n \in Nat /\ n # 0
  BY <1>1
<1>10. FindOutputByName(m_nvapiOutputs[n].name) = n
  BY <1>8, <1>9, OnlyOne DEF FindOutputByName, SelectInSeq
<1>11. FindOutput(m_nvapiOutputs[n].id) = n
  BY <1>8, <1>9, OnlyOne DEF FindOutput, SelectInSeq
<1> QED
  BY <1>3, <1>4, <1>5, <1>6, <1>9, <1>10, <1>11

LEMMA DisplaysFound == ASSUME RegistryInv PROVE DisplaysResolve
<1> SUFFICES ASSUME NEW n \in Displays
             PROVE  LET name == m_nvapiOutputs[n].name
                    IN  /\ FindOutputByName(name) = n
                        /\ FindOutput(GetDisplayIdByDisplayName(name)) = n
                        /\ GetPhysicalGpuFromDisplayId(GetDisplayIdByDisplayName(name))
                             = m_nvapiOutputs[n].parent
                        /\ m_nvapiOutputs[n].parent \in Gpus
  BY DEF DisplaysResolve, GetAssociatedNvidiaDisplayName, GetPhysicalGPUFromDisplay,
    GetAssociatedNvidiaDisplayHandle
<1>1. /\ n \in Nat /\ n # 0
      /\ m_nvapiOutputs[n].parent \in Gpus
      /\ FindOutputByName(m_nvapiOutputs[n].name) = n
      /\ FindOutput(m_nvapiOutputs[n].id) = n
  BY OutputPlaces
<1>2. GetDisplayIdByDisplayName(m_nvapiOutputs[n].name) = m_nvapiOutputs[n].id
  BY <1>1 DEF GetDisplayIdByDisplayName
<1>3. GetPhysicalGpuFromDisplayId(m_nvapiOutputs[n].id) = m_nvapiOutputs[n].parent
  BY <1>1 DEF GetPhysicalGpuFromDisplayId
<1> QED
  BY <1>1, <1>2, <1>3

LEMMA GpusFound == ASSUME RegistryInv PROVE GpusResolve
<1>1. /\ Len(m_nvapiAdapters) \in Nat /\ DOMAIN m_nvapiAdapters = 1 .. Len(m_nvapiAdapters)
      /\ \A k, l \in 1 .. Len(m_nvapiAdapters) : m_nvapiAdapters[k] = m_nvapiAdapters[l] => k = l
  BY DEF RegistryInv, AdaptersOK, IsInjective
<1>2. Gpus = {m_nvapiAdapters[k] : k \in 1 .. Len(m_nvapiAdapters)}
  BY <1>1 DEF Gpus, GetPhysicalGPUs, ToSet
<1>3. ASSUME NEW a \in Gpus, \A b \in Gpus : dxgiAdapters[b].board = dxgiAdapters[a].board => b = a
      PROVE  GetPhysicalGPUFromGPUID(dxgiAdapters[a].board) = a
  <2>1. PICK n \in 1 .. Len(m_nvapiAdapters) : m_nvapiAdapters[n] = a
    BY <1>2
  <2>2. {i \in 1 .. Len(m_nvapiAdapters) :
           dxgiAdapters[m_nvapiAdapters[i]].board = dxgiAdapters[a].board} = {n}
    BY <1>1, <1>2, <1>3, <2>1
  <2>3. n \in Nat /\ n # 0
    BY <1>1
  <2> QED
    BY <2>1, <2>2, <2>3, OnlyOne DEF GetPhysicalGPUFromGPUID, SelectLastInSeq
<1>4. ASSUME NEW a \in Gpus, dxgiAdapters[a].luid # 0,
             \A b \in Gpus : dxgiAdapters[b].luid = dxgiAdapters[a].luid => b = a
      PROVE  FindAdapter(dxgiAdapters[a].luid) = a
  <2>1. PICK n \in 1 .. Len(m_nvapiAdapters) : m_nvapiAdapters[n] = a
    BY <1>2
  <2>2. {i \in 1 .. Len(m_nvapiAdapters) :
           /\ dxgiAdapters[m_nvapiAdapters[i]].luid # 0
           /\ dxgiAdapters[m_nvapiAdapters[i]].luid = dxgiAdapters[a].luid} = {n}
    BY <1>1, <1>2, <1>4, <2>1
  <2>3. n \in Nat /\ n # 0
    BY <1>1
  <2> QED
    BY <2>1, <2>2, <2>3, OnlyOne DEF FindAdapter, SelectInSeq
<1> QED
  BY <1>3, <1>4 DEF GpusResolve, GetGPUIDfromPhysicalGPU

LEMMA PrimaryFound == ASSUME RegistryInv PROVE PrimaryResolves
<1> DEFINE primaries == {i \in 1 .. Len(m_nvapiOutputs) : m_nvapiOutputs[i].isPrimary}
<1>1. /\ Len(m_nvapiOutputs) \in Nat /\ Displays = 1 .. Len(m_nvapiOutputs)
      /\ \A n \in Displays : \E a, j : HasOutput(a, j) /\ m_nvapiOutputs[n] = Output(a, j)
      /\ \A a, j : HasOutput(a, j) => \E n \in Displays : m_nvapiOutputs[n] = Output(a, j)
      /\ \A m, n \in Displays : m_nvapiOutputs[m].name = m_nvapiOutputs[n].name => m = n
  BY DEF RegistryInv, OutputsOK, Displays
<1>2. \A a, j : /\ Output(a, j).name = <<a, j>>
                /\ Output(a, j).isPrimary <=> primary = <<a, j>>
  BY DEF Output
<1>3. PICK p : primary = <<p, 0>> /\ primary[1] = p
  BY DEF RegistryInv, ReportedOK
<1>4. \A n \in Displays : m_nvapiOutputs[n].isPrimary <=> m_nvapiOutputs[n].name = primary
  <2> SUFFICES ASSUME NEW n \in Displays
               PROVE  m_nvapiOutputs[n].isPrimary <=> m_nvapiOutputs[n].name = primary
    OBVIOUS
  <2>1. PICK a, j : m_nvapiOutputs[n] = Output(a, j)
    BY <1>1
  <2>2. (Output(a, j).isPrimary <=> primary = <<a, j>>) /\ Output(a, j).name = <<a, j>>
    BY <1>2
  <2> QED
    BY <2>1, <2>2
<1>5. CASE p \in Gpus /\ dxgiAdapters[p].outputs > 0
  <2>1. HasOutput(p, 0)
    <3>1. p \in 1 .. Len(dxgiAdapters)
      BY <1>5 DEF Gpus, GetPhysicalGPUs, ToSet, RegistryInv, ReportedOK, AdaptersOK
    <3>2. dxgiAdapters[p].outputs \in 0 .. IdsPerAdapter - 2
      BY <3>1, AdapterFields DEF RegistryInv
    <3> QED
      BY <1>5, <3>2 DEF HasOutput, Gpus, GetPhysicalGPUs
  <2>2. PICK n \in Displays : m_nvapiOutputs[n] = Output(p, 0)
    BY <1>1, <2>1
  <2>3. n \in Nat /\ n # 0 /\ m_nvapiOutputs[n].id # 0 /\ FindOutput(m_nvapiOutputs[n].id) = n
    BY OutputPlaces
  <2>4. m_nvapiOutputs[n].name = primary
    BY <1>2, <1>3, <2>2
  <2>5. primaries = {n}
    <3>1. \A i \in Displays : m_nvapiOutputs[i].isPrimary <=> i = n
      BY <1>1, <1>4, <2>4
    <3> QED
      BY <1>1, <3>1
  <2>6. FindPrimaryOutput = n
    BY <2>3, <2>5, OnlyOne DEF FindPrimaryOutput, SelectInSeq
  <2>7. GetGDIPrimaryDisplayId = m_nvapiOutputs[n].id
    BY <2>3, <2>6 DEF GetGDIPrimaryDisplayId
  <2> QED
    BY <1>3, <1>5, <2>3, <2>4, <2>7 DEF PrimaryResolves
<1>6. CASE ~(p \in Gpus /\ dxgiAdapters[p].outputs > 0)
  <2>1. \A a, j : HasOutput(a, j) => primary # <<a, j>>
    <3> SUFFICES ASSUME NEW a, NEW j, HasOutput(a, j), primary = <<a, j>> PROVE FALSE
      OBVIOUS
    <3>1. a = p /\ j = 0
      BY <1>3
    <3>2. p \in 1 .. Len(dxgiAdapters)
      BY <3>1 DEF HasOutput, ToSet, RegistryInv, ReportedOK, AdaptersOK
    <3>3. dxgiAdapters[p].outputs \in 0 .. IdsPerAdapter - 2
      BY <3>2, AdapterFields DEF RegistryInv
    <3> QED
      BY <1>6, <3>1, <3>3 DEF HasOutput, Gpus, GetPhysicalGPUs
  <2>2. primaries = {}
    BY <1>1, <1>2, <2>1
  <2>3. FindPrimaryOutput = 0
    BY <2>2 DEF FindPrimaryOutput, SelectInSeq
  <2>4. GetGDIPrimaryDisplayId = 0
    BY <2>3 DEF GetGDIPrimaryDisplayId
  <2> QED
    BY <1>3, <1>6, <2>4 DEF PrimaryResolves
<1> QED
  BY <1>5, <1>6

(* Whatever DXGI reports, in whatever number, every handle, id and name the *)
(* application can be given leads back to the GPU or display it is of, and  *)
(* the primary display is found exactly if its adapter is one the registry  *)
(* has (NvapiAdapterRegistry and the entry points that translate).          *)
THEOREM NamesResolve == RegistrySpec => []HandlesResolve
<1>1. RegistryInv => HandlesResolve
  BY DisplaysFound, GpusFound, PrimaryFound DEF HandlesResolve
<1> QED
  BY <1>1, RegistryInvariant, PTL

-----------------------------------------------------------------------------
(* AdapterRegistry: lists of displays *)

(* std::copy_if element by element: what is there after each.               *)
FiltersTo(f, outputs, a) ==
  /\ f[0] = <<>>
  /\ \A k \in 1 .. Len(outputs) :
       f[k] = IF outputs[k].parent = a THEN Append(f[k - 1], outputs[k]) ELSE f[k - 1]

LEMMA FilteredStepwise ==
  ASSUME NEW R, NEW outputs \in Seq(R), NEW a
  PROVE  \E f \in [0 .. Len(outputs) -> Seq(R)] :
           FiltersTo(f, outputs, a) /\ Filtered(outputs, a) = f[Len(outputs)]
<1> DEFINE Added(t, o) == IF o.parent = a THEN Append(t, o) ELSE t
<1>0. PICK n : n = Len(outputs)
  OBVIOUS
<1>1. /\ n \in Nat /\ DOMAIN outputs = 1 .. n /\ <<>> \in Seq(R)
      /\ \A k \in 1 .. n : outputs[k] \in R
      /\ \A t \in Seq(R), k \in 1 .. n : Added(t, outputs[k]) \in Seq(R)
  BY <1>0, LenProperties, ElementOfSeq, EmptySeq, AppendProperties
<1>2. PICK step : step = [t \in Seq(R) |-> [k \in 1 .. n |-> Added(t, outputs[k])]]
  OBVIOUS
<1>3. step \in [Seq(R) -> [1 .. n -> Seq(R)]]
  BY <1>1, <1>2
<1>4. PICK f \in [SUBSET (1 .. n) -> Seq(R)] : FoldsTo(f, n, <<>>, step)
  BY <1>1, <1>3, FoldExists
<1>5. f = [s \in SUBSET (1 .. n) |-> IF s = {} THEN <<>> ELSE Added(f[s \ {Max(s)}], outputs[Max(s)])]
  <2> SUFFICES ASSUME NEW s \in SUBSET (1 .. n), s # {}
               PROVE  f[s] = Added(f[s \ {Max(s)}], outputs[Max(s)])
    BY <1>4 DEF FoldsTo
  <2>1. Max(s) \in 1 .. n
    BY <1>1, LastIndex
  <2>2. f[s] = step[f[s \ {Max(s)}]][Max(s)] /\ f[s \ {Max(s)}] \in Seq(R)
    BY <1>4 DEF FoldsTo
  <2> HIDE DEF Added
  <2> QED
    BY <1>2, <2>1, <2>2
<1>6. PICK g :
        /\ g = [s \in SUBSET (1 .. n) |-> IF s = {} THEN <<>> ELSE Added(g[s \ {Max(s)}], outputs[Max(s)])]
        /\ Filtered(outputs, a) = g[1 .. n]
  BY <1>1, <1>5 DEF Filtered, FoldLeft, MapThenFoldSet
<1>7. g[{}] = <<>> /\ \A k \in 1 .. n : g[1 .. k] = Added(g[1 .. k - 1], outputs[k])
  <2> HIDE DEF Added
  <2>1. g[{}] = <<>>
    BY <1>6
  <2>2. ASSUME NEW k \in 1 .. n PROVE g[1 .. k] = Added(g[1 .. k - 1], outputs[k])
    BY <1>1, <1>6, FirstIndices
  <2> QED
    BY <2>1, <2>2
<1>8. PICK h : h = [k \in 0 .. n |-> g[1 .. k]]
  OBVIOUS
<1>9. /\ h[0] = <<>> /\ h[n] = Filtered(outputs, a)
      /\ \A k \in 1 .. n : h[k] = Added(h[k - 1], outputs[k])
  <2> HIDE DEF Added
  <2>1. 0 \in 0 .. n /\ n \in 0 .. n /\ 1 .. 0 = {}
    BY <1>1
  <2>2. \A k \in 1 .. n : k \in 0 .. n /\ k - 1 \in 0 .. n
    BY <1>1
  <2> QED
    BY <1>6, <1>7, <1>8, <2>1, <2>2
<1>10. \A k \in 0 .. n : h[k] \in Seq(R)
  <2> HIDE DEF Added
  <2>1. PICK S : S = {k \in 0 .. n : h[k] \in Seq(R)}
    OBVIOUS
  <2>2. 0 \in 0 .. n
    BY <1>1
  <2>3. 0 \in S
    BY <1>1, <1>9, <2>1, <2>2
  <2>4. ASSUME NEW k \in 1 .. n, k - 1 \in S PROVE k \in S
    <3>1. k \in 0 .. n
      BY <1>1
    <3>2. h[k - 1] \in Seq(R)
      BY <2>1, <2>4
    <3>3. h[k] \in Seq(R)
      BY <1>1, <1>9, <3>2
    <3> QED
      BY <2>1, <3>1, <3>3
  <2>5. \A k \in 0 .. n : k \in S
    BY <1>1, <2>3, <2>4, UpTo
  <2> QED
    BY <2>1, <2>5
<1>11. h \in [0 .. n -> Seq(R)]
  BY <1>8, <1>10
<1> QED
  BY <1>0, <1>9, <1>11 DEF FiltersTo
(* What is copied are the outputs of the adapter.                           *)
LEMMA FilteredElements ==
  ASSUME NEW R, NEW outputs \in Seq(R), NEW a
  PROVE  /\ Filtered(outputs, a) \in Seq(R)
         /\ ToSet(Filtered(outputs, a)) = {o \in ToSet(outputs) : o.parent = a}
<1>1. PICK n, f : /\ n = Len(outputs) /\ n \in Nat
                  /\ f \in [0 .. n -> Seq(R)] /\ FiltersTo(f, outputs, a)
                  /\ Filtered(outputs, a) = f[n]
  BY FilteredStepwise, LenProperties
<1>2. PICK S : S = {k \in 0 .. n : ToSet(f[k]) = {o \in {outputs[i] : i \in 1 .. k} : o.parent = a}}
  OBVIOUS
<1>3. 0 \in 0 .. n /\ n \in 0 .. n
  BY <1>1
<1>4. 0 \in S
  <2>1. f[0] = <<>>
    BY <1>1 DEF FiltersTo
  <2>2. ToSet(<<>>) = {} /\ 1 .. 0 = {}
    BY DEF ToSet
  <2> QED
    BY <1>2, <1>3, <2>1, <2>2
<1>5. ASSUME NEW k \in 1 .. n, k - 1 \in S PROVE k \in S
  <2>1. k \in 0 .. n /\ k - 1 \in 0 .. n
    BY <1>1
  <2>2. f[k] = IF outputs[k].parent = a THEN Append(f[k - 1], outputs[k]) ELSE f[k - 1]
    BY <1>1 DEF FiltersTo
  <2>3. \A o : o \in ToSet(f[k - 1]) <=> o.parent = a /\ \E i \in 1 .. k - 1 : o = outputs[i]
    BY <1>2, <1>5
  <2>4. outputs[k] \in R /\ f[k - 1] \in Seq(R)
    BY <1>1, <2>1, ElementOfSeq
  <2>5. \A o : o \in ToSet(Append(f[k - 1], outputs[k])) <=> o \in ToSet(f[k - 1]) \/ o = outputs[k]
    <3>1. PICK s, e, m : s = f[k - 1] /\ e = outputs[k] /\ m = Len(s)
      OBVIOUS
    <3>2. m \in Nat /\ DOMAIN s = 1 .. m
      BY <2>4, <3>1, LenProperties
    <3>3. /\ DOMAIN Append(s, e) = 1 .. m + 1 /\ Append(s, e)[m + 1] = e
          /\ \A i \in 1 .. m : Append(s, e)[i] = s[i]
      BY <2>4, <3>1, AppendProperties, LenProperties
    <3>4. \A i : i \in 1 .. m + 1 <=> i \in 1 .. m \/ i = m + 1
      BY <3>2
    <3> QED
      BY <3>1, <3>2, <3>3, <3>4 DEF ToSet
  <2>6. \A i : i \in 1 .. k <=> i \in 1 .. k - 1 \/ i = k
    BY <1>1
  <2>7. \A o : o \in ToSet(f[k]) <=> o.parent = a /\ \E i \in 1 .. k : o = outputs[i]
    <3>1. CASE outputs[k].parent = a
      <4>1. \A o : o \in ToSet(f[k]) <=> o \in ToSet(f[k - 1]) \/ o = outputs[k]
        BY <2>2, <2>5, <3>1
      <4> QED
        BY <2>3, <2>6, <3>1, <4>1
    <3>2. CASE outputs[k].parent # a
      <4>1. f[k] = f[k - 1]
        BY <2>2, <3>2
      <4> QED
        BY <2>3, <2>6, <3>2, <4>1
    <3> QED
      BY <3>1, <3>2
  <2>8. ToSet(f[k]) = {o \in {outputs[i] : i \in 1 .. k} : o.parent = a}
    BY <2>7
  <2> QED
    BY <1>2, <2>1, <2>8
<1>6. n \in S
  BY <1>1, <1>3, <1>4, <1>5, UpTo
<1>7. ToSet(outputs) = {outputs[i] : i \in 1 .. n}
  BY <1>1, LenProperties DEF ToSet
<1>8. f[n] \in Seq(R)
  BY <1>1, <1>3
<1> QED
  BY <1>1, <1>2, <1>6, <1>7, <1>8

(* What is copied from a joined list is what is copied from the first, then *)
(* from the second: here with all or none of the second.                    *)
LEMMA FilteredJoined ==
  ASSUME NEW R, NEW s \in Seq(R), NEW t \in Seq(R), NEW a
  PROVE  /\ (\A i \in 1 .. Len(t) : t[i].parent # a) => Filtered(s \o t, a) = Filtered(s, a)
         /\ (\A i \in 1 .. Len(s) : s[i].parent # a) /\ (\A i \in 1 .. Len(t) : t[i].parent = a)
              => Filtered(s \o t, a) = t
<1>1. PICK m, n : m = Len(s) /\ n = Len(t) /\ m \in Nat /\ n \in Nat /\ m + n \in Nat
  BY LenProperties
<1>0. PICK joined : joined = s \o t
  OBVIOUS
<1>2. /\ joined \in Seq(R) /\ Len(joined) = m + n
      /\ \A k \in 1 .. m : joined[k] = s[k]
      /\ \A k \in 1 .. n : joined[m + k] = t[k]
  <2>1. joined \in Seq(R) /\ Len(joined) = m + n
        /\ \A k \in 1 .. m + n : joined[k] = IF k <= m THEN s[k] ELSE t[k - m]
    BY <1>0, <1>1, ConcatProperties
  <2>2. ASSUME NEW k \in 1 .. m PROVE joined[k] = s[k]
    <3>1. k \in 1 .. m + n /\ k <= m
      BY <1>1
    <3> QED
      BY <2>1, <3>1
  <2>3. ASSUME NEW k \in 1 .. n PROVE joined[m + k] = t[k]
    <3>1. PICK l : l = m + k
      OBVIOUS
    <3>2. l \in 1 .. m + n /\ ~(l <= m) /\ l - m = k
      BY <1>1, <3>1
    <3> QED
      BY <2>1, <3>1, <3>2
  <2> QED
    BY <2>1, <2>2, <2>3
<1>3. PICK f : /\ f \in [0 .. m -> Seq(R)] /\ FiltersTo(f, s, a) /\ Filtered(s, a) = f[m]
  BY <1>1, FilteredStepwise
<1>4. PICK g : /\ g \in [0 .. m + n -> Seq(R)] /\ FiltersTo(g, joined, a)
               /\ Filtered(joined, a) = g[m + n]
  <2>1. \E g \in [0 .. Len(joined) -> Seq(R)] :
          FiltersTo(g, joined, a) /\ Filtered(joined, a) = g[Len(joined)]
    <3>1. joined \in Seq(R)
      BY <1>2
    <3> QED
      BY <3>1, FilteredStepwise
  <2> QED
    BY <1>2, <2>1
<1>5. /\ f[0] = <<>> /\ g[0] = <<>>
      /\ \A k \in 1 .. m : f[k] = IF s[k].parent = a THEN Append(f[k - 1], s[k]) ELSE f[k - 1]
      /\ \A k \in 1 .. m + n :
           g[k] = IF joined[k].parent = a THEN Append(g[k - 1], joined[k]) ELSE g[k - 1]
  BY <1>1, <1>2, <1>3, <1>4 DEF FiltersTo
<1>6. g[m] = f[m]
  <2>1. PICK S : S = {k \in 0 .. m : g[k] = f[k]}
    OBVIOUS
  <2>2. 0 \in S
    <3>1. 0 \in 0 .. m
      BY <1>1
    <3> QED
      BY <1>5, <2>1, <3>1
  <2>3. ASSUME NEW k \in 1 .. m, k - 1 \in S PROVE k \in S
    <3>1. k \in 0 .. m /\ k \in 1 .. m + n
      BY <1>1
    <3>2. g[k - 1] = f[k - 1] /\ joined[k] = s[k]
      BY <1>2, <2>1, <2>3
    <3>3. g[k] = f[k]
      BY <1>5, <3>1, <3>2
    <3> QED
      BY <2>1, <3>1, <3>3
  <2>4. m \in 0 .. m
    BY <1>1
  <2>5. m \in S
    BY <1>1, <2>2, <2>3, <2>4, UpTo
  <2> QED
    BY <2>1, <2>5
<1>7. \A k \in 1 .. n : g[m + k] = IF t[k].parent = a THEN Append(g[m + (k - 1)], t[k]) ELSE g[m + (k - 1)]
  <2> SUFFICES ASSUME NEW k \in 1 .. n
               PROVE  g[m + k] = IF t[k].parent = a THEN Append(g[m + (k - 1)], t[k]) ELSE g[m + (k - 1)]
    OBVIOUS
  <2>1. PICK l : l = m + k
    OBVIOUS
  <2>2. l \in 1 .. m + n /\ l - 1 = m + (k - 1) /\ joined[l] = t[k]
    BY <1>1, <1>2, <2>1
  <2> QED
    BY <1>5, <2>1, <2>2
<1>8. n \in 0 .. n /\ 0 \in 0 .. n /\ m + 0 = m /\ m \in 0 .. m
  BY <1>1
<1>9. ASSUME \A i \in 1 .. n : t[i].parent # a
      PROVE  Filtered(s \o t, a) = Filtered(s, a)
  <2>1. PICK S : S = {k \in 0 .. n : g[m + k] = g[m]}
    OBVIOUS
  <2>2. 0 \in S
    BY <1>8, <2>1
  <2>3. ASSUME NEW k \in 1 .. n, k - 1 \in S PROVE k \in S
    <3>1. k \in 0 .. n
      BY <1>1
    <3>2. g[m + (k - 1)] = g[m] /\ g[m + k] = g[m + (k - 1)]
      BY <1>7, <1>9, <2>1, <2>3
    <3> QED
      BY <2>1, <3>1, <3>2
  <2>4. n \in S
    BY <1>1, <1>8, <2>2, <2>3, UpTo
  <2>5. g[m + n] = g[m]
    BY <2>1, <2>4
  <2> QED
    BY <1>0, <1>3, <1>4, <1>6, <2>5
<1>10. ASSUME \A i \in 1 .. m : s[i].parent # a, \A i \in 1 .. n : t[i].parent = a
       PROVE  Filtered(s \o t, a) = t
  <2>1. g[m] = <<>>
    <3>1. PICK S : S = {k \in 0 .. m : f[k] = <<>>}
      OBVIOUS
    <3>2. 0 \in S
      <4>1. 0 \in 0 .. m
        BY <1>1
      <4> QED
        BY <1>5, <3>1, <4>1
    <3>3. ASSUME NEW k \in 1 .. m, k - 1 \in S PROVE k \in S
      <4>1. k \in 0 .. m
        BY <1>1
      <4>2. f[k - 1] = <<>> /\ f[k] = f[k - 1]
        BY <1>5, <1>10, <3>1, <3>3
      <4> QED
        BY <3>1, <4>1, <4>2
    <3>4. m \in S
      BY <1>1, <1>8, <3>2, <3>3, UpTo
    <3> QED
      BY <1>6, <3>1, <3>4
  <2>2. PICK S : S = {k \in 0 .. n : Len(g[m + k]) = k /\ \A i \in 1 .. k : g[m + k][i] = t[i]}
    OBVIOUS
  <2>3. 0 \in S
    <3>1. Len(<<>>) = 0 /\ 1 .. 0 = {}
      OBVIOUS
    <3> QED
      BY <1>8, <2>1, <2>2, <3>1
  <2>4. \A k \in 0 .. n : g[m + k] \in Seq(R)
    <3>1. \A k \in 0 .. n : m + k \in 0 .. m + n
      BY <1>1
    <3> QED
      BY <1>4, <3>1
  <2>5. ASSUME NEW k \in 1 .. n, k - 1 \in S PROVE k \in S
    <3>1. k \in 0 .. n /\ k - 1 \in 0 .. n
      BY <1>1
    <3>2. PICK before, e : before = g[m + (k - 1)] /\ e = t[k]
      OBVIOUS
    <3>3. /\ before \in Seq(R) /\ e \in R /\ Len(before) = k - 1
          /\ \A i \in 1 .. k - 1 : before[i] = t[i]
      BY <1>1, <2>2, <2>4, <2>5, <3>1, <3>2, ElementOfSeq
    <3>4. g[m + k] = Append(before, e)
      BY <1>7, <1>10, <3>2
    <3>5. /\ Len(Append(before, e)) = Len(before) + 1
          /\ \A i \in 1 .. Len(before) : Append(before, e)[i] = before[i]
          /\ Append(before, e)[Len(before) + 1] = e
      BY <3>3, AppendProperties
    <3>6. /\ Len(before) + 1 = k
          /\ \A i \in 1 .. k : i \in 1 .. k - 1 \/ i = k
      BY <3>3
    <3>7. Len(g[m + k]) = k /\ \A i \in 1 .. k : g[m + k][i] = t[i]
      BY <3>2, <3>3, <3>4, <3>5, <3>6
    <3> QED
      BY <2>2, <3>1, <3>7
  <2>6. n \in S
    BY <1>1, <1>8, <2>3, <2>5, UpTo
  <2>7. /\ g[m + n] \in Seq(R) /\ Len(g[m + n]) = Len(t)
        /\ \A i \in 1 .. Len(t) : g[m + n][i] = t[i]
    BY <1>1, <1>8, <2>2, <2>4, <2>6
  <2>8. g[m + n] = t
    BY <2>7, SeqEqual
  <2> QED
    BY <1>0, <1>4, <2>8
<1> QED
  BY <1>1, <1>9, <1>10

(* FlattenSeq, list by list.                                                *)
LEMMA FlattenedStepwise ==
  ASSUME NEW R, NEW seqs \in Seq(Seq(R)), Len(seqs) # 0
  PROVE  \E f \in [1 .. Len(seqs) -> Seq(R)] :
           /\ \A k \in 1 .. Len(seqs) : f[k] = IF k = 1 THEN seqs[k] ELSE f[k - 1] \o seqs[k]
           /\ FlattenSeq(seqs) = f[Len(seqs)]
<1>1. PICK n : n = Len(seqs) /\ n \in Nat /\ n # 0 /\ \A k \in 1 .. n : seqs[k] \in Seq(R)
  BY LenProperties, ElementOfSeq
<1>2. PICK S : S = {k \in 0 .. n : \E f \in [1 .. k -> Seq(R)] :
                      \A i \in 1 .. k : f[i] = IF i = 1 THEN seqs[i] ELSE f[i - 1] \o seqs[i]}
  OBVIOUS
<1>3. 0 \in S
  <2>1. 0 \in 0 .. n /\ 1 .. 0 = {}
    BY <1>1
  <2>2. PICK f : f = [i \in 1 .. 0 |-> <<>>]
    OBVIOUS
  <2>3. f \in [1 .. 0 -> Seq(R)]
    BY <2>1, <2>2
  <2> QED
    BY <1>2, <2>1, <2>3
<1>4. ASSUME NEW k \in 1 .. n, k - 1 \in S PROVE k \in S
  <2>1. PICK f \in [1 .. k - 1 -> Seq(R)] :
          \A i \in 1 .. k - 1 : f[i] = IF i = 1 THEN seqs[i] ELSE f[i - 1] \o seqs[i]
    BY <1>2, <1>4
  <2>2. PICK last : last = IF k = 1 THEN seqs[k] ELSE f[k - 1] \o seqs[k]
    OBVIOUS
  <2>3. last \in Seq(R)
    <3>1. CASE k = 1
      BY <1>1, <2>2, <3>1
    <3>2. CASE k # 1
      <4>1. k - 1 \in 1 .. k - 1
        BY <1>1, <3>2
      <4>2. f[k - 1] \in Seq(R) /\ seqs[k] \in Seq(R)
        BY <1>1, <2>1, <4>1
      <4> QED
        BY <2>2, <3>2, <4>2, ConcatProperties
    <3> QED
      BY <3>1, <3>2
  <2>4. PICK g : g = [i \in 1 .. k |-> IF i = k THEN last ELSE f[i]]
    OBVIOUS
  <2>5. /\ k \in 0 .. n /\ k \in 1 .. k
        /\ \A i \in 1 .. k : i # k => i \in 1 .. k - 1 /\ (i # 1 => i - 1 \in 1 .. k - 1)
        /\ \A i \in 1 .. k : i # 1 => i - 1 \in 1 .. k /\ i - 1 # k
    BY <1>1
  <2>6. g \in [1 .. k -> Seq(R)]
    BY <2>1, <2>3, <2>4, <2>5
  <2>7. ASSUME NEW i \in 1 .. k PROVE g[i] = IF i = 1 THEN seqs[i] ELSE g[i - 1] \o seqs[i]
    <3>1. i # 1 => g[i - 1] = f[i - 1]
      BY <2>4, <2>5
    <3>2. CASE i = k
      BY <2>2, <2>4, <3>1, <3>2
    <3>3. CASE i # k
      BY <2>1, <2>4, <2>5, <3>1, <3>3
    <3> QED
      BY <3>2, <3>3
  <2> QED
    BY <1>2, <2>5, <2>6, <2>7
<1>5. n \in S
  <2>1. n \in 0 .. n
    BY <1>1
  <2> QED
    BY <1>1, <1>3, <1>4, <2>1, UpTo
<1>6. PICK f \in [1 .. n -> Seq(R)] :
        \A i \in 1 .. n : f[i] = IF i = 1 THEN seqs[i] ELSE f[i - 1] \o seqs[i]
  BY <1>2, <1>5
<1>7. f = [i \in 1 .. n |-> IF i = 1 THEN seqs[i] ELSE f[i - 1] \o seqs[i]]
  BY <1>6
<1>8. PICK g : /\ g = [i \in 1 .. n |-> IF i = 1 THEN seqs[i] ELSE g[i - 1] \o seqs[i]]
               /\ FlattenSeq(seqs) = g[n]
  BY <1>1, <1>7 DEF FlattenSeq
<1>9. \A i \in 1 .. n : g[i] = IF i = 1 THEN seqs[i] ELSE g[i - 1] \o seqs[i]
  BY <1>8
<1>10. PICK Same : Same = {0} \cup {k \in 1 .. n : g[k] = f[k]}
  OBVIOUS
<1>11. ASSUME NEW k \in 1 .. n, k - 1 \in Same PROVE k \in Same
  <2>1. k # 1 => k - 1 # 0
    OBVIOUS
  <2>2. k # 1 => g[k - 1] = f[k - 1]
    BY <1>10, <1>11, <2>1
  <2>3. g[k] = f[k]
    BY <1>6, <1>9, <2>2
  <2> QED
    BY <1>10, <2>3
<1>12. n \in 0 .. n /\ n \in 1 .. n
  BY <1>1
<1>13. g[n] = f[n]
  <2>1. 0 \in Same
    BY <1>10
  <2>2. n \in Same
    BY <1>1, <1>11, <1>12, <2>1, UpTo
  <2> QED
    BY <1>1, <1>10, <2>2
<1> QED
  BY <1>1, <1>6, <1>8, <1>13

(* One more list.                                                           *)
LEMMA FlattenedAppend ==
  ASSUME NEW R, NEW seqs \in Seq(Seq(R)), NEW last \in Seq(R)
  PROVE  FlattenSeq(Append(seqs, last)) = FlattenSeq(seqs) \o last
<1>1. PICK n : n = Len(seqs) /\ n \in Nat
  BY LenProperties
<1>2. PICK more : more = Append(seqs, last)
  OBVIOUS
<1>3. /\ more \in Seq(Seq(R)) /\ Len(more) = n + 1 /\ more[n + 1] = last
      /\ \A k \in 1 .. n : more[k] = seqs[k]
  BY <1>1, <1>2, AppendProperties
<1>4. PICK g \in [1 .. n + 1 -> Seq(R)] :
        /\ \A k \in 1 .. n + 1 : g[k] = IF k = 1 THEN more[k] ELSE g[k - 1] \o more[k]
        /\ FlattenSeq(more) = g[n + 1]
  <2>1. Len(more) # 0
    BY <1>1, <1>3
  <2>2. \E g \in [1 .. Len(more) -> Seq(R)] :
          /\ \A k \in 1 .. Len(more) : g[k] = IF k = 1 THEN more[k] ELSE g[k - 1] \o more[k]
          /\ FlattenSeq(more) = g[Len(more)]
    BY <1>3, <2>1, FlattenedStepwise
  <2> QED
    BY <1>3, <2>2
<1>5. CASE n = 0
  <2>1. FlattenSeq(seqs) = seqs /\ seqs = <<>>
    BY <1>1, <1>5, EmptySeq DEF FlattenSeq
  <2>2. FlattenSeq(more) = last
    BY <1>3, <1>4, <1>5
  <2> QED
    BY <1>2, <2>1, <2>2, ConcatEmptySeq
<1>6. CASE n # 0
  <2>1. PICK f \in [1 .. n -> Seq(R)] :
          /\ \A k \in 1 .. n : f[k] = IF k = 1 THEN seqs[k] ELSE f[k - 1] \o seqs[k]
          /\ FlattenSeq(seqs) = f[n]
    BY <1>1, <1>6, FlattenedStepwise
  <2>2. PICK Same : Same = {0} \cup {k \in 1 .. n : g[k] = f[k]}
    OBVIOUS
  <2>3. ASSUME NEW k \in 1 .. n, k - 1 \in Same PROVE k \in Same
    <3>1. (k # 1 => k - 1 # 0) /\ k \in 1 .. n + 1
      BY <1>1
    <3>2. k # 1 => g[k - 1] = f[k - 1]
      BY <2>2, <2>3, <3>1
    <3>3. /\ f[k] = IF k = 1 THEN seqs[k] ELSE f[k - 1] \o seqs[k]
          /\ g[k] = IF k = 1 THEN more[k] ELSE g[k - 1] \o more[k]
          /\ more[k] = seqs[k]
      BY <1>3, <1>4, <2>1, <3>1
    <3>4. g[k] = f[k]
      BY <3>2, <3>3
    <3> QED
      BY <2>2, <3>4
  <2>4. n \in 0 .. n /\ n \in 1 .. n /\ n + 1 \in 1 .. n + 1 /\ n + 1 # 1 /\ n + 1 - 1 = n
    BY <1>1, <1>6
  <2>5. 0 \in Same
    BY <2>2
  <2>6. n \in Same
    BY <1>1, <2>3, <2>4, <2>5, UpTo
  <2>7. g[n] = f[n]
    BY <1>6, <2>2, <2>6
  <2>8. g[n + 1] = g[n] \o last
    <3>1. PICK k : k = n + 1
      OBVIOUS
    <3>2. k \in 1 .. n + 1 /\ k # 1 /\ k - 1 = n
      BY <2>4, <3>1
    <3>3. g[k] = g[k - 1] \o more[k]
      BY <1>4, <3>2
    <3> QED
      BY <1>3, <3>1, <3>2, <3>3
  <2> QED
    BY <1>2, <1>4, <2>1, <2>7, <2>8
<1> QED
  BY <1>5, <1>6
-----------------------------------------------------------------------------
(* AdapterRegistry: the lists agree *)

\* GetDisplayConfig of a registry with these adapters and outputs.
Config(adapters, outputs) ==
  FlattenSeq([n \in DOMAIN adapters |-> Filtered(outputs, adapters[n])])

(* One more adapter, with its outputs after those of the others.            *)
LEMMA ConfigGrows ==
  ASSUME NEW A, NEW adapters \in Seq(A), NEW new \in A, new \notin ToSet(adapters),
         NEW R, NEW outputs \in Seq(R), NEW added \in Seq(R),
         \A i \in 1 .. Len(outputs) : outputs[i].parent \in ToSet(adapters),
         \A i \in 1 .. Len(added) : added[i].parent = new,
         Config(adapters, outputs) = outputs
  PROVE  Config(Append(adapters, new), outputs \o added) = outputs \o added
<1>1. PICK n, more, all : n = Len(adapters) /\ more = Append(adapters, new) /\ all = outputs \o added
  OBVIOUS
<1>2. /\ n \in Nat /\ DOMAIN adapters = 1 .. n
      /\ DOMAIN more = 1 .. n + 1 /\ more[n + 1] = new
      /\ \A k \in 1 .. n : more[k] = adapters[k] /\ adapters[k] \in ToSet(adapters)
  <2>1. n \in Nat /\ DOMAIN adapters = 1 .. n
    BY <1>1, LenProperties
  <2>2. /\ DOMAIN more = 1 .. n + 1 /\ more[n + 1] = new
        /\ \A k \in 1 .. n : more[k] = adapters[k]
    <3>1. /\ Append(adapters, new) \in Seq(A) /\ Len(Append(adapters, new)) = n + 1
          /\ \A k \in 1 .. n : Append(adapters, new)[k] = adapters[k]
          /\ Append(adapters, new)[n + 1] = new
      BY <1>1, AppendProperties
    <3> QED
      BY <1>1, <3>1, LenProperties
  <2>3. \A k \in 1 .. n : adapters[k] \in ToSet(adapters)
    BY <2>1 DEF ToSet
  <2> QED
    BY <2>1, <2>2, <2>3
<1>3. /\ \A k \in 1 .. n : Filtered(all, more[k]) = Filtered(outputs, adapters[k])
      /\ Filtered(all, new) = added
  <2>1. ASSUME NEW k \in 1 .. n PROVE Filtered(all, more[k]) = Filtered(outputs, adapters[k])
    <3>1. more[k] = adapters[k] /\ adapters[k] # new
      BY <1>2
    <3>2. \A i \in 1 .. Len(added) : added[i].parent # adapters[k]
      BY <3>1
    <3>3. Filtered(outputs \o added, adapters[k]) = Filtered(outputs, adapters[k])
      BY <3>2, FilteredJoined
    <3> QED
      BY <1>1, <3>1, <3>3
  <2>2. Filtered(all, new) = added
    <3>1. \A i \in 1 .. Len(outputs) : outputs[i].parent # new
      OBVIOUS
    <3>2. \A i \in 1 .. Len(added) : added[i].parent = new
      OBVIOUS
    <3>3. Filtered(outputs \o added, new) = added
      BY <3>1, <3>2, FilteredJoined
    <3> QED
      BY <1>1, <3>3
  <2> QED
    BY <2>1, <2>2
<1>4. PICK seqs : seqs = [k \in 1 .. n |-> Filtered(outputs, adapters[k])]
  OBVIOUS
<1>5. seqs \in Seq(Seq(R)) /\ Len(seqs) = n
  <2>1. \A k \in 1 .. n : Filtered(outputs, adapters[k]) \in Seq(R)
    BY FilteredElements
  <2> QED
    BY <1>2, <1>4, <2>1
<1>6. PICK grown : grown = [k \in 1 .. n + 1 |-> Filtered(all, more[k])]
  OBVIOUS
<1>7. grown = Append(seqs, added)
  <2>1. \A k \in 1 .. n + 1 : grown[k] = IF k = n + 1 THEN added ELSE seqs[k]
    <3>1. \A k \in 1 .. n + 1 : k = n + 1 \/ k \in 1 .. n
      BY <1>2
    <3>2. n + 1 \in 1 .. n + 1 /\ \A k \in 1 .. n : k \in 1 .. n + 1 /\ k # n + 1
      BY <1>2
    <3>3. \A k \in 1 .. n : grown[k] = seqs[k]
      BY <1>3, <1>4, <1>6, <3>2
    <3>4. grown[n + 1] = added
      BY <1>2, <1>3, <1>6, <3>2
    <3> QED
      BY <3>1, <3>2, <3>3, <3>4
  <2>2. \A k \in 1 .. n + 1 : grown[k] \in Seq(R)
    <3>1. \A k \in 1 .. n + 1 : k # n + 1 => k \in 1 .. n
      BY <1>2
    <3> QED
      BY <1>2, <1>5, <2>1, <3>1, ElementOfSeq
  <2>3. grown \in Seq(Seq(R)) /\ Len(grown) = n + 1
    BY <1>2, <1>6, <2>2
  <2>4. /\ Append(seqs, added) \in Seq(Seq(R)) /\ Len(Append(seqs, added)) = n + 1
        /\ \A k \in 1 .. n : Append(seqs, added)[k] = seqs[k]
        /\ Append(seqs, added)[n + 1] = added
    BY <1>5, AppendProperties
  <2>5. \A k \in 1 .. n + 1 : grown[k] = Append(seqs, added)[k]
    <3>1. \A k \in 1 .. n + 1 : k # n + 1 => k \in 1 .. n
      BY <1>2
    <3> QED
      BY <2>1, <2>4, <3>1
  <2> QED
    BY <2>3, <2>4, <2>5, SeqEqual
<1>8. FlattenSeq(seqs) = outputs /\ FlattenSeq(grown) = outputs \o added
  <2>1. FlattenSeq(seqs) = outputs
    BY <1>2, <1>4 DEF Config
  <2> QED
    BY <1>5, <1>7, <2>1, FlattenedAppend
<1> QED
  BY <1>1, <1>2, <1>6, <1>8 DEF Config

(* The configuration of the displays is that of the list of outputs, in its *)
(* order, while the registry is filled.                                     *)
LEMMA ConfigInOrder == RegistrySpec => [](GetDisplayConfig = m_nvapiOutputs)
<1> DEFINE InOrder == Config(m_nvapiAdapters, m_nvapiOutputs) = m_nvapiOutputs
<1>1. RegistryInit => InOrder
  <2> SUFFICES ASSUME RegistryInit PROVE InOrder
    OBVIOUS
  <2>1. m_nvapiAdapters = <<>> /\ m_nvapiOutputs = <<>>
    BY DEF RegistryInit, EmptyRegistry
  <2>2. PICK seqs : seqs = [n \in {} |-> Filtered(m_nvapiOutputs, m_nvapiAdapters[n])]
    OBVIOUS
  <2>3. DOMAIN <<>> = {} /\ seqs = <<>>
    BY <2>2
  <2>4. FlattenSeq(seqs) = <<>>
    BY <2>3 DEF FlattenSeq
  <2> QED
    BY <2>1, <2>2, <2>3, <2>4 DEF Config
<1>2. ASSUME RegistryInv, InOrder, [RegistryNext]_registryVars PROVE InOrder'
  <2>1. CASE UNCHANGED <<m_nvapiAdapters, m_nvapiOutputs>>
    BY <1>2, <2>1
  <2>2. CASE /\ EnumAdapter
             /\ m_nvapiAdapters' = Append(m_nvapiAdapters, index + 1)
             /\ m_nvapiOutputs' = m_nvapiOutputs \o Outputs(index + 1)
    <3> DEFINE new == index + 1
    <3>1. /\ index \in Nat /\ new \in 1 .. Len(dxgiAdapters) /\ Len(dxgiAdapters) \in Nat
          /\ dxgiAdapters[new].outputs \in 0 .. IdsPerAdapter - 2
      <4>1. index \in Nat /\ new \in 1 .. Len(dxgiAdapters) /\ Len(dxgiAdapters) \in Nat
        BY <1>2, <2>2 DEF RegistryInv, ReportedOK, EnumAdapter
      <4> QED
        BY <1>2, <4>1, AdapterFields DEF RegistryInv
    <3>2. PICK added : added = Outputs(new)
      OBVIOUS
    <3>3. PICK l : l = dxgiAdapters[new].outputs
      OBVIOUS
    <3>4. l \in Nat
      BY <3>1, <3>3, IdsPerAdapterTyped
    <3>5. added = [k \in 1 .. l |-> Output(new, k - 1)]
      BY <3>2, <3>3 DEF Outputs
    <3>6. \A a, j : Output(a, j).parent = a
      BY DEF Output
    <3> HIDE DEF new
    <3>7. \A k \in 1 .. l : added[k].parent = new
      BY <3>5, <3>6
    <3>8. PICK R : R = {m_nvapiOutputs[k] : k \in 1 .. Len(m_nvapiOutputs)} \cup {added[k] : k \in 1 .. l}
      OBVIOUS
    <3>9. added \in Seq(R) /\ Len(added) = l
      <4>1. \A k \in 1 .. l : added[k] \in R
        BY <3>8
      <4> QED
        BY <3>4, <3>5, <4>1
    <3>10. m_nvapiOutputs \in Seq(R)
      <4>1. \A k \in 1 .. Len(m_nvapiOutputs) : m_nvapiOutputs[k] \in R
        BY <3>8
      <4>2. /\ Len(m_nvapiOutputs) \in Nat
            /\ m_nvapiOutputs = [n \in 1 .. Len(m_nvapiOutputs) |-> m_nvapiOutputs[n]]
        BY <1>2 DEF RegistryInv, OutputsOK
      <4> QED
        BY <4>1, <4>2
    <3>11. \A k \in 1 .. Len(m_nvapiOutputs) : m_nvapiOutputs[k].parent \in ToSet(m_nvapiAdapters)
      BY <1>2, <3>6 DEF RegistryInv, OutputsOK, HasOutput
    <3>12. m_nvapiAdapters \in Seq(1 .. index)
      BY <1>2 DEF RegistryInv, AdaptersOK
    <3>13. new \notin ToSet(m_nvapiAdapters)
      BY <3>1, <3>12, LenProperties, ElementOfSeq DEF ToSet, new
    <3>14. m_nvapiAdapters \in Seq(1 .. new) /\ new \in 1 .. new
      <4>1. 1 .. index \subseteq 1 .. new /\ new \in 1 .. new
        BY <3>1 DEF new
      <4> QED
        BY <3>12, <4>1, SeqMonotonic
    <3>15. Config(Append(m_nvapiAdapters, new), m_nvapiOutputs \o added) = m_nvapiOutputs \o added
      <4>1. \A k \in 1 .. Len(added) : added[k].parent = new
        BY <3>7, <3>9
      <4>2. Config(m_nvapiAdapters, m_nvapiOutputs) = m_nvapiOutputs
        BY <1>2
      <4>3. PICK A : A = 1 .. new
        OBVIOUS
      <4>4. m_nvapiAdapters \in Seq(A) /\ new \in A
        BY <3>14, <4>3
      <4>5. added \in Seq(R)
        BY <3>9
      <4> HIDE DEF InOrder
      <4> QED
        BY <3>10, <3>11, <3>13, <4>1, <4>2, <4>4, <4>5, ConfigGrows
    <3> QED
      BY <2>2, <3>2, <3>15 DEF new
  <2> QED
    BY <1>2, <2>1, <2>2 DEF RegistryNext, Unavailable, EnumAdapter, EndOfAdapters, registryVars
<1>3. InOrder <=> GetDisplayConfig = m_nvapiOutputs
  BY DEF Config, GetDisplayConfig, OutputsOf
<1> QED
  BY <1>1, <1>2, <1>3, RegistryInvariant, PTL DEF RegistrySpec

(* The ids listed for a GPU are those of its displays and of no others.     *)
LEMMA ConnectedAreItsOwn ==
  ASSUME RegistryInv, NEW n \in Displays, NEW a \in Gpus
  PROVE  m_nvapiOutputs[n].id \in ToSet(GetConnectedDisplayIds(a)) <=> m_nvapiOutputs[n].parent = a
<1>1. PICK R : R = {m_nvapiOutputs[k] : k \in 1 .. Len(m_nvapiOutputs)}
  OBVIOUS
<1>2. /\ m_nvapiOutputs \in Seq(R) /\ Displays = 1 .. Len(m_nvapiOutputs)
      /\ ToSet(m_nvapiOutputs) = R
  <2>1. /\ Len(m_nvapiOutputs) \in Nat
        /\ m_nvapiOutputs = [k \in 1 .. Len(m_nvapiOutputs) |-> m_nvapiOutputs[k]]
    BY DEF RegistryInv, OutputsOK
  <2>2. DOMAIN m_nvapiOutputs = 1 .. Len(m_nvapiOutputs)
    BY <2>1
  <2>3. \A k \in 1 .. Len(m_nvapiOutputs) : m_nvapiOutputs[k] \in R
    BY <1>1
  <2>4. m_nvapiOutputs \in Seq(R)
    BY <2>1, <2>3
  <2>5. ToSet(m_nvapiOutputs) = R
    BY <1>1, <2>2 DEF ToSet
  <2> QED
    BY <2>4, <2>5 DEF Displays
<1>3. PICK own : own = OutputsOf(a)
  OBVIOUS
<1>4. ToSet(own) = {o \in R : o.parent = a}
  BY <1>2, <1>3, FilteredElements DEF OutputsOf
<1>5. \A id : id \in ToSet(GetConnectedDisplayIds(a)) <=> \E o \in ToSet(own) : id = o.id
  BY <1>3 DEF GetConnectedDisplayIds, ToSet
<1>6. \A m \in Displays : m_nvapiOutputs[m].id = m_nvapiOutputs[n].id => m = n
  BY OutputPlaces
<1> QED
  BY <1>1, <1>2, <1>4, <1>5, <1>6, SMTT(30)

(* For any adapters DXGI may report: NvAPI_DISP_GetDisplayConfig goes       *)
(* through the displays in the order of NvAPI_EnumNvidiaDisplayHandle, each *)
(* once, and NvAPI_GPU_GetConnectedDisplayIds lists a display exactly for   *)
(* the GPU it is connected to.                                              *)
THEOREM ListsAgree == RegistrySpec => []DisplayListsAgree
<1>1. RegistryInv /\ GetDisplayConfig = m_nvapiOutputs => DisplayListsAgree
  BY ConnectedAreItsOwn DEF DisplayListsAgree
<1> QED
  BY <1>1, RegistryInvariant, ConfigInOrder, PTL
-----------------------------------------------------------------------------
(* DrsSettings: what words and entries mean *)

\* The numbers of settings and of values, the entries of a list, and the maps read from it.
Dword == 0 .. MaxDword
Entries == [equals : BOOLEAN, key : Word, value : Word]
DwordMap == UNION {[S -> Dword] : S \in SUBSET Dword}

(* A map is known by its settings and their values.                         *)
LEMMA DwordMaps ==
  ASSUME NEW map
  PROVE  map \in DwordMap <=> /\ map = [id \in DOMAIN map |-> map[id]]
                              /\ DOMAIN map \subseteq Dword
                              /\ \A id \in DOMAIN map : map[id] \in Dword
  BY DEF DwordMap

(* A word with a name has no number, and one with neither is empty.         *)
LEMMA FormsOfWords ==
  ASSUME NEW word \in Word
  PROVE  /\ word.number \in Nat \cup {NotANumber}
         /\ word.name = NoName \/ word.number = NotANumber
<1>1. CASE word = EmptyWord
  BY <1>1 DEF EmptyWord
<1>2. CASE word \in [name : STRING, number : {NotANumber}]
  BY <1>2
<1>3. CASE word \in [name : {NoName}, number : Nat]
  BY <1>3
<1> QED
  BY <1>1, <1>2, <1>3 DEF Word

(* A value of a setting is understood exactly when the word means one.      *)
LEMMA WordsMean ==
  ASSUME NEW id, NEW word \in Word
  PROVE  /\ parsedrsdwordvalue(id, word) \in Dword \cup {NoDword} /\ NoDword \notin Dword
         /\ \A v : Means(id, word, v) <=> v = parsedrsdwordvalue(id, word) /\ v # NoDword
<1>1. /\ word.number \in Nat \cup {NotANumber} /\ (word.name = NoName \/ word.number = NotANumber)
      /\ MaxDword \in Nat /\ NoDword = -1 /\ NotANumber = -1
  BY FormsOfWords, SettingsAssumption DEF NoDword, NotANumber
<1>2. /\ word.number \in 0 .. MaxDword => parsedword(word) = word.number
      /\ word.number \notin 0 .. MaxDword => parsedword(word) = NoDword
  BY <1>1 DEF parsedword
<1>3. NoDword \notin Dword
  BY <1>1 DEF Dword
<1>4. CASE id \in DOMAIN SettingValues /\ word.name \in DOMAIN SettingValues[id]
  <2>1. SettingValues[id][word.name] \in Dword
    BY <1>4, SettingsAssumption DEF Dword
  <2>2. word.name # NoName
    BY <1>4, SettingsAssumption
  <2>3. word.number \notin 0 .. MaxDword
    BY <1>1, <2>2
  <2> QED
    BY <1>3, <1>4, <2>1, <2>3 DEF Means, parsedrsdwordvalue
<1>5. CASE ~(id \in DOMAIN SettingValues /\ word.name \in DOMAIN SettingValues[id])
  <2>1. parsedrsdwordvalue(id, word) = parsedword(word)
    BY <1>5 DEF parsedrsdwordvalue
  <2>2. \A v : Means(id, word, v) <=> word.number \in 0 .. MaxDword /\ v = word.number
    BY <1>5 DEF Means
  <2> QED
    BY <1>2, <1>3, <2>1, <2>2 DEF Dword
<1> QED
  BY <1>4, <1>5

(* A setting is understood exactly when the word is its name or its number. *)
LEMMA WordsName ==
  ASSUME NEW word \in Word
  PROVE  /\ parsedrssetting(word) \in Dword \cup {NoDword}
         /\ \A id \in Dword : parsedrssetting(word) = id <=>
              \/ word.number = id
              \/ \E n \in DOMAIN SettingIds : n = word.name /\ SettingIds[n] = id
<1>1. /\ word.number \in Nat \cup {NotANumber} /\ (word.name = NoName \/ word.number = NotANumber)
      /\ MaxDword \in Nat /\ NoDword = -1 /\ NotANumber = -1
  BY FormsOfWords, SettingsAssumption DEF NoDword, NotANumber
<1>2. CASE word.name \in DOMAIN SettingIds
  <2>1. SettingIds[word.name] \in Dword
    BY <1>2, SettingsAssumption DEF Dword
  <2>2. word.name # NoName
    BY <1>2, SettingsAssumption
  <2>3. \A id \in Dword : word.number # id
    BY <1>1, <2>2 DEF Dword
  <2> QED
    BY <1>2, <2>1, <2>3 DEF parsedrssetting
<1>3. CASE word.name \notin DOMAIN SettingIds
  <2>1. parsedrssetting(word) = IF word.number <= MaxDword THEN word.number ELSE NoDword
    BY <1>3 DEF parsedrssetting, parsedword
  <2>2. \A id \in Dword : IF word.number <= MaxDword THEN word.number = id <=> word.number = id
                                                     ELSE NoDword # id /\ word.number # id
    BY <1>1 DEF Dword
  <2>3. parsedrssetting(word) \in Dword \cup {NoDword}
    BY <1>1, <2>1 DEF Dword
  <2> QED
    BY <1>3, <2>1, <2>2, <2>3
<1> QED
  BY <1>2, <1>3

(* An empty word names and means nothing.                                   *)
LEMMA EmptyWords ==
  /\ parsedrssetting(EmptyWord) = NoDword
  /\ \A id : parsedrsdwordvalue(id, EmptyWord) = NoDword
<1>1. /\ EmptyWord.name = NoName /\ EmptyWord.number = -1 /\ NotANumber = -1 /\ NoDword = -1
      /\ MaxDword \in Nat
  BY SettingsAssumption DEF EmptyWord, NotANumber, NoDword
<1>2. parsedword(EmptyWord) = NoDword
  BY <1>1 DEF parsedword
<1> QED
  BY <1>1, <1>2, SettingsAssumption DEF parsedrssetting, parsedrsdwordvalue

(* An entry of the list sets the setting it names to the value it means,    *)
(* and leaves the others as they are.                                       *)
LEMMA EntrySets ==
  ASSUME NEW map \in DwordMap, NEW entry \in Entries, NEW id \in Dword
  PROVE  /\ WithEntry(map, entry) \in DwordMap
         /\ \A v : Sets(entry, id, v) => /\ id \in DOMAIN WithEntry(map, entry)
                                         /\ v = WithEntry(map, entry)[id]
                                         /\ v \in Dword
         /\ \/ /\ id \in DOMAIN WithEntry(map, entry)
               /\ Sets(entry, id, WithEntry(map, entry)[id])
            \/ /\ \A v : ~Sets(entry, id, v)
               /\ id \in DOMAIN WithEntry(map, entry) <=> id \in DOMAIN map
               /\ id \in DOMAIN map => WithEntry(map, entry)[id] = map[id]
<1>1. PICK key, value, after : /\ key = parsedrssetting(entry.key)
                               /\ value = parsedrsdwordvalue(key, entry.value)
                               /\ after = WithEntry(map, entry)
  OBVIOUS
<1>2. /\ entry.equals \in BOOLEAN /\ entry.key \in Word /\ entry.value \in Word
      /\ NoDword \notin Dword
  BY WordsMean, EmptyWords DEF Entries
<1>3. /\ key \in Dword \cup {NoDword}
      /\ key = id <=> \/ entry.key.number = id
                      \/ \E n \in DOMAIN SettingIds : n = entry.key.name /\ SettingIds[n] = id
  BY <1>1, <1>2, WordsName
<1>4. /\ value \in Dword \cup {NoDword}
      /\ \A v : Means(key, entry.value, v) <=> v = value /\ v # NoDword
  BY <1>1, <1>2, WordsMean
<1>5. \A v : Sets(entry, id, v) <=> entry.equals /\ key = id /\ v = value /\ v # NoDword
  <2>1. \A v : Sets(entry, id, v) <=> entry.equals /\ key = id /\ Means(id, entry.value, v)
    BY <1>3 DEF Sets
  <2> QED
    BY <1>4, <2>1
<1>6. after = IF ~entry.equals \/ key = NoDword \/ value = NoDword THEN map
              ELSE With(map, [i \in {key} |-> value])
  <2>1. /\ entry.key = EmptyWord => key = NoDword
        /\ entry.value = EmptyWord => value = NoDword
    BY <1>1, EmptyWords
  <2> QED
    BY <1>1, <2>1 DEF WithEntry
<1>7. CASE ~entry.equals \/ key = NoDword \/ value = NoDword
  BY <1>1, <1>2, <1>5, <1>6, <1>7
<1>8. CASE ~(~entry.equals \/ key = NoDword \/ value = NoDword)
  <2>1. key \in Dword /\ value \in Dword
    BY <1>3, <1>4, <1>8
  <2>2. PICK one : one = [i \in {key} |-> value]
    OBVIOUS
  <2>3. after = [i \in DOMAIN map \cup {key} |-> IF i \in {key} THEN one[i] ELSE map[i]]
    BY <1>6, <1>8, <2>2 DEF With
  <2>4. /\ DOMAIN after = DOMAIN map \cup {key} /\ after[key] = value
        /\ \A i \in DOMAIN map : i # key => after[i] = map[i]
        /\ after = [i \in DOMAIN after |-> after[i]]
    BY <2>2, <2>3
  <2>5. /\ DOMAIN map \subseteq Dword /\ \A i \in DOMAIN map : map[i] \in Dword
    BY DwordMaps
  <2>6. after \in DwordMap
    <3>1. \A i \in DOMAIN after : after[i] \in Dword
      BY <2>1, <2>4, <2>5
    <3> QED
      BY <2>1, <2>4, <2>5, <3>1, DwordMaps
  <2> QED
    BY <1>1, <1>2, <1>5, <1>8, <2>1, <2>4, <2>6
<1> QED
  BY <1>7, <1>8

(* What the list sets, entry by entry.                                      *)
LEMMA ParsedStepwise ==
  ASSUME NEW list \in Seq(Entries)
  PROVE  \E f \in [0 .. Len(list) -> DwordMap] :
           /\ f[0] = <<>> /\ parsedrsdwordsettings(list) = f[Len(list)]
           /\ \A k \in 1 .. Len(list) : f[k] = WithEntry(f[k - 1], list[k])
<1>0. PICK n : n = Len(list)
  OBVIOUS
<1>1. /\ n \in Nat /\ DOMAIN list = 1 .. n /\ \A k \in 1 .. n : list[k] \in Entries
  BY <1>0, LenProperties, ElementOfSeq
<1>2. /\ <<>> \in DwordMap
      /\ \A map \in DwordMap, k \in 1 .. n : WithEntry(map, list[k]) \in DwordMap
  <2>1. <<>> \in DwordMap
    <3>1. DOMAIN <<>> = {} /\ <<>> = [id \in {} |-> <<>>[id]]
      OBVIOUS
    <3> QED
      BY <3>1, DwordMaps
  <2>2. 0 \in Dword
    BY SettingsAssumption DEF Dword
  <2>3. \A map \in DwordMap, k \in 1 .. n : WithEntry(map, list[k]) \in DwordMap
    BY <1>1, <2>2, EntrySets
  <2> QED
    BY <2>1, <2>3
<1>3. PICK step : step = [map \in DwordMap |-> [k \in 1 .. n |-> WithEntry(map, list[k])]]
  OBVIOUS
<1>4. step \in [DwordMap -> [1 .. n -> DwordMap]]
  BY <1>2, <1>3
<1>5. PICK f \in [SUBSET (1 .. n) -> DwordMap] : FoldsTo(f, n, <<>>, step)
  BY <1>1, <1>2, <1>4, FoldExists
<1>6. f = [s \in SUBSET (1 .. n) |-> IF s = {} THEN <<>> ELSE WithEntry(f[s \ {Max(s)}], list[Max(s)])]
  <2> SUFFICES ASSUME NEW s \in SUBSET (1 .. n), s # {}
               PROVE  f[s] = WithEntry(f[s \ {Max(s)}], list[Max(s)])
    BY <1>5 DEF FoldsTo
  <2>1. Max(s) \in 1 .. n
    BY <1>1, LastIndex
  <2>2. f[s] = step[f[s \ {Max(s)}]][Max(s)] /\ f[s \ {Max(s)}] \in DwordMap
    BY <1>5 DEF FoldsTo
  <2> QED
    BY <1>3, <2>1, <2>2
<1>7. PICK g :
        /\ g = [s \in SUBSET (1 .. n) |-> IF s = {} THEN <<>> ELSE WithEntry(g[s \ {Max(s)}], list[Max(s)])]
        /\ parsedrsdwordsettings(list) = g[1 .. n]
  BY <1>1, <1>6 DEF parsedrsdwordsettings, FoldLeft, MapThenFoldSet
<1>8. g[{}] = <<>> /\ \A k \in 1 .. n : g[1 .. k] = WithEntry(g[1 .. k - 1], list[k])
  <2>1. g[{}] = <<>>
    BY <1>7
  <2>2. ASSUME NEW k \in 1 .. n PROVE g[1 .. k] = WithEntry(g[1 .. k - 1], list[k])
    BY <1>1, <1>7, FirstIndices
  <2> QED
    BY <2>1, <2>2
<1>9. PICK h : h = [k \in 0 .. n |-> g[1 .. k]]
  OBVIOUS
<1>10. /\ h[0] = <<>> /\ h[n] = parsedrsdwordsettings(list)
       /\ \A k \in 1 .. n : h[k] = WithEntry(h[k - 1], list[k])
  <2>1. 0 \in 0 .. n /\ n \in 0 .. n /\ 1 .. 0 = {}
    BY <1>1
  <2>2. \A k \in 1 .. n : k \in 0 .. n /\ k - 1 \in 0 .. n
    BY <1>1
  <2> QED
    BY <1>7, <1>8, <1>9, <2>1, <2>2
<1>11. \A k \in 0 .. n : h[k] \in DwordMap
  <2>1. PICK S : S = {k \in 0 .. n : h[k] \in DwordMap}
    OBVIOUS
  <2>2. 0 \in 0 .. n
    BY <1>1
  <2>3. 0 \in S
    BY <1>2, <1>10, <2>1, <2>2
  <2>4. ASSUME NEW k \in 1 .. n, k - 1 \in S PROVE k \in S
    <3>1. k \in 0 .. n
      BY <1>1
    <3>2. h[k - 1] \in DwordMap
      BY <2>1, <2>4
    <3>3. h[k] \in DwordMap
      BY <1>2, <1>10, <3>2
    <3> QED
      BY <2>1, <3>1, <3>3
  <2> QED
    <3>1. \A k \in 0 .. n : k \in S
      BY <1>1, <2>3, <2>4, UpTo
    <3> QED
      BY <2>1, <3>1
<1>12. h \in [0 .. n -> DwordMap]
  BY <1>9, <1>11
<1> QED
  BY <1>0, <1>10, <1>12

\* The entry is the last among the first ones of the list that sets the setting.
LastToSet(list, id, i, first) ==
  \A j \in i + 1 .. first : \A v : ~Sets(list[j], id, v)

(* A setting has the value the last entry for it means, and none if no      *)
(* entry sets it.                                                           *)
LEMMA LastEntryCounts ==
  ASSUME NEW list \in Seq(Entries), NEW id \in Dword
  PROVE  /\ parsedrsdwordsettings(list) \in DwordMap
         /\ id \in DOMAIN parsedrsdwordsettings(list) =>
              \E i \in DOMAIN list : /\ Sets(list[i], id, parsedrsdwordsettings(list)[id])
                                     /\ LastToSet(list, id, i, Len(list))
         /\ id \notin DOMAIN parsedrsdwordsettings(list) =>
              \A i \in DOMAIN list : \A v : ~Sets(list[i], id, v)
<1> DEFINE SetBy(map, k) ==
      /\ id \in DOMAIN map => \E i \in 1 .. k : Sets(list[i], id, map[id]) /\ LastToSet(list, id, i, k)
      /\ id \notin DOMAIN map => \A i \in 1 .. k : \A v : ~Sets(list[i], id, v)
<1>1. PICK n : n = Len(list) /\ n \in Nat /\ DOMAIN list = 1 .. n /\ \A k \in 1 .. n : list[k] \in Entries
  BY LenProperties, ElementOfSeq
<1>2. PICK f \in [0 .. n -> DwordMap] :
        /\ f[0] = <<>> /\ parsedrsdwordsettings(list) = f[n]
        /\ \A k \in 1 .. n : f[k] = WithEntry(f[k - 1], list[k])
  BY <1>1, ParsedStepwise
<1>3. PICK S : S = {k \in 0 .. n : SetBy(f[k], k)}
  OBVIOUS
<1>4. 0 \in 0 .. n /\ n \in 0 .. n
  BY <1>1
<1>5. 0 \in S
  <2>1. DOMAIN f[0] = {} /\ 1 .. 0 = {}
    BY <1>2
  <2> QED
    BY <1>3, <1>4, <2>1
<1>6. ASSUME NEW k \in 1 .. n, k - 1 \in S PROVE k \in S
  <2>1. PICK l : l = k - 1
    OBVIOUS
  <2>2. /\ k \in 0 .. n /\ l \in 0 .. n /\ k = l + 1 /\ k \in 1 .. k
        /\ k + 1 .. k = {} /\ \A i : i \in 1 .. k <=> i \in 1 .. l \/ i = k
        /\ \A i \in 1 .. l : \A j \in i + 1 .. k : j \in i + 1 .. l \/ j = k
    BY <1>1, <2>1
  <2>3. SetBy(f[l], l)
    BY <1>3, <1>6, <2>1
  <2>4. PICK before, after, entry : before = f[l] /\ after = f[k] /\ entry = list[k]
    OBVIOUS
  <2>5. before \in DwordMap /\ entry \in Entries /\ after = WithEntry(before, entry)
    BY <1>1, <1>2, <2>1, <2>2, <2>4
  <2>6. \/ id \in DOMAIN after /\ Sets(entry, id, after[id])
        \/ /\ \A v : ~Sets(entry, id, v)
           /\ id \in DOMAIN after <=> id \in DOMAIN before
           /\ id \in DOMAIN before => after[id] = before[id]
    BY <2>5, EntrySets
  <2>7. CASE id \in DOMAIN after /\ Sets(entry, id, after[id])
    <3>1. LastToSet(list, id, k, k)
      BY <2>2 DEF LastToSet
    <3>2. SetBy(after, k)
      BY <2>2, <2>4, <2>7, <3>1
    <3> QED
      BY <1>3, <2>2, <2>4, <3>2
  <2>8. CASE /\ \A v : ~Sets(entry, id, v)
             /\ id \in DOMAIN after <=> id \in DOMAIN before
             /\ id \in DOMAIN before => after[id] = before[id]
    <3>1. ASSUME id \in DOMAIN after
          PROVE  \E i \in 1 .. k : Sets(list[i], id, after[id]) /\ LastToSet(list, id, i, k)
      <4>1. PICK i \in 1 .. l : Sets(list[i], id, before[id]) /\ LastToSet(list, id, i, l)
        BY <2>3, <2>4, <2>8, <3>1
      <4>2. LastToSet(list, id, i, k)
        BY <2>2, <2>4, <2>8, <4>1 DEF LastToSet
      <4> QED
        BY <2>2, <2>8, <3>1, <4>1, <4>2
    <3>2. ASSUME id \notin DOMAIN after
          PROVE  \A i \in 1 .. k : \A v : ~Sets(list[i], id, v)
      BY <2>2, <2>3, <2>4, <2>8, <3>2
    <3>3. SetBy(after, k)
      BY <3>1, <3>2
    <3> QED
      BY <1>3, <2>2, <2>4, <3>3
  <2> QED
    BY <2>6, <2>7, <2>8
<1>7. SetBy(f[n], n)
  <2> HIDE DEF SetBy
  <2>1. n \in S
    BY <1>1, <1>4, <1>5, <1>6, UpTo
  <2> QED
    BY <1>3, <2>1
<1> QED
  BY <1>1, <1>2, <1>4, <1>7

\* Whether the setting's own variable says what its value is.
Own(dedicated, id, v) ==
  \E n \in DOMAIN SettingIds : SettingIds[n] = id /\ Means(id, dedicated[n], v)

(* What is read from the settings' own variables is what they say.          *)
LEMMA DedicatedCount ==
  ASSUME NEW dedicated \in [DOMAIN SettingIds -> Word], NEW id \in Dword
  PROVE  /\ FromDedicated(dedicated) \in DwordMap
         /\ id \in DOMAIN FromDedicated(dedicated) <=> \E v : Own(dedicated, id, v)
         /\ \A v : Own(dedicated, id, v) <=> /\ id \in DOMAIN FromDedicated(dedicated)
                                             /\ v = FromDedicated(dedicated)[id]
<1> DEFINE named == {n \in DOMAIN SettingIds :
                       /\ dedicated[n] # EmptyWord
                       /\ parsedrsdwordvalue(SettingIds[n], dedicated[n]) # NoDword}
           Name(i) == CHOOSE n \in named : SettingIds[n] = i
<1>1. PICK map, ids : map = FromDedicated(dedicated) /\ ids = {SettingIds[n] : n \in named}
  OBVIOUS
<1>2. map = [i \in ids |-> parsedrsdwordvalue(i, dedicated[Name(i)])]
  BY <1>1 DEF FromDedicated
<1>3. \A n : n \in named <=> /\ n \in DOMAIN SettingIds
                             /\ parsedrsdwordvalue(SettingIds[n], dedicated[n]) # NoDword
  BY EmptyWords
<1> HIDE DEF named
<1>4. \A n \in named : Name(SettingIds[n]) = n
  BY <1>3, SettingsAssumption
<1>5. \A n \in named : SettingIds[n] \in ids /\ map[SettingIds[n]] = parsedrsdwordvalue(SettingIds[n], dedicated[n])
  <2> HIDE DEF Name
  <2> QED
    BY <1>1, <1>2, <1>4
<1>6. \A i \in ids : \E n \in named : i = SettingIds[n]
  BY <1>1
<1>7. DOMAIN map = ids /\ map = [i \in DOMAIN map |-> map[i]]
  BY <1>2
<1>8. \A n \in DOMAIN SettingIds : SettingIds[n] \in Dword /\ dedicated[n] \in Word
  BY SettingsAssumption DEF Dword
<1>9. map \in DwordMap
  <2>1. ids \subseteq Dword
    BY <1>3, <1>6, <1>8
  <2>2. \A i \in ids : map[i] \in Dword
    <3> SUFFICES ASSUME NEW n \in named PROVE map[SettingIds[n]] \in Dword
      BY <1>6
    <3> QED
      BY <1>3, <1>5, <1>8, WordsMean
  <2> QED
    BY <1>7, <2>1, <2>2, DwordMaps
<1>10. \A v : Own(dedicated, id, v) <=> id \in DOMAIN map /\ v = map[id]
  <2> SUFFICES ASSUME NEW v PROVE Own(dedicated, id, v) <=> id \in ids /\ v = map[id]
    BY <1>7
  <2>1. ASSUME NEW n \in DOMAIN SettingIds
        PROVE  Means(SettingIds[n], dedicated[n], v) <=> n \in named /\ v = map[SettingIds[n]]
    BY <1>3, <1>5, <1>8, WordsMean
  <2>2. Own(dedicated, id, v) <=> \E n \in named : SettingIds[n] = id /\ v = map[SettingIds[n]]
    BY <1>3, <2>1 DEF Own
  <2> QED
    BY <1>5, <1>6, <2>2
<1> QED
  BY <1>1, <1>9, <1>10

-----------------------------------------------------------------------------
(* DrsSettings: the answers *)

\* The values of the two statics once they are initialised.
StringSet(list) == list \in Seq(Entries) /\ nvapiDrsSettingsString = [list |-> list]

DwordsSet ==
  \E list : /\ StringSet(list)
            /\ enrichedFrom \in [DOMAIN SettingIds -> Word]
            /\ nvapiDrsDwords = [map |-> enrichwithenv(parsedrsdwordsettings(list), enrichedFrom)]

EnvironmentOK ==
  /\ environment.list \in Seq(Entries)
  /\ environment.dedicated \in [DOMAIN SettingIds -> Word]

\* The settings' own variables that have been read, each with a word.
EnrichedOK ==
  /\ DOMAIN enrichedFrom \subseteq DOMAIN SettingIds
  /\ enrichedFrom = [n \in DOMAIN enrichedFrom |-> enrichedFrom[n]]
  /\ \A n \in DOMAIN enrichedFrom : enrichedFrom[n] \in Word

\* A call that initialises a static finds it unset.
InitialisingOK(ask) ==
  \/ /\ ask.at = "measured" /\ DOMAIN ask = {"at", "id", "name", "measured"}
     /\ ask.name = TheList /\ ask.measured \in Seq(Entries)
     /\ nvapiDrsSettingsString = Unset
  \/ /\ ask.at = "measured" /\ DOMAIN ask = {"at", "id", "name", "measured"}
     /\ ask.name \in DOMAIN SettingIds /\ ask.measured \in Word
     /\ nvapiDrsDwords = Unset /\ \E list : StringSet(list)
  \/ /\ ask.at = "enrich" /\ DOMAIN ask = {"at", "id"}
     /\ nvapiDrsDwords = Unset /\ \E list : StringSet(list)

\* A call that is past the definition of a static finds it set.
CallOK(ask) ==
  \/ ask = NotAsking
  \/ /\ ask.id \in Dword
     /\ \/ ask.at = "string" /\ DOMAIN ask = {"at", "id"}
        \/ ask.at = "dwords" /\ DOMAIN ask = {"at", "id"} /\ \E list : StringSet(list)
        \/ ask.at = "find" /\ DOMAIN ask = {"at", "id"} /\ DwordsSet
        \/ InitialisingOK(ask)
        \/ /\ ask.at = "answered" /\ DOMAIN ask = {"at", "id", "value"} /\ DwordsSet
           /\ ask.value = IF ask.id \in DOMAIN nvapiDrsDwords.map
                            THEN nvapiDrsDwords.map[ask.id] ELSE NoDword

(* Each static is unset or as its initialisation leaves it, one thread at  *)
(* most is initialising one, and the calls find the statics as they should *)
(* be where they are.                                                      *)
DrsInv ==
  /\ EnvironmentOK
  /\ EnrichedOK
  /\ nvapiDrsSettingsString = Unset \/ \E list : StringSet(list)
  /\ nvapiDrsDwords = Unset \/ DwordsSet
  /\ DOMAIN asking = DrsThreads
  /\ \A t \in DrsThreads : CallOK(asking[t])
  /\ \A t, u \in DrsThreads : Initialises(t) /\ Initialises(u) => t = u

(* A static that is set is not unset.                                       *)
LEMMA SetIsNotUnset ==
  /\ \A list : [list |-> list] # Unset
  /\ \A map : [map |-> map] # Unset
<1>1. \A list : DOMAIN [list |-> list] = {"list"}
  OBVIOUS
<1>2. \A map : DOMAIN [map |-> map] = {"map"}
  OBVIOUS
<1>3. DOMAIN Unset = {"unset"}
  BY DEF Unset
<1> QED
  BY <1>1, <1>2, <1>3

(* What the statics say of a setting is what the environment configured.    *)
LEMMA AnswerAsConfigured ==
  ASSUME NEW list \in Seq(Entries), NEW dedicated \in [DOMAIN SettingIds -> Word],
         NEW id \in Dword, NEW map, map = enrichwithenv(parsedrsdwordsettings(list), dedicated)
  PROVE  ConfiguredAs(list, dedicated, id, IF id \in DOMAIN map THEN map[id] ELSE NoDword)
<1> DEFINE value == IF id \in DOMAIN map THEN map[id] ELSE NoDword
           Values == {v \in Dword : Own(dedicated, id, v) \/ \E i \in DOMAIN list : Sets(list[i], id, v)}
<1>1. PICK listed, own, n : /\ listed = parsedrsdwordsettings(list) /\ own = FromDedicated(dedicated)
                            /\ n = Len(list)
  OBVIOUS
<1>2. map = [i \in DOMAIN listed \cup DOMAIN own |-> IF i \in DOMAIN own THEN own[i] ELSE listed[i]]
  BY <1>1 DEF enrichwithenv, With
<1>3. /\ own \in DwordMap
      /\ \A v : Own(dedicated, id, v) <=> id \in DOMAIN own /\ v = own[id]
  BY <1>1, DedicatedCount
<1>4. /\ listed \in DwordMap
      /\ id \in DOMAIN listed =>
           \E i \in DOMAIN list : Sets(list[i], id, listed[id]) /\ LastToSet(list, id, i, n)
      /\ id \notin DOMAIN listed => \A i \in DOMAIN list : \A v : ~Sets(list[i], id, v)
  BY <1>1, LastEntryCounts
<1>5. /\ id \in DOMAIN own => own[id] \in Dword
      /\ id \in DOMAIN listed => listed[id] \in Dword
  BY <1>3, <1>4, DwordMaps
<1>6. value = IF id \in DOMAIN own THEN own[id]
              ELSE IF id \in DOMAIN listed THEN listed[id] ELSE NoDword
  BY <1>2
<1> HIDE DEF value
<1>7. ConfiguredAs(list, dedicated, id, value) <=>
        IF \E v \in Values : Own(dedicated, id, v) THEN Own(dedicated, id, value)
        ELSE IF Values = {} THEN value = NoDword
        ELSE \E i \in DOMAIN list :
               /\ Sets(list[i], id, value)
               /\ \A j \in i + 1 .. Len(list) : ~\E v \in Values : Sets(list[j], id, v)
  BY DEF ConfiguredAs, Own, Dword
<1>8. ASSUME id \in DOMAIN own
      PROVE  ConfiguredAs(list, dedicated, id, value)
  <2>1. own[id] \in Values /\ Own(dedicated, id, own[id])
    BY <1>3, <1>5, <1>8
  <2> QED
    BY <1>6, <1>7, <1>8, <2>1
<1>9. ASSUME id \notin DOMAIN own, id \in DOMAIN listed
      PROVE  ConfiguredAs(list, dedicated, id, value)
  <2>1. \A v : ~Own(dedicated, id, v)
    BY <1>3, <1>9
  <2>2. PICK i \in DOMAIN list : Sets(list[i], id, listed[id]) /\ LastToSet(list, id, i, n)
    BY <1>4, <1>9
  <2>3. listed[id] \in Values
    BY <1>5, <1>9, <2>2
  <2>4. \A j \in i + 1 .. n : ~\E v \in Values : Sets(list[j], id, v)
    BY <2>2 DEF LastToSet
  <2> HIDE DEF Values
  <2> QED
    BY <1>1, <1>6, <1>7, <1>9, <2>1, <2>2, <2>3, <2>4
<1>10. ASSUME id \notin DOMAIN own, id \notin DOMAIN listed
      PROVE  ConfiguredAs(list, dedicated, id, value)
  <2>1. Values = {}
    BY <1>3, <1>4, <1>10
  <2> HIDE DEF Values
  <2> QED
    BY <1>6, <1>7, <1>10, <2>1
<1> QED
  BY <1>8, <1>9, <1>10 DEF value

LEMMA InitDrs == DrsInit => DrsInv
<1> SUFFICES ASSUME DrsInit PROVE DrsInv
  OBVIOUS
<1>1. EnvironmentOK
  BY EnvironmentsAssumption DEF DrsInit, EnvironmentOK, Entries
<1>2. EnrichedOK
  BY DEF DrsInit, FreshProcess, EnrichedOK
<1>3. DOMAIN asking = DrsThreads /\ \A t \in DrsThreads : asking[t] = NotAsking
  BY DEF DrsInit, FreshProcess
<1>4. \A t \in DrsThreads : ~Initialises(t)
  BY <1>3 DEF Initialises, NotAsking
<1> QED
  BY <1>1, <1>2, <1>3, <1>4 DEF DrsInit, FreshProcess, DrsInv, CallOK

(* A step of a thread keeps the invariant if it leaves the statics as the  *)
(* invariant wants them, if what is set stays, and if the thread begins to *)
(* initialise one only when nobody does.                                   *)
LEMMA StepOfOne ==
  ASSUME DrsInv, NEW t \in DrsThreads, NEW ask,
         asking' = [asking EXCEPT ![t] = ask], EnvironmentOK', EnrichedOK',
         (nvapiDrsSettingsString = Unset \/ \E list : StringSet(list))',
         (nvapiDrsDwords = Unset \/ DwordsSet)',
         (\E list : StringSet(list)) => UNCHANGED nvapiDrsSettingsString,
         DwordsSet => UNCHANGED <<nvapiDrsDwords, enrichedFrom>>,
         Initialises(t) \/ UNCHANGED <<nvapiDrsSettingsString, nvapiDrsDwords>>,
         CallOK(ask)',
         ask.at \in {"measured", "enrich"} => Initialises(t) \/ NobodyInitialises
  PROVE  DrsInv'
<1>1. /\ DOMAIN asking' = DrsThreads /\ asking'[t] = ask
      /\ \A u \in DrsThreads \ {t} : asking'[u] = asking[u]
  BY DEF DrsInv
<1>2. (\E list : StringSet(list)) => (\E list : StringSet(list))'
  BY DEF StringSet
<1>3. DwordsSet => DwordsSet'
  <2> SUFFICES ASSUME DwordsSet PROVE DwordsSet'
    OBVIOUS
  <2>1. \E list : StringSet(list)
    BY DEF DwordsSet
  <2> QED
    BY <2>1 DEF DwordsSet, StringSet
<1>4. ASSUME NEW u \in DrsThreads, u # t
      PROVE  CallOK(asking[u])'
  <2>1. CallOK(asking[u]) /\ asking'[u] = asking[u]
    BY <1>1, <1>4 DEF DrsInv
  <2>2. CASE Initialises(u)
    <3>1. UNCHANGED <<nvapiDrsSettingsString, nvapiDrsDwords>>
      BY <1>4, <2>2 DEF DrsInv
    <3> QED
      BY <1>2, <2>1, <2>2, <3>1 DEF CallOK, InitialisingOK, Initialises, NotAsking
  <2>3. CASE ~Initialises(u)
    <3>1. DwordsSet => UNCHANGED nvapiDrsDwords
      OBVIOUS
    <3> QED
      BY <1>2, <1>3, <2>1, <2>3, <3>1 DEF CallOK, InitialisingOK, Initialises
  <2> QED
    BY <2>2, <2>3
<1>5. \A u \in DrsThreads \ {t} : Initialises(u)' <=> Initialises(u)
  BY <1>1 DEF Initialises
<1>6. Initialises(t)' => Initialises(t) \/ NobodyInitialises
  BY <1>1 DEF Initialises
<1>7. \A u, v \in DrsThreads : Initialises(u)' /\ Initialises(v)' => u = v
  BY <1>5, <1>6 DEF DrsInv, NobodyInitialises
<1>8. CallOK(asking[t])'
  BY <1>1
<1> QED
  BY <1>1, <1>4, <1>7, <1>8 DEF DrsInv

(* A thread that is in a ask, and what the invariant says of it.          *)
LEMMA CallsOfThreads ==
  ASSUME DrsInv, NEW t \in DrsThreads
  PROVE  /\ CallOK(asking[t])
         /\ asking[t].at # "idle" => asking[t].id \in Dword
         /\ asking[t].at \in {"string", "dwords", "enrich", "find"} => DOMAIN asking[t] = {"at", "id"}
         /\ asking[t].at \in {"dwords", "enrich"} => \E list : StringSet(list)
         /\ asking[t].at = "find" => DwordsSet
         /\ asking[t].at \in {"measured", "enrich"} => InitialisingOK(asking[t])
<1>1. CallOK(asking[t])
  BY DEF DrsInv
<1> QED
  BY <1>1 DEF CallOK, InitialisingOK, NotAsking

(* The thread goes on to another place of its call.                        *)
LEMMA Reaching ==
  ASSUME DrsInv, NEW t \in DrsThreads, NEW at, Reach(t, at), DOMAIN asking[t] = {"at", "id"}
  PROVE  asking' = [asking EXCEPT ![t] = [at |-> at, id |-> asking[t].id]]
<1>1. asking' = [asking EXCEPT ![t] = [asking[t] EXCEPT !.at = at]]
  BY DEF Reach
<1>2. [asking[t] EXCEPT !.at = at] = [at |-> at, id |-> asking[t].id]
  <2>1. PICK f : f = asking[t]
    OBVIOUS
  <2>2. DOMAIN f = {"at", "id"}
    BY <2>1
  <2>3. [f EXCEPT !.at = at] = [i \in {"at", "id"} |-> IF i = "at" THEN at ELSE f[i]]
    BY <2>2
  <2>4. [i \in {"at", "id"} |-> IF i = "at" THEN at ELSE f[i]] = [at |-> at, id |-> f.id]
    OBVIOUS
  <2> QED
    BY <2>1, <2>3, <2>4
<1> QED
  BY <1>1, <1>2

(* What a variable says has the form of its text, and so has what is read. *)
LEMMA ValuesOfVariables ==
  ASSUME EnvironmentOK
  PROVE  /\ Value(TheList) \in Seq(Entries)
         /\ \A measured \in Seq(Entries) : Readings(TheList, measured) \subseteq Seq(Entries)
         /\ \A n \in DOMAIN SettingIds :
              /\ n # TheList
              /\ Value(n) \in Word
              /\ \A measured \in Word : Readings(n, measured) \subseteq Word
<1>1. TheList \notin DOMAIN SettingIds
  BY SettingsAssumption DEF TheList
<1>2. Missing(TheList) \in Seq(Entries)
  BY DEF Missing
<1>3. \A n \in DOMAIN SettingIds : Missing(n) \in Word
  <2>1. EmptyWord \in Word
    BY DEF Word
  <2> QED
    BY <1>1, <2>1 DEF Missing
<1>4. Value(TheList) \in Seq(Entries)
  BY DEF Value, EnvironmentOK
<1>5. \A n \in DOMAIN SettingIds : Value(n) \in Word
  BY <1>1 DEF Value, EnvironmentOK
<1> QED
  BY <1>1, <1>2, <1>3, <1>4, <1>5 DEF Readings

LEMMA DrsStep == DrsInv /\ [DrsNext]_drsVars => DrsInv'
<1> SUFFICES ASSUME DrsInv, [DrsNext]_drsVars PROVE DrsInv'
  OBVIOUS
<1>0. /\ EnvironmentOK /\ EnrichedOK /\ DOMAIN asking = DrsThreads
      /\ nvapiDrsSettingsString = Unset \/ \E list : StringSet(list)
      /\ nvapiDrsDwords = Unset \/ DwordsSet
  BY DEF DrsInv
<1>1. CASE UNCHANGED drsVars
  BY <1>1 DEF DrsInv, drsVars, EnvironmentOK, EnrichedOK, StringSet, DwordsSet, CallOK,
              InitialisingOK, Initialises
<1>2. CASE ChangeEnvironment
  <2>1. EnvironmentOK'
    BY <1>2, EnvironmentsAssumption DEF ChangeEnvironment, EnvironmentOK, Entries
  <2>2. UNCHANGED <<nvapiDrsSettingsString, nvapiDrsDwords, enrichedFrom, asking>>
    BY <1>2 DEF ChangeEnvironment
  <2> QED
    BY <2>1, <2>2 DEF DrsInv, EnrichedOK, StringSet, DwordsSet, CallOK, InitialisingOK, Initialises
<1>3. ASSUME UNCHANGED <<environment, nvapiDrsSettingsString, nvapiDrsDwords, enrichedFrom>>
      PROVE  /\ EnvironmentOK' /\ EnrichedOK'
             /\ (nvapiDrsSettingsString = Unset \/ \E list : StringSet(list))'
             /\ (nvapiDrsDwords = Unset \/ DwordsSet)'
             /\ (\E list : StringSet(list)) => (\E list : StringSet(list))'
             /\ DwordsSet => DwordsSet'
  BY <1>0, <1>3 DEF EnvironmentOK, EnrichedOK, StringSet, DwordsSet
<1>4. ASSUME NEW t \in DrsThreads, NEW ask, asking' = [asking EXCEPT ![t] = ask],
             UNCHANGED <<environment, nvapiDrsSettingsString, nvapiDrsDwords, enrichedFrom>>,
             CallOK(ask)', ask.at \in {"measured", "enrich"} => Initialises(t) \/ NobodyInitialises
      PROVE  DrsInv'
  BY <1>3, <1>4, StepOfOne
<1>5. ASSUME NEW t \in DrsThreads, NEW id \in AskedIds, GetSetting(t, id) PROVE DrsInv'
  <2>1. id \in Dword
    BY AskedIdsAssumption DEF Dword
  <2>2. CallOK([at |-> "string", id |-> id])'
    BY <2>1 DEF CallOK
  <2> QED
    BY <1>4, <1>5, <2>2 DEF GetSetting
<1>6. ASSUME NEW t \in DrsThreads, MeasureString(t) PROVE DrsInv'
  <2>1. PICK ask : ask = [at |-> "measured", id |-> asking[t].id, name |-> TheList,
                            measured |-> Value(TheList)]
    OBVIOUS
  <2>2. /\ asking' = [asking EXCEPT ![t] = ask] /\ asking[t].id \in Dword
        /\ nvapiDrsSettingsString' = Unset
    BY <1>6, <2>1, CallsOfThreads DEF MeasureString, Measure
  <2>3. Value(TheList) \in Seq(Entries)
    BY <1>0, ValuesOfVariables
  <2>4. /\ DOMAIN ask = {"at", "id", "name", "measured"} /\ ask.at = "measured"
        /\ ask.id \in Dword /\ ask.name = TheList /\ ask.measured \in Seq(Entries)
    BY <2>1, <2>2, <2>3
  <2>5. CallOK(ask)'
    BY <2>2, <2>4 DEF CallOK, InitialisingOK
  <2> QED
    BY <1>4, <1>6, <2>2, <2>5 DEF MeasureString
<1>7. ASSUME NEW t \in DrsThreads, PassString(t) PROVE DrsInv'
  <2>1. /\ asking[t].at = "string" /\ DOMAIN asking[t] = {"at", "id"} /\ asking[t].id \in Dword
        /\ Reach(t, "dwords") /\ \E list : StringSet(list)
    BY <1>0, <1>7, CallsOfThreads DEF PassString
  <2>2. asking' = [asking EXCEPT ![t] = [at |-> "dwords", id |-> asking[t].id]]
    BY <2>1, Reaching
  <2>3. UNCHANGED <<environment, nvapiDrsSettingsString, nvapiDrsDwords, enrichedFrom>>
    BY <1>7 DEF PassString
  <2>4. CallOK([at |-> "dwords", id |-> asking[t].id])'
    <3>1. (\E list : StringSet(list))'
      BY <1>3, <2>1, <2>3
    <3>2. asking[t].id \in Dword
      BY <2>1
    <3> QED
      BY <1>7, <3>1, <3>2, <2>2 DEF CallOK
  <2> QED
    BY <1>4, <2>2, <2>3, <2>4
<1>8. ASSUME NEW t \in DrsThreads, StartEnriching(t) PROVE DrsInv'
  <2>1. /\ asking[t].at = "dwords" /\ DOMAIN asking[t] = {"at", "id"} /\ asking[t].id \in Dword
        /\ Reach(t, "enrich") /\ \E list : StringSet(list)
    BY <1>8, CallsOfThreads DEF StartEnriching
  <2>2. asking' = [asking EXCEPT ![t] = [at |-> "enrich", id |-> asking[t].id]]
    BY <2>1, Reaching
  <2>3. /\ UNCHANGED <<environment, nvapiDrsSettingsString, nvapiDrsDwords, enrichedFrom>>
        /\ nvapiDrsDwords' = Unset /\ NobodyInitialises
    BY <1>8 DEF StartEnriching
  <2>4. PICK ask : ask = [at |-> "enrich", id |-> asking[t].id]
    OBVIOUS
  <2>5. CallOK(ask)'
    <3>1. (\E list : StringSet(list))'
      BY <1>3, <2>1, <2>3
    <3>2. ask.id \in Dword /\ ask.at = "enrich" /\ DOMAIN ask = {"at", "id"}
      BY <2>1, <2>4
    <3> QED
      BY <2>3, <3>1, <3>2 DEF CallOK, InitialisingOK
  <2> QED
    BY <1>4, <2>2, <2>3, <2>4, <2>5
<1>9. ASSUME NEW t \in DrsThreads, NEW name \in DOMAIN SettingIds, MeasureVariable(t, name)
      PROVE  DrsInv'
  <2>1. PICK ask : ask = [at |-> "measured", id |-> asking[t].id, name |-> name,
                            measured |-> Value(name)]
    OBVIOUS
  <2>2. /\ asking' = [asking EXCEPT ![t] = ask] /\ asking[t].id \in Dword
        /\ InitialisingOK(asking[t]) /\ asking[t].at = "enrich"
        /\ UNCHANGED <<environment, nvapiDrsSettingsString, nvapiDrsDwords, enrichedFrom>>
    BY <1>9, <2>1, CallsOfThreads DEF MeasureVariable, Measure
  <2>3. Value(name) \in Word
    BY <1>0, ValuesOfVariables
  <2>4. /\ DOMAIN ask = {"at", "id", "name", "measured"} /\ ask.at = "measured"
        /\ ask.id \in Dword /\ ask.name \in DOMAIN SettingIds /\ ask.measured \in Word
    BY <2>1, <2>2, <2>3
  <2>5. nvapiDrsDwords' = Unset /\ (\E list : StringSet(list))'
    BY <1>3, <2>2 DEF InitialisingOK
  <2>6. CallOK(ask)'
    BY <2>4, <2>5 DEF CallOK, InitialisingOK
  <2>7. Initialises(t)
    BY <2>2 DEF Initialises
  <2> QED
    BY <1>4, <2>2, <2>6, <2>7
<1>10. ASSUME NEW t \in DrsThreads, InitString(t) PROVE DrsInv'
  <2>1. /\ asking[t].at = "measured" /\ asking[t].name = TheList /\ asking[t].id \in Dword
        /\ InitialisingOK(asking[t]) /\ Initialises(t)
    BY <1>10, CallsOfThreads DEF InitString, Initialises
  <2>2. asking[t].measured \in Seq(Entries) /\ nvapiDrsSettingsString = Unset
    BY <1>0, <2>1, ValuesOfVariables DEF InitialisingOK
  <2>3. PICK list \in Readings(TheList, asking[t].measured) : nvapiDrsSettingsString' = [list |-> list]
    BY <1>10 DEF InitString
  <2>4. list \in Seq(Entries)
    BY <1>0, <2>2, <2>3, ValuesOfVariables
  <2>5. (\E l : StringSet(l))'
    BY <2>3, <2>4 DEF StringSet
  <2>6. ~(\E l : StringSet(l)) /\ ~DwordsSet
    BY <2>2, SetIsNotUnset DEF StringSet, DwordsSet
  <2>7. UNCHANGED <<environment, nvapiDrsDwords, enrichedFrom>>
    BY <1>10 DEF InitString
  <2>8. EnvironmentOK' /\ EnrichedOK' /\ (nvapiDrsDwords = Unset \/ DwordsSet)'
    BY <1>0, <2>6, <2>7 DEF EnvironmentOK, EnrichedOK
  <2>9. PICK ask : ask = [at |-> "dwords", id |-> asking[t].id]
    OBVIOUS
  <2>10. CallOK(ask)' /\ ask.at = "dwords"
    BY <2>1, <2>5, <2>9 DEF CallOK
  <2>11. asking' = [asking EXCEPT ![t] = ask]
    BY <1>10, <2>9 DEF InitString
  <2> QED
    BY <2>1, <2>5, <2>6, <2>8, <2>10, <2>11, StepOfOne
<1>11. ASSUME NEW t \in DrsThreads, ReadVariable(t) PROVE DrsInv'
  <2>1. /\ asking[t].at = "measured" /\ asking[t].name # TheList /\ asking[t].id \in Dword
        /\ InitialisingOK(asking[t]) /\ Initialises(t)
    BY <1>11, CallsOfThreads DEF ReadVariable, Initialises
  <2>2. /\ asking[t].name \in DOMAIN SettingIds /\ asking[t].measured \in Word
        /\ nvapiDrsDwords = Unset /\ \E list : StringSet(list)
    BY <2>1 DEF InitialisingOK
  <2>3. PICK word \in Readings(asking[t].name, asking[t].measured) :
          enrichedFrom' = With(enrichedFrom, [n \in {asking[t].name} |-> word])
    BY <1>11 DEF ReadVariable
  <2>4. word \in Word
    BY <1>0, <2>2, <2>3, ValuesOfVariables
  <2>5. UNCHANGED <<environment, nvapiDrsSettingsString, nvapiDrsDwords>>
    BY <1>11 DEF ReadVariable
  <2>6. EnrichedOK'
    <3>1. PICK name : name = asking[t].name /\ name \in DOMAIN SettingIds
      BY <2>2
    <3>2. enrichedFrom' = [n \in DOMAIN enrichedFrom \cup {name} |->
                             IF n \in {name} THEN word ELSE enrichedFrom[n]]
      BY <2>3, <3>1 DEF With
    <3>3. DOMAIN enrichedFrom' = DOMAIN enrichedFrom \cup {name}
      BY <3>2
    <3>4. \A n \in DOMAIN enrichedFrom' : enrichedFrom'[n] \in Word
      BY <1>0, <2>4, <3>2 DEF EnrichedOK
    <3>5. enrichedFrom' = [n \in DOMAIN enrichedFrom' |-> enrichedFrom'[n]]
      BY <3>2
    <3> QED
      BY <1>0, <3>1, <3>3, <3>4, <3>5 DEF EnrichedOK
  <2>7. ~DwordsSet
    BY <2>2, SetIsNotUnset DEF DwordsSet
  <2>8. (\E list : StringSet(list))' /\ nvapiDrsDwords' = Unset /\ EnvironmentOK'
    BY <1>0, <2>2, <2>5 DEF StringSet, EnvironmentOK
  <2>9. PICK ask : ask = [at |-> "enrich", id |-> asking[t].id]
    OBVIOUS
  <2>10. ask.id \in Dword /\ ask.at = "enrich" /\ DOMAIN ask = {"at", "id"}
    BY <2>1, <2>9
  <2>11. CallOK(ask)'
    BY <2>8, <2>10 DEF CallOK, InitialisingOK
  <2>12. asking' = [asking EXCEPT ![t] = ask]
    BY <1>11, <2>9 DEF ReadVariable
  <2> QED
    BY <2>1, <2>5, <2>6, <2>7, <2>8, <2>11, <2>12, StepOfOne
<1>12. ASSUME NEW t \in DrsThreads, InitDwords(t) PROVE DrsInv'
  <2>1. /\ asking[t].at = "enrich" /\ DOMAIN asking[t] = {"at", "id"} /\ asking[t].id \in Dword
        /\ Reach(t, "find") /\ InitialisingOK(asking[t]) /\ Initialises(t)
    BY <1>12, CallsOfThreads DEF InitDwords, Initialises
  <2>2. asking' = [asking EXCEPT ![t] = [at |-> "find", id |-> asking[t].id]]
    BY <2>1, Reaching
  <2>3. nvapiDrsDwords = Unset /\ \E list : StringSet(list)
    BY <2>1 DEF InitialisingOK
  <2>4. PICK list : StringSet(list)
    BY <2>3
  <2>5. nvapiDrsSettingsString.list = list
    BY <2>4 DEF StringSet
  <2>6. /\ UNCHANGED <<environment, nvapiDrsSettingsString, enrichedFrom>>
        /\ nvapiDrsDwords' = [map |-> enrichwithenv(parsedrsdwordsettings(list), enrichedFrom)]
        /\ DOMAIN enrichedFrom = DOMAIN SettingIds
    BY <1>12, <2>5 DEF InitDwords
  <2>7. enrichedFrom \in [DOMAIN SettingIds -> Word]
    BY <1>0, <2>6 DEF EnrichedOK
  <2>8. DwordsSet'
    BY <2>4, <2>6, <2>7 DEF DwordsSet, StringSet
  <2>9. ~DwordsSet
    BY <2>3, SetIsNotUnset DEF DwordsSet
  <2>10. EnvironmentOK' /\ EnrichedOK' /\ (\E l : StringSet(l))'
    BY <1>0, <2>3, <2>6 DEF EnvironmentOK, EnrichedOK, StringSet
  <2>11. PICK ask : ask = [at |-> "find", id |-> asking[t].id]
    OBVIOUS
  <2>12. CallOK(ask)' /\ ask.at = "find"
    BY <2>1, <2>8, <2>11 DEF CallOK
  <2> QED
    BY <2>1, <2>2, <2>6, <2>8, <2>9, <2>10, <2>11, <2>12, StepOfOne
<1>13. ASSUME NEW t \in DrsThreads, PassDwords(t) PROVE DrsInv'
  <2>1. /\ asking[t].at = "dwords" /\ DOMAIN asking[t] = {"at", "id"} /\ asking[t].id \in Dword
        /\ Reach(t, "find") /\ DwordsSet
    BY <1>0, <1>13, CallsOfThreads DEF PassDwords
  <2>2. PICK ask : ask = [at |-> "find", id |-> asking[t].id]
    OBVIOUS
  <2>3. asking' = [asking EXCEPT ![t] = ask]
    BY <2>1, <2>2, Reaching
  <2>4. UNCHANGED <<environment, nvapiDrsSettingsString, nvapiDrsDwords, enrichedFrom>>
    BY <1>13 DEF PassDwords
  <2>5. DwordsSet'
    BY <1>3, <2>1, <2>4
  <2>6. CallOK(ask)' /\ ask.at = "find"
    BY <2>1, <2>2, <2>5 DEF CallOK
  <2> QED
    BY <1>4, <2>3, <2>4, <2>6
<1>14. ASSUME NEW t \in DrsThreads, Find(t) PROVE DrsInv'
  <2>1. PICK value : value = IF asking[t].id \in DOMAIN nvapiDrsDwords.map
                               THEN nvapiDrsDwords.map[asking[t].id] ELSE NoDword
    OBVIOUS
  <2>2. PICK ask : ask = [at |-> "answered", id |-> asking[t].id, value |-> value]
    OBVIOUS
  <2>3. /\ DwordsSet /\ asking[t].id \in Dword
    BY <1>14, CallsOfThreads DEF Find
  <2>4. asking' = [asking EXCEPT ![t] = ask]
    BY <1>14, <2>1, <2>2 DEF Find
  <2>5. UNCHANGED <<environment, nvapiDrsSettingsString, nvapiDrsDwords, enrichedFrom>>
    BY <1>14 DEF Find
  <2>6. DwordsSet'
    BY <1>3, <2>3, <2>5
  <2>7. /\ ask.at = "answered" /\ DOMAIN ask = {"at", "id", "value"} /\ ask.id = asking[t].id
        /\ ask.value = IF ask.id \in DOMAIN nvapiDrsDwords'.map
                         THEN nvapiDrsDwords'.map[ask.id] ELSE NoDword
    BY <2>1, <2>2, <2>5
  <2>8. CallOK(ask)'
    BY <2>3, <2>6, <2>7 DEF CallOK
  <2> QED
    BY <1>4, <2>4, <2>5, <2>7, <2>8
<1>15. ASSUME NEW t \in DrsThreads, ReturnSetting(t) PROVE DrsInv'
  <2>1. CallOK(NotAsking)' /\ NotAsking.at = "idle"
    BY DEF CallOK, NotAsking
  <2> QED
    BY <1>4, <1>15, <2>1 DEF ReturnSetting
<1> QED
  BY <1>1, <1>2, <1>5, <1>6, <1>7, <1>8, <1>9, <1>10, <1>11, <1>12, <1>13, <1>14, <1>15 DEF DrsNext

LEMMA DrsInvariant == DrsSpec => []DrsInv
  BY InitDrs, DrsStep, PTL DEF DrsSpec

(* For any settings, environments and threads: every call of                *)
(* NvAPI_DRS_GetSetting answers with what the variables configured as they  *)
(* were read when the settings were first asked for - a setting's own       *)
(* variable before the list, a later entry of the list before an earlier    *)
(* one (util_drs.cpp, and the statics of NvAPI_DRS_GetSetting) -, however   *)
(* the environment changes while they are read.                             *)
THEOREM SettingsConfigured == DrsSpec => []SettingAsConfigured
<1>1. DrsInv => SettingAsConfigured
  <2> SUFFICES ASSUME DrsInv, NEW t \in DrsThreads, asking[t].at = "answered"
               PROVE  ConfiguredAs(nvapiDrsSettingsString.list, enrichedFrom, asking[t].id, asking[t].value)
    BY DEF SettingAsConfigured
  <2>1. /\ asking[t].id \in Dword /\ DwordsSet
        /\ asking[t].value = IF asking[t].id \in DOMAIN nvapiDrsDwords.map
                               THEN nvapiDrsDwords.map[asking[t].id] ELSE NoDword
    BY DEF DrsInv, CallOK, InitialisingOK, NotAsking
  <2>2. PICK list : /\ StringSet(list) /\ enrichedFrom \in [DOMAIN SettingIds -> Word]
                    /\ nvapiDrsDwords = [map |-> enrichwithenv(parsedrsdwordsettings(list), enrichedFrom)]
    BY <2>1 DEF DwordsSet
  <2>3. PICK map, id : map = nvapiDrsDwords.map /\ id = asking[t].id
    OBVIOUS
  <2>4. /\ list \in Seq(Entries) /\ nvapiDrsSettingsString.list = list
        /\ map = enrichwithenv(parsedrsdwordsettings(list), enrichedFrom)
    BY <2>2, <2>3 DEF StringSet
  <2>5. ConfiguredAs(list, enrichedFrom, id, IF id \in DOMAIN map THEN map[id] ELSE NoDword)
    BY <2>1, <2>2, <2>3, <2>4, AnswerAsConfigured
  <2> QED
    BY <2>1, <2>3, <2>4, <2>5
<1> QED
  BY <1>1, DrsInvariant, PTL

=============================================================================
