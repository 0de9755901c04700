--------------------------- MODULE ApiLifetime_proofs ---------------------------
(***************************************************************************)
(* Proofs about ApiLifetime, for any number of users, adapters and         *)
(* addresses: a user is served and its handles are valid until it unloads. *)
(***************************************************************************)
EXTENDS ApiLifetime, FiniteSetTheorems, TLAPS

Initializing(t) == call[t].op = "initialize"
TearingDown(t) == call[t].op = "teardown"

(* A call that changes the library holds the mutex. *)
MutexOK == \A t \in Threads : Changing(t) => initializationMutex = t

(* The users are counted, and a first user while its attempt lasts. *)
CountOK ==
  /\ \A t \in Threads : Initializing(t) => initializationCount = 1 /\ holders = {}
  /\ (\A t \in Threads : ~Initializing(t)) => initializationCount = Cardinality(holders)

(* The registry is there exactly for the users.  This is what needs the    *)
(* count: Unload compares it with 1 and never looks at the users.          *)
ServedOK == holders = {} <=> registry = {}

(* A user's handles denote the registry's adapters, which are alive. *)
HandlesOK ==
  /\ \A t \in Threads : t \notin holders => handles[t] = {}
  /\ \A t \in Threads : \A h \in handles[t] : h[1] \in registry /\ heap[h[1]] = h[2]
  /\ \A t \in Threads : call[t].op = "use" => call[t].handle \in handles[t]

(* The objects that exist are the registry's and those being deleted. *)
HeapOK ==
  /\ \A t \in Threads : TearingDown(t) => holders = {}
  /\ \A a \in Addresses :
       heap[a] # Nothing <=>
         a \in registry \/ \E t \in Threads : TearingDown(t) /\ a \in call[t].adapters

LifetimeInv == TypeOK /\ MutexOK /\ CountOK /\ ServedOK /\ HandlesOK /\ HeapOK

USE DEF Idle, Nobody, Nothing, Changing, Initializing, TearingDown

LEMMA FiniteHolders ==
  ASSUME TypeOK
  PROVE  IsFiniteSet(holders) /\ Cardinality(holders) \in Nat
  BY ThreadsAssumption, FS_Subset, FS_CardinalityType DEF TypeOK

LEMMA InitLifetime == Init => LifetimeInv
<1> SUFFICES ASSUME Init PROVE LifetimeInv
  OBVIOUS
<1>1. TypeOK
  BY DEF Init, TypeOK, Calls
<1>2. MutexOK /\ ServedOK /\ HandlesOK
  BY DEF Init, MutexOK, ServedOK, HandlesOK
<1>3. CountOK
  BY FS_EmptySet DEF Init, CountOK
<1>4. HeapOK
  BY DEF Init, HeapOK
<1> QED
  BY <1>1, <1>2, <1>3, <1>4 DEF LifetimeInv

-----------------------------------------------------------------------------
(* Steps that take the mutex: nobody else is changing the library *)

LEMMA NobodyChanging ==
  ASSUME MutexOK, initializationMutex = Nobody
  PROVE  \A t \in Threads : ~Changing(t)
  BY ThreadsAssumption DEF MutexOK

LEMMA InitializeAgainLifetime ==
  ASSUME LifetimeInv, NEW t \in Threads, InitializeAgain(t)
  PROVE  LifetimeInv'
<1>0. TypeOK /\ MutexOK /\ CountOK /\ ServedOK /\ HandlesOK /\ HeapOK
  BY DEF LifetimeInv
<1>1. \A u \in Threads : ~Changing(u)
  BY <1>0, NobodyChanging DEF InitializeAgain
<1>2. /\ t \notin holders /\ initializationCount > 0
      /\ initializationCount' = initializationCount + 1
      /\ holders' = holders \cup {t}
      /\ UNCHANGED <<initializationMutex, resourceFactory, registry, heap, handles, call>>
  BY DEF InitializeAgain
<1>3. initializationCount = Cardinality(holders)
  BY <1>0, <1>1 DEF CountOK
<1>4. holders # {}
  BY <1>2, <1>3, FS_EmptySet
<1>5. Cardinality(holders') = Cardinality(holders) + 1
  BY <1>0, <1>2, FiniteHolders, FS_AddElement
<1>6. TypeOK'
  BY <1>0, <1>2 DEF TypeOK
<1>7. MutexOK'
  BY <1>0, <1>2 DEF MutexOK
<1>8. CountOK'
  BY <1>1, <1>2, <1>3, <1>5 DEF CountOK
<1>9. ServedOK'
  BY <1>0, <1>2, <1>4 DEF ServedOK
<1>10. HandlesOK'
  BY <1>0, <1>2 DEF HandlesOK
<1>11. HeapOK'
  BY <1>0, <1>1, <1>2 DEF HeapOK
<1> QED
  BY <1>6, <1>7, <1>8, <1>9, <1>10, <1>11 DEF LifetimeInv

LEMMA InitializeFirstLifetime ==
  ASSUME LifetimeInv, NEW t \in Threads, InitializeFirst(t)
  PROVE  LifetimeInv'
<1>0. TypeOK /\ MutexOK /\ CountOK /\ ServedOK /\ HandlesOK /\ HeapOK
  BY DEF LifetimeInv
<1>1. \A u \in Threads : ~Changing(u)
  BY <1>0, NobodyChanging DEF InitializeFirst
<1>2. /\ initializationCount = 0 /\ initializationCount' = 1
      /\ initializationMutex' = t /\ resourceFactory' = TRUE
      /\ call' = [call EXCEPT ![t] = [op |-> "initialize"]]
      /\ UNCHANGED <<registry, heap, holders, handles>>
  BY DEF InitializeFirst, Continue
<1>3. holders = {}
  BY <1>0, <1>1, <1>2, FiniteHolders, FS_EmptySet DEF CountOK
<1>4. TypeOK'
  BY <1>0, <1>2 DEF TypeOK, Calls
<1>5. MutexOK'
  BY <1>0, <1>1, <1>2 DEF MutexOK, TypeOK
<1>6. CountOK'
  BY <1>0, <1>1, <1>2, <1>3 DEF CountOK, TypeOK
<1>7. ServedOK'
  BY <1>0, <1>2 DEF ServedOK
<1>8. HandlesOK'
  BY <1>0, <1>2 DEF HandlesOK, TypeOK
<1>9. HeapOK'
  BY <1>0, <1>1, <1>2 DEF HeapOK, TypeOK
<1> QED
  BY <1>4, <1>5, <1>6, <1>7, <1>8, <1>9 DEF LifetimeInv

LEMMA UnloadLifetime ==
  ASSUME LifetimeInv, NEW t \in Threads, Unload(t)
  PROVE  LifetimeInv'
<1>0. TypeOK /\ MutexOK /\ CountOK /\ ServedOK /\ HandlesOK /\ HeapOK
  BY DEF LifetimeInv
<1>1. \A u \in Threads : ~Changing(u)
  BY <1>0, NobodyChanging DEF Unload
<1>2. /\ t \in holders /\ call[t] = Idle
      /\ initializationCount' = initializationCount - 1
      /\ holders' = holders \ {t}
      /\ handles' = [handles EXCEPT ![t] = {}]
      /\ UNCHANGED <<resourceFactory, heap>>
  BY DEF Unload
<1>3. initializationCount = Cardinality(holders)
  BY <1>0, <1>1 DEF CountOK
<1>4. Cardinality(holders') = Cardinality(holders) - 1 /\ Cardinality(holders') \in Nat
  BY <1>0, <1>2, FiniteHolders, FS_RemoveElement, FS_CardinalityType
<1>5. registry # {} /\ registry \subseteq Addresses
  BY <1>0, <1>2 DEF ServedOK, TypeOK
<1>6. CASE initializationCount = 1
  <2>1. /\ registry' = {} /\ initializationMutex' = t
        /\ call' = [call EXCEPT ![t] = Teardown("reset", registry)]
    BY <1>6 DEF Unload, Continue
  <2>2. holders' = {}
    BY <1>0, <1>2, <1>3, <1>4, <1>6, FiniteHolders, FS_EmptySet, FS_RemoveElement
  <2>3. holders = {t}
    BY <1>2, <2>2
  <2>4. TypeOK'
    BY <1>0, <1>2, <1>3, <1>4, <1>5, <2>1 DEF TypeOK, Calls, Teardown
  <2>5. MutexOK'
    BY <1>0, <1>1, <2>1 DEF MutexOK, TypeOK
  <2>6. CountOK'
    BY <1>0, <1>1, <1>2, <1>3, <1>4, <2>1 DEF CountOK, TypeOK, Teardown
  <2>7. ServedOK'
    BY <2>1, <2>2 DEF ServedOK
  <2>8. \A u \in Threads : handles'[u] = {}
    BY <1>0, <1>2, <2>3 DEF HandlesOK, TypeOK
  <2>9. \A u \in Threads : call'[u].op # "use"
    BY <1>0, <1>2, <2>1, <2>3 DEF HandlesOK, TypeOK, Teardown
  <2>10. HandlesOK'
    BY <2>8, <2>9 DEF HandlesOK
  <2>11. HeapOK'
    <3>1. \A u \in Threads : TearingDown(u)' <=> u = t
      BY <1>0, <1>1, <2>1 DEF TypeOK, Teardown
    <3>2. call'[t].adapters = registry
      BY <1>0, <2>1 DEF TypeOK, Teardown
    <3>3. \A a \in Addresses : heap'[a] # Nothing <=> a \in registry
      BY <1>0, <1>1, <1>2 DEF HeapOK
    <3> QED
      BY <2>1, <2>2, <3>1, <3>2, <3>3 DEF HeapOK
  <2> QED
    BY <2>4, <2>5, <2>6, <2>7, <2>10, <2>11 DEF LifetimeInv
<1>7. CASE initializationCount # 1
  <2>1. UNCHANGED <<registry, initializationMutex, call>>
    BY <1>7 DEF Unload
  <2>2. holders' # {}
    BY <1>0, <1>3, <1>4, <1>7, FiniteHolders, FS_EmptySet
  <2>3. TypeOK'
    BY <1>0, <1>2, <1>3, <1>4, <2>1 DEF TypeOK
  <2>4. MutexOK'
    BY <1>0, <2>1 DEF MutexOK
  <2>5. CountOK'
    BY <1>1, <1>2, <1>3, <1>4, <2>1 DEF CountOK
  <2>6. ServedOK'
    BY <1>5, <2>1, <2>2 DEF ServedOK
  <2>7. HandlesOK'
    BY <1>0, <1>2, <2>1 DEF HandlesOK, TypeOK
  <2>8. HeapOK'
    BY <1>0, <1>1, <1>2, <2>1 DEF HeapOK
  <2> QED
    BY <2>3, <2>4, <2>5, <2>6, <2>7, <2>8 DEF LifetimeInv
<1> QED
  BY <1>6, <1>7

-----------------------------------------------------------------------------
(* Steps of the call that holds the mutex *)

LEMMA FindAdaptersLifetime ==
  ASSUME LifetimeInv, NEW t \in Threads, FindAdapters(t)
  PROVE  LifetimeInv'
<1>0. TypeOK /\ MutexOK /\ CountOK /\ ServedOK /\ HandlesOK /\ HeapOK
  BY DEF LifetimeInv
<1>a. PICK found \in (SUBSET Addresses) \ {{}} :
        /\ \A a \in found : heap[a] = Nothing
        /\ \E adapterAt \in [found -> Gpus] :
             heap' = [a \in Addresses |-> IF a \in found THEN adapterAt[a] ELSE heap[a]]
        /\ registry' = found
  BY DEF FindAdapters
<1>1. PICK adapterAt \in [found -> Gpus] :
        /\ \A a \in found : heap[a] = Nothing
        /\ heap' = [a \in Addresses |-> IF a \in found THEN adapterAt[a] ELSE heap[a]]
        /\ registry' = found
  BY <1>a
<1>2. /\ Initializing(t)
      /\ holders' = holders \cup {t}
      /\ initializationMutex' = Nobody
      /\ call' = [call EXCEPT ![t] = Idle]
      /\ UNCHANGED <<initializationCount, resourceFactory, handles>>
  BY DEF FindAdapters, Return, Continue
<1>3. \A u \in Threads : Changing(u) => u = t
  BY <1>0, <1>2 DEF MutexOK
<1>4. holders = {} /\ registry = {} /\ initializationCount = 1
  BY <1>0, <1>2 DEF CountOK, ServedOK
<1>5. holders' = {t}
  BY <1>2, <1>4
<1>6. Cardinality(holders') = 1
  BY <1>5, FS_Singleton
<1>7. TypeOK'
  BY <1>0, <1>1, <1>2 DEF TypeOK, Calls
<1>8. \A u \in Threads : ~Changing(u)'
  BY <1>0, <1>2, <1>3 DEF TypeOK
<1>9. MutexOK'
  BY <1>8 DEF MutexOK
<1>10. CountOK'
  BY <1>2, <1>4, <1>6, <1>8 DEF CountOK
<1>11. ServedOK'
  BY <1>1, <1>5 DEF ServedOK
<1>12. HandlesOK'
  BY <1>0, <1>2, <1>4 DEF HandlesOK, TypeOK
<1>13. HeapOK'
  <2>1. \A a \in Addresses : heap[a] = Nothing
    BY <1>0, <1>2, <1>3, <1>4 DEF HeapOK
  <2>2. \A a \in Addresses : heap'[a] # Nothing <=> a \in found
    BY <1>1, <2>1, GpusAssumption
  <2> QED
    BY <1>1, <1>8, <2>2 DEF HeapOK
<1> QED
  BY <1>7, <1>9, <1>10, <1>11, <1>12, <1>13 DEF LifetimeInv

LEMMA FailInitializeLifetime ==
  ASSUME LifetimeInv, NEW t \in Threads, FailInitialize(t)
  PROVE  LifetimeInv'
<1>0. TypeOK /\ MutexOK /\ CountOK /\ ServedOK /\ HandlesOK /\ HeapOK
  BY DEF LifetimeInv
<1>2. /\ Initializing(t)
      /\ initializationCount' = initializationCount - 1
      /\ call' = [call EXCEPT ![t] = Teardown("reset", {})]
      /\ UNCHANGED <<initializationMutex, resourceFactory, registry, heap, holders, handles>>
  BY DEF FailInitialize, Continue
<1>3. \A u \in Threads : Changing(u) => u = t
  BY <1>0, <1>2 DEF MutexOK
<1>4. holders = {} /\ registry = {} /\ initializationCount = 1
  BY <1>0, <1>2 DEF CountOK, ServedOK
<1>5. TypeOK'
  BY <1>0, <1>2, <1>4 DEF TypeOK, Calls, Teardown
<1>6. MutexOK'
  BY <1>0, <1>2 DEF MutexOK, TypeOK, Teardown
<1>7. CountOK'
  BY <1>0, <1>2, <1>3, <1>4, FS_EmptySet DEF CountOK, TypeOK, Teardown
<1>8. ServedOK'
  BY <1>0, <1>2 DEF ServedOK
<1>9. HandlesOK'
  BY <1>0, <1>2 DEF HandlesOK, TypeOK, Teardown
<1>10. HeapOK'
  <2>1. \A a \in Addresses : heap[a] = Nothing
    BY <1>0, <1>2, <1>3, <1>4 DEF HeapOK
  <2>2. \A u \in Threads : TearingDown(u)' <=> u = t
    BY <1>0, <1>2, <1>3 DEF TypeOK, Teardown
  <2>3. call'[t].adapters = {}
    BY <1>0, <1>2 DEF TypeOK, Teardown
  <2> QED
    BY <1>2, <1>4, <2>1, <2>2, <2>3 DEF HeapOK
<1> QED
  BY <1>5, <1>6, <1>7, <1>8, <1>9, <1>10 DEF LifetimeInv

LEMMA ResetCachesLifetime ==
  ASSUME LifetimeInv, NEW t \in Threads, ResetCaches(t)
  PROVE  LifetimeInv'
<1>0. TypeOK /\ MutexOK /\ CountOK /\ ServedOK /\ HandlesOK /\ HeapOK
  BY DEF LifetimeInv
<1>1. /\ TearingDown(t) /\ call[t].at = "reset"
      /\ call' = [call EXCEPT ![t].at = "delete"]
      /\ UNCHANGED lifetimeVars
  BY DEF ResetCaches
<1>2. call[t] \in [op : {"teardown"}, at : {"reset", "delete"}, adapters : SUBSET Addresses]
  BY <1>0, <1>1 DEF TypeOK, Calls
<1>3. call'[t] = [call[t] EXCEPT !.at = "delete"]
  BY <1>0, <1>1 DEF TypeOK
<1>4. call'[t].op = "teardown" /\ call'[t].adapters = call[t].adapters
  BY <1>1, <1>2, <1>3
<1>5. \A u \in Threads : u # t => call'[u] = call[u]
  BY <1>0, <1>1 DEF TypeOK
<1>6. call'[t] \in Calls
  BY <1>2, <1>3 DEF Calls
<1>7. TypeOK'
  BY <1>0, <1>1, <1>5, <1>6 DEF TypeOK, lifetimeVars
<1>8. MutexOK'
  BY <1>0, <1>1, <1>4, <1>5 DEF MutexOK, lifetimeVars
<1>9. CountOK'
  BY <1>0, <1>1, <1>4, <1>5 DEF CountOK, lifetimeVars
<1>10. ServedOK'
  BY <1>0, <1>1 DEF ServedOK, lifetimeVars
<1>11. HandlesOK'
  BY <1>0, <1>1, <1>4, <1>5 DEF HandlesOK, lifetimeVars
<1>12. HeapOK'
  BY <1>0, <1>1, <1>4, <1>5 DEF HeapOK, lifetimeVars
<1> QED
  BY <1>7, <1>8, <1>9, <1>10, <1>11, <1>12 DEF LifetimeInv

LEMMA DeleteAdaptersLifetime ==
  ASSUME LifetimeInv, NEW t \in Threads, DeleteAdapters(t)
  PROVE  LifetimeInv'
<1>0. TypeOK /\ MutexOK /\ CountOK /\ ServedOK /\ HandlesOK /\ HeapOK
  BY DEF LifetimeInv
<1>1. /\ TearingDown(t)
      /\ heap' = [a \in Addresses |-> IF a \in call[t].adapters THEN Nothing ELSE heap[a]]
      /\ initializationMutex' = Nobody
      /\ call' = [call EXCEPT ![t] = Idle]
      /\ UNCHANGED <<initializationCount, resourceFactory, registry, holders, handles>>
  BY DEF DeleteAdapters, Return, Continue
<1>2. \A u \in Threads : Changing(u) => u = t
  BY <1>0, <1>1 DEF MutexOK
<1>3. holders = {} /\ registry = {}
  BY <1>0, <1>1 DEF HeapOK, ServedOK
<1>4. \A u \in Threads : ~Changing(u)'
  BY <1>0, <1>1, <1>2 DEF TypeOK
<1>5. TypeOK'
  BY <1>0, <1>1 DEF TypeOK, Calls
<1>6. MutexOK'
  BY <1>4 DEF MutexOK
<1>7. CountOK'
  BY <1>0, <1>1, <1>2, <1>4 DEF CountOK
<1>8. ServedOK'
  BY <1>0, <1>1 DEF ServedOK
<1>9. HandlesOK'
  BY <1>0, <1>1, <1>3 DEF HandlesOK, TypeOK
<1>10. HeapOK'
  BY <1>0, <1>1, <1>2, <1>3, <1>4 DEF HeapOK
<1> QED
  BY <1>5, <1>6, <1>7, <1>8, <1>9, <1>10 DEF LifetimeInv

-----------------------------------------------------------------------------
(* Entry points with handles *)

LEMMA EnumLifetime ==
  ASSUME LifetimeInv, NEW t \in Threads, EnumPhysicalGPUs(t)
  PROVE  LifetimeInv'
<1>0. TypeOK /\ MutexOK /\ CountOK /\ ServedOK /\ HandlesOK /\ HeapOK
  BY DEF LifetimeInv
<1>1. /\ t \in holders /\ call[t] = Idle
      /\ handles' = [handles EXCEPT ![t] = {<<a, heap[a]>> : a \in registry}]
      /\ UNCHANGED <<initializationCount, initializationMutex, resourceFactory, registry,
                     heap, holders, call>>
  BY DEF EnumPhysicalGPUs
<1>2. \A u \in Threads : ~TearingDown(u)
  BY <1>0, <1>1 DEF HeapOK
<1>3. \A a \in registry : heap[a] \in Gpus
  BY <1>0 DEF HeapOK, TypeOK
<1>4. {<<a, heap[a]>> : a \in registry} \in SUBSET (Addresses \X Gpus)
  BY <1>0, <1>3 DEF TypeOK
<1>5. TypeOK'
  BY <1>0, <1>1, <1>4 DEF TypeOK
<1>6. MutexOK' /\ CountOK' /\ ServedOK' /\ HeapOK'
  BY <1>0, <1>1 DEF MutexOK, CountOK, ServedOK, HeapOK
<1>7. HandlesOK'
  BY <1>0, <1>1 DEF HandlesOK, TypeOK
<1> QED
  BY <1>5, <1>6, <1>7 DEF LifetimeInv

LEMMA UseLifetime ==
  ASSUME LifetimeInv, NEW t \in Threads, IsAdapter(t) \/ UseAdapter(t)
  PROVE  LifetimeInv'
<1>0. TypeOK /\ MutexOK /\ CountOK /\ ServedOK /\ HandlesOK /\ HeapOK
  BY DEF LifetimeInv
<1>1. PICK c \in {Idle} \cup [op : {"use"}, handle : handles[t]] :
        call' = [call EXCEPT ![t] = c]
  BY DEF IsAdapter, UseAdapter, Return, Continue
<1>2. ~Changing(t) /\ UNCHANGED lifetimeVars
  BY DEF IsAdapter, UseAdapter
<1>3. TypeOK'
  BY <1>0, <1>1, <1>2 DEF TypeOK, Calls, lifetimeVars
<1>4. MutexOK'
  BY <1>0, <1>1, <1>2 DEF MutexOK, TypeOK, lifetimeVars
<1>5. CountOK'
  BY <1>0, <1>1, <1>2 DEF CountOK, TypeOK, lifetimeVars
<1>6. ServedOK'
  BY <1>0, <1>2 DEF ServedOK, lifetimeVars
<1>7. HandlesOK'
  BY <1>0, <1>1, <1>2 DEF HandlesOK, TypeOK, lifetimeVars
<1>8. HeapOK'
  BY <1>0, <1>1, <1>2 DEF HeapOK, TypeOK, lifetimeVars
<1> QED
  BY <1>3, <1>4, <1>5, <1>6, <1>7, <1>8 DEF LifetimeInv

-----------------------------------------------------------------------------

LEMMA LifetimeNext == LifetimeInv /\ [Next]_vars => LifetimeInv'
<1> SUFFICES ASSUME LifetimeInv, [Next]_vars PROVE LifetimeInv'
  OBVIOUS
<1>1. CASE UNCHANGED vars
  BY <1>1 DEF vars, LifetimeInv, TypeOK, MutexOK, CountOK, ServedOK, HandlesOK, HeapOK
<1> QED
  BY <1>1, InitializeAgainLifetime, InitializeFirstLifetime, FindAdaptersLifetime,
    FailInitializeLifetime, UnloadLifetime, ResetCachesLifetime, DeleteAdaptersLifetime,
    EnumLifetime, UseLifetime DEF Next

LEMMA LifetimeInductive == Spec => []LifetimeInv
  BY InitLifetime, LifetimeNext, PTL DEF Spec

(* The variables keep their types; the count never falls below zero. *)
THEOREM LifetimeTyping == Spec => []TypeOK
<1>1. LifetimeInv => TypeOK
  BY DEF LifetimeInv
<1> QED
  BY <1>1, LifetimeInductive, PTL

(* Between its Initialize and its Unload a user finds a registry, however  *)
(* many users there are and whichever of their attempts fail.              *)
THEOREM Served == Spec => []HolderIsServed
<1>1. LifetimeInv => HolderIsServed
  BY DEF LifetimeInv, ServedOK, HolderIsServed
<1> QED
  BY <1>1, LifetimeInductive, PTL

(* An entry point that has checked a handle works on the adapter the       *)
(* handle was given for, though it reads the registry without the mutex.   *)
THEOREM HandleAlive == Spec => []CheckedHandleIsAlive
<1>1. LifetimeInv => CheckedHandleIsAlive
  BY DEF LifetimeInv, HandlesOK, CheckedHandleIsAlive
<1> QED
  BY <1>1, LifetimeInductive, PTL

(* The adapters that exist are those of the registry and those a teardown  *)
(* is about to delete.                                                     *)
THEOREM NoAdapterLeaks == Spec => []AdaptersAccountedFor
<1>1. LifetimeInv => AdaptersAccountedFor
  <2> SUFFICES ASSUME LifetimeInv PROVE AdaptersAccountedFor
    OBVIOUS
  <2>1. \A t \in Threads : TearingDown(t) => call[t].adapters \subseteq Addresses
    BY DEF LifetimeInv, TypeOK, Calls
  <2> QED
    BY <2>1 DEF LifetimeInv, HeapOK, TypeOK, AdaptersAccountedFor
<1> QED
  BY <1>1, LifetimeInductive, PTL

=============================================================================
