----------------------------- MODULE ApiLifetime ------------------------------
(***************************************************************************)
(* NvAPI_Initialize, NvAPI_Unload and the adapter registry they share.     *)
(*                                                                         *)
(* Several users in one process (the game, a plugin, an overlay) each      *)
(* initialise the library, use the handles it gives out and unload it.     *)
(* Initialize and Unload hold initializationMutex and count the users;     *)
(* every other entry point reads nvapiAdapterRegistry without the mutex.   *)
(* A user is a thread that calls nothing but Initialize before its         *)
(* Initialize has succeeded, forgets its handles with its Unload, and      *)
(* holds the library once at a time (a user that initialises it twice is   *)
(* two users).  Calls that return early change nothing and are no steps.   *)
(***************************************************************************)
EXTENDS Naturals, FiniteSets

CONSTANTS
  Threads,      \* users of the library
  Gpus,         \* adapters DXGI may report
  Addresses     \* where the allocator puts NvapiAdapter objects; it reuses them

ASSUME ThreadsAssumption == IsFiniteSet(Threads) /\ "nobody" \notin Threads
ASSUME GpusAssumption == "nullptr" \notin Gpus

VARIABLES
  initializationCount,
  initializationMutex,  \* the thread that holds it
  resourceFactory,      \* whether it exists
  registry,             \* nvapiAdapterRegistry: the addresses of its adapters; a registry
                        \* has at least one, and {} is the null pointer
  heap,                 \* address -> the adapter that lives there
  holders,              \* history: threads whose Initialize succeeded, until they unload
  handles,              \* history: thread -> the <<handle, adapter>> it was given
  call                  \* what each thread is in the middle of

lifetimeVars == <<initializationCount, initializationMutex, resourceFactory, registry,
                  heap, holders, handles>>
vars == <<initializationCount, initializationMutex, resourceFactory, registry,
          heap, holders, handles, call>>

Nobody == "nobody"
Nothing == "nullptr"
Idle == [op |-> "idle"]

Init ==
  /\ initializationCount = 0
  /\ initializationMutex = Nobody
  /\ resourceFactory = FALSE
  /\ registry = {}
  /\ heap = [a \in Addresses |-> Nothing]
  /\ holders = {}
  /\ handles = [t \in Threads |-> {}]
  /\ call = [t \in Threads |-> Idle]

Continue(t, c) == call' = [call EXCEPT ![t] = c]
Return(t) == Continue(t, Idle)
Teardown(step, adapters) == [op |-> "teardown", at |-> step, adapters |-> adapters]

-----------------------------------------------------------------------------
(* NvAPI_Initialize *)

\* The library is in use already.
InitializeAgain(t) ==
  /\ call[t] = Idle /\ t \notin holders
  /\ initializationMutex = Nobody
  /\ initializationCount > 0
  /\ initializationCount' = initializationCount + 1
  /\ holders' = holders \cup {t}
  /\ UNCHANGED <<initializationMutex, resourceFactory, registry, heap, handles, call>>

\* The first user: it is counted before the attempt.
InitializeFirst(t) ==
  /\ call[t] = Idle /\ t \notin holders
  /\ initializationMutex = Nobody
  /\ initializationCount = 0
  /\ initializationCount' = 1
  /\ initializationMutex' = t
  /\ resourceFactory' = TRUE
  /\ Continue(t, [op |-> "initialize"])
  /\ UNCHANGED <<registry, heap, holders, handles>>

\* The registry found adapters it supports: each is put at an address that is free.
FindAdapters(t) ==
  /\ call[t].op = "initialize"
  /\ \E found \in (SUBSET Addresses) \ {{}} :
       /\ \A a \in found : heap[a] = Nothing
       /\ \E adapterAt \in [found -> Gpus] :
            /\ \A a, b \in found : adapterAt[a] = adapterAt[b] => a = b
            /\ heap' = [a \in Addresses |-> IF a \in found THEN adapterAt[a] ELSE heap[a]]
       /\ registry' = found
  /\ holders' = holders \cup {t}
  /\ initializationMutex' = Nobody
  /\ Return(t)
  /\ UNCHANGED <<initializationCount, resourceFactory, handles>>

\* Mutant: the attempt that failed is still counted.
FailCounted(t) ==
  /\ call[t].op = "initialize"
  /\ Continue(t, Teardown("reset", {}))
  /\ UNCHANGED lifetimeVars

\* Nothing found: the local registry is destroyed, and with it every cache.
FailInitialize(t) ==
  /\ call[t].op = "initialize"
  /\ initializationCount' = initializationCount - 1
  /\ Continue(t, Teardown("reset", {}))
  /\ UNCHANGED <<initializationMutex, resourceFactory, registry, heap, holders, handles>>

-----------------------------------------------------------------------------
(* NvAPI_Unload *)

\* Mutants: the registry goes with the first user that unloads; the registry
\* pointer is dropped but the registry is not destroyed.
UnloadAtOnce(t) ==
  /\ call[t] = Idle /\ t \in holders
  /\ initializationMutex = Nobody
  /\ initializationCount' = initializationCount - 1
  /\ holders' = holders \ {t}
  /\ handles' = [handles EXCEPT ![t] = {}]
  /\ registry' = {}
  /\ initializationMutex' = t
  /\ Continue(t, Teardown("reset", registry))
  /\ UNCHANGED <<resourceFactory, heap>>
UnloadReleases(t) ==
  /\ call[t] = Idle /\ t \in holders
  /\ initializationMutex = Nobody
  /\ initializationCount' = initializationCount - 1
  /\ holders' = holders \ {t}
  /\ handles' = [handles EXCEPT ![t] = {}]
  /\ registry' = IF initializationCount = 1 THEN {} ELSE registry
  /\ UNCHANGED <<initializationMutex, resourceFactory, heap, call>>

\* The last user takes the registry down; reset() clears the pointer first.
Unload(t) ==
  /\ call[t] = Idle /\ t \in holders
  /\ initializationMutex = Nobody
  /\ initializationCount' = initializationCount - 1
  /\ holders' = holders \ {t}
  /\ handles' = [handles EXCEPT ![t] = {}]
  /\ IF initializationCount = 1
       THEN /\ registry' = {}
            /\ initializationMutex' = t
            /\ Continue(t, Teardown("reset", registry))
       ELSE UNCHANGED <<registry, initializationMutex, call>>
  /\ UNCHANGED <<resourceFactory, heap>>

\* ~NvapiAdapterRegistry: the caches of the devices first, ...
ResetCaches(t) ==
  /\ call[t].op = "teardown" /\ call[t].at = "reset"
  /\ call' = [call EXCEPT ![t].at = "delete"]
  /\ UNCHANGED lifetimeVars

\* Mutant: a destructor takes the mutex the call already holds.
DeleteAdaptersLocked(t) ==
  /\ call[t].op = "teardown" /\ call[t].at = "delete"
  /\ initializationMutex = Nobody
  /\ heap' = [a \in Addresses |-> IF a \in call[t].adapters THEN Nothing ELSE heap[a]]
  /\ Return(t)
  /\ UNCHANGED <<initializationCount, initializationMutex, resourceFactory, registry,
                 holders, handles>>

\* ... then the adapters; then the call returns and gives the mutex back.
DeleteAdapters(t) ==
  /\ call[t].op = "teardown" /\ call[t].at = "delete"
  /\ heap' = [a \in Addresses |-> IF a \in call[t].adapters THEN Nothing ELSE heap[a]]
  /\ initializationMutex' = Nobody
  /\ Return(t)
  /\ UNCHANGED <<initializationCount, resourceFactory, registry, holders, handles>>

-----------------------------------------------------------------------------
(* Entry points with handles *)

EnumPhysicalGPUs(t) ==
  /\ call[t] = Idle /\ t \in holders
  /\ registry # {}
  /\ handles' = [handles EXCEPT ![t] = {<<a, heap[a]>> : a \in registry}]
  /\ UNCHANGED <<initializationCount, initializationMutex, resourceFactory, registry,
                 heap, holders, call>>

\* An entry point with a handle asks the registry whether the handle is an adapter ...
IsAdapter(t) ==
  /\ call[t] = Idle /\ t \in holders
  /\ registry # {}
  /\ \E h \in handles[t] :
       /\ h[1] \in registry
       /\ Continue(t, [op |-> "use", handle |-> h])
  /\ UNCHANGED lifetimeVars

\* ... and then uses it.
UseAdapter(t) ==
  /\ call[t].op = "use"
  /\ Return(t)
  /\ UNCHANGED lifetimeVars

-----------------------------------------------------------------------------

Next ==
  \E t \in Threads :
    \/ InitializeAgain(t) \/ InitializeFirst(t) \/ FindAdapters(t) \/ FailInitialize(t)
    \/ Unload(t) \/ ResetCaches(t) \/ DeleteAdapters(t)
    \/ EnumPhysicalGPUs(t) \/ IsAdapter(t) \/ UseAdapter(t)

Spec == Init /\ [][Next]_vars /\ \A t \in Threads :
          WF_vars(FindAdapters(t) \/ FailInitialize(t) \/ ResetCaches(t) \/ DeleteAdapters(t))

-----------------------------------------------------------------------------
(* Properties *)

Calls ==
  {Idle}
  \cup [op : {"initialize"}]
  \cup [op : {"teardown"}, at : {"reset", "delete"}, adapters : SUBSET Addresses]
  \cup [op : {"use"}, handle : Addresses \X Gpus]

TypeOK ==
  /\ initializationCount \in Nat
  /\ initializationMutex \in Threads \cup {Nobody}
  /\ resourceFactory \in BOOLEAN
  /\ registry \subseteq Addresses
  /\ heap \in [Addresses -> Gpus \cup {Nothing}]
  /\ holders \subseteq Threads
  /\ handles \in [Threads -> SUBSET (Addresses \X Gpus)]
  /\ call \in [Threads -> Calls]

Changing(t) == call[t].op \in {"initialize", "teardown"}

(* Between its Initialize and its Unload a user finds a registry, whatever *)
(* the other users do: failed attempts, further users, their unloading.    *)
HolderIsServed == holders # {} => registry # {}

(* An entry point that has checked its handle still works on that adapter  *)
(* when it gets to use it, though it holds no lock.                        *)
CheckedHandleIsAlive ==
  \A t \in Threads : call[t].op = "use" => heap[call[t].handle[1]] = call[t].handle[2]

(* No adapter outlives its registry: the objects that exist are those of   *)
(* the registry and those a teardown is about to delete.                   *)
AdaptersAccountedFor ==
  {a \in Addresses : heap[a] # Nothing} =
    registry \cup UNION {call[t].adapters : t \in {u \in Threads : call[u].op = "teardown"}}

(* The mutex is given back: an Initialize that begins to set the library   *)
(* up, or an Unload that takes it down, always returns.                    *)
ChangeCompletes == \A t \in Threads : Changing(t) ~> ~Changing(t)

=============================================================================
