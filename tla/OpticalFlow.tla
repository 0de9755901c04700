------------------------------- MODULE OpticalFlow -------------------------------
(***************************************************************************)
(* NVOFAPI: optical flow instances, their sessions and the command buffers *)
(* they execute with.                                                      *)
(*                                                                         *)
(* An instance records each Execute into the next of its CMDS_IN_FLIGHT    *)
(* command buffers and goes round; it does not wait for a buffer's last    *)
(* submission.  Vulkan instances own a command pool and submit a batch,    *)
(* which may be refused; D3D12 instances enqueue on a command queue.       *)
(*                                                                         *)
(* The driver's queue (external) runs what it is given in order.  A call   *)
(* uses a point of a timeline: it waits until the application has reached  *)
(* the point and signals the point when it is done.                        *)
(*                                                                         *)
(* Assumed of the application: one thread at a time uses an instance, one  *)
(* session is initialised per instance, the instance is destroyed when     *)
(* its work is done, and at most Ahead calls of Execute are in flight.  An *)
(* instance's image stands for all that are registered with it; it is      *)
(* unregistered once nothing uses it, and may stay when the instance goes. *)
(* What a session's images are bound to is left out.                       *)
(***************************************************************************)
EXTENDS Integers, Sequences, SequencesExt

CONSTANTS
  VkInstances, D3D12Instances,  \* instances an application may create
  CMDS_IN_FLIGHT,               \* 8 in the code
  Ahead,                        \* calls of Execute the application has in flight
  MaxPoint,                     \* bound of the model: points given, of all timelines
  MaxExecutes                   \* bound of the model: calls of Execute of all instances

Instances == VkInstances \cup D3D12Instances

ASSUME KindsAssumption == VkInstances \cap D3D12Instances = {} /\ "none" \notin Instances
ASSUME RingAssumption == CMDS_IN_FLIGHT \in Nat \ {0} /\ Ahead \in Nat
ASSUME BoundAssumption == MaxPoint \in Nat /\ MaxExecutes \in Nat

VARIABLES
  initializationMutex,  \* api -> the instance being created
  resourceFactory,      \* the global resource factory, the how-manieth made; 0: none
  overlapped,           \* history: whether two creations found the factory missing at once
  instances,            \* instance -> its state
  pools,                \* driver: instances with a command pool
  sessions,             \* driver: instance -> optical flow sessions alive
  images,               \* instance -> its NvOFImage: with a view, "blank" if that failed, or None
  views,                \* driver: instance -> image views alive
  queue,                \* driver: instance -> what its queue has yet to do
  rendered,             \* instance -> the point the application has reached
  signalled             \* instance -> the point that was last signalled

imageVars == <<images, views>>
driverVars == <<pools, sessions, imageVars, queue, rendered, signalled>>
vars == <<initializationMutex, resourceFactory, overlapped, instances, driverVars>>

None == "none"
Apis == {"vk", "d3d12"}
Api(i) == IF i \in VkInstances THEN "vk" ELSE "d3d12"

\* factory: m_resourceFactory; index: m_cmdBufIndex or m_cmdListIndex; executes counts
\* the calls of Execute, point the calls that were given a point.
NotCreated == [at |-> None, factory |-> 0, session |-> FALSE, index |-> 0, executes |-> 0,
               point |-> 0]

Init ==
  /\ initializationMutex = [a \in Apis |-> None]
  /\ resourceFactory = 0
  /\ overlapped = FALSE
  /\ instances = [i \in Instances |-> NotCreated]
  /\ pools = {}
  /\ sessions = [i \in Instances |-> 0]
  /\ images = [i \in Instances |-> None]
  /\ views = [i \in Instances |-> 0]
  /\ queue = [i \in Instances |-> <<>>]
  /\ rendered = [i \in Instances |-> 0]
  /\ signalled = [i \in Instances |-> 0]

At(i, at) == instances[i].at = at
Become(i, state) == instances' = [instances EXCEPT ![i] = state]
GiveBack(i) == initializationMutex' = [initializationMutex EXCEPT ![Api(i)] = None]

-----------------------------------------------------------------------------
(* CreateOpticalFlowVk, CreateOpticalFlowD3D12: each api has a mutex of its own *)

\* Mutant: a resource factory is made whether or not there is one.
AlwaysMissing == TRUE

FactoryMissing == resourceFactory = 0

Create(i) ==
  /\ At(i, None)
  /\ initializationMutex[Api(i)] = None
  /\ initializationMutex' = [initializationMutex EXCEPT ![Api(i)] = i]
  /\ Become(i, [NotCreated EXCEPT !.at = IF FactoryMissing THEN "factory" ELSE "construct"])
  /\ overlapped' = (overlapped \/ (FactoryMissing /\ \E j \in Instances : At(j, "factory")))
  /\ UNCHANGED <<resourceFactory, driverVars>>

\* The new factory takes the place of whatever factory there is by now.
MakeFactory(i) ==
  /\ At(i, "factory")
  /\ resourceFactory' = resourceFactory + 1
  /\ Become(i, [instances[i] EXCEPT !.at = "construct"])
  /\ UNCHANGED <<initializationMutex, overlapped, driverVars>>

\* The instance keeps a reference to the factory there is when it is constructed.
Construct(i) ==
  /\ At(i, "construct")
  /\ Become(i, [instances[i] EXCEPT !.at = "initialize", !.factory = resourceFactory])
  /\ UNCHANGED <<initializationMutex, resourceFactory, overlapped, driverVars>>

CreateCommandPool(i) ==
  /\ i \in VkInstances /\ At(i, "initialize")
  /\ pools' = pools \cup {i}
  /\ Become(i, [instances[i] EXCEPT !.at = "allocate"])
  /\ UNCHANGED <<initializationMutex, resourceFactory, overlapped, sessions, imageVars, queue,
                 rendered, signalled>>

\* The command buffers are allocated, or the interop queue and its lists created.
Initialized(i) ==
  /\ At(i, IF i \in VkInstances THEN "allocate" ELSE "initialize")
  /\ Become(i, [instances[i] EXCEPT !.at = "ready"])
  /\ GiveBack(i)
  /\ UNCHANGED <<resourceFactory, overlapped, driverVars>>

\* Mutant: the command pool of an instance that fails is left.
FailAndLeave(i) ==
  /\ At(i, "initialize") \/ At(i, "allocate")
  /\ Become(i, NotCreated)
  /\ GiveBack(i)
  /\ UNCHANGED <<resourceFactory, overlapped, driverVars>>

\* Any step of Initialize may fail; the instance is deleted.
InitializeFails(i) ==
  /\ At(i, "initialize") \/ At(i, "allocate")
  /\ pools' = pools \ {i}
  /\ Become(i, NotCreated)
  /\ GiveBack(i)
  /\ UNCHANGED <<resourceFactory, overlapped, sessions, imageVars, queue, rendered, signalled>>

-----------------------------------------------------------------------------
(* OFSessionInit, OFSessionDestroy *)

InitSession(i) ==
  /\ At(i, "ready") /\ ~instances[i].session
  /\ sessions' = [sessions EXCEPT ![i] = @ + 1]
  /\ Become(i, [instances[i] EXCEPT !.session = TRUE])
  /\ UNCHANGED <<initializationMutex, resourceFactory, overlapped, pools, imageVars, queue,
                 rendered, signalled>>

OFSessionDestroy(i) ==
  /\ At(i, "ready") /\ queue[i] = <<>>
  /\ sessions' = [sessions EXCEPT ![i] = IF instances[i].session THEN @ - 1 ELSE @]
  /\ pools' = pools \ {i}
  /\ Become(i, [instances[i] EXCEPT !.at = "gone"])
  /\ UNCHANGED <<initializationMutex, resourceFactory, overlapped, imageVars, queue, rendered,
                 signalled>>

-----------------------------------------------------------------------------
(* RegisterBuffer and Execute *)

Wait(p) == [op |-> "wait", point |-> p]
Signal(p) == [op |-> "signal", point |-> p]
Run(p, index, n) == [op |-> "run", point |-> p, index |-> index, call |-> n]

\* Mutants: the signal is dropped, or comes before the work; the ring is one buffer too
\* short.
WaitOnly(p) == <<Wait(p)>>
SignalEarly(p, index, n) == <<Wait(p), Signal(p), Run(p, index, n)>>
WrapEarly(index) == IF index + 2 >= CMDS_IN_FLIGHT THEN 0 ELSE index + 1

\* What the call enqueues for D3D12; registering with Vulkan enqueues nothing.
RegisterCommands(p) == <<Wait(p), Signal(p)>>
ExecuteCommands(p, index, n) == <<Wait(p), Run(p, index, n), Signal(p)>>
NextIndex(index) == IF index + 1 >= CMDS_IN_FLIGHT THEN 0 ELSE index + 1

PointsGiven == MapThenSumSet(LAMBDA j : instances[j].point, Instances)

\* RegisterBuffer of D3D12 enqueues what keeps the application's fences going.
RegisterEnqueues(i) ==
  IF i \in VkInstances THEN UNCHANGED <<instances, queue>>
  ELSE LET p == instances[i].point + 1
       IN  /\ PointsGiven < MaxPoint
           /\ queue' = [queue EXCEPT ![i] = @ \o RegisterCommands(p)]
           /\ Become(i, [instances[i] EXCEPT !.point = p])

\* The image is registered with or without a view.
RegisterBuffer(i) ==
  /\ At(i, "ready") /\ images[i] = None
  /\ RegisterEnqueues(i)
  /\ \/ images' = [images EXCEPT ![i] = "viewed"] /\ views' = [views EXCEPT ![i] = @ + 1]
     \/ images' = [images EXCEPT ![i] = "blank"] /\ UNCHANGED views
  /\ UNCHANGED <<initializationMutex, resourceFactory, overlapped, pools, sessions, rendered,
                 signalled>>

Pending(i) == {e \in ToSet(queue[i]) : e.op = "run"}

\* UnregisterResourceVk, UnregisterResourceD3D12: with the image goes its view.  The first
\* answers with an error all the same.
Unregister(i) ==
  /\ images[i] # None /\ Pending(i) = {}
  /\ images' = [images EXCEPT ![i] = None]
  /\ views' = [views EXCEPT ![i] = IF images[i] = "viewed" THEN @ - 1 ELSE @]
  /\ UNCHANGED <<initializationMutex, resourceFactory, overlapped, instances, pools, sessions,
                 queue, rendered, signalled>>

\* A submission the driver refuses has used its command buffer all the same.
Execute(i) ==
  /\ At(i, "ready") /\ instances[i].session
  /\ LET instance == instances[i]
         n == instance.executes + 1
         p == instance.point + 1
         next == [instance EXCEPT !.index = NextIndex(@), !.executes = n]
     IN  /\ \A e \in Pending(i) : e.call > n - Ahead
         /\ PointsGiven < MaxPoint
         /\ MapThenSumSet(LAMBDA j : instances[j].executes, Instances) < MaxExecutes
         /\ \/ /\ queue' = [queue EXCEPT ![i] = @ \o ExecuteCommands(p, instance.index, n)]
               /\ Become(i, [next EXCEPT !.point = p])
            \/ /\ i \in VkInstances
               /\ Become(i, next)
               /\ UNCHANGED queue
  /\ UNCHANGED <<initializationMutex, resourceFactory, overlapped, pools, sessions, imageVars,
                 rendered, signalled>>

-----------------------------------------------------------------------------
(* The driver's queue, and the application's rendering *)

QueueStep(i) ==
  /\ queue[i] # <<>>
  /\ LET e == Head(queue[i])
     IN  /\ e.op = "wait" => rendered[i] >= e.point
         /\ signalled' = IF e.op = "signal" THEN [signalled EXCEPT ![i] = e.point]
                         ELSE signalled
  /\ queue' = [queue EXCEPT ![i] = Tail(@)]
  /\ UNCHANGED <<initializationMutex, resourceFactory, overlapped, instances, pools, sessions,
                 imageVars, rendered>>

\* Not further than the next point that will be given.
Render(i) ==
  /\ rendered[i] < MaxPoint /\ rendered[i] <= instances[i].point
  /\ rendered' = [rendered EXCEPT ![i] = @ + 1]
  /\ UNCHANGED <<initializationMutex, resourceFactory, overlapped, instances, pools, sessions,
                 imageVars, queue, signalled>>

-----------------------------------------------------------------------------

Next ==
  \E i \in Instances :
    \/ Create(i) \/ MakeFactory(i) \/ Construct(i)
    \/ CreateCommandPool(i) \/ Initialized(i) \/ InitializeFails(i)
    \/ InitSession(i) \/ OFSessionDestroy(i)
    \/ RegisterBuffer(i) \/ Unregister(i) \/ Execute(i)
    \/ QueueStep(i) \/ Render(i)

\* The queues run, and the application gets to every point it promised.
Spec == Init /\ [][Next]_vars /\ \A i \in Instances : WF_vars(QueueStep(i)) /\ WF_vars(Render(i))

-----------------------------------------------------------------------------
(* Properties *)

Points == 1 .. MaxPoint
Indices == 0 .. CMDS_IN_FLIGHT - 1

TypeOK ==
  /\ initializationMutex \in [Apis -> Instances \cup {None}]
  /\ resourceFactory \in Nat /\ overlapped \in BOOLEAN
  /\ instances \in [Instances ->
       [at : {None, "factory", "construct", "initialize", "allocate", "ready", "gone"},
        factory : Nat, session : BOOLEAN, index : Indices, executes : Nat, point : 0 .. MaxPoint]]
  /\ pools \subseteq VkInstances
  /\ sessions \in [Instances -> Nat]
  /\ images \in [Instances -> {None, "viewed", "blank"}]
  /\ views \in [Instances -> Nat]
  /\ \A i \in Instances : ToSet(queue[i]) \subseteq
       [op : {"wait", "signal"}, point : Points]
       \cup [op : {"run"}, point : Points, index : Indices, call : 1 .. MaxExecutes]
  /\ rendered \in [Instances -> 0 .. MaxPoint]
  /\ signalled \in [Instances -> 0 .. MaxPoint]

(* Execute records into no command buffer (or list) that the queue has yet *)
(* to run, for an application with no more than CMDS_IN_FLIGHT calls in    *)
(* flight, refused ones included.                                          *)
RecordsIntoFreeBuffer ==
  [][\A i \in Instances : instances'[i].executes > instances[i].executes =>
       \A e \in Pending(i) : e.index # instances[i].index]_vars

(* When a point is signalled, what was to be done before it is done: all   *)
(* work given with it or before it has run, after its input was rendered.  *)
SignalMeansDone ==
  \A i \in Instances :
    /\ signalled[i] <= rendered[i]
    /\ \A e \in Pending(i) : e.point > signalled[i]

(* The driver's pools and sessions are those of the instances that exist,  *)
(* also when an instance fails half-way through its initialisation, and    *)
(* its views those of the images that are registered, whatever became of   *)
(* their instance.                                                         *)
NothingLeaks ==
  /\ pools = {i \in VkInstances : instances[i].at \in {"allocate", "ready"}}
  /\ \A i \in Instances :
       /\ sessions[i] = IF At(i, "ready") /\ instances[i].session THEN 1 ELSE 0
       /\ views[i] = IF images[i] = "viewed" THEN 1 ELSE 0

(* The resource factory an instance refers to is replaced under it in one  *)
(* case only: nothing but the two mutexes, one of each api, keeps a Vulkan *)
(* and a D3D12 instance from being the first together, and when both have  *)
(* found no factory the second one made takes the place of the first.      *)
(* An instance that refers to the second, as all later ones do, keeps it.  *)
FactoryOutlivesInstances ==
  \A i \in Instances :
    /\ instances[i].at \in {"initialize", "allocate", "ready"}
    /\ instances[i].factory # resourceFactory
    => overlapped /\ instances[i].factory = 1 /\ resourceFactory = 2

(* Whatever an instance was given is done in the end: a registration waits *)
(* for its input fence and signals its output fence, and so does an        *)
(* accepted Execute.                                                       *)
EveryPointIsSignalled ==
  \A i \in Instances : \A p \in Points : instances[i].point >= p ~> signalled[i] >= p

=============================================================================
