------------------------------ MODULE CubinShaders ------------------------------
(***************************************************************************)
(* The CUDA compute shaders of NvapiD3d12Device and the shared memory each *)
(* asks for.                                                               *)
(*                                                                         *)
(* vkd3d-proton (external) makes and destroys the shaders and names them   *)
(* by their addresses; m_cubinSmemMap remembers how much shared memory a   *)
(* shader was made with, for LaunchCubinShader.  Each use of the map holds *)
(* m_cubinSmemMutex and is one step; making or destroying a shader is      *)
(* another.  The application destroys a shader once, when it has returned  *)
(* from its creation and nobody launches it.  Calls that fail change       *)
(* nothing.                                                                *)
(***************************************************************************)
EXTENDS Integers

CONSTANTS
  Threads,
  Handles,      \* addresses vkd3d-proton's shaders may have; it uses them again
  Sizes         \* amounts of shared memory

ASSUME SizesAssumption == 0 \in Sizes /\ Sizes \subseteq Nat

VARIABLES
  shaders,          \* vkd3d-proton: handle -> the size of the shader there, or NoShader
  m_cubinSmemMap,   \* handle -> size, or NoShader
  usable,           \* handles the application has and may launch
  forgotten,        \* history: shaders the application had when a Reset emptied the map
  crossed,          \* history: shaders made at an address whose last shader was not forgotten yet
  call              \* what each thread is in the middle of

vars == <<shaders, m_cubinSmemMap, usable, forgotten, crossed, call>>

NoShader == -1
Idle == [op |-> "idle"]

Init ==
  /\ shaders = [h \in Handles |-> NoShader]
  /\ m_cubinSmemMap = [h \in Handles |-> NoShader]
  /\ usable = {}
  /\ forgotten = {}
  /\ crossed = {}
  /\ call = [t \in Threads |-> Idle]

Destroying(h) == [op |-> "destroy", h |-> h]
Creating(h, size) == [op |-> "create", h |-> h, size |-> size]

-----------------------------------------------------------------------------

\* CreateCubinComputeShaderEx, CreateCubinComputeShaderWithName (size 0) and
\* CreateCubinComputeShaderExV2: vkd3d-proton makes the shader, ...
Create(t, size) ==
  /\ call[t] = Idle
  /\ \E h \in Handles :
       /\ shaders[h] = NoShader
       /\ shaders' = [shaders EXCEPT ![h] = size]
       /\ forgotten' = forgotten \ {h}
       /\ crossed' = IF \E u \in Threads : call[u] = Destroying(h)
                       THEN crossed \cup {h} ELSE crossed \ {h}
       /\ call' = [call EXCEPT ![t] = Creating(h, size)]
  /\ UNCHANGED <<m_cubinSmemMap, usable>>

\* ... and its size is remembered; emplace keeps an entry that is there already.
Remember(t) ==
  /\ call[t].op = "create"
  /\ LET h == call[t].h
     IN  /\ m_cubinSmemMap' = [m_cubinSmemMap EXCEPT ![h] =
                                 IF @ = NoShader THEN call[t].size ELSE @]
         /\ usable' = usable \cup {h}
  /\ call' = [call EXCEPT ![t] = Idle]
  /\ UNCHANGED <<shaders, forgotten, crossed>>

\* DestroyCubinComputeShader: vkd3d-proton destroys the shader, ...
Destroy(t, h) ==
  /\ call[t] = Idle
  /\ h \in usable
  /\ usable' = usable \ {h}
  /\ shaders' = [shaders EXCEPT ![h] = NoShader]
  /\ call' = [call EXCEPT ![t] = Destroying(h)]
  /\ UNCHANGED <<m_cubinSmemMap, forgotten, crossed>>

\* Mutant: the entry stays.
KeepEntry(t) ==
  /\ call[t].op = "destroy"
  /\ call' = [call EXCEPT ![t] = Idle]
  /\ UNCHANGED <<shaders, m_cubinSmemMap, usable, forgotten, crossed>>

\* ... and its size is forgotten.
Forget(t) ==
  /\ call[t].op = "destroy"
  /\ m_cubinSmemMap' = [m_cubinSmemMap EXCEPT ![call[t].h] = NoShader]
  /\ call' = [call EXCEPT ![t] = Idle]
  /\ UNCHANGED <<shaders, usable, forgotten, crossed>>

\* Reset, when an adapter registry goes.
Reset ==
  /\ m_cubinSmemMap' = [h \in Handles |-> NoShader]
  /\ forgotten' = forgotten \cup usable
  /\ UNCHANGED <<shaders, usable, crossed, call>>

\* What LaunchCubinShader launches a shader with.
FindCubinSmem(h) == IF m_cubinSmemMap[h] = NoShader THEN 0 ELSE m_cubinSmemMap[h]

-----------------------------------------------------------------------------

Next ==
  \/ Reset
  \/ \E t \in Threads :
       \/ \E size \in Sizes : Create(t, size)
       \/ \E h \in Handles : Destroy(t, h)
       \/ Remember(t) \/ Forget(t)

Spec == Init /\ [][Next]_vars

-----------------------------------------------------------------------------
(* Properties *)

TypeOK ==
  /\ shaders \in [Handles -> Sizes \cup {NoShader}]
  /\ m_cubinSmemMap \in [Handles -> Sizes \cup {NoShader}]
  /\ usable \subseteq Handles
  /\ forgotten \subseteq Handles
  /\ crossed \subseteq Handles
  /\ call \in [Threads -> {Idle} \cup [op : {"create"}, h : Handles, size : Sizes]
                                 \cup [op : {"destroy"}, h : Handles]]

(* A shader the application has is launched with the shared memory it was  *)
(* created with, unless the library was taken down since its creation.     *)
LaunchedAsCreated ==
  \A h \in usable \ forgotten : FindCubinSmem(h) = shaders[h]

(* A creation that crosses a destruction is all that breaks it: a shader   *)
(* made at the address of one whose destruction is over, or at a new one,  *)
(* keeps its size whatever other threads create and destroy meanwhile.     *)
OnlyCrossingLosesSize ==
  \A h \in usable \ (forgotten \cup crossed) : FindCubinSmem(h) = shaders[h]

(* The map does not fill up: it remembers shaders that exist, or are about *)
(* to be forgotten.                                                        *)
EntriesHaveShaders ==
  \A h \in Handles : m_cubinSmemMap[h] # NoShader =>
    shaders[h] # NoShader \/ \E t \in Threads : call[t] = Destroying(h)

=============================================================================
