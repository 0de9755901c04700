------------------------------ MODULE MCD3d12Calls ------------------------------
(***************************************************************************)
(* Instances for model checking of the D3D12 calls that keep something of  *)
(* a call for a later one, or for D3D12: shaders with their shared memory, *)
(* and converted acceleration structures.  They share no state, so a       *)
(* behaviour takes the steps of one of them, "component".                  *)
(***************************************************************************)
EXTENDS CubinShaders, AsConverter

VARIABLE component

-----------------------------------------------------------------------------
(* Requests: lists that are longer or shorter than the last, or than a new *)
(* converter's arrays; geometries that fail after others were converted;   *)
(* every branch of flags, layouts and types.                               *)

Described(type, data, attachment) == [type |-> type, data |-> data, attachment |-> attachment]
Triangles == Described("TRIANGLES", "a", "none")
Aabbs == Described("AABBS", "b", "none")
Omm == Described("OMM_TRIANGLES", "a", "x")
OtherOmm == Described("OMM_TRIANGLES", "b", "y")
Bottom(descs) ==
  [op |-> "build", type |-> "BOTTOM_LEVEL", supportsOmm |-> TRUE, flags |-> {},
   layout |-> "ARRAY", stride |-> 3, descs |-> descs, data |-> "none", postbuild |-> <<>>]
Array(postbuild) ==
  [Bottom(<<>>) EXCEPT !.type = "OPACITY_MICROMAP_ARRAY", !.data = "histogram",
                       !.postbuild = postbuild]
Top(flags) ==
  [Bottom(<<>>) EXCEPT !.type = "TOP_LEVEL", !.data = "instances", !.flags = flags,
                       !.layout = "ARRAY_OF_POINTERS"]
MCAsked ==
  {Bottom(<<Omm, Triangles>>),
   Bottom(<<OtherOmm>>),
   Bottom(<<Aabbs, OtherOmm, Omm>>),
   Bottom(<<OtherOmm, Described("LSS", "c", "none")>>),         \* these three fail half way
   [Bottom(<<Triangles, OtherOmm>>) EXCEPT !.stride = 2],
   [Bottom(<<Aabbs, Omm>>) EXCEPT !.supportsOmm = FALSE],
   [Bottom(<<Aabbs, Triangles>>) EXCEPT !.stride = 0, !.layout = "ARRAY_OF_POINTERS"],
   [Bottom(<<Triangles, Omm>>) EXCEPT !.op = "prebuildInfo"],
   Top({"PREFER_FAST_TRACE", "ALLOW_OMM_OPACITY_STATES_UPDATE"}),
   Top({"UNKNOWN"}),
   [Top(OmmFlags) EXCEPT !.supportsOmm = FALSE],
   [Array(<<"CURRENT_SIZE">>) EXCEPT !.flags = {"PREFER_FAST_TRACE"}],
   [Array(<<>>) EXCEPT !.op = "prebuildInfo"],
   Array(<<"CURRENT_SIZE", "UNKNOWN">>)}

-----------------------------------------------------------------------------

MCInit == component \in {"shaders", "structures"} /\ Init /\ AsInit

MCNext ==
  \/ component = "shaders" /\ Next /\ UNCHANGED <<component, asVars>>
  \/ component = "structures" /\ AsNext /\ UNCHANGED <<component, vars>>

MCSpec == MCInit /\ [][MCNext]_<<component, vars, asVars>>

=============================================================================
