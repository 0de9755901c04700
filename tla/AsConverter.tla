------------------------------- MODULE AsConverter -------------------------------
(***************************************************************************)
(* NvapiAsConverter, which translates the description of an acceleration   *)
(* structure from NVAPI to D3D12, and the calls that translate and then    *)
(* hand the result to D3D12.                                               *)
(*                                                                         *)
(* The result refers to arrays of the converter.  Builds use a converter   *)
(* that is kept from call to call and holds whatever the last one left     *)
(* there; queries of prebuild information use a new one.  Another thread   *)
(* can come in between the translation and the call of D3D12 (external),   *)
(* which reads the arrays.                                                 *)
(*                                                                         *)
(* Descriptions of geometries and buffers are abstracted to one value      *)
(* each, and the flags that are only copied to one.  A request carries     *)
(* whether its device supports opacity micromaps.                          *)
(***************************************************************************)
EXTENDS Naturals, Sequences, SequencesExt

CONSTANTS
  BuildThreads,   \* the application's threads
  StackReserve,   \* geometries a converter has room for at first, 16 in the code
  Asked           \* what the application may ask for, see AskedAssumption

\* What is only copied: "none" is no value of it.
GeometryTypes == {"TRIANGLES", "AABBS", "OMM_TRIANGLES", "DMM_TRIANGLES", "SPHERES", "LSS",
                  "UNKNOWN"}
\* Only triangles with micromaps have an attachment.
Geometry ==
  {g \in [type : GeometryTypes, data : STRING, attachment : STRING] :
     g.type # "OMM_TRIANGLES" => g.attachment = "none"}
OmmFlags == {"ALLOW_OMM_UPDATE", "ALLOW_DISABLE_OMMS", "ALLOW_OMM_OPACITY_STATES_UPDATE"}
ArrayFlags == {"PREFER_FAST_TRACE", "UNKNOWN"}
AskedAssumption ==
  \A a \in Asked :
    /\ a.op \in {"build", "prebuildInfo"}
    /\ a.type \in {"TOP_LEVEL", "BOTTOM_LEVEL", "OPACITY_MICROMAP_ARRAY"}
    /\ a.supportsOmm \in BOOLEAN
    /\ a.flags \subseteq ArrayFlags
                    \cup (IF a.type = "OPACITY_MICROMAP_ARRAY" THEN {} ELSE OmmFlags)
    /\ a.layout \in {"ARRAY", "ARRAY_OF_POINTERS"}
    /\ a.stride \in Nat
    /\ a.descs \in Seq(Geometry)        \* bottom level
    /\ a.data \in STRING                \* instances, or histogram and input of an array
    /\ a.postbuild \in Seq({"CURRENT_SIZE", "UNKNOWN"})
    /\ a.op = "prebuildInfo" => a.postbuild = <<>>

ASSUME ConverterAssumption == StackReserve \in Nat \ {0} /\ AskedAssumption

VARIABLES
  converters,   \* thread -> the thread_local m_asConverter
  building      \* the call each thread is in

asVars == <<converters, building>>

-----------------------------------------------------------------------------
(* Flags and types *)

IsArray(asked) == asked.type = "OPACITY_MICROMAP_ARRAY"

\* D3D12 has no flag for updates of the opacity states only; the wider one stands in.
BuildFlagsToD3d12(flags, supportsOmm) ==
  LET kept == {f \in flags : supportsOmm \/ f \notin OmmFlags}
  IN  {IF f = "ALLOW_OMM_OPACITY_STATES_UPDATE" THEN "ALLOW_OMM_UPDATE" ELSE f : f \in kept}

\* The smallest stride with which an array of geometries holds one of a type.
SizeOf(type) == CASE type = "AABBS" -> 1 [] type = "TRIANGLES" -> 2 [] OTHER -> 3

StrideTooSmall(asked, type) == asked.layout # "ARRAY_OF_POINTERS" /\ asked.stride < SizeOf(type)

\* GeomDescTypeToD3d12 and the switch after it.
GeometryStatus(asked, g) ==
  CASE g.type = "UNKNOWN"                                  -> "INVALID_ARGUMENT"
    [] g.type \in {"DMM_TRIANGLES", "SPHERES", "LSS"}      -> "NOT_SUPPORTED"
    [] g.type = "OMM_TRIANGLES" /\ ~asked.supportsOmm            -> "NOT_SUPPORTED"
    [] OTHER -> IF StrideTooSmall(asked, g.type) THEN "INVALID_ARGUMENT" ELSE "OK"

-----------------------------------------------------------------------------
(* NvapiAsConverter *)

None == "none"
Uninitialized == [type |-> None, data |-> None, linkage |-> 0]

\* The stack arrays of a new converter.
NewConverter ==
  [geometryDescs |-> [i \in 1 .. StackReserve |-> Uninitialized],
   linkageDescs |-> [i \in 1 .. StackReserve |-> None]]

m_reserved(converter) == Len(converter.geometryDescs)

\* Larger arrays take the place of those there are; nothing is kept of these.
Reserve(converter, size) ==
  IF size <= m_reserved(converter) THEN converter
  ELSE [geometryDescs |-> [i \in 1 .. size |-> Uninitialized],
        linkageDescs |-> [i \in 1 .. size |-> None]]

\* What is written for a geometry: with micromaps, a pointer to its linkage too.
GeometryDesc(g, i) ==
  [type |-> g.type, data |-> g.data, linkage |-> IF g.type = "OMM_TRIANGLES" THEN i ELSE 0]

\* The place of the first geometry that cannot be converted; after the last if all can.
FirstFailure(asked) ==
  LET n == SelectInSeq(asked.descs, LAMBDA g : GeometryStatus(asked, g) # "OK")
  IN  IF n = 0 THEN Len(asked.descs) + 1 ELSE n

\* The arrays after the loop over the geometries, which stops at the first failure: of
\* that geometry at most the type is written.
ConvertedArrays(converter, asked) ==
  LET failure == FirstFailure(asked)
      reserved == Reserve(converter, Len(asked.descs))
      Converted(i) == i < failure /\ i <= Len(asked.descs)
      TypeOnly(i) == i = failure /\ i <= Len(asked.descs)
                     /\ asked.descs[i].type \in {"TRIANGLES", "AABBS", "OMM_TRIANGLES"}
  IN  [geometryDescs |-> [i \in 1 .. m_reserved(reserved) |->
         IF Converted(i) THEN GeometryDesc(asked.descs[i], i)
         ELSE IF TypeOnly(i) THEN [reserved.geometryDescs[i] EXCEPT !.type = asked.descs[i].type]
         ELSE reserved.geometryDescs[i]],
       linkageDescs |-> [i \in 1 .. m_reserved(reserved) |->
         IF Converted(i) /\ asked.descs[i].type = "OMM_TRIANGLES"
           THEN asked.descs[i].attachment ELSE reserved.linkageDescs[i]]]

\* What Convert, or OmmArrayInputsToD3d12 and the loop over the postbuild information, answer.
ConvertStatus(asked) ==
  IF IsArray(asked)
    THEN IF ~asked.supportsOmm THEN "NOT_SUPPORTED"
         ELSE IF "UNKNOWN" \in asked.flags \cup ToSet(asked.postbuild) THEN "INVALID_ARGUMENT"
         ELSE "OK"
  ELSE IF "UNKNOWN" \in asked.flags THEN "INVALID_ARGUMENT"
  ELSE IF asked.type = "TOP_LEVEL" \/ FirstFailure(asked) > Len(asked.descs)
    THEN "OK"
  ELSE GeometryStatus(asked, asked.descs[FirstFailure(asked)])

\* Whether Convert gets as far as the arrays.
ReachesGeometries(asked) == asked.type = "BOTTOM_LEVEL" /\ "UNKNOWN" \notin asked.flags

\* The D3D12 description: geometries by reference, as an array whatever they were.
Desc(asked) ==
  [type |-> asked.type,
   flags |-> IF IsArray(asked) THEN asked.flags
             ELSE BuildFlagsToD3d12(asked.flags, asked.supportsOmm),
   layout |-> IF asked.type = "TOP_LEVEL" THEN asked.layout ELSE "ARRAY",
   numDescs |-> IF IsArray(asked) THEN 1 ELSE Len(asked.descs),
   data |-> asked.data]

-----------------------------------------------------------------------------
(* The calls *)

NotCalled == [desc |-> None]
AsIdle == [at |-> "idle"]

AsInit ==
  /\ converters = [t \in BuildThreads |-> NewConverter]
  /\ building = [t \in BuildThreads |-> AsIdle]

\* Mutant: the converter is kept with the command list, or the device, for all threads.
OneForAll(t) == CHOOSE u \in BuildThreads : TRUE

\* m_asConverter is thread_local.
ThreadConverter(t) == t

\* The end of the call if the conversion failed, else on to D3D12.
Answer(t, asked, local) ==
  LET status == ConvertStatus(asked)
  IN  /\ building[t].at = "idle"
      /\ building' = [building EXCEPT ![t] =
           [at |-> IF status = "OK" THEN "converted" ELSE "done",
            asked |-> asked, status |-> status, local |-> local, got |-> NotCalled]]

\* NvAPI_D3D12_BuildRaytracingAccelerationStructureEx
Build(t, asked) ==
  /\ asked.op = "build" /\ ~IsArray(asked)
  /\ Answer(t, asked, NewConverter)
  /\ converters' = IF ReachesGeometries(asked)
                     THEN [converters EXCEPT ![ThreadConverter(t)] = ConvertedArrays(@, asked)]
                     ELSE converters

\* NvAPI_D3D12_GetRaytracingAccelerationStructurePrebuildInfoEx
GetPrebuildInfo(t, asked) ==
  /\ asked.op = "prebuildInfo" /\ ~IsArray(asked)
  /\ Answer(t, asked, IF ReachesGeometries(asked) THEN ConvertedArrays(NewConverter, asked)
                       ELSE NewConverter)
  /\ UNCHANGED converters

\* NvAPI_D3D12_BuildRaytracingOpacityMicromapArray, which needs no converter
BuildArray(t, asked) ==
  /\ asked.op = "build" /\ IsArray(asked)
  /\ Answer(t, asked, NewConverter)
  /\ UNCHANGED converters

\* NvAPI_D3D12_GetRaytracingOpacityMicromapArrayPrebuildInfo
GetArrayPrebuildInfo(t, asked) ==
  /\ asked.op = "prebuildInfo" /\ IsArray(asked)
  /\ Answer(t, asked, NewConverter)
  /\ UNCHANGED converters

\* What D3D12 finds where a description points to.
Read(converter, n) ==
  [i \in 1 .. n |->
     LET d == converter.geometryDescs[i]
     IN  [type |-> d.type, data |-> d.data,
          attachment |-> IF d.linkage = 0 THEN None ELSE converter.linkageDescs[d.linkage]]]

\* pCommandList->BuildRaytracingAccelerationStructure, or
\* pDevice->GetRaytracingAccelerationStructurePrebuildInfo.
CallD3d12(t) ==
  /\ building[t].at = "converted"
  /\ LET call == building[t]
         converter == IF call.asked.op = "build" THEN converters[ThreadConverter(t)] ELSE call.local
         geometries == IF call.asked.type = "BOTTOM_LEVEL"
                         THEN Read(converter, Len(call.asked.descs)) ELSE <<>>
     IN  building' = [building EXCEPT ![t] =
           [call EXCEPT !.at = "done", !.local = NewConverter,
                        !.got = [desc |-> Desc(call.asked),
                                 geometries |-> geometries,
                                 postbuild |-> call.asked.postbuild]]]
  /\ UNCHANGED converters

Return(t) ==
  /\ building[t].at = "done"
  /\ building' = [building EXCEPT ![t] = AsIdle]
  /\ UNCHANGED converters

AsNext ==
  \E t \in BuildThreads :
    \/ CallD3d12(t)
    \/ Return(t)
    \/ \E asked \in Asked :
         Build(t, asked) \/ GetPrebuildInfo(t, asked)
         \/ BuildArray(t, asked) \/ GetArrayPrebuildInfo(t, asked)

AsSpec == AsInit /\ [][AsNext]_asVars

-----------------------------------------------------------------------------
(* Properties *)

\* What can be given to D3D12 at all.
Convertible(asked) ==
  /\ "UNKNOWN" \notin asked.flags
  /\ asked.type = "BOTTOM_LEVEL" =>
       \A i \in DOMAIN asked.descs :
         /\ asked.descs[i].type \in {"TRIANGLES", "AABBS"}
              \cup (IF asked.supportsOmm THEN {"OMM_TRIANGLES"} ELSE {})
         /\ asked.layout = "ARRAY" => SizeOf(asked.descs[i].type) <= asked.stride
  /\ IsArray(asked) =>
       asked.supportsOmm /\ "UNKNOWN" \notin ToSet(asked.postbuild)

\* The flags are those asked for: a change of opacity states that was asked for stays
\* possible, and without micromaps nothing of them is asked of D3D12.
FlagsAgree(asked, flags) ==
  /\ flags \ OmmFlags = asked.flags \ OmmFlags
  /\ ~asked.supportsOmm => flags \cap OmmFlags = {}
  /\ asked.supportsOmm =>
       /\ "ALLOW_OMM_UPDATE" \in flags <=>
            asked.flags \cap {"ALLOW_OMM_UPDATE", "ALLOW_OMM_OPACITY_STATES_UPDATE"} # {}
       /\ "ALLOW_DISABLE_OMMS" \in flags <=> "ALLOW_DISABLE_OMMS" \in asked.flags

(* D3D12 is called exactly for what can be converted, and finds what this  *)
(* call asked for: its geometries in their order with their own            *)
(* attachments, whatever earlier calls left in the arrays, whether those   *)
(* failed half way, were longer or shorter, and whatever other threads     *)
(* convert between the conversion and the call.                            *)
BuildsWhatWasAsked ==
  \A t \in BuildThreads : building[t].at = "done" =>
    LET call == building[t]
        asked == call.asked
    IN  IF ~Convertible(asked)
          THEN call.status # "OK" /\ call.got = NotCalled
          ELSE /\ call.status = "OK" /\ call.got # NotCalled
               /\ call.got.desc.data = asked.data
               /\ call.got.postbuild = asked.postbuild
               /\ FlagsAgree(asked, call.got.desc.flags)
               /\ asked.type = "BOTTOM_LEVEL" =>
                    /\ call.got.geometries = asked.descs
                    /\ call.got.desc.numDescs = Len(asked.descs)
                    /\ call.got.desc.layout = "ARRAY"

=============================================================================
