---------------------------- MODULE AdapterRegistry ----------------------------
(***************************************************************************)
(* NvapiAdapterRegistry and the entry points that name GPUs and displays:  *)
(* how a registry is filled from what DXGI reports, and how handles, ids   *)
(* and names are translated into each other afterwards.                    *)
(*                                                                         *)
(* DXGI, Vulkan and the monitors are external.  A registry is a snapshot:  *)
(* a monitor that comes later is seen by the next registry.  ApiLifetime   *)
(* says when registries come and go; there FindAdapters stands for all of  *)
(* this.  An adapter's handle is named by its DXGI index, a display by the *)
(* adapter it is connected to and its index there (Windows gives each a    *)
(* device name of its own).                                                *)
(***************************************************************************)
EXTENDS Naturals, Sequences, SequencesExt

CONSTANTS
  DxgiAdapters,   \* the adapters DXGI may report, see KindsAssumption
  MaxAdapters     \* bound of the model: adapters reported at once

\* An id has 16 bits for the output.
IdsPerAdapter == 65536

ASSUME KindsAssumption ==
  DxgiAdapters \subseteq
    [interfaces : BOOLEAN,                      \* IDXGIAdapter3 is there
     vulkan : BOOLEAN,                          \* its Vulkan device is found, with extensions
     driver : {"nvidia", "nvk", "other"},
     nvidiaVendor : BOOLEAN,                    \* the vendor id DXVK reports
     board : Nat,                               \* PCI address
     luid : Nat,                                \* 0: deviceLUIDValid is not set
     outputs : 0 .. IdsPerAdapter - 2]
ASSUME MaxAdaptersAssumption == MaxAdapters \in Nat

VARIABLES
  dxgiAdapters,     \* DXGI: what EnumAdapters1 reports, indexed from 1
  primary,          \* Windows: the display that is the primary one
  settings,         \* environment: which of the two variables are "1"
  index,            \* how many adapters have been looked at
  m_nvapiAdapters,
  m_nvapiOutputs,
  initialized       \* what Initialize returned, "running" before

registryVars == <<dxgiAdapters, primary, settings, index, m_nvapiAdapters, m_nvapiOutputs, initialized>>

Settings == {"DXVK_NVAPI_ALLOW_OTHER_DRIVERS", "DXVK_ENABLE_NVAPI"}

Reported ==
  /\ dxgiAdapters \in UNION {[1 .. n -> DxgiAdapters] : n \in 0 .. MaxAdapters}
  /\ primary \in {<<i, 0>> : i \in 1 .. MaxAdapters}
  /\ settings \in SUBSET Settings

EmptyRegistry ==
  /\ index = 0
  /\ m_nvapiAdapters = <<>>
  /\ m_nvapiOutputs = <<>>
  /\ initialized = "running"

RegistryInit == Reported /\ EmptyRegistry

-----------------------------------------------------------------------------
(* NvapiAdapterRegistry::Initialize *)

\* The DXGI factory, or the Vulkan loader behind it, cannot be had.
Unavailable ==
  /\ initialized = "running" /\ index = 0
  /\ initialized' = "false"
  /\ UNCHANGED <<dxgiAdapters, primary, settings, index, m_nvapiAdapters, m_nvapiOutputs>>

\* Mutant: an id says where a display is connected to its adapter, and no more.
OutputIndexOnly(i, j) == j + 1

\* The id of output j of the adapter with the DXGI index i (both count from 0).
OutputId(i, j) == (i + 1) * IdsPerAdapter + (j + 1)

Output(parent, j) ==
  [parent |-> parent, id |-> OutputId(parent - 1, j), name |-> <<parent, j>>,
   isPrimary |-> primary = <<parent, j>>]

Outputs(parent) ==
  [n \in 1 .. dxgiAdapters[parent].outputs |-> Output(parent, n - 1)]

\* NvapiAdapter::Initialize: whether an adapter is reported to the application.
Supported(adapter) ==
  /\ adapter.vulkan
  /\ adapter.driver # "other" \/ "DXVK_NVAPI_ALLOW_OTHER_DRIVERS" \in settings
  /\ \/ adapter.driver = "other"
     \/ adapter.nvidiaVendor
     \/ "DXVK_ENABLE_NVAPI" \in settings       \* else DXVK hides that it is NVIDIA's

\* Mutant: the outputs are collected before the adapter is judged.
CollectFirst ==
  /\ initialized = "running" /\ index < Len(dxgiAdapters)
  /\ index' = index + 1
  /\ LET i == index + 1
     IN  /\ m_nvapiOutputs' = m_nvapiOutputs \o Outputs(i)
         /\ m_nvapiAdapters' = IF dxgiAdapters[i].interfaces /\ Supported(dxgiAdapters[i])
                               THEN Append(m_nvapiAdapters, i) ELSE m_nvapiAdapters
  /\ UNCHANGED <<dxgiAdapters, primary, settings, initialized>>

\* The next adapter is added with its outputs, or left out.
EnumAdapter ==
  /\ initialized = "running" /\ index < Len(dxgiAdapters)
  /\ index' = index + 1
  /\ LET i == index + 1
     IN  IF dxgiAdapters[i].interfaces /\ Supported(dxgiAdapters[i])
           THEN /\ m_nvapiAdapters' = Append(m_nvapiAdapters, i)
                /\ m_nvapiOutputs' = m_nvapiOutputs \o Outputs(i)
           ELSE UNCHANGED <<m_nvapiAdapters, m_nvapiOutputs>>
  /\ UNCHANGED <<dxgiAdapters, primary, settings, initialized>>

EndOfAdapters ==
  /\ initialized = "running" /\ index = Len(dxgiAdapters)
  /\ initialized' = IF m_nvapiAdapters # <<>> THEN "true" ELSE "false"
  /\ UNCHANGED <<dxgiAdapters, primary, settings, index, m_nvapiAdapters, m_nvapiOutputs>>

RegistryNext == Unavailable \/ EnumAdapter \/ EndOfAdapters

RegistrySpec == RegistryInit /\ [][RegistryNext]_registryVars

-----------------------------------------------------------------------------
(* What the registry answers.  nullptr is 0, which is no index. *)

FindAdapter(luid) ==
  LET n == SelectInSeq(m_nvapiAdapters, LAMBDA a :
             dxgiAdapters[a].luid # 0 /\ dxgiAdapters[a].luid = luid)
  IN  IF n = 0 THEN 0 ELSE m_nvapiAdapters[n]

\* The place of an output in m_nvapiOutputs; a display handle stands for it.
FindOutputByName(name) == SelectInSeq(m_nvapiOutputs, LAMBDA o : o.name = name)
FindOutput(id) == SelectInSeq(m_nvapiOutputs, LAMBDA o : o.id = id)
FindPrimaryOutput == SelectInSeq(m_nvapiOutputs, LAMBDA o : o.isPrimary)

\* Those of an adapter, copied in their order.
Filtered(outputs, a) ==
  FoldLeft(LAMBDA filtered, o : IF o.parent = a THEN Append(filtered, o) ELSE filtered,
           <<>>, outputs)

\* GetOutputCount and GetOutput of one adapter, together; of all of them in
\* NvAPI_EnumNvidiaDisplayHandle.
OutputsOf(a) == Filtered(m_nvapiOutputs, a)

-----------------------------------------------------------------------------
(* What the entry points answer, given handles they know.  A GPU's handle  *)
(* is its index, a display's its place in m_nvapiOutputs; a logical GPU is *)
(* the physical one.                                                       *)

GetGPUIDfromPhysicalGPU(a) == dxgiAdapters[a].board

\* NvAPI_GetPhysicalGPUFromGPUID takes the last adapter that has the id.
GetPhysicalGPUFromGPUID(gpuId) ==
  LET n == SelectLastInSeq(m_nvapiAdapters, LAMBDA a : dxgiAdapters[a].board = gpuId)
  IN  IF n = 0 THEN 0 ELSE m_nvapiAdapters[n]

GetPhysicalGPUs == m_nvapiAdapters
GetPhysicalGPUFromDisplay(n) == m_nvapiOutputs[n].parent
GetPhysicalGpuFromDisplayId(id) ==
  IF FindOutput(id) = 0 THEN 0 ELSE m_nvapiOutputs[FindOutput(id)].parent

GetAssociatedNvidiaDisplayName(n) == m_nvapiOutputs[n].name
GetAssociatedNvidiaDisplayHandle(name) == FindOutputByName(name)
GetDisplayIdByDisplayName(name) ==
  IF FindOutputByName(name) = 0 THEN 0 ELSE m_nvapiOutputs[FindOutputByName(name)].id
GetGDIPrimaryDisplayId ==
  IF FindPrimaryOutput = 0 THEN 0 ELSE m_nvapiOutputs[FindPrimaryOutput].id

\* NvAPI_GPU_GetConnectedDisplayIds, given room for them.
GetConnectedDisplayIds(a) == [n \in DOMAIN OutputsOf(a) |-> OutputsOf(a)[n].id]

\* Mutant: the displays of the first adapter.
FirstAdapterConfig == IF m_nvapiAdapters = <<>> THEN <<>> ELSE OutputsOf(Head(m_nvapiAdapters))

\* The displays NvAPI_DISP_GetDisplayConfig describes, in its order.
GetDisplayConfig == FlattenSeq([n \in DOMAIN m_nvapiAdapters |-> OutputsOf(m_nvapiAdapters[n])])

-----------------------------------------------------------------------------
(* Properties *)

Initialized == initialized = "true"
Displays == DOMAIN m_nvapiOutputs
Gpus == ToSet(GetPhysicalGPUs)

\* A display is found again by its name, and its name leads to the id that leads to
\* the GPU of its handle, though adapters that are not reported leave gaps; that GPU
\* is one the application can enumerate.
DisplaysResolve ==
  \A n \in Displays :
    LET name == GetAssociatedNvidiaDisplayName(n)
        gpu == GetPhysicalGPUFromDisplay(n)
    IN  /\ GetAssociatedNvidiaDisplayHandle(name) = n
        /\ FindOutput(GetDisplayIdByDisplayName(name)) = n
        /\ GetPhysicalGpuFromDisplayId(GetDisplayIdByDisplayName(name)) = gpu
        /\ gpu \in Gpus

\* A GPU is found again by its id and its LUID, if no other one has the same.
GpusResolve ==
  \A a \in Gpus :
    /\ (\A b \in Gpus : GetGPUIDfromPhysicalGPU(b) = GetGPUIDfromPhysicalGPU(a) => b = a)
         => GetPhysicalGPUFromGPUID(GetGPUIDfromPhysicalGPU(a)) = a
    /\ (dxgiAdapters[a].luid # 0
          /\ \A b \in Gpus : dxgiAdapters[b].luid = dxgiAdapters[a].luid => b = a)
         => FindAdapter(dxgiAdapters[a].luid) = a

\* The primary display is answered with exactly if its adapter is reported.
PrimaryResolves ==
  LET reported == primary[1] \in Gpus /\ dxgiAdapters[primary[1]].outputs > 0
      id == GetGDIPrimaryDisplayId
  IN  IF reported THEN id # 0 /\ m_nvapiOutputs[FindOutput(id)].name = primary
                  ELSE id = 0

(* Every handle the application can be given leads back to where it came   *)
(* from through each of the translations: display ids, display names, GPU  *)
(* ids, LUIDs, and the primary display.                                    *)
HandlesResolve == Initialized => DisplaysResolve /\ GpusResolve /\ PrimaryResolves

(* The three ways to list displays agree: NvAPI_DISP_GetDisplayConfig goes *)
(* through them in the order of NvAPI_EnumNvidiaDisplayHandle, without one *)
(* missing or twice, and each is in the list of exactly one GPU.           *)
DisplayListsAgree ==
  Initialized =>
    /\ GetDisplayConfig = m_nvapiOutputs
    /\ \A n \in Displays : \A a \in Gpus :
         m_nvapiOutputs[n].id \in ToSet(GetConnectedDisplayIds(a))
           <=> m_nvapiOutputs[n].parent = a

=============================================================================
