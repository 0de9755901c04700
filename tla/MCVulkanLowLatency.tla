-------------------------- MODULE MCVulkanLowLatency --------------------------
(***************************************************************************)
(* Instances of VulkanLowLatency for model checking.                       *)
(***************************************************************************)
EXTENDS VulkanLowLatency

\* A VkDevice with the first revision of the extension, one with the layer below
\* it, and one that can only be faked.
OneOfEach == {{"legacy", "signal"}, {"lowLatency2", "signal"}, {"signal"}}
LayerOnly == {{"lowLatency2", "signal"}}

=============================================================================
