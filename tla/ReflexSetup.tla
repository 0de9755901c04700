------------------------------ MODULE ReflexSetup ------------------------------
(***************************************************************************)
(* How the Vulkan Reflex layer enters a device: CreateInstance and         *)
(* CreateDevice, which rewrite what the application asks for, and decide   *)
(* whether the layer's other commands do anything for the device.          *)
(* ReflexLayer models these commands for a device that was set up.         *)
(*                                                                         *)
(* The driver is external: it creates what it supports, or fails.  So is   *)
(* the application, which may create several devices from one chain of     *)
(* feature structures; the layer writes to these.  A device that supports  *)
(* VK_NV_low_latency2 supports Vulkan 1.2.                                 *)
(***************************************************************************)
EXTENDS Naturals, Sequences, SequencesExt

CONSTANTS
  LayerSettings,      \* what the environment may say of the layer's flags
  InstanceRequests,   \* the instances the application may ask for
  DeviceRequests,     \* the devices the application may ask for
  Chains              \* the feature structures it may pass

\* Extensions, named as the layer names them; "other" and "like_ll", whose name begins
\* with ll's, stand for the rest.
Extensions == {"ll", "ll2", "ts", "pid", "gpdp2", "other", "like_ll"}
Structures == {"Vulkan12Features", "TimelineSemaphoreFeatures", "PresentIdFeatures"}

ASSUME LayerSettingsAssumption ==
  LayerSettings \subseteq
    [{"INJECT_SUBMIT_FRAME_IDS", "INJECT_PRESENT_FRAME_IDS"} -> {"unset", "0", "1", "else"}]
ASSUME InstanceRequestsAssumption ==
  \A r \in InstanceRequests :
    /\ r.hasInfo \in BOOLEAN
    /\ r.apiVersion \in {10, 11, 12}    \* 10 also without VkApplicationInfo
    /\ r.extensions \in Seq(Extensions) /\ IsInjective(r.extensions)
ASSUME DeviceRequestsAssumption ==
  \A r \in DeviceRequests :
    /\ r.hasInfo \in BOOLEAN
    /\ r.extensions \in Seq(Extensions) /\ IsInjective(r.extensions)
    /\ r.gpu \in [enumerates : BOOLEAN, ll2 : 0 .. 2, extensions : SUBSET Extensions]
    /\ r.gpu.ll2 > 0 <=> "ll2" \in r.gpu.extensions
    /\ r.gpu.ll2 > 0 => "ts" \in r.gpu.extensions
ASSUME ChainsAssumption ==      \* the two structures of timeline semaphores exclude each other
  \A c \in Chains :
    /\ DOMAIN c \subseteq Structures /\ c \in [DOMAIN c -> BOOLEAN]
    /\ ~{"Vulkan12Features", "TimelineSemaphoreFeatures"} \subseteq DOMAIN c

VARIABLES
  layerSettings,    \* the environment
  injectFrameIDs,
  instance,         \* the instance, with its ReflexInstanceContextData if it has one
  chain,            \* the application's feature structures: which, and the feature of each
  device            \* the device last asked for, as the driver was asked for it

setupVars == <<layerSettings, injectFrameIDs, instance, chain, device>>

NoInstance == [context |-> FALSE, apiVersion |-> 0, extensions |-> <<>>]
NoDevice == [created |-> FALSE]

Given == layerSettings \in LayerSettings /\ chain \in Chains

NothingSetUp ==
  /\ injectFrameIDs = FALSE
  /\ instance = NoInstance
  /\ device = NoDevice

SetupInit == Given /\ NothingSetUp

-----------------------------------------------------------------------------
(* Instances *)

GetFlag(name) == layerSettings[name] = "1"    \* both are off unless set

WithExtension(list, ext) == IF ext \in ToSet(list) THEN list ELSE Append(list, ext)

\* Init is called by the first; the driver may fail.
CreateInstance(request, succeeds) ==
  /\ instance = NoInstance
  /\ injectFrameIDs' =
       (GetFlag("INJECT_SUBMIT_FRAME_IDS") \/ GetFlag("INJECT_PRESENT_FRAME_IDS"))
  /\ instance' =
       IF ~succeeds THEN NoInstance
       ELSE [context |-> request.hasInfo, apiVersion |-> request.apiVersion,
             extensions |-> IF request.hasInfo /\ request.apiVersion < 11
                              THEN WithExtension(request.extensions, "gpdp2")
                              ELSE request.extensions]
  /\ UNCHANGED <<layerSettings, chain, device>>

-----------------------------------------------------------------------------
(* Devices *)

\* The call goes on to the driver as it is.
Skips(request) ==
  \/ ~request.hasInfo
  \/ ~instance.context
  \/ ~request.gpu.enumerates
  \/ request.gpu.ll2 < 2
  \/ "ll2" \in ToSet(request.extensions)

DefaultExtensions == IF injectFrameIDs THEN <<"ts", "ll2", "pid">> ELSE <<"ts", "ll2">>

\* ll becomes ll2; what is missing is appended.
EnabledExtensions(asked) ==
  LET listed == IF asked = <<>> THEN DefaultExtensions ELSE asked
      replaced == [i \in DOMAIN listed |-> IF listed[i] = "ll" THEN "ll2" ELSE listed[i]]
      withLL2 == WithExtension(replaced, "ll2")
      withTS == IF instance.apiVersion < 12 THEN WithExtension(withLL2, "ts") ELSE withLL2
  IN  IF injectFrameIDs THEN WithExtension(withTS, "pid") ELSE withTS

\* Mutant: Vulkan12Features are not looked for.
TimelineStructureOnly == "TimelineSemaphoreFeatures"

\* Where the feature of timeline semaphores is switched on.
TimelineStructure ==
  IF "Vulkan12Features" \in DOMAIN chain THEN "Vulkan12Features" ELSE "TimelineSemaphoreFeatures"

SwitchedOn == {TimelineStructure} \cup (IF injectFrameIDs THEN {"PresentIdFeatures"} ELSE {})

\* FindInChainMutable: the application's own structures are written to, ...
WrittenChain == [s \in DOMAIN chain |-> chain[s] \/ s \in SwitchedOn]

\* ... and those that are missing are added, for the call only.
PassedChain == [s \in DOMAIN chain \cup SwitchedOn |-> s \in SwitchedOn \/ chain[s]]

\* The driver does not create what it does not support, and may fail at any time.
Accepts(gpu, extensions, features) ==
  /\ ToSet(extensions) \subseteq gpu.extensions
  /\ "PresentIdFeatures" \in DOMAIN features /\ features["PresentIdFeatures"]
       => "pid" \in gpu.extensions

\* dispatch.CreateDevice: what is asked of it, and whether there is a context afterwards.
DriverCreates(request, extensions, features, context, succeeds) ==
  device' = [created |-> succeeds /\ Accepts(request.gpu, extensions, features),
             asked |-> request, askedFeatures |-> chain,
             extensions |-> extensions, features |-> features,
             context |-> context /\ succeeds /\ Accepts(request.gpu, extensions, features)]

CreateDevice(request, succeeds) ==
  /\ instance # NoInstance
  /\ IF Skips(request)
       THEN /\ DriverCreates(request, request.extensions, chain, FALSE, succeeds)
            /\ UNCHANGED chain
       ELSE /\ DriverCreates(request, EnabledExtensions(request.extensions), PassedChain,
                             TRUE, succeeds)
            /\ chain' = WrittenChain
  /\ UNCHANGED <<layerSettings, injectFrameIDs, instance>>

SetupNext ==
  \E succeeds \in BOOLEAN :
    \/ \E request \in InstanceRequests : CreateInstance(request, succeeds)
    \/ \E request \in DeviceRequests : CreateDevice(request, succeeds)

SetupSpec == SetupInit /\ [][SetupNext]_setupVars

-----------------------------------------------------------------------------
(* Properties *)

On(s) == s \in DOMAIN device.features /\ device.features[s]

\* What the commands of ReflexLayer need of a device.
HasWhatLayerUses ==
  LET enabled == ToSet(device.extensions)
  IN  /\ "ll2" \in enabled /\ "ll" \notin enabled
      /\ "ts" \in enabled \/ instance.apiVersion >= 12
      /\ On("Vulkan12Features") \/ On("TimelineSemaphoreFeatures")
      /\ injectFrameIDs => "pid" \in enabled /\ On("PresentIdFeatures")
      /\ instance.apiVersion < 11 => "gpdp2" \in ToSet(instance.extensions)

\* What Vulkan requires of the device's description.
IsValid ==
  /\ IsInjective(device.extensions)
  /\ ~{"Vulkan12Features", "TimelineSemaphoreFeatures"} \subseteq DOMAIN device.features

\* The application has everything it asked for, in its order, but for ll, and nothing
\* beyond what the layer needs.
HasWhatWasAsked ==
  LET asked == device.asked.extensions
  IN  /\ \A i \in DOMAIN asked : asked[i] # "ll" => device.extensions[i] = asked[i]
      /\ ToSet(device.extensions) \subseteq
           ToSet(asked) \cup {"ll2", "ts"} \cup (IF injectFrameIDs THEN {"pid"} ELSE {})
      /\ \A s \in DOMAIN device.askedFeatures : device.askedFeatures[s] => On(s)

(* A device has the layer's context exactly if it was set up completely:   *)
(* it has what the layer's other commands use, its description is valid    *)
(* whatever extensions and feature structures the application brought, and *)
(* it lacks nothing the application asked for.  A device the layer leaves  *)
(* alone, though its chain went through the layer before, is created as    *)
(* the application describes it then.                                      *)
LayerDeviceIsComplete ==
  device.created =>
    IF device.context THEN HasWhatLayerUses /\ IsValid /\ HasWhatWasAsked
    ELSE device.extensions = device.asked.extensions /\ device.features = device.askedFeatures

=============================================================================
