-------------------------------- MODULE MCSetup --------------------------------
(***************************************************************************)
(* Instances for model checking of the parts that answer from what they    *)
(* find around them: the adapter registry, driver settings, the set-up of  *)
(* the Reflex layer, and the queries that NVML answers.  They share no     *)
(* state, so a behaviour takes the steps of one of them, "component".      *)
(***************************************************************************)
EXTENDS AdapterRegistry, DrsSettings, ReflexSetup, GpuQueries

VARIABLE component

-----------------------------------------------------------------------------
(* Adapters: every driver, every reason to be left out, up to two          *)
(* displays, and GPU ids and LUIDs that may be shared.                     *)

Adapter(interfaces, vulkan, driver, nvidiaVendor, board, luid, outputs) ==
  [interfaces |-> interfaces, vulkan |-> vulkan, driver |-> driver,
   nvidiaVendor |-> nvidiaVendor, board |-> board, luid |-> luid, outputs |-> outputs]

MCAdapters ==
  {Adapter(FALSE, TRUE, "nvidia", TRUE, 1, 1, 1),
   Adapter(TRUE, FALSE, "nvidia", TRUE, 1, 1, 1)}
  \cup {Adapter(TRUE, TRUE, "nvidia", TRUE, board, luid, outputs) :
          board \in {1, 2}, luid \in {0, 1}, outputs \in {0, 2}}
  \cup {Adapter(TRUE, TRUE, "nvk", vendor, 2, 2, 1) : vendor \in BOOLEAN}
  \cup {Adapter(TRUE, TRUE, "other", FALSE, 3, 0, 1)}

-----------------------------------------------------------------------------
(* Driver settings: two that have names, MODE's id a number that is asked  *)
(* for, and one that has none; up to two entries, with everything that can *)
(* be wrong with one.                                                      *)

Name(name) == [name |-> name, number |-> NotANumber]
Digits(number) == [name |-> NoName, number |-> number]
Entry(key, value) == [equals |-> TRUE, key |-> key, value |-> value]

MCSettingIds == [MODE |-> 1, PRESET |-> 2]
MCSettingValues == (1 :> [ON |-> 1, OFF |-> 0]) @@ (2 :> [ON |-> 7])

MCEntries ==
  {Entry(Name("MODE"), Name("ON")), Entry(Digits(1), Name("OFF")), Entry(Digits(1), Digits(5)),
   Entry(Name("PRESET"), Name("ON")), Entry(Digits(3), Digits(4)),
   Entry(Digits(3), Name("ON")),                              \* no names of values
   Entry(Name("MODE"), Digits(9)), Entry(Digits(9), Digits(0)),   \* too large
   Entry(Name("else"), Digits(0)), Entry(EmptyWord, Digits(0)), Entry(Digits(1), EmptyWord),
   [Entry(Digits(1), EmptyWord) EXCEPT !.equals = FALSE]}

MCEnvironments ==
  [list : {<<>>} \cup {<<e>> : e \in MCEntries} \cup MCEntries \X MCEntries,
   dedicated : {[MODE |-> w, PRESET |-> EmptyWord] :
                  w \in {EmptyWord, Name("OFF"), Digits(6), Name("else")}}]

MCChanged ==
  {[list |-> <<Entry(Digits(1), Digits(2))>>, dedicated |-> [MODE |-> Digits(3), PRESET |-> Name("ON")]]}

-----------------------------------------------------------------------------
(* The layer *)

MCLayerSettings ==
  {f \in [{"INJECT_SUBMIT_FRAME_IDS", "INJECT_PRESENT_FRAME_IDS"} -> {"unset", "0", "1", "else"}] :
     f["INJECT_SUBMIT_FRAME_IDS"] \in {"unset", "1"}}

MCInstanceRequests ==
  [hasInfo : {TRUE}, apiVersion : {10, 11, 12}, extensions : {<<>>, <<"other">>, <<"gpdp2">>}]
  \cup [hasInfo : {FALSE}, apiVersion : {10}, extensions : {<<>>}]

Gpu(ll2, extensions) ==
  [enumerates |-> TRUE, ll2 |-> ll2, extensions |-> {"other", "like_ll", "ts"} \cup extensions]

MCDeviceRequests ==
  [hasInfo : {TRUE},
   extensions : {<<>>, <<"other">>, <<"ll", "other">>, <<"other", "pid", "ll", "ts">>,
                 <<"like_ll", "ts">>, <<"ll2", "pid">>},
   gpu : {Gpu(2, {"ll2", "pid"}), Gpu(2, {"ll2"}), Gpu(1, {"ll2", "pid"}), Gpu(0, {"ll", "pid"}),
          [Gpu(2, {"ll2"}) EXCEPT !.enumerates = FALSE]}]
  \cup {[hasInfo |-> FALSE, extensions |-> <<>>, gpu |-> Gpu(2, {"ll2"})]}

MCChains ==
  {c \in UNION {[ss -> BOOLEAN] : ss \in SUBSET Structures} :
     ~{"Vulkan12Features", "TimelineSemaphoreFeatures"} \subseteq DOMAIN c}

-----------------------------------------------------------------------------
(* NVML: none, one that cannot be used, one without what was added last,   *)
(* one that has little beyond what is required, and a current one          *)

Older == Required \cup {"PciInfo", "ClockInfo", "UtilizationRates", "TemperatureV", "VbiosVersion",
                       "BusType", "CurrPcieLinkWidth", "IrqNum", "NumGpuCores", "PerformanceState"}

MCNvmlLibraries ==
  [functions : {{}, Required, Older,
                Older \cup {"DynamicPstatesInfo", "ThermalSettings", "FanSpeedRPM"}},
   initialises : {TRUE}]
  \cup {[functions |-> Older, initialises |-> FALSE]}

-----------------------------------------------------------------------------

NoAdapters == dxgiAdapters = <<>> /\ primary = <<1, 0>> /\ settings = {} /\ EmptyRegistry
NoEnvironment == environment \in Changed /\ FreshProcess
NoLayer ==
  /\ chain = <<>>
  /\ layerSettings = [f \in {"INJECT_SUBMIT_FRAME_IDS", "INJECT_PRESENT_FRAME_IDS"} |-> "unset"]
  /\ NothingSetUp
NoQueries ==
  /\ nvml = Loaded([functions |-> {}, initialises |-> TRUE]) /\ fakesSuccess = FALSE
  /\ NothingAsked

MCInit ==
  \/ component = "adapters" /\ RegistryInit /\ NoEnvironment /\ NoLayer /\ NoQueries
  \/ component = "drs" /\ NoAdapters /\ DrsInit /\ NoLayer /\ NoQueries
  \/ component = "layer" /\ NoAdapters /\ NoEnvironment /\ SetupInit /\ NoQueries
  \/ component = "queries" /\ NoAdapters /\ NoEnvironment /\ NoLayer /\ QueriesInit

MCNext ==
  \/ component = "adapters" /\ RegistryNext
     /\ UNCHANGED <<component, drsVars, setupVars, queryVars>>
  \/ component = "drs" /\ DrsNext /\ UNCHANGED <<component, registryVars, setupVars, queryVars>>
  \/ component = "layer" /\ SetupNext /\ UNCHANGED <<component, registryVars, drsVars, queryVars>>
  \/ component = "queries" /\ QueriesNext
     /\ UNCHANGED <<component, registryVars, drsVars, setupVars>>

MCSpec == MCInit /\ [][MCNext]_<<component, registryVars, drsVars, setupVars, queryVars>>

=============================================================================
