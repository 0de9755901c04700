------------------------------ MODULE GpuQueries ------------------------------
(***************************************************************************)
(* The queries of nvapi_gpu.cpp that NVML answers.  The application passes *)
(* a structure, new or left from an earlier call, and gets a status.  A    *)
(* query makes up to three calls of NVML, which is optional: nvml.dll may  *)
(* be missing or lack newer functions, the adapter may be unknown to it,   *)
(* and the GPU may be lost at any moment, also between two of the calls.   *)
(*                                                                         *)
(* Figures are abstracted to where they come from, Sources.  Utilization 4 *)
(* stands for 4 to 7, clock domain "other" for all that NVML is not asked  *)
(* for.                                                                    *)
(***************************************************************************)
EXTENDS Integers, FiniteSets

CONSTANT
  NvmlLibraries   \* what may be found as nvml.dll: [functions, initialises]

VARIABLES
  nvml,           \* the library in use: [available, functions]
  nvmlDevice,     \* does NVML know the adapter?
  fakesSuccess,   \* is this a program for which needsSucceededGpuQuery answers true?
  lost,           \* has the GPU fallen off the bus?
  query,          \* the call in progress: [name, asked, step, unsupported]
  shown,          \* the application's structure: its entries and their sources
  count,          \* ... and its number of sensors
  given,          \* the entries for which NVML gave a figure during this call
  answer          \* the last call that returned: [name, asked, status]

queryVars == <<nvml, nvmlDevice, fakesSuccess, lost, query, shown, count, given, answer>>

-----------------------------------------------------------------------------

Sources ==
  {"absent",      \* not marked as present
   "before",      \* whatever the structure held when it was passed
   "nvml",        \* from NVML, by this call
   "constant"}    \* made up by the query

Clocks == {"graphics", "memory", "video"}
MaxSensors == 3

\* The queries that make one call of NVML for one figure; those that the programs of
\* needsSucceededGpuQuery must not fail; and what an NVML without the function makes of it.
ValueQueries ==
  [GetCurrentPCIEDownstreamWidth |->
     [call |-> "CurrPcieLinkWidth", fakes |-> FALSE, missing |-> "NoImplementation"],
   GetIRQ |-> [call |-> "IrqNum", fakes |-> FALSE, missing |-> "NoImplementation"],
   GetGpuCoreCount |-> [call |-> "NumGpuCores", fakes |-> TRUE, missing |-> "NoImplementation"],
   GetTachReading |-> [call |-> "FanSpeedRPM", fakes |-> FALSE, missing |-> "Error"],
   GetCurrentPstate |->
     [call |-> "PerformanceState", fakes |-> TRUE, missing |-> "NoImplementation"]]

QueryNames ==
  DOMAIN ValueQueries \cup
  {"GetPCIIdentifiers", "GetBusType", "GetVbiosVersionString", "GetPstates20",
   "GetDynamicPstatesInfoEx", "GetThermalSettings", "GetAllClockFrequencies"}

Entries(q) ==
  CASE q = "GetAllClockFrequencies" -> Clocks \cup {"other"}
    [] q = "GetDynamicPstatesInfoEx" -> 0 .. 4
    [] q = "GetThermalSettings" -> 0 .. MaxSensors - 1
    [] OTHER -> {"value"}

\* What else the application asks for: a sensor or all of them, or a type of clock.
AllSensors == 15    \* NVAPI_THERMAL_TARGET_ALL
CurrentFreq == 0    \* NV_GPU_CLOCK_FREQUENCIES_CURRENT_FREQ
Arguments(q) ==
  CASE q = "GetThermalSettings" -> {0, 1, AllSensors}
    [] q = "GetAllClockFrequencies" -> {CurrentFreq, CurrentFreq + 2}
    [] OTHER -> {0}

\* What the structure may hold when it is passed.
Passed(q) ==
  [Entries(q) -> IF q \in {"GetAllClockFrequencies", "GetDynamicPstatesInfoEx"}
                 THEN {"absent", "before"} ELSE {"before"}]

Idle == [name |-> "none", asked |-> 0, step |-> "idle", unsupported |-> {}]
NoAnswer == [name |-> "none", asked |-> 0, status |-> "none"]

-----------------------------------------------------------------------------
(* NVML *)

Required == {"Init", "Shutdown", "ErrorString", "HandleByPciBusId"}

\* Nvml::Nvml: without one of the functions it needs, or when it does not initialise, the
\* library is freed again.
Loaded(library) ==
  [available |-> Required \subseteq library.functions /\ library.initialises,
   functions |-> library.functions]

\* What a wrapper of Nvml returns.
Results(function) ==
  IF function \notin nvml.functions THEN {"functionNotFound"}
  ELSE IF lost THEN {"gpuIsLost"}
  ELSE {"success", "notSupported", "error"}
       \cup (IF function = "ThermalSettings" THEN {"invalidArgument"} ELSE {})

Ready == nvml.available /\ nvmlDevice

GpuIsLost ==
  /\ nvmlDevice /\ ~lost /\ lost' = TRUE
  /\ UNCHANGED <<nvml, nvmlDevice, fakesSuccess, query, shown, count, given, answer>>

-----------------------------------------------------------------------------

NothingAsked ==
  /\ nvmlDevice \in (IF nvml.available THEN BOOLEAN ELSE {FALSE})
  /\ lost = FALSE
  /\ query = Idle
  /\ shown \in Passed("GetIRQ") /\ count = 0 /\ given = {}
  /\ answer = NoAnswer

\* The library is looked for, and asked for the adapter, when the API is initialised.
QueriesInit ==
  /\ nvml \in {Loaded(library) : library \in NvmlLibraries}
  /\ fakesSuccess \in BOOLEAN
  /\ NothingAsked

Ask(q) ==
  /\ query = Idle
  /\ \E asked \in Arguments(q) :
       query' = [name |-> q, asked |-> asked, step |-> "entered", unsupported |-> {}]
  /\ shown' \in Passed(q)
  /\ count' \in (IF q = "GetThermalSettings" THEN {0, MaxSensors} ELSE {0})
  /\ given' = {}
  /\ answer' = NoAnswer
  /\ UNCHANGED <<nvml, nvmlDevice, fakesSuccess, lost>>

At(q, step) ==
  /\ query.name = q /\ query.step = step
  /\ UNCHANGED <<nvml, nvmlDevice, fakesSuccess, lost>>

Entered(q) == At(q, "entered")

Return(status) ==
  /\ answer' = [name |-> query.name, asked |-> query.asked, status |-> status]
  /\ query' = Idle

Proceed(step) == query' = [query EXCEPT !.step = step] /\ UNCHANGED answer

Nothing == UNCHANGED <<shown, count, given>>
Gave(entries) == given' = given \cup entries

Status ==
  [success |-> "OK", functionNotFound |-> "NoImplementation", notSupported |-> "NotSupported",
   gpuIsLost |-> "HandleInvalidated", error |-> "Error", invalidArgument |-> "InvalidArgument"]

Write(source) == shown' = [e \in DOMAIN shown |-> source] /\ UNCHANGED count

\* What every query looks at first: the registry, the arguments, the handle.
Refuse ==
  /\ query.step = "entered"
  /\ Return("Refused") /\ Nothing
  /\ UNCHANGED <<nvml, nvmlDevice, fakesSuccess, lost>>

-----------------------------------------------------------------------------
(* Queries for one figure *)

GetValue(q) ==
  /\ Entered(q)
  /\ \/ ~nvml.available /\ Nothing
        /\ Return(IF ValueQueries[q].fakes /\ fakesSuccess THEN "OK" ELSE "NoImplementation")
     \/ nvml.available /\ ~nvmlDevice /\ Return("HandleInvalidated") /\ Nothing
     \/ /\ Ready
        /\ \E result \in Results(ValueQueries[q].call) :
             \/ result = "success" /\ Return("OK") /\ Write("nvml") /\ Gave({"value"})
             \/ /\ result # "success" /\ Nothing
                /\ Return(IF result = "functionNotFound" THEN ValueQueries[q].missing
                          ELSE Status[result])

\* The one identifier that NVML tells, the sub-system's, is 0 without it.
GetPCIIdentifiers ==
  /\ Entered("GetPCIIdentifiers")
  /\ Return("OK")
  /\ \/ Ready /\ "success" \in Results("PciInfo") /\ Write("nvml") /\ Gave({"value"})
     \/ Write("constant") /\ Gave({})

\* Whatever keeps NVML from answering, the architecture tells the type of the bus.
GetBusType ==
  /\ Entered("GetBusType")
  /\ Return("OK")
  /\ \/ Ready /\ "success" \in Results("BusType") /\ Write("nvml") /\ Gave({"value"})
     \/ Write("constant") /\ Gave({})

\* "N/A" stands for a version that NVML has no way to tell.
GetVbiosVersionString ==
  /\ Entered("GetVbiosVersionString")
  /\ \/ ~Ready /\ Return("OK") /\ Write("constant") /\ Gave({})
     \/ /\ Ready
        /\ \E result \in Results("VbiosVersion") :
             CASE result = "success" -> Return("OK") /\ Write("nvml") /\ Gave({"value"})
               [] result = "functionNotFound" -> Return("OK") /\ Write("constant") /\ Gave({})
               [] OTHER -> Return(Status[result]) /\ Nothing

GetPstates20 ==
  /\ Entered("GetPstates20")
  /\ \/ fakesSuccess /\ Return("OK") /\ Write("constant") /\ Gave({})
     \/ ~fakesSuccess /\ Return("NoImplementation") /\ Nothing

-----------------------------------------------------------------------------
(* Utilization: an older NVML is asked for the rates of two of the domains *)

NothingPresent == Write("absent") /\ Gave({})

GetDynamicPstatesInfoEx ==
  /\ Entered("GetDynamicPstatesInfoEx")
  /\ \/ ~nvml.available /\ fakesSuccess /\ Return("OK") /\ NothingPresent
     \/ ~nvml.available /\ ~fakesSuccess /\ Return("NoImplementation") /\ Nothing
     \/ nvml.available /\ ~nvmlDevice /\ Return("HandleInvalidated") /\ Nothing
     \/ /\ Ready
        /\ \E result \in Results("DynamicPstatesInfo") :
             CASE result = "success" ->
                    \E present \in SUBSET DOMAIN shown :
                      /\ shown' = [e \in DOMAIN shown |->
                                     IF e \in present THEN "nvml" ELSE "absent"]
                      /\ Return("OK") /\ Gave(present) /\ UNCHANGED count
               [] result = "functionNotFound" -> Proceed("rates") /\ Nothing
               [] result = "notSupported" -> Return("NotSupported") /\ NothingPresent
               [] OTHER -> Return(Status[result]) /\ Nothing

\* The structure after DeviceGetUtilizationRates: video and bus are shown as idle.
RatesOnly ==
  [e \in DOMAIN shown |->
     CASE e \in {0, 1} -> "nvml" [] e \in {2, 3} -> "constant" [] OTHER -> "absent"]

GetUtilizationRates ==
  /\ At("GetDynamicPstatesInfoEx", "rates")
  /\ \E result \in Results("UtilizationRates") :
       CASE result = "success" ->
              Return("OK") /\ shown' = RatesOnly /\ Gave({0, 1}) /\ UNCHANGED count
         [] result = "notSupported" -> Return("NotSupported") /\ NothingPresent
         [] OTHER -> Return(Status[result]) /\ Nothing

-----------------------------------------------------------------------------
(* Temperatures: an older NVML knows one sensor *)

NoSensors == count' = 0 /\ UNCHANGED <<shown, given>>

\* How many sensors are filled when there are total of them: all, or the one asked for, which
\* goes to the first entry.
Filled(asked, total) ==
  IF asked = AllSensors THEN 0 .. total - 1 ELSE IF asked < total THEN {0} ELSE {}

GetThermalSettings ==
  /\ Entered("GetThermalSettings")
  /\ \/ ~nvml.available /\ fakesSuccess /\ Return("OK") /\ NoSensors
     \/ ~nvml.available /\ ~fakesSuccess /\ Return("NoImplementation") /\ Nothing
     \/ nvml.available /\ ~nvmlDevice /\ query.asked = 1 /\ Return("OK") /\ NoSensors
     \/ nvml.available /\ ~nvmlDevice /\ query.asked # 1 /\ Return("HandleInvalidated") /\ Nothing
     \/ /\ Ready
        /\ \E result \in Results("ThermalSettings") :
             CASE result = "success" ->
                    \E total \in 0 .. MaxSensors :
                      /\ count' = total
                      /\ shown' = [i \in DOMAIN shown |->
                                     IF i \in Filled(query.asked, total) THEN "nvml" ELSE shown[i]]
                      /\ Return("OK") /\ Gave(Filled(query.asked, total))
               [] result = "functionNotFound" /\ query.asked # 1 ->
                    Proceed("temperature") /\ Nothing
               [] result = "functionNotFound" /\ query.asked = 1 -> Return("OK") /\ NoSensors
               [] result = "notSupported" -> Return("NotSupported") /\ NoSensors
               [] OTHER -> Return(Status[result]) /\ Nothing

GetTemperatureV ==
  /\ At("GetThermalSettings", "temperature")
  /\ \E result \in Results("TemperatureV") :
       CASE result = "success" ->
              /\ count' = 1 /\ shown' = [shown EXCEPT ![0] = "nvml"]
              /\ Return("OK") /\ Gave({0})
         [] result = "notSupported" -> Return("NotSupported") /\ NoSensors
         [] OTHER -> Return(Status[result]) /\ Nothing

-----------------------------------------------------------------------------
(* Clocks: one call of NVML for each, any of which may fail *)

\* Mutant: what an earlier call found is left in the domains.
KeepDomains(domains) == domains

ResetDomains(domains) == [e \in DOMAIN domains |-> "absent"]

\* The result of asking NVML for a clock, over the domains as they were before; done says
\* whether it was the last one.
ClockInfo(clock, domains, next) ==
  /\ UNCHANGED count
  /\ \E result \in Results("ClockInfo") :
       LET supported == result # "notSupported"
           unsupported == query.unsupported \cup (IF supported THEN {} ELSE {clock})
       IN /\ shown' = IF result = "success" THEN [domains EXCEPT ![clock] = "nvml"] ELSE domains
          /\ Gave(IF result = "success" THEN {clock} ELSE {})
          /\ CASE result \notin {"success", "notSupported"} -> Return(Status[result])
               [] next = "done" -> Return(IF unsupported = Clocks THEN "NotSupported" ELSE "OK")
               [] OTHER -> /\ query' = [query EXCEPT !.step = next, !.unsupported = unsupported]
                           /\ UNCHANGED answer

GetAllClockFrequencies ==
  /\ Entered("GetAllClockFrequencies")
  /\ \/ query.asked # CurrentFreq /\ Return("NotSupported") /\ Nothing
     \/ /\ query.asked = CurrentFreq
        /\ \/ ~nvml.available /\ fakesSuccess /\ Return("OK") /\ NothingPresent
           \/ ~nvml.available /\ ~fakesSuccess /\ Return("NoImplementation") /\ Nothing
           \/ nvml.available /\ ~nvmlDevice /\ Return("HandleInvalidated") /\ Nothing
           \/ Ready /\ ClockInfo("graphics", ResetDomains(shown), "memory")

GetMemoryClock == At("GetAllClockFrequencies", "memory") /\ ClockInfo("memory", shown, "video")
GetVideoClock == At("GetAllClockFrequencies", "video") /\ ClockInfo("video", shown, "done")

-----------------------------------------------------------------------------

QueriesNext ==
  \/ \E q \in QueryNames : Ask(q)
  \/ \E q \in DOMAIN ValueQueries : GetValue(q)
  \/ Refuse \/ GpuIsLost
  \/ GetPCIIdentifiers \/ GetBusType \/ GetVbiosVersionString \/ GetPstates20
  \/ GetDynamicPstatesInfoEx \/ GetUtilizationRates
  \/ GetThermalSettings \/ GetTemperatureV
  \/ GetAllClockFrequencies \/ GetMemoryClock \/ GetVideoClock

-----------------------------------------------------------------------------

\* The entries an application may take for figures after the call that returned.
Figures ==
  IF answer.name = "GetThermalSettings" THEN Filled(answer.asked, count)
  ELSE {e \in DOMAIN shown : shown[e] # "absent"}

\* The two queries that a quirk makes succeed without NVML write nothing (nvapi_gpu.cpp:165
\* and 1125), unlike the others, which say that nothing is present.
FakedValue ==
  answer.name \in DOMAIN ValueQueries /\ ~nvml.available

Replaceable ==
  [n \in QueryNames |->
     CASE n = "GetDynamicPstatesInfoEx" -> {2, 3}
       [] n \in {"GetPCIIdentifiers", "GetBusType", "GetVbiosVersionString", "GetPstates20"} ->
          {"value"}
       [] OTHER -> {}]

\* Whatever the structure held when it was passed, whichever functions NVML lacks, and wherever
\* among the calls of a query the GPU is lost or a figure is refused: a query that succeeds
\* reports each figure that NVML gave during this call, and besides those only the constants it
\* replaces missing ones with, never what an earlier call left; and a query of several entries
\* for which NVML has no answer reports none.
AnswersAreCurrent ==
  /\ answer.status = "OK" /\ ~FakedValue =>
       /\ given = {e \in Figures : shown[e] = "nvml"}
       /\ \A e \in Figures \ given : shown[e] = "constant" /\ e \in Replaceable[answer.name]
  /\ /\ answer.status = "NotSupported"
     /\ \/ answer.name \in {"GetDynamicPstatesInfoEx", "GetThermalSettings"}
        \/ answer.name = "GetAllClockFrequencies" /\ answer.asked = CurrentFreq
     => Figures = {}

=============================================================================
