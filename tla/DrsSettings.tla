------------------------------ MODULE DrsSettings ------------------------------
(***************************************************************************)
(* Driver settings: the environment variables DXVK_NVAPI_DRS_SETTINGS and  *)
(* DXVK_NVAPI_DRS_<name>, and NvAPI_DRS_GetSetting, which answers from     *)
(* them for the rest of the process.                                       *)
(*                                                                         *)
(* Text is taken apart already.  A word is a name, compared without regard *)
(* to case, or digits with or without 0x, whose number may be too large,   *)
(* or neither.  DXVK_NVAPI_DRS_SETTINGS is a list of entries, each with    *)
(* the words before and after its first "=".  Process and environment are  *)
(* external; the application may change its environment while it runs,     *)
(* between the reading of two variables and within the reading of one.     *)
(***************************************************************************)
EXTENDS Integers, Sequences, SequencesExt

CONSTANTS
  DrsThreads,
  SettingIds,       \* the names of settings -> their ids, drs::settings
  SettingValues,    \* setting id -> the names of its values -> the values, drs::values
  AskedIds,         \* the settings an application asks for
  MaxDword,         \* the greatest NvU32
  Environments,     \* what the environment may say at first
  Changed           \* ... and what it may say later

NoName == "unnamed"
NotANumber == -1
EmptyWord == [name |-> NoName, number |-> NotANumber]
Word ==
  {EmptyWord} \cup [name : STRING, number : {NotANumber}] \cup [name : {NoName}, number : Nat]

ASSUME SettingsAssumption ==
  /\ MaxDword \in Nat
  /\ SettingIds \in [DOMAIN SettingIds -> 0 .. MaxDword]
  /\ \A m, n \in DOMAIN SettingIds : SettingIds[m] = SettingIds[n] => m = n
  /\ \A id \in DOMAIN SettingValues : SettingValues[id] \in [DOMAIN SettingValues[id] -> 0 .. MaxDword]
  /\ NoName \notin DOMAIN SettingIds \cup UNION {DOMAIN SettingValues[id] : id \in DOMAIN SettingValues}
ASSUME AskedIdsAssumption == AskedIds \subseteq 0 .. MaxDword
ASSUME EnvironmentsAssumption ==
  \A e \in Environments \cup Changed :
    /\ e.list \in Seq([equals : BOOLEAN, key : Word, value : Word])
    /\ e.dedicated \in [DOMAIN SettingIds -> Word]      \* EmptyWord: not set

VARIABLES
  environment,
  nvapiDrsSettingsString,   \* the statics of NvAPI_DRS_GetSetting, Unset at first
  nvapiDrsDwords,
  enrichedFrom,             \* what the dedicated variables said that have been read
  asking                    \* the call each thread is in

drsVars == <<environment, nvapiDrsSettingsString, nvapiDrsDwords, enrichedFrom, asking>>

-----------------------------------------------------------------------------
(* util_drs and str::parsedword; NoDword where these return false. *)

NoDword == -1

parsedword(word) == IF word.number <= MaxDword THEN word.number ELSE NoDword

parsedrssetting(word) ==
  IF word.name \in DOMAIN SettingIds THEN SettingIds[word.name] ELSE parsedword(word)

parsedrsdwordvalue(key, word) ==
  IF key \in DOMAIN SettingValues /\ word.name \in DOMAIN SettingValues[key]
    THEN SettingValues[key][word.name]
    ELSE parsedword(word)

\* A map with some of its values set, or added.
With(map, values) ==
  [id \in DOMAIN map \cup DOMAIN values |-> IF id \in DOMAIN values THEN values[id] ELSE map[id]]

\* result[key] = value, if both can be understood.
WithEntry(result, entry) ==
  LET key == parsedrssetting(entry.key)
      value == parsedrsdwordvalue(key, entry.value)
  IN  IF \/ ~entry.equals \/ entry.key = EmptyWord \/ entry.value = EmptyWord
         \/ key = NoDword \/ value = NoDword
        THEN result
        ELSE With(result, [id \in {key} |-> value])

parsedrsdwordsettings(list) == FoldLeft(WithEntry, <<>>, list)

\* The settings whose own variables can be understood, with their values.
FromDedicated(dedicated) ==
  LET named == {n \in DOMAIN SettingIds :
                  /\ dedicated[n] # EmptyWord
                  /\ parsedrsdwordvalue(SettingIds[n], dedicated[n]) # NoDword}
      Name(id) == CHOOSE n \in named : SettingIds[n] = id
  IN  [id \in {SettingIds[n] : n \in named} |-> parsedrsdwordvalue(id, dedicated[Name(id)])]

\* Mutant: what is there already is kept, as by emplace.
KeepListed(map, dedicated) == With(FromDedicated(dedicated), map)

enrichwithenv(map, dedicated) == With(map, FromDedicated(dedicated))

-----------------------------------------------------------------------------
(* NvAPI_DRS_GetSetting *)

Unset == [unset |-> TRUE]
NotAsking == [at |-> "idle"]

FreshProcess ==
  /\ nvapiDrsSettingsString = Unset
  /\ nvapiDrsDwords = Unset
  /\ enrichedFrom = <<>>
  /\ asking = [t \in DrsThreads |-> NotAsking]

DrsInit == environment \in Environments /\ FreshProcess

\* The application sets or unsets variables.
ChangeEnvironment ==
  /\ environment' \in Changed
  /\ UNCHANGED <<nvapiDrsSettingsString, nvapiDrsDwords, enrichedFrom, asking>>

\* A call that is rejected for its arguments initialises the statics all the same.
GetSetting(t, id) ==
  /\ asking[t] = NotAsking
  /\ asking' = [asking EXCEPT ![t] = [at |-> "string", id |-> id]]
  /\ UNCHANGED <<environment, nvapiDrsSettingsString, nvapiDrsDwords, enrichedFrom>>

Reach(t, at) == asking' = [asking EXCEPT ![t].at = at]

-----------------------------------------------------------------------------
(* env::getEnvVariable: the variable is asked for its length, then for its *)
(* text.                                                                   *)

TheList == NoName           \* in place of a name: DXVK_NVAPI_DRS_SETTINGS

Value(name) == IF name = TheList THEN environment.list ELSE environment.dedicated[name]
Missing(name) == IF name = TheList THEN <<>> ELSE EmptyWord

Measure(t, name) ==
  asking' = [asking EXCEPT ![t] =
    [at |-> "measured", id |-> asking[t].id, name |-> name, measured |-> Value(name)]]

\* Nothing is read of a variable that was not set; one that has changed since it
\* was measured may no longer fit.
Readings(name, measured) ==
  IF measured \in {Missing(name), Value(name)} THEN {measured} ELSE {Missing(name), Value(name)}

-----------------------------------------------------------------------------
(* The statics: the first thread to pass the definition of one initialises *)
(* it, and the others wait until it has.                                   *)

Initialises(t) == asking[t].at \in {"measured", "enrich"}
NobodyInitialises == \A t \in DrsThreads : ~Initialises(t)

MeasureString(t) ==
  /\ asking[t].at = "string"
  /\ nvapiDrsSettingsString = Unset
  /\ NobodyInitialises
  /\ Measure(t, TheList)
  /\ UNCHANGED <<environment, nvapiDrsSettingsString, nvapiDrsDwords, enrichedFrom>>

InitString(t) ==
  /\ asking[t].at = "measured" /\ asking[t].name = TheList
  /\ \E list \in Readings(TheList, asking[t].measured) :
       nvapiDrsSettingsString' = [list |-> list]
  /\ asking' = [asking EXCEPT ![t] = [at |-> "dwords", id |-> asking[t].id]]
  /\ UNCHANGED <<environment, nvapiDrsDwords, enrichedFrom>>

PassString(t) ==
  /\ asking[t].at = "string"
  /\ nvapiDrsSettingsString # Unset
  /\ Reach(t, "dwords")
  /\ UNCHANGED <<environment, nvapiDrsSettingsString, nvapiDrsDwords, enrichedFrom>>

\* The list is parsed, and the settings' own variables are read one after the other.
StartEnriching(t) ==
  /\ asking[t].at = "dwords"
  /\ nvapiDrsDwords = Unset
  /\ NobodyInitialises
  /\ Reach(t, "enrich")
  /\ UNCHANGED <<environment, nvapiDrsSettingsString, nvapiDrsDwords, enrichedFrom>>

MeasureVariable(t, name) ==
  /\ asking[t].at = "enrich"
  /\ name \notin DOMAIN enrichedFrom
  /\ Measure(t, name)
  /\ UNCHANGED <<environment, nvapiDrsSettingsString, nvapiDrsDwords, enrichedFrom>>

ReadVariable(t) ==
  /\ asking[t].at = "measured" /\ asking[t].name # TheList
  /\ \E word \in Readings(asking[t].name, asking[t].measured) :
       enrichedFrom' = With(enrichedFrom, [n \in {asking[t].name} |-> word])
  /\ asking' = [asking EXCEPT ![t] = [at |-> "enrich", id |-> asking[t].id]]
  /\ UNCHANGED <<environment, nvapiDrsSettingsString, nvapiDrsDwords>>

InitDwords(t) ==
  /\ asking[t].at = "enrich"
  /\ DOMAIN enrichedFrom = DOMAIN SettingIds
  /\ nvapiDrsDwords' =
       [map |-> enrichwithenv(parsedrsdwordsettings(nvapiDrsSettingsString.list), enrichedFrom)]
  /\ Reach(t, "find")
  /\ UNCHANGED <<environment, nvapiDrsSettingsString, enrichedFrom>>

PassDwords(t) ==
  /\ asking[t].at = "dwords"
  /\ nvapiDrsDwords # Unset
  /\ Reach(t, "find")
  /\ UNCHANGED <<environment, nvapiDrsSettingsString, nvapiDrsDwords, enrichedFrom>>

\* The value, or SETTING_NOT_FOUND.
Find(t) ==
  /\ asking[t].at = "find"
  /\ LET id == asking[t].id
         map == nvapiDrsDwords.map
     IN  asking' = [asking EXCEPT ![t] =
           [at |-> "answered", id |-> id,
            value |-> IF id \in DOMAIN map THEN map[id] ELSE NoDword]]
  /\ UNCHANGED <<environment, nvapiDrsSettingsString, nvapiDrsDwords, enrichedFrom>>

ReturnSetting(t) ==
  /\ asking[t].at = "answered"
  /\ asking' = [asking EXCEPT ![t] = NotAsking]
  /\ UNCHANGED <<environment, nvapiDrsSettingsString, nvapiDrsDwords, enrichedFrom>>

DrsNext ==
  \/ ChangeEnvironment
  \/ \E t \in DrsThreads :
       \/ MeasureString(t) \/ InitString(t) \/ PassString(t)
       \/ StartEnriching(t) \/ ReadVariable(t) \/ InitDwords(t) \/ PassDwords(t)
       \/ \E name \in DOMAIN SettingIds : MeasureVariable(t, name)
       \/ Find(t) \/ ReturnSetting(t)
       \/ \E id \in AskedIds : GetSetting(t, id)

DrsSpec == DrsInit /\ [][DrsNext]_drsVars

-----------------------------------------------------------------------------
(* Properties *)

\* What a word says a setting's value is, in either of its forms.
Means(id, word, value) ==
  \/ id \in DOMAIN SettingValues /\ \E n \in DOMAIN SettingValues[id] :
       n = word.name /\ value = SettingValues[id][n]
  \/ word.number \in 0 .. MaxDword /\ value = word.number

\* Whether an entry of the list names the setting, by name or by id, with some value.
Sets(entry, id, value) ==
  /\ entry.equals
  /\ \/ entry.key.number = id
     \/ \E n \in DOMAIN SettingIds : n = entry.key.name /\ SettingIds[n] = id
  /\ Means(id, entry.value, value)

\* The documented precedence: a setting's own variable, then the last entry for it.
ConfiguredAs(list, dedicated, id, value) ==
  LET Own(v) == \E n \in DOMAIN SettingIds : SettingIds[n] = id /\ Means(id, dedicated[n], v)
      Values == {v \in 0 .. MaxDword : Own(v) \/ \E i \in DOMAIN list : Sets(list[i], id, v)}
  IN  IF \E v \in Values : Own(v) THEN Own(value)
      ELSE IF Values = {} THEN value = NoDword
      ELSE \E i \in DOMAIN list :
             /\ Sets(list[i], id, value)
             /\ \A j \in i + 1 .. Len(list) : ~\E v \in Values : Sets(list[j], id, v)

(* Every call answers with the value that the variables configured, each   *)
(* as it was read when the settings were first asked for: a setting's own  *)
(* variable before the list, a later entry before an earlier one, names    *)
(* and numbers alike, and what cannot be understood as if it were not      *)
(* there, whatever the other threads ask meanwhile and however the         *)
(* environment changes between the readings and afterwards.                *)
SettingAsConfigured ==
  \A t \in DrsThreads : asking[t].at = "answered" =>
    ConfiguredAs(nvapiDrsSettingsString.list, enrichedFrom, asking[t].id, asking[t].value)

=============================================================================
