---------------------------- MODULE ConfigSnapshots ----------------------------
(***************************************************************************)
(* Configuration (src/paper_radar/config, storage/repository.py): files a     *)
(* user edits at any time, read one after another, compiled into a snapshot   *)
(* and stored with the bytes of each version; and the replay of a stored      *)
(* snapshot, which sees the database alone.                                  *)
(*                                                                         *)
(* A version's key is <<kind, name, version>>; the bytes of a file are what   *)
(* it declares, what it says and a remark, which no reader looks at. A hash    *)
(* is the bytes themselves, a snapshot's id its payload. What YAML and schema  *)
(* validation refuse is an Invalid file; a contract's two files are one.      *)
(***************************************************************************)
EXTENDS Integers, Sequences, FiniteSets, TLC

CONSTANTS
  ConfigCallers,    \* processes
  FirstFiles,       \* what the files may hold at first: functions of SettingsFile and keys
  Drafts,           \* what a user may write: pairs <<path, bytes>>
  Absent, Invalid,  \* a file that is not there; one no validation accepts
  MaxEdits, MaxConfigCalls

VARIABLES
  files, edits,
  configVersions,   \* config_versions: the bytes of each registered key
  snapshots,        \* runtime_config_snapshots: payloads
  configRefs,       \* snapshot_version_refs: <<payload, key, bytes>>
  compilers,          \* per process: what it is doing
  compiled          \* what compile_config has returned

configVars == <<files, edits, configVersions, snapshots, configRefs, compilers, compiled>>

-------------------------------------------------------------------------------
(* Selection *)

SettingsFile == <<"settings">>
YamlKinds ==
  <<"profile", "models", "topics", "journals", "escalation", "extraction", "read">>
PromptNames == <<"boundary", "value", "reuse", "reading">>
ContractNames ==
  <<"boundary", "value-prediction", "reuse-assessment", "decision-reasons", "read">>
ModelSlots == <<"screening", "reuse_assessment", "reading">>

\* Selectors are a function from the selected <<group, name>> to versions.
Chosen(s, group, names) ==
  SelectSeq([n \in DOMAIN names |-> <<group, names[n]>>], LAMBDA one : one \in DOMAIN s)
ChosenKeys(s, group, names) ==
  LET q == Chosen(s, group, names)
  IN [n \in DOMAIN q |->
        <<IF group = "yaml" THEN q[n][2] ELSE group,
          IF group = "adapter" THEN "pi-rpc" ELSE q[n][2], s[q[n]]>>]
FirstOnes(q) == SelectSeq([n \in DOMAIN q |-> <<n, q[n]>>],
                          LAMBDA one : \A m \in 1..(one[1] - 1) : q[m] # one[2])
\* What is read after the settings, in this order; an adapter selected for two
\* slots is read once, and the system prompt it names right after it.
ReadingOrder(s) ==
  LET adapters == FirstOnes(ChosenKeys(s, "adapter", ModelSlots))
  IN ChosenKeys(s, "yaml", YamlKinds) \o ChosenKeys(s, "prompt", PromptNames)
       \o ChosenKeys(s, "contract", ContractNames)
       \o [n \in DOMAIN adapters |-> adapters[n][2]]
KeysOf(q) == {q[n] : n \in DOMAIN q}
IsAdapter(key) == key[1] = "adapter"
SystemPrompt(adapter) == <<"prompt", "pi-system", adapter.says.prompt>>

\* Prompts and contracts declare nothing; the rest must be the selected version.
Declares(key, raw) == key[1] \in {"prompt", "contract"} \/ raw.declared = key[3]
Config(raw) == [declared |-> raw.declared, says |-> raw.says]

-------------------------------------------------------------------------------
(* Assembly and compilation *)

AdapterKeys(got) == {key \in DOMAIN got : IsAdapter(key)}
SystemPrompts(got) == {key \in DOMAIN got : key[2] = "pi-system"}
\* require_complete and the reference checks of a stored snapshot.
Complete(s, got) ==
  /\ DOMAIN got \ SystemPrompts(got) = KeysOf(ReadingOrder(s))
  /\ SystemPrompts(got) = {SystemPrompt(got[key]) : key \in AdapterKeys(got)}
AdapterFor(s, got, slot) == got[<<"adapter", "pi-rpc", s[<<"adapter", slot>>]>>]
SlotsWithAdapter(s) == {slot \in KeysOf(ModelSlots) : <<"adapter", slot>> \in DOMAIN s}
\* The model of a slot with an adapter speaks prompt_only, and the system prompt
\* is the very one the adapter names.
AdaptersFit(s, got) ==
  \A slot \in SlotsWithAdapter(s) :
    /\ \A key \in DOMAIN got :
         key[1] = "models" => got[key].says[slot].protocol \in {"none", "prompt_only"}
    /\ LET adapter == AdapterFor(s, got, slot)
       IN got[SystemPrompt(adapter)] = adapter.says.sha

Needs ==
  [boundary |-> {<<"yaml", "profile">>, <<"model", "screening">>, <<"prompt", "boundary">>,
                 <<"contract", "boundary">>, <<"adapter", "screening">>},
   value |-> {<<"yaml", "profile">>, <<"model", "screening">>, <<"prompt", "value">>,
              <<"contract", "value-prediction">>, <<"adapter", "screening">>,
              <<"yaml", "topics">>},
   reuse |-> {<<"yaml", "profile">>, <<"model", "reuse_assessment">>, <<"prompt", "reuse">>,
              <<"contract", "reuse-assessment">>, <<"adapter", "reuse_assessment">>,
              <<"excerpt", "escalation">>},
   extraction |-> {<<"yaml", "extraction">>},
   read |-> {<<"yaml", "profile">>, <<"model", "reading">>, <<"prompt", "reading">>,
             <<"contract", "read">>, <<"adapter", "reading">>, <<"yaml", "read">>},
   suggestion |-> {<<"rule", "escalation">>, <<"contract", "decision-reasons">>}]

None == [status |-> "missing"]
SaysOf(got, kind, name) ==
  LET found == {key \in DOMAIN got : key[1] = kind /\ key[2] = name}
  IN IF found = {} THEN None ELSE got[CHOOSE key \in found : TRUE].says
\* What a stage takes from the configuration: labels, remarks and an adapter's
\* declared version are no part of it.
Component(s, got, need) ==
  LET kind == need[1]
      name == need[2]
  IN CASE kind = "yaml" -> SaysOf(got, name, name)
       [] kind \in {"prompt", "contract"} -> SaysOf(got, kind, name)
       [] kind = "model" ->
            IF SaysOf(got, "models", "models") = None THEN None
            ELSE SaysOf(got, "models", "models")[name]
       [] kind \in {"excerpt", "rule"} ->
            IF SaysOf(got, name, name) = None THEN None ELSE SaysOf(got, name, name)[kind]
       [] kind = "adapter" ->
            IF name \notin SlotsWithAdapter(s) THEN None
            ELSE LET adapter == AdapterFor(s, got, name)
                     prompt == got[SystemPrompt(adapter)]
                 IN [status |-> prompt.says.status, thinking |-> adapter.says.thinking,
                     prompt |-> prompt.says]
Projections(s, got) ==
  [stage \in DOMAIN Needs |-> [need \in Needs[stage] |-> Component(s, got, need)]]
\* A stage may do without an adapter, never with one whose prompt is a placeholder.
Missing(s, got) ==
  [stage \in DOMAIN Needs |->
     {need \in Needs[stage] :
        LET status == Component(s, got, need).status
        IN IF need[1] = "adapter" THEN status = "placeholder" ELSE status # "configured"}]

Payload(s, got) ==
  [selectors |-> s,
   materials |-> {[key |-> key, sha |-> got[key], config |-> Config(got[key])]
                    : key \in DOMAIN got}]
Snapshot(s, got) ==
  [payload |-> Payload(s, got), missing |-> Missing(s, got),
   projections |-> Projections(s, got)]

-------------------------------------------------------------------------------
(* Compiling *)

AtRest(result) == [at |-> "rest", result |-> result]
AtWork == {c \in ConfigCallers : compilers[c].at # "rest"}
ConfigInit ==
  /\ files \in FirstFiles /\ edits = 0
  /\ configVersions = <<>> /\ snapshots = {} /\ configRefs = {}
  /\ compilers = [c \in ConfigCallers |-> [at |-> "rest", result |-> "none", calls |-> 0]]
  /\ compiled = {}

Continues(c, record) ==
  compilers' = [compilers EXCEPT ![c] = record @@ [calls |-> compilers[c].calls]]
Starts(c, record) ==
  /\ compilers[c].at = "rest" /\ compilers[c].calls < MaxConfigCalls
  /\ compilers' = [compilers EXCEPT ![c] = record @@ [calls |-> compilers[c].calls + 1]]

Edit ==
  /\ edits < MaxEdits
  /\ \E draft \in Drafts :
       /\ files[draft[1]] # draft[2]
       /\ files' = [files EXCEPT ![draft[1]] = draft[2]]
  /\ edits' = edits + 1
  /\ UNCHANGED <<configVersions, snapshots, configRefs, compilers, compiled>>

\* check_config and compile_config read the settings first.
ReadSettings(c, purpose) ==
  /\ files[SettingsFile] \notin {Absent, Invalid}
  /\ Starts(c, [at |-> "reading", purpose |-> purpose, selectors |-> files[SettingsFile],
                todo |-> ReadingOrder(files[SettingsFile]), got |-> <<>>])
  /\ UNCHANGED <<files, edits, configVersions, snapshots, configRefs, compiled>>

ReadFile(c) ==
  LET me == compilers[c]
      key == Head(me.todo)
      raw == files[key]
      got == [k \in DOMAIN me.got \cup {key} |-> IF k = key THEN raw ELSE me.got[k]]
  IN
  /\ me.at = "reading" /\ me.todo # <<>>
  /\ IF raw = Absent THEN Continues(c, AtRest("unreadable"))
     ELSE IF raw = Invalid THEN Continues(c, AtRest("invalid"))
     ELSE IF ~Declares(key, raw) THEN Continues(c, AtRest("invalid"))
     ELSE Continues(c, [me EXCEPT !.got = got,
            !.todo = IF IsAdapter(key) /\ SystemPrompt(raw) \notin DOMAIN got
                     THEN <<SystemPrompt(raw)>> \o Tail(me.todo) ELSE Tail(me.todo)])
  /\ UNCHANGED <<files, edits, configVersions, snapshots, configRefs, compiled>>

Assembled(c) == compilers[c].at = "reading" /\ compilers[c].todo = <<>>
Fits(c) == Complete(compilers[c].selectors, compilers[c].got)
                 /\ AdaptersFit(compilers[c].selectors, compilers[c].got)
RefuseAssembly(c) ==
  /\ Assembled(c) /\ ~Fits(c)
  /\ Continues(c, AtRest("invalid"))
  /\ UNCHANGED <<files, edits, configVersions, snapshots, configRefs, compiled>>

\* A wrong variant: a registered version is not compared.
CheckVersionByName(key, raw) ==
  IF key \notin DOMAIN configVersions THEN "new" ELSE "known"
\* A declared version stands for its first bytes, for ever.
CheckVersion(key, raw) ==
  IF key \notin DOMAIN configVersions
  THEN IF \E ref \in configRefs : ref[2] = key THEN "corrupt" ELSE "new"
  ELSE IF configVersions[key] = raw THEN "known" ELSE "conflict"

Checks(got) == {CheckVersion(key, got[key]) : key \in DOMAIN got}

CheckOnly(c) ==
  LET found == Checks(compilers[c].got)
  IN
  /\ Assembled(c) /\ Fits(c) /\ compilers[c].purpose = "check"
  /\ Continues(c, AtRest(IF found \subseteq {"new", "known"} THEN "checked"
                       ELSE CHOOSE r \in found : r \notin {"new", "known"}))
  /\ UNCHANGED <<files, edits, configVersions, snapshots, configRefs, compiled>>

RefsOf(payload) == {ref \in configRefs : ref[1] = payload}
Save(c) ==
  LET me == compilers[c]
      found == Checks(me.got)
      result == Snapshot(me.selectors, me.got)
      refs == {<<result.payload, key, me.got[key]>> : key \in DOMAIN me.got}
  IN
  /\ Assembled(c) /\ Fits(c) /\ me.purpose = "compile"
  /\ IF ~(found \subseteq {"new", "known"})
     THEN /\ Continues(c, AtRest(CHOOSE r \in found : r \notin {"new", "known"}))
          /\ UNCHANGED <<configVersions, snapshots, configRefs, compiled>>
     ELSE IF result.payload \in snapshots /\ RefsOf(result.payload) # refs
     THEN /\ Continues(c, AtRest("corrupt"))
          /\ UNCHANGED <<configVersions, snapshots, configRefs, compiled>>
     ELSE /\ configVersions' = configVersions @@ me.got
          /\ snapshots' = snapshots \cup {result.payload}
          /\ configRefs' = configRefs \cup refs
          /\ compiled' = compiled \cup {result}
          /\ Continues(c, AtRest("compiled"))
  /\ UNCHANGED <<files, edits>>

-------------------------------------------------------------------------------
(* Loading: three readings without a transaction around them, then the rebuild *)

\* A reference beside the bytes its version is registered with.
JoinedRows(payload) ==
  {[key |-> ref[2], sha |-> ref[3], raw |-> configVersions[ref[2]]]
     : ref \in {r \in RefsOf(payload) : r[2] \in DOMAIN configVersions}}
Bytes(rows) ==
  [key \in {row.key : row \in rows} |-> (CHOOSE row \in rows : row.key = key).raw]
CorruptSnapshot == [status |-> "corrupt"]
\* What load_config_snapshot makes of what it read.
Rebuilt(payload, rows, count) ==
  LET s == payload.selectors
      got == Bytes(rows)
  IN IF /\ Cardinality(rows) = count /\ \A row \in rows : row.sha = row.raw
        /\ Cardinality(payload.materials) = count
        /\ \A entry \in payload.materials :
             /\ entry.key \in DOMAIN got
             /\ entry.sha = got[entry.key] /\ entry.config = Config(got[entry.key])
             /\ Declares(entry.key, got[entry.key])
        /\ Complete(s, got) /\ AdaptersFit(s, got)
        /\ Payload(s, got) = payload
     THEN Snapshot(s, got) ELSE CorruptSnapshot

ReadPayload(c) ==
  /\ \E payload \in snapshots : Starts(c, [at |-> "rows", payload |-> payload])
  /\ UNCHANGED <<files, edits, configVersions, snapshots, configRefs, compiled>>
ReadRows(c) ==
  /\ compilers[c].at = "rows"
  /\ Continues(c, [at |-> "count", payload |-> compilers[c].payload,
                 rows |-> JoinedRows(compilers[c].payload)])
  /\ UNCHANGED <<files, edits, configVersions, snapshots, configRefs, compiled>>
CountRefs(c) ==
  LET me == compilers[c]
      loaded == Rebuilt(me.payload, me.rows, Cardinality(RefsOf(me.payload)))
  IN
  /\ me.at = "count"
  /\ Continues(c, AtRest(IF loaded = CorruptSnapshot THEN "corrupt" ELSE "loaded"))
  /\ UNCHANGED <<files, edits, configVersions, snapshots, configRefs, compiled>>

ConfigNext ==
  \/ Edit
  \/ \E c \in ConfigCallers :
       \/ ReadSettings(c, "check") \/ ReadSettings(c, "compile")
       \/ ReadFile(c) \/ RefuseAssembly(c) \/ CheckOnly(c) \/ Save(c)
       \/ ReadPayload(c) \/ ReadRows(c) \/ CountRefs(c)
ConfigSpec == ConfigInit /\ [][ConfigNext]_configVars

-------------------------------------------------------------------------------
(* Comparison *)

IdentityOf(payload, key) ==
  {<<key, entry.sha>> : entry \in {e \in payload.materials : e.key = key}}
\* An adapter is compared per slot that selects it, with its system prompt.
Identities(payload, category) ==
  IF category[1] = "adapter"
  THEN IF category \notin DOMAIN payload.selectors THEN {}
       ELSE LET key == <<"adapter", "pi-rpc", payload.selectors[category]>>
                entry == CHOOSE e \in payload.materials : e.key = key
            IN IdentityOf(payload, key) \cup IdentityOf(payload, SystemPrompt(entry.config))
  ELSE UNION {IdentityOf(payload, e.key) : e \in {m \in payload.materials :
         /\ m.key[2] # "pi-system" /\ ~IsAdapter(m.key)
         /\ category = <<IF m.key[1] \in {"prompt", "contract"} THEN m.key[1] ELSE "yaml",
                         m.key[2]>>}}
Categories ==
  {"yaml"} \X KeysOf(YamlKinds) \cup {"prompt"} \X KeysOf(PromptNames)
    \cup {"contract"} \X KeysOf(ContractNames) \cup {"adapter"} \X KeysOf(ModelSlots)
IdentityChanges(before, after) ==
  {category \in Categories : Identities(before, category) # Identities(after, category)}
\* The category a stage's need is registered under.
CategoryOf(need) ==
  CASE need[1] = "model" -> <<"yaml", "models">>
    [] need[1] \in {"excerpt", "rule"} -> <<"yaml", need[2]>>
    [] OTHER -> need

-------------------------------------------------------------------------------
(* What must hold *)

\* What compile_config returned can be had from the database for ever, whatever
\* became of the files it was read from and whoever compiled beside it: the same
\* payload, the same missing parts, the same projections; no reading ever finds
\* the store corrupt; the comparison of two snapshots misses no difference
\* (storage/repository.py:50, config/service.py:210, config/diff.py:105).
SnapshotsReplay ==
  /\ \A one \in compiled :
       /\ one.payload \in snapshots
       /\ Rebuilt(one.payload, JoinedRows(one.payload),
                  Cardinality(RefsOf(one.payload))) = one
       /\ \A stage \in DOMAIN Needs : one.missing[stage] = {} =>
            \A need \in Needs[stage] :
              need[1] = "adapter" \/ one.projections[stage][need] # None
  /\ \A c \in ConfigCallers : compilers[c].at = "rest" => compilers[c].result # "corrupt"
  /\ \A a, b \in compiled : a # b =>
       /\ a.payload # b.payload /\ IdentityChanges(a.payload, b.payload) # {}
       /\ \A stage \in DOMAIN Needs : a.projections[stage] # b.projections[stage] =>
            \E need \in Needs[stage] :
              CategoryOf(need) \in IdentityChanges(a.payload, b.payload)
================================================================================
