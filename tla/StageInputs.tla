------------------------------ MODULE StageInputs ------------------------------
(***************************************************************************)
(* The input of a stage (src/paper_radar/stage_inputs/service.py): facts a    *)
(* caller has chosen, with the projection of the configuration they are given *)
(* to the model under, as bytes that are stored and replayed; and the call    *)
(* that is made of them (llm/calls.py). Nothing here has a state: inputs are   *)
(* built under the snapshots that were compiled.                            *)
(*                                                                         *)
(* Bytes are what they encode and whether they are the canonical encoding of   *)
(* it; a fingerprint is the bytes. A projection's id is the projection.        *)
(***************************************************************************)
EXTENDS ConfigSnapshots

CONSTANTS
  StageFacts,            \* facts a caller may choose
  BlankTexts, BadHashes, \* what the constructors refuse
  ProtocolProfiles       \* the Pi versions a call can be described for

InputStages == {"boundary", "value", "reuse", "extraction", "read"}
FactsOf ==
  [boundary |-> "screening", value |-> "screening", reuse |-> "reuse",
   extraction |-> "extraction", read |-> "read"]

-------------------------------------------------------------------------------
(* Facts *)

\* An excerpt's source is a member of a source snapshot, or a place in a body:
\* the extraction it was made by, the reading and the evidence map.
FromBody(excerpt) == excerpt.source.kind = "extraction"
ValidExcerpt(excerpt) ==
  /\ excerpt.text \notin BlankTexts
  /\ {excerpt.source.hashes[n] : n \in DOMAIN excerpt.source.hashes} \cap BadHashes = {}
  /\ excerpt.source.locator # <<>>
ValidExcerpts(excerpts) ==
  /\ excerpts # <<>>
  /\ \A i, j \in DOMAIN excerpts :
       /\ ValidExcerpt(excerpts[i])
       /\ i # j => excerpts[i].id # excerpts[j].id
       /\ FromBody(excerpts[i]) /\ FromBody(excerpts[j]) =>
            excerpts[i].source.hashes = excerpts[j].source.hashes
ValidFacts(facts) ==
  CASE facts.of = "screening" -> {facts.title, facts.abstract} \cap BlankTexts = {}
    [] facts.of = "reuse" -> ValidExcerpts(facts.excerpts)
    [] facts.of = "extraction" -> facts.pdf \notin BadHashes
    [] facts.of = "read" ->
         /\ {facts.body[n] : n \in DOMAIN facts.body} \cap BadHashes = {}
         /\ facts.language \in {"zh", "en"}

-------------------------------------------------------------------------------
(* Inputs *)

Refused(reason) == [refused |-> reason]
IsInput(result) == "refused" \notin DOMAIN result
Input(stage, projection, facts) ==
  [kind |-> "stage_input", stage |-> stage, format |-> 1,
   projection |-> [format |-> 1, id |-> projection], facts |-> facts, canonical |-> TRUE]

Build(one, stage, facts) ==
  IF stage \notin InputStages THEN Refused("unsupported_stage")
  ELSE IF one.missing[stage] # {} THEN Refused("not_ready")
  ELSE IF facts.of # FactsOf[stage] \/ ~ValidFacts(facts) THEN Refused("invalid_facts")
  ELSE Input(stage, one.projections[stage], facts)

\* The bytes of an input are the input; what else may have been stored, and the
\* snapshots the caller has for it, one or none.
Replay(bytes, fingerprint, under) ==
  IF bytes.kind # "stage_input" THEN Refused("invalid_payload")
  ELSE IF bytes.stage \notin InputStages THEN Refused("unsupported_stage")
  ELSE IF bytes.format # 1 THEN Refused("unsupported_format")
  ELSE IF bytes.projection.format # 1 THEN Refused("projection_format_unverifiable")
  ELSE IF bytes.facts.of # FactsOf[bytes.stage] \/ ~ValidFacts(bytes.facts)
  THEN Refused("invalid_payload")
  ELSE IF ~bytes.canonical THEN Refused("non_canonical")
  ELSE IF bytes # fingerprint THEN Refused("fingerprint_mismatch")
  ELSE IF \E one \in under : one.projections[bytes.stage] # bytes.projection.id
  THEN Refused("projection_mismatch")
  ELSE bytes

\* What is said to have changed between two inputs of a stage.
Texts(excerpts) ==
  [n \in DOMAIN excerpts |-> <<excerpts[n].id, excerpts[n].kind, excerpts[n].text>>]
Sources(excerpts) == [n \in DOMAIN excerpts |-> excerpts[n].source]
Compared(facts) ==
  CASE facts.of = "screening" ->
         [title |-> facts.title, abstract |-> facts.abstract, truncated |-> facts.truncated]
    [] facts.of = "reuse" ->
         [excerpts |-> Texts(facts.excerpts), excerpt_sources |-> Sources(facts.excerpts)]
    [] facts.of = "extraction" -> [pdf |-> facts.pdf]
    [] facts.of = "read" -> [body_identity |-> facts.body, output_language |-> facts.language]
Changes(before, after) ==
  {c \in DOMAIN Compared(before.facts) : Compared(before.facts)[c] # Compared(after.facts)[c]}
  \cup (IF before.projection.id # after.projection.id THEN {"config_projection"} ELSE {})

-------------------------------------------------------------------------------
(* Calls *)

SlotOf(stage) ==
  CASE stage \in {"boundary", "value"} -> "screening" [] stage = "read" -> "reading"
GotOf(one) ==
  [key \in {m.key : m \in one.payload.materials} |->
     (CHOOSE m \in one.payload.materials : m.key = key).sha]
\* The configuration a call speaks of is the projection's; its policy, thinking
\* level and system prompt are those of the snapshot in hand; the versions that
\* execute it are the audited snapshot's.
Call(input, one, audit) ==
  LET s == one.payload.selectors
      slot == SlotOf(input.stage)
      adapter == AdapterFor(s, GotOf(one), slot)
      execution == AdapterFor(audit.payload.selectors, GotOf(audit), slot)
  IN IF input.stage \notin {"boundary", "value", "read"} THEN Refused("invalid_context")
     ELSE IF one.missing[input.stage] # {} \/ slot \notin SlotsWithAdapter(s)
     THEN Refused("invalid_context")
     ELSE IF ~IsInput(Replay(input, input, {one})) THEN Refused("corrupt_reference")
     ELSE IF audit.projections[input.stage] # one.projections[input.stage]
     THEN Refused("projection_mismatch")
     ELSE IF execution.says.pi \notin ProtocolProfiles THEN Refused("invalid_context")
     ELSE [said |-> <<input.facts, one.projections[input.stage]>>,
           thinking |-> adapter.says.thinking,
           system |-> GotOf(one)[SystemPrompt(adapter)].says,
           executedBy |-> execution.says.pi]

\* What the answer of the value stage is checked against: the enabled topics.
ValueContext(input, one) ==
  IF input.stage # "value" THEN Refused("invalid_context")
  ELSE IF one.projections["value"] # input.projection.id THEN Refused("projection_mismatch")
  ELSE [topics |-> SaysOf(GotOf(one), "topics", "topics")]

-------------------------------------------------------------------------------
(* What must hold *)

Loaded(payload) == Rebuilt(payload, JoinedRows(payload), Cardinality(RefsOf(payload)))
InputsOf(one) ==
  LET ready == {stage \in DOMAIN Needs : one.missing[stage] = {}}
  IN {input \in {Build(one, stage, facts) : stage \in ready, facts \in StageFacts} :
        IsInput(input)}
\* Bytes that were stored under a fingerprint and are not what it stands for.
Tampered(input) ==
  {[input EXCEPT !.canonical = FALSE], [input EXCEPT !.format = 2],
   [input EXCEPT !.projection.format = 2]}
  \cup {[input EXCEPT !.facts = facts] : facts \in StageFacts \ {input.facts}}
  \cup {[input EXCEPT !.stage = stage] : stage \in DOMAIN Needs \ {input.stage}}

\* An input stands for one call: it is replayed under the snapshot it was built
\* with as long as the database keeps that, under any snapshot that accepts it the
\* model is told the same and its answer checked against the same, nothing else is
\* accepted for its fingerprint, and two inputs compare as equal just when they
\* have one fingerprint (stage_inputs/service.py:696, llm/calls.py:76).
InputsReplay ==
  \A one \in compiled : \A input \in InputsOf(one) :
    /\ Replay(input, input, {Loaded(one.payload)}) = input
    /\ \A bytes \in Tampered(input) : ~IsInput(Replay(bytes, input, {}))
    /\ \A other \in compiled :
         /\ IsInput(Replay(input, input, {other})) =>
              /\ Call(input, other, one) = Call(input, one, one)
              /\ ValueContext(input, other) = ValueContext(input, one)
         /\ \A changed \in InputsOf(other) : changed.stage = input.stage =>
              (Changes(input, changed) = {} <=> input = changed)

\* What a task freezes of the configuration can be had again: snapshots from the
\* database, inputs and calls from the snapshots.
ConfigIsReplayable == SnapshotsReplay /\ InputsReplay
================================================================================
