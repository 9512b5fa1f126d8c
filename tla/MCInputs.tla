-------------------------------- MODULE MCInputs --------------------------------
(***************************************************************************)
(* The data of the small instances of the read acceptance, the configuration  *)
(* and its stage inputs, and the eligibility (MCAttempts).                   *)
(***************************************************************************)
EXTENDS ReadAcceptance, StageInputs, Eligibility

-------------------------------------------------------------------------------
(* Read answers: two pieces of evidence with numbers in them, lists of up to two *)
(* items, and what can be wrong with an answer as a whole                        *)

Number(v, u) == [values |-> <<v>>, units |-> <<u>>]
Span(u) == [values |-> <<"1", "2">>, units |-> <<"none", u>>]
Slice(numbers, kind) == [numbers |-> numbers, kind |-> kind, unreliable |-> FALSE]
MCEvidence(kind) ==
  [e \in {"e1", "e2"} |->
     IF e = "e1" THEN {Slice({Number("1", "m"), Number("2", "none")}, "text")}
     ELSE {Slice({Span("m")}, kind)}]
MCContexts ==
  {[mode |-> "single", language |-> "zh", evidence |-> MCEvidence(k), allowed |-> {}]
     : k \in {"text", "formula"}}
  \cup {[mode |-> "reduce", language |-> "zh", evidence |-> MCEvidence("text"), allowed
       |-> a]
     : a \in {{"e1"}, {"e3"}}}
MCNumbers == {{}, {Number("1", "km")}, {Span("m")}, {Number("?", "none")}}
MCRefs == {<<"e1">>, <<"e1", "e2">>, <<"e1", "e1">>, <<"e3">>}
FewRefs == {<<"e1">>, <<"e3">>}
Item(refs, numbers, meaningful) == [refs |-> refs, numbers |-> numbers, meaningful |-> meaningful]
Lists(l, max, refs) == UNION {[ {l} \X (1..n) -> refs ] : n \in 0..max}
Answers(findings, allNumbers, wholes) ==
  {[items |-> [p \in DOMAIN f \cup DOMAIN g \cup DOMAIN h \cup {<<"research_value_reason", 1>>} |->
      IF p \in DOMAIN f THEN Item(f[p], numbers, TRUE)
      ELSE IF p \in DOMAIN g THEN Item(g[p], {}, whole # 1)
      ELSE IF p \in DOMAIN h THEN Item(h[p], {}, TRUE)
      ELSE Item(reason, {}, TRUE)],
    language |-> IF whole = 2 THEN "en" ELSE "zh", value |-> 3,
    types |-> IF whole = 3 THEN <<>> ELSE IF whole = 4 THEN <<"v", "v">> ELSE <<"v">>]
   : f \in Lists("main_findings", findings, MCRefs), g \in Lists("reusable_points", 1, FewRefs),
     h \in Lists("key_limitations", 1, FewRefs), reason \in {<<"e1">>, <<"e2">>},
     numbers \in allNumbers, whole \in wholes}
MCCandidates == Answers(2, MCNumbers, {0}) \cup Answers(1, {{}}, {1, 2, 3, 4})

-------------------------------------------------------------------------------
(* Configuration: few files, many edits; and all files *)

Yaml(v, says, note) == [declared |-> v, says |-> says, note |-> note]
Configured == [status |-> "configured"]
Text(status) == [declared |-> "none", says |-> [status |-> status], note |-> 0]
Settings(reading) == (<<"yaml", "profile">> :> "1") @@ (<<"yaml", "models">> :> "1")
  @@ (<<"adapter", "screening">> :> "1") @@ (<<"adapter", "reading">> :> reading)
Profile(note) == Yaml("1", Configured, note)
ModelsFile(protocol) ==
  Yaml("1", [slot \in {"screening", "reuse_assessment", "reading"} |->
     [status |-> "configured", protocol |-> IF slot = "reading" THEN protocol ELSE "prompt_only"]], 0)
PiAdapter(v, status, thinking, pi) ==
  Yaml(v, [status |-> "configured", thinking |-> thinking, pi |-> pi,
           prompt |-> "1", sha |-> Text(status)], 0)
PromptKey == <<"prompt", "pi-system", "1">>
AdapterKey(v) == <<"adapter", "pi-rpc", v>>
FewFiles ==
  (SettingsFile :> Settings("1")) @@ (<<"profile", "profile", "1">> :> Profile(0))
  @@ (<<"models", "models", "1">> :> ModelsFile("prompt_only"))
  @@ (AdapterKey("1") :> PiAdapter("1", "configured", "low", "a"))
  @@ (AdapterKey("2") :> PiAdapter("2", "configured", "low", "b"))
  @@ (PromptKey :> Text("configured"))
FewDrafts ==
  { <<SettingsFile, Settings("2")>>,
    <<<<"profile", "profile", "1">>, Profile(1)>>,
    <<<<"models", "models", "1">>, ModelsFile("json_object")>>,
    <<AdapterKey("1"), PiAdapter("1", "placeholder", "low", "a")>>,
    <<AdapterKey("2"), PiAdapter("2", "placeholder", "low", "b")>>,
    <<AdapterKey("2"), Absent>>, <<AdapterKey("2"), Invalid>>,
    <<PromptKey, Text("placeholder")>> }

\* All stages ready: every file is there; the settings change to another topics
\* file or another adapter for the readers.
AllSettings(topics, adapter) ==
  [one \in ({"yaml"} \X {"profile", "models", "escalation", "extraction", "read"})
     \cup ({"prompt"} \X {"value", "reuse", "reading"})
     \cup ({"contract"} \X {"value-prediction", "reuse-assessment", "read"})
     |-> "1"]
  @@ (<<"yaml", "topics">> :> topics) @@ (<<"adapter", "screening">> :> adapter)
  @@ (<<"adapter", "reading">> :> "1")
TopicsFile(v, t) == Yaml(v, [status |-> "configured", enabled |-> t], 0)
AllFiles ==
  (SettingsFile :> AllSettings("1", "1"))
  @@ [key \in {<<k, k, "1">> : k \in {"profile", "extraction", "read"}} |-> Profile(0)]
  @@ (<<"models", "models", "1">> :> ModelsFile("prompt_only"))
  @@ (<<"topics", "topics", "1">> :> TopicsFile("1", {"t"}))
  @@ (<<"topics", "topics", "2">> :> TopicsFile("2", {"t", "u"}))
  @@ (<<"escalation", "escalation", "1">> :> Yaml("1", [excerpt |-> Configured, rule |-> Configured], 0))
  @@ [key \in ({"prompt"} \X {"value", "reuse", "reading"} \X {"1"})
       \cup ({"contract"} \X {"value-prediction", "reuse-assessment", "read"} \X {"1"})
       |-> Text("configured")]
  @@ (AdapterKey("1") :> PiAdapter("1", "configured", "low", "a"))
  @@ (AdapterKey("2") :> PiAdapter("2", "configured", "high", "a"))
  @@ (AdapterKey("3") :> PiAdapter("3", "configured", "low", "b"))
  @@ (PromptKey :> Text("configured"))
AllDrafts ==
  {<<SettingsFile, AllSettings(t, a)>> : t \in {"1", "2"}, a \in {"2", "3"}}
MCFirstFiles == {FewFiles, AllFiles, <<>>}
MCDrafts == FewDrafts \cup AllDrafts

Source(kind, hashes) == [kind |-> kind, hashes |-> hashes, locator |-> <<"l">>]
Excerpt(id, text, source) == [id |-> id, kind |-> "methods", text |-> text, source |-> source]
Screened(title, truncated) ==
  [of |-> "screening", title |-> title, abstract |-> "a", truncated |-> truncated]
InBody(map) == Source("extraction", <<"x", "r", map>>)
Excerpts(q) == [of |-> "reuse", excerpts |-> q]
MCFacts ==
  {Screened(t, b) : t \in {"t", " "}, b \in BOOLEAN}
  \cup {Excerpts(q) : q \in
     { <<>>, <<Excerpt("1", "a", InBody("m")), Excerpt("2", "b", Source("snapshot", <<"h">>))>>,
       <<Excerpt("1", "a", InBody("m")), Excerpt("2", "b", InBody("m"))>>,
       <<Excerpt("1", "a", InBody("m")), Excerpt("2", "b", InBody("n"))>>,
       <<Excerpt("1", "a", InBody("m")), Excerpt("1", "b", InBody("m"))>> }}
  \cup {[of |-> "extraction", pdf |-> p] : p \in {"p", "q", "?"}}
  \cup {[of |-> "read", body |-> <<"x", "r", m>>, language |-> l] : m \in {"m", "n"}, l
       \in {"zh", "en"}}

-------------------------------------------------------------------------------
(* Eligibility: a paper that may be read, and each two departures from it *)

Artifact(presence, ref, version, app) ==
  [presence |-> presence, reference |-> ref, version |-> version, applicability |-> app]
Decide(ref, seq, result, source, reason, app) ==
  [reference |-> ref, paper |-> "own", sequence |-> seq, result |-> result,
   source |-> source, reason |-> reason, applicability |-> app, screening |-> "s"]
Suggested(seq) == Decide("d1", seq, "accepted", "suggestion_rule", "high_research_value", "current")
Denied(seq) == Decide("d2", seq, "denied", "regular_review", "low_value", "historical")
Wanted(seq) == Decide("d3", seq, "accepted", "manual_read_request", "manual_read_request", "historical")
FailedReading == Decide("d4", 1, "pending", "failure_queue_projection", "model_failure", "current")
Illegal == Decide("d5", 1, "accepted", "regular_review", "low_value", "current")
NoRequest == [present |-> FALSE]
ReadRequest(d) == [present |-> TRUE, reference |-> "r", paper |-> "own", decision |-> d]
Meta(missing, minimum) ==
  [presence |-> "present", missing |-> missing, minimum |-> minimum, nontruncated |-> FALSE,
   paper |-> "own", version |-> "v1", revision |-> 1, currentVersion |-> TRUE]
Base ==
  [paper |-> "own", version |-> "v1", current |-> "v1", canonical |-> "own", revision |-> 1,
   metadata |-> Meta({}, TRUE), decisions |-> {Suggested(0)}, gate |-> "enabled",
   screening |-> Artifact("present", "s", "v1", "current"),
   pdf |-> Artifact("present", "p", "v1", "current"),
   extraction |-> [state |-> "succeeded", reference |-> "x", pdf |-> "p", applicability |-> "current"],
   quality |-> [basis |-> "formal_gate", extraction |-> "x", failure |-> "none"],
   purpose |-> "production", execution |-> "production",
   visibility |-> [known |-> TRUE, hidden |-> {}], request |-> NoRequest]
Ex(state, ref, pdf, app) == [state |-> state, reference |-> ref, pdf |-> pdf, applicability |-> app]
\* What one departure makes of a paper.
Departures(p) ==
  {[p EXCEPT !.canonical = v] : v \in {"none", "other", "empty", "own"}}
  \cup {[p EXCEPT !.current = v] : v \in {"none", "v2"}}
  \cup {[p EXCEPT !.revision = v] : v \in {0}}
  \cup {[p EXCEPT !.metadata = v] : v \in {[presence |-> "absent"],
       Meta({"metadata_no_title"}, FALSE), Meta({}, FALSE)}}
  \cup {[p EXCEPT !.decisions = v] : v \in {{}, {Suggested(0), Suggested(1)},
       {Suggested(1), Denied(0)}, {Suggested(0), Wanted(1)}, {Wanted(0), Denied(1)},
       {Wanted(1), Denied(0)}, {Wanted(0), Denied(0)}, {Wanted(0)},
       {FailedReading}, {Illegal, Wanted(0)},
       {[Suggested(0) EXCEPT !.screening = "t"]}, {[Suggested(0) EXCEPT !.applicability =
       "historical"]}, {Suggested(0), [Suggested(0) EXCEPT !.reference = "d6"]}}}
  \cup {[p EXCEPT !.gate = v] : v \in {"paused", "disabled", "unknown"}}
  \cup {[p EXCEPT !.screening = v] : v \in {Artifact("absent", "none", "none",
       "undeterminable"), Artifact("unknown", "s", "none", "undeterminable"),
       Artifact("present", "s", "v0", "historical"), Artifact("present", "s", "none",
       "undeterminable")}}
  \cup {[p EXCEPT !.pdf = v] : v \in {Artifact("absent", "none", "none",
       "undeterminable"), Artifact("unknown", "none", "none", "undeterminable"),
       Artifact("present", "p", "v0", "historical"), Artifact("present", "p0", "v1",
       "current"), Artifact("present", "p", "v2", "current"), Artifact("present", "none",
       "v1", "current"), Artifact("present", "p", "v1", "undeterminable")}}
  \cup {[p EXCEPT !.extraction = v] : v \in {Ex("absent", "none", "none",
       "undeterminable"), Ex("absent", "x", "none", "undeterminable"), Ex("unknown", "none",
       "none", "undeterminable"), Ex("failed", "none", "p", "current"), Ex("failed", "none",
       "p0", "historical"), Ex("succeeded", "x", "p0", "historical"), Ex("succeeded", "none",
       "p", "current"), Ex("failed", "none", "none", "current"), Ex("succeeded", "x", "p",
       "undeterminable")}}
  \cup {[p EXCEPT !.quality = v] : v \in {[basis |-> "experiment_document_gate",
       extraction |-> "x", failure |-> "none"], [basis |-> "failed", extraction |-> "x",
       failure |-> "embedded_binary"], [basis |-> "absent", extraction |-> "none", failure
       |-> "none"], [basis |-> "unknown", extraction |-> "x", failure |-> "none"]}}
  \cup {[p EXCEPT !.purpose = v] : v \in {"experiment", "unknown"}}
  \cup {[p EXCEPT !.execution = v] : v \in {"test", "unknown"}}
  \cup {[p EXCEPT !.visibility = v] : v \in {[known |-> FALSE, hidden |-> {}]} \cup
       {[known |-> TRUE, hidden |-> h] : h \in {{"unrevealed"}, {"waiting_calibration"}}}}
  \cup {[p EXCEPT !.request = v] : v \in {ReadRequest("d1"), ReadRequest("d2"),
       ReadRequest("none")}}
MCPaperFacts == UNION {Departures(p) : p \in Departures(Base)}
================================================================================
