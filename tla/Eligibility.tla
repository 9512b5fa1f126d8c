------------------------------ MODULE Eligibility ------------------------------
(***************************************************************************)
(* What may be done with a paper: evaluate_paper of      *)
(* src/paper_radar/eligibility/rules.py, on facts a caller has put together,  *)
(* with the combinations of screening/reasons.py and the permissions of       *)
(* calibration/visibility.py. A concept holds when nothing speaks against it. *)
(*                                                                         *)
(* An identity is "own" or "other", "none" where the code has None, "empty"    *)
(* for an empty string; references are compared and never followed. Concepts   *)
(* whose verdict is left to later versions are not modelled.                  *)
(***************************************************************************)
EXTENDS Integers, FiniteSets

CONSTANTS
  PaperFacts        \* the projections a caller may give

\* The fields of a PaperProjection, and the values of those the rules enumerate.
IsProjection(p) ==
  /\ p = [paper |-> p.paper, version |-> p.version, current |-> p.current,
          canonical |-> p.canonical, revision |-> p.revision, metadata |-> p.metadata,
          decisions |-> p.decisions, gate |-> p.gate, screening |-> p.screening,
          pdf |-> p.pdf, extraction |-> p.extraction, quality |-> p.quality,
          purpose |-> p.purpose, execution |-> p.execution, visibility |-> p.visibility,
          request |-> p.request]
  /\ p.gate \in {"enabled", "paused", "disabled", "unknown"}
  /\ p.extraction.state \in {"succeeded", "failed", "absent", "unknown"}
  /\ p.execution \in {"production", "test", "unknown"}
  /\ p.visibility.known \in BOOLEAN
  /\ IsFiniteSet(p.decisions) /\ \A d \in p.decisions : d.sequence \in Int
ASSUME PaperFactsAssumption == \A p \in PaperFacts : IsProjection(p)

VARIABLES
  judged            \* the last call: the facts and the reasons against each concept

-------------------------------------------------------------------------------
(* The authority on results, sources and reasons *)

Judgments == {"blind_calibration", "regular_review", "direct_manual_decision"}
HumanSources == Judgments \cup {"metadata_abandonment", "manual_read_request"}
FailureSources == {"fixed_calibration_member_projection", "failure_queue_projection"}
Definition(result, sources) == [result |-> result, sources |-> sources]
DecisionReasons ==
  [high_research_value |-> Definition("accepted", {"suggestion_rule"}),
   research_and_reuse |-> Definition("accepted", {"suggestion_rule"}),
   out_of_scope |-> Definition("denied", Judgments \cup {"suggestion_rule"}),
   boundary_uncertain |-> Definition("pending", {"suggestion_rule"}),
   value_reuse_conflict |-> Definition("pending", {"suggestion_rule"}),
   reuse_unknown |-> Definition("pending", {"suggestion_rule"}),
   reuse_escalation_unavailable |-> Definition("pending", {"suggestion_rule"}),
   low_value |-> Definition("denied", Judgments \cup {"suggestion_rule"}),
   low_reuse_feasibility |-> Definition("denied", Judgments \cup {"suggestion_rule"}),
   user_judgment |-> Definition("accepted", Judgments),
   unclear_from_available_input |-> Definition("pending", Judgments),
   defer_judgment |-> Definition("pending", Judgments),
   outside_current_focus |-> Definition("pending", Judgments),
   insufficient_metadata |-> Definition("denied", {"metadata_abandonment"}),
   manual_read_request |-> Definition("accepted", {"manual_read_request"}),
   model_failure |-> Definition("pending", FailureSources)]
LegalRecord(d) ==
  /\ d.result = DecisionReasons[d.reason].result
  /\ d.source \in DecisionReasons[d.reason].sources

\* A hidden paper is neither shown to have been judged nor read on request.
Permits(visibility) == visibility = {}

-------------------------------------------------------------------------------
(* Reasons against *)

If(condition, reason) == IF condition THEN {reason} ELSE {}

Canonical(p) ==
  If(p.paper = "empty" \/ p.canonical = "empty", "identity_contradictory")
  \cup If(p.canonical = "none", "canonical_unknown")
  \cup If(p.canonical \notin {"none", "own"}, "not_canonical")
Version(p) ==
  If(p.version = "empty" \/ p.current = "empty" \/ p.revision < 1, "identity_contradictory")
  \cup If(p.current = "none", "version_unknown")
  \cup If(p.current \notin {"none", p.version}, "not_current_version")
PaperIdentity(p) == Canonical(p) \cup Version(p)

\* Metadata: what they lack, and whether they are of this paper, version and revision.
Metadata(p) ==
  PaperIdentity(p) \cup
  (IF p.metadata.presence = "absent" THEN {"metadata_unknown"}
   ELSE LET m == p.metadata IN
     m.missing
     \cup If(\/ m.minimum <=> m.missing # {}
             \/ m.nontruncated /\ ~m.minimum
             \/ m.paper # p.paper, "metadata_contradictory")
     \cup If(~m.minimum, "metadata_incomplete")
     \cup If(~m.currentVersion \/ m.version # p.version \/ m.revision # p.revision,
             "metadata_stale"))

\* Something that is not there has neither a reference nor a basis.
Contradicts(artifact) ==
  /\ artifact.presence # "present"
  /\ \/ artifact.reference # "none" \/ artifact.version # "none"
     \/ artifact.applicability # "undeterminable"
Screening(p) ==
  LET a == p.screening IN
  PaperIdentity(p)
  \cup If(\/ Contradicts(a)
          \/ a.presence = "present" /\ (a.reference = "none" \/ a.version = "none"),
          "screening_contradictory")
  \cup If(a.presence = "absent", "screening_absent")
  \cup If(\/ a.presence = "unknown"
          \/ a.presence = "present" /\ a.applicability \notin {"historical", "current"},
          "screening_unknown")
  \cup If(a.presence = "present" /\ a.applicability = "historical", "screening_historical")

Pdf(p) ==
  LET a == p.pdf
      identified == a.reference # "none" /\ a.version # "none"
  IN
  If(\/ Contradicts(a)
     \/ a.presence = "present" /\ ~identified
     \/ a.presence = "present" /\ a.applicability # "historical" /\ a.version # p.version,
     "pdf_contradictory")
  \cup If(a.presence = "absent", "pdf_absent")
  \cup If(\/ a.presence = "unknown"
          \/ a.presence = "present" /\ a.applicability \notin {"historical", "current"},
          "pdf_unknown")
  \cup If(a.presence = "present" /\ identified /\ a.applicability = "historical",
          "pdf_historical")

Extraction(p) ==
  LET e == p.extraction
      made == e.state \in {"succeeded", "failed"}
  IN
  If(\/ ~made /\ (\/ e.reference # "none" \/ e.pdf # "none"
                  \/ e.applicability # "undeterminable")
     \/ e.state = "succeeded" /\ e.reference = "none"
     \/ made /\ e.pdf = "none"
     \/ made /\ e.applicability # "historical" /\ e.pdf # p.pdf.reference,
     "extraction_contradictory")
  \cup If(e.state = "absent", "extraction_absent")
  \cup If(\/ e.state = "unknown"
          \/ made /\ e.applicability \notin {"historical", "current"}, "extraction_unknown")
  \cup If(e.state = "failed", "extraction_retry_required")
  \cup If(made /\ e.pdf # "none" /\ e.applicability = "historical", "extraction_historical")

Quality(p) ==
  LET q == p.quality
      passed == q.basis \in {"formal_gate", "experiment_document_gate"}
  IN
  If(\/ q.basis \in {"absent", "unknown"} /\ (q.extraction # "none" \/ q.failure # "none")
     \/ q.basis = "failed" /\ q.failure = "none"
     \/ passed /\ (\/ q.extraction = "none" \/ q.extraction # p.extraction.reference
                   \/ q.failure # "none"),
     "quality_contradictory")
  \cup If(p.purpose = "unknown", "root_unknown")
  \cup If(q.basis = "failed", "quality_failed")
  \cup If(q.basis = "absent", "quality_absent")
  \cup If(q.basis = "unknown", "quality_unknown")
  \cup If(q.basis = "experiment_document_gate" /\ p.purpose = "production",
          "quality_not_formal")

-------------------------------------------------------------------------------
(* The effective decision *)

Usable(p) ==
  {d \in p.decisions : d.paper = p.paper /\ d.reference # "none" /\ d.sequence >= 0
                         /\ LegalRecord(d)}
Humans(p) == {d \in Usable(p) : d.source \in HumanSources}
Systems(p) == {d \in Usable(p) : d.source = "suggestion_rule"}
\* A wrong variant: the latest event wins, whoever decided.
ContendersBySequence(p) == Humans(p) \cup Systems(p)
\* The latest event of the human ones, or of the suggestions if there is none.
Contenders(p) == IF Humans(p) # {} THEN Humans(p) ELSE Systems(p)
Latest(ds) == {d \in ds : \A e \in ds : e.sequence <= d.sequence}

Visible(p) ==
  If(p.visibility.known = FALSE, "visibility_unknown")
  \cup If(p.visibility.known /\ ~Permits(p.visibility.hidden), "visibility_denied")
\* A suggestion counts only for the artifact in hand, on current facts, where the
\* gate is open and the paper is shown.
AgainstSuggestion(p, winners) ==
  Screening(p) \cup Visible(p)
  \cup If(\E d \in winners : Cardinality(winners) = 1
            /\ d.screening # p.screening.reference, "decision_contradictory")
  \cup If(\E d \in winners : Cardinality(winners) = 1 /\ d.applicability # "current",
          "decision_not_current")
  \cup If(p.gate = "paused", "gate_paused") \cup If(p.gate = "disabled", "gate_disabled")
  \cup If(p.gate = "unknown", "gate_unknown")
Decision(p) ==
  LET winners == Latest(Contenders(p)) IN
  PaperIdentity(p)
  \cup If(Usable(p) # p.decisions \/ Cardinality(winners) > 1, "decision_contradictory")
  \cup If(Contenders(p) = {}, "decision_absent")
  \cup If(Contenders(p) = {} /\ Usable(p) # {}, "projection_not_decision")
  \cup (IF Contenders(p) # {} /\ Humans(p) = {} THEN AgainstSuggestion(p, winners) ELSE {})
\* The one decision that counts, if any.
Effective(p) == IF Decision(p) = {} THEN Latest(Contenders(p)) ELSE {}

-------------------------------------------------------------------------------
(* Concepts *)

AcceptedPaper(p) ==
  Decision(p) \cup If(\E d \in Effective(p) : d.result # "accepted", "decision_not_accepted")
NeedsPdf(p) ==
  LET wanted == p.pdf.presence = "absent" \/ "pdf_historical" \in Pdf(p) IN
  ((AcceptedPaper(p) \cup Pdf(p)) \ (IF wanted THEN {"pdf_absent", "pdf_historical"} ELSE {}))
  \cup If(~wanted /\ Pdf(p) = {}, "pdf_already_present")
NeedsExtraction(p) ==
  LET wanted == p.extraction.state = "absent" \/ "extraction_historical" \in Extraction(p) IN
  ((AcceptedPaper(p) \cup Pdf(p) \cup Extraction(p)) \
     (IF wanted THEN {"extraction_absent", "extraction_historical",
                      "extraction_retry_required"} ELSE {}))
  \cup If(~wanted /\ p.extraction.state = "succeeded" /\ Extraction(p) = {},
          "extraction_already_present")
ExtractionFailed(p) ==
  ((PaperIdentity(p) \cup Pdf(p) \cup Extraction(p)) \ {"extraction_retry_required"})
  \cup If(p.extraction.state # "failed", "extraction_not_failed")
ReadPrerequisites(p) ==
  AcceptedPaper(p) \cup Metadata(p) \cup Pdf(p) \cup Extraction(p) \cup Quality(p) \cup Visible(p)
  \cup If(p.execution = "unknown", "execution_source_unknown")
  \cup If(p.execution = "test", "test_execution_source")
AutoRead(p) ==
  ReadPrerequisites(p) \cup If(p.purpose = "experiment", "experiment_no_auto_queue")
ManualRead(p) ==
  LET r == p.request IN
  ReadPrerequisites(p)
  \cup If(~r.present, "manual_request_absent")
  \cup If(r.present /\ (r.reference = "none" \/ r.paper # p.paper \/ r.decision = "none"),
          "manual_request_contradictory")
  \cup If(r.present /\ \E d \in Effective(p) : r.decision # d.reference,
          "manual_request_superseded")
DecisionStale(p) ==
  Decision(p)
  \cup If(\E d \in Effective(p) : d.applicability = "current", "decision_basis_current")
  \cup If(\E d \in Effective(p) : d.applicability \notin {"current", "historical"},
          "decision_basis_unknown")
WaitingCalibration(p) ==
  If(~p.visibility.known, "visibility_unknown")
  \cup If(p.visibility.known /\ "waiting_calibration" \notin p.visibility.hidden,
          "not_waiting_calibration")

Verdicts(p) ==
  [canonical_paper |-> Canonical(p), current_version |-> Version(p),
   metadata_ready |-> Metadata(p), effective_screening_decision |-> Decision(p),
   decision_basis_stale |-> DecisionStale(p), current_screening_artifact |-> Screening(p),
   needs_pdf |-> NeedsPdf(p), needs_extraction |-> NeedsExtraction(p),
   extraction_failed |-> ExtractionFailed(p), read_prerequisites |-> ReadPrerequisites(p),
   eligible_for_auto_read |-> AutoRead(p), requested_manual_read |-> ManualRead(p),
   waiting_calibration |-> WaitingCalibration(p)]

NothingJudged == [facts |-> {}]
EligibilityInit == judged = NothingJudged
EvaluatePaper ==
  /\ judged = NothingJudged
  /\ \E p \in PaperFacts : judged' = [facts |-> {p}, verdicts |-> Verdicts(p)]
EligibilitySpec == EligibilityInit /\ [][EvaluatePaper]_judged

-------------------------------------------------------------------------------
(* What must hold *)

NextSteps == {"needs_pdf", "needs_extraction", "extraction_failed", "read_prerequisites"}
\* The concepts that hold.
HoldingConcepts(verdicts) == {c \in DOMAIN verdicts : verdicts[c] = {}}
\* What is known of the body is beyond doubt.
BodyIsKnown(p) ==
  {"pdf_contradictory", "pdf_unknown", "extraction_contradictory", "extraction_unknown"}
    \cap (Pdf(p) \cup Extraction(p)) = {}
Hidden(p) == [p EXCEPT !.visibility = [known |-> TRUE, hidden |-> {"unrevealed"}]]

\* Of an accepted paper at most one thing is to be done next, so no two queues
\* work on it, and when its body is known there is one, unless only the reading's
\* own conditions are missing (eligibility/rules.py:110).
OneNextStep(p, held) ==
  /\ Cardinality(held \cap NextSteps) <= 1
  /\ AcceptedPaper(p) = {} /\ BodyIsKnown(p) =>
       \/ held \cap (NextSteps \ {"read_prerequisites"}) # {}
       \/ Pdf(p) = {} /\ Extraction(p) = {}
\* A human decision stands whatever the system suggests, before or after; a
\* suggestion needs its artifact, an open gate and a paper that is shown.
HumanStands(p) ==
  /\ Humans(p) # {} => Effective(p) \subseteq Humans(p)
  /\ Effective(p) \cap Systems(p) # {} =>
       /\ p.gate = "enabled" /\ Screening(p) = {} /\ Visible(p) = {}
       /\ \A d \in Effective(p) : d.screening = p.screening.reference
  /\ Humans(p) # {} /\ PaperIdentity(p) = {} /\ Usable(p) = p.decisions
       /\ Cardinality(Latest(Humans(p))) = 1 => Effective(p) = Latest(Humans(p))
\* Reading, by the queue or on request, is of an accepted paper; hiding a paper
\* allows nothing that was not allowed before.
ReadingIsGuarded(p, held) ==
  /\ held \cap {"eligible_for_auto_read", "requested_manual_read"} # {} =>
       "read_prerequisites" \in held
  /\ "read_prerequisites" \in held =>
       /\ \E d \in Effective(p) : d.result = "accepted"
       /\ p.extraction.state = "succeeded" /\ p.extraction.pdf = p.pdf.reference
       /\ p.execution = "production"
  /\ p.visibility.known => HoldingConcepts(Verdicts(Hidden(p))) \ {"waiting_calibration"} \subseteq held

\* Every evaluation gives at most one next step, lets a human decision stand and
\* guards the reading.
VerdictsAreSound ==
  \A p \in judged.facts : \A held \in {HoldingConcepts(judged.verdicts)} :
    OneNextStep(p, held) /\ HumanStands(p) /\ ReadingIsGuarded(p, held)
================================================================================
