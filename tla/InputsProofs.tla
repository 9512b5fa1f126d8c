------------------------------ MODULE InputsProofs ------------------------------
(***************************************************************************)
(* Proofs about what stands beside an attempt: the acceptance of a Read       *)
(* answer, the eligibility of a paper, the log of a root, and the histories     *)
(* beside an audit.                                                         *)
(***************************************************************************)
EXTENDS
  ReadAcceptance, Eligibility, RuntimeLog, FixtureRegistry, FiniteSetTheorems,
  SequenceTheorems, WellFoundedInduction, TLAPS

-------------------------------------------------------------------------------
(* Read acceptance *)

\* A candidate keeps its other fields when items of it are dropped.
LEMMA WithoutFields ==
  ASSUME NEW c, IsAnalysis(c), NEW places
  PROVE  LET rest == Without(c, places) IN
         /\ rest.items = [p \in DOMAIN c.items \ places |-> c.items[p]]
         /\ rest.language = c.language /\ rest.value = c.value /\ rest.types = c.types
         /\ IsAnalysis(rest)
BY DEF Without, IsAnalysis

\* Dropping items of a sound whole leaves a sound whole.
LEMMA RestIsWhole ==
  ASSUME NEW c, IsAnalysis(c), NEW places, NEW ctx, WholeIssues(c, ctx) = {}
  PROVE  WholeIssues(Without(c, places), ctx) = {}
<1> DEFINE rest == Without(c, places)
<1>1. /\ rest.items = [p \in DOMAIN c.items \ places |-> c.items[p]]
      /\ rest.language = c.language /\ rest.value = c.value /\ rest.types = c.types
  BY WithoutFields
<1> HIDE DEF rest
<1>2. \A p \in DOMAIN rest.items : p \in DOMAIN c.items /\ rest.items[p] = c.items[p]
  BY <1>1
<1>3. ~\E p \in DOMAIN c.items : ~c.items[p].meaningful
  BY DEF WholeIssues
<1>4. ~\E p \in DOMAIN rest.items : ~rest.items[p].meaningful
  BY <1>2, <1>3
<1>5. /\ ~(c.language # ctx.language) /\ ~(c.value >= 3 /\ c.types = <<>>)
      /\ ~\E i, j \in DOMAIN c.types : i < j /\ c.types[i] = c.types[j]
  BY DEF WholeIssues
<1>6. WholeIssues(rest, ctx) = {}
  BY <1>1, <1>4, <1>5 DEF WholeIssues
<1> QED BY <1>6 DEF rest

\* The bad items of a rest are those of the candidate that are left.
LEMMA BadOfRest ==
  ASSUME NEW c, IsAnalysis(c), NEW places, NEW ctx
  PROVE  /\ BadPlaces(Without(c, places), ctx) = BadPlaces(c, ctx) \ places
         /\ Subject(Without(c, places)) = Subject(c) \ places
<1>1. Without(c, places).items = [p \in DOMAIN c.items \ places |-> c.items[p]]
  BY WithoutFields
<1> QED BY <1>1 DEF BadPlaces, Subject

\* The first attempt is accepted just when nothing is wrong with it.
LEMMA FirstIsAcceptedWhole ==
  ASSUME NEW c, IsAnalysis(c), NEW ctx
  PROVE  IsAccepted(c, ctx, 1) <=>
           ValidContext(ctx) /\ WholeIssues(c, ctx) = {} /\ BadPlaces(c, ctx) = {}
<1>1. GivenUp(c, ctx, 1) = {}
  BY DEF GivenUp
<1>2. /\ BadPlaces(Without(c, {}), ctx) = BadPlaces(c, ctx)
      /\ Subject(Without(c, {})) = Subject(c)
  <2>1. ASSUME NEW places, places = {}
        PROVE  /\ BadPlaces(Without(c, places), ctx) = BadPlaces(c, ctx)
               /\ Subject(Without(c, places)) = Subject(c)
    <3>1. /\ BadPlaces(Without(c, places), ctx) = BadPlaces(c, ctx) \ places
          /\ Subject(Without(c, places)) = Subject(c) \ places
      BY BadOfRest
    <3> QED BY <2>1, <3>1
  <2> QED BY <2>1
<1>3. AfterDropping(c, ctx, {}).verdict = "accepted" <=> BadPlaces(c, ctx) = {}
  BY <1>2 DEF AfterDropping, Rejection
<1> QED BY <1>1, <1>3 DEF IsAccepted, Validation, ContextError, Rejection

\* What the final attempt drops, and what it is accepted for.
LEMMA AcceptedByDropping ==
  ASSUME NEW c, NEW ctx, NEW ordinal, Validation(c, ctx, ordinal).verdict = "accepted"
  PROVE  LET dropped == GivenUp(c, ctx, ordinal)
             rest == Without(c, dropped)
         IN /\ ValidContext(ctx) /\ WholeIssues(c, ctx) = {} /\ BadPlaces(rest, ctx) = {}
            /\ Subject(c) # {} => Subject(rest) # {}
            /\ Validation(c, ctx, ordinal).analysis = rest
            /\ Validation(c, ctx, ordinal).discards =
                 {Discard(p, c.items[p], ctx) : p \in dropped}
            /\ Validation(c, ctx, ordinal).diagnostics =
                 UNION {Diagnostics(p, rest.items[p], ctx) : p \in DOMAIN rest.items}
<1>1. ValidContext(ctx)
  BY DEF Validation, ContextError
<1>2. WholeIssues(c, ctx) = {}
  BY <1>1 DEF Validation, Rejection
<1>3. Validation(c, ctx, ordinal) = AfterDropping(c, ctx, GivenUp(c, ctx, ordinal))
  BY <1>1, <1>2 DEF Validation
<1>4. BadPlaces(Without(c, GivenUp(c, ctx, ordinal)), ctx) = {}
  BY <1>3 DEF AfterDropping, Rejection
<1>5. ~(Subject(c) # {} /\ Subject(Without(c, GivenUp(c, ctx, ordinal))) = {})
  BY <1>3, <1>4 DEF AfterDropping, Rejection
<1> QED BY <1>1, <1>2, <1>3, <1>4, <1>5 DEF AfterDropping

\* A number of an item without a reliable slice that has it gets a reason.
LEMMA UnsupportedIsMarked ==
  ASSUME NEW p, NEW item, NEW ctx, ~IsSupported(item, ctx)
  PROVE  \E d \in Diagnostics(p, item, ctx) : d.at = p
<1>1. PICK l \in item.numbers :
        \A s \in Slices(item, ctx) : ~(~Restricted(s) /\ SupportedBy(s, l, TRUE))
  BY DEF IsSupported
<1>2. NumberReason(Slices(item, ctx), l) # "none"
  <2> DEFINE supporting == {s \in Slices(item, ctx) : SupportedBy(s, l, TRUE)}
  <2>1. supporting # {} => \A s \in supporting : Restricted(s)
    BY <1>1
  <2> QED BY <2>1 DEF NumberReason
<1>3. NumberReason(Slices(item, ctx), l) \in
        {NumberReason(Slices(item, ctx), k) : k \in item.numbers} \ {"none"}
  BY <1>2
<1> DEFINE reasons == (IF \E s \in Slices(item, ctx) : s.kind = "formula" \/ s.unreliable
                       THEN {"restricted_source_reference"} ELSE {})
                      \cup ({NumberReason(Slices(item, ctx), k) : k \in item.numbers} \ {"none"})
<1>4. NumberReason(Slices(item, ctx), l) \in reasons
  BY <1>3
<1>5. Diagnostics(p, item, ctx) = {[at |-> p, reason |-> r] : r \in reasons}
  BY DEF Diagnostics
<1> HIDE DEF reasons
<1>6. [at |-> p, reason |-> NumberReason(Slices(item, ctx), l)] \in Diagnostics(p, item, ctx)
  BY <1>4, <1>5
<1> QED BY <1>6

\* What is accepted is one of the rests, the largest, and reported.
LEMMA AcceptedIsLargestRest ==
  ASSUME NEW c, IsAnalysis(c), NEW ctx, NEW ordinal \in 1..2,
         Validation(c, ctx, ordinal).verdict = "accepted"
  PROVE  LET result == Validation(c, ctx, ordinal) IN
         /\ result.analysis \in Rests(c, ctx)
         /\ \A rest \in Rests(c, ctx) : DOMAIN rest.items \subseteq DOMAIN result.analysis.items
         /\ {d.at : d \in result.discards} = DOMAIN c.items \ DOMAIN result.analysis.items
         /\ IsAccepted(c, ctx, 1) => result.discards = {}
         /\ \A p \in DOMAIN result.analysis.items :
              \/ IsSupported(c.items[p], ctx)
              \/ \E d \in result.diagnostics : d.at = p
<1> DEFINE dropped == GivenUp(c, ctx, ordinal)
           kept == Without(c, dropped)
           result == Validation(c, ctx, ordinal)
<1>1. /\ ValidContext(ctx) /\ WholeIssues(c, ctx) = {} /\ BadPlaces(kept, ctx) = {}
      /\ Subject(c) # {} => Subject(kept) # {}
      /\ result.analysis = kept
      /\ result.discards = {Discard(p, c.items[p], ctx) : p \in dropped}
      /\ result.diagnostics = UNION {Diagnostics(p, kept.items[p], ctx) : p \in DOMAIN kept.items}
  BY AcceptedByDropping
<1>2. dropped \subseteq BadPlaces(c, ctx) /\ dropped \subseteq InLists(c)
      /\ dropped \subseteq DOMAIN c.items
  BY DEF GivenUp, InLists
<1>3. /\ kept.items = [p \in DOMAIN c.items \ dropped |-> c.items[p]]
      /\ IsAnalysis(kept)
  BY WithoutFields
<1>4. WholeIssues(kept, ctx) = {}
  BY <1>1, RestIsWhole
<1> HIDE DEF dropped, kept, result
<1>5. IsAccepted(kept, ctx, 1)
  BY <1>1, <1>3, <1>4, FirstIsAcceptedWhole
<1>6. kept \in {Without(c, places) : places \in SUBSET InLists(c)}
  BY <1>2 DEF kept
<1>7. result.analysis \in Rests(c, ctx)
  BY <1>1, <1>5, <1>6 DEF Rests
<1>8. ASSUME NEW rest \in Rests(c, ctx)
      PROVE  DOMAIN rest.items \subseteq DOMAIN result.analysis.items
  <2>1. PICK places \in SUBSET InLists(c) : rest = Without(c, places)
    BY DEF Rests
  <2>2. IsAccepted(rest, ctx, 1)
    BY DEF Rests
  <2>3. /\ rest.items = [p \in DOMAIN c.items \ places |-> c.items[p]]
        /\ IsAnalysis(rest)
    BY <2>1, WithoutFields
  <2>4. BadPlaces(rest, ctx) = {}
    BY <2>2, <2>3, FirstIsAcceptedWhole
  <2>5. BadPlaces(c, ctx) \subseteq places
    BY <2>1, <2>4, BadOfRest
  <2> QED BY <1>1, <1>2, <1>3, <2>3, <2>5
<1>9. {d.at : d \in result.discards} = DOMAIN c.items \ DOMAIN result.analysis.items
  <2>1. \A p : Discard(p, c.items[p], ctx).at = p
    BY DEF Discard
  <2>2. {d.at : d \in result.discards} = dropped
    BY <1>1, <2>1
  <2> QED BY <1>1, <1>2, <1>3, <2>2
<1>10. ASSUME IsAccepted(c, ctx, 1) PROVE result.discards = {}
  <2>1. BadPlaces(c, ctx) = {}
    BY <1>10, FirstIsAcceptedWhole
  <2> QED BY <1>1, <1>2, <2>1
<1>11. ASSUME NEW p \in DOMAIN result.analysis.items, ~IsSupported(c.items[p], ctx)
       PROVE  \E d \in result.diagnostics : d.at = p
  <2>1. p \in DOMAIN kept.items /\ kept.items[p] = c.items[p]
    BY <1>1, <1>3
  <2>2. \E d \in Diagnostics(p, kept.items[p], ctx) : d.at = p
    BY <1>11, <2>1, UnsupportedIsMarked
  <2> QED BY <1>1, <2>1, <2>2
<1> QED BY <1>7, <1>8, <1>9, <1>10, <1>11 DEF result

\* What the final attempt refuses for its evidence had nothing to save.
LEMMA RejectedHasNoRest ==
  ASSUME NEW c, IsAnalysis(c), NEW ctx,
         Validation(c, ctx, 2).verdict = "rejected", WholeIssues(c, ctx) = {}
  PROVE  Rests(c, ctx) = {}
<1> DEFINE dropped == BadPlaces(c, ctx) \cap InLists(c)
<1>1. GivenUp(c, ctx, 2) = dropped
  BY DEF GivenUp
<1>2. ValidContext(ctx)
  BY DEF Validation, ContextError
<1>3. AfterDropping(c, ctx, dropped).verdict = "rejected"
  BY <1>1, <1>2 DEF Validation
<1>4. /\ BadPlaces(Without(c, dropped), ctx) = BadPlaces(c, ctx) \ dropped
      /\ Subject(Without(c, dropped)) = Subject(c) \ dropped
  BY BadOfRest
<1>5. \/ BadPlaces(c, ctx) \ dropped # {}
      \/ Subject(c) # {} /\ Subject(c) \ dropped = {}
  BY <1>3, <1>4 DEF AfterDropping
<1>6. ASSUME NEW rest \in Rests(c, ctx) PROVE FALSE
  <2>1. PICK places \in SUBSET InLists(c) : rest = Without(c, places)
    BY DEF Rests
  <2>2. IsAccepted(rest, ctx, 1) /\ (Subject(c) # {} => Subject(rest) # {})
    BY DEF Rests
  <2>3. IsAnalysis(rest)
    BY <2>1, WithoutFields
  <2>4. BadPlaces(rest, ctx) = {}
    BY <2>2, <2>3, FirstIsAcceptedWhole
  <2>5. /\ BadPlaces(rest, ctx) = BadPlaces(c, ctx) \ places
        /\ Subject(rest) = Subject(c) \ places
    BY <2>1, BadOfRest
  <2>6. BadPlaces(c, ctx) \subseteq places /\ BadPlaces(c, ctx) \subseteq dropped
    BY <2>4, <2>5
  <2> QED BY <1>5, <2>2, <2>5, <2>6
<1> QED BY <1>6

\* What Validate leaves behind is a call of a candidate and a context with its
\* verdict.
AcceptanceInv ==
  acceptance # NoCall =>
    /\ acceptance.candidate \in ReadCandidates /\ acceptance.ordinal \in 1..2
    /\ acceptance.result =
         Validation(acceptance.candidate, acceptance.context, acceptance.ordinal)

LEMMA AcceptanceInvHolds == AcceptanceSpec => []AcceptanceInv
<1>1. AcceptanceInit => AcceptanceInv
  BY DEF AcceptanceInit, AcceptanceInv
<1>2. AcceptanceInv /\ [Validate]_acceptance => AcceptanceInv'
  <2> SUFFICES ASSUME AcceptanceInv, [Validate]_acceptance PROVE AcceptanceInv'
    OBVIOUS
  <2>1. CASE Validate
    BY <2>1 DEF Validate, AcceptanceInv
  <2>2. CASE UNCHANGED acceptance
    BY <2>2 DEF AcceptanceInv
  <2> QED BY <2>1, <2>2
<1> QED BY <1>1, <1>2, PTL DEF AcceptanceSpec

\* The final attempt forgives bad evidence in the lists and nothing else
\* (reading/acceptance_v2/__init__.py:442), for all answers and contexts.
THEOREM AcceptanceSound == AcceptanceSpec => []AcceptanceIsSound
<1>1. AcceptanceInv => AcceptanceIsSound
  <2> SUFFICES ASSUME AcceptanceInv, acceptance # NoCall
               PROVE  LET c == acceptance.candidate
                          ctx == acceptance.context
                          result == acceptance.result
                      IN /\ result.verdict = "context_error" <=> ~ValidContext(ctx)
                         /\ result.verdict = "accepted" =>
                              /\ result.analysis \in Rests(c, ctx)
                              /\ \A rest \in Rests(c, ctx) :
                                   DOMAIN rest.items \subseteq DOMAIN result.analysis.items
                              /\ {d.at : d \in result.discards} =
                                   DOMAIN c.items \ DOMAIN result.analysis.items
                              /\ IsAccepted(c, ctx, 1) => result.discards = {}
                              /\ \A p \in DOMAIN result.analysis.items :
                                   \/ IsSupported(c.items[p], ctx)
                                   \/ \E d \in result.diagnostics : d.at = p
                         /\ (result.verdict = "rejected" /\ acceptance.ordinal = 2
                             /\ WholeIssues(c, ctx) = {}) => Rests(c, ctx) = {}
    BY DEF AcceptanceIsSound
  <2> DEFINE c == acceptance.candidate
             ctx == acceptance.context
             ordinal == acceptance.ordinal
             result == acceptance.result
  <2>1. c \in ReadCandidates /\ ordinal \in 1..2 /\ result = Validation(c, ctx, ordinal)
    BY DEF AcceptanceInv
  <2>2. IsAnalysis(c)
    BY <2>1, CandidateAssumption
  <2> HIDE DEF c, ctx, ordinal, result
  <2>3. result.verdict = "context_error" <=> ~ValidContext(ctx)
    BY <2>1 DEF Validation, AfterDropping, ContextError, Rejection
  <2>4. ASSUME result.verdict = "accepted"
        PROVE  /\ result.analysis \in Rests(c, ctx)
               /\ \A rest \in Rests(c, ctx) :
                    DOMAIN rest.items \subseteq DOMAIN result.analysis.items
               /\ {d.at : d \in result.discards} =
                    DOMAIN c.items \ DOMAIN result.analysis.items
               /\ IsAccepted(c, ctx, 1) => result.discards = {}
               /\ \A p \in DOMAIN result.analysis.items :
                    \/ IsSupported(c.items[p], ctx)
                    \/ \E d \in result.diagnostics : d.at = p
    BY <2>1, <2>2, <2>4, AcceptedIsLargestRest
  <2>5. (result.verdict = "rejected" /\ ordinal = 2 /\ WholeIssues(c, ctx) = {})
          => Rests(c, ctx) = {}
    BY <2>1, <2>2, RejectedHasNoRest
  <2> QED BY <2>3, <2>4, <2>5 DEF c, ctx, ordinal, result
<1> QED BY <1>1, AcceptanceInvHolds, PTL

-------------------------------------------------------------------------------
(* Eligibility: the reasons against a concept *)

\* Of finitely many numbered decisions one comes last.
LEMMA SomeLatest ==
  ASSUME NEW ds, IsFiniteSet(ds), ds # {}, \A d \in ds : d.sequence \in Int
  PROVE  Latest(ds) # {}
<1> DEFINE Bad == {n \in Nat : \E es \in SUBSET ds :
                     es # {} /\ Cardinality(es) = n /\ Latest(es) = {}}
           R == {ss \in Nat \X Nat : ss[1] < ss[2]}
<1>1. IsWellFoundedOn(R, Nat)
  BY NatLessThanWellFounded DEF OpToRel
<1>2. ASSUME Bad # {} PROVE FALSE
  <2>1. PICK n \in Bad : \A m \in Bad : ~(<<m, n>> \in R)
    BY <1>1, <1>2, WFMin
  <2>2. n \in Nat /\ \A m \in Bad : ~(m < n)
    BY <2>1
  <2>3. PICK es \in SUBSET ds : es # {} /\ Cardinality(es) = n /\ Latest(es) = {}
    OBVIOUS
  <2>4. IsFiniteSet(es)
    BY FS_Subset
  <2>5. PICK d \in es : TRUE
    BY <2>3
  <2> DEFINE rest == es \ {d}
  <2>6. IsFiniteSet(rest) /\ Cardinality(rest) = n - 1 /\ Cardinality(rest) \in Nat
    BY <2>3, <2>4, FS_RemoveElement, FS_CardinalityType
  <2>7. CASE rest = {}
    <3>1. es = {d} /\ d.sequence \in Int
      BY <2>7
    <3>2. d \in Latest(es)
      BY <3>1 DEF Latest
    <3> QED BY <2>3, <3>2
  <2>8. CASE rest # {}
    <3>1. Latest(rest) # {}
      <4>1. SUFFICES ASSUME Latest(rest) = {} PROVE FALSE
        OBVIOUS
      <4>2. rest \in SUBSET ds /\ n - 1 = Cardinality(rest) /\ n - 1 \in Nat
        BY <2>2, <2>6
      <4>3. n - 1 \in Bad
        BY <2>8, <4>1, <4>2
      <4>4. n - 1 < n
        BY <2>2
      <4> QED BY <2>2, <4>3, <4>4
    <3>2. PICK e \in rest : \A f \in rest : f.sequence <= e.sequence
      BY <3>1 DEF Latest
    <3>3. e.sequence \in Int /\ d.sequence \in Int /\ \A f \in es : f = d \/ f \in rest
      OBVIOUS
    <3>4. CASE d.sequence <= e.sequence
      <4>1. e \in Latest(es)
        BY <3>2, <3>3, <3>4 DEF Latest
      <4> QED BY <2>3, <4>1
    <3>5. CASE ~(d.sequence <= e.sequence)
      <4>1. \A f \in rest : f.sequence \in Int
        OBVIOUS
      <4>2. \A f \in es : f.sequence <= d.sequence
        BY <3>2, <3>3, <3>5, <4>1
      <4>3. d \in Latest(es)
        BY <4>2 DEF Latest
      <4> QED BY <2>3, <4>3
    <3> QED BY <3>4, <3>5
  <2> QED BY <2>7, <2>8
<1>3. Cardinality(ds) \in Nat
  BY FS_CardinalityType
<1> QED BY <1>2, <1>3

\* A PDF that is to be had is one there is something to say against.
LEMMA WantedPdf ==
  ASSUME NEW p, p.pdf.presence = "absent" \/ "pdf_historical" \in Pdf(p)
  PROVE  Pdf(p) # {}
BY DEF Pdf, If

\* The reasons against a PDF and an extraction have these names.
LEMMA BodyReasons ==
  ASSUME NEW p
  PROVE  /\ Pdf(p) \subseteq {"pdf_contradictory", "pdf_absent", "pdf_unknown", "pdf_historical"}
         /\ Extraction(p) \subseteq {"extraction_contradictory", "extraction_absent",
              "extraction_unknown", "extraction_retry_required", "extraction_historical"}
<1>1. Pdf(p) \subseteq {"pdf_contradictory", "pdf_absent", "pdf_unknown", "pdf_historical"}
  BY DEF Pdf, If
<1>2. Extraction(p) \subseteq {"extraction_contradictory", "extraction_absent",
        "extraction_unknown", "extraction_retry_required", "extraction_historical"}
  BY DEF Extraction, If
<1> QED BY <1>1, <1>2

\* What the state of an extraction says against it.
LEMMA ExtractionStates ==
  ASSUME NEW p
  PROVE  /\ p.extraction.state = "absent" <=> "extraction_absent" \in Extraction(p)
         /\ p.extraction.state = "failed" <=> "extraction_retry_required" \in Extraction(p)
         /\ p.extraction.state = "unknown" => "extraction_unknown" \in Extraction(p)
<1>1. p.extraction.state = "absent" <=> "extraction_absent" \in Extraction(p)
  BY DEF Extraction, If
<1>2. p.extraction.state = "failed" <=> "extraction_retry_required" \in Extraction(p)
  BY DEF Extraction, If
<1>3. p.extraction.state = "unknown" => "extraction_unknown" \in Extraction(p)
  BY DEF Extraction, If
<1> QED BY <1>1, <1>2, <1>3

\* A PDF is to be had where there is none for this version.
LEMMA NeedsPdfHolds ==
  ASSUME NEW p, NeedsPdf(p) = {}
  PROVE  Pdf(p) # {}
<1> DEFINE wanted == p.pdf.presence = "absent" \/ "pdf_historical" \in Pdf(p)
<1>1. CASE wanted
  BY <1>1, WantedPdf
<1>2. CASE ~wanted
  <2>1. If(~wanted /\ Pdf(p) = {}, "pdf_already_present") = {}
    BY DEF NeedsPdf
  <2> QED BY <1>2, <2>1 DEF If
<1> QED BY <1>1, <1>2

\* An extraction is to be made of a PDF that is there, where there is none of it.
LEMMA NeedsExtractionHolds ==
  ASSUME NEW p, IsProjection(p), NeedsExtraction(p) = {}
  PROVE  /\ Pdf(p) = {} /\ Extraction(p) # {}
         /\ p.extraction.state = "absent" \/ "extraction_historical" \in Extraction(p)
<1> DEFINE wanted == p.extraction.state = "absent" \/ "extraction_historical" \in Extraction(p)
           spared == IF wanted THEN {"extraction_absent", "extraction_historical",
                                     "extraction_retry_required"} ELSE {}
<1>1. (AcceptedPaper(p) \cup Pdf(p) \cup Extraction(p)) \ spared = {}
  BY DEF NeedsExtraction
<1>2. If(~wanted /\ p.extraction.state = "succeeded" /\ Extraction(p) = {},
         "extraction_already_present") = {}
  BY DEF NeedsExtraction
<1>3. Pdf(p) = {}
  BY <1>1, BodyReasons
<1>4. wanted
  <2>1. SUFFICES ASSUME ~wanted PROVE FALSE
    OBVIOUS
  <2>2. Extraction(p) = {}
    BY <1>1, <2>1
  <2>3. p.extraction.state = "succeeded"
    BY <2>2, ExtractionStates DEF IsProjection
  <2> QED BY <1>2, <2>1, <2>2, <2>3 DEF If
<1>5. Extraction(p) # {}
  BY <1>4, ExtractionStates
<1> QED BY <1>3, <1>4, <1>5

\* A failed extraction is of the PDF in hand, and nothing else is against it.
LEMMA ExtractionFailedHolds ==
  ASSUME NEW p, ExtractionFailed(p) = {}
  PROVE  /\ Pdf(p) = {} /\ p.extraction.state = "failed"
         /\ Extraction(p) = {"extraction_retry_required"}
<1>1. (PaperIdentity(p) \cup Pdf(p) \cup Extraction(p)) \ {"extraction_retry_required"} = {}
  BY DEF ExtractionFailed
<1>2. p.extraction.state = "failed"
  BY DEF ExtractionFailed, If
<1>3. "extraction_retry_required" \in Extraction(p)
  BY <1>2, ExtractionStates
<1>4. Pdf(p) = {}
  BY <1>1, BodyReasons
<1> QED BY <1>1, <1>2, <1>3, <1>4

\* What may be read has a PDF, its extraction and an effective decision for it.
LEMMA ReadPrerequisitesHold ==
  ASSUME NEW p, IsProjection(p), ReadPrerequisites(p) = {}
  PROVE  /\ Pdf(p) = {} /\ Extraction(p) = {} /\ Visible(p) = {} /\ AcceptedPaper(p) = {}
         /\ p.extraction.state = "succeeded" /\ p.extraction.pdf = p.pdf.reference
         /\ p.execution = "production"
<1>1. Pdf(p) = {} /\ Extraction(p) = {} /\ Visible(p) = {} /\ AcceptedPaper(p) = {}
  BY DEF ReadPrerequisites
<1>2. p.extraction.state = "succeeded"
  BY <1>1, ExtractionStates DEF IsProjection
<1>3. p.extraction.pdf = p.pdf.reference
  BY <1>1, <1>2 DEF Extraction, If
<1>4. p.execution = "production"
  BY DEF ReadPrerequisites, If, IsProjection
<1> QED BY <1>1, <1>2, <1>3, <1>4

-------------------------------------------------------------------------------
(* Eligibility: one next step *)

\* No two next steps hold together.
LEMMA NextStepsExclude ==
  ASSUME NEW p, IsProjection(p)
  PROVE  \A c1, c2 \in HoldingConcepts(Verdicts(p)) \cap NextSteps : c1 = c2
<1> DEFINE held == HoldingConcepts(Verdicts(p))
<1>1. /\ "needs_pdf" \in held => Pdf(p) # {}
      /\ "needs_extraction" \in held =>
           /\ Pdf(p) = {} /\ Extraction(p) # {}
           /\ p.extraction.state = "absent" \/ "extraction_historical" \in Extraction(p)
      /\ "extraction_failed" \in held =>
           /\ Pdf(p) = {} /\ p.extraction.state = "failed"
           /\ Extraction(p) = {"extraction_retry_required"}
      /\ "read_prerequisites" \in held => Pdf(p) = {} /\ Extraction(p) = {}
  <2>1. "needs_pdf" \in held => NeedsPdf(p) = {}
    BY DEF HoldingConcepts, Verdicts
  <2>2. "needs_extraction" \in held => NeedsExtraction(p) = {}
    BY DEF HoldingConcepts, Verdicts
  <2>3. "extraction_failed" \in held => ExtractionFailed(p) = {}
    BY DEF HoldingConcepts, Verdicts
  <2>4. "read_prerequisites" \in held => ReadPrerequisites(p) = {}
    BY DEF HoldingConcepts, Verdicts
  <2> QED BY <2>1, <2>2, <2>3, <2>4, NeedsPdfHolds, NeedsExtractionHolds, ExtractionFailedHolds,
             ReadPrerequisitesHold
<1> HIDE DEF held
<1>2. \A c1, c2 \in held \cap NextSteps : c1 = c2
  BY <1>1 DEF NextSteps
<1> QED BY <1>2 DEF held

\* At most one thing is to be done next, and one unless the body is ready.
LEMMA OneNextStepHolds ==
  ASSUME NEW p, IsProjection(p)
  PROVE  OneNextStep(p, HoldingConcepts(Verdicts(p)))
<1> DEFINE held == HoldingConcepts(Verdicts(p))
<1>1. Cardinality(held \cap NextSteps) <= 1
  <2>1. \A c1, c2 \in held \cap NextSteps : c1 = c2
    BY NextStepsExclude
  <2> HIDE DEF held
  <2>2. CASE held \cap NextSteps = {}
    BY <2>2, FS_EmptySet
  <2>3. CASE held \cap NextSteps # {}
    <3>1. PICK c : held \cap NextSteps = {c}
      BY <2>1, <2>3
    <3>2. Cardinality({c}) = 1
      BY FS_Singleton
    <3> QED BY <3>1, <3>2
  <2> QED BY <2>2, <2>3
<1>2. ASSUME AcceptedPaper(p) = {}, BodyIsKnown(p), ~(Pdf(p) = {} /\ Extraction(p) = {})
      PROVE  held \cap (NextSteps \ {"read_prerequisites"}) # {}
  <2>1. CASE Pdf(p) # {}
    <3>1. \A r \in Pdf(p) : r \in {"pdf_absent", "pdf_historical"}
      BY <1>2, BodyReasons DEF BodyIsKnown
    <3>2. p.pdf.presence = "absent" \/ "pdf_historical" \in Pdf(p)
      BY <2>1, <3>1 DEF Pdf, If
    <3>3. NeedsPdf(p) = {}
      BY <1>2, <3>1, <3>2 DEF NeedsPdf, If
    <3>4. "needs_pdf" \in held
      BY <3>3 DEF HoldingConcepts, Verdicts
    <3> QED BY <3>4 DEF NextSteps
  <2>2. CASE Pdf(p) = {} /\ (p.extraction.state = "absent" \/ "extraction_historical" \in Extraction(p))
    <3>1. \A r \in Extraction(p) :
            r \in {"extraction_absent", "extraction_retry_required", "extraction_historical"}
      BY <1>2, BodyReasons DEF BodyIsKnown
    <3>2. NeedsExtraction(p) = {}
      BY <1>2, <2>2, <3>1 DEF NeedsExtraction, If
    <3>3. "needs_extraction" \in held
      BY <3>2 DEF HoldingConcepts, Verdicts
    <3> QED BY <3>3 DEF NextSteps
  <2>3. CASE Pdf(p) = {} /\ ~(p.extraction.state = "absent" \/ "extraction_historical" \in Extraction(p))
    <3>1. \A r \in Extraction(p) : r = "extraction_retry_required"
      BY <1>2, <2>3, BodyReasons, ExtractionStates DEF BodyIsKnown
    <3>2. p.extraction.state = "failed"
      BY <1>2, <2>3, <3>1, ExtractionStates
    <3>3. PaperIdentity(p) = {}
      BY <1>2 DEF AcceptedPaper, Decision
    <3>4. ExtractionFailed(p) = {}
      BY <2>3, <3>1, <3>2, <3>3 DEF ExtractionFailed, If
    <3>5. "extraction_failed" \in held
      BY <3>4 DEF HoldingConcepts, Verdicts
    <3> QED BY <3>5 DEF NextSteps
  <2> QED BY <2>1, <2>2, <2>3
<1> QED BY <1>1, <1>2 DEF OneNextStep

-------------------------------------------------------------------------------
(* Eligibility: the effective decision *)

\* The contenders are finitely many numbered decisions of one kind.
LEMMA ContendersAreDecisions ==
  ASSUME NEW p, IsProjection(p)
  PROVE  /\ IsFiniteSet(Contenders(p)) /\ \A d \in Contenders(p) : d.sequence \in Int
         /\ Contenders(p) \subseteq Usable(p) /\ Usable(p) \subseteq p.decisions
         /\ Humans(p) \cap Systems(p) = {}
         /\ Latest(Contenders(p)) \subseteq Contenders(p)
         /\ IsFiniteSet(Latest(Contenders(p))) /\ Cardinality(Latest(Contenders(p))) \in Nat
<1>1. Contenders(p) \subseteq Usable(p) /\ Usable(p) \subseteq p.decisions
  BY DEF Contenders, Humans, Systems, Usable
<1>2. IsFiniteSet(p.decisions) /\ \A d \in p.decisions : d.sequence \in Int
  BY DEF IsProjection
<1>3. IsFiniteSet(Contenders(p))
  BY <1>1, <1>2, FS_Subset
<1>4. Humans(p) \cap Systems(p) = {}
  BY DEF Humans, Systems, HumanSources, Judgments
<1>5. Latest(Contenders(p)) \subseteq Contenders(p)
  BY DEF Latest
<1>6. IsFiniteSet(Latest(Contenders(p))) /\ Cardinality(Latest(Contenders(p))) \in Nat
  BY <1>3, <1>5, FS_Subset, FS_CardinalityType
<1> QED BY <1>1, <1>2, <1>3, <1>4, <1>5, <1>6

\* Where nothing speaks against the decision, there is exactly one.
LEMMA DecisionIsOne ==
  ASSUME NEW p, IsProjection(p), Decision(p) = {}
  PROVE  /\ Effective(p) = Latest(Contenders(p)) /\ Effective(p) # {}
         /\ Contenders(p) # {} /\ Cardinality(Effective(p)) = 1
<1>1. Effective(p) = Latest(Contenders(p))
  BY DEF Effective
<1>2. Contenders(p) # {}
  BY DEF Decision, If
<1>3. ~(Cardinality(Latest(Contenders(p))) > 1)
  BY DEF Decision, If
<1>4. Latest(Contenders(p)) # {}
  BY <1>2, ContendersAreDecisions, SomeLatest
<1>5. Cardinality(Latest(Contenders(p))) # 0
  BY <1>4, ContendersAreDecisions, FS_EmptySet
<1>6. Cardinality(Latest(Contenders(p))) = 1
  BY <1>3, <1>5, ContendersAreDecisions
<1> QED BY <1>1, <1>2, <1>4, <1>6

\* A human decision stands; a suggestion needs its artifact and an open gate.
LEMMA HumanStandsHolds ==
  ASSUME NEW p, IsProjection(p)
  PROVE  HumanStands(p)
<1>1. ASSUME Humans(p) # {} PROVE Effective(p) \subseteq Humans(p)
  <2>1. Contenders(p) = Humans(p)
    BY <1>1 DEF Contenders
  <2> QED BY <2>1, ContendersAreDecisions DEF Effective
<1>2. ASSUME Effective(p) \cap Systems(p) # {}
      PROVE  /\ p.gate = "enabled" /\ Screening(p) = {} /\ Visible(p) = {}
             /\ \A d \in Effective(p) : d.screening = p.screening.reference
  <2>1. Decision(p) = {}
    BY <1>2 DEF Effective
  <2>2. Humans(p) = {}
    BY <1>1, <1>2, ContendersAreDecisions
  <2>3. /\ Effective(p) = Latest(Contenders(p)) /\ Contenders(p) # {}
        /\ Cardinality(Effective(p)) = 1
    BY <2>1, DecisionIsOne
  <2>4. AgainstSuggestion(p, Effective(p)) = {}
    BY <2>1, <2>2, <2>3 DEF Decision
  <2>5. Screening(p) = {} /\ Visible(p) = {}
    BY <2>4 DEF AgainstSuggestion
  <2>6. p.gate = "enabled"
    BY <2>4 DEF AgainstSuggestion, If, IsProjection
  <2>7. ~\E d \in Effective(p) : Cardinality(Effective(p)) = 1
           /\ d.screening # p.screening.reference
    BY <2>4 DEF AgainstSuggestion, If
  <2> QED BY <2>3, <2>5, <2>6, <2>7
<1>3. ASSUME Humans(p) # {}, PaperIdentity(p) = {}, Usable(p) = p.decisions,
             Cardinality(Latest(Humans(p))) = 1
      PROVE  Effective(p) = Latest(Humans(p))
  <2>1. Contenders(p) = Humans(p)
    BY <1>3 DEF Contenders
  <2>2. Decision(p) = {}
    BY <1>3, <2>1 DEF Decision, If
  <2> QED BY <2>1, <2>2 DEF Effective
<1> QED BY <1>1, <1>2, <1>3 DEF HumanStands

-------------------------------------------------------------------------------
(* Eligibility: hiding a paper *)

\* A hidden paper is the same paper but for its visibility.
LEMMA HiddenKeeps ==
  ASSUME NEW p, IsProjection(p)
  PROVE  /\ Canonical(Hidden(p)) = Canonical(p) /\ Version(Hidden(p)) = Version(p)
         /\ PaperIdentity(Hidden(p)) = PaperIdentity(p)
         /\ Metadata(Hidden(p)) = Metadata(p) /\ Screening(Hidden(p)) = Screening(p)
         /\ Pdf(Hidden(p)) = Pdf(p) /\ Extraction(Hidden(p)) = Extraction(p)
         /\ Usable(Hidden(p)) = Usable(p) /\ Humans(Hidden(p)) = Humans(p)
         /\ Contenders(Hidden(p)) = Contenders(p)
         /\ Hidden(p).decisions = p.decisions /\ Hidden(p).gate = p.gate
         /\ Hidden(p).screening = p.screening
         /\ Hidden(p).pdf = p.pdf /\ Hidden(p).extraction = p.extraction
         /\ Visible(Hidden(p)) = {"visibility_denied"}
<1> DEFINE h == Hidden(p)
<1>1. /\ h.paper = p.paper /\ h.version = p.version /\ h.current = p.current
      /\ h.canonical = p.canonical /\ h.revision = p.revision /\ h.metadata = p.metadata
      /\ h.decisions = p.decisions /\ h.gate = p.gate /\ h.screening = p.screening
      /\ h.pdf = p.pdf /\ h.extraction = p.extraction
      /\ h.visibility = [known |-> TRUE, hidden |-> {"unrevealed"}]
  BY DEF Hidden, IsProjection
<1> HIDE DEF h
<1>2. Canonical(h) = Canonical(p) /\ Version(h) = Version(p)
  BY <1>1 DEF Canonical, Version
<1>3. PaperIdentity(h) = PaperIdentity(p)
  BY <1>2 DEF PaperIdentity
<1>4. Metadata(h) = Metadata(p)
  BY <1>1, <1>3 DEF Metadata
<1>5. Screening(h) = Screening(p)
  BY <1>1, <1>3 DEF Screening
<1>6. Pdf(h) = Pdf(p) /\ Extraction(h) = Extraction(p)
  BY <1>1 DEF Pdf, Extraction
<1>7. Usable(h) = Usable(p)
  BY <1>1 DEF Usable
<1>8. Humans(h) = Humans(p) /\ Systems(h) = Systems(p)
  BY <1>7 DEF Humans, Systems
<1>9. Contenders(h) = Contenders(p)
  BY <1>8 DEF Contenders
<1>10. Visible(h) = {"visibility_denied"}
  BY <1>1 DEF Visible, If, Permits
<1> QED BY <1>1, <1>2, <1>3, <1>4, <1>5, <1>6, <1>7, <1>8, <1>9, <1>10 DEF h

\* What speaks against a decision when the paper is shown does so when it is
\* hidden.
LEMMA HidingAddsReasons ==
  ASSUME NEW p, IsProjection(p), p.visibility.known
  PROVE  /\ Visible(p) \subseteq Visible(Hidden(p))
         /\ Decision(p) \subseteq Decision(Hidden(p))
         /\ Decision(Hidden(p)) = {} => Effective(Hidden(p)) = Effective(p)
         /\ AcceptedPaper(Hidden(p)) \subseteq AcceptedPaper(p) \cup {"visibility_denied"}
<1>1. Visible(p) \subseteq Visible(Hidden(p))
  <2>1. Visible(p) \subseteq {"visibility_denied"}
    BY DEF Visible, If
  <2> QED BY <2>1, HiddenKeeps
<1> DEFINE h == Hidden(p)
<1>h. /\ Screening(h) = Screening(p) /\ h.gate = p.gate /\ h.screening = p.screening
      /\ Visible(h) = {"visibility_denied"}
  BY HiddenKeeps
<1> HIDE DEF h
<1>2. \A w : /\ AgainstSuggestion(p, w) \subseteq AgainstSuggestion(h, w)
             /\ AgainstSuggestion(h, w) \subseteq AgainstSuggestion(p, w) \cup {"visibility_denied"}
  <2> TAKE w
  <2> DEFINE open == If(\E d \in w : Cardinality(w) = 1
                          /\ d.screening # p.screening.reference, "decision_contradictory")
                     \cup If(\E d \in w : Cardinality(w) = 1 /\ d.applicability # "current",
                             "decision_not_current")
                     \cup If(p.gate = "paused", "gate_paused")
                     \cup If(p.gate = "disabled", "gate_disabled")
                     \cup If(p.gate = "unknown", "gate_unknown")
  <2>1. AgainstSuggestion(p, w) = Screening(p) \cup Visible(p) \cup open
    BY DEF AgainstSuggestion
  <2>2. AgainstSuggestion(h, w) = Screening(p) \cup Visible(h) \cup open
    BY <1>h DEF AgainstSuggestion
  <2>3. Visible(p) \subseteq Visible(h)
    BY <1>1 DEF h
  <2> HIDE DEF open
  <2> QED BY <1>h, <2>1, <2>2, <2>3
<1> DEFINE w == Latest(Contenders(p))
           common == PaperIdentity(p)
             \cup If(Usable(p) # p.decisions \/ Cardinality(w) > 1, "decision_contradictory")
             \cup If(Contenders(p) = {}, "decision_absent")
             \cup If(Contenders(p) = {} /\ Usable(p) # {}, "projection_not_decision")
           suggested == Contenders(p) # {} /\ Humans(p) = {}
<1>4. Decision(p) = common \cup (IF suggested THEN AgainstSuggestion(p, w) ELSE {})
  BY DEF Decision
<1>5. Decision(Hidden(p)) =
        common \cup (IF suggested THEN AgainstSuggestion(Hidden(p), w) ELSE {})
  BY HiddenKeeps DEF Decision
<1> HIDE DEF w, common, suggested
<1>6. Decision(p) \subseteq Decision(Hidden(p))
  BY <1>2, <1>4, <1>5 DEF h
<1>7. ASSUME Decision(Hidden(p)) = {} PROVE Effective(Hidden(p)) = Effective(p)
  BY <1>6, <1>7, HiddenKeeps DEF Effective
<1>8. Decision(Hidden(p)) \subseteq Decision(p) \cup {"visibility_denied"}
  BY <1>2, <1>4, <1>5 DEF h
<1>9. AcceptedPaper(Hidden(p)) \subseteq AcceptedPaper(p) \cup {"visibility_denied"}
  <2>1. CASE Decision(Hidden(p)) = {}
    BY <1>6, <1>7, <2>1 DEF AcceptedPaper
  <2>2. CASE Decision(Hidden(p)) # {}
    <3>1. Effective(Hidden(p)) = {}
      BY <2>2 DEF Effective
    <3> QED BY <1>8, <3>1 DEF AcceptedPaper, If
  <2> QED BY <2>1, <2>2
<1> QED BY <1>1, <1>6, <1>7, <1>9

\* Nothing that is said against an accepted paper is said of its body.
LEMMA AcceptedReasons ==
  ASSUME NEW p
  PROVE  AcceptedPaper(p) \cap
           {"pdf_absent", "pdf_historical", "extraction_absent", "extraction_historical",
            "extraction_retry_required"} = {}
<1>1. PaperIdentity(p) \subseteq
        {"identity_contradictory", "canonical_unknown", "not_canonical", "version_unknown",
         "not_current_version"}
  BY DEF PaperIdentity, Canonical, Version, If
<1>2. Screening(p) \subseteq PaperIdentity(p) \cup
        {"screening_contradictory", "screening_absent", "screening_unknown",
         "screening_historical"}
  BY DEF Screening, If
<1>3. Visible(p) \subseteq {"visibility_unknown", "visibility_denied"}
  BY DEF Visible, If
<1>4. \A w : AgainstSuggestion(p, w) \subseteq Screening(p) \cup Visible(p) \cup
        {"decision_contradictory", "decision_not_current", "gate_paused", "gate_disabled",
         "gate_unknown"}
  BY DEF AgainstSuggestion, If
<1>5. Decision(p) \subseteq PaperIdentity(p) \cup AgainstSuggestion(p, Latest(Contenders(p)))
        \cup {"decision_contradictory", "decision_absent", "projection_not_decision"}
  BY DEF Decision, If
<1>6. AcceptedPaper(p) \subseteq Decision(p) \cup {"decision_not_accepted"}
  BY DEF AcceptedPaper, If
<1>7. Decision(p) \cap
           {"pdf_absent", "pdf_historical", "extraction_absent", "extraction_historical",
            "extraction_retry_required"} = {}
  BY <1>1, <1>2, <1>3, <1>4, <1>5
<1> QED BY <1>6, <1>7

\* Each concept that holds of a hidden paper holds of it when it is shown.
LEMMA HidingAllowsNothing ==
  ASSUME NEW p, IsProjection(p), p.visibility.known
  PROVE  HoldingConcepts(Verdicts(Hidden(p))) \ {"waiting_calibration"}
           \subseteq HoldingConcepts(Verdicts(p))
<1> DEFINE h == Hidden(p)
<1>1. /\ Canonical(h) = Canonical(p) /\ Version(h) = Version(p)
      /\ PaperIdentity(h) = PaperIdentity(p)
      /\ Metadata(h) = Metadata(p) /\ Screening(h) = Screening(p)
      /\ Pdf(h) = Pdf(p) /\ Extraction(h) = Extraction(p)
      /\ h.pdf = p.pdf /\ h.extraction = p.extraction
      /\ Visible(h) = {"visibility_denied"}
  BY HiddenKeeps
<1>2. Decision(h) = {} => Decision(p) = {} /\ Effective(h) = Effective(p)
  BY HidingAddsReasons
<1> HIDE DEF h
<1>3. AcceptedPaper(h) = {} => AcceptedPaper(p) = {}
  <2>1. AcceptedPaper(h) = {} => Decision(h) = {}
    BY DEF AcceptedPaper
  <2> QED BY <1>2, <2>1 DEF AcceptedPaper
<1>4. Decision(h) = {} => Decision(p) = {}
  BY <1>2
<1>5. DecisionStale(h) = {} => DecisionStale(p) = {}
  <2>1. DecisionStale(h) = {} => Decision(h) = {}
    BY DEF DecisionStale
  <2> QED BY <1>2, <2>1 DEF DecisionStale
<1>6. NeedsPdf(h) = {} => NeedsPdf(p) = {}
  <2> DEFINE wanted == p.pdf.presence = "absent" \/ "pdf_historical" \in Pdf(p)
             spared == IF wanted THEN {"pdf_absent", "pdf_historical"} ELSE {}
             present == If(~wanted /\ Pdf(p) = {}, "pdf_already_present")
  <2>1. NeedsPdf(h) = ((AcceptedPaper(h) \cup Pdf(p)) \ spared) \cup present
    BY <1>1 DEF NeedsPdf
  <2>2. NeedsPdf(p) = ((AcceptedPaper(p) \cup Pdf(p)) \ spared) \cup present
    BY DEF NeedsPdf
  <2>3. spared \subseteq {"pdf_absent", "pdf_historical"}
    OBVIOUS
  <2> HIDE DEF spared, present, wanted
  <2>4. ASSUME NeedsPdf(h) = {} PROVE AcceptedPaper(h) = {}
    BY <2>1, <2>3, <2>4, AcceptedReasons
  <2> QED BY <1>3, <2>1, <2>2, <2>4
<1>7. NeedsExtraction(h) = {} => NeedsExtraction(p) = {}
  <2> DEFINE wanted == p.extraction.state = "absent" \/ "extraction_historical" \in Extraction(p)
             spared == IF wanted THEN {"extraction_absent", "extraction_historical",
                                       "extraction_retry_required"} ELSE {}
             present == If(~wanted /\ p.extraction.state = "succeeded" /\ Extraction(p) = {},
                           "extraction_already_present")
  <2>1. NeedsExtraction(h) =
          ((AcceptedPaper(h) \cup Pdf(p) \cup Extraction(p)) \ spared) \cup present
    BY <1>1 DEF NeedsExtraction
  <2>2. NeedsExtraction(p) =
          ((AcceptedPaper(p) \cup Pdf(p) \cup Extraction(p)) \ spared) \cup present
    BY DEF NeedsExtraction
  <2>3. spared \subseteq {"extraction_absent", "extraction_historical",
                          "extraction_retry_required"}
    OBVIOUS
  <2> HIDE DEF spared, present, wanted
  <2>4. ASSUME NeedsExtraction(h) = {} PROVE AcceptedPaper(h) = {}
    BY <2>1, <2>3, <2>4, AcceptedReasons
  <2> QED BY <1>3, <2>1, <2>2, <2>4
<1>8. ExtractionFailed(h) = ExtractionFailed(p)
  BY <1>1 DEF ExtractionFailed
<1>9. /\ ReadPrerequisites(h) # {} /\ AutoRead(h) # {} /\ ManualRead(h) # {}
  <2>1. "visibility_denied" \in ReadPrerequisites(h)
    BY <1>1 DEF ReadPrerequisites
  <2> QED BY <2>1 DEF AutoRead, ManualRead
<1>10. ASSUME NEW c \in HoldingConcepts(Verdicts(h)), c # "waiting_calibration"
       PROVE  c \in HoldingConcepts(Verdicts(p))
  <2>1. c \in DOMAIN Verdicts(h) /\ Verdicts(h)[c] = {}
    BY DEF HoldingConcepts
  <2>2. DOMAIN Verdicts(h) = DOMAIN Verdicts(p)
    BY DEF Verdicts
  <2>3. Verdicts(p)[c] = {}
    BY <1>1, <1>3, <1>4, <1>5, <1>6, <1>7, <1>8, <1>9, <1>10, <2>1 DEF Verdicts
  <2> QED BY <2>1, <2>2, <2>3 DEF HoldingConcepts
<1> QED BY <1>10 DEF h

\* Reading is of an accepted paper with its body; hiding it allows nothing.
LEMMA ReadingIsGuardedHolds ==
  ASSUME NEW p, IsProjection(p)
  PROVE  ReadingIsGuarded(p, HoldingConcepts(Verdicts(p)))
<1> DEFINE held == HoldingConcepts(Verdicts(p))
<1>1. /\ "eligible_for_auto_read" \in held => AutoRead(p) = {}
      /\ "requested_manual_read" \in held => ManualRead(p) = {}
      /\ "read_prerequisites" \in held <=> ReadPrerequisites(p) = {}
  BY DEF HoldingConcepts, Verdicts
<1> HIDE DEF held
<1>2. held \cap {"eligible_for_auto_read", "requested_manual_read"} # {} =>
        "read_prerequisites" \in held
  <2>1. AutoRead(p) = {} => ReadPrerequisites(p) = {}
    BY DEF AutoRead
  <2>2. ManualRead(p) = {} => ReadPrerequisites(p) = {}
    BY DEF ManualRead
  <2> QED BY <1>1, <2>1, <2>2
<1>3. ASSUME "read_prerequisites" \in held
      PROVE  /\ \E d \in Effective(p) : d.result = "accepted"
             /\ p.extraction.state = "succeeded" /\ p.extraction.pdf = p.pdf.reference
             /\ p.execution = "production"
  <2>1. /\ AcceptedPaper(p) = {}
        /\ p.extraction.state = "succeeded" /\ p.extraction.pdf = p.pdf.reference
        /\ p.execution = "production"
    BY <1>1, <1>3, ReadPrerequisitesHold
  <2>2. Decision(p) = {} /\ ~\E d \in Effective(p) : d.result # "accepted"
    BY <2>1 DEF AcceptedPaper, If
  <2>3. Effective(p) # {}
    BY <2>2, DecisionIsOne
  <2> QED BY <2>1, <2>2, <2>3
<1>4. p.visibility.known =>
        HoldingConcepts(Verdicts(Hidden(p))) \ {"waiting_calibration"} \subseteq held
  BY HidingAllowsNothing DEF held
<1>5. ReadingIsGuarded(p, held)
  BY <1>2, <1>3, <1>4 DEF ReadingIsGuarded
<1> QED BY <1>5 DEF held

\* What EvaluatePaper leaves behind are the verdicts of the facts it was given.
EligibilityInv ==
  judged = NothingJudged \/ \E p \in PaperFacts : judged = [facts |-> {p}, verdicts |-> Verdicts(p)]

\* For all facts a caller may give: at most one next step, a human decision
\* stands, and the reading is guarded (eligibility/rules.py:110).
THEOREM EligibilitySound == EligibilitySpec => []VerdictsAreSound
<1>1. EligibilityInit => EligibilityInv
  BY DEF EligibilityInit, EligibilityInv
<1>2. EligibilityInv /\ [EvaluatePaper]_judged => EligibilityInv'
  <2> SUFFICES ASSUME EligibilityInv, [EvaluatePaper]_judged PROVE EligibilityInv'
    OBVIOUS
  <2>1. CASE EvaluatePaper
    <3>1. PICK p \in PaperFacts : judged' = [facts |-> {p}, verdicts |-> Verdicts(p)]
      BY <2>1 DEF EvaluatePaper
    <3> QED BY <3>1 DEF EligibilityInv
  <2>2. CASE UNCHANGED judged
    BY <2>2 DEF EligibilityInv
  <2> QED BY <2>1, <2>2
<1>3. EligibilityInv => VerdictsAreSound
  <2> SUFFICES ASSUME EligibilityInv, NEW p \in judged.facts
               PROVE  LET held == HoldingConcepts(judged.verdicts) IN
                      OneNextStep(p, held) /\ HumanStands(p) /\ ReadingIsGuarded(p, held)
    BY DEF VerdictsAreSound
  <2>1. PICK q \in PaperFacts : judged = [facts |-> {q}, verdicts |-> Verdicts(q)]
    BY DEF EligibilityInv, NothingJudged
  <2>2. p = q /\ judged.verdicts = Verdicts(p)
    BY <2>1
  <2>3. IsProjection(p)
    BY <2>1, <2>2, PaperFactsAssumption DEF IsProjection
  <2>4. OneNextStep(p, HoldingConcepts(Verdicts(p)))
    BY <2>3, OneNextStepHolds
  <2>5. HumanStands(p)
    BY <2>3, HumanStandsHolds
  <2>6. ReadingIsGuarded(p, HoldingConcepts(Verdicts(p)))
    BY <2>3, ReadingIsGuardedHolds
  <2> QED BY <2>2, <2>4, <2>5, <2>6
<1> QED BY <1>1, <1>2, <1>3, PTL DEF EligibilitySpec

-------------------------------------------------------------------------------
(* The files of the log *)

FilesOf == [1..MaxFiles -> Seq(Nat)]
IsWhole(files, e, size) ==
  \E n \in 1..MaxFiles, start \in 0..MaxBytes : StandsBehind(files, e, size, n, start)
Standing(files, e, size) == IsWhole(files, e, size) \/ IsPast(files, e)

\* What Append does to the places of a file.
LEMMA PartAppended ==
  ASSUME NEW s \in Seq(Nat), NEW e \in Nat
  PROVE /\ Append(s, e) \in Seq(Nat) /\ Len(Append(s, e)) = Len(s) + 1
        /\ DOMAIN Append(s, e) = 1..(Len(s) + 1) /\ DOMAIN s = 1..Len(s)
        /\ Append(s, e)[Len(s) + 1] = e
        /\ \A i \in 1..Len(s) : Append(s, e)[i] = s[i]
  OBVIOUS

\* What a truncation leaves.
LEMMA PartsTruncated ==
  ASSUME NEW s \in Seq(Nat), NEW k \in 0..Len(s)
  PROVE /\ SubSeq(s, 1, k) \in Seq(Nat) /\ Len(SubSeq(s, 1, k)) = k
        /\ DOMAIN SubSeq(s, 1, k) = 1..k
        /\ \A i \in 1..k : SubSeq(s, 1, k)[i] = s[i]
  OBVIOUS

\* Without its last file a log stays in order, and what was whole is whole or past.
LEMMA LastDropped ==
  ASSUME NEW F \in FilesOf, InOrder(F), NEW G, G = [F EXCEPT ![MaxFiles] = <<>>]
  PROVE /\ G \in FilesOf /\ InOrder(G)
        /\ \A e \in Nat, size \in Nat \ {0} : Standing(F, e, size) => Standing(G, e, size)
<1>0. MaxFiles \in Nat \ {0} /\ MaxBytes \in Nat BY LogAssumption
<1>1. G \in FilesOf BY <1>0 DEF FilesOf
<1>2. /\ G[MaxFiles] = <<>> /\ DOMAIN G[MaxFiles] = {}
      /\ \A n \in 1..MaxFiles : n # MaxFiles => G[n] = F[n]
  BY <1>0 DEF FilesOf
<1>3. InOrder(G) BY <1>0, <1>2 DEF InOrder
<1>4. ASSUME NEW e \in Nat, NEW size \in Nat \ {0}, IsWhole(F, e, size)
      PROVE Standing(G, e, size)
  <2>1. PICK n \in 1..MaxFiles, start \in 0..MaxBytes :
          /\ start + size <= Len(F[n])
          /\ \A m \in 1..MaxFiles : \A i \in DOMAIN F[m] :
               F[m][i] = e <=> m = n /\ i \in (start + 1)..(start + size)
    BY <1>4 DEF IsWhole, StandsBehind
  <2>2. CASE n # MaxFiles
    <3>1. start + size <= Len(G[n]) BY <2>1, <2>2, <1>2
    <3>2. ASSUME NEW m \in 1..MaxFiles, NEW i \in DOMAIN G[m]
          PROVE G[m][i] = e <=> m = n /\ i \in (start + 1)..(start + size)
      <4>1. m # MaxFiles /\ G[m] = F[m] BY <1>2
      <4> QED BY <4>1, <2>1
    <3>3. IsWhole(G, e, size) BY <3>1, <3>2 DEF IsWhole, StandsBehind
    <3> QED BY <3>3 DEF Standing
  <2>3. CASE n = MaxFiles
    <3>1. start + 1 \in DOMAIN F[n] /\ F[n][start + 1] = e
      <4>1. F[n] \in Seq(Nat) BY DEF FilesOf
      <4>2. start + 1 \in DOMAIN F[n] BY <4>1, <2>1, <1>0
      <4> QED BY <4>2, <2>1, <1>0
    <3>2. ASSUME NEW m \in 1..MaxFiles, NEW i \in DOMAIN G[m] PROVE G[m][i] > e
      <4>1. m # MaxFiles /\ G[m] = F[m] BY <1>2
      <4>2. F[n][start + 1] <= F[m][i] BY <3>1, <4>1, <2>3, <1>0 DEF InOrder
      <4>3. F[m][i] # e BY <2>1, <4>1, <2>3
      <4>4. F[m][i] \in Nat BY <4>1 DEF FilesOf
      <4> QED BY <3>1, <4>1, <4>2, <4>3, <4>4
    <3> QED BY <3>2 DEF Standing, IsPast
  <2> QED BY <2>2, <2>3
<1>5. ASSUME NEW e \in Nat, IsPast(F, e) PROVE IsPast(G, e)
  BY <1>5, <1>0, <1>2 DEF IsPast
<1> QED BY <1>1, <1>3, <1>4, <1>5 DEF Standing

\* A file takes the next number: nothing is lost.
LEMMA FileShifted ==
  ASSUME NEW F \in FilesOf, InOrder(F), NEW n \in 1..(MaxFiles - 1), F[n + 1] = <<>>,
         NEW G \in FilesOf, G[n + 1] = F[n], G[n] = <<>>,
         \A m \in 1..MaxFiles : m \notin {n, n + 1} => G[m] = F[m]
  PROVE /\ InOrder(G)
        /\ \A e \in Nat, size \in Nat \ {0} : Standing(F, e, size) => Standing(G, e, size)
<1>0. MaxFiles \in Nat \ {0} /\ MaxBytes \in Nat BY LogAssumption
<1>n. n \in 1..MaxFiles /\ n + 1 \in 1..MaxFiles /\ n # n + 1 BY <1>0
<1>2. /\ G[n + 1] = F[n] /\ G[n] = <<>> /\ DOMAIN G[n] = {} /\ DOMAIN F[n + 1] = {}
      /\ \A m \in 1..MaxFiles : m \notin {n, n + 1} => G[m] = F[m]
  OBVIOUS
<1>3. InOrder(G)
  <2> SUFFICES ASSUME NEW k \in 1..MaxFiles, NEW m \in 1..MaxFiles,
                      NEW i \in DOMAIN G[k], NEW j \in DOMAIN G[m],
                      k > m \/ (k = m /\ i < j)
               PROVE G[k][i] <= G[m][j]
    BY DEF InOrder
  <2> DEFINE back(l) == IF l = n + 1 THEN n ELSE l
  <2>1. \A l \in 1..MaxFiles : DOMAIN G[l] # {} => back(l) \in 1..MaxFiles /\ G[l] = F[back(l)]
    BY <1>2, <1>n
  <2>2. k # n /\ m # n BY <1>2
  <2>3. back(k) > back(m) \/ (back(k) = back(m) /\ i < j) BY <2>2, <1>n
  <2>4. G[k] = F[back(k)] /\ G[m] = F[back(m)] /\ back(k) \in 1..MaxFiles /\ back(m) \in 1..MaxFiles
    BY <2>1
  <2> HIDE DEF back
  <2> QED BY <2>3, <2>4 DEF InOrder
<1>4. ASSUME NEW e \in Nat, NEW size \in Nat \ {0}, IsWhole(F, e, size)
      PROVE IsWhole(G, e, size)
  <2>1. PICK k \in 1..MaxFiles, start \in 0..MaxBytes :
          /\ start + size <= Len(F[k])
          /\ \A m \in 1..MaxFiles : \A i \in DOMAIN F[m] :
               F[m][i] = e <=> m = k /\ i \in (start + 1)..(start + size)
    BY <1>4 DEF IsWhole, StandsBehind
  <2>2. k # n + 1 BY <2>1, <1>0
  <2>3. CASE k = n
    <3>1. start + size <= Len(G[n + 1]) BY <2>1, <2>3, <1>2
    <3>2. ASSUME NEW m \in 1..MaxFiles, NEW i \in DOMAIN G[m]
          PROVE G[m][i] = e <=> m = n + 1 /\ i \in (start + 1)..(start + size)
      <4>1. CASE m = n + 1 BY <4>1, <2>1, <2>3, <1>2, <1>n
      <4>2. CASE m = n BY <4>2, <1>2
      <4>3. CASE m \notin {n, n + 1} BY <4>3, <2>1, <2>3, <1>2
      <4> QED BY <4>1, <4>2, <4>3
    <3> QED BY <3>1, <3>2, <1>n DEF IsWhole, StandsBehind
  <2>4. CASE k # n
    <3>1. start + size <= Len(G[k]) BY <2>1, <2>2, <2>4, <1>2
    <3>2. ASSUME NEW m \in 1..MaxFiles, NEW i \in DOMAIN G[m]
          PROVE G[m][i] = e <=> m = k /\ i \in (start + 1)..(start + size)
      <4>1. CASE m = n + 1 BY <4>1, <2>1, <2>2, <2>4, <1>2, <1>n
      <4>2. CASE m = n BY <4>2, <1>2
      <4>3. CASE m \notin {n, n + 1} BY <4>3, <2>1, <1>2
      <4> QED BY <4>1, <4>2, <4>3
    <3> QED BY <3>1, <3>2 DEF IsWhole, StandsBehind
  <2> QED BY <2>3, <2>4
<1>5. ASSUME NEW e \in Nat, IsPast(F, e) PROVE IsPast(G, e)
  <2> SUFFICES ASSUME NEW m \in 1..MaxFiles, NEW i \in DOMAIN G[m] PROVE G[m][i] > e
    BY DEF IsPast
  <2>1. CASE m = n + 1 BY <2>1, <1>5, <1>2, <1>n DEF IsPast
  <2>2. CASE m # n + 1 BY <2>2, <1>5, <1>2 DEF IsPast
  <2> QED BY <2>1, <2>2
<1> QED BY <1>3, <1>4, <1>5 DEF Standing

\* A part of the newest event is added to the active file.
LEMMA PartAdded ==
  ASSUME NEW F \in FilesOf, InOrder(F), NEW d \in Nat,
         \A m \in 1..MaxFiles : \A i \in DOMAIN F[m] : F[m][i] <= d,
         NEW G, G = [F EXCEPT ![1] = Append(F[1], d)]
  PROVE /\ G \in FilesOf /\ InOrder(G)
        /\ \A e \in Nat, size \in Nat \ {0} : e < d /\ Standing(F, e, size) => Standing(G, e, size)
<1>0. MaxFiles \in Nat \ {0} /\ MaxBytes \in Nat /\ 1 \in 1..MaxFiles BY LogAssumption
<1>f. F[1] \in Seq(Nat) BY <1>0 DEF FilesOf
<1>a. /\ Append(F[1], d) \in Seq(Nat) /\ Len(Append(F[1], d)) = Len(F[1]) + 1
      /\ DOMAIN Append(F[1], d) = 1..(Len(F[1]) + 1) /\ DOMAIN F[1] = 1..Len(F[1])
      /\ Append(F[1], d)[Len(F[1]) + 1] = d
      /\ \A i \in 1..Len(F[1]) : Append(F[1], d)[i] = F[1][i]
  BY <1>f, PartAppended
<1>1. G \in FilesOf BY <1>0, <1>a DEF FilesOf
<1>2. G[1] = Append(F[1], d) /\ \A m \in 1..MaxFiles : m # 1 => G[m] = F[m]
  BY <1>0 DEF FilesOf
<1>l. Len(F[1]) \in Nat BY <1>f
<1>3. \A m \in 1..MaxFiles : \A i \in DOMAIN G[m] :
        \/ i \in DOMAIN F[m] /\ G[m][i] = F[m][i]
        \/ m = 1 /\ i = Len(F[1]) + 1 /\ i \notin DOMAIN F[1] /\ G[m][i] = d
  BY <1>2, <1>a, <1>l
<1>4. InOrder(G)
  <2> SUFFICES ASSUME NEW k \in 1..MaxFiles, NEW m \in 1..MaxFiles,
                      NEW i \in DOMAIN G[k], NEW j \in DOMAIN G[m],
                      k > m \/ (k = m /\ i < j)
               PROVE G[k][i] <= G[m][j]
    BY DEF InOrder
  <2>1. CASE j \in DOMAIN F[m] /\ G[m][j] = F[m][j]
    <3>1. i \in DOMAIN F[k] /\ G[k][i] = F[k][i]
      <4>1. CASE k = 1 /\ i = Len(F[1]) + 1
        <5>1. m = 1 /\ i < j BY <4>1
        <5>2. j <= Len(F[1]) BY <5>1, <2>1, <1>a
        <5>3. j \in Nat /\ i \in Nat BY <2>1, <5>1, <1>a, <4>1, <1>l
        <5> QED BY <5>1, <5>2, <5>3, <4>1, <1>l
      <4> QED BY <4>1, <1>3
    <3> QED BY <2>1, <3>1 DEF InOrder
  <2>2. CASE G[m][j] = d
    <3>1. G[k][i] = d \/ G[k][i] <= d BY <1>3
    <3> QED BY <3>1, <2>2
  <2> QED BY <2>1, <2>2, <1>3
<1>5. ASSUME NEW e \in Nat, NEW size \in Nat \ {0}, e < d, IsWhole(F, e, size)
      PROVE IsWhole(G, e, size)
  <2>1. PICK k \in 1..MaxFiles, start \in 0..MaxBytes :
          /\ start + size <= Len(F[k])
          /\ \A m \in 1..MaxFiles : \A i \in DOMAIN F[m] :
               F[m][i] = e <=> m = k /\ i \in (start + 1)..(start + size)
    BY <1>5 DEF IsWhole, StandsBehind
  <2>2. start + size <= Len(G[k]) BY <2>1, <1>2, <1>a, <1>l
  <2>3. ASSUME NEW m \in 1..MaxFiles, NEW i \in DOMAIN G[m]
        PROVE G[m][i] = e <=> m = k /\ i \in (start + 1)..(start + size)
    <3>1. CASE i \in DOMAIN F[m] /\ G[m][i] = F[m][i] BY <3>1, <2>1
    <3>2. CASE m = 1 /\ i = Len(F[1]) + 1 /\ G[m][i] = d
      <4>1. G[m][i] # e BY <3>2, <1>5
      <4>2. m = k => i \notin (start + 1)..(start + size) BY <3>2, <2>1, <1>l
      <4> QED BY <4>1, <4>2
    <3> QED BY <3>1, <3>2, <1>3
  <2> QED BY <2>2, <2>3 DEF IsWhole, StandsBehind
<1>6. ASSUME NEW e \in Nat, e < d, IsPast(F, e) PROVE IsPast(G, e)
  BY <1>6, <1>3 DEF IsPast
<1> QED BY <1>1, <1>4, <1>5, <1>6 DEF Standing

\* The half line at the end of the active file is taken back.
LEMMA LineTakenBack ==
  ASSUME NEW F \in FilesOf, InOrder(F), NEW d \in Nat, NEW k \in Nat, k <= Len(F[1]),
         \A i \in DOMAIN F[1] : i > k => F[1][i] = d,
         NEW G \in FilesOf, G[1] = SubSeq(F[1], 1, k),
         \A m \in 1..MaxFiles : m # 1 => G[m] = F[m]
  PROVE /\ InOrder(G)
        /\ \A e \in Nat, size \in Nat \ {0} : e # d /\ Standing(F, e, size) => Standing(G, e, size)
<1>0. MaxFiles \in Nat \ {0} /\ MaxBytes \in Nat /\ 1 \in 1..MaxFiles BY LogAssumption
<1>f. F[1] \in Seq(Nat) BY <1>0 DEF FilesOf
<1>l. Len(F[1]) \in Nat /\ DOMAIN F[1] = 1..Len(F[1]) BY <1>f
<1>a. /\ SubSeq(F[1], 1, k) \in Seq(Nat) /\ Len(SubSeq(F[1], 1, k)) = k
      /\ DOMAIN SubSeq(F[1], 1, k) = 1..k
      /\ \A i \in 1..k : SubSeq(F[1], 1, k)[i] = F[1][i]
  <2>1. k \in 0..Len(F[1]) BY <1>l
  <2> QED BY <2>1, <1>f, PartsTruncated
<1>2. G[1] = SubSeq(F[1], 1, k) /\ \A m \in 1..MaxFiles : m # 1 => G[m] = F[m]
  OBVIOUS
<1>3. \A m \in 1..MaxFiles : \A i \in DOMAIN G[m] : i \in DOMAIN F[m] /\ G[m][i] = F[m][i]
  BY <1>2, <1>a, <1>l
<1>4. InOrder(G) BY <1>3 DEF InOrder
<1>5. ASSUME NEW e \in Nat, NEW size \in Nat \ {0}, e # d, IsWhole(F, e, size)
      PROVE IsWhole(G, e, size)
  <2>1. PICK n \in 1..MaxFiles, start \in 0..MaxBytes :
          /\ start + size <= Len(F[n])
          /\ \A m \in 1..MaxFiles : \A i \in DOMAIN F[m] :
               F[m][i] = e <=> m = n /\ i \in (start + 1)..(start + size)
    BY <1>5 DEF IsWhole, StandsBehind
  <2>2. start + size <= Len(G[n])
    <3>1. CASE n = 1
      <4>1. start + size \in DOMAIN F[1] BY <3>1, <2>1, <1>l
      <4>2. F[1][start + size] = e BY <4>1, <3>1, <2>1
      <4>3. ~(start + size > k) BY <4>1, <4>2, <1>5
      <4>4. start + size <= k
        <5>1. start + size \in Nat BY <1>0
        <5> QED BY <5>1, <4>3
      <4> QED BY <4>4, <3>1, <1>2, <1>a
    <3> QED BY <3>1, <2>1, <1>2
  <2>3. \A m \in 1..MaxFiles : \A i \in DOMAIN G[m] :
          G[m][i] = e <=> m = n /\ i \in (start + 1)..(start + size)
    BY <2>1, <1>3
  <2> QED BY <2>2, <2>3 DEF IsWhole, StandsBehind
<1>6. ASSUME NEW e \in Nat, IsPast(F, e) PROVE IsPast(G, e)
  BY <1>6, <1>3 DEF IsPast
<1> QED BY <1>4, <1>5, <1>6 DEF Standing

-------------------------------------------------------------------------------
(* The invariant of the log *)

Holding == {"unlink", "rename", "open", "write"}
LogAnswers == {"none", "written", "error"} \cup Holding
LogFrame(x) ==
  \/ x = NotEmitting
  \/ x.at = "waiting" /\ x.size \in EventSizes
  \/ x \in [at : Holding, size : EventSizes, event : Nat, original : Nat, from : Int]
LogTypeOK ==
  /\ logFiles \in FilesOf
  /\ logged \in Seq([size : EventSizes, answer : LogAnswers])
  /\ logWriters = [w \in LogWriters |-> logWriters[w]]
  /\ \A w \in LogWriters : LogFrame(logWriters[w])
\* The parts of the files are of events that reached the lock.
PartsLogged ==
  \A n \in 1..MaxFiles :
    /\ Len(Kept[n]) <= MaxBytes
    /\ \A i \in DOMAIN Kept[n] : Kept[n][i] \in 1..Len(logged)
OneHolder ==
  \A w, x \in LogWriters : logWriters[w].at \in Holding /\ logWriters[x].at \in Holding => w = x
\* No part of the event has been written.
Unwritten(e) == \A n \in 1..MaxFiles : \A i \in DOMAIN Kept[n] : Kept[n][i] < e
HolderSound(f) ==
  /\ f.event = Len(logged) /\ f.event # 0
  /\ logged[f.event].answer = "none" /\ logged[f.event].size = f.size
  /\ f.at \in {"unlink", "rename", "open"} => Unwritten(f.event)
  /\ f.at = "unlink" => MaxFiles > 1 /\ f.from = MaxFiles - 1
  /\ f.at = "rename" => f.from \in 1..(MaxFiles - 1) /\ logFiles[f.from + 1] = NoFile
  /\ f.at = "open" => Len(Kept[1]) + f.size <= MaxBytes
  /\ f.at = "write" =>
       /\ logFiles[1] # NoFile
       /\ f.original <= Len(logFiles[1]) /\ Len(logFiles[1]) < f.original + f.size
       /\ f.original + f.size <= MaxBytes
       /\ \A n \in 1..MaxFiles : \A i \in DOMAIN Kept[n] :
            Kept[n][i] = f.event <=> n = 1 /\ i > f.original
WrittenStands ==
  \A e \in DOMAIN logged :
    logged[e].answer = "written" => Standing(Kept, e, logged[e].size)
\* Whose parts the files have.
PartsAnswered ==
  \A e \in DOMAIN logged : IsKept(e) =>
    \/ logged[e].answer = "written" \/ IsTorn(e)
    \/ \E w \in LogWriters : logWriters[w].at = "write" /\ logWriters[w].event = e
LogInv ==
  /\ LogTypeOK /\ PartsLogged /\ OneHolder /\ InOrder(Kept) /\ WrittenStands /\ PartsAnswered
  /\ \A w \in LogWriters : logWriters[w].at \in Holding => HolderSound(logWriters[w])

\* No returned event leaves the files.
NothingGoes ==
  \A e \in DOMAIN logged : logged[e].answer = "written" /\ IsKept(e) => IsKept(e)'

\* What the parts of a file that is there are.
LEMMA FilesAreThere ==
  ASSUME LogTypeOK
  PROVE /\ Kept \in FilesOf /\ MaxFiles \in Nat \ {0} /\ MaxBytes \in Nat \ {0}
        /\ 1 \in 1..MaxFiles
        /\ \A n \in 1..MaxFiles : Kept[n] = FileOf(n) /\ FileOf(n) \in Seq(Nat)
        /\ EventSizes \subseteq Nat \ {0} /\ Len(logged) \in Nat
        /\ DOMAIN logged = 1..Len(logged)
<1>1. MaxFiles \in Nat \ {0} /\ MaxBytes \in Nat \ {0} /\ EventSizes \subseteq Nat \ {0}
  BY LogAssumption
<1>2. 1 \in 1..MaxFiles BY <1>1
<1>3. Len(logged) \in Nat /\ DOMAIN logged = 1..Len(logged) BY DEF LogTypeOK
<1>4. ASSUME NEW n \in 1..MaxFiles PROVE Kept[n] = FileOf(n) /\ FileOf(n) \in Seq(Nat)
  BY DEF LogTypeOK, FilesOf, FileOf, Kept
<1>5. Kept \in FilesOf BY <1>4 DEF Kept, FilesOf
<1> QED BY <1>1, <1>2, <1>3, <1>4, <1>5

\* The beginning.
LEMMA LogInitSound == LogInit => LogInv
<1> SUFFICES ASSUME LogInit PROVE LogInv OBVIOUS
<1>1. NoFile \in Seq(Nat) BY DEF NoFile
<1>2. LogTypeOK
  BY <1>1 DEF LogInit, LogTypeOK, FilesOf, LogFrame, LogAnswers
<1>3. \A n \in 1..MaxFiles : Kept[n] = <<>> BY DEF LogInit, Kept, FileOf
<1>4. \A n \in 1..MaxFiles : DOMAIN Kept[n] = {} /\ Len(Kept[n]) = 0 BY <1>3
<1>5. PartsLogged BY <1>4, LogAssumption DEF PartsLogged
<1>6. InOrder(Kept) BY <1>4 DEF InOrder
<1>7. WrittenStands /\ PartsAnswered BY DEF LogInit, WrittenStands, PartsAnswered
<1>8. \A w \in LogWriters : logWriters[w].at \notin Holding
  BY DEF LogInit, NotEmitting, Holding
<1> QED BY <1>2, <1>5, <1>6, <1>7, <1>8 DEF LogInv, OneHolder

\* A writer whose place does not hold the lock comes and goes: nothing of the log
\* changes.
LEMMA FilesLeftAlone ==
  ASSUME LogInv, UNCHANGED <<logFiles, logged>>, NEW w \in LogWriters, NEW f, LogFrame(f),
         f.at \notin Holding, logWriters[w].at \notin Holding,
         logWriters' = [logWriters EXCEPT ![w] = f]
  PROVE LogInv' /\ NothingGoes
<1>1. Kept' = Kept /\ logged' = logged /\ logFiles' = logFiles BY DEF Kept, FileOf
<1>2. LogTypeOK' BY DEF LogInv, LogTypeOK
<1>3. /\ logWriters'[w] = f
      /\ \A x \in LogWriters \ {w} : logWriters'[x] = logWriters[x]
  BY DEF LogInv, LogTypeOK
<1>4. OneHolder' BY <1>3 DEF LogInv, OneHolder
<1>5. \A x \in LogWriters : logWriters'[x].at \in Holding =>
        logWriters'[x] = logWriters[x] /\ HolderSound(logWriters[x])
  BY <1>3 DEF LogInv
<1>6. \A x \in LogWriters : logWriters'[x].at \in Holding => HolderSound(logWriters[x])'
  BY <1>1, <1>5 DEF HolderSound, Unwritten
<1>k. \A e : IsKept(e)' <=> IsKept(e) BY <1>1 DEF IsKept
<1>7. PartsLogged' /\ WrittenStands' /\ InOrder(Kept') /\ PartsAnswered'
  <2>5. PartsAnswered'
    <3>1. ASSUME NEW e \in DOMAIN logged, IsKept(e), logged[e].answer # "written", ~IsTorn(e)
          PROVE \E x \in LogWriters : logWriters'[x].at = "write" /\ logWriters'[x].event = e
      <4>1. PICK x \in LogWriters : logWriters[x].at = "write" /\ logWriters[x].event = e
        BY <3>1 DEF LogInv, PartsAnswered
      <4>2. x # w BY <4>1 DEF Holding
      <4> QED BY <4>1, <4>2, <1>3
    <3> QED BY <3>1, <1>1, <1>k DEF PartsAnswered, IsTorn
  <2>1. PartsLogged' BY <1>1 DEF LogInv, PartsLogged
  <2>2. InOrder(Kept') BY <1>1 DEF LogInv
  <2>3. \A e \in DOMAIN logged' : logged'[e].answer = "written" => Standing(Kept', e, logged'[e].size)
    BY <1>1 DEF LogInv, WrittenStands
  <2>4. WrittenStands' BY <2>3 DEF WrittenStands, Standing, IsWhole, StandsBehind, IsPast
  <2> QED BY <2>1, <2>2, <2>4, <2>5
<1>8. NothingGoes BY <1>k DEF NothingGoes
<1> QED BY <1>2, <1>4, <1>6, <1>7, <1>8 DEF LogInv

\* The writer that holds the lock makes a step.
LEMMA HolderMoves ==
  ASSUME LogInv, NEW w \in LogWriters, NEW f, LogFrame(f),
         logWriters' = [logWriters EXCEPT ![w] = f],
         \A x \in LogWriters \ {w} : logWriters[x].at \notin Holding,
         logFiles' \in FilesOf, logged' \in Seq([size : EventSizes, answer : LogAnswers]),
         PartsLogged', InOrder(Kept'), WrittenStands', PartsAnswered',
         f.at \in Holding => HolderSound(f)'
  PROVE LogInv'
<1>1. LogTypeOK' BY DEF LogInv, LogTypeOK
<1>2. /\ logWriters'[w] = f
      /\ \A x \in LogWriters \ {w} : logWriters'[x] = logWriters[x]
  BY DEF LogInv, LogTypeOK
<1>3. OneHolder' BY <1>2 DEF OneHolder
<1>4. \A x \in LogWriters : logWriters'[x].at \in Holding => x = w BY <1>2
<1>5. ASSUME NEW x \in LogWriters, logWriters'[x].at \in Holding PROVE HolderSound(logWriters[x])'
  BY <1>2, <1>4, <1>5 DEF HolderSound
<1> QED BY <1>1, <1>3, <1>5 DEF LogInv

\* What a holder knows.
LEMMA HolderFrame ==
  ASSUME LogInv, NEW w \in LogWriters, logWriters[w].at \in Holding
  PROVE /\ logWriters[w] \in [at : Holding, size : EventSizes, event : Nat,
                              original : Nat, from : Int]
        /\ HolderSound(logWriters[w])
        /\ logWriters[w].event \in DOMAIN logged
        /\ \A x \in LogWriters \ {w} : logWriters[x].at \notin Holding
<1>1. LogFrame(logWriters[w]) BY DEF LogInv, LogTypeOK
<1>2. logWriters[w] \in [at : Holding, size : EventSizes, event : Nat,
                         original : Nat, from : Int]
  BY <1>1 DEF LogFrame, NotEmitting, Holding
<1>3. HolderSound(logWriters[w]) BY DEF LogInv
<1>4. logWriters[w].event \in DOMAIN logged
  BY <1>2, <1>3, FilesAreThere DEF HolderSound, LogInv
<1> QED BY <1>2, <1>3, <1>4 DEF LogInv, OneHolder

\* Whose parts the files have, after a step of one writer.
LEMMA PartsFollow ==
  ASSUME LogInv, NEW w \in LogWriters, NEW f, logWriters' = [logWriters EXCEPT ![w] = f],
         \A e \in DOMAIN logged' : IsKept(e)' =>
           \/ logged'[e].answer \in {"written", "write"}
           \/ f.at = "write" /\ f.event = e
           \/ /\ e \in DOMAIN logged /\ IsKept(e) /\ logged'[e] = logged[e]
              /\ ~(logWriters[w].at = "write" /\ logWriters[w].event = e)
  PROVE PartsAnswered'
<1>1. /\ logWriters'[w] = f
      /\ \A x \in LogWriters \ {w} : logWriters'[x] = logWriters[x]
  BY DEF LogInv, LogTypeOK
<1>2. ASSUME NEW e \in DOMAIN logged', IsKept(e)'
      PROVE \/ logged'[e].answer \in {"written", "write"}
            \/ \E x \in LogWriters : logWriters'[x].at = "write" /\ logWriters'[x].event = e
  <2>1. CASE logged'[e].answer \in {"written", "write"} BY <2>1
  <2>2. CASE f.at = "write" /\ f.event = e BY <2>2, <1>1
  <2>3. CASE /\ e \in DOMAIN logged /\ IsKept(e) /\ logged'[e] = logged[e]
             /\ ~(logWriters[w].at = "write" /\ logWriters[w].event = e)
    <3>1. CASE logged[e].answer = "written" \/ IsTorn(e) BY <3>1, <2>3 DEF IsTorn
    <3>2. CASE \E x \in LogWriters : logWriters[x].at = "write" /\ logWriters[x].event = e
      BY <3>2, <2>3, <1>1
    <3> QED BY <3>1, <3>2, <2>3 DEF LogInv, PartsAnswered
  <2> QED BY <1>2, <2>1, <2>2, <2>3
<1> QED BY <1>2 DEF PartsAnswered, IsTorn

\* A file of events that reached the lock is not the mark of a file that is missing.
LEMMA FileIsThere ==
  ASSUME NEW s \in Seq(Nat), \A i \in DOMAIN s : s[i] # 0
  PROVE s # NoFile
<1>1. 1 \in DOMAIN NoFile /\ NoFile[1] = 0 BY DEF NoFile
<1> QED BY <1>1

\* The files under one change of the active one.
LEMMA ActiveChanged ==
  ASSUME LogTypeOK, NEW s \in Seq(Nat), s # NoFile, logFiles' = [logFiles EXCEPT ![1] = s]
  PROVE /\ logFiles' \in FilesOf /\ logFiles'[1] = s
        /\ Kept' = [Kept EXCEPT ![1] = s]
<1>1. 1 \in 1..MaxFiles BY LogAssumption
<1>2. logFiles' \in FilesOf /\ logFiles'[1] = s
      /\ \A n \in 1..MaxFiles : n # 1 => logFiles'[n] = logFiles[n]
  BY <1>1 DEF LogTypeOK, FilesOf
<1>3. \A n \in 1..MaxFiles : FileOf(n)' = IF n = 1 THEN s ELSE FileOf(n)
  BY <1>2 DEF FileOf
<1>4. Kept' = [Kept EXCEPT ![1] = s] BY <1>3 DEF Kept
<1> QED BY <1>2, <1>4

\* What is written stays so when the files keep it and nothing else is.
LEMMA WrittenIsKept ==
  ASSUME WrittenStands, NEW G, Kept' = G,
         \A e \in DOMAIN logged' :
           logged'[e].answer = "written" /\ ~Standing(G, e, logged'[e].size) =>
             e \in DOMAIN logged /\ logged'[e] = logged[e]
             /\ (Standing(Kept, e, logged[e].size) => Standing(G, e, logged[e].size))
  PROVE WrittenStands'
<1>1. ASSUME NEW e \in DOMAIN logged', logged'[e].answer = "written"
      PROVE Standing(G, e, logged'[e].size)
  BY <1>1 DEF WrittenStands
<1> QED BY <1>1 DEF WrittenStands, Standing, IsWhole, StandsBehind, IsPast

\* An entry of the history of events.
LEMMA EntryOf ==
  ASSUME LogTypeOK, NEW e \in DOMAIN logged
  PROVE e \in Nat /\ logged[e].size \in Nat \ {0}
<1> DEFINE entries == [size : EventSizes, answer : LogAnswers]
<1>0. logged \in Seq(entries) BY DEF LogTypeOK
<1> HIDE DEF entries
<1>e. logged[e] \in entries BY <1>0
<1> USE DEF entries
<1>1. logged[e] \in [size : EventSizes, answer : LogAnswers] BY <1>e
<1>2. logged[e].size \in EventSizes BY <1>1
<1> QED BY <1>2, FilesAreThere

\* The lock is taken: a new event.
LEMMA TakeLogSound ==
  ASSUME LogInv, NEW w \in LogWriters, TakeLog(w)
  PROVE LogInv' /\ (NothingGoes \/ (MaxFiles = 1 /\ FileOf(1) # <<>>))
<1> DEFINE size == logWriters[w].size
           full == FileOf(1) # <<>> /\ Len(FileOf(1)) + size > MaxBytes
           empties == full /\ MaxFiles = 1
           e == Len(logged) + 1
<1>t. LogTypeOK BY DEF LogInv
<1>0. /\ Kept \in FilesOf /\ MaxFiles \in Nat \ {0} /\ MaxBytes \in Nat \ {0}
      /\ 1 \in 1..MaxFiles /\ EventSizes \subseteq Nat \ {0} /\ Len(logged) \in Nat
      /\ DOMAIN logged = 1..Len(logged)
      /\ \A n \in 1..MaxFiles : Kept[n] = FileOf(n) /\ FileOf(n) \in Seq(Nat)
  BY <1>t, FilesAreThere
<1>1. size \in EventSizes
  <2>1. LogFrame(logWriters[w]) /\ logWriters[w].at = "waiting" BY <1>t DEF LogTypeOK, TakeLog
  <2> QED BY <2>1 DEF LogFrame, NotEmitting, Holding
<1>2. \A x \in LogWriters : logWriters[x].at \notin Holding
  BY DEF TakeLog, LogFree, Holding
<1>3. PICK f : f = [at |-> IF full /\ MaxFiles > 1 THEN "unlink" ELSE "open", size |-> size,
                    event |-> e, original |-> 0, from |-> MaxFiles - 1]
  OBVIOUS
<1>4. /\ logWriters' = [logWriters EXCEPT ![w] = f]
      /\ logged' = Append(logged, [size |-> size, answer |-> "none"])
      /\ logFiles' = [logFiles EXCEPT ![1] = IF empties THEN <<>> ELSE FileOf(1)]
  BY <1>3 DEF TakeLog, Becomes
<1>5. f \in [at : Holding, size : EventSizes, event : Nat, original : Nat, from : Int]
  BY <1>0, <1>1, <1>3 DEF Holding
<1>6. LogFrame(f) BY <1>5 DEF LogFrame
<1>7. logged' \in Seq([size : EventSizes, answer : LogAnswers])
      /\ Len(logged') = e /\ DOMAIN logged' = 1..e
      /\ logged'[e] = [size |-> size, answer |-> "none"]
      /\ \A d \in 1..Len(logged) : logged'[d] = logged[d]
  <2>1. [size |-> size, answer |-> "none"] \in [size : EventSizes, answer : LogAnswers]
    BY <1>1 DEF LogAnswers
  <2> HIDE DEF size
  <2> QED BY <2>1, <1>4, <1>t DEF LogTypeOK
<1>8. (IF empties THEN <<>> ELSE FileOf(1)) \in Seq(Nat)
      /\ (IF empties THEN <<>> ELSE FileOf(1)) # NoFile
  <2>1. <<>> \in Seq(Nat) /\ <<>> # NoFile BY DEF NoFile
  <2>2. FileOf(1) # NoFile BY <2>1 DEF FileOf
  <2>3. FileOf(1) \in Seq(Nat) BY <1>0
  <2> QED BY <2>1, <2>2, <2>3
<1>9. /\ logFiles' \in FilesOf
      /\ Kept' = [Kept EXCEPT ![1] = IF empties THEN <<>> ELSE FileOf(1)]
  BY <1>4, <1>8, <1>t, ActiveChanged
<1>10. /\ Kept' \in FilesOf /\ InOrder(Kept')
       /\ \A d \in Nat, z \in Nat \ {0} : Standing(Kept, d, z) => Standing(Kept', d, z)
       /\ \A n \in 1..MaxFiles : Kept'[n] = Kept[n] \/ Kept'[n] = <<>>
  <2>1. CASE empties
    <3>1. Kept' = [Kept EXCEPT ![MaxFiles] = <<>>] BY <2>1, <1>9
    <3>2. InOrder(Kept) BY DEF LogInv
    <3>3. \A n \in 1..MaxFiles : Kept'[n] = Kept[n] \/ Kept'[n] = <<>> BY <3>1, <1>0 DEF FilesOf
    <3> HIDE DEF empties
    <3> QED BY <3>1, <3>2, <3>3, <1>0, LastDropped
  <2>2. CASE ~empties
    <3>1. Kept' = Kept BY <2>2, <1>9, <1>0 DEF FilesOf
    <3> QED BY <3>1, <1>0 DEF LogInv
  <2> QED BY <2>1, <2>2
<1>11. PartsLogged'
  <2>1. Len(logged)' = Len(logged) + 1 BY <1>7
  <2>2. ASSUME NEW n \in 1..MaxFiles
        PROVE /\ Len(Kept'[n]) <= MaxBytes
              /\ \A i \in DOMAIN Kept'[n] : Kept'[n][i] \in 1..Len(logged)
    <3>1. PartsLogged BY DEF LogInv
    <3>2. CASE Kept'[n] = Kept[n] BY <3>1, <3>2 DEF PartsLogged
    <3>3. CASE Kept'[n] = <<>> BY <3>3, <1>0
    <3> QED BY <3>2, <3>3, <1>10
  <2>3. \A n \in 1..MaxFiles : \A i \in DOMAIN Kept'[n] : Kept'[n][i] \in 1..Len(logged')
    BY <2>1, <2>2, <1>0
  <2> QED BY <2>2, <2>3 DEF PartsLogged
<1>12. WrittenStands'
  <2>1. ASSUME NEW d \in DOMAIN logged', logged'[d].answer = "written"
        PROVE d \in DOMAIN logged /\ logged'[d] = logged[d]
    <3>1. d # e BY <2>1, <1>7
    <3> QED BY <3>1, <1>7, <1>0
  <2>2. \A d \in DOMAIN logged : Standing(Kept, d, logged[d].size) => Standing(Kept', d, logged[d].size)
    BY <1>10, <1>t, EntryOf
  <2>3. WrittenStands BY DEF LogInv
  <2> QED BY <2>1, <2>2, <2>3, WrittenIsKept
<1>13. f.at \in Holding => HolderSound(f)'
  <2>1. f.event = Len(logged)' /\ f.event # 0 BY <1>3, <1>7, <1>0
  <2>2. logged'[f.event].answer = "none" /\ logged'[f.event].size = f.size BY <1>3, <1>7
  <2>3. Unwritten(f.event)'
    <3>1. \A n \in 1..MaxFiles : \A i \in DOMAIN Kept'[n] : Kept'[n][i] < f.event
      <4>1. ASSUME NEW n \in 1..MaxFiles, NEW i \in DOMAIN Kept'[n] PROVE Kept'[n][i] < f.event
        <5>1. Kept'[n] = Kept[n] BY <1>10
        <5>2. Kept[n][i] \in 1..Len(logged) BY <5>1 DEF LogInv, PartsLogged
        <5> QED BY <5>1, <5>2, <1>3, <1>0
      <4> QED BY <4>1
    <3> QED BY <3>1 DEF Unwritten
  <2>4. f.at = "open" => Len(Kept'[1]) + f.size <= MaxBytes
    <3>1. size \in 1..MaxBytes /\ f.size = size BY <1>1, <1>3, LogAssumption
    <3>2. Kept'[1] = IF empties THEN <<>> ELSE FileOf(1) BY <1>9, <1>0 DEF FilesOf
    <3>3. CASE empties BY <3>1, <3>2, <3>3, <1>0
    <3>4. CASE f.at = "open" /\ ~empties
      <4>1. ~full BY <3>4, <1>3, <1>0
      <4>2. FileOf(1) = <<>> \/ Len(FileOf(1)) + size <= MaxBytes
        <5>1. Len(FileOf(1)) \in Nat BY <1>0
        <5> QED BY <5>1, <4>1, <3>1, <1>0
      <4> QED BY <4>2, <3>1, <3>2, <3>4, <1>0
    <3> QED BY <3>3, <3>4
  <2>5. f.at \in {"unlink", "open"} /\ (f.at = "unlink" => MaxFiles > 1 /\ f.from = MaxFiles - 1)
    BY <1>3
  <2> QED BY <2>1, <2>2, <2>3, <2>4, <2>5 DEF HolderSound
<1>p. PartsAnswered'
  <2>1. ASSUME NEW d \in DOMAIN logged', IsKept(d)'
        PROVE /\ d \in DOMAIN logged /\ IsKept(d) /\ logged'[d] = logged[d]
              /\ logWriters[w].at # "write"
    <3>1. PICK n \in 1..MaxFiles : d \in ToSet(Kept'[n]) BY <2>1 DEF IsKept
    <3>2. Kept'[n] # <<>> BY <3>1 DEF ToSet
    <3>3. Kept'[n] = Kept[n] BY <3>2, <1>10
    <3>4. IsKept(d) BY <3>1, <3>3 DEF IsKept
    <3>5. d \in 1..Len(logged) BY <3>1, <3>3 DEF ToSet, LogInv, PartsLogged
    <3> QED BY <3>4, <3>5, <1>0, <1>7 DEF TakeLog
  <2> QED BY <2>1, <1>4, PartsFollow
<1>14. LogInv'
  BY <1>2, <1>4, <1>6, <1>7, <1>9, <1>10, <1>11, <1>12, <1>13, <1>p, HolderMoves
<1>15. NothingGoes \/ (MaxFiles = 1 /\ FileOf(1) # <<>>)
  <2>1. CASE empties BY <2>1
  <2>2. CASE ~empties
    <3>1. Kept' = Kept BY <2>2, <1>9, <1>0 DEF FilesOf
    <3> QED BY <3>1 DEF NothingGoes, IsKept
  <2> QED BY <2>1, <2>2
<1> QED BY <1>14, <1>15

\* The oldest file goes.
LEMMA UnlinkSound ==
  ASSUME LogInv, NEW w \in LogWriters, UnlinkOldest(w)
  PROVE LogInv' /\ \A n \in 1..MaxFiles : n # MaxFiles => Kept'[n] = Kept[n]
<1>t. LogTypeOK BY DEF LogInv
<1>0. /\ Kept \in FilesOf /\ MaxFiles \in Nat \ {0} /\ MaxBytes \in Nat \ {0}
      /\ Len(logged) \in Nat /\ DOMAIN logged = 1..Len(logged)
      /\ \A n \in 1..MaxFiles : Kept[n] = FileOf(n)
  BY <1>t, FilesAreThere
<1>1. PICK x : x = logWriters[w] OBVIOUS
<1>2. /\ x \in [at : Holding, size : EventSizes, event : Nat, original : Nat, from : Int]
      /\ HolderSound(x) /\ x.at = "unlink"
      /\ \A y \in LogWriters \ {w} : logWriters[y].at \notin Holding
  BY <1>1, HolderFrame DEF UnlinkOldest, Holding
<1>3. PICK f : f = [x EXCEPT !.at = "rename"] OBVIOUS
<1>4. f \in [at : Holding, size : EventSizes, event : Nat, original : Nat, from : Int]
      /\ f.at = "rename" /\ f.event = x.event /\ f.size = x.size /\ f.from = x.from
  BY <1>2, <1>3 DEF Holding
<1>5. LogFrame(f) BY <1>4 DEF LogFrame
<1>6. /\ logWriters' = [logWriters EXCEPT ![w] = f] /\ logged' = logged
      /\ logFiles' = [logFiles EXCEPT ![MaxFiles] = NoFile]
  BY <1>1, <1>3 DEF UnlinkOldest, Becomes
<1>7. MaxFiles > 1 /\ f.from = MaxFiles - 1 /\ Unwritten(f.event)
  BY <1>2, <1>4 DEF HolderSound
<1>8. /\ logFiles' \in FilesOf /\ logFiles'[MaxFiles] = NoFile
      /\ Kept' = [Kept EXCEPT ![MaxFiles] = <<>>]
  <2>1. NoFile \in Seq(Nat) BY DEF NoFile
  <2>2. logFiles' \in FilesOf /\ logFiles'[MaxFiles] = NoFile
        /\ \A n \in 1..MaxFiles : n # MaxFiles => logFiles'[n] = logFiles[n]
    BY <2>1, <1>6, <1>0, <1>t DEF LogTypeOK, FilesOf
  <2>3. \A n \in 1..MaxFiles : FileOf(n)' = IF n = MaxFiles THEN <<>> ELSE FileOf(n)
    BY <2>2 DEF FileOf
  <2> QED BY <2>2, <2>3 DEF Kept
<1>9. /\ Kept' \in FilesOf /\ InOrder(Kept')
      /\ \A d \in Nat, z \in Nat \ {0} : Standing(Kept, d, z) => Standing(Kept', d, z)
  <2>1. InOrder(Kept) BY DEF LogInv
  <2> QED BY <2>1, <1>8, <1>0, LastDropped
<1>10. \A n \in 1..MaxFiles : Kept'[n] = <<>> \/ Kept'[n] = Kept[n] BY <1>8, <1>0 DEF FilesOf
<1>11. PartsLogged'
  BY <1>10, <1>6, <1>0 DEF PartsLogged, LogInv
<1>12. WrittenStands'
  <2>1. \A d \in DOMAIN logged : Standing(Kept, d, logged[d].size) => Standing(Kept', d, logged[d].size)
    BY <1>9, <1>t, EntryOf
  <2>2. WrittenStands BY DEF LogInv
  <2> QED BY <2>1, <2>2, <1>6, WrittenIsKept
<1>13. HolderSound(f)'
  <2>1. Unwritten(f.event)' BY <1>7, <1>10 DEF Unwritten
  <2>2. f.from \in 1..(MaxFiles - 1) /\ logFiles'[f.from + 1] = NoFile BY <1>7, <1>8, <1>0
  <2>3. f.event = Len(logged)' /\ f.event # 0 /\ logged'[f.event].answer = "none"
        /\ logged'[f.event].size = f.size
    BY <1>2, <1>4, <1>6 DEF HolderSound
  <2> QED BY <2>1, <2>2, <2>3, <1>4 DEF HolderSound
<1>p. PartsAnswered'
  <2>1. ASSUME NEW d, IsKept(d)' PROVE IsKept(d)
    <3>1. PICK n \in 1..MaxFiles : d \in ToSet(Kept'[n]) BY <2>1 DEF IsKept
    <3>2. Kept'[n] # <<>> BY <3>1 DEF ToSet
    <3>3. Kept'[n] = Kept[n] BY <3>2, <1>10
    <3> QED BY <3>1, <3>3 DEF IsKept
  <2> QED BY <2>1, <1>1, <1>2, <1>6, PartsFollow
<1>14. LogInv'
  <2>1. logged' \in Seq([size : EventSizes, answer : LogAnswers]) BY <1>6, <1>t DEF LogTypeOK
  <2> QED BY <2>1, <1>2, <1>5, <1>6, <1>8, <1>9, <1>11, <1>12, <1>13, <1>p, HolderMoves
<1>15. \A n \in 1..MaxFiles : n # MaxFiles => Kept'[n] = Kept[n] BY <1>8, <1>0 DEF FilesOf
<1> QED BY <1>14, <1>15

\* A file takes the next number, which is free.
LEMMA RenameSound ==
  ASSUME LogInv, NEW w \in LogWriters, RenameNext(w)
  PROVE LogInv' /\ NothingGoes
<1>t. LogTypeOK BY DEF LogInv
<1>0. /\ Kept \in FilesOf /\ MaxFiles \in Nat \ {0} /\ MaxBytes \in Nat \ {0}
      /\ Len(logged) \in Nat /\ DOMAIN logged = 1..Len(logged)
      /\ 1 \in 1..MaxFiles /\ EventSizes \subseteq Nat \ {0}
      /\ \A k \in 1..MaxFiles : Kept[k] = FileOf(k)
  BY <1>t, FilesAreThere
<1>1. PICK x : x = logWriters[w] OBVIOUS
<1>2. /\ x \in [at : Holding, size : EventSizes, event : Nat, original : Nat, from : Int]
      /\ HolderSound(x) /\ x.at = "rename"
      /\ \A y \in LogWriters \ {w} : logWriters[y].at \notin Holding
  BY <1>1, HolderFrame DEF RenameNext, Holding
<1>3. PICK n : n = x.from OBVIOUS
<1>4. n \in 1..(MaxFiles - 1) /\ logFiles[n + 1] = NoFile /\ Unwritten(x.event)
  BY <1>2, <1>3 DEF HolderSound
<1>n. n \in 1..MaxFiles /\ n + 1 \in 1..MaxFiles /\ n # n + 1 /\ n \in Nat BY <1>4, <1>0
<1>a. PICK place : place = IF n = 1 THEN "open" ELSE "rename" OBVIOUS
<1>b. place \in Holding /\ n - 1 \in Int BY <1>a, <1>n DEF Holding
<1>5. PICK f : f = [x EXCEPT !.from = n - 1, !.at = place] OBVIOUS
<1>6. /\ f \in [at : Holding, size : EventSizes, event : Nat, original : Nat, from : Int]
      /\ f.at = (IF n = 1 THEN "open" ELSE "rename") /\ f.event = x.event /\ f.size = x.size
      /\ f.from = n - 1
  BY <1>2, <1>5, <1>a, <1>b
<1>7. LogFrame(f) BY <1>6 DEF LogFrame
<1>8. /\ logWriters' = [logWriters EXCEPT ![w] = f] /\ logged' = logged
      /\ logFiles' = Renamed(n)
  BY <1>1, <1>2, <1>3, <1>a, <1>5 DEF RenameNext, Becomes
<1>9. /\ logFiles' \in FilesOf /\ logFiles'[n] = NoFile
      /\ Kept' = [Kept EXCEPT ![n + 1] = Kept[n], ![n] = <<>>]
      /\ Kept[n + 1] = <<>>
  <2>1. NoFile \in Seq(Nat) BY DEF NoFile
  <2>2. /\ logFiles' \in FilesOf /\ logFiles'[n] = NoFile /\ logFiles'[n + 1] = logFiles[n]
        /\ \A k \in 1..MaxFiles : k \notin {n, n + 1} => logFiles'[k] = logFiles[k]
    BY <2>1, <1>8, <1>4, <1>n, <1>t DEF LogTypeOK, FilesOf, Renamed
  <2>3. \A k \in 1..MaxFiles :
          FileOf(k)' = IF k = n + 1 THEN FileOf(n) ELSE IF k = n THEN <<>> ELSE FileOf(k)
    BY <2>2, <1>n DEF FileOf
  <2>4. Kept' = [Kept EXCEPT ![n + 1] = Kept[n], ![n] = <<>>]
    <3>1. Kept' = [k \in 1..MaxFiles |->
                     IF k = n + 1 THEN FileOf(n) ELSE IF k = n THEN <<>> ELSE FileOf(k)]
      BY <2>3 DEF Kept
    <3>2. DOMAIN Kept = 1..MaxFiles /\ Kept = [k \in 1..MaxFiles |-> Kept[k]] BY DEF Kept
    <3> QED BY <3>1, <3>2, <1>0, <1>n
  <2>5. Kept[n + 1] = <<>> BY <1>4, <1>n, <1>0 DEF FileOf
  <2> QED BY <2>2, <2>4, <2>5
<1>11. /\ Kept'[n + 1] = Kept[n] /\ Kept'[n] = <<>>
       /\ \A k \in 1..MaxFiles : k \notin {n, n + 1} => Kept'[k] = Kept[k]
  BY <1>9, <1>0, <1>n DEF FilesOf
<1>10. /\ InOrder(Kept')
       /\ \A d \in Nat, z \in Nat \ {0} : Standing(Kept, d, z) => Standing(Kept', d, z)
  <2>1. PICK F : F = Kept OBVIOUS
  <2>2. PICK G : G = Kept' OBVIOUS
  <2>3. InOrder(Kept) BY DEF LogInv
  <2>4. Kept' \in FilesOf BY <1>9, <1>0, <1>n DEF FilesOf
  <2>5. F \in FilesOf /\ InOrder(F) /\ F[n + 1] = <<>> BY <2>1, <2>3, <1>9, <1>0
  <2>6. /\ G \in FilesOf /\ G[n + 1] = F[n] /\ G[n] = <<>>
        /\ \A m \in 1..MaxFiles : m \notin {n, n + 1} => G[m] = F[m]
    BY <2>1, <2>2, <2>4, <1>11
  <2>7. /\ InOrder(G)
        /\ \A d \in Nat, z \in Nat \ {0} : Standing(F, d, z) => Standing(G, d, z)
    BY <2>5, <2>6, <1>4, FileShifted
  <2> QED BY <2>1, <2>2, <2>7
<1>12. PartsLogged'
  <2> SUFFICES ASSUME NEW k \in 1..MaxFiles
               PROVE /\ Len(Kept'[k]) <= MaxBytes
                     /\ \A i \in DOMAIN Kept'[k] : Kept'[k][i] \in 1..Len(logged)
    BY <1>8 DEF PartsLogged
  <2>1. PartsLogged BY DEF LogInv
  <2>2. CASE k = n + 1 BY <2>1, <2>2, <1>11, <1>n DEF PartsLogged
  <2>3. CASE k = n BY <2>3, <1>11, <1>0
  <2>4. CASE k \notin {n, n + 1} BY <2>1, <2>4, <1>11 DEF PartsLogged
  <2> QED BY <2>2, <2>3, <2>4
<1>13. WrittenStands'
  <2>1. \A d \in DOMAIN logged : Standing(Kept, d, logged[d].size) => Standing(Kept', d, logged[d].size)
    BY <1>10, <1>t, EntryOf
  <2>2. WrittenStands BY DEF LogInv
  <2> QED BY <2>1, <2>2, <1>8, WrittenIsKept
<1>14. HolderSound(f)'
  <2>1. Unwritten(f.event)'
    <3> SUFFICES ASSUME NEW k \in 1..MaxFiles, NEW i \in DOMAIN Kept'[k] PROVE Kept'[k][i] < f.event
      BY DEF Unwritten
    <3>1. k # n BY <1>11
    <3>2. CASE k = n + 1 BY <3>2, <1>4, <1>6, <1>11, <1>n DEF Unwritten
    <3>3. CASE k # n + 1 BY <3>1, <3>3, <1>4, <1>6, <1>11 DEF Unwritten
    <3> QED BY <3>2, <3>3
  <2>2. f.at = "rename" => f.from \in 1..(MaxFiles - 1) /\ logFiles'[f.from + 1] = NoFile
    <3>1. n # 1 => f.from \in 1..(MaxFiles - 1) /\ f.from + 1 = n BY <1>4, <1>6, <1>n, <1>0
    <3> QED BY <3>1, <1>6, <1>9
  <2>3. f.at = "open" => Len(Kept'[1]) + f.size <= MaxBytes
    <3>1. f.size \in 1..MaxBytes BY <1>6, LogAssumption
    <3> QED BY <3>1, <1>6, <1>11, <1>0
  <2>4. f.event = Len(logged)' /\ f.event # 0 /\ logged'[f.event].answer = "none"
        /\ logged'[f.event].size = f.size
    BY <1>2, <1>6, <1>8 DEF HolderSound
  <2>5. f.at \in {"rename", "open"} BY <1>6
  <2> QED BY <2>1, <2>2, <2>3, <2>4, <2>5 DEF HolderSound
<1>p. PartsAnswered'
  <2>1. ASSUME NEW d, IsKept(d)' PROVE IsKept(d)
    <3>1. PICK k \in 1..MaxFiles : d \in ToSet(Kept'[k]) BY <2>1 DEF IsKept
    <3>2. k # n BY <3>1, <1>11 DEF ToSet
    <3>3. Kept'[k] = Kept[IF k = n + 1 THEN n ELSE k] BY <3>2, <1>11, <1>n
    <3> QED BY <3>1, <3>3, <1>n DEF IsKept
  <2> QED BY <2>1, <1>1, <1>2, <1>8, PartsFollow
<1>15. LogInv'
  <2>1. logged' \in Seq([size : EventSizes, answer : LogAnswers]) BY <1>8, <1>t DEF LogTypeOK
  <2> QED BY <2>1, <1>2, <1>7, <1>8, <1>9, <1>10, <1>12, <1>13, <1>14, <1>p, HolderMoves
<1>16. NothingGoes
  <2>1. ASSUME NEW d, NEW k \in 1..MaxFiles, d \in ToSet(Kept[k])
        PROVE \E m \in 1..MaxFiles : d \in ToSet(Kept'[m])
    <3>1. CASE k = n BY <2>1, <3>1, <1>11, <1>n
    <3>2. k # n + 1 BY <2>1, <1>9 DEF ToSet
    <3>3. CASE k \notin {n, n + 1} BY <2>1, <3>3, <1>11
    <3> QED BY <3>1, <3>2, <3>3
  <2> QED BY <2>1 DEF NothingGoes, IsKept
<1> QED BY <1>15, <1>16

\* The active file is opened.
LEMMA OpenSound ==
  ASSUME LogInv, NEW w \in LogWriters, OpenActive(w)
  PROVE LogInv' /\ NothingGoes
<1>t. LogTypeOK BY DEF LogInv
<1>0. /\ Kept \in FilesOf /\ MaxFiles \in Nat \ {0} /\ MaxBytes \in Nat \ {0}
      /\ Len(logged) \in Nat /\ DOMAIN logged = 1..Len(logged)
      /\ 1 \in 1..MaxFiles /\ EventSizes \subseteq Nat \ {0}
      /\ \A k \in 1..MaxFiles : Kept[k] = FileOf(k) /\ FileOf(k) \in Seq(Nat)
  BY <1>t, FilesAreThere
<1>1. PICK x : x = logWriters[w] OBVIOUS
<1>2. /\ x \in [at : Holding, size : EventSizes, event : Nat, original : Nat, from : Int]
      /\ HolderSound(x) /\ x.at = "open"
      /\ \A y \in LogWriters \ {w} : logWriters[y].at \notin Holding
  BY <1>1, HolderFrame DEF OpenActive, Holding
<1>3. PICK length : length = Len(FileOf(1)) OBVIOUS
<1>4. length \in Nat BY <1>0, <1>3
<1>5. PICK f : f = [x EXCEPT !.at = "write", !.original = length] OBVIOUS
<1>6. /\ f \in [at : Holding, size : EventSizes, event : Nat, original : Nat, from : Int]
      /\ f.at = "write" /\ f.event = x.event /\ f.size = x.size /\ f.original = length
  BY <1>2, <1>4, <1>5 DEF Holding
<1>7. LogFrame(f) BY <1>6 DEF LogFrame
<1>8. /\ logWriters' = [logWriters EXCEPT ![w] = f] /\ logged' = logged
      /\ logFiles' = [logFiles EXCEPT ![1] = FileOf(1)]
  BY <1>1, <1>3, <1>5 DEF OpenActive, Becomes
<1>9. FileOf(1) # NoFile BY DEF FileOf, NoFile
<1>10. /\ logFiles' \in FilesOf /\ logFiles'[1] = FileOf(1) /\ Kept' = [Kept EXCEPT ![1] = FileOf(1)]
  BY <1>8, <1>9, <1>0, <1>t, ActiveChanged
<1>11. Kept' = Kept BY <1>10, <1>0 DEF FilesOf
<1>12. PartsLogged' /\ InOrder(Kept') /\ WrittenStands'
  <2>1. PartsLogged' BY <1>8, <1>11 DEF LogInv, PartsLogged
  <2>2. InOrder(Kept') BY <1>11 DEF LogInv
  <2>3. WrittenStands BY DEF LogInv
  <2>4. WrittenStands' BY <2>3, <1>8, <1>11, WrittenIsKept
  <2> QED BY <2>1, <2>2, <2>4
<1>13. HolderSound(f)'
  <2>1. f.event = Len(logged)' /\ f.event # 0 /\ logged'[f.event].answer = "none"
        /\ logged'[f.event].size = f.size
    BY <1>2, <1>6, <1>8 DEF HolderSound
  <2>2. length + f.size <= MaxBytes BY <1>2, <1>3, <1>6, <1>0 DEF HolderSound
  <2>3. f.size \in Nat \ {0} BY <1>6, <1>0
  <2>4. logFiles'[1] # NoFile /\ Len(logFiles'[1]) = length BY <1>9, <1>10, <1>3
  <2>5. f.original <= Len(logFiles'[1]) /\ Len(logFiles'[1]) < f.original + f.size
    BY <2>3, <2>4, <1>4, <1>6
  <2>6. ASSUME NEW n \in 1..MaxFiles, NEW i \in DOMAIN Kept'[n]
        PROVE Kept'[n][i] = f.event <=> n = 1 /\ i > f.original
    <3>1. Kept'[n][i] # f.event
      <4>1. Unwritten(f.event) BY <1>2, <1>6 DEF HolderSound
      <4>2. Kept[n][i] < f.event /\ Kept[n][i] \in Nat /\ f.event \in Nat
        BY <4>1, <1>11, <1>6, <1>0 DEF Unwritten, FilesOf
      <4> QED BY <4>2, <1>11
    <3>2. n = 1 => i \in 1..length BY <1>3, <1>11, <1>0
    <3> QED BY <3>1, <3>2, <1>4, <1>6
  <2>7. f.original + f.size <= MaxBytes BY <2>2, <1>6
  <2> QED BY <2>1, <2>4, <2>5, <2>6, <2>7, <1>6 DEF HolderSound
<1>p. PartsAnswered'
  <2>1. ASSUME NEW d, IsKept(d)' PROVE IsKept(d) BY <2>1, <1>11 DEF IsKept
  <2> QED BY <2>1, <1>1, <1>2, <1>8, PartsFollow
<1>14. LogInv'
  <2>1. logged' \in Seq([size : EventSizes, answer : LogAnswers]) BY <1>8, <1>t DEF LogTypeOK
  <2> QED BY <2>1, <1>2, <1>7, <1>8, <1>10, <1>12, <1>13, <1>p, HolderMoves
<1>15. NothingGoes BY <1>11 DEF NothingGoes, IsKept
<1> QED BY <1>14, <1>15

\* An event is answered.
LEMMA EventAnswered ==
  ASSUME LogTypeOK, NEW e \in DOMAIN logged, NEW a \in LogAnswers,
         logged' = [logged EXCEPT ![e].answer = a]
  PROVE /\ logged' \in Seq([size : EventSizes, answer : LogAnswers])
        /\ Len(logged') = Len(logged) /\ DOMAIN logged' = DOMAIN logged
        /\ logged'[e].answer = a /\ logged'[e].size = logged[e].size
        /\ \A d \in DOMAIN logged : d # e => logged'[d] = logged[d]
<1> DEFINE entries == [size : EventSizes, answer : LogAnswers]
<1>1. logged \in Seq(entries) BY DEF LogTypeOK
<1> HIDE DEF entries
<1>2. logged[e] \in entries BY <1>1
<1>3. PICK x : x = [logged[e] EXCEPT !.answer = a] OBVIOUS
<1>4. x \in entries /\ x.answer = a /\ x.size = logged[e].size BY <1>2, <1>3 DEF entries
<1>5. logged' = [logged EXCEPT ![e] = x] BY <1>3
<1>6. /\ logged' \in Seq(entries) /\ Len(logged') = Len(logged) /\ DOMAIN logged' = DOMAIN logged
      /\ logged'[e] = x /\ \A d \in DOMAIN logged : d # e => logged'[d] = logged[d]
  BY <1>1, <1>4, <1>5
<1> QED BY <1>4, <1>6 DEF entries

\* A part is written, perhaps the last one.
LEMMA WriteSound ==
  ASSUME LogInv, NEW w \in LogWriters, WritePart(w)
  PROVE LogInv' /\ NothingGoes
<1>t. LogTypeOK BY DEF LogInv
<1>0. /\ Kept \in FilesOf /\ MaxFiles \in Nat \ {0} /\ MaxBytes \in Nat \ {0}
      /\ Len(logged) \in Nat /\ DOMAIN logged = 1..Len(logged)
      /\ 1 \in 1..MaxFiles /\ EventSizes \subseteq Nat \ {0}
      /\ \A k \in 1..MaxFiles : Kept[k] = FileOf(k) /\ FileOf(k) \in Seq(Nat)
  BY <1>t, FilesAreThere
<1>1. PICK f : f = logWriters[w] OBVIOUS
<1>2. /\ f \in [at : Holding, size : EventSizes, event : Nat, original : Nat, from : Int]
      /\ HolderSound(f) /\ f.at = "write" /\ f.event \in DOMAIN logged
      /\ \A y \in LogWriters \ {w} : logWriters[y].at \notin Holding
  BY <1>1, HolderFrame DEF WritePart, Holding
<1>3. PICK s : s = logFiles[1] OBVIOUS
<1>4. /\ s # NoFile /\ f.original <= Len(s) /\ Len(s) < f.original + f.size
      /\ f.original + f.size <= MaxBytes /\ f.event = Len(logged) /\ f.event # 0
      /\ logged[f.event].answer = "none" /\ logged[f.event].size = f.size
      /\ \A n \in 1..MaxFiles : \A i \in DOMAIN Kept[n] :
           Kept[n][i] = f.event <=> n = 1 /\ i > f.original
  BY <1>2, <1>3 DEF HolderSound
<1>5. s \in Seq(Nat) /\ Kept[1] = s BY <1>0, <1>3, <1>4 DEF FileOf
<1>6. f.size \in Nat \ {0} /\ f.event \in Nat /\ f.original \in Nat /\ Len(s) \in Nat
  <2>1. f.size \in EventSizes /\ f.event \in Nat /\ f.original \in Nat BY <1>2
  <2>2. Len(s) \in Nat BY <1>5
  <2> QED BY <2>1, <2>2, <1>0
<1>7. PICK long : long = Append(s, f.event) OBVIOUS
<1>8. /\ long \in Seq(Nat) /\ Len(long) = Len(s) + 1 /\ DOMAIN long = 1..(Len(s) + 1)
      /\ DOMAIN s = 1..Len(s) /\ long[Len(s) + 1] = f.event
      /\ \A i \in 1..Len(s) : long[i] = s[i]
  BY <1>5, <1>6, <1>7, PartAppended
<1>9. long # NoFile
  <2>1. Len(s) + 1 \in DOMAIN long /\ long[Len(s) + 1] # 0 BY <1>4, <1>6, <1>8
  <2>2. DOMAIN NoFile = {1} /\ NoFile[1] = 0 BY DEF NoFile
  <2> QED BY <2>1, <2>2
<1>10. logFiles' = [logFiles EXCEPT ![1] = long]
  BY <1>1, <1>3, <1>7, <1>0 DEF WritePart, LogTypeOK, LogInv, FilesOf
<1>11. /\ logFiles' \in FilesOf /\ logFiles'[1] = long /\ Kept' = [Kept EXCEPT ![1] = long]
  BY <1>10, <1>9, <1>8, <1>t, ActiveChanged
<1>12. Kept'[1] = long /\ \A n \in 1..MaxFiles : n # 1 => Kept'[n] = Kept[n]
  BY <1>11, <1>0 DEF FilesOf
<1>13. /\ InOrder(Kept')
       /\ \A e \in Nat, z \in Nat \ {0} :
            e < f.event /\ Standing(Kept, e, z) => Standing(Kept', e, z)
  <2>1. InOrder(Kept) /\ PartsLogged BY DEF LogInv
  <2>2. \A m \in 1..MaxFiles : \A i \in DOMAIN Kept[m] : Kept[m][i] <= f.event
    <3>1. \A m \in 1..MaxFiles : \A i \in DOMAIN Kept[m] : Kept[m][i] \in 1..f.event
      BY <2>1, <1>4 DEF PartsLogged
    <3> QED BY <3>1, <1>6
  <2>3. PICK F : F = Kept OBVIOUS
  <2>4. PICK G : G = Kept' OBVIOUS
  <2>5. /\ F \in FilesOf /\ InOrder(F)
        /\ \A m \in 1..MaxFiles : \A i \in DOMAIN F[m] : F[m][i] <= f.event
        /\ G = [F EXCEPT ![1] = Append(F[1], f.event)]
    BY <2>1, <2>2, <2>3, <2>4, <1>0, <1>5, <1>7, <1>11
  <2>6. PICK d : d = f.event OBVIOUS
  <2>7. /\ InOrder(G)
        /\ \A e \in Nat, z \in Nat \ {0} : e < d /\ Standing(F, e, z) => Standing(G, e, z)
    BY <2>5, <2>6, <1>6, PartAdded
  <2> QED BY <2>3, <2>4, <2>6, <2>7
<1>14. \A n \in 1..MaxFiles : \A i \in DOMAIN Kept'[n] :
         /\ Kept'[n][i] = f.event <=> n = 1 /\ i > f.original
         /\ Kept'[n][i] \in 1..Len(logged)
  <2> SUFFICES ASSUME NEW n \in 1..MaxFiles, NEW i \in DOMAIN Kept'[n]
               PROVE /\ Kept'[n][i] = f.event <=> n = 1 /\ i > f.original
                     /\ Kept'[n][i] \in 1..Len(logged)
    OBVIOUS
  <2>1. CASE i \in DOMAIN Kept[n] /\ Kept'[n][i] = Kept[n][i]
    BY <2>1, <1>4 DEF LogInv, PartsLogged
  <2>2. CASE n = 1 /\ i = Len(s) + 1 /\ Kept'[n][i] = f.event
    BY <2>2, <1>4, <1>6, <1>0
  <2> QED BY <2>1, <2>2, <1>5, <1>8, <1>12
<1>15. PICK done : done = (Len(s) + 1 = f.original + f.size) OBVIOUS
<1>16. PartsLogged' 
  <2>1. Len(logged)' = Len(logged)
    <3>1. "written" \in LogAnswers BY DEF LogAnswers
    <3>2. CASE logged' = logged BY <3>2
    <3>3. CASE logged' = [logged EXCEPT ![f.event].answer = "written"]
      BY <3>1, <3>3, <1>2, <1>t, EventAnswered
    <3> QED BY <3>2, <3>3, <1>1 DEF WritePart
  <2>2. ASSUME NEW n \in 1..MaxFiles PROVE Len(Kept'[n]) <= MaxBytes
    <3>1. PartsLogged BY DEF LogInv
    <3>2. Len(long) <= MaxBytes
      <4>1. Len(long) = Len(s) + 1 /\ Len(s) + 1 <= f.original + f.size BY <1>4, <1>6, <1>8
      <4>2. f.original + f.size <= MaxBytes /\ MaxBytes \in Nat BY <1>4, <1>0
      <4> QED BY <4>1, <4>2, <1>6
    <3> QED BY <3>1, <3>2, <1>12 DEF PartsLogged
  <2> QED BY <2>1, <2>2, <1>14 DEF PartsLogged
<1>19. NothingGoes
  <2>1. ASSUME NEW n \in 1..MaxFiles, NEW e \in ToSet(Kept[n])
        PROVE e \in ToSet(Kept'[n])
    <3>2. PICK i \in DOMAIN Kept[n] : e = Kept[n][i] BY DEF ToSet
    <3>3. i \in DOMAIN Kept'[n] /\ Kept'[n][i] = e
      <4>1. CASE n = 1
        <5>1. i \in 1..Len(s) /\ e = s[i] BY <4>1, <3>2, <1>5, <1>8
        <5>2. i \in 1..(Len(s) + 1) /\ long[i] = e BY <5>1, <1>6, <1>8
        <5> QED BY <5>2, <4>1, <1>8, <1>12
      <4>2. CASE n # 1 BY <4>2, <3>2, <1>12
      <4> QED BY <4>1, <4>2
    <3> QED BY <3>3 DEF ToSet
  <2> QED BY <2>1 DEF NothingGoes, IsKept
<1>20. ASSUME NEW d, IsKept(d)' PROVE d = f.event \/ IsKept(d)
  <2>a. PICK n \in 1..MaxFiles : d \in ToSet(Kept'[n]) BY <1>20 DEF IsKept
  <2>1. PICK i \in DOMAIN Kept'[n] : d = Kept'[n][i] BY <2>a DEF ToSet
  <2>2. CASE n # 1 BY <2>1, <2>2, <1>12 DEF IsKept, ToSet
  <2>3. CASE n = 1 /\ i \in 1..Len(s)
    <3>1. i \in DOMAIN Kept[1] /\ Kept[1][i] = d BY <2>1, <2>3, <1>5, <1>8, <1>12
    <3> QED BY <3>1, <1>0 DEF IsKept, ToSet
  <2>4. CASE n = 1 /\ i = Len(s) + 1 BY <2>1, <2>4, <1>8, <1>12
  <2>5. n = 1 => i \in 1..(Len(s) + 1) BY <1>8, <1>12
  <2> QED BY <2>2, <2>3, <2>4, <2>5, <1>6
<1>17. CASE Len(s) + 1 = f.original + f.size
  <2>1. /\ logWriters' = [logWriters EXCEPT ![w] = NotEmitting]
        /\ logged' = [logged EXCEPT ![f.event].answer = "written"]
    BY <1>1, <1>3, <1>17 DEF WritePart, Becomes
  <2>2. "written" \in LogAnswers BY DEF LogAnswers
  <2>3. /\ logged' \in Seq([size : EventSizes, answer : LogAnswers])
        /\ DOMAIN logged' = DOMAIN logged
        /\ logged'[f.event].size = f.size
        /\ \A d \in DOMAIN logged : d # f.event => logged'[d] = logged[d]
    <3>1. PICK e : e = f.event OBVIOUS
    <3> QED BY <3>1, <2>1, <2>2, <1>2, <1>4, <1>t, EventAnswered
  <2>4. IsWhole(Kept', f.event, f.size)
    <3>1. f.original \in 0..MaxBytes /\ f.original + f.size <= Len(Kept'[1])
      BY <1>17, <1>4, <1>6, <1>8, <1>12, <1>0
    <3>2. ASSUME NEW m \in 1..MaxFiles, NEW i \in DOMAIN Kept'[m]
          PROVE Kept'[m][i] = f.event <=> m = 1 /\ i \in (f.original + 1)..(f.original + f.size)
      <4>1. m = 1 => i \in 1..(f.original + f.size) BY <1>17, <1>12, <1>8
      <4>2. m = 1 => (i > f.original <=> i \in (f.original + 1)..(f.original + f.size))
        BY <4>1, <1>6
      <4>3. Kept'[m][i] = f.event <=> m = 1 /\ i > f.original BY <1>14
      <4> QED BY <4>2, <4>3
    <3> QED BY <3>1, <3>2, <1>0 DEF IsWhole, StandsBehind
  <2>5. WrittenStands'
    <3>1. ASSUME NEW d \in DOMAIN logged', logged'[d].answer = "written",
                 ~Standing(Kept', d, logged'[d].size)
          PROVE /\ d \in DOMAIN logged /\ logged'[d] = logged[d]
                /\ Standing(Kept, d, logged[d].size) => Standing(Kept', d, logged[d].size)
      <4>1. d # f.event BY <3>1, <2>3, <2>4 DEF Standing
      <4>2. d \in DOMAIN logged /\ logged'[d] = logged[d] BY <4>1, <2>3
      <4>3. d < f.event BY <4>1, <4>2, <1>4, <1>0
      <4>4. d \in Nat /\ logged[d].size \in Nat \ {0} BY <4>2, <1>t, EntryOf
      <4> QED BY <4>2, <4>3, <4>4, <1>13
    <3>2. WrittenStands BY DEF LogInv
    <3> QED BY <3>1, <3>2, WrittenIsKept
  <2>6. LogFrame(NotEmitting) /\ NotEmitting.at \notin Holding
    BY DEF LogFrame, NotEmitting, Holding
  <2>7. PICK g : g = NotEmitting OBVIOUS
  <2>8. /\ LogFrame(g) /\ g.at \notin Holding /\ logWriters' = [logWriters EXCEPT ![w] = g]
        /\ logFiles' \in FilesOf /\ InOrder(Kept')
        /\ logged' \in Seq([size : EventSizes, answer : LogAnswers])
        /\ \A y \in LogWriters \ {w} : logWriters[y].at \notin Holding
    BY <2>1, <2>3, <2>6, <2>7, <1>2, <1>11, <1>13
  <2>9. PartsAnswered'
    <3>1. logged'[f.event].answer = "written" BY <2>1, <2>2, <1>2, <1>t, EventAnswered
    <3>2. \A d \in DOMAIN logged' : IsKept(d)' =>
            \/ logged'[d].answer = "written"
            \/ d # f.event /\ d \in DOMAIN logged /\ IsKept(d) /\ logged'[d] = logged[d]
      BY <3>1, <2>3, <1>20
    <3> QED BY <3>2, <2>8, <1>1, PartsFollow
  <2> QED BY <2>8, <2>5, <2>9, <1>16, <1>19, HolderMoves
<1>18. CASE Len(s) + 1 # f.original + f.size
  <2>1. logWriters' = logWriters /\ logged' = logged BY <1>1, <1>3, <1>18 DEF WritePart
  <2>2. logWriters' = [logWriters EXCEPT ![w] = f] BY <2>1, <1>1, <1>t DEF LogTypeOK
  <2>3. WrittenStands'
    <3>1. ASSUME NEW d \in DOMAIN logged, logged[d].answer = "written"
          PROVE Standing(Kept, d, logged[d].size) => Standing(Kept', d, logged[d].size)
      <4>1. d # f.event BY <3>1, <1>4
      <4>2. d < f.event BY <4>1, <1>4, <1>0
      <4>3. d \in Nat /\ logged[d].size \in Nat \ {0} BY <1>t, EntryOf
      <4> QED BY <4>2, <4>3, <1>13
    <3>2. WrittenStands BY DEF LogInv
    <3> QED BY <3>1, <3>2, <2>1, WrittenIsKept
  <2>4. HolderSound(f)'
    <3>1. logFiles'[1] # NoFile /\ Len(logFiles'[1]) = Len(s) + 1 BY <1>8, <1>9, <1>11
    <3>2. f.original <= Len(s) + 1 /\ Len(s) + 1 < f.original + f.size BY <1>4, <1>6, <1>18
    <3>3. \A n \in 1..MaxFiles : \A i \in DOMAIN Kept'[n] :
            Kept'[n][i] = f.event <=> n = 1 /\ i > f.original
      BY <1>14
    <3> QED BY <3>1, <3>2, <3>3, <2>1, <1>2, <1>4 DEF HolderSound
  <2>5. LogFrame(f) BY <1>2 DEF LogFrame
  <2>6. logged' \in Seq([size : EventSizes, answer : LogAnswers]) BY <2>1, <1>t DEF LogTypeOK
  <2>8. /\ LogFrame(f) /\ logWriters' = [logWriters EXCEPT ![w] = f]
        /\ logFiles' \in FilesOf /\ InOrder(Kept')
        /\ logged' \in Seq([size : EventSizes, answer : LogAnswers])
        /\ \A y \in LogWriters \ {w} : logWriters[y].at \notin Holding
    BY <2>2, <2>5, <2>6, <1>2, <1>11, <1>13
  <2>9. PartsAnswered'
    <3>1. \A d \in DOMAIN logged' : IsKept(d)' =>
            d = f.event \/ (d # f.event /\ d \in DOMAIN logged /\ IsKept(d) /\ logged'[d] = logged[d])
      BY <2>1, <1>20
    <3>2. \A d \in DOMAIN logged' : IsKept(d)' =>
            \/ f.at = "write" /\ f.event = d
            \/ /\ d \in DOMAIN logged /\ IsKept(d) /\ logged'[d] = logged[d]
               /\ ~(logWriters[w].at = "write" /\ logWriters[w].event = d)
      BY <3>1, <1>1, <1>2
    <3> QED BY <3>2, <2>2, PartsFollow
  <2> QED BY <2>8, <2>3, <2>4, <2>9, <1>16, <1>19, HolderMoves
<1> QED BY <1>17, <1>18

\* A write fails: the half line goes, or stays.
LEMMA FailureSound ==
  ASSUME LogInv, NEW w \in LogWriters, WriteFails(w)
  PROVE LogInv' /\ NothingGoes
<1>t. LogTypeOK BY DEF LogInv
<1>0. /\ Kept \in FilesOf /\ MaxFiles \in Nat \ {0} /\ MaxBytes \in Nat \ {0}
      /\ Len(logged) \in Nat /\ DOMAIN logged = 1..Len(logged)
      /\ 1 \in 1..MaxFiles /\ EventSizes \subseteq Nat \ {0}
      /\ \A k \in 1..MaxFiles : Kept[k] = FileOf(k) /\ FileOf(k) \in Seq(Nat)
  BY <1>t, FilesAreThere
<1>1. PICK f : f = logWriters[w] OBVIOUS
<1>2. /\ f \in [at : Holding, size : EventSizes, event : Nat, original : Nat, from : Int]
      /\ HolderSound(f) /\ f.at = "write" /\ f.event \in DOMAIN logged
      /\ \A y \in LogWriters \ {w} : logWriters[y].at \notin Holding
  BY <1>1, HolderFrame DEF WriteFails, Holding
<1>3. PICK s : s = logFiles[1] OBVIOUS
<1>4. /\ s # NoFile /\ f.original <= Len(s) /\ f.event = Len(logged) /\ f.event # 0
      /\ logged[f.event].answer = "none"
      /\ \A n \in 1..MaxFiles : \A i \in DOMAIN Kept[n] :
           Kept[n][i] = f.event <=> n = 1 /\ i > f.original
  BY <1>2, <1>3 DEF HolderSound
<1>5. s \in Seq(Nat) /\ Kept[1] = s BY <1>0, <1>3, <1>4 DEF FileOf
<1>6. f.event \in Nat /\ f.original \in 0..Len(s) /\ Len(s) \in Nat
  <2>1. f.event \in Nat /\ f.original \in Nat BY <1>2
  <2>2. Len(s) \in Nat BY <1>5
  <2> QED BY <2>1, <2>2, <1>4
<1>7. PICK short : short = SubSeq(s, 1, f.original) OBVIOUS
<1>8. /\ short \in Seq(Nat) /\ Len(short) = f.original /\ DOMAIN short = 1..f.original
      /\ DOMAIN s = 1..Len(s) /\ \A i \in 1..f.original : short[i] = s[i]
  <2>1. PICK k : k = f.original OBVIOUS
  <2> QED BY <2>1, <1>5, <1>6, <1>7, PartsTruncated
<1>a. PICK answer \in {"error", "write"} :
        /\ logged' = [logged EXCEPT ![f.event].answer = answer]
        /\ \/ answer = "error" /\ logFiles' = [logFiles EXCEPT ![1] = short]
           \/ answer = "write" /\ logFiles' = logFiles
  BY <1>1, <1>2, <1>3, <1>7, <1>0, <1>t DEF WriteFails, LogTypeOK, FilesOf
<1>9. /\ logged' = [logged EXCEPT ![f.event].answer = answer]
      /\ logWriters' = [logWriters EXCEPT ![w] = NotEmitting]
      /\ logFiles' = [logFiles EXCEPT ![1] = short] \/ logFiles' = logFiles
  BY <1>a DEF WriteFails, Becomes
<1>10. /\ logged' \in Seq([size : EventSizes, answer : LogAnswers])
       /\ Len(logged') = Len(logged) /\ DOMAIN logged' = DOMAIN logged
       /\ logged'[f.event].answer = answer
       /\ \A d \in DOMAIN logged : d # f.event => logged'[d] = logged[d]
  <2>1. answer \in LogAnswers BY DEF LogAnswers, Holding
  <2>2. PICK e : e = f.event OBVIOUS
  <2> QED BY <2>1, <2>2, <1>2, <1>9, <1>t, EventAnswered
<1>11. PartsLogged /\ InOrder(Kept) /\ WrittenStands BY DEF LogInv
<1>12. /\ logFiles' \in FilesOf /\ InOrder(Kept')
       /\ \A e \in Nat, z \in Nat \ {0} :
            e # f.event /\ Standing(Kept, e, z) => Standing(Kept', e, z)
       /\ \A n \in 1..MaxFiles : Kept'[n] = Kept[n] \/ (n = 1 /\ Kept'[n] = short)
  <2>1. CASE logFiles' = logFiles
    <3>1. Kept' = Kept BY <2>1 DEF Kept, FileOf
    <3>2. logFiles' \in FilesOf BY <2>1, <1>t DEF LogTypeOK
    <3>3. InOrder(Kept') BY <3>1, <1>11
    <3>4. \A e \in Nat, z \in Nat \ {0} :
            e # f.event /\ Standing(Kept, e, z) => Standing(Kept', e, z)
      BY <3>1
    <3> QED BY <3>1, <3>2, <3>3, <3>4
  <2>2. CASE logFiles' = [logFiles EXCEPT ![1] = short]
    <3>1. short # NoFile
      <4>1. \A i \in 1..f.original : short[i] # 0
        <5>1. \A i \in DOMAIN Kept[1] : Kept[1][i] \in 1..Len(logged) BY <1>11, <1>0 DEF PartsLogged
        <5>2. \A i \in 1..f.original : i \in DOMAIN s BY <1>6, <1>8
        <5>3. \A i \in DOMAIN s : s[i] # 0
          <6>1. \A i \in DOMAIN s : s[i] \in 1..Len(logged) BY <5>1, <1>5
          <6> QED BY <6>1, <1>0
        <5> QED BY <5>2, <5>3, <1>8
      <4> QED BY <4>1, <1>8, FileIsThere
    <3>2. /\ logFiles' \in FilesOf /\ Kept' = [Kept EXCEPT ![1] = short]
      BY <3>1, <2>2, <1>8, <1>t, ActiveChanged
    <3>a. Kept' \in FilesOf /\ Kept'[1] = short
          /\ \A m \in 1..MaxFiles : m # 1 => Kept'[m] = Kept[m]
      BY <3>2, <1>0, <1>8 DEF FilesOf
    <3>3. PICK F : F = Kept OBVIOUS
    <3>4. PICK G : G = Kept' OBVIOUS
    <3>5. PICK d : d = f.event OBVIOUS
    <3>6. PICK k : k = f.original OBVIOUS
    <3>7. /\ F \in FilesOf /\ InOrder(F) /\ d \in Nat /\ k \in Nat /\ k <= Len(F[1])
          /\ \A i \in DOMAIN F[1] : i > k => F[1][i] = d
          /\ G \in FilesOf /\ G[1] = SubSeq(F[1], 1, k)
          /\ \A m \in 1..MaxFiles : m # 1 => G[m] = F[m]
      BY <3>a, <3>2, <3>3, <3>4, <3>5, <3>6, <1>0, <1>4, <1>5, <1>6, <1>7, <1>11
    <3>8. /\ InOrder(G)
          /\ \A e \in Nat, z \in Nat \ {0} : e # d /\ Standing(F, e, z) => Standing(G, e, z)
      BY <3>7, LineTakenBack
    <3>9. \A n \in 1..MaxFiles : Kept'[n] = Kept[n] \/ (n = 1 /\ Kept'[n] = short)
      <4>1. ASSUME NEW n \in 1..MaxFiles, n # 1 PROVE Kept'[n] = Kept[n]
        BY <4>1, <3>2, <1>0 DEF FilesOf
      <4>2. Kept'[1] = short BY <3>2, <1>0 DEF FilesOf
      <4> QED BY <4>1, <4>2
    <3> QED BY <3>2, <3>3, <3>4, <3>5, <3>8, <3>9
  <2> QED BY <2>1, <2>2, <1>9
<1>13. PartsLogged'
  <2> SUFFICES ASSUME NEW n \in 1..MaxFiles
               PROVE /\ Len(Kept'[n]) <= MaxBytes
                     /\ \A i \in DOMAIN Kept'[n] : Kept'[n][i] \in 1..Len(logged)
    BY <1>10 DEF PartsLogged
  <2>1. CASE Kept'[n] = Kept[n] BY <2>1, <1>11 DEF PartsLogged
  <2>2. CASE n = 1 /\ Kept'[n] = short
    <3>1. Len(s) <= MaxBytes /\ \A i \in DOMAIN s : s[i] \in 1..Len(logged)
      BY <1>5, <1>11, <1>0 DEF PartsLogged
    <3>2. Len(short) <= MaxBytes BY <3>1, <1>6, <1>8, <1>0
    <3>3. \A i \in DOMAIN short : i \in DOMAIN s /\ short[i] = s[i] BY <1>6, <1>8
    <3> QED BY <3>1, <3>2, <3>3, <2>2
  <2> QED BY <2>1, <2>2, <1>12
<1>14. WrittenStands'
  <2>1. ASSUME NEW d \in DOMAIN logged', logged'[d].answer = "written"
        PROVE /\ d \in DOMAIN logged /\ logged'[d] = logged[d]
              /\ Standing(Kept, d, logged[d].size) => Standing(Kept', d, logged[d].size)
    <3>1. d # f.event BY <2>1, <1>a, <1>10
    <3>2. d \in DOMAIN logged /\ logged'[d] = logged[d] BY <3>1, <1>10
    <3>3. d \in Nat /\ logged[d].size \in Nat \ {0} BY <3>2, <1>t, EntryOf
    <3> QED BY <3>1, <3>2, <3>3, <1>12
  <2> QED BY <2>1, <1>11, WrittenIsKept
<1>p. PartsAnswered'
  <2>1. ASSUME NEW d \in DOMAIN logged', IsKept(d)'
        PROVE \/ logged'[d].answer = "write"
              \/ d # f.event /\ d \in DOMAIN logged /\ IsKept(d) /\ logged'[d] = logged[d]
    <3>a. PICK n \in 1..MaxFiles : d \in ToSet(Kept'[n]) BY <2>1 DEF IsKept
    <3>1. PICK i \in DOMAIN Kept'[n] : d = Kept'[n][i] BY <3>a DEF ToSet
    <3>2. /\ i \in DOMAIN Kept[n] /\ Kept[n][i] = d
          /\ Kept'[n] = Kept[n] \/ (n = 1 /\ i \in 1..f.original)
      <4>1. CASE Kept'[n] = Kept[n] BY <3>1, <4>1
      <4>2. CASE n = 1 /\ Kept'[n] = short BY <3>1, <4>2, <1>5, <1>6, <1>8
      <4> QED BY <4>1, <4>2, <1>12
    <3>3. IsKept(d) BY <3>2 DEF IsKept, ToSet
    <3>4. CASE d # f.event BY <3>3, <3>4, <1>10
    <3>5. CASE d = f.event
      <4>1. n = 1 /\ i > f.original BY <3>2, <3>5, <1>4
      <4>2. Kept'[1] = Kept[1] /\ ~(i \in 1..f.original) BY <3>2, <4>1, <1>6
      <4>3. answer # "error"
        <5>1. ASSUME logFiles' = [logFiles EXCEPT ![1] = short] PROVE FALSE
          <6>1. Kept'[1] = short \/ Kept'[1] = <<>>
            BY <5>1, <1>0, <1>t DEF Kept, FileOf, LogTypeOK, FilesOf
          <6>2. i \in DOMAIN short BY <3>1, <4>1, <6>1
          <6> QED BY <6>2, <4>2, <1>8
        <5> QED BY <5>1, <1>a
      <4> QED BY <4>3, <3>5, <1>10
    <3> QED BY <3>4, <3>5
  <2> QED BY <2>1, <1>1, <1>9, PartsFollow
<1>15. LogInv'
  <2>1. PICK g : g = NotEmitting OBVIOUS
  <2>2. LogFrame(g) /\ g.at \notin Holding BY <2>1 DEF LogFrame, NotEmitting, Holding
  <2>3. logWriters' = [logWriters EXCEPT ![w] = g] BY <2>1, <1>9
  <2> QED BY <2>2, <2>3, <1>2, <1>10, <1>12, <1>13, <1>14, <1>p, HolderMoves
<1>16. NothingGoes
  <2> SUFFICES ASSUME NEW n \in 1..MaxFiles, NEW e \in ToSet(Kept[n]),
                      logged[e].answer = "written"
               PROVE e \in ToSet(Kept'[n])
    BY DEF NothingGoes, IsKept
  <2>2. CASE Kept'[n] = Kept[n] BY <2>2
  <2>3. CASE n = 1 /\ Kept'[n] = short
    <3>1. PICK i \in DOMAIN Kept[n] : e = Kept[n][i] BY DEF ToSet
    <3>2. e # f.event BY <1>4
    <3>3. i \in 1..Len(s) /\ e = s[i] BY <3>1, <2>3, <1>5, <1>8
    <3>4. ~(i > f.original) BY <3>1, <3>2, <2>3, <1>4
    <3>5. i \in 1..f.original BY <3>3, <3>4, <1>6
    <3>6. i \in DOMAIN short /\ short[i] = e BY <3>3, <3>5, <1>8
    <3> QED BY <3>6, <2>3 DEF ToSet
  <2> QED BY <2>2, <2>3, <1>12
<1> QED BY <1>15, <1>16

\* A writer is killed under the lock: what it was doing stays as it is.
LEMMA KillSound ==
  ASSUME LogInv, NEW w \in LogWriters, KillWriter(w)
  PROVE /\ LogInv' /\ NothingGoes /\ logWriters[w].at \in Holding
        /\ logWriters' = [logWriters EXCEPT ![w] = NotEmitting]
        /\ logged'[logWriters[w].event].answer = logWriters[w].at
        /\ \A d \in DOMAIN logged : d # logWriters[w].event => logged'[d] = logged[d]
        /\ DOMAIN logged' = DOMAIN logged
<1>t. LogTypeOK BY DEF LogInv
<1>1. PICK f : f = logWriters[w] OBVIOUS
<1>h. f.at \in Holding
  <2>1. LogFrame(f) /\ f.at \notin {"idle", "waiting"} BY <1>1, <1>t DEF LogTypeOK, KillWriter
  <2> QED BY <2>1 DEF LogFrame, NotEmitting
<1>2. /\ HolderSound(f) /\ f.event \in DOMAIN logged
      /\ \A y \in LogWriters \ {w} : logWriters[y].at \notin Holding
  BY <1>1, <1>h, HolderFrame
<1>3. /\ logged' = [logged EXCEPT ![f.event].answer = f.at] /\ logFiles' = logFiles
      /\ logWriters' = [logWriters EXCEPT ![w] = NotEmitting]
  BY <1>1 DEF KillWriter, Becomes
<1>4. /\ logged' \in Seq([size : EventSizes, answer : LogAnswers])
      /\ Len(logged') = Len(logged) /\ DOMAIN logged' = DOMAIN logged
      /\ logged'[f.event].answer = f.at
      /\ \A d \in DOMAIN logged : d # f.event => logged'[d] = logged[d]
  <2>1. PICK e : e = f.event OBVIOUS
  <2>2. PICK a : a = f.at OBVIOUS
  <2>3. a \in LogAnswers BY <2>2, <1>h DEF LogAnswers
  <2> QED BY <2>1, <2>2, <2>3, <1>2, <1>3, <1>t, EventAnswered
<1>5. Kept' = Kept BY <1>3 DEF Kept, FileOf
<1>6. \A d : IsKept(d)' <=> IsKept(d) BY <1>5 DEF IsKept
<1>7. PartsLogged' /\ InOrder(Kept') BY <1>4, <1>5 DEF LogInv, PartsLogged
<1>8. WrittenStands'
  <2>1. \A d \in DOMAIN logged' : logged'[d].answer = "written" =>
          d \in DOMAIN logged /\ logged'[d] = logged[d]
    BY <1>4, <1>h DEF Holding
  <2>2. WrittenStands BY DEF LogInv
  <2> QED BY <2>1, <2>2, <1>5, WrittenIsKept
<1>9. PartsAnswered'
  <2>1. ASSUME NEW d \in DOMAIN logged', IsKept(d)'
        PROVE \/ logged'[d].answer = "write"
              \/ d # f.event /\ d \in DOMAIN logged /\ IsKept(d) /\ logged'[d] = logged[d]
    <3>1. CASE d # f.event BY <2>1, <3>1, <1>4, <1>6
    <3>2. CASE d = f.event /\ f.at = "write" BY <3>2, <1>4
    <3>3. CASE d = f.event /\ f.at # "write"
      <4>1. Unwritten(f.event) BY <3>3, <1>h, <1>2 DEF HolderSound, Holding
      <4>a. PICK n \in 1..MaxFiles : d \in ToSet(Kept[n]) BY <2>1, <1>6 DEF IsKept
      <4>2. PICK i \in DOMAIN Kept[n] : d = Kept[n][i] BY <4>a DEF ToSet
      <4>3. d < d /\ d \in Nat BY <4>1, <4>2, <3>3, <1>2, <1>t, EntryOf DEF Unwritten
      <4> QED BY <4>3
    <3> QED BY <3>1, <3>2, <3>3
  <2> QED BY <2>1, <1>1, <1>3, PartsFollow
<1>10. LogInv'
  <2>1. PICK g : g = NotEmitting OBVIOUS
  <2>2. LogFrame(g) /\ g.at \notin Holding BY <2>1 DEF LogFrame, NotEmitting, Holding
  <2>3. logWriters' = [logWriters EXCEPT ![w] = g] /\ logFiles' \in FilesOf
    BY <2>1, <1>3, <1>t DEF LogTypeOK
  <2> QED BY <2>2, <2>3, <1>2, <1>4, <1>7, <1>8, <1>9, HolderMoves
<1> QED BY <1>1, <1>h, <1>3, <1>4, <1>6, <1>10 DEF NothingGoes

\* Every step keeps the invariant.
LEMMA LogStepSound == LogInv /\ [LogNext]_logVars => LogInv'
<1> SUFFICES ASSUME LogInv, [LogNext]_logVars PROVE LogInv'
  OBVIOUS
<1>1. CASE UNCHANGED logVars
  <2>1. logFiles' = logFiles /\ logWriters' = logWriters /\ logged' = logged
    BY <1>1 DEF logVars
  <2>2. Kept' = Kept BY <2>1 DEF Kept, FileOf
  <2>3. LogTypeOK' BY <2>1 DEF LogInv, LogTypeOK, LogFrame
  <2>4. PartsLogged' /\ OneHolder' /\ InOrder(Kept') BY <2>1, <2>2 DEF LogInv, PartsLogged, OneHolder
  <2>5. \A e \in DOMAIN logged' : logged'[e].answer = "written" => Standing(Kept', e, logged'[e].size)
    BY <2>1, <2>2 DEF LogInv, WrittenStands
  <2>6. WrittenStands' BY <2>5 DEF WrittenStands, Standing, IsWhole, StandsBehind, IsPast
  <2>7. ASSUME NEW w \in LogWriters, logWriters'[w].at \in Holding
        PROVE HolderSound(logWriters[w])'
    <3>1. HolderSound(logWriters[w]) BY <2>1, <2>7 DEF LogInv
    <3> QED BY <3>1, <2>1, <2>2 DEF HolderSound, Unwritten
  <2>8. PartsAnswered' BY <2>1, <2>2 DEF LogInv, PartsAnswered, IsKept, IsTorn
  <2> QED BY <2>3, <2>4, <2>6, <2>7, <2>8 DEF LogInv
<1>2. ASSUME NEW w \in LogWriters, NEW size \in EventSizes, Emit(w, size)
      PROVE LogInv'
  <2>1. PICK f : f = [at |-> "waiting", size |-> size] OBVIOUS
  <2>2. LogFrame(f) /\ f.at \notin Holding BY <2>1 DEF LogFrame, Holding
  <2>3. logWriters[w].at \notin Holding BY <1>2 DEF Emit, NotEmitting, Holding
  <2> QED BY <2>1, <2>2, <2>3, <1>2, FilesLeftAlone DEF Emit, Becomes
<1> QED BY <1>1, <1>2, TakeLogSound, UnlinkSound, RenameSound, OpenSound, WriteSound,
           FailureSound, KillSound DEF LogNext

\* What an event whose emit has returned is, when not it and every older one is gone:
\* what stands right before it ends a line or is a half line.
LEMMA WrittenIsLine ==
  ASSUME LogInv, NEW e \in DOMAIN logged, logged[e].answer = "written"
  PROVE IsLine(Kept, e) \/ IsPast(Kept, e)
<1>t. LogTypeOK BY DEF LogInv
<1>0. /\ Kept \in FilesOf /\ MaxFiles \in Nat \ {0} /\ MaxBytes \in Nat \ {0}
      /\ Len(logged) \in Nat /\ DOMAIN logged = 1..Len(logged)
  BY <1>t, FilesAreThere
<1>z. e \in Nat /\ logged[e].size \in Nat \ {0} BY <1>t, EntryOf
<1> SUFFICES ASSUME ~IsPast(Kept, e) PROVE IsLine(Kept, e) OBVIOUS
<1>1. IsWhole(Kept, e, logged[e].size) BY DEF LogInv, WrittenStands, Standing
<1>2. PICK n \in 1..MaxFiles, start \in 0..MaxBytes :
        StandsBehind(Kept, e, logged[e].size, n, start)
  BY <1>1 DEF IsWhole
<1>3. Kept[n] \in Seq(Nat) /\ Len(Kept[n]) \in Nat /\ DOMAIN Kept[n] = 1..Len(Kept[n])
      /\ start \in Nat
  BY <1>0 DEF FilesOf
<1>4. start + 1 \in DOMAIN Kept[n] /\ Kept[n][start + 1] = e
  <2>1. start + logged[e].size <= Len(Kept[n]) BY <1>2 DEF StandsBehind
  <2>2. start + 1 \in DOMAIN Kept[n] BY <2>1, <1>3, <1>z
  <2>3. start + 1 \in (start + 1)..(start + logged[e].size) BY <1>3, <1>z
  <2> QED BY <2>2, <2>3, <1>2 DEF StandsBehind
<1>5. CASE start = 0 BY <1>5, <1>2 DEF IsLine
<1>6. CASE start # 0
  <2>1. start \in DOMAIN Kept[n] BY <1>3, <1>4, <1>6
  <2>2. PICK p : p = Kept[n][start] OBVIOUS
  <2>3. p \in DOMAIN logged /\ p \in Nat /\ IsKept(p)
    <3>1. p \in 1..Len(logged) BY <2>1, <2>2 DEF LogInv, PartsLogged
    <3> QED BY <3>1, <2>1, <2>2, <1>0 DEF IsKept, ToSet
  <2>4. p < e
    <3>1. p <= e BY <2>1, <2>2, <1>3, <1>4 DEF LogInv, InOrder
    <3>2. start \notin (start + 1)..(start + logged[e].size) BY <1>3
    <3>3. p # e BY <3>2, <2>1, <2>2, <1>2 DEF StandsBehind
    <3> QED BY <3>1, <3>3, <2>3, <1>z
  <2>5. CASE logged[p].answer = "written"
    <3>1. PICK z : z = logged[p].size OBVIOUS
    <3>2. z \in Nat \ {0} BY <3>1, <2>3, <1>t, EntryOf
    <3>3. ~IsPast(Kept, p)
      <4>1. ~(Kept[n][start] > p) BY <2>2, <2>3
      <4> QED BY <4>1, <2>1 DEF IsPast
    <3>4. IsWhole(Kept, p, z) BY <3>1, <3>3, <2>3, <2>5 DEF LogInv, WrittenStands, Standing
    <3>5. PICK m \in 1..MaxFiles, first \in 0..MaxBytes : StandsBehind(Kept, p, z, m, first)
      BY <3>4 DEF IsWhole
    <3>6. m = n /\ start \in (first + 1)..(first + z) BY <3>5, <2>1, <2>2 DEF StandsBehind
    <3>7. start + 1 \notin (first + 1)..(first + z)
      BY <3>5, <3>6, <2>4, <1>4, <2>3, <1>z DEF StandsBehind
    <3>8. start = first + z /\ first \in Nat
      <4>1. first \in Nat BY <1>0
      <4>2. start \in Nat BY <1>3
      <4> QED BY <4>1, <4>2, <3>2, <3>6, <3>7
    <3>9. start >= z /\ start - z + 1 = first + 1 BY <3>2, <3>8
    <3>10. first + 1 \in DOMAIN Kept[n] /\ first + 1 \in (first + 1)..(first + z)
      BY <3>2, <3>8, <2>1, <1>3
    <3>11. Kept[n][first + 1] = p BY <3>5, <3>6, <3>10 DEF StandsBehind
    <3>12. EndsLine(Kept[n], start) BY <3>1, <3>9, <3>11, <2>2 DEF EndsLine
    <3> QED BY <3>12, <1>2 DEF IsLine
  <2>6. CASE IsTorn(p) BY <2>6, <2>2, <1>2 DEF IsLine
  <2>7. ~\E w \in LogWriters : logWriters[w].at = "write" /\ logWriters[w].event = p
    <3> SUFFICES ASSUME NEW w \in LogWriters, logWriters[w].at = "write", logWriters[w].event = p
                 PROVE FALSE
      OBVIOUS
    <3>1. HolderSound(logWriters[w]) BY DEF LogInv, Holding
    <3>2. p = Len(logged) BY <3>1 DEF HolderSound
    <3> QED BY <3>2, <2>3, <2>4, <1>0, <1>z
  <2> QED BY <2>3, <2>5, <2>6, <2>7 DEF LogInv, PartsAnswered
<1> QED BY <1>5, <1>6

-------------------------------------------------------------------------------
(* The places that killed rotations give up *)

\* The numbers without a file below the number of a file.
Holes == {n \in 2..MaxFiles :
            logFiles[n] = NoFile /\ \E m \in (n + 1)..MaxFiles : logFiles[m] # NoFile}
\* There are no more of them than rotations were killed, but for the one that a
\* rotation at work has made and will fill; and it has not got to the active file yet.
PlacesCounted ==
  /\ (\A w \in LogWriters : logWriters[w].at # "rename") =>
       Cardinality(Holes) <= Cardinality(CutRotations)
  /\ \A w \in LogWriters : logWriters[w].at = "rename" =>
       /\ Cardinality(Holes \ {logWriters[w].from + 1}) <= Cardinality(CutRotations)
       /\ logFiles[1] # NoFile
  /\ \A w \in LogWriters : logWriters[w].at = "unlink" => logFiles[1] # NoFile

\* Both are finite.
LEMMA PlacesFinite ==
  ASSUME LogTypeOK
  PROVE /\ IsFiniteSet(Holes) /\ IsFiniteSet(CutRotations)
        /\ Cardinality(Holes) \in Nat /\ Cardinality(CutRotations) \in Nat
<1>1. MaxFiles \in Nat /\ DOMAIN logged = 1..Len(logged) /\ Len(logged) \in Nat
  BY FilesAreThere
<1>2. IsFiniteSet(2..MaxFiles) /\ IsFiniteSet(1..Len(logged)) BY <1>1, FS_Interval
<1>3. Holes \subseteq 2..MaxFiles BY DEF Holes
<1>4. CutRotations \subseteq 1..Len(logged) BY <1>1 DEF CutRotations
<1>5. IsFiniteSet(Holes) /\ IsFiniteSet(CutRotations) BY <1>2, <1>3, <1>4, FS_Subset
<1> QED BY <1>5, FS_CardinalityType

\* A step outside of the renames.
LEMMA PlacesLeftAlone ==
  ASSUME PlacesCounted, NEW w \in LogWriters, logWriters[w].at # "rename",
         logWriters'[w].at # "rename", logWriters'[w].at = "unlink" => logFiles'[1] # NoFile,
         \A x \in LogWriters \ {w} : logWriters'[x] = logWriters[x],
         \A n \in 1..MaxFiles : logFiles'[n] = NoFile => logFiles[n] = NoFile,
         \A n \in 2..MaxFiles : logFiles[n] = NoFile => logFiles'[n] = NoFile,
         MaxFiles \in Nat \ {0}, CutRotations' = CutRotations
  PROVE PlacesCounted'
<1>1. Holes' = Holes
  <2>1. \A n \in 2..MaxFiles : n \in 1..MaxFiles OBVIOUS
  <2>2. \A n \in 2..MaxFiles : logFiles'[n] = NoFile <=> logFiles[n] = NoFile BY <2>1
  <2>3. \A n \in 2..MaxFiles : \A m \in (n + 1)..MaxFiles : m \in 2..MaxFiles OBVIOUS
  <2> QED BY <2>2, <2>3 DEF Holes
<1>2. 1 \in 1..MaxFiles OBVIOUS
<1>3. logFiles[1] # NoFile => logFiles'[1] # NoFile BY <1>2
<1>4. ASSUME \A x \in LogWriters : logWriters'[x].at # "rename"
      PROVE Cardinality(Holes') <= Cardinality(CutRotations')
  <2>1. \A x \in LogWriters : logWriters[x].at # "rename" BY <1>4
  <2> QED BY <2>1, <1>1 DEF PlacesCounted
<1>5. ASSUME NEW x \in LogWriters, logWriters'[x].at = "rename"
      PROVE /\ Cardinality(Holes' \ {logWriters'[x].from + 1}) <= Cardinality(CutRotations')
            /\ logFiles'[1] # NoFile
  <2>1. logWriters'[x] = logWriters[x] BY <1>5
  <2> QED BY <2>1, <1>1, <1>3, <1>5 DEF PlacesCounted
<1>6. ASSUME NEW x \in LogWriters, logWriters'[x].at = "unlink" PROVE logFiles'[1] # NoFile
  <2>1. CASE x = w BY <2>1, <1>6
  <2>2. CASE x # w BY <2>2, <1>3, <1>6 DEF PlacesCounted
  <2> QED BY <2>1, <2>2
<1> QED BY <1>4, <1>5, <1>6 DEF PlacesCounted

\* An event is answered that did not rotate when it was cut off.
LEMMA RotationsLeftAlone ==
  ASSUME LogTypeOK, NEW e \in DOMAIN logged, logged[e].answer # "rename",
         DOMAIN logged' = DOMAIN logged, logged'[e].answer # "rename",
         \A d \in DOMAIN logged : d # e => logged'[d] = logged[d]
  PROVE CutRotations' = CutRotations
BY DEF CutRotations

\* The oldest file goes.
LEMMA UnlinkCounted ==
  ASSUME LogInv, PlacesCounted, NEW w \in LogWriters, UnlinkOldest(w)
  PROVE PlacesCounted' /\ OldestGoesFirst
<1>t. LogTypeOK BY DEF LogInv
<1>0. MaxFiles \in Nat \ {0} /\ 1 \in 1..MaxFiles /\ MaxFiles \in 1..MaxFiles
      /\ \A k \in 1..MaxFiles : Kept[k] = FileOf(k)
  BY <1>t, FilesAreThere
<1>1. /\ MaxFiles > 1 /\ logWriters[w].from = MaxFiles - 1 /\ logWriters[w].at = "unlink"
      /\ \A x \in LogWriters \ {w} : logWriters[x].at \notin Holding
  BY HolderFrame DEF UnlinkOldest, Holding, HolderSound
<1>2. /\ logWriters'[w].at = "rename" /\ logWriters'[w].from + 1 = MaxFiles
      /\ \A x \in LogWriters \ {w} : logWriters'[x] = logWriters[x]
      /\ logged' = logged /\ logFiles'[1] = logFiles[1] /\ logFiles'[MaxFiles] = NoFile
      /\ \A k \in 1..MaxFiles : k # MaxFiles => logFiles'[k] = logFiles[k]
  <2>1. logWriters[w] \in [at : Holding, size : EventSizes, event : Nat, original : Nat, from : Int]
    BY <1>1, HolderFrame DEF Holding
  <2>2. PICK f : f = [logWriters[w] EXCEPT !.at = "rename"] OBVIOUS
  <2>3. f.at = "rename" /\ f.from + 1 = MaxFiles BY <2>1, <2>2, <1>0, <1>1
  <2>4. logWriters' = [logWriters EXCEPT ![w] = f] BY <2>2 DEF UnlinkOldest, Becomes
  <2>5. logWriters'[w] = f /\ \A x \in LogWriters \ {w} : logWriters'[x] = logWriters[x]
    BY <2>4, <1>t DEF LogTypeOK
  <2>6. /\ logged' = logged /\ logFiles'[1] = logFiles[1] /\ logFiles'[MaxFiles] = NoFile
        /\ \A k \in 1..MaxFiles : k # MaxFiles => logFiles'[k] = logFiles[k]
    BY <1>0, <1>1, <1>t DEF UnlinkOldest, LogTypeOK, FilesOf
  <2> QED BY <2>3, <2>5, <2>6
<1>3. logFiles[1] # NoFile BY <1>1 DEF PlacesCounted
<1>4. CutRotations' = CutRotations BY <1>2 DEF CutRotations
<1>5. Cardinality(Holes) <= Cardinality(CutRotations)
  <2>1. \A x \in LogWriters : logWriters[x].at # "rename" BY <1>1 DEF Holding
  <2> QED BY <2>1 DEF PlacesCounted
<1>6. Holes' \ {MaxFiles} \subseteq Holes
  <2> SUFFICES ASSUME NEW n \in Holes', n # MaxFiles PROVE n \in Holes
    OBVIOUS
  <2>1. n \in 2..MaxFiles /\ logFiles'[n] = NoFile BY DEF Holes
  <2>2. PICK m \in (n + 1)..MaxFiles : logFiles'[m] # NoFile BY DEF Holes
  <2>3. n \in 1..MaxFiles /\ m \in 1..MaxFiles /\ m # MaxFiles BY <2>1, <2>2, <1>2
  <2>4. logFiles[n] = NoFile /\ logFiles[m] # NoFile BY <2>1, <2>2, <2>3, <1>2
  <2> QED BY <2>1, <2>2, <2>4 DEF Holes
<1>7. Cardinality(Holes' \ {MaxFiles}) <= Cardinality(CutRotations)
  <2>1. /\ Cardinality(Holes' \ {MaxFiles}) <= Cardinality(Holes)
        /\ IsFiniteSet(Holes' \ {MaxFiles})
    BY <1>6, <1>t, PlacesFinite, FS_Subset
  <2>2. Cardinality(Holes' \ {MaxFiles}) \in Nat BY <2>1, FS_CardinalityType
  <2> QED BY <2>1, <2>2, <1>5, <1>t, PlacesFinite
<1>8. PlacesCounted'
  <2>1. \A x \in LogWriters \ {w} : logWriters'[x].at \notin {"unlink", "rename"}
    BY <1>1, <1>2 DEF Holding
  <2> QED BY <2>1, <1>2, <1>3, <1>4, <1>7 DEF PlacesCounted
<1>9. OldestGoesFirst
  <2> DEFINE lost == {e \in DOMAIN logged : logged[e].answer = "written" /\ IsKept(e) /\ ~IsKept(e)'}
  <2>1. \A n \in 1..MaxFiles : n # MaxFiles => Kept'[n] = Kept[n] BY UnlinkSound
  <2>2. \A e \in lost : e \in ToSet(Kept[MaxFiles]) BY <2>1 DEF IsKept
  <2>3. ASSUME NEW e \in lost PROVE Cardinality(FreeNumbers) <= Cardinality(CutRotations)
    <3>1. e \in ToSet(Kept[MaxFiles]) BY <2>2
    <3>2. logFiles[MaxFiles] # NoFile BY <3>1, <1>0 DEF ToSet, FileOf
    <3>3. FreeNumbers \subseteq Holes
      <4> SUFFICES ASSUME NEW n \in 1..MaxFiles, logFiles[n] = NoFile PROVE n \in Holes
        BY DEF FreeNumbers
      <4>1. n # 1 /\ n # MaxFiles BY <3>2, <1>3
      <4>2. n \in 2..MaxFiles /\ MaxFiles \in (n + 1)..MaxFiles BY <4>1, <1>0
      <4> QED BY <4>2, <3>2 DEF Holes
    <3>4. Cardinality(FreeNumbers) <= Cardinality(Holes) /\ IsFiniteSet(FreeNumbers)
      BY <3>3, <1>t, PlacesFinite, FS_Subset
    <3>5. Cardinality(FreeNumbers) \in Nat BY <3>4, FS_CardinalityType
    <3> QED BY <3>4, <3>5, <1>5, <1>t, PlacesFinite
  <2>4. lost # {} => lost \subseteq ToSet(Kept[MaxFiles])
                     /\ Cardinality(FreeNumbers) <= Cardinality(CutRotations)
    <3> HIDE DEF lost
    <3> QED BY <2>2, <2>3
  <2> QED BY <2>4 DEF OldestGoesFirst
<1> QED BY <1>8, <1>9

\* A file takes the next number and leaves its own, or there is none and the hole
\* is one number lower.
LEMMA RenameCounted ==
  ASSUME LogInv, PlacesCounted, NEW w \in LogWriters, RenameNext(w)
  PROVE PlacesCounted'
<1>t. LogTypeOK BY DEF LogInv
<1>0. MaxFiles \in Nat \ {0} /\ 1 \in 1..MaxFiles BY <1>t, FilesAreThere
<1>1. PICK n : n = logWriters[w].from OBVIOUS
<1>2. /\ n \in 1..(MaxFiles - 1) /\ logFiles[n + 1] = NoFile /\ logWriters[w].at = "rename"
      /\ \A x \in LogWriters \ {w} : logWriters[x].at \notin Holding
  BY <1>1, HolderFrame DEF RenameNext, Holding, HolderSound
<1>3. n \in 1..MaxFiles /\ n + 1 \in 2..MaxFiles /\ n + 1 \in 1..MaxFiles BY <1>0, <1>2
<1>4. /\ logWriters'[w].from = n - 1
      /\ logWriters'[w].at = (IF n = 1 THEN "open" ELSE "rename")
      /\ \A x \in LogWriters \ {w} : logWriters'[x] = logWriters[x]
      /\ logged' = logged /\ logFiles' = Renamed(n)
  <2>1. logWriters[w] \in [at : Holding, size : EventSizes, event : Nat, original : Nat, from : Int]
    BY <1>2, HolderFrame DEF Holding
  <2>2. PICK f : f = [logWriters[w] EXCEPT !.from = @ - 1, !.at = IF n = 1 THEN "open" ELSE @]
    OBVIOUS
  <2>3. f.from = n - 1 /\ f.at = (IF n = 1 THEN "open" ELSE "rename")
    BY <2>1, <2>2, <1>1, <1>2
  <2>4. logWriters' = [logWriters EXCEPT ![w] = f] BY <2>2, <1>1 DEF RenameNext, Becomes
  <2>5. logWriters'[w] = f /\ \A x \in LogWriters \ {w} : logWriters'[x] = logWriters[x]
    BY <2>4, <1>t DEF LogTypeOK
  <2> QED BY <2>3, <2>5, <1>1 DEF RenameNext
<1>5. /\ Cardinality(Holes \ {n + 1}) <= Cardinality(CutRotations) /\ logFiles[1] # NoFile
  BY <1>1, <1>2 DEF PlacesCounted
<1>f. IsFiniteSet(Holes) /\ Cardinality(Holes) \in Nat /\ Cardinality(CutRotations) \in Nat
      /\ IsFiniteSet(Holes \ {n + 1}) /\ Cardinality(Holes \ {n + 1}) \in Nat
  <2>1. IsFiniteSet(Holes) /\ Cardinality(Holes) \in Nat /\ Cardinality(CutRotations) \in Nat
    BY <1>t, PlacesFinite
  <2>2. IsFiniteSet(Holes \ {n + 1}) BY <2>1, FS_Subset
  <2> QED BY <2>1, <2>2, FS_CardinalityType
<1>6. CutRotations' = CutRotations BY <1>4 DEF CutRotations
<1>7. Cardinality(Holes' \ {n}) <= Cardinality(CutRotations)
      /\ (n # 1 => logFiles'[1] # NoFile)
  <2>1. CASE logFiles[n] # NoFile
    <3>1. /\ logFiles'[n + 1] = logFiles[n] /\ logFiles'[n] = NoFile
          /\ \A k \in 1..MaxFiles : k \notin {n, n + 1} => logFiles'[k] = logFiles[k]
      BY <2>1, <1>3, <1>4, <1>t DEF Renamed, LogTypeOK, FilesOf
    <3>2. Holes' \ {n} \subseteq Holes \ {n + 1}
      <4> SUFFICES ASSUME NEW k \in Holes', k # n PROVE k \in Holes /\ k # n + 1
        OBVIOUS
      <4>1. k \in 2..MaxFiles /\ logFiles'[k] = NoFile BY DEF Holes
      <4>2. k # n + 1 BY <4>1, <3>1, <2>1
      <4>3. k \in 1..MaxFiles /\ logFiles[k] = NoFile BY <4>1, <4>2, <3>1
      <4>4. PICK m \in (k + 1)..MaxFiles : logFiles'[m] # NoFile BY DEF Holes
      <4>5. m # n /\ m \in 1..MaxFiles BY <4>1, <4>4, <3>1
      <4>6. CASE m = n + 1
        <5>1. n \in (k + 1)..MaxFiles BY <4>1, <4>4, <4>6, <1>3
        <5> QED BY <5>1, <4>1, <4>2, <4>3, <2>1 DEF Holes
      <4>7. CASE m # n + 1
        <5>1. logFiles[m] # NoFile BY <4>4, <4>5, <4>7, <3>1
        <5> QED BY <5>1, <4>1, <4>2, <4>3, <4>4 DEF Holes
      <4> QED BY <4>6, <4>7
    <3>3. Cardinality(Holes' \ {n}) <= Cardinality(Holes \ {n + 1}) /\ IsFiniteSet(Holes' \ {n})
      BY <3>2, <1>f, FS_Subset
    <3>4. Cardinality(Holes' \ {n}) \in Nat BY <3>3, FS_CardinalityType
    <3>5. n # 1 => logFiles'[1] # NoFile
      <4>1. n # 1 => 1 \notin {n, n + 1} BY <1>2
      <4> QED BY <4>1, <3>1, <1>0, <1>5
    <3> QED BY <3>3, <3>4, <3>5, <1>5, <1>f
  <2>2. CASE logFiles[n] = NoFile
    <3>1. logFiles' = logFiles /\ Holes' = Holes BY <2>2, <1>4 DEF Renamed, Holes
    <3>2. n \in 2..MaxFiles BY <2>2, <1>3, <1>5
    <3>3. CASE n + 1 \in Holes
      <4>1. n \in Holes
        <5>1. PICK m \in (n + 1 + 1)..MaxFiles : logFiles[m] # NoFile BY <3>3 DEF Holes
        <5>2. m \in (n + 1)..MaxFiles BY <5>1, <3>2
        <5> QED BY <5>1, <5>2, <3>2, <2>2 DEF Holes
      <4>2. Cardinality(Holes \ {n}) = Cardinality(Holes) - 1 BY <4>1, <1>f, FS_RemoveElement
      <4>3. Cardinality(Holes \ {n + 1}) = Cardinality(Holes) - 1 BY <3>3, <1>f, FS_RemoveElement
      <4> QED BY <4>2, <4>3, <3>1, <1>5
    <3>4. CASE n + 1 \notin Holes
      <4>1. Holes \ {n} \subseteq Holes \ {n + 1} BY <3>4
      <4>2. Cardinality(Holes \ {n}) <= Cardinality(Holes \ {n + 1}) /\ IsFiniteSet(Holes \ {n})
        BY <4>1, <1>f, FS_Subset
      <4>3. Cardinality(Holes \ {n}) \in Nat BY <4>2, FS_CardinalityType
      <4> QED BY <4>2, <4>3, <3>1, <1>5, <1>f
    <3> QED BY <3>1, <3>3, <3>4, <1>5
  <2> QED BY <2>1, <2>2
<1>8. CASE n = 1
  <2>1. Holes' \ {n} = Holes' BY <1>8 DEF Holes
  <2>2. \A x \in LogWriters : logWriters'[x].at \notin {"unlink", "rename"}
    BY <1>2, <1>4, <1>8 DEF Holding
  <2> QED BY <2>1, <2>2, <1>6, <1>7 DEF PlacesCounted
<1>9. CASE n # 1
  <2>1. logWriters'[w].at = "rename" /\ logWriters'[w].from + 1 = n BY <1>2, <1>4, <1>9
  <2>2. \A x \in LogWriters \ {w} : logWriters'[x].at \notin {"unlink", "rename"}
    BY <1>2, <1>4 DEF Holding
  <2> QED BY <2>1, <2>2, <1>6, <1>7, <1>9 DEF PlacesCounted
<1> QED BY <1>8, <1>9

\* The lock is taken, and a log of one file is emptied.
LEMMA TakeLogCounted ==
  ASSUME LogInv, PlacesCounted, NEW w \in LogWriters, TakeLog(w)
  PROVE PlacesCounted' /\ OldestGoesFirst
<1>t. LogTypeOK BY DEF LogInv
<1>0. MaxFiles \in Nat \ {0} /\ 1 \in 1..MaxFiles
      /\ (\A k \in 1..MaxFiles : Kept[k] = FileOf(k) /\ FileOf(k) \in Seq(Nat))
      /\ DOMAIN logged = 1..Len(logged) /\ Len(logged) \in Nat
  BY <1>t, FilesAreThere
<1> DEFINE full == FileOf(1) # <<>> /\ Len(FileOf(1)) + logWriters[w].size > MaxBytes
<1>1. /\ logWriters'[w].at = (IF full /\ MaxFiles > 1 THEN "unlink" ELSE "open")
      /\ \A x \in LogWriters \ {w} : logWriters'[x] = logWriters[x]
      /\ logWriters[w].at = "waiting"
  BY <1>t DEF TakeLog, Becomes, LogTypeOK
<1>2. /\ logFiles'[1] = (IF full /\ MaxFiles = 1 THEN <<>> ELSE FileOf(1))
      /\ \A k \in 1..MaxFiles : k # 1 => logFiles'[k] = logFiles[k]
  BY <1>0, <1>t DEF TakeLog, LogTypeOK, FilesOf
<1>3. FileOf(1) # NoFile /\ <<>> # NoFile
  <2>1. <<>> # NoFile BY DEF NoFile
  <2> QED BY <2>1 DEF FileOf
<1>4. CutRotations' = CutRotations
  <2>1. PICK new : new = [size |-> logWriters[w].size, answer |-> "none"] OBVIOUS
  <2>2. logged' = Append(logged, new) /\ new.answer = "none" BY <2>1 DEF TakeLog
  <2>3. DOMAIN logged' = 1..(Len(logged) + 1) /\ logged'[Len(logged) + 1] = new
        /\ \A d \in 1..Len(logged) : logged'[d] = logged[d]
    BY <2>2, <1>t, <1>0 DEF LogTypeOK
  <2> QED BY <2>2, <2>3, <1>0 DEF CutRotations
<1>5. PlacesCounted'
  <2>1. \A n \in 2..MaxFiles : n \in 1..MaxFiles /\ n # 1 OBVIOUS
  <2>2. /\ \A n \in 1..MaxFiles : logFiles'[n] = NoFile => logFiles[n] = NoFile
        /\ \A n \in 2..MaxFiles : logFiles[n] = NoFile => logFiles'[n] = NoFile
    BY <2>1, <1>2, <1>3
  <2>3. logWriters'[w].at # "rename" /\ (logWriters'[w].at = "unlink" => logFiles'[1] # NoFile)
    BY <1>1, <1>2, <1>3
  <2> HIDE DEF full
  <2> QED BY <2>2, <2>3, <1>0, <1>1, <1>4, PlacesLeftAlone
<1>6. OldestGoesFirst
  <2> DEFINE lost == {e \in DOMAIN logged : logged[e].answer = "written" /\ IsKept(e) /\ ~IsKept(e)'}
  <2>1. CASE NothingGoes
    <3>1. lost = {} BY <2>1 DEF NothingGoes
    <3> QED BY <3>1 DEF OldestGoesFirst
  <2>2. CASE MaxFiles = 1 /\ FileOf(1) # <<>>
    <3>1. FreeNumbers = {} BY <2>2 DEF FreeNumbers, FileOf
    <3>2. Cardinality(FreeNumbers) <= Cardinality(CutRotations)
      BY <3>1, <1>t, PlacesFinite, FS_EmptySet
    <3>3. lost \subseteq ToSet(Kept[MaxFiles]) BY <2>2 DEF IsKept
    <3> QED BY <3>2, <3>3 DEF OldestGoesFirst
  <2> QED BY <2>1, <2>2, TakeLogSound
<1> QED BY <1>5, <1>6

\* The active file is opened, written to, taken back; its writer is killed.
LEMMA ActiveCounted ==
  ASSUME LogInv, PlacesCounted, NEW w \in LogWriters,
         OpenActive(w) \/ WritePart(w) \/ WriteFails(w)
  PROVE PlacesCounted'
<1>t. LogTypeOK BY DEF LogInv
<1>0. MaxFiles \in Nat \ {0} /\ 1 \in 1..MaxFiles
      /\ (\A k \in 1..MaxFiles : Kept[k] = FileOf(k) /\ FileOf(k) \in Seq(Nat))
  BY <1>t, FilesAreThere
<1>1. PICK f : f = logWriters[w] OBVIOUS
<1>2. /\ f \in [at : Holding, size : EventSizes, event : Nat, original : Nat, from : Int]
      /\ HolderSound(f) /\ f.at \in {"open", "write"} /\ f.event \in DOMAIN logged
  BY <1>1, HolderFrame DEF OpenActive, WritePart, WriteFails, Holding
<1>3. \A k \in 1..MaxFiles : k # 1 => logFiles'[k] = logFiles[k]
  BY <1>0, <1>t DEF OpenActive, WritePart, WriteFails, LogTypeOK, FilesOf
<1>4. logFiles'[1] # NoFile
  <2>1. CASE OpenActive(w)
    <3>1. logFiles'[1] = FileOf(1) BY <2>1, <1>0, <1>t DEF OpenActive, LogTypeOK, FilesOf
    <3>2. FileOf(1) # NoFile BY DEF FileOf, NoFile
    <3> QED BY <3>1, <3>2
  <2>2. CASE WritePart(w) \/ WriteFails(w)
    <3>1. ASSUME NEW i \in DOMAIN logFiles[1] PROVE logFiles[1][i] # 0
      <4>1. f.at = "write" BY <2>2, <1>1 DEF WritePart, WriteFails
      <4>2. logFiles[1] = Kept[1] BY <4>1, <1>0, <1>2 DEF HolderSound, FileOf
      <4>3. Kept[1][i] \in 1..Len(logged) BY <4>2, <1>0 DEF LogInv, PartsLogged
      <4> QED BY <4>2, <4>3, <1>t, FilesAreThere
    <3>2. PICK s : s = logFiles[1] OBVIOUS
    <3>3. s \in Seq(Nat) /\ f.event \in Nat /\ f.event # 0
          /\ f.original \in Nat /\ s # NoFile
      <4>1. f.at = "write" BY <2>2, <1>1 DEF WritePart, WriteFails
      <4> QED BY <4>1, <3>2, <1>0, <1>2, <1>t DEF HolderSound, LogTypeOK, FilesOf
    <3>4. f.at = "write" /\ f.original <= Len(s)
      BY <2>2, <1>1, <1>2, <3>2 DEF WritePart, WriteFails, HolderSound
    <3>5. CASE logFiles'[1] = Append(s, f.event)
      <4>1. \A i \in DOMAIN Append(s, f.event) : Append(s, f.event)[i] # 0
        BY <3>1, <3>2, <3>3, PartAppended
      <4>2. Append(s, f.event) \in Seq(Nat) BY <3>3, PartAppended
      <4> QED BY <4>1, <4>2, <3>5, FileIsThere
    <3>6. CASE logFiles'[1] = SubSeq(s, 1, f.original)
      <4>1. PICK k : k = f.original OBVIOUS
      <4>2. k \in 0..Len(s) BY <4>1, <3>3, <3>4
      <4>3. SubSeq(s, 1, k) \in Seq(Nat) /\ DOMAIN SubSeq(s, 1, k) = 1..k
            /\ \A i \in 1..k : SubSeq(s, 1, k)[i] = s[i]
        BY <4>2, <3>3, PartsTruncated
      <4>4. \A i \in 1..k : i \in DOMAIN s BY <4>2, <3>3
      <4>5. \A i \in DOMAIN SubSeq(s, 1, k) : SubSeq(s, 1, k)[i] # 0
        BY <4>3, <4>4, <3>1, <3>2
      <4> QED BY <4>1, <4>3, <4>5, <3>6, FileIsThere
    <3>7. \/ logFiles'[1] = Append(s, f.event) \/ logFiles'[1] = SubSeq(s, 1, f.original)
          \/ logFiles'[1] = s
      BY <2>2, <1>0, <1>1, <1>t, <3>2 DEF WritePart, WriteFails, LogTypeOK, FilesOf
    <3> QED BY <3>3, <3>5, <3>6, <3>7
  <2> QED BY <2>1, <2>2
<1>5. CutRotations' = CutRotations
  <2>1. CASE logged' = logged BY <2>1 DEF CutRotations
  <2>2. CASE \E a \in {"written", "error", "write"} :
               f.at = "write" /\ logged' = [logged EXCEPT ![f.event].answer = a]
    <3>1. PICK a \in {"written", "error", "write"} :
            logged' = [logged EXCEPT ![f.event].answer = a]
      BY <2>2
    <3>2. a \in LogAnswers BY DEF LogAnswers, Holding
    <3>3. PICK e : e = f.event OBVIOUS
    <3>4. /\ DOMAIN logged' = DOMAIN logged /\ logged'[e].answer = a
          /\ \A d \in DOMAIN logged : d # e => logged'[d] = logged[d]
      BY <3>1, <3>2, <3>3, <1>2, <1>t, EventAnswered
    <3>5. logged[e].answer # "rename" BY <3>3, <1>2 DEF HolderSound
    <3> QED BY <3>3, <3>4, <3>5, <1>2, <1>t, RotationsLeftAlone
  <2> QED BY <2>1, <2>2, <1>1 DEF OpenActive, WritePart, WriteFails
<1>6. /\ logWriters'[w].at \in {"idle", "write"}
      /\ \A x \in LogWriters \ {w} : logWriters'[x] = logWriters[x]
  <2>1. CASE OpenActive(w)
    <3>1. PICK g : g = [f EXCEPT !.at = "write", !.original = Len(FileOf(1))] OBVIOUS
    <3>2. g.at = "write" BY <3>1, <1>2
    <3>3. logWriters' = [logWriters EXCEPT ![w] = g] BY <2>1, <3>1, <1>1 DEF OpenActive, Becomes
    <3> QED BY <3>2, <3>3, <1>t DEF LogTypeOK
  <2>2. CASE WritePart(w) \/ WriteFails(w)
    <3>1. logWriters' = logWriters \/ logWriters' = [logWriters EXCEPT ![w] = NotEmitting]
      BY <2>2 DEF WritePart, WriteFails, Becomes
    <3>2. logWriters[w].at = "write" BY <2>2 DEF WritePart, WriteFails
    <3> QED BY <3>1, <3>2, <1>t DEF LogTypeOK, NotEmitting
  <2> QED BY <2>1, <2>2
<1>7. \A n \in 1..MaxFiles : logFiles'[n] = NoFile => logFiles[n] = NoFile BY <1>3, <1>4
<1>8. \A n \in 2..MaxFiles : logFiles[n] = NoFile => logFiles'[n] = NoFile BY <1>3
<1> QED BY <1>0, <1>1, <1>2, <1>5, <1>6, <1>7, <1>8, PlacesLeftAlone

\* A rotation that is killed leaves its hole.
LEMMA KillCounted ==
  ASSUME LogInv, PlacesCounted, NEW w \in LogWriters, KillWriter(w)
  PROVE PlacesCounted'
<1>t. LogTypeOK BY DEF LogInv
<1>0. MaxFiles \in Nat \ {0} BY <1>t, FilesAreThere
<1>1. PICK f : f = logWriters[w] OBVIOUS
<1>2. /\ f.at \in Holding /\ logWriters' = [logWriters EXCEPT ![w] = NotEmitting]
      /\ logged'[f.event].answer = f.at /\ DOMAIN logged' = DOMAIN logged
      /\ \A d \in DOMAIN logged : d # f.event => logged'[d] = logged[d]
  BY <1>1, KillSound
<1>3. /\ HolderSound(f) /\ f.event \in DOMAIN logged
      /\ \A x \in LogWriters \ {w} : logWriters[x].at \notin Holding
  BY <1>1, <1>2, HolderFrame
<1>4. /\ logWriters'[w] = NotEmitting
      /\ \A x \in LogWriters \ {w} : logWriters'[x] = logWriters[x]
      /\ logFiles' = logFiles
  BY <1>2, <1>t DEF LogTypeOK, KillWriter
<1>5. CASE f.at # "rename"
  <2>1. PICK e : e = f.event OBVIOUS
  <2>2. logged[e].answer # "rename" BY <2>1, <1>3 DEF HolderSound
  <2>3. CutRotations' = CutRotations
    BY <2>1, <2>2, <1>2, <1>3, <1>5, <1>t, RotationsLeftAlone
  <2>4. logWriters'[w].at \notin {"unlink", "rename"} BY <1>4 DEF NotEmitting
  <2> QED BY <2>3, <2>4, <1>0, <1>1, <1>4, <1>5, PlacesLeftAlone
<1>6. CASE f.at = "rename"
  <2>1. PICK hole : hole = f.from + 1 OBVIOUS
  <2>2. Cardinality(Holes \ {hole}) <= Cardinality(CutRotations)
    BY <2>1, <1>1, <1>6 DEF PlacesCounted
  <2>3. Holes' = Holes BY <1>4 DEF Holes
  <2>4. CutRotations' = CutRotations \cup {f.event} /\ f.event \notin CutRotations
    <3>1. logged[f.event].answer = "none" BY <1>3 DEF HolderSound
    <3> QED BY <3>1, <1>2, <1>3, <1>6 DEF CutRotations
  <2>5. /\ IsFiniteSet(Holes) /\ IsFiniteSet(CutRotations)
        /\ Cardinality(Holes) \in Nat /\ Cardinality(CutRotations) \in Nat
    BY <1>t, PlacesFinite
  <2>6. Cardinality(CutRotations') = Cardinality(CutRotations) + 1
    BY <2>4, <2>5, FS_AddElement
  <2>7. Cardinality(Holes) <= Cardinality(Holes \ {hole}) + 1
    <3>1. CASE hole \in Holes
      <4>1. Cardinality(Holes \ {hole}) = Cardinality(Holes) - 1
        BY <3>1, <2>5, FS_RemoveElement
      <4> QED BY <4>1, <2>5
    <3>2. CASE hole \notin Holes
      <4>1. Holes \ {hole} = Holes BY <3>2
      <4> QED BY <4>1, <2>5
    <3> QED BY <3>1, <3>2
  <2>8. Cardinality(Holes') <= Cardinality(CutRotations')
    <3>1. IsFiniteSet(Holes \ {hole}) BY <2>5, FS_Subset
    <3>2. Cardinality(Holes \ {hole}) \in Nat BY <3>1, FS_CardinalityType
    <3> QED BY <3>2, <2>2, <2>3, <2>5, <2>6, <2>7
  <2>9. \A x \in LogWriters : logWriters'[x].at \notin {"unlink", "rename"}
    BY <1>3, <1>4 DEF Holding, NotEmitting
  <2> QED BY <2>8, <2>9 DEF PlacesCounted
<1> QED BY <1>5, <1>6

\* What no step takes away.
LEMMA NothingIsLost == NothingGoes => OldestGoesFirst
BY DEF NothingGoes, OldestGoesFirst

\* Every step counts the places, and takes events from the last file only.
LEMMA PlacesStep ==
  LogInv /\ PlacesCounted /\ [LogNext]_logVars => PlacesCounted' /\ [OldestGoesFirst]_logVars
<1> SUFFICES ASSUME LogInv, PlacesCounted, [LogNext]_logVars
             PROVE PlacesCounted' /\ [OldestGoesFirst]_logVars
  OBVIOUS
<1>t. LogTypeOK BY DEF LogInv
<1>1. CASE UNCHANGED logVars
  BY <1>1 DEF logVars, PlacesCounted, Holes, CutRotations
<1>2. ASSUME NEW w \in LogWriters, NEW size \in EventSizes, Emit(w, size)
      PROVE PlacesCounted' /\ OldestGoesFirst
  <2>1. /\ logFiles' = logFiles /\ logged' = logged /\ logWriters[w] = NotEmitting
        /\ logWriters'[w].at = "waiting"
        /\ \A x \in LogWriters \ {w} : logWriters'[x] = logWriters[x]
    BY <1>2, <1>t DEF Emit, Becomes, LogTypeOK
  <2>2. CutRotations' = CutRotations BY <2>1 DEF CutRotations
  <2>3. logWriters[w].at # "rename" BY <2>1 DEF NotEmitting
  <2>4. PlacesCounted' BY <2>1, <2>2, <2>3, <1>t, FilesAreThere, PlacesLeftAlone
  <2>5. NothingGoes BY <2>1 DEF NothingGoes, IsKept, Kept, FileOf
  <2> QED BY <2>4, <2>5, NothingIsLost
<1>3. ASSUME NEW w \in LogWriters, TakeLog(w) PROVE PlacesCounted' /\ OldestGoesFirst
  BY <1>3, TakeLogCounted
<1>4. ASSUME NEW w \in LogWriters, UnlinkOldest(w) PROVE PlacesCounted' /\ OldestGoesFirst
  BY <1>4, UnlinkCounted
<1>5. ASSUME NEW w \in LogWriters, RenameNext(w) PROVE PlacesCounted' /\ OldestGoesFirst
  BY <1>5, RenameCounted, RenameSound, NothingIsLost
<1>6. ASSUME NEW w \in LogWriters, OpenActive(w) \/ WritePart(w) \/ WriteFails(w)
      PROVE PlacesCounted' /\ OldestGoesFirst
  BY <1>6, ActiveCounted, OpenSound, WriteSound, FailureSound, NothingIsLost
<1>7. ASSUME NEW w \in LogWriters, KillWriter(w) PROVE PlacesCounted' /\ OldestGoesFirst
  BY <1>7, KillCounted, KillSound, NothingIsLost
<1> QED BY <1>1, <1>2, <1>3, <1>4, <1>5, <1>6, <1>7 DEF LogNext

\* The invariant of the log holds, and the places are counted.
THEOREM LogInvariant == LogSpec => [](LogInv /\ PlacesCounted)
<1>1. LogInit => LogInv BY LogInitSound
<1>2. LogInit => PlacesCounted
  <2> SUFFICES ASSUME LogInit PROVE PlacesCounted OBVIOUS
  <2>1. Holes = {}
    <3>1. MaxFiles \in Nat BY LogAssumption
    <3>2. \A n \in 2..MaxFiles : \A m \in (n + 1)..MaxFiles : m \in 1..MaxFiles BY <3>1
    <3> QED BY <3>2 DEF Holes, LogInit
  <2>2. Cardinality(Holes) <= Cardinality(CutRotations)
    BY <2>1, <1>1, PlacesFinite, FS_EmptySet DEF LogInv
  <2>3. \A w \in LogWriters : logWriters[w].at \notin {"unlink", "rename"}
    BY DEF LogInit, NotEmitting
  <2> QED BY <2>2, <2>3 DEF PlacesCounted
<1>3. LogInv /\ PlacesCounted /\ [LogNext]_logVars => (LogInv /\ PlacesCounted)'
  BY LogStepSound, PlacesStep
<1> QED BY <1>1, <1>2, <1>3, PTL DEF LogSpec

\* For any number of writers, files and events of any sizes: what has returned is a
\* line of its own or glued to a half line until every older part is gone, only half
\* lines stand beside it, and only the last file goes, with no more numbers free than
\* rotations were killed (runtime_logging/files.py:84, :95).
THEOREM NewestStay == LogSpec => NewestAreKept
<1>1. LogInv => LogIsOrdered
  BY WrittenIsLine DEF LogInv, PartsLogged, PartsAnswered, LogIsOrdered
<1>2. LogInv /\ PlacesCounted /\ [LogNext]_logVars => [OldestGoesFirst]_logVars BY PlacesStep
<1> QED BY <1>1, <1>2, LogInvariant, PTL DEF LogSpec, NewestAreKept

-------------------------------------------------------------------------------
(* The histories beside an audit *)

\* Rows that are only appended to.
IsHistory(q) == q \in Seq(ToSet(q))
Extends(q, t) ==
  /\ IsHistory(q) /\ IsHistory(t)
  /\ DOMAIN q \subseteq DOMAIN t /\ \A n \in DOMAIN q : t[n] = q[n]

LEMMA SameInterval ==
  ASSUME NEW k \in Nat, NEW m \in Nat, 1..k = 1..m
  PROVE  k = m
<1>1. k > 0 => k \in 1..k
  OBVIOUS
<1>2. m > 0 => m \in 1..m
  OBVIOUS
<1>3. (k > 0 => k \in 1..m) /\ (m > 0 => m \in 1..k)
  BY <1>1, <1>2, Zenon
<1>4. (k > 0 => k <= m) /\ (m > 0 => m <= k)
  BY <1>3
<1> QED
  BY <1>4

LEMMA HistoryShape ==
  ASSUME NEW q, IsHistory(q)
  PROVE  /\ Len(q) \in Nat /\ DOMAIN q = 1..Len(q)
         /\ \A x \in ToSet(q) : \E n \in DOMAIN q : q[n] = x
         /\ \A n \in DOMAIN q : q[n] \in ToSet(q)
<1>1. Len(q) \in Nat /\ DOMAIN q = 1..Len(q)
  BY LenProperties DEF IsHistory
<1> QED
  BY <1>1 DEF ToSet

\* What comes before is kept by rows that are put after it.
LEMMA Concatenated ==
  ASSUME NEW q, IsHistory(q), NEW t, IsHistory(t)
  PROVE  /\ Extends(q, q \o t)
         /\ DOMAIN (q \o t) = 1..(Len(q) + Len(t)) /\ Len(q \o t) = Len(q) + Len(t)
         /\ \A n \in DOMAIN t : (q \o t)[Len(q) + n] = t[n]
         /\ ToSet(q \o t) = ToSet(q) \cup ToSet(t)
<1> DEFINE S == ToSet(q) \cup ToSet(t)
           u == q \o t
<1>1. q \in Seq(S) /\ t \in Seq(S)
  BY SeqMonotonic DEF IsHistory
<1>2. /\ u \in Seq(S) /\ Len(u) = Len(q) + Len(t)
      /\ \A i \in 1..(Len(q) + Len(t)) : u[i] = IF i <= Len(q) THEN q[i] ELSE t[i - Len(q)]
  BY <1>1, ConcatProperties
<1>3. /\ Len(q) \in Nat /\ DOMAIN q = 1..Len(q) /\ Len(t) \in Nat /\ DOMAIN t = 1..Len(t)
  BY HistoryShape
<1>4. DOMAIN u = 1..(Len(q) + Len(t))
  BY <1>2, LenProperties
<1> HIDE DEF u
<1>5. \A n \in DOMAIN t : u[Len(q) + n] = t[n]
  BY <1>2, <1>3
<1>6. \A n \in DOMAIN q : n \in DOMAIN u /\ u[n] = q[n]
  BY <1>2, <1>3, <1>4
<1>7. \A i \in DOMAIN u : (i \in DOMAIN q /\ u[i] = q[i])
                          \/ (i - Len(q) \in DOMAIN t /\ u[i] = t[i - Len(q)])
  BY <1>2, <1>3, <1>4
<1>8. \A n \in DOMAIN t : Len(q) + n \in DOMAIN u
  BY <1>3, <1>4
<1>9. {u[i] : i \in DOMAIN u} = {q[i] : i \in DOMAIN q} \cup {t[i] : i \in DOMAIN t}
  BY <1>5, <1>6, <1>7, <1>8
<1>10. ToSet(u) = S
  BY <1>9 DEF ToSet
<1>11. IsHistory(u)
  BY <1>2, <1>10 DEF IsHistory
<1> QED
  BY <1>2, <1>4, <1>5, <1>6, <1>10, <1>11 DEF Extends, u

LEMMA RowAppended ==
  ASSUME NEW q, IsHistory(q), NEW x
  PROVE  /\ Extends(q, Append(q, x))
         /\ DOMAIN Append(q, x) = 1..(Len(q) + 1) /\ Len(Append(q, x)) = Len(q) + 1
         /\ Append(q, x)[Len(q) + 1] = x
         /\ ToSet(Append(q, x)) = ToSet(q) \cup {x}
<1> DEFINE S == ToSet(q) \cup {x}
           u == Append(q, x)
<1>1. q \in Seq(S)
  BY SeqMonotonic DEF IsHistory
<1>2. /\ u \in Seq(S) /\ Len(u) = Len(q) + 1
      /\ \A i \in 1..Len(q) : u[i] = q[i]
      /\ u[Len(q) + 1] = x
  BY <1>1, AppendProperties
<1>3. Len(q) \in Nat /\ DOMAIN q = 1..Len(q)
  BY HistoryShape
<1>4. DOMAIN u = 1..(Len(q) + 1)
  BY <1>2, LenProperties
<1>5. {u[i] : i \in DOMAIN u} = {q[i] : i \in DOMAIN q} \cup {x}
  BY <1>2, <1>3, <1>4
<1>6. ToSet(u) = S
  BY <1>5 DEF ToSet
<1>7. IsHistory(u)
  BY <1>2, <1>6 DEF IsHistory
<1>8. \A n \in DOMAIN q : n \in DOMAIN u /\ u[n] = q[n]
  BY <1>2, <1>3, <1>4
<1> QED
  BY <1>2, <1>4, <1>6, <1>7, <1>8 DEF Extends

\* The rows before one of them.
LEMMA RowsBefore ==
  ASSUME NEW q, IsHistory(q), NEW m \in Nat, m <= Len(q)
  PROVE  /\ IsHistory(SubSeq(q, 1, m)) /\ DOMAIN SubSeq(q, 1, m) = 1..m
         /\ \A n \in 1..m : SubSeq(q, 1, m)[n] = q[n]
<1> DEFINE u == SubSeq(q, 1, m)
           S == {q[n] : n \in 1..m}
<1>1. /\ u \in Seq(S)
      /\ Len(u) = IF 1 <= m THEN m - 1 + 1 ELSE 0
      /\ \A i \in 1..(m - 1 + 1) : u[i] = q[1 + i - 1]
  BY SubSeqProperties
<1>2. Len(u) = m /\ \A n \in 1..m : u[n] = q[n]
  BY <1>1
<1>3. DOMAIN u = 1..m
  BY <1>1, <1>2, LenProperties
<1>4. ToSet(u) = S
  BY <1>2, <1>3 DEF ToSet
<1> QED
  BY <1>1, <1>2, <1>3, <1>4 DEF IsHistory

\* They stay as they are, and all rows come before the next one.
LEMMA BeforeStays ==
  ASSUME NEW q, NEW t, Extends(q, t)
  PROVE  /\ \A m \in 0..Len(q) : SubSeq(t, 1, m) = SubSeq(q, 1, m)
         /\ SubSeq(t, 1, Len(q)) = q
         /\ ToSet(q) \subseteq ToSet(t)
<1>1. /\ Len(q) \in Nat /\ DOMAIN q = 1..Len(q) /\ Len(t) \in Nat /\ DOMAIN t = 1..Len(t)
  BY HistoryShape DEF Extends
<1>2. Len(q) <= Len(t)
  <2>1. CASE Len(q) = 0
    BY <2>1, <1>1
  <2>2. CASE Len(q) > 0
    <3>1. Len(q) \in DOMAIN t
      BY <1>1, <2>2 DEF Extends
    <3> QED
      BY <3>1, <1>1
  <2> QED
    BY <2>1, <2>2, <1>1
<1>3. ASSUME NEW u, NEW v, IsHistory(u), IsHistory(v), DOMAIN u = DOMAIN v,
             \A n \in DOMAIN u : u[n] = v[n]
      PROVE  u = v
  <2>1. /\ Len(u) \in Nat /\ DOMAIN u = 1..Len(u) /\ Len(v) \in Nat /\ DOMAIN v = 1..Len(v)
    BY <1>3, HistoryShape
  <2>a. 1..Len(u) = 1..Len(v)
    BY <2>1, <1>3
  <2>2. Len(u) = Len(v)
    BY <2>1, <2>a, SameInterval
  <2>3. ToSet(u) = ToSet(v)
    BY <1>3 DEF ToSet
  <2> QED
    BY <2>1, <2>2, <2>3, <1>3, SeqEqual DEF IsHistory
<1>4. ASSUME NEW m \in 0..Len(q)
      PROVE  SubSeq(t, 1, m) = SubSeq(q, 1, m)
  <2>1. m \in Nat /\ m <= Len(q) /\ m <= Len(t)
    BY <1>1, <1>2
  <2>2. /\ IsHistory(SubSeq(q, 1, m)) /\ DOMAIN SubSeq(q, 1, m) = 1..m
        /\ \A n \in 1..m : SubSeq(q, 1, m)[n] = q[n]
    BY <2>1, RowsBefore DEF Extends
  <2>3. /\ IsHistory(SubSeq(t, 1, m)) /\ DOMAIN SubSeq(t, 1, m) = 1..m
        /\ \A n \in 1..m : SubSeq(t, 1, m)[n] = t[n]
    BY <2>1, RowsBefore DEF Extends
  <2>4. \A n \in 1..m : t[n] = q[n]
    BY <1>1, <2>1 DEF Extends
  <2> QED
    BY <1>3, <2>2, <2>3, <2>4
<1>5. SubSeq(t, 1, Len(q)) = q
  <2>1. /\ IsHistory(SubSeq(t, 1, Len(q))) /\ DOMAIN SubSeq(t, 1, Len(q)) = 1..Len(q)
        /\ \A n \in 1..Len(q) : SubSeq(t, 1, Len(q))[n] = t[n]
    BY <1>1, <1>2, RowsBefore DEF Extends
  <2>2. \A n \in 1..Len(q) : t[n] = q[n]
    BY <1>1 DEF Extends
  <2> QED
    BY <1>3, <1>1, <2>1, <2>2 DEF Extends
<1>6. ToSet(q) \subseteq ToSet(t)
  BY DEF Extends, ToSet
<1> QED
  BY <1>4, <1>5, <1>6

\* The newest of the rows is the one that nothing of its kind follows.
LEMMA NewestStays ==
  ASSUME NEW q, NEW t, Extends(q, t), NEW S, S \subseteq DOMAIN q
  PROVE  NewestOf(t, S) = NewestOf(q, S)
BY DEF NewestOf, Extends

-------------------------------------------------------------------------------
(* Declarations *)

RegistryShape(r) ==
  /\ r = [declarations |-> r.declarations, records |-> r.records,
          summaries |-> r.summaries, complete |-> r.complete, pdfs |-> r.pdfs,
          published |-> r.published, expectations |-> r.expectations]
  /\ r.declarations \subseteq DOMAIN Documents
  /\ IsHistory(r.records) /\ IsHistory(r.pdfs)

\* No two files are of one version of one key.
VersionsDiffer(r) ==
  \A d, e \in r.declarations :
    Documents[d].key = Documents[e].key /\ Documents[d].version = Documents[e].version
      => d = e
\* Who has a PDF has a current one.
SamplesHavePdfs(r) ==
  \A pdf \in ToSet(r.pdfs) : CurrentPdf(r.pdfs, PdfScope(pdf)) # {}

RegistryIsSound(r) ==
  /\ RegistryShape(r)
  /\ RecordsLoad(r) /\ VersionsDiffer(r)
  /\ PdfsLoad(r, Samples(r)) /\ SamplesHavePdfs(r)

\* The rows of a declaration, by position.
LEMMA NewRecords ==
  ASSUME NEW d \in DOMAIN Documents
  PROVE  LET new == [n \in DOMAIN EntriesOf(d) |-> <<d, n>>]
         IN /\ IsHistory(new) /\ Len(new) = Len(EntriesOf(d))
            /\ DOMAIN new = DOMAIN EntriesOf(d) /\ \A n \in DOMAIN new : new[n] = <<d, n>>
            /\ DOMAIN EntriesOf(d) = 1..Len(EntriesOf(d)) /\ Len(EntriesOf(d)) \in Nat
<1> DEFINE new == [n \in DOMAIN EntriesOf(d) |-> <<d, n>>]
           k == Len(EntriesOf(d))
<1>1. k \in Nat /\ DOMAIN EntriesOf(d) = 1..k
  BY DocumentsAssumption, LenProperties DEF EntriesOf
<1> HIDE DEF k
<1>2. new = [n \in 1..k |-> <<d, n>>]
  BY <1>1
<1>3. ToSet(new) = {<<d, n>> : n \in 1..k}
  BY <1>2 DEF ToSet
<1>4. new \in Seq(ToSet(new))
  <2>1. \A n \in 1..k : <<d, n>> \in ToSet(new)
    BY <1>3
  <2>2. [n \in 1..k |-> <<d, n>>] \in [1..k -> ToSet(new)]
    BY <2>1
  <2> QED
    BY <2>2, <1>1, <1>2, SeqDef
<1>5. Len(new) = k
  <2>1. DOMAIN new = 1..Len(new) /\ Len(new) \in Nat
    BY <1>4, LenProperties
  <2>2. 1..Len(new) = 1..k
    BY <2>1, <1>2
  <2> QED
    BY <2>1, <2>2, <1>1, SameInterval
<1> QED
  BY <1>1, <1>2, <1>4, <1>5 DEF IsHistory, k

\* What holds by some summaries holds by more.
LEMMA ReferencesStay ==
  ASSUME NEW d, NEW known, ReferencesHold(d, known), NEW more, known \subseteq more
  PROVE  ReferencesHold(d, more)
BY DEF ReferencesHold

LEMMA ReferencesAreStored ==
  ASSUME NEW d, NEW known, ReferencesHold(d, known),
         NEW more, {x.summary : x \in References(d)} \subseteq more
  PROVE  ReferencesHold(d, more)
<1>1. ASSUME NEW entry \in Acquired(d)
      PROVE  /\ entry.reference # {}
             /\ \A x \in entry.reference : x.summary \in more /\ ReferenceHolds(entry, x)
  <2>1. \A x \in entry.reference : x \in References(d)
    BY <1>1 DEF References
  <2>2. \A x \in entry.reference : x.summary \in more
    BY <2>1
  <2> QED
    BY <2>2, <1>1 DEF ReferencesHold
<1> QED
  BY <1>1 DEF ReferencesHold

\* A file that stands to be declared leaves a history that loads: its references were
\* captured, each entry replaces the current record of its scope, and no two entries
\* are of one scope.
LEMMA DeclaredLoads ==
  ASSUME NEW r, RegistryShape(r), RecordsLoad(r),
         NEW d \in DOMAIN Documents, Parses(d),
         NEW known, ReferencesHold(d, known),
         \A e \in ToSet(EntriesOf(d)) : e.replaces = CurrentRecord(r.records, e.scope)
  PROVE  RecordsLoad(WithDeclaration(r, d))
<1> DEFINE new == [n \in DOMAIN EntriesOf(d) |-> <<d, n>>]
           s == WithDeclaration(r, d)
           q == r.records
           t == r.records \o new
<1>1. /\ IsHistory(new) /\ Len(new) = Len(EntriesOf(d))
      /\ DOMAIN new = DOMAIN EntriesOf(d) /\ \A n \in DOMAIN new : new[n] = <<d, n>>
      /\ DOMAIN EntriesOf(d) = 1..Len(EntriesOf(d)) /\ Len(EntriesOf(d)) \in Nat
  BY NewRecords
<1>2. /\ Extends(q, t)
      /\ DOMAIN t = 1..(Len(q) + Len(new))
      /\ \A n \in DOMAIN new : t[Len(q) + n] = new[n]
      /\ ToSet(t) = ToSet(q) \cup ToSet(new)
  BY <1>1, Concatenated DEF RegistryShape
<1>3. /\ s.declarations = r.declarations \cup {d} /\ s.records = t
      /\ s.summaries = r.summaries \cup {x.summary : x \in References(d)}
  BY DEF WithDeclaration, RegistryShape
<1>q. Len(q) \in Nat /\ DOMAIN q = 1..Len(q)
  BY HistoryShape DEF RegistryShape
<1> HIDE DEF new, s, t
<1>4. \A e \in s.declarations : Parses(e) /\ ReferencesHold(e, s.summaries)
  <2>1. ReferencesHold(d, s.summaries)
    BY <1>3, ReferencesAreStored
  <2>2. \A e \in r.declarations : ReferencesHold(e, s.summaries)
    BY <1>3, ReferencesStay DEF RecordsLoad
  <2> QED
    BY <2>1, <2>2, <1>3 DEF RecordsLoad
<1>5. \A e \in s.declarations : \A n \in DOMAIN EntriesOf(e) : <<e, n>> \in ToSet(s.records)
  <2>1. \A n \in DOMAIN EntriesOf(d) : <<d, n>> \in ToSet(new)
    BY <1>1 DEF ToSet
  <2> QED
    BY <2>1, <1>2, <1>3 DEF RecordsLoad
<1>6. ASSUME NEW n \in DOMAIN q
      PROVE  RecordAccepted(s, n)
  <2>1. t[n] = q[n] /\ n - 1 \in 0..Len(q)
    BY <1>2, <1>q DEF Extends
  <2>2. SubSeq(t, 1, n - 1) = SubSeq(q, 1, n - 1)
    BY <2>1, <1>2, BeforeStays
  <2>3. RecordAccepted(r, n)
    BY DEF RecordsLoad
  <2> QED
    BY <2>1, <2>2, <2>3, <1>3 DEF RecordAccepted
<1>7. ASSUME NEW n \in DOMAIN new
      PROVE  RecordAccepted(s, Len(q) + n)
  <2> DEFINE m == Len(q) + n
             u == SubSeq(t, 1, m - 1)
             entry == EntriesOf(d)[n]
  <2>1. n \in 1..Len(new) /\ t[m] = <<d, n>> /\ n \in DOMAIN EntriesOf(d)
    BY <1>1, <1>2
  <2>2. ScopeOf(<<d, n>>) = entry.scope /\ Entry(<<d, n>>) = entry
    BY DEF ScopeOf, Entry
  <2>3. m - 1 \in Nat /\ m - 1 <= Len(t) /\ Len(q) <= m - 1
    <3>1. Len(t) = Len(q) + Len(new)
      BY <1>1, Concatenated DEF t, RegistryShape
    <3> QED
      BY <3>1, <2>1, <1>1, <1>q
  <2>4. /\ IsHistory(u) /\ DOMAIN u = 1..(m - 1)
        /\ \A i \in 1..(m - 1) : u[i] = t[i]
    BY <2>3, <1>2, RowsBefore DEF Extends
  <2>5. Extends(q, u)
    BY <2>3, <2>4, <1>2, <1>q DEF Extends
  <2>i. IsHistory(u) /\ DOMAIN u = 1..(m - 1) /\ \A i \in 1..(m - 1) : u[i] = t[i]
    BY <2>4
  <2> HIDE DEF u
  <2>6. ASSUME NEW i \in DOMAIN u, ScopeOf(u[i]) = entry.scope
        PROVE  i \in DOMAIN q
    <3>1. CASE i <= Len(q)
      BY <3>1, <2>i, <2>6, <1>q, <2>3
    <3>2. CASE i > Len(q)
      <4> DEFINE j == i - Len(q)
      <4>a. i \in 1..(Len(q) + n - 1)
        BY <2>i, <2>6, <1>q, <2>1, <1>1
      <4>1. j \in 1..(n - 1) /\ i = Len(q) + j
        BY <4>a, <3>2, <1>q, <2>1, <1>1
      <4>2. j \in DOMAIN new
        BY <4>1, <1>1, <2>1
      <4>3. u[i] = <<d, j>>
        <5>1. u[i] = t[i] /\ t[Len(q) + j] = new[j] /\ new[j] = <<d, j>>
          BY <2>i, <2>6, <4>2, <1>1, <1>2
        <5> QED
          BY <5>1, <4>1
      <4>4. EntriesOf(d)[j].scope = entry.scope
        <5>1. ScopeOf(<<d, j>>) = EntriesOf(d)[j].scope
          BY DEF ScopeOf, Entry
        <5> QED
          BY <5>1, <4>3, <2>6
      <4>5. j = n
        BY <4>4, <4>2, <1>1 DEF Parses
      <4> QED
        BY <4>5, <4>1, <2>1
    <3> QED
      BY <3>1, <3>2, <2>i, <2>6, <1>q, <2>3
  <2>7. OfScope(u, entry.scope) = OfScope(q, entry.scope)
    BY <2>5, <2>6 DEF OfScope, Extends
  <2>8. CurrentRecord(u, entry.scope) = CurrentRecord(q, entry.scope)
    <3>1. OfScope(q, entry.scope) \subseteq DOMAIN q
      BY DEF OfScope
    <3> QED
      BY <3>1, <2>5, <2>7, NewestStays DEF CurrentRecord
  <2>9. entry \in ToSet(EntriesOf(d))
    BY <2>1 DEF ToSet
  <2>10. entry.replaces = CurrentRecord(u, entry.scope)
    BY <2>8, <2>9
  <2>11. /\ s.records[m] = <<d, n>> /\ d \in s.declarations
         /\ SubSeq(s.records, 1, m - 1) = u
    BY <2>1, <1>3 DEF u
  <2>12. /\ Entry(s.records[m]) = entry /\ ScopeOf(s.records[m]) = entry.scope
         /\ s.records[m][1] = d /\ s.records[m][2] = n
    BY <2>2, <2>11
  <2> HIDE DEF m, entry
  <2>13. RecordAccepted(s, m)
    BY <2>1, <2>10, <2>11, <2>12 DEF RecordAccepted
  <2> QED
    BY <2>13 DEF m
<1>8. \A n \in DOMAIN t : n \in DOMAIN q \/ n - Len(q) \in DOMAIN new
  BY <1>1, <1>2, <1>q
<1>9. ASSUME NEW n \in DOMAIN s.records
      PROVE  RecordAccepted(s, n)
  <2>1. CASE n \in DOMAIN q
    BY <2>1, <1>6
  <2>2. CASE n - Len(q) \in DOMAIN new
    <3>1. n = Len(q) + (n - Len(q))
      BY <1>q, <1>2, <1>3
    <3> QED
      BY <3>1, <2>2, <1>7
  <2> QED
    BY <2>1, <2>2, <1>8, <1>3
<1>10. RecordsLoad(s)
  BY <1>4, <1>5, <1>9 DEF RecordsLoad
<1> QED
  BY <1>10 DEF s

\* More samples, and more files published, do no harm to the PDFs that are there.
LEMMA PdfsStay ==
  ASSUME NEW r, NEW known, PdfsLoad(r, known), NEW s, NEW more, known \subseteq more,
         s.pdfs = r.pdfs, s.expectations = r.expectations, r.published \subseteq s.published
  PROVE  PdfsLoad(s, more)
BY DEF PdfsLoad, MayHavePdf

LEMMA DeclaredIsSound ==
  ASSUME NEW r, RegistryIsSound(r),
         NEW d \in DOMAIN Documents, Parses(d), SameVersion(r, d) = {},
         NEW known, ReferencesHold(d, known),
         \A e \in ToSet(EntriesOf(d)) : e.replaces = CurrentRecord(r.records, e.scope)
  PROVE  /\ RegistryIsSound(WithDeclaration(r, d))
         /\ Samples(r) \subseteq Samples(WithDeclaration(r, d))
<1> DEFINE new == [n \in DOMAIN EntriesOf(d) |-> <<d, n>>]
           s == WithDeclaration(r, d)
<1>1. IsHistory(new)
  BY NewRecords
<1>2. Extends(r.records, r.records \o new)
  BY <1>1, Concatenated DEF RegistryIsSound, RegistryShape
<1>s. s = [r EXCEPT !.declarations = @ \cup {d}, !.records = @ \o new,
                    !.summaries = @ \cup {x.summary : x \in References(d)}]
  BY DEF WithDeclaration
<1>4. RecordsLoad(s)
  BY DeclaredLoads DEF RegistryIsSound
<1> HIDE DEF s, new
<1>3. /\ s.declarations = r.declarations \cup {d} /\ s.records = r.records \o new
      /\ s.pdfs = r.pdfs /\ s.expectations = r.expectations /\ s.published = r.published
      /\ s = [declarations |-> s.declarations, records |-> s.records,
              summaries |-> s.summaries, complete |-> s.complete, pdfs |-> s.pdfs,
              published |-> s.published, expectations |-> s.expectations]
  BY <1>s DEF RegistryShape, RegistryIsSound
<1>5. RegistryShape(s)
  BY <1>2, <1>3 DEF RegistryShape, RegistryIsSound, Extends
<1>6. VersionsDiffer(s)
  BY <1>3 DEF VersionsDiffer, SameVersion, RegistryIsSound
<1>7. Samples(r) \subseteq Samples(s)
  BY <1>2, <1>3, BeforeStays DEF Samples
<1>8. PdfsLoad(s, Samples(s))
  BY <1>3, <1>7, PdfsStay DEF RegistryIsSound
<1>9. SamplesHavePdfs(s)
  BY <1>3 DEF SamplesHavePdfs, RegistryIsSound
<1> QED
  BY <1>4, <1>5, <1>6, <1>7, <1>8, <1>9 DEF RegistryIsSound, s

\* A PDF that replaces the current one of its sample is the current one then, and those
\* of the other samples stay.
LEMMA GivenPdfIsSound ==
  ASSUME NEW r, RegistryIsSound(r),
         NEW pdf, MayHavePdf(Samples(r), pdf.request.sample), pdf.bytes \in r.published,
         ReplacesCurrent(r, pdf.request)
  PROVE  RegistryIsSound([r EXCEPT !.pdfs = Append(@, pdf)])
<1> DEFINE q == r.pdfs
           t == Append(q, pdf)
           s == [r EXCEPT !.pdfs = Append(@, pdf)]
<1>1. /\ Extends(q, t) /\ DOMAIN t = 1..(Len(q) + 1) /\ t[Len(q) + 1] = pdf
      /\ ToSet(t) = ToSet(q) \cup {pdf}
  BY RowAppended DEF RegistryIsSound, RegistryShape
<1>2. Len(q) \in Nat /\ DOMAIN q = 1..Len(q)
  BY HistoryShape DEF RegistryIsSound, RegistryShape
<1>3. /\ s.declarations = r.declarations /\ s.records = r.records
      /\ s.summaries = r.summaries /\ s.pdfs = t
      /\ s.expectations = r.expectations /\ s.published = r.published
      /\ s = [declarations |-> s.declarations, records |-> s.records,
              summaries |-> s.summaries, complete |-> s.complete, pdfs |-> s.pdfs,
              published |-> s.published, expectations |-> s.expectations]
  BY DEF RegistryShape, RegistryIsSound
<1> HIDE DEF t, s
<1>4. RegistryShape(s) /\ VersionsDiffer(s)
  BY <1>1, <1>3 DEF RegistryShape, RegistryIsSound, Extends, VersionsDiffer
<1>5. RecordsLoad(s) /\ Samples(s) = Samples(r)
  BY <1>3 DEF RecordsLoad, RecordAccepted, RegistryIsSound, Samples
<1>6. ASSUME NEW n \in DOMAIN t
      PROVE  /\ MayHavePdf(Samples(s), t[n].request.sample)
             /\ t[n].request.replaces = CurrentPdf(SubSeq(t, 1, n - 1), PdfScope(t[n]))
             /\ t[n].bytes \in s.published
  <2>1. CASE n \in DOMAIN q
    <3>1. /\ t[n] = q[n] /\ n - 1 \in 0..Len(q)
      BY <2>1, <1>1, <1>2 DEF Extends
    <3>2. SubSeq(t, 1, n - 1) = SubSeq(q, 1, n - 1)
      BY <3>1, <1>1, BeforeStays
    <3> QED
      BY <3>1, <3>2, <2>1, <1>3, <1>5 DEF RegistryIsSound, PdfsLoad
  <2>2. CASE n = Len(q) + 1
    <3>1. n - 1 = Len(q) /\ t[n] = pdf
      BY <2>2, <1>1, <1>2
    <3>2. SubSeq(t, 1, n - 1) = q
      BY <3>1, <1>1, BeforeStays
    <3> QED
      BY <3>1, <3>2, <1>3, <1>5 DEF ReplacesCurrent, PdfScope
  <2> QED
    BY <2>1, <2>2, <1>1, <1>2
<1>7. PdfsLoad(s, Samples(s))
  <2>1. \A b \in s.expectations :
          /\ b.pdf \in ToSet(s.pdfs) /\ b.bytes = b.pdf.bytes
          /\ \A other \in s.expectations \ {b} :
               other.pdf = b.pdf => other.key # b.key /\ other.backend # b.backend
    BY <1>1, <1>3 DEF RegistryIsSound, PdfsLoad
  <2> QED
    BY <2>1, <1>3, <1>6 DEF PdfsLoad
<1>8. ASSUME NEW other \in ToSet(t)
      PROVE  CurrentPdf(t, PdfScope(other)) # {}
  <2>1. CASE PdfScope(other) = PdfScope(pdf)
    <3>1. Len(q) + 1 \in OfSample(t, PdfScope(other))
      BY <2>1, <1>1, <1>2 DEF OfSample
    <3>2. \A m \in OfSample(t, PdfScope(other)) : m <= Len(q) + 1
      BY <1>1, <1>2 DEF OfSample
    <3>3. t[Len(q) + 1] \in CurrentPdf(t, PdfScope(other))
      BY <3>1, <3>2 DEF CurrentPdf, NewestOf
    <3> QED
      BY <3>3
  <2>2. CASE PdfScope(other) # PdfScope(pdf)
    <3>1. other \in ToSet(q)
      BY <2>2, <1>1
    <3>2. OfSample(t, PdfScope(other)) = OfSample(q, PdfScope(other))
      <4>1. ASSUME NEW n \in DOMAIN t, PdfScope(t[n]) = PdfScope(other)
            PROVE  n \in DOMAIN q
        BY <4>1, <2>2, <1>1, <1>2
      <4> QED
        BY <4>1, <1>1 DEF OfSample, Extends
    <3>3. OfSample(q, PdfScope(other)) \subseteq DOMAIN q
      BY DEF OfSample
    <3>4. CurrentPdf(t, PdfScope(other)) = CurrentPdf(q, PdfScope(other))
      BY <3>2, <3>3, <1>1, NewestStays DEF CurrentPdf
    <3> QED
      BY <3>1, <3>4 DEF RegistryIsSound, SamplesHavePdfs
  <2> QED
    BY <2>1, <2>2
<1>9. RegistryIsSound(s)
  BY <1>3, <1>4, <1>5, <1>7, <1>8 DEF RegistryIsSound, SamplesHavePdfs
<1> QED
  BY <1>9 DEF s

LEMMA ExpectedIsSound ==
  ASSUME NEW r, RegistryIsSound(r), NEW b, NEW known,
         BackendAnswer(r, b, known) = "registered"
  PROVE  RegistryIsSound([r EXCEPT !.expectations = @ \cup {b}])
<1> DEFINE s == [r EXCEPT !.expectations = @ \cup {b}]
<1>1. /\ b.pdf \in ToSet(r.pdfs) /\ b.bytes = b.pdf.bytes
      /\ \A e \in r.expectations : e.pdf = b.pdf => e.key # b.key /\ e.backend # b.backend
  BY DEF BackendAnswer
<1>2. /\ s.declarations = r.declarations /\ s.records = r.records
      /\ s.summaries = r.summaries /\ s.pdfs = r.pdfs
      /\ s.expectations = r.expectations \cup {b} /\ s.published = r.published
      /\ s = [declarations |-> s.declarations, records |-> s.records,
              summaries |-> s.summaries, complete |-> s.complete, pdfs |-> s.pdfs,
              published |-> s.published, expectations |-> s.expectations]
  BY DEF RegistryShape, RegistryIsSound
<1> HIDE DEF s
<1>3. RegistryShape(s) /\ VersionsDiffer(s) /\ SamplesHavePdfs(s)
  BY <1>2 DEF RegistryShape, RegistryIsSound, VersionsDiffer, SamplesHavePdfs
<1>4. RecordsLoad(s) /\ Samples(s) = Samples(r)
  BY <1>2 DEF RecordsLoad, RecordAccepted, RegistryIsSound, Samples
<1>5. PdfsLoad(r, Samples(r))
  BY DEF RegistryIsSound
<1>6. \A e \in s.expectations :
        /\ e.pdf \in ToSet(s.pdfs) /\ e.bytes = e.pdf.bytes
        /\ \A other \in s.expectations \ {e} :
             other.pdf = e.pdf => other.key # e.key /\ other.backend # e.backend
  BY <1>1, <1>2, <1>5 DEF PdfsLoad
<1>7. PdfsLoad(s, Samples(s))
  BY <1>2, <1>4, <1>5, <1>6 DEF PdfsLoad
<1>8. RegistryIsSound(s)
  BY <1>3, <1>4, <1>7 DEF RegistryIsSound
<1> QED
  BY <1>8 DEF s

\* The PDFs do not load just when one is of a sample that the reader does not know.
LEMMA UnknownSample ==
  ASSUME NEW r, RegistryIsSound(r), NEW known, ~PdfsLoad(r, known)
  PROVE  \E pdf \in ToSet(r.pdfs) : pdf.request.sample \notin known
<1>1. SUFFICES ASSUME \A pdf \in ToSet(r.pdfs) : pdf.request.sample \in known
               PROVE  PdfsLoad(r, known)
  OBVIOUS
<1>2. PdfsLoad(r, Samples(r))
  BY DEF RegistryIsSound
<1>3. \A n \in DOMAIN r.pdfs : MayHavePdf(known, r.pdfs[n].request.sample)
  BY <1>1, <1>2 DEF PdfsLoad, MayHavePdf, ToSet
<1> QED
  BY <1>2, <1>3 DEF PdfsLoad

LEMMA SoundIsChecked ==
  ASSUME NEW r, RegistryIsSound(r)
  PROVE  /\ \A d \in r.declarations : DeclarationCheck(r, d) = "byte_verified"
         /\ \A pdf \in ToSet(r.pdfs) : PdfCheck(r, pdf.request.sample) = "byte_verified"
<1>1. ASSUME NEW d \in r.declarations
      PROVE  DeclarationCheck(r, d) = "byte_verified"
  <2>1. SameVersion(r, d) = {d}
    BY DEF SameVersion, RegistryIsSound, VersionsDiffer
  <2> QED
    BY <2>1 DEF DeclarationCheck
<1>2. ASSUME NEW pdf \in ToSet(r.pdfs)
      PROVE  PdfCheck(r, pdf.request.sample) = "byte_verified"
  <2>1. MayHavePdf(Samples(r), pdf.request.sample)
    BY DEF RegistryIsSound, PdfsLoad, ToSet
  <2>2. CurrentPdf(r.pdfs, ScopeOf(pdf.request.sample)) # {}
    BY DEF RegistryIsSound, SamplesHavePdfs, PdfScope
  <2> QED
    BY <2>1, <2>2 DEF PdfCheck, MayHavePdf
<1> QED
  BY <1>1, <1>2

-------------------------------------------------------------------------------
(* Interpretations *)

\* What a parser makes of the rows of an audit, by an archive.
ReadsIn(w, p, n, parser) ==
  IF w.rows[p][n].content = {} THEN {Baseline(w.rows[p][n])}
  ELSE UNION {parser.reads[x] : x \in w.rows[p][n].content}
One(S) == CHOOSE x \in S : TRUE
ItemIn(w, p, n, parser, previous) ==
  RowProjection(w.rows[p][n], n, PreviousFields(w, p, previous, n), One(ReadsIn(w, p, n, parser)))
RowsIn(w, p, basis, parser, previous) ==
  [f \in Places |-> ItemIn(w, p, basis[f], parser, previous)]
\* An interpretation is the work of a parser on a row of every place.
MadeBy(w, p, value, parser, basis) ==
  /\ parser \in MaterialParsers /\ parser.version \notin PublishedParsers
  /\ value.declared = DeclarationOf(parser)
  /\ basis = [f \in Places |-> basis[f]]
  /\ \A f \in Places :
       /\ basis[f] \in DOMAIN w.rows[p] /\ w.rows[p][basis[f]].place = f
       /\ ReadsIn(w, p, basis[f], parser) # {}
  /\ value.rows = RowsIn(w, p, basis, parser, value.previous)
  /\ value = [key |-> value.key, declared |-> value.declared, previous |-> value.previous,
              rows |-> value.rows]
Made(w, p, value) == \E parser, basis : MadeBy(w, p, value, parser, basis)

InterpretedShape(w) ==
  /\ w = [rows |-> w.rows, open |-> w.open, parsers |-> w.parsers, given |-> w.given]
  /\ w.rows = [p \in Plans |-> w.rows[p]] /\ w.given = [p \in Plans |-> w.given[p]]
  /\ \A p \in Plans : IsHistory(w.rows[p]) /\ IsHistory(w.given[p])
\* Every one of them is made on what precedes it, and by a key of its own.
GivenIsSound(w) ==
  \A p \in Plans :
    /\ \A k \in DOMAIN w.given[p] :
         /\ w.given[p][k].previous = k - 1 /\ w.given[p][k].declared \in w.parsers
         /\ Made(w, p, w.given[p][k])
    /\ \A k, l \in DOMAIN w.given[p] : w.given[p][k].key = w.given[p][l].key => k = l
InterpretedIsSound(w) ==
  /\ InterpretedShape(w) /\ GivenIsSound(w)
  /\ w.parsers = {v.declared : v \in UNION {ToSet(w.given[p]) : p \in Plans}}

\* An archive that has grown.
GrowsTo(w, v) ==
  \A p \in Plans : Extends(w.rows[p], v.rows[p]) /\ Extends(w.given[p], v.given[p])

LEMMA MadeStands ==
  ASSUME NEW w, NEW v, GrowsTo(w, v), NEW p \in Plans, NEW value,
         value.previous \in 0..Len(w.given[p]), NEW parser, NEW basis,
         MadeBy(w, p, value, parser, basis)
  PROVE  MadeBy(v, p, value, parser, basis)
<1>1. \A f \in Places :
        /\ basis[f] \in DOMAIN w.rows[p] /\ basis[f] \in DOMAIN v.rows[p]
        /\ v.rows[p][basis[f]] = w.rows[p][basis[f]]
  BY DEF GrowsTo, Extends, MadeBy
<1>2. value.previous # 0 => v.given[p][value.previous] = w.given[p][value.previous]
  <2>1. DOMAIN w.given[p] = 1..Len(w.given[p]) /\ Len(w.given[p]) \in Nat
    BY HistoryShape DEF GrowsTo, Extends
  <2>2. value.previous # 0 => value.previous \in DOMAIN w.given[p]
    BY <2>1
  <2> QED
    BY <2>2 DEF GrowsTo, Extends
<1>3. ASSUME NEW f \in Places
      PROVE  /\ ReadsIn(v, p, basis[f], parser) = ReadsIn(w, p, basis[f], parser)
             /\ ItemIn(v, p, basis[f], parser, value.previous)
                  = ItemIn(w, p, basis[f], parser, value.previous)
  <2>1. /\ ReadsIn(v, p, basis[f], parser) = ReadsIn(w, p, basis[f], parser)
        /\ PreviousFields(v, p, value.previous, basis[f])
             = PreviousFields(w, p, value.previous, basis[f])
    BY <1>1, <1>2 DEF ReadsIn, PreviousFields
  <2> QED
    BY <2>1, <1>1 DEF ItemIn
<1>4. RowsIn(v, p, basis, parser, value.previous) = RowsIn(w, p, basis, parser, value.previous)
  BY <1>3 DEF RowsIn
<1> QED
  BY <1>1, <1>3, <1>4 DEF MadeBy

\* What is made is accepted by an archive that has the rows it is made on, and keeps what
\* precedes it.
LEMMA MadeIsAccepted ==
  ASSUME NEW w, NEW p \in Plans, NEW k \in Nat \ {0}, NEW parser, NEW basis,
         w.given[p][k].previous = k - 1, w.given[p][k].declared \in w.parsers,
         MadeBy(w, p, w.given[p][k], parser, basis)
  PROVE  InterpretationAccepted(w, p, k)
<1> DEFINE value == w.given[p][k]
<1>1. ASSUME NEW f \in Places
      PROVE  LET item == value.rows[f]
                 row == w.rows[p][item.base]
             IN /\ item.base \in DOMAIN w.rows[p] /\ row.place = f
                /\ item = RowProjection(row, item.base,
                                        PreviousFields(w, p, k - 1, item.base), item.fields)
                /\ row.content = {} => item.fields = Baseline(row)
  <2> DEFINE n == basis[f]
             fields == One(ReadsIn(w, p, n, parser))
             row == w.rows[p][n]
  <2>1. value.rows[f] = RowProjection(row, n, PreviousFields(w, p, k - 1, n), fields)
    BY DEF MadeBy, RowsIn, ItemIn
  <2>2. value.rows[f].base = n /\ value.rows[f].fields = fields
    BY <2>1 DEF RowProjection
  <2>3. n \in DOMAIN w.rows[p] /\ row.place = f /\ ReadsIn(w, p, n, parser) # {}
    BY DEF MadeBy
  <2>4. row.content = {} => fields = Baseline(row)
    <3>1. fields \in ReadsIn(w, p, n, parser)
      BY <2>3 DEF One
    <3> HIDE DEF fields
    <3> QED
      BY <3>1 DEF ReadsIn
  <2> HIDE DEF n, fields
  <2> QED
    BY <2>1, <2>2, <2>3, <2>4
<1> QED
  BY <1>1 DEF InterpretationAccepted

LEMMA SoundLoads ==
  ASSUME NEW w, InterpretedIsSound(w)
  PROVE  InterpretationsLoad(w)
<1>1. ASSUME NEW p \in Plans, NEW k \in DOMAIN w.given[p]
      PROVE  InterpretationAccepted(w, p, k)
  <2>1. k \in Nat \ {0}
    BY HistoryShape DEF InterpretedIsSound, InterpretedShape
  <2>2. PICK parser, basis : MadeBy(w, p, w.given[p][k], parser, basis)
    BY DEF InterpretedIsSound, GivenIsSound, Made
  <2> QED
    BY <2>1, <2>2, MadeIsAccepted DEF InterpretedIsSound, GivenIsSound
<1> QED
  BY <1>1 DEF InterpretationsLoad, InterpretedIsSound

\* The archive with a row, and with an interpretation, put to what it has of an audit.
WithRow(w, p, row, open) == [w EXCEPT !.open = open, !.rows[p] = Append(@, row)]
WithGiven(w, p, value) ==
  [w EXCEPT !.parsers = @ \cup {value.declared}, !.given[p] = Append(@, value)]

LEMMA RowIsSound ==
  ASSUME NEW w, InterpretedIsSound(w), NEW p \in Plans, NEW row, NEW open
  PROVE  /\ InterpretedIsSound(WithRow(w, p, row, open))
         /\ GrowsTo(w, WithRow(w, p, row, open))
         /\ WithRow(w, p, row, open).given = w.given
<1> DEFINE v == WithRow(w, p, row, open)
           t == Append(w.rows[p], row)
<1>a. v = [w EXCEPT !.open = open, !.rows = [w.rows EXCEPT ![p] = t]]
  BY DEF WithRow
<1> HIDE DEF v, t
<1>1. /\ v.rows = [w.rows EXCEPT ![p] = t]
      /\ v.given = w.given /\ v.parsers = w.parsers
      /\ v = [rows |-> v.rows, open |-> v.open, parsers |-> v.parsers, given |-> v.given]
  BY <1>a DEF InterpretedIsSound, InterpretedShape
<1>2. Extends(w.rows[p], t)
  BY RowAppended DEF InterpretedIsSound, InterpretedShape, t
<1>3. \A q \in Plans : v.rows[q] = IF q = p THEN t ELSE w.rows[q]
  BY <1>1 DEF InterpretedIsSound, InterpretedShape
<1>4. InterpretedShape(v)
  <2>1. v.rows = [q \in Plans |-> v.rows[q]]
    BY <1>1 DEF InterpretedIsSound, InterpretedShape
  <2> QED
    BY <2>1, <1>1, <1>2, <1>3 DEF InterpretedIsSound, InterpretedShape, Extends
<1>5. GrowsTo(w, v)
  <2>1. \A q : IsHistory(q) => Extends(q, q)
    BY DEF Extends
  <2> QED
    BY <2>1, <1>1, <1>2, <1>3 DEF GrowsTo, InterpretedIsSound, InterpretedShape
<1>6. ASSUME NEW q \in Plans, NEW k \in DOMAIN w.given[q]
      PROVE  Made(v, q, w.given[q][k])
  <2>1. k \in 1..Len(w.given[q]) /\ Len(w.given[q]) \in Nat
    BY HistoryShape DEF InterpretedIsSound, InterpretedShape
  <2>2. w.given[q][k].previous \in 0..Len(w.given[q])
    BY <2>1 DEF InterpretedIsSound, GivenIsSound
  <2>3. PICK parser, basis : MadeBy(w, q, w.given[q][k], parser, basis)
    BY DEF InterpretedIsSound, GivenIsSound, Made
  <2> QED
    BY <2>2, <2>3, <1>5, MadeStands DEF Made
<1>7. GivenIsSound(v)
  BY <1>1, <1>6 DEF GivenIsSound, InterpretedIsSound
<1>8. InterpretedIsSound(v)
  BY <1>1, <1>4, <1>7 DEF InterpretedIsSound
<1> QED
  BY <1>1, <1>5, <1>8 DEF v

\* The archive after an interpretation is appended, that was made on what it has.
LEMMA InterpretationIsSound ==
  ASSUME NEW w, InterpretedIsSound(w), NEW p \in Plans, NEW value,
         Made(w, p, value), value.previous = Len(w.given[p]),
         \A k \in DOMAIN w.given[p] : w.given[p][k].key # value.key
  PROVE  /\ InterpretedIsSound(WithGiven(w, p, value)) /\ GrowsTo(w, WithGiven(w, p, value))
         /\ \A q \in Plans \ {p} : WithGiven(w, p, value).given[q] = w.given[q]
<1> DEFINE v == WithGiven(w, p, value)
           t == Append(w.given[p], value)
           k == Len(w.given[p]) + 1
<1>1. v = [w EXCEPT !.parsers = w.parsers \cup {value.declared},
                    !.given = [w.given EXCEPT ![p] = t]]
  BY DEF WithGiven
<1>2. /\ Extends(w.given[p], t) /\ DOMAIN t = 1..k /\ t[k] = value
      /\ ToSet(t) = ToSet(w.given[p]) \cup {value}
  BY RowAppended DEF InterpretedIsSound, InterpretedShape
<1>3. /\ Len(w.given[p]) \in Nat /\ DOMAIN w.given[p] = 1..Len(w.given[p])
  BY HistoryShape DEF InterpretedIsSound, InterpretedShape
<1> HIDE DEF v, t
<1>4. /\ v.given = [w.given EXCEPT ![p] = t] /\ v.rows = w.rows
      /\ v.parsers = w.parsers \cup {value.declared}
      /\ v = [rows |-> v.rows, open |-> v.open, parsers |-> v.parsers, given |-> v.given]
  BY <1>1 DEF InterpretedIsSound, InterpretedShape
<1>5. \A q \in Plans : v.given[q] = IF q = p THEN t ELSE w.given[q]
  BY <1>4 DEF InterpretedIsSound, InterpretedShape
<1>6. InterpretedShape(v)
  <2>1. v.given = [q \in Plans |-> v.given[q]]
    BY <1>4 DEF InterpretedIsSound, InterpretedShape
  <2> QED
    BY <2>1, <1>2, <1>4, <1>5 DEF InterpretedIsSound, InterpretedShape, Extends
<1>7. GrowsTo(w, v)
  <2>1. \A q : IsHistory(q) => Extends(q, q)
    BY DEF Extends
  <2> QED
    BY <2>1, <1>2, <1>4, <1>5 DEF GrowsTo, InterpretedIsSound, InterpretedShape
<1>8. ASSUME NEW q \in Plans, NEW n \in DOMAIN w.given[q]
      PROVE  Made(v, q, w.given[q][n])
  <2>1. n \in 1..Len(w.given[q]) /\ Len(w.given[q]) \in Nat
    BY HistoryShape DEF InterpretedIsSound, InterpretedShape
  <2>2. w.given[q][n].previous \in 0..Len(w.given[q])
    BY <2>1 DEF InterpretedIsSound, GivenIsSound
  <2>3. PICK parser, basis : MadeBy(w, q, w.given[q][n], parser, basis)
    BY DEF InterpretedIsSound, GivenIsSound, Made
  <2> QED
    BY <2>2, <2>3, <1>7, MadeStands DEF Made
<1>9. Made(v, p, value)
  <2>1. PICK parser, basis : MadeBy(w, p, value, parser, basis)
    BY DEF Made
  <2>2. value.previous \in 0..Len(w.given[p])
    BY <1>3
  <2> QED
    BY <2>1, <2>2, <1>7, MadeStands DEF Made
<1>10. ASSUME NEW q \in Plans
       PROVE  /\ \A n \in DOMAIN v.given[q] :
                   /\ v.given[q][n].previous = n - 1 /\ v.given[q][n].declared \in v.parsers
                   /\ Made(v, q, v.given[q][n])
              /\ \A n, m \in DOMAIN v.given[q] :
                   v.given[q][n].key = v.given[q][m].key => n = m
  <2>1. CASE q # p
    BY <2>1, <1>4, <1>5, <1>8 DEF InterpretedIsSound, GivenIsSound
  <2>2. CASE q = p
    <3>1. \A n \in DOMAIN t :
            \/ n \in DOMAIN w.given[p] /\ t[n] = w.given[p][n]
            \/ n = k /\ t[n] = value
      BY <1>2, <1>3 DEF Extends
    <3>2. k - 1 = value.previous
      BY <1>3
    <3> HIDE DEF k
    <3>3. \A n \in DOMAIN t :
            /\ t[n].previous = n - 1 /\ t[n].declared \in v.parsers
            /\ Made(v, p, t[n])
      BY <3>1, <3>2, <1>4, <1>8, <1>9 DEF InterpretedIsSound, GivenIsSound
    <3>4. \A n, m \in DOMAIN t : t[n].key = t[m].key => n = m
      BY <3>1 DEF InterpretedIsSound, GivenIsSound
    <3> QED
      BY <3>3, <3>4, <2>2, <1>5
  <2> QED
    BY <2>1, <2>2
<1>11. GivenIsSound(v)
  BY <1>10 DEF GivenIsSound
<1>12. v.parsers = {x.declared : x \in UNION {ToSet(v.given[q]) : q \in Plans}}
  <2> DEFINE old == UNION {ToSet(w.given[q]) : q \in Plans}
             new == UNION {ToSet(v.given[q]) : q \in Plans}
  <2>1. \A q \in Plans : ToSet(v.given[q]) = IF q = p THEN ToSet(w.given[p]) \cup {value}
                                            ELSE ToSet(w.given[q])
    BY <1>2, <1>5
  <2>2. new = old \cup {value}
    BY <2>1
  <2>3. w.parsers = {x.declared : x \in old}
    BY DEF InterpretedIsSound
  <2> HIDE DEF old, new
  <2>4. {x.declared : x \in new} = {x.declared : x \in old} \cup {value.declared}
    BY <2>2
  <2>5. v.parsers = {x.declared : x \in new}
    BY <2>3, <2>4, <1>4
  <2> QED
    BY <2>5 DEF new
<1>13. InterpretedIsSound(v)
  BY <1>6, <1>11, <1>12 DEF InterpretedIsSound
<1> QED
  BY <1>5, <1>7, <1>13 DEF v

\* An interpretation is reached again by who made it: by replay, and by its request.
LEMMA ReachedAgain ==
  ASSUME InterpretedIsSound(interpreted), NEW p \in Plans, NEW k \in DOMAIN Given(p)
  PROVE  \E parser \in MaterialParsers :
           /\ ReplayInterpretation(p, k, parser) = "verified"
           /\ NewInterpretation(p, parser, Given(p)[k].key) = Given(p)[k]
<1> DEFINE value == Given(p)[k]
<1>1. PICK parser, basis : MadeBy(interpreted, p, value, parser, basis)
  BY DEF InterpretedIsSound, GivenIsSound, Made, Given
<1>2. \A n : Reads(p, n, parser) = ReadsIn(interpreted, p, n, parser)
  BY DEF Reads, ReadsIn, RowsFor
<1>3. RowsOf(p, basis, parser, value.previous) = value.rows
  <2>1. \A f \in Places : One(Reads(p, basis[f], parser))
                          = One(ReadsIn(interpreted, p, basis[f], parser))
    BY <1>2
  <2>2. RowsOf(p, basis, parser, value.previous)
          = [f \in Places |->
               RowProjection(RowsFor(p)[basis[f]], basis[f],
                             PreviousFields(interpreted, p, value.previous, basis[f]),
                             One(Reads(p, basis[f], parser)))]
    BY DEF RowsOf, One
  <2>3. RowsIn(interpreted, p, basis, parser, value.previous)
          = [f \in Places |->
               RowProjection(RowsFor(p)[basis[f]], basis[f],
                             PreviousFields(interpreted, p, value.previous, basis[f]),
                             One(ReadsIn(interpreted, p, basis[f], parser)))]
    BY DEF RowsIn, ItemIn, RowsFor
  <2>4. RowsOf(p, basis, parser, value.previous)
          = RowsIn(interpreted, p, basis, parser, value.previous)
    BY <2>1, <2>2, <2>3
  <2> QED
    BY <2>4, <1>1 DEF MadeBy
<1>4. BasisOf(value.rows) = basis
  <2>1. \A f \in Places : value.rows[f].base = basis[f]
    BY <1>1 DEF MadeBy, RowsIn, ItemIn, RowProjection
  <2> QED
    BY <2>1, <1>1 DEF BasisOf, MadeBy
<1>5. ReadsAll(p, basis, parser)
  BY <1>1, <1>2 DEF ReadsAll, MadeBy
<1>6. ReplayInterpretation(p, k, parser) = "verified"
  BY <1>1, <1>3, <1>4, <1>5 DEF ReplayInterpretation, MadeBy
<1>7. OfKey(p, value.key) = {k}
  BY DEF OfKey, InterpretedIsSound, GivenIsSound, Given
<1>8. BasisFor(p, value.key) = basis /\ PrecededBy(p, value.key) = value.previous
  BY <1>4, <1>7 DEF BasisFor, PrecededBy
<1>9. NewInterpretation(p, parser, value.key) = value
  BY <1>1, <1>3, <1>8 DEF NewInterpretation, MadeBy
<1> QED
  BY <1>1, <1>6, <1>9 DEF MadeBy

-------------------------------------------------------------------------------
(* The processes beside them *)

FrameIsSound(x, r, w) ==
  /\ x.at = "declaring" => x.document \in DOMAIN Documents /\ Parses(x.document)
  /\ x.at = "publishing" => MayHavePdf(Samples(r), x.request.sample)
  /\ x.at = "giving" =>
       MayHavePdf(Samples(r), x.pdf.request.sample) /\ x.pdf.bytes \in r.published
  /\ x.at = "idle" /\ x.damaged =>
       \E known \in x.wentBy : \E pdf \in ToSet(r.pdfs) : pdf.request.sample \notin known
  /\ x.at = "appending" =>
       /\ x.plan \in Plans /\ Made(w, x.plan, x.value)
       /\ x.value.previous = Len(w.given[x.plan])
       /\ \A k \in DOMAIN w.given[x.plan] : w.given[x.plan][k].key # x.value.key
\* The lock of an audit's plan.
OneAppender ==
  \A c, d \in Registrars :
    /\ registrars[c].at = "appending" /\ registrars[d].at = "appending"
    /\ registrars[c].plan = registrars[d].plan
    => c = d

HistoriesInv ==
  /\ RegistryIsSound(registry) /\ InterpretedIsSound(interpreted)
  /\ registrars = [c \in Registrars |-> registrars[c]]
  /\ \A c \in Registrars : FrameIsSound(registrars[c], registry, interpreted)
  /\ OneAppender

RegistryGrows(r, s) ==
  /\ Samples(r) \subseteq Samples(s) /\ r.published \subseteq s.published
  /\ ToSet(r.pdfs) \subseteq ToSet(s.pdfs)

LEMMA FrameStands ==
  ASSUME NEW x, NEW r, NEW s, NEW w, NEW v, FrameIsSound(x, r, w),
         RegistryGrows(r, s), GrowsTo(w, v), \A p \in Plans : IsHistory(w.given[p]),
         x.at = "appending" => v.given[x.plan] = w.given[x.plan]
  PROVE  FrameIsSound(x, s, v)
<1>1. ASSUME x.at = "appending"
      PROVE  /\ x.plan \in Plans /\ Made(v, x.plan, x.value)
             /\ x.value.previous = Len(v.given[x.plan])
             /\ \A k \in DOMAIN v.given[x.plan] : v.given[x.plan][k].key # x.value.key
  <2>1. /\ x.plan \in Plans /\ Made(w, x.plan, x.value)
        /\ x.value.previous = Len(w.given[x.plan])
        /\ \A k \in DOMAIN w.given[x.plan] : w.given[x.plan][k].key # x.value.key
    BY <1>1 DEF FrameIsSound
  <2>2. Len(w.given[x.plan]) \in Nat
    BY <2>1, HistoryShape
  <2>3. x.value.previous \in 0..Len(w.given[x.plan])
    BY <2>1, <2>2
  <2>4. PICK parser, basis : MadeBy(w, x.plan, x.value, parser, basis)
    BY <2>1 DEF Made
  <2>5. Made(v, x.plan, x.value)
    BY <2>1, <2>3, <2>4, MadeStands DEF Made
  <2> QED
    BY <2>1, <2>5, <1>1
<1>2. x.at = "publishing" => MayHavePdf(Samples(s), x.request.sample)
  BY DEF FrameIsSound, MayHavePdf, RegistryGrows
<1>3. x.at = "giving" =>
        MayHavePdf(Samples(s), x.pdf.request.sample) /\ x.pdf.bytes \in s.published
  BY DEF FrameIsSound, MayHavePdf, RegistryGrows
<1>4. x.at = "idle" /\ x.damaged =>
        \E known \in x.wentBy : \E pdf \in ToSet(s.pdfs) : pdf.request.sample \notin known
  BY DEF FrameIsSound, RegistryGrows
<1>5. x.at = "declaring" => x.document \in DOMAIN Documents /\ Parses(x.document)
  BY DEF FrameIsSound
<1> QED
  BY <1>1, <1>2, <1>3, <1>4, <1>5 DEF FrameIsSound

LEMMA NothingChanges ==
  ASSUME HistoriesInv
  PROVE  /\ RegistryGrows(registry, registry) /\ GrowsTo(interpreted, interpreted)
         /\ \A p \in Plans : IsHistory(interpreted.given[p])
<1>1. \A q : IsHistory(q) => Extends(q, q)
  BY DEF Extends
<1>2. \A p \in Plans : IsHistory(interpreted.given[p]) /\ IsHistory(interpreted.rows[p])
  BY DEF HistoriesInv, InterpretedIsSound, InterpretedShape
<1>3. GrowsTo(interpreted, interpreted)
  BY <1>1, <1>2 DEF GrowsTo
<1> QED
  BY <1>2, <1>3 DEF RegistryGrows

\* A process that takes a step of its own: to a frame that is sound, and that appends
\* only to an audit nobody else appends to.
LEMMA OneProceeds ==
  ASSUME HistoriesInv, NEW c \in Registrars, NEW frame, Proceeds(c, frame),
         RegistryIsSound(registry'), RegistryGrows(registry, registry'),
         InterpretedIsSound(interpreted'), GrowsTo(interpreted, interpreted'),
         \A d \in Registrars \ {c} : registrars[d].at = "appending" =>
           interpreted'.given[registrars[d].plan] = interpreted.given[registrars[d].plan],
         FrameIsSound(frame, registry', interpreted'),
         frame.at = "appending" =>
           \A d \in Registrars \ {c} :
             ~(registrars[d].at = "appending" /\ registrars[d].plan = frame.plan)
  PROVE  HistoriesInv'
<1>1. registrars' = [registrars EXCEPT ![c] = frame]
  BY DEF Proceeds
<1>2. registrars = [d \in Registrars |-> registrars[d]]
  BY DEF HistoriesInv
<1>3. /\ registrars' = [d \in Registrars |-> registrars'[d]]
      /\ registrars'[c] = frame
      /\ \A d \in Registrars \ {c} : registrars'[d] = registrars[d]
  BY <1>1, <1>2
<1>4. ASSUME NEW d \in Registrars
      PROVE  FrameIsSound(registrars'[d], registry', interpreted')
  <2>1. CASE d = c
    BY <2>1, <1>3
  <2>2. CASE d # c
    <3>1. FrameIsSound(registrars[d], registry, interpreted)
      BY DEF HistoriesInv
    <3>2. FrameIsSound(registrars[d], registry', interpreted')
      BY <3>1, <2>2, NothingChanges, FrameStands
    <3> QED
      BY <3>2, <2>2, <1>3
  <2> QED
    BY <2>1, <2>2
<1>5. OneAppender'
  <2> SUFFICES ASSUME NEW d \in Registrars, NEW e \in Registrars,
                      registrars'[d].at = "appending", registrars'[e].at = "appending",
                      registrars'[d].plan = registrars'[e].plan
               PROVE  d = e
    BY DEF OneAppender
  <2>1. CASE d = c \/ e = c
    BY <2>1, <1>3
  <2>2. CASE d # c /\ e # c
    BY <2>2, <1>3 DEF HistoriesInv, OneAppender
  <2> QED
    BY <2>1, <2>2
<1> QED
  BY <1>3, <1>4, <1>5 DEF HistoriesInv

\* A process that changes nothing but its own frame.
LEMMA OneAnswers ==
  ASSUME HistoriesInv, NEW c \in Registrars, NEW frame, Proceeds(c, frame),
         UNCHANGED <<registry, interpreted>>,
         FrameIsSound(frame, registry, interpreted),
         frame.at = "appending" =>
           \A d \in Registrars \ {c} :
             ~(registrars[d].at = "appending" /\ registrars[d].plan = frame.plan)
  PROVE  HistoriesInv'
<1>1. /\ RegistryIsSound(registry') /\ RegistryGrows(registry, registry')
      /\ InterpretedIsSound(interpreted') /\ GrowsTo(interpreted, interpreted')
      /\ FrameIsSound(frame, registry', interpreted')
      /\ interpreted' = interpreted
  BY NothingChanges DEF HistoriesInv
<1> QED
  BY <1>1, OneProceeds

\* An answer that is not of a damaged archive.
LEMMA AnswerIsSound ==
  ASSUME NEW answer, answer # "corrupt_reference", NEW r, NEW w
  PROVE  FrameIsSound(Answered(answer), r, w) /\ Answered(answer).at = "idle"
BY DEF FrameIsSound, Answered

LEMMA OneReplies ==
  ASSUME HistoriesInv, NEW c \in Registrars, NEW answer, Replies(c, answer),
         answer # "corrupt_reference", UNCHANGED <<registry, interpreted>>
  PROVE  HistoriesInv'
<1>1. Proceeds(c, Answered(answer))
  BY DEF Proceeds, Replies
<1>2. /\ FrameIsSound(Answered(answer), registry, interpreted)
      /\ Answered(answer).at = "idle"
  BY AnswerIsSound
<1> QED
  BY <1>1, <1>2, OneAnswers

\* A step of an audit beside them.
LEMMA NobodyProceeds ==
  ASSUME HistoriesInv, registrars' = registrars,
         RegistryIsSound(registry'), RegistryGrows(registry, registry'),
         InterpretedIsSound(interpreted'), GrowsTo(interpreted, interpreted'),
         interpreted'.given = interpreted.given
  PROVE  HistoriesInv'
<1>1. \A c \in Registrars : FrameIsSound(registrars[c], registry', interpreted')
  BY NothingChanges, FrameStands DEF HistoriesInv
<1> QED
  BY <1>1 DEF HistoriesInv, OneAppender

LEMMA DeclarationSteps ==
  ASSUME HistoriesInv, NEW c \in Registrars,
         \/ \E d \in DOMAIN Documents : StartDeclaration(c, d)
         \/ RegisterFixtures(c)
  PROVE  HistoriesInv'
<1>1. ASSUME NEW d \in DOMAIN Documents, StartDeclaration(c, d)
      PROVE  HistoriesInv'
  <2>1. CASE ~Parses(d) \/ (\E e \in Acquired(d) : e.reference = {})
             \/ ~ReferencesHold(d, registry.summaries \cup registry.complete)
    <3>1. PICK answer : Replies(c, answer) /\ answer # "corrupt_reference"
      BY <2>1, <1>1 DEF StartDeclaration
    <3> QED
      BY <3>1, <1>1, OneReplies DEF StartDeclaration
  <2>2. CASE /\ Parses(d) /\ ~(\E e \in Acquired(d) : e.reference = {})
             /\ ReferencesHold(d, registry.summaries \cup registry.complete)
    <3> DEFINE frame == [at |-> "declaring", document |-> d,
                   captured |-> IF Acquired(d) = {} THEN {} ELSE registry.complete]
    <3>1. Proceeds(c, frame)
      BY <2>2, <1>1 DEF StartDeclaration
    <3>2. FrameIsSound(frame, registry, interpreted) /\ frame.at # "appending"
      BY <2>2 DEF FrameIsSound
    <3> HIDE DEF frame
    <3> QED
      BY <3>1, <3>2, <1>1, OneAnswers DEF StartDeclaration
  <2> QED
    BY <2>1, <2>2
<1>2. ASSUME RegisterFixtures(c)
      PROVE  HistoriesInv'
  <2> DEFINE d == registrars[c].document
             known == registrars[c].captured
             answer == Declaration(registry, d, known)
  <2>1. /\ registry' = IF answer = "registered" THEN WithDeclaration(registry, d)
                        ELSE registry
        /\ Replies(c, answer) /\ interpreted' = interpreted
    BY <1>2 DEF RegisterFixtures
  <2>2. d \in DOMAIN Documents /\ Parses(d)
    BY <1>2 DEF RegisterFixtures, HistoriesInv, FrameIsSound
  <2> HIDE DEF d, known
  <2>3. RegistryIsSound(registry) /\ RecordsLoad(registry)
    BY DEF HistoriesInv, RegistryIsSound
  <2>4. CASE /\ ReferencesHold(d, registry.summaries \cup known)
             /\ SameVersion(registry, d) = {}
             /\ \A e \in ToSet(EntriesOf(d)) :
                  e.replaces = CurrentRecord(registry.records, e.scope)
    <3>1. /\ RegistryIsSound(WithDeclaration(registry, d))
          /\ Samples(registry) \subseteq Samples(WithDeclaration(registry, d))
      BY <2>2, <2>3, <2>4, DeclaredIsSound
    <3>2. answer = "registered"
      BY <3>1, <2>3, <2>4 DEF Declaration, RegistryIsSound
    <3>3. registry' = WithDeclaration(registry, d)
      BY <3>2, <2>1
    <3>4. RegistryGrows(registry, registry')
      <4>1. /\ WithDeclaration(registry, d).pdfs = registry.pdfs
            /\ WithDeclaration(registry, d).published = registry.published
        BY <2>3 DEF WithDeclaration, RegistryIsSound, RegistryShape
      <4> QED
        BY <4>1, <3>1, <3>3 DEF RegistryGrows
    <3>5. Proceeds(c, Answered(answer))
      BY <2>1 DEF Proceeds, Replies
    <3>6. /\ FrameIsSound(Answered(answer), registry', interpreted')
          /\ Answered(answer).at = "idle"
      BY <3>2, AnswerIsSound
    <3>7. InterpretedIsSound(interpreted') /\ GrowsTo(interpreted, interpreted')
      BY <2>1, NothingChanges DEF HistoriesInv
    <3> HIDE DEF answer
    <3> QED
      BY <3>1, <3>3, <3>4, <3>5, <3>6, <3>7, <2>1, OneProceeds
  <2>5. CASE ~(/\ ReferencesHold(d, registry.summaries \cup known)
               /\ SameVersion(registry, d) = {}
               /\ \A e \in ToSet(EntriesOf(d)) :
                    e.replaces = CurrentRecord(registry.records, e.scope))
    <3>1. answer \in {"invalid_reference", "returned", "declaration_conflict"}
      BY <2>3, <2>5 DEF Declaration
    <3> HIDE DEF answer
    <3>2. registry' = registry /\ answer # "corrupt_reference"
      BY <3>1, <2>1
    <3> QED
      BY <3>2, <2>1, OneReplies
  <2> QED
    BY <2>4, <2>5
<1> QED
  BY <1>1, <1>2

LEMMA SamplesAreListed ==
  ASSUME HistoriesInv, NEW c \in Registrars, NEW frame, ListsSamples(c, frame)
  PROVE  Proceeds(c, frame) /\ UNCHANGED <<registry, interpreted>>
BY DEF ListsSamples, HistoriesInv, RegistryIsSound

\* The archive is called damaged by the samples of before.
LEMMA CalledDamaged ==
  ASSUME HistoriesInv, NEW c \in Registrars, NEW known, ~PdfsLoad(registry, known),
         Proceeds(c, [Answered("corrupt_reference") EXCEPT !.wentBy = {known}]),
         UNCHANGED <<registry, interpreted>>
  PROVE  HistoriesInv'
<1> DEFINE frame == [Answered("corrupt_reference") EXCEPT !.wentBy = {known}]
<1>1. PICK pdf \in ToSet(registry.pdfs) : pdf.request.sample \notin known
  BY UnknownSample DEF HistoriesInv
<1>2. frame.at = "idle" /\ frame.wentBy = {known}
  BY DEF Answered
<1> HIDE DEF frame
<1>3. FrameIsSound(frame, registry, interpreted)
  BY <1>1, <1>2 DEF FrameIsSound
<1> QED
  BY <1>2, <1>3, OneAnswers DEF frame

LEMMA PdfSteps ==
  ASSUME HistoriesInv, NEW c \in Registrars,
         \/ \E q \in PdfRequests : StartPdf(c, q)
         \/ \E bytes \in PdfFiles : PublishPdf(c, bytes)
         \/ RegisterPdf(c)
  PROVE  HistoriesInv'
<1>1. ASSUME NEW q \in PdfRequests, StartPdf(c, q)
      PROVE  HistoriesInv'
  <2> DEFINE frame == IF MayHavePdf(Samples(registry), q.sample)
                      THEN [at |-> "publishing", request |-> q, samples |-> Samples(registry)]
                      ELSE Answered("invalid_reference")
  <2>1. ListsSamples(c, frame)
    BY <1>1 DEF StartPdf
  <2>2. FrameIsSound(frame, registry, interpreted) /\ frame.at # "appending"
    BY DEF FrameIsSound, Answered
  <2> HIDE DEF frame
  <2> QED
    BY <2>1, <2>2, SamplesAreListed, OneAnswers
<1>2. ASSUME NEW bytes \in PdfFiles, PublishPdf(c, bytes)
      PROVE  HistoriesInv'
  <2> DEFINE x == registrars[c]
             more == [registry EXCEPT !.published = @ \cup {bytes}]
             frame == IF bytes = NoBytes THEN Answered("invalid_declaration")
                      ELSE [at |-> "giving", samples |-> x.samples,
                            pdf |-> [request |-> x.request, bytes |-> bytes]]
  <2>1. x.at = "publishing" /\ interpreted' = interpreted
    BY <1>2 DEF PublishPdf
  <2>2. CASE ~(x.request.expected \subseteq {bytes})
    BY <2>2, <2>1, <1>2, OneReplies DEF PublishPdf
  <2>3. CASE x.request.expected \subseteq {bytes}
    <3>1. registry' = more /\ Proceeds(c, frame)
      BY <2>3, <1>2 DEF PublishPdf, Replies, Proceeds
    <3>2. /\ more.declarations = registry.declarations /\ more.records = registry.records
          /\ more.summaries = registry.summaries /\ more.pdfs = registry.pdfs
          /\ more.expectations = registry.expectations
          /\ more.published = registry.published \cup {bytes}
          /\ more = [declarations |-> more.declarations, records |-> more.records,
                     summaries |-> more.summaries, complete |-> more.complete,
                     pdfs |-> more.pdfs, published |-> more.published,
                     expectations |-> more.expectations]
      BY DEF HistoriesInv, RegistryIsSound, RegistryShape
    <3>3. FrameIsSound(x, registry, interpreted)
      BY DEF HistoriesInv
    <3> HIDE DEF more
    <3>4. RegistryIsSound(more) /\ RegistryGrows(registry, more)
      <4>1. RegistryShape(more) /\ VersionsDiffer(more) /\ SamplesHavePdfs(more)
        BY <3>2 DEF HistoriesInv, RegistryIsSound, RegistryShape, VersionsDiffer,
                    SamplesHavePdfs
      <4>2. RecordsLoad(more) /\ Samples(more) = Samples(registry)
        BY <3>2 DEF HistoriesInv, RegistryIsSound, RecordsLoad, RecordAccepted, Samples
      <4>3. PdfsLoad(more, Samples(more))
        BY <3>2, <4>2, PdfsStay DEF HistoriesInv, RegistryIsSound
      <4> QED
        BY <4>1, <4>2, <4>3, <3>2 DEF RegistryIsSound, RegistryGrows
    <3>5. FrameIsSound(frame, more, interpreted) /\ frame.at # "appending"
      <4>1. CASE bytes = NoBytes
        BY <4>1, AnswerIsSound
      <4>2. CASE bytes # NoBytes
        <5>1. MayHavePdf(Samples(more), x.request.sample)
          BY <3>3, <3>4, <2>1 DEF FrameIsSound, RegistryGrows, MayHavePdf
        <5> HIDE DEF x
        <5> QED
          BY <5>1, <4>2, <3>2 DEF FrameIsSound
      <4> QED
        BY <4>1, <4>2
    <3>6. InterpretedIsSound(interpreted') /\ GrowsTo(interpreted, interpreted')
      BY <2>1, NothingChanges DEF HistoriesInv
    <3> HIDE DEF frame
    <3> QED
      BY <3>1, <3>4, <3>5, <3>6, <2>1, OneProceeds
  <2> QED
    BY <2>2, <2>3
<1>3. ASSUME RegisterPdf(c)
      PROVE  HistoriesInv'
  <2> DEFINE pdf == registrars[c].pdf
             known == registrars[c].samples
             answer == PdfAnswer(registry, pdf, known)
             more == [registry EXCEPT !.pdfs = Append(@, pdf)]
  <2>1. /\ registry' = IF answer = "registered" THEN more ELSE registry
        /\ Concludes(c, answer) /\ interpreted' = interpreted
        /\ registrars[c].at = "giving"
    BY <1>3 DEF RegisterPdf
  <2>2. MayHavePdf(Samples(registry), pdf.request.sample) /\ pdf.bytes \in registry.published
    BY <2>1 DEF HistoriesInv, FrameIsSound
  <2>3. Concludes(c, answer) =>
          Proceeds(c, IF Answered(answer).damaged
                      THEN [Answered(answer) EXCEPT !.wentBy = {known}] ELSE Answered(answer))
    BY DEF Concludes
  <2> HIDE DEF pdf, known
  <2>4. RegistryIsSound(registry)
    BY DEF HistoriesInv
  <2>5. CASE answer = "registered"
    <3>1. ReplacesCurrent(registry, pdf.request)
      BY <2>5 DEF PdfAnswer
    <3>2. RegistryIsSound(more)
      BY <3>1, <2>2, <2>4, GivenPdfIsSound
    <3>3. RegistryGrows(registry, more)
      <4>1. Extends(registry.pdfs, Append(registry.pdfs, pdf))
        BY <2>4, RowAppended DEF RegistryIsSound, RegistryShape
      <4>2. /\ more.pdfs = Append(registry.pdfs, pdf) /\ more.records = registry.records
            /\ more.published = registry.published
        BY <2>4 DEF RegistryIsSound, RegistryShape
      <4> QED
        BY <4>1, <4>2, BeforeStays DEF RegistryGrows, Samples
    <3>4. registry' = more /\ Proceeds(c, Answered(answer))
      BY <2>5, <2>1, <2>3 DEF Answered
    <3>5. /\ FrameIsSound(Answered(answer), registry', interpreted')
          /\ Answered(answer).at = "idle"
      BY <2>5, AnswerIsSound
    <3>6. InterpretedIsSound(interpreted') /\ GrowsTo(interpreted, interpreted')
      BY <2>1, NothingChanges DEF HistoriesInv
    <3> HIDE DEF answer, more
    <3> QED
      BY <3>2, <3>3, <3>4, <3>5, <3>6, <2>1, OneProceeds
  <2>6. CASE answer = "corrupt_reference"
    <3>1. ~PdfsLoad(registry, known)
      BY <2>6 DEF PdfAnswer
    <3>2. /\ Proceeds(c, [Answered("corrupt_reference") EXCEPT !.wentBy = {known}])
          /\ registry' = registry
      BY <2>6, <2>1, <2>3 DEF Answered
    <3> QED
      BY <3>1, <3>2, <2>1, CalledDamaged
  <2>7. CASE answer # "registered" /\ answer # "corrupt_reference"
    <3>1. registry' = registry /\ Replies(c, answer)
      BY <2>7, <2>1, <2>3 DEF Answered, Replies, Proceeds
    <3> HIDE DEF answer
    <3> QED
      BY <3>1, <2>7, <2>1, OneReplies
  <2> QED
    BY <2>5, <2>6, <2>7
<1> QED
  BY <1>1, <1>2, <1>3

LEMMA BackendSteps ==
  ASSUME HistoriesInv, NEW c \in Registrars,
         (\E b \in BackendRequests : StartBackend(c, b)) \/ RegisterBackend(c)
  PROVE  HistoriesInv'
<1>1. ASSUME NEW b \in BackendRequests, StartBackend(c, b)
      PROVE  HistoriesInv'
  <2> DEFINE frame == [at |-> "expecting", expectation |-> b, samples |-> Samples(registry)]
  <2>1. ListsSamples(c, frame)
    BY <1>1 DEF StartBackend
  <2>2. FrameIsSound(frame, registry, interpreted) /\ frame.at # "appending"
    BY DEF FrameIsSound
  <2> HIDE DEF frame
  <2> QED
    BY <2>1, <2>2, SamplesAreListed, OneAnswers
<1>2. ASSUME RegisterBackend(c)
      PROVE  HistoriesInv'
  <2> DEFINE b == registrars[c].expectation
             known == registrars[c].samples
             answer == BackendAnswer(registry, b, known)
             more == [registry EXCEPT !.expectations = @ \cup {b}]
  <2>1. /\ registry' = IF answer = "registered" THEN more ELSE registry
        /\ Concludes(c, answer) /\ interpreted' = interpreted
    BY <1>2 DEF RegisterBackend
  <2>2. Concludes(c, answer) =>
          Proceeds(c, IF Answered(answer).damaged
                      THEN [Answered(answer) EXCEPT !.wentBy = {known}] ELSE Answered(answer))
    BY DEF Concludes
  <2> HIDE DEF b, known
  <2>3. RegistryIsSound(registry)
    BY DEF HistoriesInv
  <2>4. CASE answer = "registered"
    <3>1. RegistryIsSound(more)
      BY <2>3, <2>4, ExpectedIsSound
    <3>2. RegistryGrows(registry, more)
      <4>1. /\ more.pdfs = registry.pdfs /\ more.records = registry.records
            /\ more.published = registry.published
        BY <2>3 DEF RegistryIsSound, RegistryShape
      <4> QED
        BY <4>1 DEF RegistryGrows, Samples
    <3>3. registry' = more /\ Proceeds(c, Answered(answer))
      BY <2>4, <2>1, <2>2 DEF Answered
    <3>4. /\ FrameIsSound(Answered(answer), registry', interpreted')
          /\ Answered(answer).at = "idle"
      BY <2>4, AnswerIsSound
    <3>5. InterpretedIsSound(interpreted') /\ GrowsTo(interpreted, interpreted')
      BY <2>1, NothingChanges DEF HistoriesInv
    <3> HIDE DEF answer, more
    <3> QED
      BY <3>1, <3>2, <3>3, <3>4, <3>5, <2>1, OneProceeds
  <2>5. CASE answer = "corrupt_reference"
    <3>1. ~PdfsLoad(registry, known)
      BY <2>5 DEF BackendAnswer
    <3>2. /\ Proceeds(c, [Answered("corrupt_reference") EXCEPT !.wentBy = {known}])
          /\ registry' = registry
      BY <2>5, <2>1, <2>2 DEF Answered
    <3> QED
      BY <3>1, <3>2, <2>1, CalledDamaged
  <2>6. CASE answer # "registered" /\ answer # "corrupt_reference"
    <3>1. registry' = registry /\ Replies(c, answer)
      BY <2>6, <2>1, <2>2 DEF Answered, Replies, Proceeds
    <3> HIDE DEF answer
    <3> QED
      BY <3>1, <2>6, <2>1, OneReplies
  <2> QED
    BY <2>4, <2>5, <2>6
<1> QED
  BY <1>1, <1>2

LEMMA AuditSteps ==
  ASSUME HistoriesInv,
         \/ \E s \in DOMAIN Summaries : CompleteAudit(s)
         \/ \E p \in Plans, f \in Places :
              \/ ContinueRow(p, f)
              \/ \E content \in {{}} \cup {{x} : x \in Contents}, continuable \in BOOLEAN :
                   AppendRow(p, f, content, continuable)
  PROVE  HistoriesInv'
<1>1. ASSUME NEW s \in DOMAIN Summaries, CompleteAudit(s)
      PROVE  HistoriesInv'
  <2> DEFINE more == [registry EXCEPT !.complete = {s}]
  <2>1. registry' = more /\ UNCHANGED <<interpreted, registrars>>
    BY <1>1 DEF CompleteAudit
  <2>2. /\ more.declarations = registry.declarations /\ more.records = registry.records
        /\ more.summaries = registry.summaries /\ more.pdfs = registry.pdfs
        /\ more.expectations = registry.expectations
        /\ more.published = registry.published
        /\ more = [declarations |-> more.declarations, records |-> more.records,
                   summaries |-> more.summaries, complete |-> more.complete,
                   pdfs |-> more.pdfs, published |-> more.published,
                   expectations |-> more.expectations]
    BY DEF HistoriesInv, RegistryIsSound, RegistryShape
  <2> HIDE DEF more
  <2>3. RegistryShape(more) /\ VersionsDiffer(more) /\ SamplesHavePdfs(more)
    BY <2>2 DEF HistoriesInv, RegistryIsSound, RegistryShape, VersionsDiffer, SamplesHavePdfs
  <2>4. RecordsLoad(more) /\ Samples(more) = Samples(registry)
    BY <2>2 DEF HistoriesInv, RegistryIsSound, RecordsLoad, RecordAccepted, Samples
  <2>5. PdfsLoad(more, Samples(more))
    BY <2>2, <2>4, PdfsStay DEF HistoriesInv, RegistryIsSound
  <2>6. RegistryIsSound(more) /\ RegistryGrows(registry, more)
    BY <2>2, <2>3, <2>4, <2>5 DEF RegistryIsSound, RegistryGrows
  <2>7. InterpretedIsSound(interpreted') /\ GrowsTo(interpreted, interpreted')
    BY <2>1, NothingChanges DEF HistoriesInv
  <2> QED
    BY <2>1, <2>6, <2>7, NobodyProceeds
<1>2. ASSUME NEW p \in Plans, NEW f \in Places, ContinueRow(p, f)
      PROVE  HistoriesInv'
  <2> DEFINE open == interpreted.open \cup {<<p, f>>}
             w == [interpreted EXCEPT !.open = open]
  <2>1. interpreted' = w /\ UNCHANGED <<registry, registrars>>
    BY <1>2 DEF ContinueRow
  <2> HIDE DEF open
  <2>2. /\ w.rows = interpreted.rows /\ w.given = interpreted.given
        /\ w.parsers = interpreted.parsers
        /\ w = [rows |-> w.rows, open |-> w.open, parsers |-> w.parsers, given |-> w.given]
    BY DEF HistoriesInv, InterpretedIsSound, InterpretedShape
  <2> HIDE DEF w
  <2>3. GrowsTo(interpreted, w)
    BY <2>2, NothingChanges DEF GrowsTo
  <2>4. InterpretedShape(w)
    BY <2>2 DEF InterpretedShape, HistoriesInv, InterpretedIsSound
  <2>5. ASSUME NEW q \in Plans, NEW k \in DOMAIN interpreted.given[q]
        PROVE  Made(w, q, interpreted.given[q][k])
    <3>1. PICK parser, basis : MadeBy(interpreted, q, interpreted.given[q][k], parser, basis)
      BY DEF HistoriesInv, InterpretedIsSound, GivenIsSound, Made
    <3>2. k \in 1..Len(interpreted.given[q]) /\ Len(interpreted.given[q]) \in Nat
      BY NothingChanges, HistoryShape
    <3>3. interpreted.given[q][k].previous \in 0..Len(interpreted.given[q])
      BY <3>2 DEF HistoriesInv, InterpretedIsSound, GivenIsSound
    <3> QED
      BY <3>1, <3>3, <2>3, MadeStands DEF Made
  <2>6. InterpretedIsSound(w)
    BY <2>2, <2>4, <2>5 DEF HistoriesInv, InterpretedIsSound, GivenIsSound
  <2> QED
    BY <2>1, <2>2, <2>3, <2>6, NothingChanges, NobodyProceeds DEF HistoriesInv
<1>3. ASSUME NEW p \in Plans, NEW f \in Places,
             NEW content \in {{}} \cup {{x} : x \in Contents}, NEW continuable \in BOOLEAN,
             AppendRow(p, f, content, continuable)
      PROVE  HistoriesInv'
  <2> DEFINE open == interpreted.open \ {<<p, f>>}
             row == [place |-> f, content |-> content, continuable |-> continuable]
  <2>1. interpreted' = [interpreted EXCEPT !.open = open, !.rows[p] = Append(@, row)]
    BY <1>3 DEF AppendRow
  <2>2. UNCHANGED <<registry, registrars>>
    BY <1>3 DEF AppendRow
  <2>a. interpreted' = WithRow(interpreted, p, row, open)
    BY <2>1 DEF WithRow
  <2> HIDE DEF open, row
  <2>3. /\ InterpretedIsSound(interpreted') /\ GrowsTo(interpreted, interpreted')
        /\ interpreted'.given = interpreted.given
    BY <2>a, RowIsSound DEF HistoriesInv
  <2> QED
    BY <2>2, <2>3, NothingChanges, NobodyProceeds DEF HistoriesInv
<1> QED
  BY <1>1, <1>2, <1>3

\* What is begun is made on the rows that the audit has.
LEMMA BegunIsMade ==
  ASSUME NEW p \in Plans, NEW parser \in MaterialParsers, NEW key,
         parser.version \notin PublishedParsers, AuditIsComplete(p),
         ReadsAll(p, BasisFor(p, key), parser), OfKey(p, key) = {}
  PROVE  Made(interpreted, p, NewInterpretation(p, parser, key))
<1> DEFINE basis == LatestBasis(p)
           value == NewInterpretation(p, parser, key)
<1>1. BasisFor(p, key) = basis
  BY DEF BasisFor
<1>2. ASSUME NEW f \in Places
      PROVE  basis[f] \in DOMAIN interpreted.rows[p] /\ interpreted.rows[p][basis[f]].place = f
  <2>1. LastRows(p, f) # {}
    BY DEF AuditIsComplete
  <2>2. basis[f] \in LastRows(p, f)
    BY <2>1 DEF LatestBasis
  <2> QED
    BY <2>2 DEF LastRows, RowsFor
<1>3. basis = [f \in Places |-> basis[f]]
  BY DEF LatestBasis
<1> HIDE DEF basis
<1>4. \A n : Reads(p, n, parser) = ReadsIn(interpreted, p, n, parser)
  BY DEF Reads, ReadsIn, RowsFor
<1>5. \A f \in Places : ReadsIn(interpreted, p, basis[f], parser) # {}
  BY <1>1, <1>4 DEF ReadsAll
<1>6. /\ value.key = key /\ value.declared = DeclarationOf(parser)
      /\ value.rows = RowsOf(p, basis, parser, value.previous)
      /\ value = [key |-> value.key, declared |-> value.declared,
                 previous |-> value.previous, rows |-> value.rows]
  BY <1>1 DEF NewInterpretation
<1> HIDE DEF value
<1>7. RowsOf(p, basis, parser, value.previous) = RowsIn(interpreted, p, basis, parser, value.previous)
  <2>1. \A f \in Places : One(Reads(p, basis[f], parser))
                          = One(ReadsIn(interpreted, p, basis[f], parser))
    BY <1>4
  <2>2. RowsOf(p, basis, parser, value.previous)
          = [f \in Places |->
               RowProjection(RowsFor(p)[basis[f]], basis[f],
                             PreviousFields(interpreted, p, value.previous, basis[f]),
                             One(Reads(p, basis[f], parser)))]
    BY DEF RowsOf, One
  <2>3. RowsIn(interpreted, p, basis, parser, value.previous)
          = [f \in Places |->
               RowProjection(RowsFor(p)[basis[f]], basis[f],
                             PreviousFields(interpreted, p, value.previous, basis[f]),
                             One(ReadsIn(interpreted, p, basis[f], parser)))]
    BY DEF RowsIn, ItemIn, RowsFor
  <2> QED
    BY <2>1, <2>2, <2>3
<1>8. MadeBy(interpreted, p, value, parser, basis)
  BY <1>2, <1>3, <1>5, <1>6, <1>7 DEF MadeBy
<1> QED
  BY <1>8 DEF Made, value

LEMMA InterpretationSteps ==
  ASSUME HistoriesInv, NEW c \in Registrars,
         \/ \E p \in Plans, parser \in MaterialParsers, key \in RequestKeys :
              BeginAppend(c, p, parser, key)
         \/ CommitAppend(c)
  PROVE  HistoriesInv'
<1>1. ASSUME NEW p \in Plans, NEW parser \in MaterialParsers, NEW key \in RequestKeys,
             BeginAppend(c, p, parser, key)
      PROVE  HistoriesInv'
  <2> DEFINE begins == /\ parser.version \notin PublishedParsers /\ ~PlanIsBusy(p)
                       /\ AuditIsComplete(p) /\ ReadsAll(p, BasisFor(p, key), parser)
                       /\ OfKey(p, key) = {}
             frame == [at |-> "appending", plan |-> p, value |-> NewInterpretation(p, parser, key)]
  <2>1. InterpretationsLoad(interpreted)
    BY SoundLoads DEF HistoriesInv
  <2>2. UNCHANGED <<registry, interpreted>>
    BY <1>1 DEF BeginAppend
  <2>3. CASE ~begins
    <3>1. PICK answer : Replies(c, answer) /\ answer # "corrupt_reference"
      BY <2>1, <2>3, <1>1 DEF BeginAppend
    <3> QED
      BY <3>1, <2>2, OneReplies
  <2>4. CASE begins
    <3>1. Proceeds(c, frame)
      BY <2>1, <2>4, <1>1 DEF BeginAppend
    <3>2. /\ Made(interpreted, p, frame.value)
          /\ frame.value.previous = Len(interpreted.given[p])
          /\ \A k \in DOMAIN interpreted.given[p] : interpreted.given[p][k].key # frame.value.key
      <4>1. Made(interpreted, p, NewInterpretation(p, parser, key))
        BY <2>4, BegunIsMade
      <4>2. /\ NewInterpretation(p, parser, key).previous = Len(Given(p))
            /\ NewInterpretation(p, parser, key).key = key
        BY <2>4 DEF NewInterpretation, PrecededBy
      <4>3. \A k \in DOMAIN interpreted.given[p] : interpreted.given[p][k].key # key
        BY <2>4 DEF OfKey, Given
      <4> QED
        BY <4>1, <4>2, <4>3 DEF Given
    <3>3. frame.at = "appending" /\ frame.plan = p
      OBVIOUS
    <3>4. \A d \in Registrars : ~(registrars[d].at = "appending" /\ registrars[d].plan = p)
      BY <2>4 DEF PlanIsBusy
    <3> HIDE DEF frame, begins
    <3>5. FrameIsSound(frame, registry, interpreted)
      BY <3>2, <3>3 DEF FrameIsSound
    <3> QED
      BY <3>1, <3>3, <3>4, <3>5, <2>2, OneAnswers
  <2> QED
    BY <2>3, <2>4
<1>2. ASSUME CommitAppend(c)
      PROVE  HistoriesInv'
  <2> DEFINE p == registrars[c].plan
             value == registrars[c].value
             after == WithInterpretation(p, value)
  <2>1. /\ registrars[c].at = "appending" /\ registry' = registry
    BY <1>2 DEF CommitAppend
  <2>2. /\ p \in Plans /\ Made(interpreted, p, value)
        /\ value.previous = Len(interpreted.given[p])
        /\ \A k \in DOMAIN interpreted.given[p] : interpreted.given[p][k].key # value.key
    BY <2>1 DEF HistoriesInv, FrameIsSound
  <2>3. \/ \E answer : /\ Replies(c, answer) /\ answer # "corrupt_reference"
                      /\ interpreted' = interpreted
        \/ InterpretationsLoad(after) /\ Replies(c, "appended") /\ interpreted' = after
        \/ ~InterpretationsLoad(after)
    BY <1>2 DEF CommitAppend
  <2>4. \A d \in Registrars \ {c} :
          registrars[d].at = "appending" => registrars[d].plan \in Plans \ {p}
    BY <2>1 DEF HistoriesInv, OneAppender, FrameIsSound
  <2>a. after = WithGiven(interpreted, p, value)
    BY DEF WithInterpretation, WithGiven
  <2> HIDE DEF p, value, after
  <2>5. /\ InterpretedIsSound(after) /\ GrowsTo(interpreted, after)
        /\ \A q \in Plans \ {p} : after.given[q] = interpreted.given[q]
    BY <2>a, <2>2, InterpretationIsSound DEF HistoriesInv
  <2>6. InterpretationsLoad(after)
    BY <2>5, SoundLoads
  <2>7. CASE Replies(c, "appended") /\ interpreted' = after
    <3>1. Proceeds(c, Answered("appended"))
      BY <2>7 DEF Replies, Proceeds
    <3>2. /\ FrameIsSound(Answered("appended"), registry', interpreted')
          /\ Answered("appended").at = "idle"
      BY AnswerIsSound
    <3>3. RegistryIsSound(registry') /\ RegistryGrows(registry, registry')
      BY <2>1, NothingChanges DEF HistoriesInv
    <3> QED
      BY <3>1, <3>2, <3>3, <2>4, <2>5, <2>7, OneProceeds
  <2> QED
    BY <2>1, <2>3, <2>6, <2>7, OneReplies
<1> QED
  BY <1>1, <1>2

LEMMA HistoriesStart == RegistryInit => HistoriesInv
<1> SUFFICES ASSUME RegistryInit PROVE HistoriesInv
  OBVIOUS
<1>1. IsHistory(<<>>) /\ Len(<<>>) = 0 /\ DOMAIN <<>> = {} /\ ToSet(<<>>) = {}
  <2>1. <<>> \in Seq({}) /\ Len(<<>>) = 0 /\ DOMAIN <<>> = {}
    BY EmptySeq
  <2> QED
    BY <2>1 DEF ToSet, IsHistory
<1>2. RegistryIsSound(registry)
  BY <1>1 DEF RegistryInit, RegistryIsSound, RegistryShape, RecordsLoad, VersionsDiffer,
              PdfsLoad, SamplesHavePdfs
<1>3. InterpretedIsSound(interpreted)
  <2>1. InterpretedShape(interpreted) /\ GivenIsSound(interpreted)
    BY <1>1 DEF RegistryInit, InterpretedShape, GivenIsSound
  <2>2. \A p \in Plans : ToSet(interpreted.given[p]) = {}
    BY <1>1 DEF RegistryInit
  <2>3. interpreted.parsers = {v.declared : v \in UNION {ToSet(interpreted.given[p]) : p \in Plans}}
    <3>1. UNION {ToSet(interpreted.given[p]) : p \in Plans} = {}
      BY <2>2
    <3>2. interpreted.parsers = {}
      BY DEF RegistryInit
    <3> QED
      BY <3>1, <3>2
  <2> QED
    BY <2>1, <2>3 DEF InterpretedIsSound
<1>4. \A c \in Registrars : registrars[c] = Answered("none")
  BY DEF RegistryInit
<1>5. /\ Answered("none").at = "idle"
      /\ \A r, w : FrameIsSound(Answered("none"), r, w)
  BY AnswerIsSound
<1>6. registrars = [c \in Registrars |-> registrars[c]]
  BY DEF RegistryInit
<1> QED
  BY <1>2, <1>3, <1>4, <1>5, <1>6 DEF HistoriesInv, OneAppender

LEMMA HistoriesStep ==
  HistoriesInv /\ [RegistryNext \/ InterpretationNext]_registryVars => HistoriesInv'
<1> SUFFICES ASSUME HistoriesInv, [RegistryNext \/ InterpretationNext]_registryVars
             PROVE  HistoriesInv'
  OBVIOUS
<1>1. ASSUME NEW c \in Registrars, StopRegistrar(c)
      PROVE  HistoriesInv'
  BY <1>1, OneReplies DEF StopRegistrar
<1>2. CASE RegistryNext
  BY <1>2, <1>1, AuditSteps, DeclarationSteps, PdfSteps, BackendSteps DEF RegistryNext
<1>3. CASE InterpretationNext
  BY <1>3, <1>1, AuditSteps, InterpretationSteps DEF InterpretationNext
<1>4. CASE UNCHANGED registryVars
  BY <1>4 DEF registryVars, HistoriesInv, OneAppender
<1> QED
  BY <1>2, <1>3, <1>4

LEMMA HistoriesInvImplies == HistoriesInv => HistoriesAreAccepted
<1> SUFFICES ASSUME HistoriesInv PROVE HistoriesAreAccepted
  OBVIOUS
<1>1. /\ RecordsLoad(registry) /\ PdfsLoad(registry, Samples(registry))
      /\ InterpretationsLoad(interpreted)
  BY SoundLoads DEF HistoriesInv, RegistryIsSound
<1>2. /\ \A d \in registry.declarations : DeclarationCheck(registry, d) = "byte_verified"
      /\ \A pdf \in ToSet(registry.pdfs) :
           PdfCheck(registry, pdf.request.sample) = "byte_verified"
  BY SoundIsChecked DEF HistoriesInv
<1>3. \A p \in Plans : \A k \in DOMAIN Given(p) : \E parser \in MaterialParsers :
        /\ ReplayInterpretation(p, k, parser) = "verified"
        /\ NewInterpretation(p, parser, Given(p)[k].key) = Given(p)[k]
  BY ReachedAgain DEF HistoriesInv
<1>4. \A c \in Registrars :
        registrars[c].at = "idle" /\ registrars[c].damaged =>
          \E known \in registrars[c].wentBy : \E pdf \in ToSet(registry.pdfs) :
            pdf.request.sample \notin known
  BY DEF HistoriesInv, FrameIsSound
<1> QED
  BY <1>1, <1>2, <1>3, <1>4 DEF HistoriesAreAccepted

\* Whatever is recorded beside an audit can be read and computed again, for any number of
\* processes, files, audits and parsers: declarations that replace each other, the PDFs
\* given for their samples, and the interpretations of complete audits (register,
\* register_pdf, register_pdf_backend, append, and their readers).
THEOREM HistoriesReload == RegistrySpec => []HistoriesAreAccepted
<1>1. RegistrySpec => []HistoriesInv
  BY HistoriesStart, HistoriesStep, PTL DEF RegistrySpec
<1> QED
  BY <1>1, HistoriesInvImplies, PTL
===============================================================================
