----------------------------- MODULE BodyExtraction -----------------------------
(***************************************************************************)
(* The body of one paper (src/paper_radar/body): its PDFs, decisions and    *)
(* samples, the extraction of a text under the lock of the data root with   *)
(* two attempts per recipe, the layout reviews, and the basis a reading     *)
(* records when it is claimed.                                              *)
(***************************************************************************)
EXTENDS Integers, FiniteSets, SequencesExt

CONSTANTS
  Extractors,       \* processes that attach PDFs and extract
  PDFs,             \* contents of PDFs
  Recipes,          \* extraction semantics of config snapshots
  MaxAttachments, MaxDecisions, MaxSamples, MaxReviews   \* bounds on the histories

NoOne == "none"     \* nobody holds the root lock; no document
ASSUME ExtractorAssumption == NoOne \notin Extractors

Fingerprints == PDFs \X Recipes
\* An attempt has a failure and the document it published.  "failed" stands for
\* timeout, resource_exhausted and executor_error, "rejected" for the permanent
\* failures.
Transient == {"failed", "outcome_unknown"}

VARIABLES
  body,           \* the tables of body/tables.py, and the current version
  extractors,     \* the Python frame of each caller
  rootLock,       \* who holds .body-docling.lock
  readBases       \* history: the bases that readings recorded

bodyVars == <<body, extractors, rootLock, readBases>>

-------------------------------------------------------------------------------
(* Queries *)

\* current_pdf: the latest attachment of the current version, 0 for none.
CurrentPdf(b) ==
  Max({0} \cup {n \in DOMAIN b.attachments : b.attachments[n].version = b.current})
PdfOf(b, n) == b.attachments[n].pdf

\* extraction_view
AttemptsOf(b, f) == b.attempts[f]
Settled(b, f, n) == AttemptsOf(b, f)[n].failure # "unsettled"
HasDocument(b, f) == \E n \in DOMAIN AttemptsOf(b, f) : AttemptsOf(b, f)[n].document # NoOne
Denied(b, f) == b.successes[f] # 0 /\ FALSE \in ToSet(b.reviews[f])
FailedForGood(b, f) ==
  Denied(b, f) \/ \E n \in DOMAIN AttemptsOf(b, f) : AttemptsOf(b, f)[n].failure = "rejected"
Exhausted(b, f) == HasDocument(b, f) \/ FailedForGood(b, f) \/ Len(AttemptsOf(b, f)) = 2
QualityPassed(b, f) == b.successes[f] # 0 /\ b.reviews[f] # <<>> /\ ~Denied(b, f)

\* current_body: the only success for the current PDF.
CurrentBody(b) ==
  IF CurrentPdf(b) = 0 THEN {}
  ELSE {f \in Fingerprints : f[1] = PdfOf(b, CurrentPdf(b)) /\ b.successes[f] # 0}

\* assemble_facts without any reason against it, on an experiment root.
MayBeRead(b, f) ==
  /\ b.root = "experiment"
  /\ b.decisions # <<>> /\ Last(b.decisions)
  /\ CurrentBody(b) = {f} /\ QualityPassed(b, f)
  /\ b.samples # <<>>
  /\ Last(b.samples) = [version |-> b.current, pdf |-> f[1]]

-------------------------------------------------------------------------------
(* Facts *)

AtRest == [at |-> "idle"]
Does(c, frame) == extractors' = [extractors EXCEPT ![c] = frame]

\* The facts of the paper move on to a journal version.
NewVersion ==
  /\ body.current = 1
  /\ body' = [body EXCEPT !.current = 2]
  /\ UNCHANGED <<extractors, rootLock, readBases>>

RegisterRoot(purpose) ==
  /\ body.root = "unknown"
  /\ body' = [body EXCEPT !.root = purpose]
  /\ UNCHANGED <<extractors, rootLock, readBases>>

\* attach_pdf: the default version is the current one when the call begins; the
\* artifact is published before the transaction.
BeginAttachment(c, pdf, version) ==
  /\ extractors[c] = AtRest /\ version \in 0..body.current
  /\ Does(c, [at |-> "attaching", pdf |-> pdf, asked |-> version,
              version |-> IF version = 0 THEN body.current ELSE version])
  /\ UNCHANGED <<body, rootLock, readBases>>
StoreAttachment(c) ==
  LET x == extractors[c]
      drifted == x.asked = 0 /\ body.current # x.version
  IN /\ extractors[c].at = "attaching"
     /\ drifted \/ Len(body.attachments) < MaxAttachments
     /\ body' = IF drifted THEN body
                ELSE [body EXCEPT !.attachments = Append(@, [version |-> x.version, pdf |-> x.pdf])]
     /\ Does(c, AtRest)
     /\ UNCHANGED <<rootLock, readBases>>

Decide(accepted) ==
  /\ Len(body.decisions) < MaxDecisions
  /\ body' = [body EXCEPT !.decisions = Append(@, accepted)]
  /\ UNCHANGED <<extractors, rootLock, readBases>>

\* freeze_sample: the current PDF on an experiment root.
FreezeSample(pdf) ==
  LET n == CurrentPdf(body)
  IN /\ body.root = "experiment" /\ n # 0 /\ PdfOf(body, n) = pdf
     /\ Len(body.samples) < MaxSamples
     /\ body' = [body EXCEPT !.samples = Append(@, [version |-> body.current, pdf |-> pdf])]
     /\ UNCHANGED <<extractors, rootLock, readBases>>

\* review_layout: after a denial a document is not passed any more.
ReviewLayout(f, passed) ==
  /\ body.successes[f] # 0 /\ Len(body.reviews[f]) < MaxReviews
  /\ passed => ~Denied(body, f)
  /\ body' = [body EXCEPT !.reviews[f] = Append(@, passed)]
  /\ UNCHANGED <<extractors, rootLock, readBases>>

\* A reading is claimed: read_basis_in_connection.
LatestPassed(f) == Max({n \in DOMAIN body.reviews[f] : body.reviews[f][n]})
RecordBasis(f) ==
  /\ MayBeRead(body, f)
  /\ readBases' = readBases \cup
       {[fingerprint |-> f, root |-> body.root, decision |-> Len(body.decisions),
         attachment |-> CurrentPdf(body), sample |-> Len(body.samples), review |-> LatestPassed(f)]}
  /\ UNCHANGED <<body, extractors, rootLock>>

-------------------------------------------------------------------------------
(* Extraction *)

\* extract: the PDF is selected and read, then the caller waits for the lock.
SelectPdf(c, recipe) ==
  /\ extractors[c] = AtRest /\ CurrentPdf(body) # 0
  /\ Does(c, [at |-> "waiting", selected |-> CurrentPdf(body), recipe |-> recipe])
  /\ UNCHANGED <<body, rootLock, readBases>>

TakeRootLockShared(c) ==
  /\ extractors[c].at = "waiting"
  /\ rootLock' = c
  /\ Does(c, [extractors[c] EXCEPT !.at = "locked"])
  /\ UNCHANGED <<body, readBases>>
TakeRootLock(c) ==
  /\ extractors[c].at = "waiting" /\ rootLock = NoOne
  /\ rootLock' = c
  /\ Does(c, [extractors[c] EXCEPT !.at = "locked"])
  /\ UNCHANGED <<body, readBases>>
Release(c) == rootLock' = IF rootLock = c THEN NoOne ELSE rootLock

\* The attempts of a fingerprint once the lost ones are settled as unknown.
Recovered(b, f) ==
  [b EXCEPT !.attempts[f] = [n \in DOMAIN @ |->
     IF @[n].failure = "unsettled" THEN [@[n] EXCEPT !.failure = "outcome_unknown"] ELSE @[n]]]
\* The claim: one transaction under the lock.
ClaimAttempt(c) ==
  LET selected == extractors[c].selected
      f == <<PdfOf(body, selected), extractors[c].recipe>>
      recovered == Recovered(body, f)
  IN /\ extractors[c].at = "locked"
     /\ \/ /\ CurrentPdf(body) # selected
           /\ Does(c, AtRest) /\ Release(c) /\ UNCHANGED body
        \/ /\ CurrentPdf(body) = selected /\ Exhausted(recovered, f)
           /\ body' = recovered
           /\ Does(c, AtRest) /\ Release(c)
        \/ /\ CurrentPdf(body) = selected /\ ~Exhausted(recovered, f)
           /\ body' = [recovered EXCEPT !.attempts[f] =
                         Append(@, [failure |-> "unsettled", document |-> NoOne])]
           /\ Does(c, [at |-> "converting", fingerprint |-> f,
                       ordinal |-> Len(AttemptsOf(body, f)) + 1])
           /\ UNCHANGED rootLock
     /\ UNCHANGED readBases

\* The worker fails, or a document is published, outside any transaction.
Results == {[failure |-> "failed", document |-> NoOne],
            [failure |-> "rejected", document |-> NoOne],
            [failure |-> "rejected", document |-> "unsound"],
            [failure |-> "none", document |-> "sound"]}
Convert(c, result) ==
  /\ extractors[c].at = "converting"
  /\ Does(c, [at |-> "settling", fingerprint |-> extractors[c].fingerprint,
              ordinal |-> extractors[c].ordinal, result |-> result])
  /\ UNCHANGED <<body, rootLock, readBases>>

\* The outcome and the success are one transaction; an attempt that is settled
\* already violates the primary key.
SettleAttempt(c) ==
  LET x == extractors[c]  f == x.fingerprint
  IN /\ extractors[c].at = "settling"
     /\ \/ /\ ~Settled(body, f, x.ordinal)
           /\ body' = [body EXCEPT !.attempts[f][x.ordinal] = x.result,
                         !.successes[f] = IF x.result.failure = "none" THEN x.ordinal ELSE @]
           /\ Does(c, AtRest)
        \/ /\ Settled(body, f, x.ordinal)
           /\ Does(c, [x EXCEPT !.at = "refused"])
           /\ UNCHANGED body
     /\ Release(c)
     /\ UNCHANGED readBases

\* A kill or an interrupt; the kernel gives the lock back.
KillExtractor(c) ==
  /\ extractors[c] # AtRest
  /\ Does(c, AtRest) /\ Release(c)
  /\ UNCHANGED <<body, readBases>>

BodyInit ==
  /\ body = [current |-> 1, root |-> "unknown", attachments |-> <<>>, decisions |-> <<>>,
             samples |-> <<>>, attempts |-> [f \in Fingerprints |-> <<>>],
             successes |-> [f \in Fingerprints |-> 0], reviews |-> [f \in Fingerprints |-> <<>>]]
  /\ extractors = [c \in Extractors |-> AtRest]
  /\ rootLock = NoOne /\ readBases = {}

BodyNext ==
  \/ NewVersion
  \/ \E purpose \in {"experiment", "production"} : RegisterRoot(purpose)
  \/ \E accepted \in BOOLEAN : Decide(accepted)
  \/ \E pdf \in PDFs : FreezeSample(pdf)
  \/ \E f \in Fingerprints :
       RecordBasis(f) \/ \E passed \in BOOLEAN : ReviewLayout(f, passed)
  \/ \E c \in Extractors :
       \/ \E pdf \in PDFs, version \in 0..2 : BeginAttachment(c, pdf, version)
       \/ \E recipe \in Recipes : SelectPdf(c, recipe)
       \/ \E result \in Results : Convert(c, result)
       \/ StoreAttachment(c) \/ TakeRootLock(c) \/ ClaimAttempt(c)
       \/ SettleAttempt(c) \/ KillExtractor(c)

BodySpec == BodyInit /\ [][BodyNext]_bodyVars

-------------------------------------------------------------------------------
(* What validate_all accepts of a fingerprint *)

AttemptsAccepted(f) ==
  LET attempts == AttemptsOf(body, f)
  IN /\ Len(attempts) <= 2
     /\ attempts # <<>> => \E n \in DOMAIN body.attachments : PdfOf(body, n) = f[1]
     /\ \A n \in DOMAIN attempts :
          n < Len(attempts) => attempts[n].failure \in Transient /\ attempts[n].document = NoOne
     /\ \A n \in DOMAIN attempts :
          attempts[n].document = "sound" <=> body.successes[f] = n
     /\ body.successes[f] = 0 => body.reviews[f] = <<>>

\* validate_read_basis_in_connection
BasisHolds(x) ==
  LET f == x.fingerprint  attachment == body.attachments[x.attachment]
  IN /\ body.root = x.root /\ body.decisions[x.decision]
     /\ body.successes[f] # 0 /\ attachment.pdf = f[1]
     /\ body.samples[x.sample] = attachment
     /\ body.reviews[f][x.review]

\* Everything the body of a paper holds is accepted by validate_all
\* (body/validation.py:34), whoever was killed between claim, publication and
\* settlement: a lost attempt is taken for lost only when its holder is gone
\* (body/extraction.py:259), so that no holder finds its attempt settled by
\* another and none converts beside another (:251, :304); and a basis that a
\* reading has recorded stands whatever is attached, decided or reviewed later
\* (body/service.py:462).
BodyIsAccepted ==
  /\ \A f \in Fingerprints : AttemptsAccepted(f)
  /\ \A n \in DOMAIN body.samples :
       body.root = "experiment" /\ body.samples[n] \in ToSet(body.attachments)
  /\ \A c \in Extractors :
       /\ extractors[c].at # "refused"
       /\ extractors[c].at \in {"converting", "settling"} =>
            ~Settled(body, extractors[c].fingerprint, extractors[c].ordinal)
  /\ Cardinality({c \in Extractors : extractors[c].at \in {"locked", "converting", "settling"}}) <= 1
  /\ \A x \in readBases : BasisHolds(x)
=============================================================================
