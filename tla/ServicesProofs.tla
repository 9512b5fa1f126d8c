----------------------------- MODULE ServicesProofs -----------------------------
(***************************************************************************)
(* Proofs about the two services that keep a history beside the papers:    *)
(* the bodies with their extractions, and the audit of the fixtures, for   *)
(* any number of callers, PDFs, recipes and any length of the histories.   *)
(*                                                                         *)
(* BInv adds to a body what its callers hold: the rows that a settlement   *)
(* relies on are those of the claim, because the lock of the root is held, *)
(* and the bases of readings refer to rows that are only ever added to.    *)
(*                                                                         *)
(* AInv adds to the audit that every reference is to a row that is there,  *)
(* and that no choice has seen an execution that is still being fetched:   *)
(* settling one then changes nothing that a loader or a summary has seen.  *)
(*                                                                         *)
(* Goes adds that the executions are in order: a key tells what was        *)
(* continued, the samples of a route are numbered without a gap, nothing   *)
(* continues the frozen feed, and the interpreted executions of a route    *)
(* are the first ones of its chain. Each caller then goes on with what its *)
(* next step asks for. Only an execution that somebody continued under a   *)
(* key of his own can end that order.                                      *)
(***************************************************************************)
EXTENDS BodyExtraction, FixtureAudit, FiniteSetTheorems, SequenceTheorems,
        WellFoundedInduction, TLAPS

-------------------------------------------------------------------------------
(* Positions *)

\* A nonempty set of positions, with 0 or not, has a largest one.
LEMMA LargestPosition ==
  ASSUME NEW n \in Nat, NEW S, S \subseteq 0..n, S # {}
  PROVE  Max(S) \in S /\ \A y \in S : Max(S) >= y
<1> DEFINE R == {ss \in Nat \X Nat : ss[1] < ss[2]}
           T == {n - x : x \in S}
<1>1. T \subseteq Nat /\ T # {}
  <2>1. \A x \in S : n - x \in Nat
    OBVIOUS
  <2> QED
    BY <2>1
<1>2. IsWellFoundedOn(R, Nat)
  BY NatLessThanWellFounded DEF OpToRel
<1>3. PICK t \in T : \A y \in T : ~ (<<y, t>> \in R)
  BY <1>1, <1>2, WFMin
<1>4. \A y \in T : ~ (y < t)
  BY <1>1, <1>3
<1>5. PICK x \in S : t = n - x
  OBVIOUS
<1>6. \A y \in S : x >= y
  BY <1>4, <1>5
<1> QED
  BY <1>6 DEF Max

\* An element that is appended comes after all others.
LEMMA Appended ==
  ASSUME NEW S, NEW s \in Seq(S), NEW x \in S
  PROVE  /\ Append(s, x) \in Seq(S)
         /\ Len(Append(s, x)) = Len(s) + 1
         /\ Len(s) \in Nat /\ DOMAIN s = 1..Len(s) /\ DOMAIN Append(s, x) = 1..(Len(s) + 1)
         /\ \A i \in DOMAIN s : Append(s, x)[i] = s[i]
         /\ Append(s, x)[Len(s) + 1] = x
         /\ ToSet(Append(s, x)) = ToSet(s) \cup {x}
<1> DEFINE t == Append(s, x)
<1>1. /\ t \in Seq(S) /\ Len(t) = Len(s) + 1
      /\ \A i \in 1..Len(s) : t[i] = s[i]
      /\ t[Len(s) + 1] = x
  BY AppendProperties
<1>2. DOMAIN s = 1..Len(s) /\ Len(s) \in Nat /\ DOMAIN t = 1..(Len(s) + 1)
  BY <1>1, LenProperties
<1>3. {t[i] : i \in DOMAIN t} = {s[i] : i \in DOMAIN s} \cup {x}
  BY <1>1, <1>2
<1> QED
  BY <1>1, <1>2, <1>3 DEF ToSet

\* The smallest of some positions is one of them.
LEMMA SmallestPosition ==
  ASSUME NEW S, S \subseteq Nat, S # {}
  PROVE  Min(S) \in S /\ \A y \in S : Min(S) <= y
<1> DEFINE R == {ss \in Nat \X Nat : ss[1] < ss[2]}
<1>1. IsWellFoundedOn(R, Nat)
  BY NatLessThanWellFounded DEF OpToRel
<1>2. PICK x \in S : \A y \in S : ~ (<<y, x>> \in R)
  BY <1>1, WFMin
<1>3. \A y \in S : ~ (y < x)
  BY <1>2
<1>4. \A y \in S : x <= y
  BY <1>3
<1> QED
  BY <1>4 DEF Min

-------------------------------------------------------------------------------
(* Bodies: types *)

Attachment == [version : {1, 2}, pdf : PDFs]
AttemptRow ==
  [failure : {"unsettled"} \cup Transient, document : {NoOne}] \cup Results
BodyState ==
  [current : {1, 2}, root : {"unknown", "experiment", "production"},
   attachments : Seq(Attachment), decisions : Seq(BOOLEAN), samples : Seq(Attachment),
   attempts : [Fingerprints -> Seq(AttemptRow)], successes : [Fingerprints -> Nat],
   reviews : [Fingerprints -> Seq(BOOLEAN)]]
ExtractorFrame ==
  {AtRest}
  \cup [at : {"attaching"}, pdf : PDFs, asked : 0..2, version : {1, 2}]
  \cup [at : {"waiting", "locked"}, selected : Nat, recipe : Recipes]
  \cup [at : {"converting"}, fingerprint : Fingerprints, ordinal : Nat]
  \cup [at : {"settling"}, fingerprint : Fingerprints, ordinal : Nat, result : Results]
Basis ==
  [fingerprint : Fingerprints, root : {"unknown", "experiment", "production"},
   decision : Nat, attachment : Nat, sample : Nat, review : Nat]

BodyTypeOK ==
  /\ body \in BodyState
  /\ extractors \in [Extractors -> ExtractorFrame]
  /\ rootLock \in Extractors \cup {NoOne}
  /\ readBases \subseteq Basis

-------------------------------------------------------------------------------
(* Bodies: the inductive invariant *)

Attached(b, pdf) == \E n \in DOMAIN b.attachments : b.attachments[n].pdf = pdf

\* Only the last attempt of a fingerprint may be more than a lost or failed one;
\* its success, if it has one, is the attempt that published a sound document.
FingerprintSound(b, f) ==
  LET rows == b.attempts[f]
  IN /\ Len(rows) <= 2
     /\ rows # <<>> => Attached(b, f[1])
     /\ \A n \in DOMAIN rows :
          /\ n < Len(rows) => rows[n].failure \in Transient /\ rows[n].document = NoOne
          /\ rows[n].document = "sound" <=> b.successes[f] = n
     /\ b.successes[f] \in 0..Len(rows)
     /\ b.successes[f] = 0 => b.reviews[f] = <<>>

SamplesSound(b) ==
  \A n \in DOMAIN b.samples : b.root = "experiment" /\ b.samples[n] \in ToSet(b.attachments)

\* A caller that has claimed an attempt holds the lock, and its attempt is the last
\* of its fingerprint and open.
HoldsLock(x) == x.at \in {"locked", "converting", "settling"}
ExtractorSound(b, x) ==
  /\ x.at \in {"waiting", "locked"} => x.selected \in DOMAIN b.attachments
  /\ x.at \in {"converting", "settling"} =>
       /\ x.ordinal = Len(b.attempts[x.fingerprint]) /\ x.ordinal # 0
       /\ b.attempts[x.fingerprint][x.ordinal] = [failure |-> "unsettled", document |-> NoOne]

\* A basis that was recorded refers to rows that are there and stay.
BasisSound(b, x) ==
  LET f == x.fingerprint
  IN /\ b.root = x.root /\ b.root # "unknown"
     /\ x.decision \in DOMAIN b.decisions /\ b.decisions[x.decision]
     /\ b.successes[f] # 0
     /\ x.attachment \in DOMAIN b.attachments /\ b.attachments[x.attachment].pdf = f[1]
     /\ x.sample \in DOMAIN b.samples /\ b.samples[x.sample] = b.attachments[x.attachment]
     /\ x.review \in DOMAIN b.reviews[f] /\ b.reviews[f][x.review]

BodySound ==
  /\ \A f \in Fingerprints : FingerprintSound(body, f)
  /\ SamplesSound(body)
ExtractorsSound ==
  \A c \in Extractors :
    /\ ExtractorSound(body, extractors[c])
    /\ HoldsLock(extractors[c]) => rootLock = c
BasesSound == \A x \in readBases : BasisSound(body, x)

BInv == BodyTypeOK /\ BodySound /\ ExtractorsSound /\ BasesSound

-------------------------------------------------------------------------------
(* Bodies: attachments *)

\* The current PDF is an attachment of the current version.
LEMMA CurrentPdfIsAttached ==
  ASSUME NEW b \in BodyState
  PROVE  /\ CurrentPdf(b) \in Nat
         /\ CurrentPdf(b) # 0 =>
              /\ CurrentPdf(b) \in DOMAIN b.attachments
              /\ b.attachments[CurrentPdf(b)].version = b.current
<1> DEFINE S == {0} \cup {n \in DOMAIN b.attachments : b.attachments[n].version = b.current}
<1>1. b.attachments \in Seq(Attachment)
  BY DEF BodyState
<1>2. Len(b.attachments) \in Nat /\ DOMAIN b.attachments = 1..Len(b.attachments)
  BY <1>1, LenProperties
<1>3. S \subseteq 0..Len(b.attachments) /\ S # {}
  BY <1>2
<1>4. Max(S) \in S
  BY <1>2, <1>3, LargestPosition
<1> QED
  BY <1>2, <1>3, <1>4 DEF CurrentPdf

-------------------------------------------------------------------------------
(* Bodies: the invariant holds at the start and after each step *)

\* Nothing is attached, attempted or recorded at the start.
LEMMA BodyInitInv ==
  BodyInit => BInv
<1> SUFFICES ASSUME BodyInit PROVE BInv
  OBVIOUS
<1>1. BodyTypeOK
  BY DEF BodyInit, BodyTypeOK, BodyState, ExtractorFrame, AtRest
<1>2. BodySound
  BY DEF BodyInit, BodySound, FingerprintSound, SamplesSound
<1>3. ExtractorsSound
  BY DEF BodyInit, ExtractorsSound, ExtractorSound, HoldsLock, AtRest
<1>4. BasesSound
  BY DEF BodyInit, BasesSound
<1> QED
  BY <1>1, <1>2, <1>3, <1>4 DEF BInv

\* What a body may do beside the extraction of a text: its rows are kept, its
\* attempts are left alone and its success has no other reviews than appended ones.
Extends(a, b) ==
  /\ b.root = a.root \/ a.root = "unknown"
  /\ DOMAIN a.attachments \subseteq DOMAIN b.attachments
  /\ \A n \in DOMAIN a.attachments : b.attachments[n] = a.attachments[n]
  /\ DOMAIN a.decisions \subseteq DOMAIN b.decisions
  /\ \A n \in DOMAIN a.decisions : b.decisions[n] = a.decisions[n]
  /\ DOMAIN a.samples \subseteq DOMAIN b.samples
  /\ \A n \in DOMAIN a.samples : b.samples[n] = a.samples[n]
  /\ \A f \in Fingerprints :
       /\ a.successes[f] # 0 => b.successes[f] # 0
       /\ DOMAIN a.reviews[f] \subseteq DOMAIN b.reviews[f]
       /\ \A n \in DOMAIN a.reviews[f] : b.reviews[f][n] = a.reviews[f][n]

\* A basis refers to rows only, so it stands in every body that keeps them.
LEMMA BasesStand ==
  ASSUME NEW a, NEW b, Extends(a, b), NEW x \in Basis, BasisSound(a, x)
  PROVE  BasisSound(b, x)
<1> x.fingerprint \in Fingerprints
  BY DEF Basis
<1> QED
  BY DEF Extends, BasisSound

\* A fact that is added, in a body whose attempts stay as they are, keeps it sound.
LEMMA FactsKeepSound ==
  ASSUME BInv, body' \in BodyState, Extends(body, body'),
         body'.attempts = body.attempts, body'.successes = body.successes,
         \A f \in Fingerprints : body.successes[f] = 0 => body'.reviews[f] = body.reviews[f],
         SamplesSound(body)', UNCHANGED rootLock,
         extractors' \in [Extractors -> ExtractorFrame],
         \A c \in Extractors : extractors'[c] = extractors[c] \/ extractors'[c] = AtRest
                               \/ extractors'[c].at = "attaching",
         readBases' = readBases
  PROVE  BInv'
<1>1. BodyTypeOK'
  BY DEF BInv, BodyTypeOK
<1>2. ASSUME NEW f \in Fingerprints
      PROVE  FingerprintSound(body', f)
  <2>1. FingerprintSound(body, f)
    BY DEF BInv, BodySound
  <2>2. Attached(body, f[1]) => Attached(body', f[1])
    BY DEF Extends, Attached
  <2> QED
    BY <2>1, <2>2 DEF FingerprintSound
<1>3. ASSUME NEW c \in Extractors
      PROVE  ExtractorSound(body', extractors'[c]) /\ (HoldsLock(extractors'[c]) => rootLock' = c)
  <2>1. CASE extractors'[c] = extractors[c]
    BY <2>1 DEF BInv, ExtractorsSound, ExtractorSound, Extends
  <2>2. CASE extractors'[c] = AtRest \/ extractors'[c].at = "attaching"
    BY <2>2 DEF AtRest, ExtractorSound, HoldsLock
  <2> QED
    BY <2>1, <2>2
<1>4. BasesSound'
  BY BasesStand DEF BInv, BasesSound, BodyTypeOK
<1> QED
  BY <1>1, <1>2, <1>3, <1>4 DEF BInv, BodySound, ExtractorsSound

\* What a fact leaves alone stays.
LEMMA SameExtends ==
  ASSUME NEW b PROVE Extends(b, b)
BY DEF Extends

\* The facts of the paper move on to a journal version.
LEMMA NewVersionInv ==
  ASSUME BInv, NewVersion PROVE BInv'
<1>1. body' \in BodyState
  BY DEF NewVersion, BInv, BodyTypeOK, BodyState
<1>2. Extends(body, body') /\ SamplesSound(body)'
  BY DEF NewVersion, BInv, BodySound, SamplesSound, Extends, BodyTypeOK, BodyState
<1> QED
  BY <1>1, <1>2, FactsKeepSound DEF NewVersion, BInv, BodyTypeOK, BodyState

\* A root has the purpose it is registered with.
LEMMA RegisterRootInv ==
  ASSUME BInv, NEW purpose \in {"experiment", "production"}, RegisterRoot(purpose) PROVE BInv'
<1>1. body' \in BodyState
  BY DEF RegisterRoot, BInv, BodyTypeOK, BodyState
<1>2. Extends(body, body') /\ SamplesSound(body)'
  BY DEF RegisterRoot, BInv, BodySound, SamplesSound, Extends, BodyTypeOK, BodyState
<1> QED
  BY <1>1, <1>2, FactsKeepSound DEF RegisterRoot, BInv, BodyTypeOK, BodyState

\* An attachment is compared with the current version and PDF.
LEMMA BeginAttachmentInv ==
  ASSUME BInv, NEW c \in Extractors, NEW pdf \in PDFs, NEW version \in 0..2,
         BeginAttachment(c, pdf, version)
  PROVE  BInv'
<1> DEFINE x == [at |-> "attaching", pdf |-> pdf, asked |-> version,
                 version |-> IF version = 0 THEN body.current ELSE version]
<1>1. body.current \in {1, 2}
  BY DEF BInv, BodyTypeOK, BodyState
<1>2. x \in ExtractorFrame
  BY <1>1 DEF ExtractorFrame
<1>3. extractors' = [extractors EXCEPT ![c] = x]
  BY DEF BeginAttachment, Does
<1>4. extractors' \in [Extractors -> ExtractorFrame]
  BY <1>2, <1>3 DEF BInv, BodyTypeOK
<1>5. \A d \in Extractors : extractors'[d] = extractors[d] \/ extractors'[d].at = "attaching"
  BY <1>3 DEF BInv, BodyTypeOK
<1>6. Extends(body, body') /\ SamplesSound(body)'
  BY SameExtends DEF BeginAttachment, BInv, BodySound
<1> QED
  BY <1>4, <1>5, <1>6, FactsKeepSound DEF BeginAttachment, BInv, BodyTypeOK

\* An attachment is stored if what it was compared with is still current.
LEMMA StoreAttachmentInv ==
  ASSUME BInv, NEW c \in Extractors, StoreAttachment(c) PROVE BInv'
<1> DEFINE x == extractors[c]
           row == [version |-> x.version, pdf |-> x.pdf]
<1>1. x \in [at : {"attaching"}, pdf : PDFs, asked : 0..2, version : {1, 2}]
  BY DEF StoreAttachment, BInv, BodyTypeOK, ExtractorFrame, AtRest
<1>2. row \in Attachment
  BY <1>1 DEF Attachment
<1>3. body.attachments \in Seq(Attachment)
  BY DEF BInv, BodyTypeOK, BodyState
<1>4. \/ body' = body
      \/ body' = [body EXCEPT !.attachments = Append(@, row)]
  BY DEF StoreAttachment
<1>5. body' \in BodyState /\ Extends(body, body') /\ SamplesSound(body)'
  <2>1. CASE body' = body
    BY <2>1, SameExtends DEF BInv, BodyTypeOK, BodySound
  <2>2. CASE body' = [body EXCEPT !.attachments = Append(@, row)]
    <3>1. body' \in BodyState /\ body'.attachments = Append(body.attachments, row)
      BY <2>2, <1>2, <1>3, Appended DEF BInv, BodyTypeOK, BodyState
    <3>2. Extends(body, body')
      BY <2>2, <3>1, <1>2, <1>3, Appended DEF Extends, BInv, BodyTypeOK, BodyState
    <3>3. SamplesSound(body)'
      BY <2>2, <3>1, <1>2, <1>3, Appended DEF SamplesSound, BInv, BodySound, BodyTypeOK, BodyState
    <3> QED
      BY <3>1, <3>2, <3>3
  <2> QED
    BY <1>4, <2>1, <2>2
<1>6. extractors' = [extractors EXCEPT ![c] = AtRest]
  BY DEF StoreAttachment, Does
<1>7. /\ extractors' \in [Extractors -> ExtractorFrame]
      /\ \A d \in Extractors : extractors'[d] = extractors[d] \/ extractors'[d] = AtRest
  BY <1>6 DEF BInv, BodyTypeOK, ExtractorFrame
<1>8. body'.attempts = body.attempts /\ body'.successes = body.successes /\ body'.reviews = body.reviews
  BY <1>4 DEF BInv, BodyTypeOK, BodyState
<1> QED
  BY <1>5, <1>7, <1>8, FactsKeepSound DEF StoreAttachment

\* A decision is appended.
LEMMA DecideInv ==
  ASSUME BInv, NEW accepted \in BOOLEAN, Decide(accepted) PROVE BInv'
<1>1. body.decisions \in Seq(BOOLEAN)
  BY DEF BInv, BodyTypeOK, BodyState
<1>2. body' \in BodyState /\ body'.decisions = Append(body.decisions, accepted)
  BY <1>1, Appended DEF Decide, BInv, BodyTypeOK, BodyState
<1>3. Extends(body, body') /\ SamplesSound(body)'
  BY <1>1, <1>2, Appended
     DEF Decide, BInv, BodySound, SamplesSound, Extends, BodyTypeOK, BodyState
<1> QED
  BY <1>2, <1>3, FactsKeepSound DEF Decide, BInv, BodyTypeOK, BodyState

\* A sample holds the current PDF of the current version.
LEMMA FreezeSampleInv ==
  ASSUME BInv, NEW pdf \in PDFs, FreezeSample(pdf) PROVE BInv'
<1> DEFINE row == [version |-> body.current, pdf |-> pdf]
           n == CurrentPdf(body)
<1>1. body.samples \in Seq(Attachment) /\ row \in Attachment
  BY DEF BInv, BodyTypeOK, BodyState, Attachment
<1>2. body' \in BodyState /\ body'.samples = Append(body.samples, row)
  BY <1>1, Appended DEF FreezeSample, BInv, BodyTypeOK, BodyState
<1>3. n \in DOMAIN body.attachments /\ body.attachments[n].version = body.current
      /\ body.attachments[n].pdf = pdf
  BY CurrentPdfIsAttached DEF FreezeSample, PdfOf, BInv, BodyTypeOK
<1>4. body.attachments[n] \in Attachment
  <2>1. body.attachments \in Seq(Attachment)
    BY DEF BInv, BodyTypeOK, BodyState
  <2> QED
    BY <2>1, <1>3, ElementOfSeq, LenProperties
<1>5. row \in ToSet(body.attachments)
  <2>1. row = body.attachments[n]
    BY <1>3, <1>4 DEF Attachment
  <2> QED
    BY <2>1, <1>3 DEF ToSet
<1>6. Extends(body, body')
  BY <1>1, <1>2, Appended DEF FreezeSample, BInv, Extends, BodyTypeOK, BodyState
<1>7. SamplesSound(body)'
  BY <1>1, <1>2, <1>5, Appended
     DEF FreezeSample, BInv, BodySound, SamplesSound, BodyTypeOK, BodyState
<1> QED
  BY <1>2, <1>6, <1>7, FactsKeepSound DEF FreezeSample, BInv, BodyTypeOK, BodyState

\* A review of the layout is appended to a successful extraction.
LEMMA ReviewLayoutInv ==
  ASSUME BInv, NEW f \in Fingerprints, NEW passed \in BOOLEAN, ReviewLayout(f, passed)
  PROVE  BInv'
<1>1. body.reviews[f] \in Seq(BOOLEAN) /\ body.reviews \in [Fingerprints -> Seq(BOOLEAN)]
  BY DEF BInv, BodyTypeOK, BodyState
<1>2. body' = [body EXCEPT !.reviews[f] = Append(@, passed)]
  BY DEF ReviewLayout
<1>3. body'.reviews = [body.reviews EXCEPT ![f] = Append(@, passed)]
  BY <1>2 DEF BInv, BodyTypeOK, BodyState
<1>4. body' \in BodyState
  BY <1>1, <1>2, Appended DEF BInv, BodyTypeOK, BodyState
<1>5. Extends(body, body')
  BY <1>1, <1>2, <1>3, Appended DEF BInv, Extends, BodyTypeOK, BodyState
<1>6. SamplesSound(body)'
  BY <1>2 DEF BInv, BodySound, SamplesSound, BodyTypeOK, BodyState
<1> QED
  BY <1>2, <1>3, <1>4, <1>5, <1>6, FactsKeepSound DEF ReviewLayout, BInv, BodyTypeOK, BodyState

\* A basis is recorded of the rows a reading may rest on.
LEMMA RecordBasisInv ==
  ASSUME BInv, NEW f \in Fingerprints, RecordBasis(f) PROVE BInv'
<1> DEFINE n == CurrentPdf(body)
           passing == {r \in DOMAIN body.reviews[f] : body.reviews[f][r]}
           x == [fingerprint |-> f, root |-> body.root, decision |-> Len(body.decisions),
                 attachment |-> n, sample |-> Len(body.samples), review |-> LatestPassed(f)]
<1>1. /\ body.attachments \in Seq(Attachment) /\ body.samples \in Seq(Attachment)
      /\ body.decisions \in Seq(BOOLEAN) /\ body.reviews[f] \in Seq(BOOLEAN)
      /\ body \in BodyState
  BY DEF BInv, BodyTypeOK, BodyState
<1>2. MayBeRead(body, f) /\ readBases' = readBases \cup {x} /\ UNCHANGED <<body, extractors, rootLock>>
  BY DEF RecordBasis
<1>3. n # 0 /\ PdfOf(body, n) = f[1] /\ body.successes[f] # 0
  BY <1>2 DEF MayBeRead, CurrentBody
<1>4. n \in DOMAIN body.attachments /\ body.attachments[n].version = body.current
      /\ body.attachments[n].pdf = f[1]
  BY <1>1, <1>3, CurrentPdfIsAttached DEF PdfOf
<1>5. Len(body.decisions) \in DOMAIN body.decisions /\ body.decisions[Len(body.decisions)]
  BY <1>1, <1>2, LenProperties, EmptySeq DEF MayBeRead, Last
<1>6. /\ Len(body.samples) \in DOMAIN body.samples
      /\ body.samples[Len(body.samples)] = body.attachments[n]
  <2>1. body.samples # <<>> /\ Last(body.samples) = [version |-> body.current, pdf |-> f[1]]
    BY <1>2 DEF MayBeRead
  <2>2. Len(body.samples) \in DOMAIN body.samples
    BY <2>1, <1>1, LenProperties, EmptySeq
  <2>3. body.attachments[n] \in Attachment
    BY <1>1, <1>4, ElementOfSeq, LenProperties
  <2> QED
    BY <2>1, <2>2, <2>3, <1>4 DEF Last, Attachment
<1>7. LatestPassed(f) \in DOMAIN body.reviews[f] /\ body.reviews[f][LatestPassed(f)]
  <2>1. body.reviews[f] # <<>> /\ FALSE \notin ToSet(body.reviews[f])
    BY <1>2 DEF MayBeRead, QualityPassed, Denied
  <2>2. Len(body.reviews[f]) \in Nat /\ Len(body.reviews[f]) # 0
        /\ DOMAIN body.reviews[f] = 1..Len(body.reviews[f])
    BY <2>1, <1>1, LenProperties, EmptySeq
  <2>3. body.reviews[f][1] \in BOOLEAN /\ body.reviews[f][1] \in ToSet(body.reviews[f])
    <3>1. 1 \in 1..Len(body.reviews[f])
      BY <2>2
    <3>2. body.reviews[f][1] \in BOOLEAN
      BY <3>1, <1>1, ElementOfSeq
    <3> QED
      BY <3>1, <3>2, <2>2 DEF ToSet
  <2>4. body.reviews[f][1] = TRUE
    BY <2>1, <2>3
  <2>5. 1 \in passing /\ passing \subseteq 0..Len(body.reviews[f])
    BY <2>2, <2>4
  <2>6. Max(passing) \in passing
    BY <2>2, <2>5, LargestPosition
  <2> QED
    BY <2>6 DEF LatestPassed
<1>8. x \in Basis
  BY <1>1, <1>4, <1>5, <1>6, <1>7, LenProperties DEF Basis, BodyState
<1>9. BasisSound(body, x)
  BY <1>2, <1>3, <1>4, <1>5, <1>6, <1>7 DEF BasisSound, MayBeRead
<1>10. BodyTypeOK'
  BY <1>2, <1>8 DEF BInv, BodyTypeOK
<1>11. BasesSound'
  BY <1>2, <1>9 DEF BInv, BasesSound
<1> QED
  BY <1>2, <1>10, <1>11 DEF BInv, BodySound, ExtractorsSound

\* A step of one caller that changes its frame and perhaps the lock.
LEMMA FrameKeepsSound ==
  ASSUME BInv, NEW c \in Extractors, NEW x \in ExtractorFrame,
         extractors' = [extractors EXCEPT ![c] = x], UNCHANGED <<body, readBases>>,
         ExtractorSound(body, x), HoldsLock(x) => rootLock' = c,
         rootLock' \in Extractors \cup {NoOne},
         rootLock' = rootLock \/ rootLock \in {c, NoOne}
  PROVE  BInv'
<1>1. BodyTypeOK'
  BY DEF BInv, BodyTypeOK
<1>2. ASSUME NEW d \in Extractors
      PROVE  ExtractorSound(body, extractors[d])' /\ (HoldsLock(extractors[d]) => rootLock = d)'
  <2>1. CASE d = c
    <3>1. extractors'[c] = x
      BY DEF BInv, BodyTypeOK
    <3> QED
      BY <2>1, <3>1
  <2>2. CASE d # c
    <3>1. extractors'[d] = extractors[d]
      BY <2>2 DEF BInv, BodyTypeOK
    <3>2. HoldsLock(extractors[d]) => rootLock' = d
      BY <2>2, ExtractorAssumption DEF BInv, ExtractorsSound
    <3>3. ExtractorSound(body, extractors[d])
      BY DEF BInv, ExtractorsSound
    <3> QED
      BY <3>1, <3>2, <3>3
  <2> QED
    BY <2>1, <2>2
<1>3. BodySound' /\ BasesSound'
  BY DEF BInv, BodySound, BasesSound
<1> QED
  BY <1>1, <1>2, <1>3 DEF BInv, ExtractorsSound

\* The holder of the lock changes the attempts and the success of one fingerprint.
LEMMA ExtractionKeepsSound ==
  ASSUME BInv, NEW c \in Extractors, rootLock = c, NEW x \in ExtractorFrame,
         extractors' = [extractors EXCEPT ![c] = x], readBases' = readBases,
         NEW f \in Fingerprints, NEW rows \in Seq(AttemptRow), NEW success \in Nat,
         body' = [body EXCEPT !.attempts[f] = rows, !.successes[f] = success],
         body.successes[f] # 0 => success = body.successes[f],
         FingerprintSound(body', f),
         ExtractorSound(body', x), HoldsLock(x) => rootLock' = c,
         rootLock' \in Extractors \cup {NoOne}
  PROVE  BInv'
<1>1. body \in BodyState
  BY DEF BInv, BodyTypeOK
<1>2. /\ body' \in BodyState
      /\ body'.attempts = [body.attempts EXCEPT ![f] = rows]
      /\ body'.successes = [body.successes EXCEPT ![f] = success]
      /\ body'.attachments = body.attachments /\ body'.decisions = body.decisions
      /\ body'.samples = body.samples /\ body'.root = body.root /\ body'.reviews = body.reviews
  BY <1>1 DEF BodyState
<1>3. BodyTypeOK'
  BY <1>2 DEF BInv, BodyTypeOK
<1>4. BodySound'
  <2>1. ASSUME NEW g \in Fingerprints
        PROVE  FingerprintSound(body', g)
    <3>1. CASE g = f
      BY <3>1
    <3>2. CASE g # f
      <4>1. body'.attempts[g] = body.attempts[g] /\ body'.successes[g] = body.successes[g]
        BY <1>1, <1>2, <3>2 DEF BodyState
      <4>2. FingerprintSound(body, g)
        BY DEF BInv, BodySound
      <4> QED
        BY <1>2, <4>1, <4>2 DEF FingerprintSound, Attached
    <3> QED
      BY <3>1, <3>2
  <2>2. SamplesSound(body')
    BY <1>2 DEF BInv, BodySound, SamplesSound
  <2> QED
    BY <2>1, <2>2 DEF BodySound
<1>5. ExtractorsSound'
  <2>1. ASSUME NEW d \in Extractors
        PROVE  ExtractorSound(body', extractors'[d]) /\ (HoldsLock(extractors'[d]) => rootLock' = d)
    <3>1. CASE d = c
      <4>1. extractors'[c] = x
        BY DEF BInv, BodyTypeOK
      <4> QED
        BY <3>1, <4>1
    <3>2. CASE d # c
      <4>1. extractors'[d] = extractors[d]
        BY <3>2 DEF BInv, BodyTypeOK
      <4>2. ~HoldsLock(extractors[d]) /\ ExtractorSound(body, extractors[d])
        BY <3>2 DEF BInv, ExtractorsSound
      <4> QED
        BY <1>2, <4>1, <4>2 DEF HoldsLock, ExtractorSound
    <3> QED
      BY <3>1, <3>2
  <2> QED
    BY <2>1 DEF ExtractorsSound
<1>6. Extends(body, body')
  <2>1. \A g \in Fingerprints : body.successes[g] # 0 => body'.successes[g] # 0
    BY <1>1, <1>2 DEF BodyState
  <2> QED
    BY <1>2, <2>1 DEF Extends
<1>7. BasesSound'
  BY <1>6, BasesStand DEF BInv, BasesSound, BodyTypeOK
<1> QED
  BY <1>3, <1>4, <1>5, <1>7 DEF BInv

\* The PDF that is current is taken to be extracted.
LEMMA SelectPdfInv ==
  ASSUME BInv, NEW c \in Extractors, NEW recipe \in Recipes, SelectPdf(c, recipe) PROVE BInv'
<1> DEFINE x == [at |-> "waiting", selected |-> CurrentPdf(body), recipe |-> recipe]
<1>1. CurrentPdf(body) \in Nat /\ CurrentPdf(body) \in DOMAIN body.attachments
  BY CurrentPdfIsAttached DEF SelectPdf, BInv, BodyTypeOK
<1>2. x \in ExtractorFrame
  BY <1>1 DEF ExtractorFrame
<1>3. ExtractorSound(body, x) /\ ~HoldsLock(x)
  BY <1>1 DEF ExtractorSound, HoldsLock
<1> QED
  BY <1>2, <1>3, FrameKeepsSound DEF SelectPdf, Does, BInv, BodyTypeOK

\* The lock of the root is taken by one caller.
LEMMA TakeRootLockInv ==
  ASSUME BInv, NEW c \in Extractors, TakeRootLock(c) PROVE BInv'
<1> DEFINE x == [extractors[c] EXCEPT !.at = "locked"]
<1>1. extractors[c] \in [at : {"waiting"}, selected : Nat, recipe : Recipes]
  BY DEF TakeRootLock, BInv, BodyTypeOK, ExtractorFrame, AtRest
<1>2. x \in [at : {"locked"}, selected : Nat, recipe : Recipes] /\ x.selected = extractors[c].selected
  BY <1>1
<1>3. x \in ExtractorFrame
  BY <1>2 DEF ExtractorFrame
<1>4. ExtractorSound(body, extractors[c])
  BY DEF BInv, ExtractorsSound
<1>5. ExtractorSound(body, x)
  BY <1>1, <1>2, <1>4 DEF ExtractorSound
<1> QED
  BY <1>3, <1>5, FrameKeepsSound DEF TakeRootLock, Does

\* A kill leaves the rows and releases the lock.
LEMMA KillExtractorInv ==
  ASSUME BInv, NEW c \in Extractors, KillExtractor(c) PROVE BInv'
<1>1. AtRest \in ExtractorFrame /\ ExtractorSound(body, AtRest) /\ ~HoldsLock(AtRest)
  BY DEF ExtractorFrame, ExtractorSound, HoldsLock, AtRest
<1> QED
  BY <1>1, FrameKeepsSound DEF KillExtractor, Does, Release, BInv, BodyTypeOK

\* A conversion ends and leaves the rows.
LEMMA ConvertInv ==
  ASSUME BInv, NEW c \in Extractors, NEW result \in Results, Convert(c, result) PROVE BInv'
<1> DEFINE x == [at |-> "settling", fingerprint |-> extractors[c].fingerprint,
                 ordinal |-> extractors[c].ordinal, result |-> result]
<1>1. extractors[c] \in [at : {"converting"}, fingerprint : Fingerprints, ordinal : Nat]
  BY DEF Convert, BInv, BodyTypeOK, ExtractorFrame, AtRest
<1>2. x \in ExtractorFrame
  BY <1>1 DEF ExtractorFrame
<1>3. ExtractorSound(body, extractors[c]) /\ rootLock = c
  BY <1>1 DEF BInv, ExtractorsSound, HoldsLock
<1>4. ExtractorSound(body, x)
  BY <1>1, <1>3 DEF ExtractorSound
<1> QED
  BY <1>2, <1>3, <1>4, FrameKeepsSound DEF Convert, Does, BInv, BodyTypeOK

\* Recovery settles the open attempts and leaves the others.
LEMMA RecoveredRows ==
  ASSUME NEW b \in BodyState, NEW f \in Fingerprints
  PROVE  LET rows == Recovered(b, f).attempts[f]
         IN /\ Recovered(b, f) = [b EXCEPT !.attempts[f] = rows]
            /\ rows \in Seq(AttemptRow) /\ Len(rows) = Len(b.attempts[f])
            /\ \A n \in DOMAIN b.attempts[f] :
                 /\ rows[n].document = b.attempts[f][n].document
                 /\ rows[n].failure # "unsettled"
                 /\ b.attempts[f][n].failure # "unsettled" => rows[n] = b.attempts[f][n]
                 /\ b.attempts[f][n].failure = "unsettled" => rows[n].failure = "outcome_unknown"
<1> DEFINE old == b.attempts[f]
           Row(n) == IF old[n].failure = "unsettled"
                     THEN [old[n] EXCEPT !.failure = "outcome_unknown"] ELSE old[n]
           rows == [n \in DOMAIN old |-> Row(n)]
<1>1. old \in Seq(AttemptRow) /\ b.attempts \in [Fingerprints -> Seq(AttemptRow)]
  BY DEF BodyState
<1>2. Len(old) \in Nat /\ DOMAIN old = 1..Len(old) /\ \A n \in 1..Len(old) : old[n] \in AttemptRow
  BY <1>1, LenProperties, ElementOfSeq
<1>3. \A n \in 1..Len(old) :
        /\ Row(n) \in AttemptRow /\ Row(n).document = old[n].document
        /\ Row(n).failure # "unsettled"
        /\ old[n].failure # "unsettled" => Row(n) = old[n]
        /\ old[n].failure = "unsettled" => Row(n).failure = "outcome_unknown"
  <2> TAKE n \in 1..Len(old)
  <2>1. old[n] \in [failure : {"unsettled"} \cup Transient, document : {NoOne}] \/ old[n] \in Results
    BY <1>2 DEF AttemptRow
  <2>2. CASE old[n].failure = "unsettled"
    <3>1. old[n] \in [failure : {"unsettled"}, document : {NoOne}]
      BY <2>1, <2>2 DEF Results
    <3>2. Row(n) = [failure |-> "outcome_unknown", document |-> NoOne]
      BY <3>1
    <3> QED
      BY <3>1, <3>2 DEF AttemptRow, Transient
  <2>3. CASE old[n].failure # "unsettled"
    BY <2>3, <1>2
  <2> QED
    BY <2>2, <2>3
<1>4. rows \in [1..Len(old) -> AttemptRow]
  BY <1>2, <1>3
<1>5. rows \in Seq(AttemptRow) /\ Len(rows) = Len(old)
  <2>1. rows \in Seq(AttemptRow)
    BY <1>2, <1>4, SeqDef
  <2>2. DOMAIN rows = 1..Len(rows) /\ Len(rows) \in Nat
    BY <2>1, LenProperties
  <2>3. DOMAIN rows = 1..Len(old)
    BY <1>2
  <2> QED
    BY <2>1, <2>2, <2>3, <1>2
<1>6. Recovered(b, f) = [b EXCEPT !.attempts[f] = rows]
  BY DEF Recovered
<1>7. Recovered(b, f).attempts[f] = rows
  BY <1>1, <1>6 DEF BodyState
<1>8. \A n \in DOMAIN old :
        /\ rows[n].document = old[n].document
        /\ rows[n].failure # "unsettled"
        /\ old[n].failure # "unsettled" => rows[n] = old[n]
        /\ old[n].failure = "unsettled" => rows[n].failure = "outcome_unknown"
  BY <1>2, <1>3
<1> HIDE DEF rows
<1> QED
  BY <1>5, <1>6, <1>7, <1>8

\* Recovery keeps a fingerprint sound.
LEMMA RecoveredSound ==
  ASSUME NEW b \in BodyState, NEW f \in Fingerprints, FingerprintSound(b, f)
  PROVE  FingerprintSound(Recovered(b, f), f)
<1> DEFINE old == b.attempts[f]
           rows == Recovered(b, f).attempts[f]
<1>1. /\ Recovered(b, f) = [b EXCEPT !.attempts[f] = rows]
      /\ rows \in Seq(AttemptRow) /\ Len(rows) = Len(old)
      /\ \A n \in DOMAIN old :
           /\ rows[n].document = old[n].document
           /\ old[n].failure # "unsettled" => rows[n] = old[n]
  BY RecoveredRows
<1>2. /\ Recovered(b, f).attachments = b.attachments
      /\ Recovered(b, f).successes = b.successes /\ Recovered(b, f).reviews = b.reviews
  BY <1>1 DEF BodyState
<1>3. old \in Seq(AttemptRow)
  BY DEF BodyState
<1>4. DOMAIN rows = DOMAIN old /\ (rows # <<>> => old # <<>>)
  BY <1>1, <1>3, LenProperties, EmptySeq
<1>5. \A n \in DOMAIN old : n < Len(old) => old[n].failure # "unsettled"
  BY DEF FingerprintSound, Transient
<1> QED
  BY <1>1, <1>2, <1>4, <1>5 DEF FingerprintSound, Attached

\* A fingerprint that is not used up has only failed and lost attempts, and room.
LEMMA UnusedSound ==
  ASSUME NEW b \in BodyState, NEW f \in Fingerprints, FingerprintSound(b, f),
         \A n \in DOMAIN b.attempts[f] : b.attempts[f][n].failure # "unsettled",
         ~Exhausted(b, f)
  PROVE  /\ Len(b.attempts[f]) < 2 /\ b.successes[f] = 0
         /\ \A n \in DOMAIN b.attempts[f] :
              b.attempts[f][n].failure \in Transient /\ b.attempts[f][n].document = NoOne
<1> DEFINE rows == b.attempts[f]
<1>1. rows \in Seq(AttemptRow) /\ b.successes[f] \in Nat
  BY DEF BodyState
<1>2. Len(rows) \in Nat /\ DOMAIN rows = 1..Len(rows) /\ \A n \in DOMAIN rows : rows[n] \in AttemptRow
  BY <1>1, LenProperties, ElementOfSeq
<1>3. \A n \in DOMAIN rows : rows[n].document = NoOne /\ rows[n].failure # "rejected"
  BY DEF Exhausted, HasDocument, FailedForGood, AttemptsOf
<1>4. \A n \in DOMAIN rows : rows[n].failure \in Transient
  BY <1>2, <1>3 DEF AttemptRow, Results, Transient, NoOne
<1>5. b.successes[f] = 0
  BY <1>2, <1>3 DEF FingerprintSound, NoOne
<1>6. Len(rows) < 2
  <2>1. Len(rows) # 2
    BY DEF Exhausted, AttemptsOf
  <2>2. Len(rows) <= 2
    BY DEF FingerprintSound
  <2>3. Len(rows) \in Nat
    BY <1>2
  <2> HIDE DEF rows
  <2> QED
    BY <2>1, <2>2, <2>3
<1> QED
  BY <1>3, <1>4, <1>5, <1>6

\* The claim, under the lock: no other caller has an attempt that recovery could
\* settle.
LEMMA ClaimAttemptInv ==
  ASSUME BInv, NEW c \in Extractors, ClaimAttempt(c) PROVE BInv'
<1> DEFINE selected == extractors[c].selected
           f == <<PdfOf(body, selected), extractors[c].recipe>>
           old == body.attempts[f]
           recovered == Recovered(body, f)
           rows == recovered.attempts[f]
           row == [failure |-> "unsettled", document |-> NoOne]
           success == body.successes[f]
<1>1. extractors[c] \in [at : {"locked"}, selected : Nat, recipe : Recipes]
  BY DEF ClaimAttempt, BInv, BodyTypeOK, ExtractorFrame, AtRest
<1>2. rootLock = c /\ selected \in DOMAIN body.attachments
  BY <1>1 DEF BInv, ExtractorsSound, ExtractorSound, HoldsLock
<1>3. body \in BodyState /\ body.attachments \in Seq(Attachment)
  BY DEF BInv, BodyTypeOK, BodyState
<1>4. f \in Fingerprints
  <2>1. body.attachments[selected] \in Attachment
    BY <1>2, <1>3, LenProperties, ElementOfSeq
  <2> QED
    BY <2>1, <1>1 DEF Fingerprints, PdfOf, Attachment
<1>5. FingerprintSound(body, f) /\ FingerprintSound(recovered, f)
  BY <1>3, <1>4, RecoveredSound DEF BInv, BodySound
<1>6. /\ recovered = [body EXCEPT !.attempts[f] = rows]
      /\ rows \in Seq(AttemptRow) /\ Len(rows) = Len(old)
      /\ \A n \in DOMAIN old : rows[n].failure # "unsettled"
  BY <1>3, <1>4, RecoveredRows
<1>7. success \in Nat /\ body.attempts \in [Fingerprints -> Seq(AttemptRow)]
      /\ body.successes \in [Fingerprints -> Nat] /\ old \in Seq(AttemptRow)
  BY <1>3, <1>4 DEF BodyState
<1> HIDE DEF f, rows, recovered
<1>8. recovered \in BodyState /\ recovered.attempts = [body.attempts EXCEPT ![f] = rows]
      /\ recovered.successes = body.successes /\ recovered.attachments = body.attachments
      /\ recovered.reviews = body.reviews
  BY <1>3, <1>6, <1>7 DEF BodyState
<1>9. AtRest \in ExtractorFrame /\ ~HoldsLock(AtRest)
      /\ ExtractorSound(body, AtRest) /\ ExtractorSound(body', AtRest)
  BY DEF ExtractorFrame, ExtractorSound, HoldsLock, AtRest
<1>10. readBases' = readBases
  BY DEF ClaimAttempt
<1>11. CASE CurrentPdf(body) # selected /\ Does(c, AtRest) /\ Release(c) /\ UNCHANGED body
  BY <1>2, <1>9, <1>10, <1>11, FrameKeepsSound DEF Does, Release
<1>12. CASE body' = recovered /\ Does(c, AtRest) /\ Release(c)
  <2>1. body' = [body EXCEPT !.attempts[f] = rows, !.successes[f] = success]
    <3>1. [body.successes EXCEPT ![f] = success] = body.successes
      BY <1>4, <1>7
    <3> QED
      BY <3>1, <1>3, <1>6, <1>12 DEF BodyState
  <2>2. FingerprintSound(body', f)
    BY <1>5, <1>12
  <2>3. extractors' = [extractors EXCEPT ![c] = AtRest] /\ rootLock' \in Extractors \cup {NoOne}
    BY <1>2, <1>12 DEF Does, Release
  <2> HIDE DEF success
  <2> QED
    BY <2>1, <2>2, <2>3, <1>2, <1>4, <1>6, <1>7, <1>9, <1>10, ExtractionKeepsSound DEF success
<1>13. CASE /\ CurrentPdf(body) = selected /\ ~Exhausted(recovered, f)
            /\ body' = [recovered EXCEPT !.attempts[f] = Append(@, row)]
            /\ Does(c, [at |-> "converting", fingerprint |-> f, ordinal |-> Len(AttemptsOf(body, f)) + 1])
            /\ UNCHANGED rootLock
  <2> DEFINE new == Append(rows, row)
             x == [at |-> "converting", fingerprint |-> f, ordinal |-> Len(old) + 1]
  <2>1. row \in AttemptRow
    BY DEF AttemptRow
  <2>2. /\ new \in Seq(AttemptRow) /\ Len(new) = Len(old) + 1 /\ Len(old) \in Nat
        /\ DOMAIN rows = 1..Len(old) /\ DOMAIN new = 1..(Len(old) + 1)
        /\ \A n \in DOMAIN rows : new[n] = rows[n]
        /\ new[Len(old) + 1] = row
    BY <2>1, <1>6, Appended
  <2>3. DOMAIN old = DOMAIN rows
    BY <2>2, <1>7, LenProperties
  <2>4. /\ Len(old) < 2 /\ success = 0
        /\ \A n \in DOMAIN rows : rows[n].failure \in Transient /\ rows[n].document = NoOne
    <3>1. recovered.attempts[f] = rows
      BY <1>4, <1>7, <1>8
    <3>2. \A n \in DOMAIN recovered.attempts[f] : recovered.attempts[f][n].failure # "unsettled"
      BY <3>1, <2>3, <1>6
    <3>3. ~Exhausted(recovered, f)
      BY <1>13
    <3>4. /\ Len(recovered.attempts[f]) < 2 /\ recovered.successes[f] = 0
          /\ \A n \in DOMAIN recovered.attempts[f] :
               recovered.attempts[f][n].failure \in Transient
               /\ recovered.attempts[f][n].document = NoOne
      BY <3>2, <3>3, <1>4, <1>5, <1>8, UnusedSound
    <3> QED
      BY <3>1, <3>4, <1>6, <1>8
  <2>5. body' = [body EXCEPT !.attempts[f] = new, !.successes[f] = success]
    <3>1. [body.successes EXCEPT ![f] = success] = body.successes
      BY <1>4, <1>7
    <3>2. body' = [recovered EXCEPT !.attempts = [recovered.attempts EXCEPT ![f] = new]]
      <4>1. recovered.attempts[f] = rows
        BY <1>4, <1>7, <1>8
      <4> QED
        BY <4>1, <1>13 DEF new
    <3>3. [recovered.attempts EXCEPT ![f] = new] = [body.attempts EXCEPT ![f] = new]
      BY <1>8, <1>7
    <3> QED
      BY <3>1, <3>2, <3>3, <1>3, <1>6, <1>8 DEF BodyState
  <2>6. /\ body'.attempts[f] = new /\ body'.successes[f] = success
        /\ body'.attachments = body.attachments /\ body'.reviews = body.reviews
    BY <2>5, <1>3, <1>4 DEF BodyState
  <2>7. Attached(body', f[1])
    BY <2>6, <1>2 DEF Attached, PdfOf, f
  <2> HIDE DEF new
  <2>8. FingerprintSound(body', f)
    <3>1. body.reviews[f] = <<>>
      BY <2>4, <1>5 DEF FingerprintSound
    <3>2. \A n \in DOMAIN new : new[n].document = NoOne
      BY <2>2, <2>4
    <3>3. \A n \in DOMAIN new : n < Len(new) => new[n].failure \in Transient
      BY <2>2, <2>4
    <3>4. \A n \in DOMAIN new : new[n].document = "sound" <=> success = n
      BY <3>2, <2>2, <2>4 DEF NoOne
    <3>5. body'.successes[f] \in 0..Len(new)
      BY <2>2, <2>4, <2>6
    <3> QED
      BY <2>2, <2>4, <2>6, <2>7, <3>1, <3>2, <3>3, <3>4, <3>5 DEF FingerprintSound
  <2>9. x \in ExtractorFrame
    BY <2>2, <1>4 DEF ExtractorFrame
  <2>10. ExtractorSound(body', x)
    <3>1. Len(body'.attempts[f]) = Len(old) + 1 /\ Len(old) + 1 # 0
          /\ body'.attempts[f][Len(old) + 1] = row
      BY <2>2, <2>6
    <3>2. x.fingerprint = f /\ x.ordinal = Len(old) + 1 /\ x.at = "converting"
      OBVIOUS
    <3> HIDE DEF x
    <3> QED
      BY <3>1, <3>2 DEF ExtractorSound
  <2>11. extractors' = [extractors EXCEPT ![c] = x] /\ rootLock' = c
    BY <1>2, <1>13 DEF Does, AttemptsOf
  <2> HIDE DEF success, x
  <2> QED
    BY <2>2, <2>5, <2>8, <2>9, <2>10, <2>11, <1>2, <1>4, <1>7, <1>10, ExtractionKeepsSound
       DEF success
<1> QED
  BY <1>11, <1>12, <1>13 DEF ClaimAttempt, f, recovered

\* The outcome and the success are written by the caller that claimed the attempt.
LEMMA SettleAttemptInv ==
  ASSUME BInv, NEW c \in Extractors, SettleAttempt(c) PROVE BInv'
<1> DEFINE x == extractors[c]
           f == x.fingerprint
           old == body.attempts[f]
           rows == [old EXCEPT ![x.ordinal] = x.result]
           success == IF x.result.failure = "none" THEN x.ordinal ELSE body.successes[f]
<1>1. x \in [at : {"settling"}, fingerprint : Fingerprints, ordinal : Nat, result : Results]
  BY DEF SettleAttempt, BInv, BodyTypeOK, ExtractorFrame, AtRest
<1>2. /\ rootLock = c /\ x.ordinal = Len(old) /\ x.ordinal # 0
      /\ old[x.ordinal] = [failure |-> "unsettled", document |-> NoOne]
  BY <1>1 DEF BInv, ExtractorsSound, ExtractorSound, HoldsLock
<1>3. body \in BodyState /\ f \in Fingerprints /\ FingerprintSound(body, f)
  BY <1>1 DEF BInv, BodyTypeOK, BodySound
<1>4. old \in Seq(AttemptRow) /\ body.successes[f] \in Nat
      /\ body.attempts \in [Fingerprints -> Seq(AttemptRow)]
      /\ body.successes \in [Fingerprints -> Nat]
  BY <1>3 DEF BodyState
<1>5. Len(old) \in Nat /\ DOMAIN old = 1..Len(old) /\ x.ordinal \in 1..Len(old)
  BY <1>2, <1>4, LenProperties
<1>6. ~Settled(body, f, x.ordinal)
  BY <1>2 DEF Settled, AttemptsOf
<1>7. /\ body' = [body EXCEPT !.attempts[f][x.ordinal] = x.result,
                    !.successes[f] = IF x.result.failure = "none" THEN x.ordinal ELSE @]
      /\ Does(c, AtRest) /\ Release(c) /\ UNCHANGED readBases
  BY <1>6 DEF SettleAttempt
<1>8. body' = [body EXCEPT !.attempts[f] = rows, !.successes[f] = success]
  BY <1>3, <1>4, <1>7 DEF BodyState
<1>9. x.result \in AttemptRow
  BY <1>1 DEF AttemptRow
<1>10. /\ rows \in Seq(AttemptRow) /\ Len(rows) = Len(old)
       /\ \A n \in 1..Len(old) : rows[n] = IF n = Len(old) THEN x.result ELSE old[n]
  BY <1>2, <1>4, <1>5, <1>9, ExceptSeq
<1>11. \A n \in 1..Len(old) : old[n].document = NoOne
  BY <1>2, <1>3, <1>5 DEF FingerprintSound
<1>12. body.successes[f] = 0 /\ body.reviews[f] = <<>>
  BY <1>3, <1>5, <1>11 DEF FingerprintSound, NoOne
<1>13. /\ body'.attempts[f] = rows /\ body'.successes[f] = success
       /\ body'.attachments = body.attachments /\ body'.reviews = body.reviews
  BY <1>8, <1>3 DEF BodyState
<1>14. success \in Nat /\ success \in {0, Len(old)}
       /\ (x.result.document = "sound" <=> success = Len(old))
  BY <1>1, <1>2, <1>5, <1>12 DEF Results, NoOne
<1>15. FingerprintSound(body', f)
  <2>1. Attached(body', f[1])
    <3>1. old # <<>>
      BY <1>5, EmptySeq, <1>4
    <3> QED
      BY <3>1, <1>3, <1>13 DEF FingerprintSound, Attached
  <2>2. DOMAIN rows = 1..Len(old)
    BY <1>10, LenProperties
  <2> HIDE DEF rows, success
  <2>3. \A n \in DOMAIN rows :
          n < Len(rows) => rows[n].failure \in Transient /\ rows[n].document = NoOne
    BY <2>2, <1>3, <1>5, <1>10 DEF FingerprintSound
  <2>4. \A n \in DOMAIN rows : rows[n].document = "sound" <=> success = n
    BY <2>2, <1>5, <1>10, <1>11, <1>14 DEF NoOne
  <2>5. Len(rows) <= 2 /\ success \in 0..Len(rows)
    BY <1>3, <1>5, <1>10, <1>14 DEF FingerprintSound
  <2> QED
    BY <2>1, <2>3, <2>4, <2>5, <1>12, <1>13 DEF FingerprintSound
<1>16. /\ AtRest \in ExtractorFrame /\ ~HoldsLock(AtRest) /\ ExtractorSound(body', AtRest)
       /\ extractors' = [extractors EXCEPT ![c] = AtRest] /\ rootLock' \in Extractors \cup {NoOne}
  BY <1>2, <1>7 DEF ExtractorFrame, ExtractorSound, HoldsLock, AtRest, Does, Release
<1>17. HoldsLock(AtRest) => rootLock' = c
  BY <1>16
<1>18. body.successes[f] # 0 => success = body.successes[f]
  BY <1>12
<1>19. readBases' = readBases
  BY <1>7
<1> HIDE DEF rows, success, f
<1> QED
  BY <1>2, <1>3, <1>8, <1>10, <1>14, <1>15, <1>16, <1>17, <1>18, <1>19, ExtractionKeepsSound

\* Every step of a body keeps the invariant.
LEMMA BodyStepInv ==
  BInv /\ [BodyNext]_bodyVars => BInv'
<1> SUFFICES ASSUME BInv, [BodyNext]_bodyVars PROVE BInv'
  OBVIOUS
<1>1. CASE UNCHANGED bodyVars
  BY <1>1 DEF bodyVars, BInv, BodyTypeOK, BodySound, ExtractorsSound, BasesSound
<1>2. CASE NewVersion
  BY <1>2, NewVersionInv
<1>3. ASSUME NEW purpose \in {"experiment", "production"}, RegisterRoot(purpose) PROVE BInv'
  BY <1>3, RegisterRootInv
<1>4. ASSUME NEW accepted \in BOOLEAN, Decide(accepted) PROVE BInv'
  BY <1>4, DecideInv
<1>5. ASSUME NEW pdf \in PDFs, FreezeSample(pdf) PROVE BInv'
  BY <1>5, FreezeSampleInv
<1>6. ASSUME NEW f \in Fingerprints, RecordBasis(f) \/ \E passed \in BOOLEAN : ReviewLayout(f, passed)
      PROVE  BInv'
  BY <1>6, RecordBasisInv, ReviewLayoutInv
<1>7. ASSUME NEW c \in Extractors,
             \/ \E pdf \in PDFs, version \in 0..2 : BeginAttachment(c, pdf, version)
             \/ \E recipe \in Recipes : SelectPdf(c, recipe)
             \/ \E result \in Results : Convert(c, result)
             \/ StoreAttachment(c) \/ TakeRootLock(c) \/ ClaimAttempt(c)
             \/ SettleAttempt(c) \/ KillExtractor(c)
      PROVE  BInv'
  BY <1>7, BeginAttachmentInv, SelectPdfInv, ConvertInv, StoreAttachmentInv, TakeRootLockInv,
     ClaimAttemptInv, SettleAttemptInv, KillExtractorInv
<1> QED
  BY <1>1, <1>2, <1>3, <1>4, <1>5, <1>6, <1>7 DEF BodyNext

-------------------------------------------------------------------------------
(* Bodies: theorems *)

\* The invariant says of a body what its validation and its readings need.
LEMMA AcceptedFromInv ==
  BInv => BodyIsAccepted
<1> SUFFICES ASSUME BInv PROVE BodyIsAccepted
  OBVIOUS
<1>1. ASSUME NEW f \in Fingerprints
      PROVE  AttemptsAccepted(f)
  <2>1. FingerprintSound(body, f)
    BY DEF BInv, BodySound
  <2> QED
    BY <2>1 DEF FingerprintSound, AttemptsAccepted, AttemptsOf, Attached, PdfOf
<1>2. \A n \in DOMAIN body.samples :
        body.root = "experiment" /\ body.samples[n] \in ToSet(body.attachments)
  BY DEF BInv, BodySound, SamplesSound
<1>3. ASSUME NEW c \in Extractors
      PROVE  /\ extractors[c].at # "refused"
             /\ extractors[c].at \in {"converting", "settling"} =>
                  ~Settled(body, extractors[c].fingerprint, extractors[c].ordinal)
  <2>1. extractors[c].at # "refused"
    BY DEF BInv, BodyTypeOK, ExtractorFrame, AtRest
  <2>2. ExtractorSound(body, extractors[c])
    BY DEF BInv, ExtractorsSound
  <2> QED
    BY <2>1, <2>2 DEF ExtractorSound, Settled, AttemptsOf
<1>4. Cardinality({c \in Extractors : extractors[c].at \in {"locked", "converting", "settling"}}) <= 1
  <2> DEFINE S == {c \in Extractors : extractors[c].at \in {"locked", "converting", "settling"}}
  <2>1. S \subseteq {rootLock}
    BY DEF BInv, ExtractorsSound, HoldsLock
  <2>2. S = {} \/ S = {rootLock}
    BY <2>1
  <2>3. Cardinality({}) = 0 /\ Cardinality({rootLock}) = 1
    BY FS_EmptySet, FS_Singleton
  <2> QED
    BY <2>2, <2>3
<1>5. ASSUME NEW x \in readBases
      PROVE  BasisHolds(x)
  <2>1. BasisSound(body, x)
    BY DEF BInv, BasesSound
  <2> QED
    BY <2>1 DEF BasisSound, BasisHolds
<1> QED
  BY <1>1, <1>2, <1>3, <1>4, <1>5 DEF BodyIsAccepted

\* Every reachable body meets the invariant.
THEOREM BodyInvariant == BodySpec => []BInv
BY BodyInitInv, BodyStepInv, PTL DEF BodySpec

\* The rows of a body and the frames of its callers keep their types.
THEOREM BodyTypeCorrect == BodySpec => []BodyTypeOK
<1>1. BInv => BodyTypeOK
  BY DEF BInv
<1> QED
  BY <1>1, BodyInvariant, PTL

\* For any number of extractors, PDFs and recipes and any length of the histories:
\* validate_all accepts the body, nobody finds its attempt settled by another, one
\* extracts at a time, and the bases that readings recorded stand.
THEOREM BodiesAreAccepted == BodySpec => []BodyIsAccepted
BY AcceptedFromInv, BodyInvariant, PTL

-------------------------------------------------------------------------------
(* The audit: what its rows and frames are *)

AuditRequests == {"feed", "doi_ra", "publisher"}
AuditKeys == {"own", "sample", "matrix"} \X AuditRequests \X Nat
AuditReasons ==
  {"none", "acquired", "acquired_unparsable", "identity_mismatch", "not_found", "temporary",
   "outcome_unknown"}
ExecutionRow ==
  [key : AuditKeys, request : AuditRequests,
   previous : Nat, reason : AuditReasons]
EventRow ==
  [of : {"feed", "doi_ra"}, execution : Nat, reason : AuditReasons,
   result : {"selected", "excluded", "blocked"}]
MatrixRow == [request : AuditRequests, acquisition : Nat, generation : Nat, previous : Nat]
IsBoundary(b) == b.executions \in Seq(ExecutionRow) /\ b.rows \in Nat

\* The rows of a plan: nothing refers to an execution that is not there.
AuditState(a) ==
  /\ a = [executions |-> a.executions, feed |-> a.feed, events |-> a.events, rows |-> a.rows,
          summaries |-> a.summaries]
  /\ a.executions \in Seq(ExecutionRow) /\ a.events \in Seq(EventRow) /\ a.rows \in Seq(MatrixRow)
  /\ a.feed \in 0..Len(a.executions)
  /\ \A e \in DOMAIN a.events : a.events[e].execution \in DOMAIN a.executions
  /\ \A k \in DOMAIN a.rows : a.rows[k].acquisition \in DOMAIN a.executions
  /\ \A b \in a.summaries : IsBoundary(b)

IsSampling(x) ==
  x = [at |-> "sampling", continuing |-> x.continuing, got |-> x.got]
InAMatrix(x) ==
  /\ x = [at |-> "matrix", continuing |-> x.continuing, got |-> x.got, route |-> x.route,
          existed |-> x.existed, resumed |-> x.resumed]
  /\ x.route \in 1..3

\* A frame at its place; no event has seen an execution that is being fetched.
FrameSound(a, x) ==
  /\ x.at \in {"idle", "captured", "refused"} \cup AtWork
  /\ x.at = "sampling" => IsSampling(x) /\ x.got \in 0..Len(a.executions)
  /\ x.at = "matrix" => InAMatrix(x) /\ SelectedBy(a) # {}
  /\ x.at = "fetching" =>
       /\ x.execution \in DOMAIN a.executions
       /\ \A e \in DOMAIN a.events : a.events[e].execution # x.execution
       /\ \/ x.then = AtEase \/ IsSampling(x.then)
          \/ InAMatrix(x.then) /\ SelectedBy(a) # {}
  /\ x.at = "captured" => IsBoundary(x.boundary)
FramesSound ==
  /\ auditors = [c \in Auditors |-> auditors[c]]
  /\ \A c \in Auditors :
       /\ auditors[c].at \in AtWork => planLock = c
       /\ FrameSound(audit, auditors[c])

\* Every summary that was registered is found unchanged.
SummariesLoad(a) == \A b \in a.summaries : SummaryLoads(a, b)
\* What could be registered on the one audit still can on the other.
SummariesStand(a, a2) == \A b : IsBoundary(b) /\ SummaryLoads(a, b) => SummaryLoads(a2, b)
\* The inductive invariant.
AInv == AuditState(audit) /\ AbstractsLoad(audit) /\ SummariesLoad(audit) /\ FramesSound

\* The latest of some executions is one of them, or none.
LEMMA LatestIsOne ==
  ASSUME NEW n \in Nat, NEW S, S \subseteq 1..n
  PROVE  Latest(S) \in {0} \cup S /\ Latest(S) \in 0..n
<1>1. {0} \cup S \subseteq 0..n /\ {0} \cup S # {}
  OBVIOUS
<1>2. Max({0} \cup S) \in {0} \cup S
  BY <1>1, LargestPosition
<1> QED BY <1>1, <1>2 DEF Latest

-------------------------------------------------------------------------------
(* The chains of executions *)

\* Continued looks at the executions alone.
ContinuedIn(e) ==
  LET after[n \in 0..Len(e)] ==
        IF n = 0 THEN <<>> ELSE <<n>> \o after[Latest({k \in DOMAIN e : e[k].previous = n})]
  IN after
LEMMA ContinuedByExecutions ==
  ASSUME NEW a
  PROVE  Continued(a) = ContinuedIn(a.executions)
BY DEF Continued, ContinuedIn, Continuations, Executions

\* A continuation comes after what it continues.
LEMMA ContinuationIsLater ==
  ASSUME NEW a, AuditState(a), AuditsLoad(a), NEW n \in DOMAIN a.executions
  PROVE  /\ Latest(Continuations(a, n)) \in {0} \cup (n + 1)..Len(a.executions)
         /\ Len(a.executions) \in Nat /\ DOMAIN a.executions = 1..Len(a.executions)
<1>1. Len(a.executions) \in Nat /\ DOMAIN a.executions = 1..Len(a.executions)
  BY LenProperties DEF AuditState
<1>2. \A k \in Continuations(a, n) : k \in DOMAIN a.executions /\ a.executions[k].previous = n
  BY DEF Continuations, Executions
<1>3. \A k \in Continuations(a, n) : n < k
  <2> TAKE k \in Continuations(a, n)
  <2>1. ExecutionAccepted(a, k) /\ a.executions[k].previous = n /\ n # 0
    BY <1>1, <1>2 DEF AuditsLoad, Executions
  <2> QED BY <2>1 DEF ExecutionAccepted
<1> DEFINE S == {0} \cup Continuations(a, n)
<1>4. S \subseteq 0..Len(a.executions) /\ S # {}
  BY <1>1, <1>2
<1>5. Max(S) \in S
  BY <1>1, <1>4, LargestPosition
<1>6. S \subseteq {0} \cup (n + 1)..Len(a.executions)
  BY <1>1, <1>2, <1>3
<1> QED BY <1>1, <1>5, <1>6 DEF Latest

\* The chains are what their recursion says.
LEMMA ContinuedSolves ==
  ASSUME NEW a, AuditState(a), AuditsLoad(a)
  PROVE  Continued(a) =
           [n \in 0..Len(a.executions) |->
              IF n = 0 THEN <<>> ELSE <<n>> \o Continued(a)[Latest(Continuations(a, n))]]
<1> DEFINE len == Len(a.executions)
           next(n) == Latest(Continuations(a, n))
           From(k) == {0} \cup (len + 1 - k)..len
           Step(g, n) == IF n = 0 THEN <<>> ELSE <<n>> \o g[next(n)]
           Solves(g, k) == g = [n \in From(k) |-> Step(g, n)]
           Bad == {k \in 0..len : ~\E g : Solves(g, k)}
           R == {ss \in Nat \X Nat : ss[1] < ss[2]}
<1>1. len \in Nat /\ DOMAIN a.executions = 1..len
  BY LenProperties DEF AuditState
<1>2. \A n \in 1..len : next(n) \in {0} \cup (n + 1)..len
  BY <1>1, ContinuationIsLater
<1> HIDE DEF len, next
<1>3. ASSUME Bad # {} PROVE FALSE
  <2>1. IsWellFoundedOn(R, Nat)
    BY NatLessThanWellFounded DEF OpToRel
  <2>2. Bad \subseteq Nat
    BY <1>1
  <2> HIDE DEF Bad
  <2>3. PICK k \in Bad : \A m \in Bad : ~(<<m, k>> \in R)
    BY <1>3, <2>1, <2>2, WFMin
  <2>4. \A m \in Bad : ~(m < k)
    BY <2>2, <2>3
  <2>5. k \in 0..len /\ ~\E g : Solves(g, k)
    BY DEF Bad
  <2>6. CASE k = 0
    <3>1. From(0) = {0}
      BY <1>1
    <3>2. Solves([n \in {0} |-> <<>>], 0)
      BY <3>1
    <3> QED BY <2>5, <2>6, <3>2
  <2>7. CASE k # 0
    <3>1. k - 1 \in 0..len /\ k - 1 < k /\ k - 1 \in Nat /\ k \in Nat
      BY <1>1, <2>5, <2>7
    <3>2. k - 1 \notin Bad
      BY <2>4, <3>1
    <3>3. PICK g : Solves(g, k - 1)
      BY <3>1, <3>2 DEF Bad
    <3> DEFINE m == len + 1 - k
               h == [n \in From(k) |-> IF n = m THEN <<m>> \o g[next(m)] ELSE g[n]]
    <3>4. m \in 1..len /\ From(k) = From(k - 1) \cup {m} /\ m \notin From(k - 1)
      BY <1>1, <2>5, <2>7
    <3>5. \A n \in From(k) : n # 0 => next(n) \in From(k - 1) /\ next(n) # m
      <4> SUFFICES ASSUME NEW n \in From(k), n # 0 PROVE next(n) \in From(k - 1) /\ next(n) # m
        OBVIOUS
      <4>1. n \in m..len /\ n \in 1..len
        BY <1>1, <2>5, <2>7
      <4>2. next(n) \in {0} \cup (n + 1)..len
        BY <1>2, <4>1
      <4> QED BY <1>1, <2>5, <2>7, <4>1, <4>2
    <3>6. \A n \in From(k - 1) : g[n] = Step(g, n)
      BY <3>3
    <3> HIDE DEF m, From
    <3>7. \A n \in From(k) : h[n] = Step(h, n)
      <4> SUFFICES ASSUME NEW n \in From(k) PROVE h[n] = Step(h, n)
        OBVIOUS
      <4>1. CASE n = m
        <5>1. h[next(m)] = g[next(m)]
          BY <3>4, <3>5, <4>1
        <5>2. h[m] = <<m>> \o g[next(m)] /\ m # 0
          BY <3>4, <4>1
        <5> QED BY <4>1, <5>1, <5>2
      <4>2. CASE n # m
        <5>1. n \in From(k - 1) /\ h[n] = g[n]
          BY <3>4, <4>2
        <5>2. n # 0 => h[next(n)] = g[next(n)]
          BY <3>4, <3>5
        <5> QED BY <3>6, <5>1, <5>2
      <4> QED BY <4>1, <4>2
    <3>8. Solves(h, k)
      BY <3>7
    <3> QED BY <2>5, <3>8
  <2> QED BY <2>6, <2>7
<1>4. \E g : Solves(g, len)
  <2>1. len \in 0..len
    BY <1>1
  <2>2. len \notin Bad
    <3> HIDE DEF Bad
    <3> QED BY <1>3
  <2> QED BY <2>1, <2>2
<1>5. From(len) = 0..len
  BY <1>1
<1> DEFINE Is(g) == g = [n \in 0..len |-> IF n = 0 THEN <<>> ELSE <<n>> \o g[next(n)]]
<1>6. \E g : Is(g)
  BY <1>4, <1>5
<1>7. Continued(a) = CHOOSE g : Is(g)
  BY DEF Continued, len, next
<1> HIDE DEF Is
<1>8. Is(Continued(a))
  BY <1>6, <1>7
<1> QED BY <1>8 DEF Is, len, next

\* The chain from an execution is a sequence of executions and begins with it.
LEMMA ChainsOfExecutions ==
  ASSUME NEW a, AuditState(a), AuditsLoad(a), NEW n \in 0..Len(a.executions)
  PROVE  /\ Continued(a)[n] \in Seq(DOMAIN a.executions)
         /\ n # 0 => Continued(a)[n] # <<>>
<1> DEFINE len == Len(a.executions)
           next(m) == Latest(Continuations(a, m))
           f == Continued(a)
           S == DOMAIN a.executions
           Bad == {k \in 0..len : f[len - k] \notin Seq(S)}
           R == {ss \in Nat \X Nat : ss[1] < ss[2]}
<1>1. len \in Nat /\ S = 1..len
  BY LenProperties DEF AuditState
<1>2. \A m \in 1..len : next(m) \in {0} \cup (m + 1)..len
  BY <1>1, ContinuationIsLater
<1> DEFINE F == [m \in 0..len |-> IF m = 0 THEN <<>> ELSE <<m>> \o f[next(m)]]
<1>a. f = F
  BY ContinuedSolves
<1>b. F[0] = <<>> /\ \A m \in 1..len : F[m] = <<m>> \o f[next(m)]
  BY <1>1
<1>3. f[0] = <<>> /\ \A m \in 1..len : f[m] = <<m>> \o f[next(m)]
  <2> HIDE DEF F
  <2> QED BY <1>a, <1>b
<1> HIDE DEF f, next, len, S
<1>4. \A m \in 1..len : f[next(m)] \in Seq(S) => f[m] \in Seq(S) /\ f[m] # <<>>
  <2> SUFFICES ASSUME NEW m \in 1..len, f[next(m)] \in Seq(S)
               PROVE  f[m] \in Seq(S) /\ f[m] # <<>>
    OBVIOUS
  <2>1. m \in S
    BY <1>1
  <2>2. <<m>> \in Seq(S) /\ Len(<<m>>) = 1
    BY <2>1
  <2>3. <<m>> \o f[next(m)] \in Seq(S) /\ Len(<<m>> \o f[next(m)]) = 1 + Len(f[next(m)])
    BY <2>2, ConcatProperties
  <2>4. f[m] = <<m>> \o f[next(m)]
    BY <1>1, <1>3
  <2>5. Len(f[next(m)]) \in Nat
    BY LenProperties
  <2>6. Len(f[m]) # 0
    BY <2>3, <2>4, <2>5
  <2> QED BY <2>3, <2>4, <2>6, EmptySeq
<1>5. ASSUME Bad # {} PROVE FALSE
  <2>1. IsWellFoundedOn(R, Nat)
    BY NatLessThanWellFounded DEF OpToRel
  <2>2. Bad \subseteq Nat
    BY <1>1
  <2> HIDE DEF Bad
  <2>3. PICK k \in Bad : \A m \in Bad : ~(<<m, k>> \in R)
    BY <1>5, <2>1, <2>2, WFMin
  <2>4. \A m \in Bad : ~(m < k)
    BY <2>2, <2>3
  <2>5. k \in 0..len /\ f[len - k] \notin Seq(S)
    BY DEF Bad
  <2>6. CASE len - k = 0
    <3>1. f[0] = <<>>
      BY <1>1, <1>3
    <3>2. <<>> \in Seq(S)
      OBVIOUS
    <3> QED BY <2>5, <2>6, <3>1, <3>2
  <2>7. CASE len - k # 0
    <3>1. len - k \in 1..len
      BY <1>1, <2>5, <2>7
    <3>2. next(len - k) \in {0} \cup (len - k + 1)..len
      BY <1>2, <3>1
    <3>3. f[next(len - k)] \notin Seq(S)
      BY <1>4, <2>5, <3>1
    <3>4. next(len - k) # 0
      <4>1. f[0] = <<>>
        BY <1>1, <1>3
      <4>2. <<>> \in Seq(S)
        OBVIOUS
      <4> QED BY <3>3, <4>1, <4>2
    <3> DEFINE m == len - next(len - k)
    <3>5. m \in 0..len /\ m < k /\ len - m = next(len - k)
      BY <1>1, <2>5, <3>2, <3>4
    <3>6. m \in Bad
      BY <3>3, <3>5 DEF Bad
    <3> QED BY <2>4, <3>5, <3>6
  <2> QED BY <2>6, <2>7
<1>6. \A m \in 0..len : f[m] \in Seq(S)
  <2> TAKE m \in 0..len
  <2>1. len - m \in 0..len /\ len - (len - m) = m
    BY <1>1
  <2> QED BY <1>5, <2>1
<1>7. n \in 0..len
  BY DEF len
<1>8. n # 0 => next(n) \in 0..len
  BY <1>1, <1>2, <1>7
<1>9. f[n] \in Seq(S)
  BY <1>6, <1>7
<1>10. ASSUME n # 0 PROVE f[n] # <<>>
  <2>1. n \in 1..len
    BY <1>1, <1>7, <1>10
  <2> QED BY <1>4, <1>6, <1>8, <1>10, <2>1
<1> QED BY <1>9, <1>10 DEF f, S

-------------------------------------------------------------------------------
(* Summaries *)

\* What is shown rests on the executions, the feed, the events and the rows.
LEMMA ViewsAgree ==
  ASSUME NEW a, NEW b, a.executions = b.executions, a.feed = b.feed, a.events = b.events,
         a.rows = b.rows
  PROVE  Matrix(a) = Matrix(b) /\ (AuditComplete(a) <=> AuditComplete(b))
<1>1. SelectedBy(a) = SelectedBy(b) /\ Finals(a) = Finals(b)
  BY DEF SelectedBy, Finals
<1>2. \A key : WithKey(a, key) = WithKey(b, key)
  BY DEF WithKey, Executions
<1>3. {a.events[e].execution : e \in SelectedBy(a)} = {b.events[e].execution : e \in SelectedBy(b)}
  BY <1>1
<1>4. ASSUME NEW r \in ToSet(AuditRoutes) PROVE Root(a, r) = Root(b, r)
  BY <1>2, <1>3 DEF Root
<1>5. Continued(a) = Continued(b)
  BY ContinuedByExecutions
<1>6. ASSUME NEW r \in ToSet(AuditRoutes) PROVE ShownRow(a, r) = ShownRow(b, r)
  <2>1. Chain(a, r) = Chain(b, r)
    BY <1>4, <1>5 DEF Chain
  <2>2. ShownChain(a, r) = ShownChain(b, r)
    BY <2>1 DEF ShownChain
  <2>3. RowsOf(a, r) = RowsOf(b, r)
    BY DEF RowsOf
  <2> QED BY <2>2, <2>3 DEF ShownRow
<1>7. Matrix(a) = Matrix(b)
  <2>1. \A i \in DOMAIN AuditRoutes : ShownRow(a, AuditRoutes[i]) = ShownRow(b, AuditRoutes[i])
    BY <1>6 DEF ToSet
  <2> QED BY <1>1, <2>1 DEF Matrix
<1>8. SamplingComplete(a) <=> SamplingComplete(b)
  BY <1>1 DEF SamplingComplete
<1>9. AuditComplete(a) <=> AuditComplete(b)
  BY <1>7, <1>8 DEF AuditComplete
<1> QED BY <1>7, <1>9

PastExecutions(e, b) ==
  [n \in DOMAIN b.executions |->
     IF b.executions[n].reason = "none" THEN [e[n] EXCEPT !.reason = "none"] ELSE e[n]]
\* The view at a boundary, field by field.
LEMMA TruncatedFields ==
  ASSUME NEW a, AuditState(a), NEW b
  PROVE  /\ Truncated(a, b).executions = PastExecutions(a.executions, b)
         /\ Truncated(a, b).feed = a.feed /\ Truncated(a, b).events = a.events
         /\ Truncated(a, b).rows = SubSeq(a.rows, 1, b.rows)
BY DEF Truncated, AuditState, PastExecutions

\* A summary is loaded from any later audit that shows the same past.
LEMMA SummaryStaysLoaded ==
  ASSUME NEW a, NEW a2, AuditState(a), AuditState(a2), NEW b, SummaryLoads(a, b),
         a2.feed = a.feed, a2.events = a.events,
         b.rows <= Len(a2.rows), Len(b.executions) <= Len(a2.executions),
         PastExecutions(a2.executions, b) = PastExecutions(a.executions, b),
         SubSeq(a2.rows, 1, b.rows) = SubSeq(a.rows, 1, b.rows)
  PROVE  SummaryLoads(a2, b)
<1> DEFINE past == Truncated(a, b)
           past2 == Truncated(a2, b)
<1>1. /\ b.feed = a.feed /\ b.events = Len(a.events)
      /\ past.executions = b.executions /\ AuditComplete(past) /\ Matrix(past) = b.shown
  BY DEF SummaryLoads
<1>2. /\ past2.executions = past.executions /\ past2.feed = past.feed
      /\ past2.events = past.events /\ past2.rows = past.rows
  <2>1. /\ past.executions = PastExecutions(a.executions, b) /\ past.feed = a.feed
        /\ past.events = a.events /\ past.rows = SubSeq(a.rows, 1, b.rows)
    BY TruncatedFields
  <2>2. /\ past2.executions = PastExecutions(a2.executions, b) /\ past2.feed = a2.feed
        /\ past2.events = a2.events /\ past2.rows = SubSeq(a2.rows, 1, b.rows)
    BY TruncatedFields
  <2> HIDE DEF past, past2
  <2> QED BY <2>1, <2>2
<1> HIDE DEF past, past2
<1>3. Matrix(past2) = Matrix(past) /\ (AuditComplete(past2) <=> AuditComplete(past))
  BY <1>2, ViewsAgree
<1>4. past2.executions = b.executions /\ AuditComplete(past2) /\ Matrix(past2) = b.shown
  BY <1>1, <1>2, <1>3
<1> QED BY <1>1, <1>4 DEF SummaryLoads, past2

\* Where a summary is loaded, the sampling is complete.
LEMMA SummaryIsOfComplete ==
  ASSUME NEW a, AuditState(a), NEW b, SummaryLoads(a, b)
  PROVE  SamplingComplete(a)
<1>1. AuditComplete(Truncated(a, b))
  BY DEF SummaryLoads
<1>2. SamplingComplete(Truncated(a, b))
  BY <1>1 DEF AuditComplete
<1>3. Truncated(a, b).feed = a.feed /\ Truncated(a, b).events = a.events
  BY TruncatedFields
<1> QED BY <1>2, <1>3 DEF SamplingComplete, Finals

\* So does a row of the matrix: what was selected was chosen of a frozen feed.
LEMMA RowIsOfComplete ==
  ASSUME NEW a, AuditState(a), AbstractsLoad(a), a.rows # <<>>
  PROVE  SamplingComplete(a)
<1>1. a.rows \in Seq(MatrixRow) /\ a.events \in Seq(EventRow)
  BY DEF AuditState
<1>2. 1 \in DOMAIN a.rows
  <2>1. Len(a.rows) \in Nat /\ Len(a.rows) # 0 /\ DOMAIN a.rows = 1..Len(a.rows)
    BY <1>1, LenProperties, EmptySeq
  <2> QED BY <2>1
<1>3. RowAccepted(a, 1)
  BY <1>2 DEF AbstractsLoad
<1>4. PICK e \in SelectedBy(a) : TRUE
  BY <1>3 DEF RowAccepted
<1>5. e \in DOMAIN a.events /\ a.events[e].result = "selected"
  BY <1>4 DEF SelectedBy
<1>6. ChoiceAccepted(a, e)
  BY <1>5 DEF AbstractsLoad, SamplingLoads
<1>7. a.events[e] \in EventRow
  BY <1>1, <1>5, ElementOfSeq, LenProperties
<1>8. a.events[e].of = "doi_ra"
  BY <1>5, <1>6, <1>7 DEF ChoiceAccepted, EventRow
<1>9. a.feed # 0
  BY <1>6, <1>8 DEF ChoiceAccepted
<1>10. e \in Finals(a)
  BY <1>5 DEF Finals
<1> QED BY <1>9, <1>10 DEF SamplingComplete

\* When the sampling is complete, the loader takes no other choice.
LEMMA NoChoiceAfterComplete ==
  ASSUME NEW a, AuditState(a), SamplingComplete(a), NEW r, NEW n,
         r = SamplingRoute(a),
         NEW a2, a2 = WithEvent(a, r, n), SamplingLoads(a2)
  PROVE  FALSE
<1> DEFINE x == [of |-> r, execution |-> n, reason |-> SeenReason(a, n),
                 result |-> IF r = "feed" THEN "blocked" ELSE Verdict(ReasonOf(a, n))]
           last == Len(a.events) + 1
<1>1. r = "doi_ra" /\ a.feed # 0
  BY DEF SamplingRoute, SamplingComplete
<1>2. a.events \in Seq(EventRow) /\ Len(a.events) \in Nat /\ DOMAIN a.events = 1..Len(a.events)
  BY LenProperties DEF AuditState
<1>3. a2.events = Append(a.events, x)
  BY DEF WithEvent, AuditState
<1> HIDE DEF x
<1>4. /\ DOMAIN a2.events = 1..last /\ a2.events[last] = x
      /\ \A e \in DOMAIN a.events : a2.events[e] = a.events[e]
  BY <1>2, <1>3
<1>5. PICK f \in DOMAIN a.events : a.events[f].result \in {"selected", "excluded"}
  BY DEF SamplingComplete, Finals
<1>6. f \in Finals(a2)
  BY <1>2, <1>4, <1>5 DEF Finals
<1>7. ChoiceAccepted(a2, last)
  BY <1>2, <1>4 DEF SamplingLoads
<1>8. a2.events[last].of = "doi_ra"
  BY <1>1, <1>4 DEF x
<1>9. f >= last
  BY <1>6, <1>7, <1>8 DEF ChoiceAccepted
<1> QED BY <1>2, <1>5, <1>9

-------------------------------------------------------------------------------
(* What the loaders accept, step by step *)

\* The fields of a sequence of executions, position by position.
LEMMA ExecutionFields ==
  ASSUME NEW a, AuditState(a)
  PROVE  /\ Len(a.executions) \in Nat /\ DOMAIN a.executions = 1..Len(a.executions)
         /\ \A k \in DOMAIN a.executions : a.executions[k] \in ExecutionRow
BY LenProperties, ElementOfSeq DEF AuditState

\* A row before another is one of the rows: the latest before it, or none.
LEMMA RowBefore ==
  ASSUME NEW a, AuditState(a), NEW k \in DOMAIN a.rows, RowAccepted(a, k)
  PROVE  a.rows[k].previous = 0 \/ a.rows[k].previous \in DOMAIN a.rows
<1> DEFINE S == {0} \cup {q \in 1..(k - 1) : a.rows[q].request = a.rows[k].request}
<1>1. Len(a.rows) \in Nat /\ DOMAIN a.rows = 1..Len(a.rows)
  BY LenProperties DEF AuditState
<1>2. S \subseteq 0..Len(a.rows) /\ S # {}
  BY <1>1
<1>3. a.rows[k].previous = Max(S)
  BY DEF RowAccepted, Latest
<1>4. S \subseteq {0} \cup DOMAIN a.rows
  BY <1>1
<1> HIDE DEF S
<1>5. Max(S) \in S
  BY <1>1, <1>2, LargestPosition
<1> QED BY <1>3, <1>4, <1>5

\* Settling an open execution that no event has seen, or as one whose outcome
\* is unknown, keeps what is accepted.
LEMMA SettlementAccepted ==
  ASSUME NEW a, AuditState(a), AbstractsLoad(a), SummariesLoad(a),
         NEW n \in DOMAIN a.executions, IsOpen(a, n),
         NEW reason \in AuditReasons, reason # "none",
         reason = "outcome_unknown" \/ \A e \in DOMAIN a.events : a.events[e].execution # n,
         NEW a2, a2 = WithSettlement(a, n, reason)
  PROVE  /\ AuditState(a2) /\ AbstractsLoad(a2) /\ SummariesLoad(a2) /\ SummariesStand(a, a2)
         /\ DOMAIN a2.executions = DOMAIN a.executions /\ a2.events = a.events
<1>1. /\ a2 = [executions |-> a2.executions, feed |-> a2.feed, events |-> a2.events,
               rows |-> a2.rows, summaries |-> a2.summaries]
      /\ a2.executions = [a.executions EXCEPT ![n].reason = reason]
      /\ a2.feed = a.feed /\ a2.events = a.events /\ a2.rows = a.rows
      /\ a2.summaries = a.summaries
  BY DEF WithSettlement, AuditState
<1> DEFINE len == Len(a.executions)
           row == [a.executions[n] EXCEPT !.reason = reason]
<1>2. len \in Nat /\ DOMAIN a.executions = 1..len /\ a.executions[n] \in ExecutionRow
  BY ExecutionFields
<1>3. row \in ExecutionRow /\ a2.executions = [a.executions EXCEPT ![n] = row]
  BY <1>1, <1>2 DEF ExecutionRow
<1>4. /\ row.key = a.executions[n].key /\ row.request = a.executions[n].request
      /\ row.previous = a.executions[n].previous /\ row.reason = reason
  BY <1>2 DEF ExecutionRow
<1> HIDE DEF row
<1>5. /\ a2.executions \in Seq(ExecutionRow) /\ Len(a2.executions) = len
      /\ DOMAIN a2.executions = DOMAIN a.executions
      /\ \A k \in DOMAIN a.executions : k # n => a2.executions[k] = a.executions[k]
      /\ a2.executions[n] = row
  BY <1>2, <1>3, ExceptSeq DEF AuditState
<1>6. \A k \in DOMAIN a.executions :
        /\ a2.executions[k].key = a.executions[k].key
        /\ a2.executions[k].request = a.executions[k].request
        /\ a2.executions[k].previous = a.executions[k].previous
        /\ ~IsOpen(a, k) => a2.executions[k].reason = a.executions[k].reason
  BY <1>4, <1>5 DEF IsOpen, ReasonOf
<1>7. AuditState(a2)
  BY <1>1, <1>5 DEF AuditState
<1>8. \A k \in DOMAIN a.executions : ~IsOpen(a, k) =>
        ~IsOpen(a2, k) /\ (CanContinue(a, k) => CanContinue(a2, k))
  BY <1>6 DEF IsOpen, CanContinue, ReasonOf
<1>9. \A p : Continuations(a2, p) = Continuations(a, p)
  BY <1>5, <1>6 DEF Continuations, Executions
<1>10. AuditsLoad(a2)
  <2> SUFFICES ASSUME NEW k \in DOMAIN a.executions PROVE ExecutionAccepted(a2, k)
    BY <1>5 DEF AuditsLoad, Executions
  <2> DEFINE p == a.executions[k].previous
  <2>1. ExecutionAccepted(a, k)
    BY DEF AbstractsLoad, SamplingLoads, AuditsLoad, Executions
  <2>2. p # 0 => p < k /\ ~IsOpen(a, p) /\ p \in DOMAIN a.executions
    <3>1. p # 0 => p < k /\ ~IsOpen(a, p)
      BY <2>1 DEF ExecutionAccepted
    <3>2. p \in Nat
      BY <1>2, ExecutionFields DEF ExecutionRow
    <3> QED BY <1>2, <3>1, <3>2
  <2> HIDE DEF p
  <2>3. a2.executions[k].previous = p /\ a.executions[k].previous = p
    BY <1>6 DEF p
  <2>4. p # 0 => /\ p < k /\ RequestOf(a2, p) = RequestOf(a, p) /\ ~IsOpen(a2, p)
                 /\ Continuations(a2, p) = Continuations(a, p)
                 /\ a2.executions[p].key = a.executions[p].key
                 /\ (CanContinue(a, p) => CanContinue(a2, p))
    BY <1>6, <1>8, <1>9, <2>2 DEF RequestOf
  <2>5. a2.executions[k].key = a.executions[k].key /\ a2.executions[k].request = a.executions[k].request
    BY <1>6
  <2> QED BY <2>1, <2>3, <2>4, <2>5 DEF ExecutionAccepted
<1>11. ASSUME NEW e \in DOMAIN a.events PROVE ChoiceAccepted(a2, e)
  <2> DEFINE m == a.events[e].execution
  <2>1. ChoiceAccepted(a, e) /\ m \in DOMAIN a.executions
    BY <1>11 DEF AbstractsLoad, SamplingLoads, AuditState
  <2>2. RequestOf(a2, m) = RequestOf(a, m)
    BY <1>6, <2>1 DEF RequestOf
  <2>3. SeenReason(a2, m) = SeenReason(a, m) /\ Verdict(ReasonOf(a2, m)) = Verdict(ReasonOf(a, m))
    <3>1. CASE m # n
      <4>1. ReasonOf(a2, m) = ReasonOf(a, m)
        BY <1>5, <2>1, <3>1 DEF ReasonOf
      <4> QED BY <4>1 DEF SeenReason, IsOpen
    <3>2. CASE m = n
      <4>1. reason = "outcome_unknown"
        BY <3>2
      <4>2. ReasonOf(a2, m) = "outcome_unknown" /\ ReasonOf(a, m) = "none"
        BY <1>4, <1>5, <3>2, <4>1 DEF ReasonOf, IsOpen
      <4> QED BY <4>2 DEF SeenReason, IsOpen, Verdict
    <3> QED BY <3>1, <3>2
  <2>4. Finals(a2) = Finals(a)
    BY <1>1 DEF Finals
  <2> QED BY <1>1, <2>1, <2>2, <2>3, <2>4 DEF ChoiceAccepted
<1>12. SamplingLoads(a2)
  <2>1. a.feed # 0 => RequestOf(a2, a.feed) = "feed" /\ ReasonOf(a2, a.feed) = "acquired"
    <3> SUFFICES ASSUME a.feed # 0
                 PROVE  RequestOf(a2, a.feed) = "feed" /\ ReasonOf(a2, a.feed) = "acquired"
      OBVIOUS
    <3>1. a.feed \in DOMAIN a.executions
      BY <1>2 DEF AuditState
    <3>2. RequestOf(a, a.feed) = "feed" /\ ReasonOf(a, a.feed) = "acquired"
      BY DEF AbstractsLoad, SamplingLoads
    <3> QED BY <1>6, <3>1, <3>2 DEF RequestOf, ReasonOf, IsOpen
  <2> QED BY <1>1, <1>10, <1>11, <2>1 DEF SamplingLoads
<1>13. SelectedBy(a2) = SelectedBy(a) /\ \A key : WithKey(a2, key) = WithKey(a, key)
  BY <1>1, <1>5, <1>6 DEF SelectedBy, WithKey, Executions
<1>14. \A r \in AuditRequests : Root(a2, r) = Root(a, r)
  BY <1>1, <1>13 DEF Root, AuditRequests
<1>15. ASSUME NEW k \in DOMAIN a.rows PROVE RowAccepted(a2, k)
  <2>1. RowAccepted(a, k)
    BY <1>15 DEF AbstractsLoad
  <2>2. /\ a.rows[k] \in MatrixRow
    BY <1>15, LenProperties, ElementOfSeq DEF AuditState
  <2>3. a.rows[k].acquisition \in DOMAIN a.executions
    BY <1>15 DEF AuditState
  <2> DEFINE p == a.rows[k].previous
             n2 == a.rows[p].acquisition
  <2>4. p # 0 => n2 \in DOMAIN a.executions /\ ~IsOpen(a, n2)
    <3> SUFFICES ASSUME p # 0 PROVE n2 \in DOMAIN a.executions /\ ~IsOpen(a, n2)
      OBVIOUS
    <3>1. p \in DOMAIN a.rows
      BY <1>15, <2>1, RowBefore
    <3> QED BY <3>1 DEF AuditState, AbstractsLoad, RowAccepted
  <2> HIDE DEF n2
  <2>5. p # 0 => (CanContinue(a, n2) => CanContinue(a2, n2))
    BY <1>8, <2>4
  <2>6. /\ RequestOf(a2, a.rows[k].acquisition) = RequestOf(a, a.rows[k].acquisition)
        /\ ~IsOpen(a2, a.rows[k].acquisition)
        /\ a2.executions[a.rows[k].acquisition].previous = a.executions[a.rows[k].acquisition].previous
    BY <1>6, <1>8, <2>1, <2>3 DEF RequestOf, RowAccepted
  <2>7. Root(a2, a.rows[k].request) = Root(a, a.rows[k].request)
    BY <1>14, <2>2 DEF MatrixRow
  <2> QED BY <1>1, <1>13, <2>1, <2>5, <2>6, <2>7 DEF RowAccepted, n2
<1>16. AbstractsLoad(a2)
  BY <1>1, <1>12, <1>15 DEF AbstractsLoad
<1>17. ASSUME NEW b, IsBoundary(b), SummaryLoads(a, b) PROVE SummaryLoads(a2, b)
  <2>1. SummaryLoads(a, b) /\ IsBoundary(b)
    BY <1>17
  <2>2. Len(b.executions) \in Nat /\ DOMAIN b.executions = 1..Len(b.executions)
    BY <2>1, LenProperties DEF IsBoundary
  <2>3. Len(b.executions) <= len /\ b.rows <= Len(a.rows)
    BY <2>1 DEF SummaryLoads
  <2>4. Truncated(a, b).executions = PastExecutions(a.executions, b)
    BY TruncatedFields
  <2>5. PastExecutions(a.executions, b) = b.executions
    BY <2>1, <2>4 DEF SummaryLoads
  <2>6. n \in DOMAIN b.executions => b.executions[n].reason = "none"
    <3> SUFFICES ASSUME n \in DOMAIN b.executions, b.executions[n].reason # "none" PROVE FALSE
      OBVIOUS
    <3>1. PastExecutions(a.executions, b)[n] = a.executions[n]
      BY DEF PastExecutions
    <3>2. a.executions[n].reason = "none"
      BY DEF IsOpen, ReasonOf
    <3> QED BY <2>5, <3>1, <3>2
  <2>7. [a2.executions[n] EXCEPT !.reason = "none"] = [a.executions[n] EXCEPT !.reason = "none"]
    BY <1>2, <1>5 DEF row, ExecutionRow
  <2>8. \A k \in DOMAIN b.executions : k \in DOMAIN a.executions
    BY <1>2, <2>2, <2>3
  <2>9. PastExecutions(a2.executions, b) = PastExecutions(a.executions, b)
    BY <1>5, <2>6, <2>7, <2>8 DEF PastExecutions
  <2>10. Len(b.executions) <= Len(a2.executions)
    BY <1>5, <2>3
  <2> QED BY <1>1, <1>7, <2>1, <2>3, <2>9, <2>10, SummaryStaysLoaded
<1>18. SummariesStand(a, a2)
  BY <1>17 DEF SummariesStand
<1>19. SummariesLoad(a2)
  BY <1>1, <1>18 DEF SummariesLoad, SummariesStand, AuditState
<1> QED BY <1>1, <1>5, <1>7, <1>16, <1>18, <1>19

\* The first executions of the routes stay the ones they are when an execution
\* is added, unless it is the first one of the publisher's page.
LEMMA RootsStay ==
  ASSUME NEW a, AuditState(a), NEW a2, NEW x,
         a2.executions = Append(a.executions, x), x \in ExecutionRow,
         a2.feed = a.feed, a2.events = a.events,
         NEW r \in AuditRequests, r = "publisher" => x.key # <<"matrix", "publisher", 0>>
  PROVE  Root(a2, r) = Root(a, r)
<1> DEFINE len == Len(a.executions)
<1>1. len \in Nat /\ DOMAIN a.executions = 1..len
  BY ExecutionFields
<1>2. /\ DOMAIN a2.executions = 1..(len + 1) /\ a2.executions[len + 1] = x
      /\ \A k \in DOMAIN a.executions : a2.executions[k] = a.executions[k]
  BY <1>1 DEF AuditState
<1>3. SelectedBy(a2) = SelectedBy(a)
  BY DEF SelectedBy
<1>4. x.key # <<"matrix", "publisher", 0>> =>
        WithKey(a2, <<"matrix", "publisher", 0>>) = WithKey(a, <<"matrix", "publisher", 0>>)
  BY <1>1, <1>2 DEF WithKey, Executions
<1> QED BY <1>3, <1>4 DEF Root, AuditRequests

\* A new execution the loader of the executions takes is one all of them take.
LEMMA ExecutionAdded ==
  ASSUME NEW a, AuditState(a), AbstractsLoad(a), SummariesLoad(a),
         NEW key \in AuditKeys,
         NEW r \in AuditRequests, NEW previous \in 0..Len(a.executions),
         key = <<"matrix", "publisher", 0>> => Root(a, "publisher") = 0,
         NEW a2, a2 = WithExecution(a, key, r, previous), AuditsLoad(a2)
  PROVE  /\ AuditState(a2) /\ AbstractsLoad(a2) /\ SummariesLoad(a2) /\ SummariesStand(a, a2)
         /\ DOMAIN a2.executions = DOMAIN a.executions \cup {Len(a.executions) + 1}
         /\ a2.events = a.events
<1> DEFINE x == [key |-> key, request |-> r, previous |-> previous, reason |-> "none"]
           len == Len(a.executions)
<1>1. /\ a2 = [executions |-> a2.executions, feed |-> a2.feed, events |-> a2.events,
               rows |-> a2.rows, summaries |-> a2.summaries]
      /\ a2.executions = Append(a.executions, x)
      /\ a2.feed = a.feed /\ a2.events = a.events /\ a2.rows = a.rows
      /\ a2.summaries = a.summaries
  BY DEF WithExecution, AuditState
<1>2. len \in Nat /\ DOMAIN a.executions = 1..len
  BY ExecutionFields
<1>3. x \in ExecutionRow /\ x.key = key
  <2>1. previous \in Nat
    BY <1>2
  <2>2. "none" \in AuditReasons
    BY DEF AuditReasons
  <2> QED BY <2>1, <2>2 DEF ExecutionRow
<1> HIDE DEF x
<1>4. /\ a2.executions \in Seq(ExecutionRow) /\ Len(a2.executions) = len + 1
      /\ DOMAIN a2.executions = 1..(len + 1)
      /\ \A k \in DOMAIN a.executions : a2.executions[k] = a.executions[k]
  BY <1>1, <1>2, <1>3 DEF AuditState
<1>5. \A k \in DOMAIN a.executions : k \in DOMAIN a2.executions
  BY <1>2, <1>4
<1>6. AuditState(a2)
  <2>1. a2.feed \in 0..Len(a2.executions)
    BY <1>1, <1>2, <1>4 DEF AuditState
  <2> QED BY <1>1, <1>4, <1>5, <2>1 DEF AuditState
<1>7. \A k \in DOMAIN a.executions :
        /\ RequestOf(a2, k) = RequestOf(a, k) /\ ReasonOf(a2, k) = ReasonOf(a, k)
        /\ SeenReason(a2, k) = SeenReason(a, k) /\ (IsOpen(a2, k) <=> IsOpen(a, k))
        /\ (CanContinue(a2, k) <=> CanContinue(a, k))
  BY <1>4 DEF RequestOf, ReasonOf, SeenReason, IsOpen, CanContinue
<1>8. ASSUME NEW e \in DOMAIN a.events PROVE ChoiceAccepted(a2, e)
  <2>1. ChoiceAccepted(a, e) /\ a.events[e].execution \in DOMAIN a.executions
    BY <1>8 DEF AbstractsLoad, SamplingLoads, AuditState
  <2>2. Finals(a2) = Finals(a)
    BY <1>1 DEF Finals
  <2> QED BY <1>1, <1>7, <2>1, <2>2 DEF ChoiceAccepted
<1>9. SamplingLoads(a2)
  <2>1. a.feed # 0 => RequestOf(a2, a.feed) = "feed" /\ ReasonOf(a2, a.feed) = "acquired"
    <3> SUFFICES ASSUME a.feed # 0
                 PROVE  RequestOf(a2, a.feed) = "feed" /\ ReasonOf(a2, a.feed) = "acquired"
      OBVIOUS
    <3>1. a.feed \in DOMAIN a.executions
      BY <1>2 DEF AuditState
    <3>2. RequestOf(a, a.feed) = "feed" /\ ReasonOf(a, a.feed) = "acquired"
      BY DEF AbstractsLoad, SamplingLoads
    <3> QED BY <1>7, <3>1, <3>2
  <2> QED BY <1>1, <1>8, <2>1 DEF SamplingLoads
<1>10. SelectedBy(a2) = SelectedBy(a)
  BY <1>1 DEF SelectedBy
<1>11. ASSUME NEW k \in DOMAIN a.rows PROVE RowAccepted(a2, k)
  <2> DEFINE p == a.rows[k].previous
             n == a.rows[k].acquisition
             n2 == a.rows[p].acquisition
  <2>1. RowAccepted(a, k) /\ n \in DOMAIN a.executions
    BY <1>11 DEF AbstractsLoad, AuditState
  <2>2. a.rows[k].request \in AuditRequests
    <3>1. a.rows[k] \in MatrixRow
      BY <1>11, LenProperties, ElementOfSeq DEF AuditState
    <3> QED BY <3>1 DEF MatrixRow
  <2>3. p # 0 => n2 \in DOMAIN a.executions
    <3>1. p # 0 => p \in DOMAIN a.rows
      BY <1>11, <2>1, RowBefore
    <3> QED BY <3>1 DEF AuditState
  <2>4. p = 0 => n = Root(a, a.rows[k].request)
    BY <2>1 DEF RowAccepted
  <2>5. p = 0 => Root(a2, a.rows[k].request) = Root(a, a.rows[k].request)
    <3> SUFFICES ASSUME p = 0
                 PROVE  Root(a2, a.rows[k].request) = Root(a, a.rows[k].request)
      OBVIOUS
    <3>1. n # 0
      BY <1>2, <2>1
    <3>2. a.rows[k].request = "publisher" => key # <<"matrix", "publisher", 0>>
      BY <2>4, <3>1
    <3>3. a.rows[k].request = "publisher" => x.key # <<"matrix", "publisher", 0>>
      BY <1>3, <3>2
    <3> DEFINE route == a.rows[k].request
    <3>4. route \in AuditRequests /\ (route = "publisher" => x.key # <<"matrix", "publisher", 0>>)
      BY <2>2, <3>3
    <3> HIDE DEF p, n, route
    <3>5. /\ a2.executions = Append(a.executions, x) /\ x \in ExecutionRow
          /\ a2.feed = a.feed /\ a2.events = a.events
      BY <1>1, <1>3
    <3>6. Root(a2, route) = Root(a, route)
      BY ONLY AuditState(a), <3>4, <3>5, RootsStay
    <3> QED BY <3>6 DEF route
  <2> HIDE DEF n, n2
  <2>6. p # 0 => (CanContinue(a2, n2) <=> CanContinue(a, n2))
    BY <1>7, <2>3
  <2>7. /\ RequestOf(a2, n) = RequestOf(a, n) /\ (IsOpen(a2, n) <=> IsOpen(a, n))
        /\ a2.executions[n].previous = a.executions[n].previous
    BY <1>4, <1>7, <2>1
  <2> QED BY <1>1, <1>10, <2>1, <2>5, <2>6, <2>7 DEF RowAccepted, n, n2
<1>12. AbstractsLoad(a2)
  BY <1>1, <1>9, <1>11 DEF AbstractsLoad
<1>13. ASSUME NEW b, IsBoundary(b), SummaryLoads(a, b) PROVE SummaryLoads(a2, b)
  <2>1. SummaryLoads(a, b) /\ IsBoundary(b)
    BY <1>13
  <2>2. Len(b.executions) \in Nat /\ DOMAIN b.executions = 1..Len(b.executions)
    BY <2>1, LenProperties DEF IsBoundary
  <2>3. Len(b.executions) <= len /\ b.rows <= Len(a.rows)
    BY <2>1 DEF SummaryLoads
  <2>4. \A k \in DOMAIN b.executions : a2.executions[k] = a.executions[k]
    BY <1>2, <1>4, <2>2, <2>3
  <2>5. PastExecutions(a2.executions, b) = PastExecutions(a.executions, b)
    BY <2>4 DEF PastExecutions
  <2>6. Len(b.executions) <= Len(a2.executions)
    BY <1>2, <1>4, <2>2, <2>3
  <2> QED BY <1>1, <1>6, <2>1, <2>3, <2>5, <2>6, SummaryStaysLoaded
<1>14. SummariesStand(a, a2)
  BY <1>13 DEF SummariesStand
<1>15. SummariesLoad(a2)
  BY <1>1, <1>14 DEF SummariesLoad, SummariesStand, AuditState
<1>16. DOMAIN a2.executions = DOMAIN a.executions \cup {len + 1}
  BY <1>2, <1>4
<1> QED BY <1>1, <1>6, <1>12, <1>14, <1>15, <1>16

\* What load_audits asks of the key of an execution that continues another.
KeyLoads(a, key, r, previous) ==
  /\ key[1] = "sample" =>
       IF key[3] = 1 THEN previous = 0
       ELSE /\ previous # 0 /\ a.executions[previous].key = <<"sample", r, key[3] - 1>>
            /\ r = "feed" \/ CanContinue(a, previous)
  /\ key[1] = "matrix" /\ key[3] > 0 =>
       /\ previous # 0 /\ CanContinue(a, previous)
       /\ key[3] > 1 => a.executions[previous].key = <<"matrix", r, key[3] - 1>>
\* What an execution continues is settled and nothing else continues it, so the
\* loader of the executions takes it when its key is the next one.
LEMMA NewExecutionLoads ==
  ASSUME NEW a, AuditState(a), AuditsLoad(a), NEW r \in AuditRequests, NEW key \in AuditKeys,
         NEW previous \in 0..Len(a.executions), MayFollow(a, r, previous),
         KeyLoads(a, key, r, previous),
         NEW a2, a2 = WithExecution(a, key, r, previous)
  PROVE  AuditsLoad(a2)
<1> DEFINE x == [key |-> key, request |-> r, previous |-> previous, reason |-> "none"]
           len == Len(a.executions)
<1>1. a2.executions = Append(a.executions, x)
  BY DEF WithExecution, AuditState
<1>2. len \in Nat /\ DOMAIN a.executions = 1..len
  BY ExecutionFields
<1>3. x \in ExecutionRow
  <2>1. previous \in Nat
    BY <1>2
  <2>2. "none" \in AuditReasons
    BY DEF AuditReasons
  <2> QED BY <2>1, <2>2 DEF ExecutionRow
<1>4. x.key = key /\ x.request = r /\ x.previous = previous
  OBVIOUS
<1> HIDE DEF x
<1>5. /\ a2.executions \in Seq(ExecutionRow) /\ Len(a2.executions) = len + 1
      /\ DOMAIN a2.executions = 1..(len + 1) /\ a2.executions[len + 1] = x
      /\ \A k \in DOMAIN a.executions : a2.executions[k] = a.executions[k]
  <2>1. a.executions \in Seq(ExecutionRow)
    BY DEF AuditState
  <2>2. /\ Append(a.executions, x) \in Seq(ExecutionRow)
        /\ Len(Append(a.executions, x)) = Len(a.executions) + 1
        /\ DOMAIN Append(a.executions, x) = 1..(Len(a.executions) + 1)
        /\ \A i \in DOMAIN a.executions : Append(a.executions, x)[i] = a.executions[i]
        /\ Append(a.executions, x)[Len(a.executions) + 1] = x
    BY <1>3, <2>1, Appended
  <2> QED BY <1>1, <2>2
<1>6. \A k \in DOMAIN a.executions :
        /\ RequestOf(a2, k) = RequestOf(a, k) /\ (IsOpen(a2, k) <=> IsOpen(a, k))
        /\ (CanContinue(a2, k) <=> CanContinue(a, k))
  BY <1>5 DEF RequestOf, ReasonOf, IsOpen, CanContinue
<1>7. \A p : Continuations(a2, p) =
               Continuations(a, p) \cup (IF p = previous THEN {len + 1} ELSE {})
  <2> SUFFICES ASSUME NEW p, NEW k
               PROVE  k \in Continuations(a2, p) <=>
                        k \in Continuations(a, p) \/ (p = previous /\ k = len + 1)
    OBVIOUS
  <2>1. CASE k \in DOMAIN a.executions
    BY <1>2, <1>5, <2>1 DEF Continuations, Executions
  <2>2. CASE k = len + 1
    BY <1>2, <1>4, <1>5, <2>2 DEF Continuations, Executions
  <2>3. CASE k \notin DOMAIN a.executions /\ k # len + 1
    BY <1>2, <1>5, <2>3 DEF Continuations, Executions
  <2> QED BY <2>1, <2>2, <2>3
<1>8. ASSUME NEW k \in DOMAIN a.executions PROVE ExecutionAccepted(a2, k)
  <2> DEFINE p == a.executions[k].previous
  <2>1. ExecutionAccepted(a, k)
    BY <1>8 DEF AuditsLoad, Executions
  <2>2. p # 0 => p < k /\ p \in DOMAIN a.executions
    <3>1. p # 0 => p < k
      BY <2>1 DEF ExecutionAccepted
    <3>2. p \in Nat
      BY <1>8, ExecutionFields DEF ExecutionRow
    <3> QED BY <1>2, <3>1, <3>2
  <2>3. k \in Continuations(a, p)
    BY DEF Continuations, Executions
  <2>4. p # 0 => Continuations(a2, p) = Continuations(a, p)
    BY <1>7, <2>3 DEF MayFollow
  <2>5. a2.executions[k] = a.executions[k]
    BY <1>5
  <2>6. p # 0 => /\ RequestOf(a2, p) = RequestOf(a, p) /\ (IsOpen(a2, p) <=> IsOpen(a, p))
                 /\ (CanContinue(a2, p) <=> CanContinue(a, p))
                 /\ a2.executions[p] = a.executions[p]
    BY <1>5, <1>6, <2>2
  <2> QED BY <2>1, <2>4, <2>5, <2>6 DEF ExecutionAccepted
<1>9. ExecutionAccepted(a2, len + 1)
  <2>1. previous # 0 => /\ previous < len + 1 /\ RequestOf(a2, previous) = r
                        /\ ~IsOpen(a2, previous) /\ Continuations(a2, previous) = {len + 1}
    BY <1>2, <1>6, <1>7 DEF MayFollow
  <2>2. previous # 0 => /\ a2.executions[previous] = a.executions[previous]
                        /\ (CanContinue(a2, previous) <=> CanContinue(a, previous))
    BY <1>2, <1>5, <1>6
  <2> QED BY <1>4, <1>5, <2>1, <2>2 DEF ExecutionAccepted, KeyLoads
<1>10. DOMAIN a2.executions = DOMAIN a.executions \cup {len + 1}
  BY <1>2, <1>5
<1> QED BY <1>8, <1>9, <1>10 DEF AuditsLoad, Executions

\* The first execution of a route is one of the plan's, or none.
LEMMA RootIsExecution ==
  ASSUME NEW a, AuditState(a), NEW r \in AuditRequests, SelectedBy(a) # {}
  PROVE  Root(a, r) \in 0..Len(a.executions)
<1>1. Len(a.executions) \in Nat /\ DOMAIN a.executions = 1..Len(a.executions)
  BY ExecutionFields
<1>2. CASE r = "feed"
  BY <1>2 DEF Root, AuditState
<1>3. CASE r = "doi_ra"
  <2> DEFINE S == {a.events[e].execution : e \in SelectedBy(a)}
  <2>1. \A e \in SelectedBy(a) : a.events[e].execution \in DOMAIN a.executions
    BY DEF SelectedBy, AuditState
  <2>2. S \subseteq 0..Len(a.executions) /\ S # {}
    BY <1>1, <2>1
  <2>3. Root(a, r) = Max(S)
    BY <1>3 DEF Root
  <2> HIDE DEF S
  <2>4. Max(S) \in S
    BY <1>1, <2>2, LargestPosition
  <2> QED BY <2>2, <2>3, <2>4
<1>4. CASE r = "publisher"
  <2> DEFINE S == WithKey(a, <<"matrix", r, 0>>)
  <2>1. S \subseteq 1..Len(a.executions)
    BY <1>1 DEF WithKey, Executions
  <2>2. Root(a, r) = Latest(S)
    BY <1>4 DEF Root
  <2> HIDE DEF S
  <2> QED BY <1>1, <2>1, <2>2, LatestIsOne
<1> QED BY <1>2, <1>3, <1>4 DEF AuditRequests

\* The chain of a route is a sequence of executions, empty only without a first.
LEMMA ChainOfRoute ==
  ASSUME NEW a, AuditState(a), AuditsLoad(a), NEW r \in AuditRequests, SelectedBy(a) # {}
  PROVE  /\ Chain(a, r) \in Seq(DOMAIN a.executions)
         /\ Chain(a, r) = <<>> => Root(a, r) = 0
<1>1. Root(a, r) \in 0..Len(a.executions)
  BY RootIsExecution
<1> QED BY <1>1, ChainsOfExecutions DEF Chain

\* Numbers of the rows of a route.
LEMMA RowNumbers ==
  ASSUME NEW a, AuditState(a), NEW r
  PROVE  Cardinality(RowsOf(a, r)) \in Nat /\ Latest(RowsOf(a, r)) \in Nat
<1>1. Len(a.rows) \in Nat /\ DOMAIN a.rows = 1..Len(a.rows)
  BY LenProperties DEF AuditState
<1>2. RowsOf(a, r) \subseteq 1..Len(a.rows)
  BY <1>1 DEF RowsOf
<1>3. IsFiniteSet(RowsOf(a, r))
  <2>1. IsFiniteSet(1..Len(a.rows))
    BY <1>1, FS_Interval
  <2> QED BY <1>2, <2>1, FS_Subset
<1>4. Cardinality(RowsOf(a, r)) \in Nat
  BY <1>3, FS_CardinalityType
<1>5. Latest(RowsOf(a, r)) \in 0..Len(a.rows)
  BY <1>1, <1>2, LatestIsOne
<1> QED BY <1>1, <1>4, <1>5

\* A row the loader takes leaves every summary as it is.
LEMMA RowAdded ==
  ASSUME NEW a, AuditState(a), SummariesLoad(a), NEW r \in AuditRequests,
         NEW n \in DOMAIN a.executions, NEW a2, a2 = WithRow(a, r, n)
  PROVE  /\ AuditState(a2) /\ SummariesLoad(a2) /\ SummariesStand(a, a2)
         /\ a2.executions = a.executions /\ a2.events = a.events
<1> DEFINE x == [request |-> r, acquisition |-> n,
                 generation |-> Cardinality(RowsOf(a, r)) + 1, previous |-> Latest(RowsOf(a, r))]
<1>1. /\ a2 = [executions |-> a2.executions, feed |-> a2.feed, events |-> a2.events,
               rows |-> a2.rows, summaries |-> a2.summaries]
      /\ a2.rows = Append(a.rows, x)
      /\ a2.feed = a.feed /\ a2.events = a.events /\ a2.executions = a.executions
      /\ a2.summaries = a.summaries
  BY DEF WithRow, AuditState
<1>2. x \in MatrixRow /\ x.acquisition = n
  <2>1. Cardinality(RowsOf(a, r)) + 1 \in Nat /\ Latest(RowsOf(a, r)) \in Nat
    BY RowNumbers
  <2>2. n \in Nat
    BY ExecutionFields
  <2> QED BY <2>1, <2>2 DEF MatrixRow
<1> HIDE DEF x
<1>3. a.rows \in Seq(MatrixRow)
  BY DEF AuditState
<1>4. /\ Append(a.rows, x) \in Seq(MatrixRow)
      /\ Len(Append(a.rows, x)) = Len(a.rows) + 1
      /\ Len(a.rows) \in Nat /\ DOMAIN a.rows = 1..Len(a.rows)
      /\ DOMAIN Append(a.rows, x) = 1..(Len(a.rows) + 1)
      /\ \A i \in DOMAIN a.rows : Append(a.rows, x)[i] = a.rows[i]
      /\ Append(a.rows, x)[Len(a.rows) + 1] = x
  BY <1>2, <1>3, Appended
<1>5. ASSUME NEW k \in DOMAIN a2.rows PROVE a2.rows[k].acquisition \in DOMAIN a2.executions
  <2>1. CASE k \in DOMAIN a.rows
    BY <1>1, <1>4, <2>1 DEF AuditState
  <2>2. CASE k = Len(a.rows) + 1
    BY <1>1, <1>2, <1>4, <2>2
  <2> QED BY <1>1, <1>4, <2>1, <2>2
<1>6. AuditState(a2)
  BY <1>1, <1>4, <1>5 DEF AuditState
<1>7. ASSUME NEW b, IsBoundary(b), SummaryLoads(a, b) PROVE SummaryLoads(a2, b)
  <2>1. SummaryLoads(a, b) /\ b.rows \in Nat
    BY <1>7 DEF IsBoundary
  <2>2. b.rows <= Len(a.rows) /\ Len(b.executions) <= Len(a.executions)
    BY <2>1 DEF SummaryLoads
  <2>3. SubSeq(a2.rows, 1, b.rows) = SubSeq(a.rows, 1, b.rows)
    <3> DEFINE s == a.rows  t == a2.rows  m == b.rows
    <3>1. /\ s \in Seq(MatrixRow) /\ t \in Seq(MatrixRow) /\ m \in Nat
          /\ m <= Len(s) /\ Len(s) \in Nat /\ \A i \in 1..Len(s) : t[i] = s[i]
      BY <1>1, <1>3, <1>4, <2>1, <2>2
    <3> HIDE DEF s, t, m
    <3>2. \A i \in 1..m : s[i] \in MatrixRow /\ t[i] = s[i]
      BY <3>1, ElementOfSeq
    <3>3. /\ SubSeq(s, 1, m) \in Seq(MatrixRow) /\ Len(SubSeq(s, 1, m)) = m
          /\ \A i \in 1..m : SubSeq(s, 1, m)[i] = s[i]
      BY <3>1, <3>2, SubSeqProperties
    <3>4. /\ SubSeq(t, 1, m) \in Seq(MatrixRow) /\ Len(SubSeq(t, 1, m)) = m
          /\ \A i \in 1..m : SubSeq(t, 1, m)[i] = t[i]
      BY <3>1, <3>2, SubSeqProperties
    <3>5. SubSeq(t, 1, m) = SubSeq(s, 1, m)
      BY <3>2, <3>3, <3>4, SeqEqual
    <3> QED BY <3>5 DEF s, t, m
  <2>4. b.rows <= Len(a2.rows)
    BY <1>1, <1>4, <2>1, <2>2
  <2> QED BY <1>1, <1>6, <2>1, <2>2, <2>3, <2>4, SummaryStaysLoaded
<1>8. SummariesStand(a, a2)
  BY <1>7 DEF SummariesStand
<1>9. SummariesLoad(a2)
  BY <1>1, <1>8 DEF SummariesLoad, SummariesStand, AuditState
<1> QED BY <1>1, <1>6, <1>8, <1>9

\* A summary that is loaded may be registered.
LEMMA SummaryAdded ==
  ASSUME NEW a, AuditState(a), AbstractsLoad(a), SummariesLoad(a), NEW b, IsBoundary(b),
         SummaryLoads(a, b), NEW a2, a2 = [a EXCEPT !.summaries = @ \cup {b}]
  PROVE  /\ AuditState(a2) /\ AbstractsLoad(a2) /\ SummariesLoad(a2) /\ SummariesStand(a, a2)
         /\ a2.executions = a.executions /\ a2.events = a.events
<1>1. /\ a2 = [executions |-> a2.executions, feed |-> a2.feed, events |-> a2.events,
               rows |-> a2.rows, summaries |-> a2.summaries]
      /\ a2.feed = a.feed /\ a2.events = a.events /\ a2.executions = a.executions
      /\ a2.rows = a.rows /\ a2.summaries = a.summaries \cup {b}
  BY DEF AuditState
<1>2. AuditState(a2)
  BY <1>1 DEF AuditState
<1>3. \A n : /\ RequestOf(a2, n) = RequestOf(a, n) /\ ReasonOf(a2, n) = ReasonOf(a, n)
             /\ (IsOpen(a2, n) <=> IsOpen(a, n)) /\ (CanContinue(a2, n) <=> CanContinue(a, n))
             /\ SeenReason(a2, n) = SeenReason(a, n)
  BY <1>1 DEF RequestOf, ReasonOf, IsOpen, CanContinue, SeenReason
<1>4. \A n : Continuations(a2, n) = Continuations(a, n)
  BY <1>1 DEF Continuations, Executions
<1>5. \A n : ExecutionAccepted(a2, n) <=> ExecutionAccepted(a, n)
  BY <1>1, <1>3, <1>4 DEF ExecutionAccepted
<1>6. Finals(a2) = Finals(a) /\ SelectedBy(a2) = SelectedBy(a)
  BY <1>1 DEF Finals, SelectedBy
<1>7. \A e : ChoiceAccepted(a2, e) <=> ChoiceAccepted(a, e)
  BY <1>1, <1>3, <1>6 DEF ChoiceAccepted
<1>8. \A r \in AuditRequests : Root(a2, r) = Root(a, r)
  <2>1. \A key : WithKey(a2, key) = WithKey(a, key)
    BY <1>1 DEF WithKey, Executions
  <2>2. {a2.events[e].execution : e \in SelectedBy(a2)} = {a.events[e].execution : e \in SelectedBy(a)}
    BY <1>1, <1>6
  <2> QED BY <1>1, <2>1, <2>2 DEF Root, AuditRequests
<1>9. ASSUME NEW k \in DOMAIN a.rows PROVE RowAccepted(a2, k)
  <2>1. RowAccepted(a, k)
    BY <1>9 DEF AbstractsLoad
  <2>2. a.rows[k].request \in AuditRequests
    <3>1. a.rows[k] \in MatrixRow
      BY <1>9, LenProperties, ElementOfSeq DEF AuditState
    <3> QED BY <3>1 DEF MatrixRow
  <2>3. Root(a2, a.rows[k].request) = Root(a, a.rows[k].request)
    BY <1>8, <2>2
  <2> QED BY <1>1, <1>3, <1>6, <2>1, <2>3 DEF RowAccepted
<1>10. AbstractsLoad(a2)
  BY <1>1, <1>3, <1>5, <1>7, <1>9 DEF AbstractsLoad, SamplingLoads, AuditsLoad, Executions
<1>11. ASSUME NEW b2, SummaryLoads(a, b2) PROVE SummaryLoads(a2, b2)
  <2>1. SummaryLoads(a, b2)
    BY <1>11
  <2>2. b2.rows <= Len(a2.rows) /\ Len(b2.executions) <= Len(a2.executions)
    BY <1>1, <2>1 DEF SummaryLoads
  <2>3. /\ PastExecutions(a2.executions, b2) = PastExecutions(a.executions, b2)
        /\ SubSeq(a2.rows, 1, b2.rows) = SubSeq(a.rows, 1, b2.rows)
    BY <1>1
  <2> QED BY <1>1, <1>2, <2>1, <2>2, <2>3, SummaryStaysLoaded
<1> QED BY <1>1, <1>2, <1>10, <1>11 DEF SummariesLoad, SummariesStand

\* The answer of a route of the sampling is an execution, or one is acquired.
LEMMA AnswerIsExecution ==
  ASSUME NEW a, AuditState(a), NEW r, NEW continuing, NEW got \in 0..Len(a.executions)
  PROVE  /\ AnswerFor(a, r, continuing, got) \in 0..Len(a.executions)
         /\ Latest(SampleMatches(a, r)) \in 0..Len(a.executions)
         /\ Cardinality(SampleMatches(a, r)) \in Nat
<1>1. Len(a.executions) \in Nat /\ DOMAIN a.executions = 1..Len(a.executions)
  BY ExecutionFields
<1>2. SampleMatches(a, r) \subseteq 1..Len(a.executions)
  BY <1>1 DEF SampleMatches, Executions
<1>3. Reusable(a, r) \subseteq 1..Len(a.executions)
  BY <1>1 DEF Reusable, Executions
<1>4. Latest(SampleMatches(a, r)) \in 0..Len(a.executions)
  BY <1>1, <1>2, LatestIsOne
<1>5. Latest(Reusable(a, r)) \in 0..Len(a.executions)
  BY <1>1, <1>3, LatestIsOne
<1>6. AnswerFor(a, r, continuing, got) \in 0..Len(a.executions)
  BY <1>1, <1>4, <1>5 DEF AnswerFor
<1>7. Cardinality(SampleMatches(a, r)) \in Nat
  <2>1. IsFiniteSet(1..Len(a.executions))
    BY <1>1, FS_Interval
  <2>2. IsFiniteSet(SampleMatches(a, r))
    BY <1>2, <2>1, FS_Subset
  <2> QED BY <2>2, FS_CardinalityType
<1> QED BY <1>4, <1>6, <1>7

\* A frozen feed or a choice the loader takes comes before every row and every
\* summary.
LEMMA SampleRecorded ==
  ASSUME NEW a, AuditState(a), AbstractsLoad(a), SummariesLoad(a),
         NEW n \in DOMAIN a.executions, NEW r, r = SamplingRoute(a),
         NEW a2, SamplingLoads(a2),
         \/ r = "feed" /\ a2 = [a EXCEPT !.feed = n]
         \/ a2 = WithEvent(a, r, n)
  PROVE  AuditState(a2) /\ AbstractsLoad(a2) /\ SummariesLoad(a2)
<1>1. Len(a.executions) \in Nat /\ DOMAIN a.executions = 1..Len(a.executions)
  BY ExecutionFields
<1>2. ~SamplingComplete(a)
  <2>1. CASE r = "feed"
    BY <2>1 DEF SamplingRoute, SamplingComplete
  <2>2. CASE a2 = WithEvent(a, r, n)
    BY <2>2, NoChoiceAfterComplete
  <2> QED BY <2>1, <2>2
<1>3. a.rows = <<>>
  BY <1>2, RowIsOfComplete
<1>4. a.summaries = {}
  BY <1>2, SummaryIsOfComplete DEF SummariesLoad
<1>5. /\ a2 = [executions |-> a2.executions, feed |-> a2.feed, events |-> a2.events,
               rows |-> a2.rows, summaries |-> a2.summaries]
      /\ a2.executions = a.executions /\ a2.rows = <<>> /\ a2.summaries = {}
  BY <1>3, <1>4 DEF WithEvent, AuditState
<1>6. AuditState(a2)
  <2>1. CASE a2 = [a EXCEPT !.feed = n]
    <3>1. a2.feed = n /\ a2.events = a.events
      BY <2>1 DEF AuditState
    <3> QED BY <1>1, <1>3, <1>5, <3>1 DEF AuditState
  <2>2. CASE a2 = WithEvent(a, r, n)
    <3> DEFINE x == [of |-> r, execution |-> n, reason |-> SeenReason(a, n),
                     result |-> IF r = "feed" THEN "blocked" ELSE Verdict(ReasonOf(a, n))]
    <3>1. a2.feed = a.feed /\ a2.events = Append(a.events, x)
      BY <2>2 DEF WithEvent, AuditState
    <3>2. r \in {"feed", "doi_ra"}
      BY DEF SamplingRoute
    <3>3. SeenReason(a, n) \in AuditReasons
      <4>1. a.executions[n].reason \in AuditReasons
        BY ExecutionFields DEF ExecutionRow
      <4>2. "outcome_unknown" \in AuditReasons
        BY DEF AuditReasons
      <4> QED BY <4>1, <4>2 DEF SeenReason, ReasonOf
    <3>4. (IF r = "feed" THEN "blocked" ELSE Verdict(ReasonOf(a, n))) \in {"selected", "excluded", "blocked"}
      BY DEF Verdict
    <3>5. x \in EventRow /\ x.execution = n
      BY <1>1, <3>2, <3>3, <3>4 DEF EventRow
    <3> HIDE DEF x
    <3>6. a.events \in Seq(EventRow)
      BY DEF AuditState
    <3>7. /\ Append(a.events, x) \in Seq(EventRow)
          /\ Len(a.events) \in Nat /\ DOMAIN a.events = 1..Len(a.events)
          /\ DOMAIN Append(a.events, x) = 1..(Len(a.events) + 1)
          /\ \A i \in DOMAIN a.events : Append(a.events, x)[i] = a.events[i]
          /\ Append(a.events, x)[Len(a.events) + 1] = x
      BY <3>5, <3>6, Appended
    <3>8. \A e \in DOMAIN a2.events : a2.events[e].execution \in DOMAIN a2.executions
      <4> SUFFICES ASSUME NEW e \in DOMAIN a2.events
                   PROVE  a2.events[e].execution \in DOMAIN a2.executions
        OBVIOUS
      <4>1. CASE e \in DOMAIN a.events
        BY <1>5, <3>1, <3>7, <4>1 DEF AuditState
      <4>2. CASE e = Len(a.events) + 1
        BY <1>5, <3>1, <3>5, <3>7, <4>2
      <4> QED BY <3>1, <3>7, <4>1, <4>2
    <3> QED BY <1>3, <1>5, <3>1, <3>7, <3>8 DEF AuditState
  <2> QED BY <2>1, <2>2
<1>7. AbstractsLoad(a2)
  <2>1. DOMAIN a2.rows = {}
    BY <1>5
  <2> QED BY <2>1 DEF AbstractsLoad
<1> QED BY <1>5, <1>6, <1>7 DEF SummariesLoad

-------------------------------------------------------------------------------
(* The frames, step by step *)

\* What is written under the lock, or while nobody holds it, disturbs no other
\* frame.
LEMMA FrameMoves ==
  ASSUME FramesSound, NEW c \in Auditors, planLock \in {c, Nobody}, NEW x, Puts(c, x),
         FrameSound(audit', x), x.at \in AtWork => planLock' = c
  PROVE  FramesSound'
<1>1. auditors' = [d \in Auditors |-> auditors'[d]]
  BY DEF FramesSound, Puts
<1>2. auditors'[c] = x /\ \A d \in Auditors \ {c} : auditors'[d] = auditors[d]
  BY DEF FramesSound, Puts
<1>3. ASSUME NEW d \in Auditors \ {c}
      PROVE  auditors[d].at \notin AtWork /\ FrameSound(audit', auditors[d])
  <2>1. planLock # d
    BY AuditorAssumption
  <2>2. auditors[d].at \notin AtWork /\ FrameSound(audit, auditors[d])
    BY <2>1 DEF FramesSound
  <2> QED BY <2>2 DEF FrameSound, AtWork
<1>4. \A d \in Auditors : /\ auditors'[d].at \in AtWork => planLock' = d
                          /\ FrameSound(audit', auditors'[d])
  BY <1>2, <1>3
<1> QED BY <1>1, <1>4 DEF FramesSound

\* A step that leaves executions and events alone and does not go to work.
LEMMA FrameRests ==
  ASSUME FramesSound, NEW c \in Auditors, NEW x, Puts(c, x), x.at \notin AtWork,
         FrameSound(audit', x),
         audit.executions' = audit.executions, audit.events' = audit.events,
         planLock' = planLock \/ Leave(c)
  PROVE  FramesSound'
<1>1. auditors' = [d \in Auditors |-> auditors'[d]]
  BY DEF FramesSound, Puts
<1>2. auditors'[c] = x /\ \A d \in Auditors \ {c} : auditors'[d] = auditors[d]
  BY DEF FramesSound, Puts
<1>3. SelectedBy(audit') = SelectedBy(audit)
  BY DEF SelectedBy
<1>4. ASSUME NEW d \in Auditors \ {c}
      PROVE  /\ auditors[d].at \in AtWork => planLock' = d
             /\ FrameSound(audit', auditors[d])
  <2>1. auditors[d].at \in AtWork => planLock = d
    BY DEF FramesSound
  <2>2. planLock = d => planLock' = d
    BY DEF Leave
  <2>3. FrameSound(audit, auditors[d])
    BY DEF FramesSound
  <2>4. FrameSound(audit', auditors[d])
    BY <1>3, <2>3 DEF FrameSound
  <2> QED BY <2>1, <2>2, <2>4
<1>5. \A d \in Auditors : /\ auditors'[d].at \in AtWork => planLock' = d
                          /\ FrameSound(audit', auditors'[d])
  BY <1>2, <1>4
<1> QED BY <1>1, <1>5 DEF FramesSound

\* A refusal leaves the plan alone.
LEMMA RefusedInv ==
  ASSUME AInv, NEW c \in Auditors, NEW r, NEW previous, Refused(c, r, previous)
  PROVE  AInv'
<1> DEFINE x == [at |-> "refused", request |-> r, previous |-> previous]
<1>1. audit' = audit /\ Puts(c, x) /\ Leave(c)
  BY DEF Refused
<1>2. x.at = "refused"
  OBVIOUS
<1> HIDE DEF x
<1>3. FrameSound(audit', x) /\ x.at \notin AtWork
  BY <1>2 DEF FrameSound, AtWork
<1>4. FramesSound'
  BY <1>1, <1>3, FrameRests DEF AInv
<1> QED BY <1>1, <1>4 DEF AInv

\* The next route, or the end of the run.
LEMMA ToRouteSound ==
  ASSUME FramesSound, NEW c \in Auditors, planLock = c, NEW a, audit' = a, NEW continuing, NEW i,
         ToRoute(c, a, continuing, i)
  PROVE  FramesSound'
<1>1. CASE i \in DOMAIN Matrix(a)
  <2> DEFINE x == InMatrix(continuing, i, Existed(a, i))
  <2>1. Puts(c, x) /\ planLock' = c
    BY <1>1 DEF ToRoute
  <2>2. SelectedBy(a) # {} /\ i \in 1..3
    <3>1. SelectedBy(a) # {}
      <4> SUFFICES ASSUME SelectedBy(a) = {} PROVE FALSE
        OBVIOUS
      <4>1. Matrix(a) = <<>>
        BY DEF Matrix
      <4>2. DOMAIN Matrix(a) = {}
        BY <4>1
      <4> QED BY <1>1, <4>2
    <3>2. DOMAIN Matrix(a) = DOMAIN AuditRoutes
      BY <3>1 DEF Matrix
    <3>3. DOMAIN AuditRoutes = 1..3
      BY DEF AuditRoutes
    <3> QED BY <1>1, <3>1, <3>2, <3>3
  <2>3. InAMatrix(x) /\ x.at = "matrix"
    BY <2>2 DEF InMatrix, InAMatrix
  <2> HIDE DEF x
  <2>4. FrameSound(audit', x)
    BY <2>2, <2>3 DEF FrameSound, AtWork
  <2> QED BY <2>1, <2>4, FrameMoves
<1>2. CASE i \notin DOMAIN Matrix(a)
  <2>1. Puts(c, AtEase)
    BY <1>2 DEF ToRoute
  <2>2. FrameSound(audit', AtEase) /\ AtEase.at \notin AtWork
    BY DEF FrameSound, AtEase, AtWork
  <2> QED BY <2>1, <2>2, FrameMoves
<1> QED BY <1>1, <1>2

\* An execution that is started is fetched by whoever started it.
LEMMA FetchStarts ==
  ASSUME AInv, NEW c \in Auditors, planLock \in {c, Nobody}, planLock' = c,
         DOMAIN audit'.executions = DOMAIN audit.executions \cup {Len(audit.executions) + 1},
         audit'.events = audit.events,
         NEW y, y = AtEase \/ IsSampling(y) \/ (InAMatrix(y) /\ SelectedBy(audit) # {}),
         Puts(c, [at |-> "fetching", execution |-> Len(audit.executions) + 1, then |-> y])
  PROVE  FramesSound'
<1> DEFINE x == [at |-> "fetching", execution |-> Len(audit.executions) + 1, then |-> y]
<1>1. x.at = "fetching" /\ x.execution = Len(audit.executions) + 1 /\ x.then = y
  OBVIOUS
<1>2. Puts(c, x)
  OBVIOUS
<1> HIDE DEF x
<1>3. Len(audit.executions) \in Nat /\ DOMAIN audit.executions = 1..Len(audit.executions)
  BY ExecutionFields DEF AInv
<1>4. \A e \in DOMAIN audit.events : audit.events[e].execution # x.execution
  <2>1. \A e \in DOMAIN audit.events : audit.events[e].execution \in DOMAIN audit.executions
    BY DEF AInv, AuditState
  <2> QED BY <1>1, <1>3, <2>1
<1>5. SelectedBy(audit') = SelectedBy(audit)
  BY DEF SelectedBy
<1>6. FrameSound(audit', x)
  BY <1>1, <1>4, <1>5 DEF FrameSound, AtWork
<1> QED BY <1>2, <1>6, FrameMoves DEF AInv

\* _acquire_source, from the sampling or from the matrix.
LEMMA StartExecutionInv ==
  ASSUME AInv, NEW c \in Auditors, planLock = c,
         NEW key \in AuditKeys, NEW r \in AuditRequests, NEW previous \in 0..Len(audit.executions),
         key = <<"matrix", "publisher", 0>> => Root(audit, "publisher") = 0,
         NEW y, IsSampling(y) \/ (InAMatrix(y) /\ SelectedBy(audit) # {}),
         StartExecution(c, key, r, previous, y)
  PROVE  AInv'
<1>1. CASE Refused(c, r, previous)
  BY <1>1, RefusedInv
<1>2. CASE ~Refused(c, r, previous)
  <2>1. /\ AuditsLoad(WithExecution(audit, key, r, previous))
        /\ audit' = WithExecution(audit, key, r, previous)
        /\ Puts(c, [at |-> "fetching", execution |-> Len(audit.executions) + 1, then |-> y])
        /\ planLock' = planLock
    BY <1>2 DEF StartExecution
  <2>2. /\ AuditState(audit') /\ AbstractsLoad(audit') /\ SummariesLoad(audit')
        /\ DOMAIN audit'.executions = DOMAIN audit.executions \cup {Len(audit.executions) + 1}
        /\ audit'.events = audit.events
    BY <2>1, ExecutionAdded DEF AInv
  <2>3. FramesSound'
    BY <2>1, <2>2, FetchStarts
  <2> QED BY <2>2, <2>3 DEF AInv
<1> QED BY <1>1, <1>2

\* acquire_source by itself: the plan is at rest and the key is its own.
LEMMA AcquireSourceInv ==
  ASSUME AInv, NEW c \in Auditors, NEW r \in ToSet(AuditRoutes), NEW previous \in 0..Len(audit.executions),
         AcquireSource(c, r, previous)
  PROVE  AInv'
<1>1. r \in AuditRequests
  BY DEF AuditRoutes, ToSet, AuditRequests
<1>2. /\ audit' = WithExecution(audit, <<"own", r, 1>>, r, previous)
      /\ MayFollow(audit, r, previous) /\ planLock = Nobody /\ planLock' = c
      /\ Puts(c, [at |-> "fetching", execution |-> Len(audit.executions) + 1, then |-> AtEase])
  BY DEF AcquireSource
<1>3. AuditState(audit) /\ AbstractsLoad(audit) /\ SummariesLoad(audit) /\ AuditsLoad(audit)
  BY DEF AInv, AbstractsLoad, SamplingLoads
<1>4. <<"own", r, 1>> \in AuditKeys /\ <<"own", r, 1>> # <<"matrix", "publisher", 0>>
  BY <1>1 DEF AuditKeys
<1>5. AuditsLoad(audit')
  <2>1. KeyLoads(audit, <<"own", r, 1>>, r, previous)
    BY DEF KeyLoads
  <2> QED BY <1>1, <1>2, <1>3, <1>4, <2>1, NewExecutionLoads
<1>6. /\ AuditState(audit') /\ AbstractsLoad(audit') /\ SummariesLoad(audit')
      /\ DOMAIN audit'.executions = DOMAIN audit.executions \cup {Len(audit.executions) + 1}
      /\ audit'.events = audit.events
  BY <1>1, <1>2, <1>3, <1>4, <1>5, ExecutionAdded
<1>7. FramesSound'
  BY <1>2, <1>6, FetchStarts
<1> QED BY <1>6, <1>7 DEF AInv

\* What settles an execution goes back to what started it.
LEMMA SettleExecutionInv ==
  ASSUME AInv, NEW c \in Auditors, NEW reason, SettleExecution(c, reason)
  PROVE  AInv'
<1> DEFINE x == auditors[c]
           n == auditors[c].execution
<1>1. x.at = "fetching" /\ reason \in Outcomes(RequestOf(audit, n))
  BY DEF SettleExecution
<1>2. /\ FrameSound(audit, x) /\ planLock = c
  BY <1>1 DEF AInv, FramesSound, AtWork
<1>3. /\ n \in DOMAIN audit.executions
      /\ \A e \in DOMAIN audit.events : audit.events[e].execution # n
      /\ x.then = AtEase \/ IsSampling(x.then) \/ (InAMatrix(x.then) /\ SelectedBy(audit) # {})
  BY <1>1, <1>2 DEF FrameSound
<1>4. reason \in AuditReasons /\ reason # "none"
  <2>1. RequestOf(audit, n) \in AuditRequests
    BY <1>3, ExecutionFields DEF AInv, RequestOf, ExecutionRow
  <2> QED BY <1>1, <2>1 DEF Outcomes, AuditRequests, AuditReasons
<1>5. CASE ~IsOpen(audit, n)
  <2>1. Refused(c, RequestOf(audit, n), n)
    BY <1>5 DEF SettleExecution
  <2> QED BY <2>1, RefusedInv
<1>6. CASE IsOpen(audit, n)
  <2>1. /\ audit' = WithSettlement(audit, n, reason)
        /\ Puts(c, IF x.then = AtEase THEN AtEase ELSE [x.then EXCEPT !.got = n])
        /\ IF x.then = AtEase THEN Leave(c) ELSE planLock' = planLock
    BY <1>6 DEF SettleExecution
  <2>2. /\ AuditState(audit') /\ AbstractsLoad(audit') /\ SummariesLoad(audit')
        /\ DOMAIN audit'.executions = DOMAIN audit.executions /\ audit'.events = audit.events
    BY <1>3, <1>4, <1>6, <2>1, SettlementAccepted DEF AInv
  <2>3. SelectedBy(audit') = SelectedBy(audit)
    BY <2>2 DEF SelectedBy
  <2>4. FramesSound'
    <3>1. CASE x.then = AtEase
      <4>1. Puts(c, AtEase)
        BY <2>1, <3>1
      <4>2. FrameSound(audit', AtEase) /\ AtEase.at \notin AtWork
        BY DEF FrameSound, AtEase, AtWork
      <4> QED BY <1>2, <4>1, <4>2, FrameMoves DEF AInv
    <3>2. CASE x.then # AtEase
      <4> DEFINE y == [x.then EXCEPT !.got = n]
      <4>1. Puts(c, y) /\ planLock' = c
        BY <1>2, <2>1, <3>2
      <4>2. n \in 0..Len(audit'.executions)
        BY <1>3, <2>2, ExecutionFields
      <4>3. FrameSound(audit', y)
        <5>1. CASE IsSampling(x.then)
          <6>1. y = [at |-> "sampling", continuing |-> x.then.continuing, got |-> n]
            BY <5>1 DEF IsSampling
          <6>2. IsSampling(y) /\ y.got = n /\ y.at = "sampling"
            BY <6>1 DEF IsSampling
          <6> QED BY <4>2, <6>2 DEF FrameSound, AtWork
        <5>2. CASE InAMatrix(x.then) /\ SelectedBy(audit) # {}
          <6>1. y = [at |-> "matrix", continuing |-> x.then.continuing, got |-> n,
                     route |-> x.then.route, existed |-> x.then.existed, resumed |-> x.then.resumed]
            BY <5>2 DEF InAMatrix
          <6>2. InAMatrix(y) /\ y.at = "matrix"
            BY <5>2, <6>1 DEF InAMatrix
          <6> QED BY <2>3, <5>2, <6>2 DEF FrameSound, AtWork
        <5> QED BY <1>3, <3>2, <5>1, <5>2
      <4> HIDE DEF y
      <4> QED BY <1>2, <4>1, <4>3, FrameMoves DEF AInv
    <3> QED BY <3>1, <3>2
  <2> QED BY <2>2, <2>4 DEF AInv
<1> QED BY <1>5, <1>6

\* An open execution whose outcome is not known is closed in the same frame.
LEMMA CloseUnknownInv ==
  ASSUME AInv, NEW c \in Auditors, planLock = c, NEW n \in DOMAIN audit.executions,
         IsOpen(audit, n), auditors[c].at \in {"sampling", "matrix"},
         audit' = WithSettlement(audit, n, "outcome_unknown"), UNCHANGED <<auditors, planLock>>
  PROVE  AInv'
<1>1. "outcome_unknown" \in AuditReasons
  BY DEF AuditReasons
<1>2. /\ AuditState(audit') /\ AbstractsLoad(audit') /\ SummariesLoad(audit')
      /\ DOMAIN audit'.executions = DOMAIN audit.executions /\ audit'.events = audit.events
  BY <1>1, SettlementAccepted DEF AInv
<1>3. SelectedBy(audit') = SelectedBy(audit)
  BY <1>2 DEF SelectedBy
<1>4. 0..Len(audit'.executions) = 0..Len(audit.executions)
  <2>1. /\ Len(audit.executions) \in Nat /\ DOMAIN audit.executions = 1..Len(audit.executions)
        /\ Len(audit'.executions) \in Nat /\ DOMAIN audit'.executions = 1..Len(audit'.executions)
    BY <1>2, ExecutionFields DEF AInv
  <2> QED BY <1>2, <2>1
<1>5. FrameSound(audit', auditors[c])
  <2>1. FrameSound(audit, auditors[c])
    BY DEF AInv, FramesSound
  <2> QED BY <1>3, <1>4, <2>1 DEF FrameSound, AtWork
<1>6. Puts(c, auditors[c])
  <2>1. auditors = [d \in Auditors |-> auditors[d]]
    BY DEF AInv, FramesSound
  <2>2. [auditors EXCEPT ![c] = auditors[c]] = auditors
    BY <2>1
  <2> QED BY <2>2 DEF Puts
<1>7. FramesSound'
  BY <1>5, <1>6, FrameMoves DEF AInv
<1> QED BY <1>2, <1>7 DEF AInv

\* An execution of the sampling is acquired, or the last one is closed.
LEMMA AcquireForSampleInv ==
  ASSUME AInv, NEW c \in Auditors, AcquireForSample(c)
  PROVE  AInv'
<1> DEFINE x == auditors[c]
           r == SamplingRoute(audit)
           last == Latest(SampleMatches(audit, r))
           key == <<"sample", r, Cardinality(SampleMatches(audit, r)) + 1>>
<1>1. x.at = "sampling"
  BY DEF AcquireForSample
<1>2. FrameSound(audit, x) /\ planLock = c
  BY <1>1 DEF AInv, FramesSound, AtWork
<1>3. IsSampling(x) /\ x.got \in 0..Len(audit.executions)
  BY <1>1, <1>2 DEF FrameSound
<1>4. last \in 0..Len(audit.executions) /\ Cardinality(SampleMatches(audit, r)) \in Nat
  BY <1>3, AnswerIsExecution DEF AInv
<1>5. Len(audit.executions) \in Nat /\ DOMAIN audit.executions = 1..Len(audit.executions)
  BY ExecutionFields DEF AInv
<1>6. r \in AuditRequests
  BY DEF SamplingRoute, AuditRequests
<1>7. key \in AuditKeys /\ key # <<"matrix", "publisher", 0>>
  BY <1>4, <1>6 DEF AuditKeys
<1>8. CASE Lost(audit, last)
  <2>1. last \in DOMAIN audit.executions /\ IsOpen(audit, last)
    BY <1>4, <1>5, <1>8 DEF Lost
  <2>2. /\ audit' = WithSettlement(audit, last, "outcome_unknown")
        /\ UNCHANGED <<auditors, planLock>>
    BY <1>8 DEF AcquireForSample
  <2> HIDE DEF last
  <2> QED BY <1>1, <1>2, <2>1, <2>2, CloseUnknownInv
<1>9. CASE ~Lost(audit, last)
  <2>1. StartExecution(c, key, r, last, x)
    BY <1>9 DEF AcquireForSample
  <2> HIDE DEF key, last, r, x
  <2> QED BY <1>2, <1>3, <1>4, <1>6, <1>7, <2>1, StartExecutionInv
<1> QED BY <1>8, <1>9

\* The feed is frozen, or a choice is appended that the loader takes.
LEMMA RecordSampleInv ==
  ASSUME AInv, NEW c \in Auditors, RecordSample(c)
  PROVE  AInv'
<1> DEFINE x == auditors[c]
           r == SamplingRoute(audit)
           n == AnswerFor(audit, r, x.continuing, x.got)
<1>1. x.at = "sampling" /\ n # 0 /\ SamplingLoads(audit')
  BY DEF RecordSample
<1>2. FrameSound(audit, x) /\ planLock = c
  BY <1>1 DEF AInv, FramesSound, AtWork
<1>3. IsSampling(x) /\ x.got \in 0..Len(audit.executions)
  BY <1>1, <1>2 DEF FrameSound
<1>4. n \in DOMAIN audit.executions
  <2>1. n \in 0..Len(audit.executions)
    BY <1>3, AnswerIsExecution DEF AInv
  <2>2. Len(audit.executions) \in Nat /\ DOMAIN audit.executions = 1..Len(audit.executions)
    BY ExecutionFields DEF AInv
  <2> HIDE DEF n
  <2> QED BY <1>1, <2>1, <2>2
<1>5. CASE r = "feed" /\ ReasonOf(audit, n) = "acquired"
  <2>1. audit' = [audit EXCEPT !.feed = n] /\ Puts(c, Sampling(x.continuing)) /\ planLock' = planLock
    BY <1>5 DEF RecordSample
  <2>2. AuditState(audit') /\ AbstractsLoad(audit') /\ SummariesLoad(audit')
    <3> HIDE DEF n
    <3>1. r = SamplingRoute(audit)
      OBVIOUS
    <3> HIDE DEF r
    <3> QED BY <1>1, <1>4, <1>5, <2>1, <3>1, SampleRecorded DEF AInv
  <2> DEFINE y == Sampling(x.continuing)
  <2>3. IsSampling(y) /\ y.at = "sampling" /\ y.got = 0
    BY DEF Sampling, IsSampling
  <2> HIDE DEF y
  <2>4. FrameSound(audit', y)
    <3>1. 0 \in 0..Len(audit'.executions)
      BY <2>2, ExecutionFields
    <3> QED BY <2>3, <3>1 DEF FrameSound, AtWork
  <2>5. Puts(c, y) /\ planLock' = c
    BY <1>2, <2>1 DEF y
  <2>6. FramesSound'
    BY <1>2, <2>4, <2>5, FrameMoves DEF AInv
  <2> QED BY <2>2, <2>6 DEF AInv
<1>6. CASE ~(r = "feed" /\ ReasonOf(audit, n) = "acquired")
  <2>1. audit' = WithEvent(audit, r, n) /\ ToRoute(c, audit', x.continuing, 1)
    BY <1>6 DEF RecordSample
  <2>2. AuditState(audit') /\ AbstractsLoad(audit') /\ SummariesLoad(audit')
    <3> HIDE DEF n
    <3>1. r = SamplingRoute(audit)
      OBVIOUS
    <3> HIDE DEF r
    <3> QED BY <1>1, <1>4, <2>1, <3>1, SampleRecorded DEF AInv
  <2>3. FramesSound'
    <3> DEFINE a == audit'
    <3>1. audit' = a /\ ToRoute(c, a, x.continuing, 1)
      BY <2>1
    <3> HIDE DEF a
    <3> QED BY <1>2, <3>1, ToRouteSound DEF AInv
  <2> QED BY <2>2, <2>3 DEF AInv
<1> QED BY <1>5, <1>6

\* A run or a resume takes the lock and begins with the sampling or the matrix.
LEMMA EnterInv ==
  ASSUME AInv, NEW c \in Auditors, NEW continuing, Enter(c, continuing)
  PROVE  AInv'
<1> DEFINE x == [at |-> "start", continuing |-> continuing]
<1>1. planLock = Nobody /\ planLock' = c /\ Puts(c, x) /\ audit' = audit
  BY DEF Enter
<1>2. x.at = "start"
  OBVIOUS
<1> HIDE DEF x
<1>3. FrameSound(audit', x)
  BY <1>2 DEF FrameSound, AtWork
<1>4. FramesSound'
  BY <1>1, <1>3, FrameMoves DEF AInv
<1> QED BY <1>1, <1>4 DEF AInv

\* What is chosen already goes to the matrix, the rest to the sampling.
LEMMA StartSamplingInv ==
  ASSUME AInv, NEW c \in Auditors, StartSampling(c)
  PROVE  AInv'
<1> DEFINE x == auditors[c]
<1>1. x.at = "start" /\ audit' = audit
  BY DEF StartSampling
<1>2. planLock = c
  BY <1>1 DEF AInv, FramesSound, AtWork
<1>3. FramesSound'
  <2>1. CASE Skips(audit, x.continuing)
    <3>1. ToRoute(c, audit, x.continuing, 1)
      BY <2>1 DEF StartSampling
    <3> QED BY <1>1, <1>2, <3>1, ToRouteSound DEF AInv
  <2>2. CASE ~Skips(audit, x.continuing)
    <3> DEFINE y == Sampling(x.continuing)
    <3>1. IsSampling(y) /\ y.at = "sampling" /\ y.got = 0
      BY DEF Sampling, IsSampling
    <3>2. Puts(c, y) /\ planLock' = c
      BY <1>2, <2>2 DEF StartSampling
    <3> HIDE DEF y
    <3>3. FrameSound(audit', y)
      <4>1. 0 \in 0..Len(audit.executions)
        BY ExecutionFields DEF AInv
      <4> QED BY <1>1, <3>1, <4>1 DEF FrameSound, AtWork
    <3> QED BY <1>2, <3>2, <3>3, FrameMoves DEF AInv
  <2> QED BY <2>1, <2>2
<1> QED BY <1>1, <1>3 DEF AInv

\* The frame of a route whose last execution was continued.
LEMMA ResumedFrame ==
  ASSUME NEW x, InAMatrix(x), NEW v
  PROVE  InAMatrix([x EXCEPT !.resumed = v])
<1> DEFINE y == [x EXCEPT !.resumed = v]
<1>1. y = [at |-> "matrix", continuing |-> x.continuing, got |-> x.got, route |-> x.route,
           existed |-> x.existed, resumed |-> v]
  BY DEF InAMatrix
<1>2. y.route = x.route
  BY <1>1
<1> QED BY <1>1, <1>2 DEF InAMatrix

\* A route of the matrix is acquired, closed, interpreted, continued or left.
LEMMA FillMatrixInv ==
  ASSUME AInv, NEW c \in Auditors, FillMatrix(c)
  PROVE  AInv'
<1> DEFINE x == auditors[c]
           r == AuditRoutes[x.route]
           chain == Chain(audit, r)
           waiting == ToInterpret(audit, r)
           first == chain[Min(waiting)]
<1>1. x.at = "matrix"
  BY DEF FillMatrix
<1>2. FrameSound(audit, x) /\ planLock = c
  BY <1>1 DEF AInv, FramesSound, AtWork
<1>3. InAMatrix(x) /\ x.route \in 1..3 /\ SelectedBy(audit) # {}
  BY <1>1, <1>2 DEF FrameSound, InAMatrix
<1>4. r \in AuditRequests
  BY <1>3 DEF AuditRoutes, AuditRequests
<1>5. AuditState(audit) /\ AuditsLoad(audit)
  BY DEF AInv, AbstractsLoad, SamplingLoads
<1>6. chain \in Seq(DOMAIN audit.executions) /\ (chain = <<>> => Root(audit, r) = 0)
  BY <1>3, <1>4, <1>5, ChainOfRoute
<1>7. Len(audit.executions) \in Nat /\ DOMAIN audit.executions = 1..Len(audit.executions)
  BY <1>5, ExecutionFields
<1>8. Len(chain) \in Nat /\ DOMAIN chain = 1..Len(chain)
  BY <1>6, LenProperties
<1>9. waiting # {} => first \in DOMAIN audit.executions
  <2> SUFFICES ASSUME waiting # {} PROVE first \in DOMAIN audit.executions
    OBVIOUS
  <2>1. waiting \subseteq DOMAIN chain
    BY DEF ToInterpret
  <2> HIDE DEF chain, waiting
  <2>2. waiting \subseteq Nat
    BY <1>8, <2>1
  <2>3. Min(waiting) \in waiting
    BY <2>2, SmallestPosition
  <2>4. Min(waiting) \in 1..Len(chain)
    BY <1>8, <2>1, <2>3
  <2>5. chain[Min(waiting)] \in DOMAIN audit.executions
    BY <1>6, <2>4, ElementOfSeq
  <2> QED BY <2>5
<1>10. chain # <<>> => Last(chain) \in DOMAIN audit.executions /\ Len(chain) # 0
  <2> SUFFICES ASSUME chain # <<>>
               PROVE  Last(chain) \in DOMAIN audit.executions /\ Len(chain) # 0
    OBVIOUS
  <2> HIDE DEF chain
  <2>1. Len(chain) \in 1..Len(chain)
    BY <1>6, <1>8, EmptySeq
  <2>2. chain[Len(chain)] \in DOMAIN audit.executions
    BY <1>6, <2>1, ElementOfSeq
  <2> QED BY <2>1, <2>2 DEF Last
<1>11. \/ chain = <<>> /\ StartExecution(c, <<"matrix", r, 0>>, r, 0, x)
       \/ /\ waiting # {} /\ IsOpen(audit, first) /\ x.continuing
          /\ audit' = WithSettlement(audit, first, "outcome_unknown")
          /\ UNCHANGED <<auditors, planLock>>
       \/ /\ waiting # {} /\ ~IsOpen(audit, first)
          /\ IF AbstractsLoad(WithRow(audit, r, first))
             THEN /\ audit' = WithRow(audit, r, first)
                  /\ UNCHANGED <<auditors, planLock>>
             ELSE Refused(c, r, first)
       \/ /\ chain # <<>>
          /\ StartExecution(c, <<"matrix", r, Len(chain)>>, r, Last(chain),
                            [x EXCEPT !.resumed = TRUE])
       \/ ToRoute(c, audit, x.continuing, x.route + 1) /\ audit' = audit
  <2> DEFINE Body(ch, w) ==
        LET one == ch[Min(w)] IN
        \/ /\ ch = <<>> /\ StartExecution(c, <<"matrix", r, 0>>, r, 0, x)
        \/ /\ w # {} /\ IsOpen(audit, one) /\ x.continuing
           /\ audit' = WithSettlement(audit, one, "outcome_unknown")
           /\ UNCHANGED <<auditors, planLock>>
        \/ /\ w # {} /\ ~IsOpen(audit, one)
           /\ IF AbstractsLoad(WithRow(audit, r, one))
              THEN /\ audit' = WithRow(audit, r, one)
                   /\ UNCHANGED <<auditors, planLock>>
              ELSE Refused(c, r, one)
        \/ /\ ch # <<>> /\ w = {}
           /\ x.continuing /\ x.existed /\ ~x.resumed /\ CanContinue(audit, Last(ch))
           /\ StartExecution(c, <<"matrix", r, Len(ch)>>, r, Last(ch),
                             [x EXCEPT !.resumed = TRUE])
        \/ /\ ch # <<>>
           /\ \/ w # {} /\ IsOpen(audit, one) /\ ~x.continuing
              \/ /\ w = {}
                 /\ ~(x.continuing /\ x.existed /\ ~x.resumed /\ CanContinue(audit, Last(ch)))
           /\ ToRoute(c, audit, x.continuing, x.route + 1)
           /\ UNCHANGED audit
  <2>1. \E ch \in {chain}, w \in {waiting} : Body(ch, w)
    BY DEF FillMatrix
  <2>2. Body(chain, waiting)
    <3> HIDE DEF Body, chain, waiting
    <3> QED BY <2>1
  <2> HIDE DEF chain, waiting
  <2> QED BY <2>2
<1> HIDE DEF chain, waiting
<1>12. CASE chain = <<>> /\ StartExecution(c, <<"matrix", r, 0>>, r, 0, x)
  <2>1. <<"matrix", r, 0>> \in AuditKeys
    BY <1>4 DEF AuditKeys
  <2>2. <<"matrix", r, 0>> = <<"matrix", "publisher", 0>> => Root(audit, "publisher") = 0
    <3>1. <<"matrix", r, 0>> = <<"matrix", "publisher", 0>> => r = "publisher"
      OBVIOUS
    <3> HIDE DEF r
    <3> QED BY <1>6, <1>12, <3>1
  <2>3. 0 \in 0..Len(audit.executions)
    BY <1>7
  <2> DEFINE key == <<"matrix", r, 0>>
  <2>4. key \in AuditKeys /\ (key = <<"matrix", "publisher", 0>> => Root(audit, "publisher") = 0)
    BY <2>1, <2>2
  <2>5. StartExecution(c, key, r, 0, x)
    BY <1>12
  <2> HIDE DEF key, r, x
  <2> QED BY <1>2, <1>3, <1>4, <2>3, <2>4, <2>5, StartExecutionInv
<1>13. CASE /\ waiting # {} /\ IsOpen(audit, first)
            /\ audit' = WithSettlement(audit, first, "outcome_unknown")
            /\ UNCHANGED <<auditors, planLock>>
  BY <1>1, <1>2, <1>9, <1>13, CloseUnknownInv
<1>14. CASE Refused(c, r, first)
  BY <1>14, RefusedInv
<1>15. CASE /\ waiting # {} /\ AbstractsLoad(WithRow(audit, r, first))
            /\ audit' = WithRow(audit, r, first) /\ UNCHANGED <<auditors, planLock>>
  <2> HIDE DEF first, r
  <2>1. /\ AuditState(audit') /\ SummariesLoad(audit')
        /\ audit'.executions = audit.executions /\ audit'.events = audit.events
    BY <1>4, <1>9, <1>15, RowAdded DEF AInv
  <2>2. AbstractsLoad(audit')
    BY <1>15
  <2>3. SelectedBy(audit') = SelectedBy(audit)
    BY <2>1 DEF SelectedBy
  <2>4. FrameSound(audit', x)
    BY <1>2, <2>1, <2>3 DEF FrameSound
  <2>5. Puts(c, x)
    <3>1. auditors = [d \in Auditors |-> auditors[d]]
      BY DEF AInv, FramesSound
    <3>2. [auditors EXCEPT ![c] = auditors[c]] = auditors
      BY <3>1
    <3> QED BY <1>15, <3>2 DEF Puts
  <2>6. planLock' = c
    BY <1>2, <1>15
  <2> HIDE DEF x
  <2>7. FramesSound'
    BY <1>2, <2>4, <2>5, <2>6, FrameMoves DEF AInv
  <2> QED BY <2>1, <2>2, <2>7 DEF AInv
<1>16. CASE /\ chain # <<>>
            /\ StartExecution(c, <<"matrix", r, Len(chain)>>, r, Last(chain),
                              [x EXCEPT !.resumed = TRUE])
  <2> DEFINE key == <<"matrix", r, Len(chain)>>
             y == [x EXCEPT !.resumed = TRUE]
  <2>1. key \in AuditKeys /\ key # <<"matrix", "publisher", 0>>
    BY <1>4, <1>8, <1>10, <1>16 DEF AuditKeys
  <2>2. Last(chain) \in 0..Len(audit.executions)
    BY <1>7, <1>10, <1>16
  <2>3. InAMatrix(y)
    BY <1>3, ResumedFrame
  <2>4. StartExecution(c, key, r, Last(chain), y)
    BY <1>16
  <2> HIDE DEF key, y, r, x
  <2> QED BY <1>2, <1>3, <1>4, <2>1, <2>2, <2>3, <2>4, StartExecutionInv
<1>17. CASE ToRoute(c, audit, x.continuing, x.route + 1) /\ audit' = audit
  <2>1. FramesSound'
    BY <1>2, <1>17, ToRouteSound DEF AInv
  <2> QED BY <1>17, <2>1 DEF AInv
<1> HIDE DEF first, r, x
<1> QED BY <1>11, <1>12, <1>13, <1>14, <1>15, <1>16, <1>17

\* A summary is captured outside the write transaction and without the lock.
LEMMA CaptureSummaryInv ==
  ASSUME AInv, NEW c \in Auditors, CaptureSummary(c)
  PROVE  AInv'
<1> DEFINE x == [at |-> "captured", boundary |-> Boundary(audit)]
<1>1. Puts(c, x) /\ audit' = audit /\ planLock' = planLock
  BY DEF CaptureSummary
<1>2. IsBoundary(Boundary(audit))
  <2>1. audit.executions \in Seq(ExecutionRow) /\ Len(audit.rows) \in Nat
    BY LenProperties DEF AInv, AuditState
  <2> QED BY <2>1 DEF Boundary, IsBoundary
<1>3. x.at = "captured" /\ IsBoundary(x.boundary)
  BY <1>2
<1> HIDE DEF x
<1>4. FrameSound(audit', x) /\ x.at \notin AtWork
  BY <1>3 DEF FrameSound, AtWork
<1>5. FramesSound'
  BY <1>1, <1>4, FrameRests DEF AInv
<1> QED BY <1>1, <1>5 DEF AInv

\* A declaration is registered on what the summary still finds.
LEMMA RegisterDeclarationInv ==
  ASSUME AInv, NEW c \in Auditors, RegisterDeclaration(c)
  PROVE  AInv'
<1> DEFINE b == auditors[c].boundary
<1>1. auditors[c].at = "captured"
  BY DEF RegisterDeclaration
<1>2. IsBoundary(b)
  BY <1>1 DEF AInv, FramesSound, FrameSound
<1>3. CASE SummaryLoads(audit, b)
  <2>1. /\ audit' = [audit EXCEPT !.summaries = @ \cup {b}]
        /\ Puts(c, AtEase) /\ planLock' = planLock
    BY <1>3 DEF RegisterDeclaration
  <2> HIDE DEF b
  <2>2. /\ AuditState(audit') /\ AbstractsLoad(audit') /\ SummariesLoad(audit')
        /\ audit'.executions = audit.executions /\ audit'.events = audit.events
    BY <1>2, <1>3, <2>1, SummaryAdded DEF AInv
  <2>3. FrameSound(audit', AtEase) /\ AtEase.at \notin AtWork
    BY DEF FrameSound, AtEase, AtWork
  <2>4. FramesSound'
    BY <2>1, <2>2, <2>3, FrameRests DEF AInv
  <2> QED BY <2>2, <2>4 DEF AInv
<1>4. CASE ~SummaryLoads(audit, b)
  <2>1. Refused(c, "summary", 0)
    BY <1>4 DEF RegisterDeclaration
  <2> QED BY <2>1, RefusedInv
<1> QED BY <1>3, <1>4

\* A process stops, and leaves the lock if it had it.
LEMMA StopAuditorInv ==
  ASSUME AInv, NEW c \in Auditors, StopAuditor(c)
  PROVE  AInv'
<1>1. Puts(c, AtEase) /\ Leave(c) /\ audit' = audit
  BY DEF StopAuditor
<1>2. FrameSound(audit', AtEase) /\ AtEase.at \notin AtWork
  BY DEF FrameSound, AtEase, AtWork
<1>3. FramesSound'
  BY <1>1, <1>2, FrameRests DEF AInv
<1> QED BY <1>1, <1>3 DEF AInv

\* A choice that the loader refuses leaves the plan alone.
LEMMA RefuseSampleInv ==
  ASSUME AInv, NEW c \in Auditors, RefuseSample(c)
  PROVE  AInv'
<1> DEFINE r == SamplingRoute(audit)
<1>1. Refused(c, r, 0)
  BY DEF RefuseSample
<1> QED BY <1>1, RefusedInv

\* Nothing has been executed at the start.
LEMMA AuditInitInv ==
  AuditInit => AInv
<1> SUFFICES ASSUME AuditInit PROVE AInv
  OBVIOUS
<1>1. /\ audit = [executions |-> <<>>, feed |-> 0, events |-> <<>>, rows |-> <<>>, summaries |-> {}]
      /\ audit.executions = <<>> /\ audit.feed = 0 /\ audit.events = <<>> /\ audit.rows = <<>>
      /\ audit.summaries = {}
  BY DEF AuditInit
<1>2. DOMAIN <<>> = {} /\ Len(<<>>) = 0
  OBVIOUS
<1>3. /\ <<>> \in Seq(ExecutionRow) /\ <<>> \in Seq(EventRow) /\ <<>> \in Seq(MatrixRow)
  BY EmptySeq
<1>4. AuditState(audit)
  <2>1. audit.feed \in 0..Len(audit.executions)
    BY <1>1, <1>2
  <2> QED BY <1>1, <1>2, <1>3, <2>1 DEF AuditState
<1>5. AbstractsLoad(audit) /\ SummariesLoad(audit)
  BY <1>1, <1>2 DEF AbstractsLoad, SamplingLoads, AuditsLoad, Executions, SummariesLoad
<1>6. FramesSound
  <2>1. auditors = [d \in Auditors |-> AtEase] /\ AtEase.at \notin AtWork
    BY DEF AuditInit, AtEase, AtWork
  <2>2. FrameSound(audit, AtEase)
    BY DEF FrameSound, AtEase, AtWork
  <2> QED BY <2>1, <2>2 DEF FramesSound
<1> QED BY <1>4, <1>5, <1>6 DEF AInv

\* A step that changes nothing.
LEMMA AuditStutterInv ==
  AInv /\ UNCHANGED auditVars => AInv'
BY DEF AInv, FramesSound, auditVars

\* Every step keeps all of it.
LEMMA AuditStepInv ==
  AInv /\ [AuditNext]_auditVars => AInv'
<1> SUFFICES ASSUME AInv, [AuditNext]_auditVars PROVE AInv'
  OBVIOUS
<1>1. CASE UNCHANGED auditVars
  BY <1>1, AuditStutterInv
<1>2. ASSUME NEW c \in Auditors, NEW continuing \in BOOLEAN, Enter(c, continuing) PROVE AInv'
  BY <1>2, EnterInv
<1>3. ASSUME NEW c \in Auditors, NEW r \in ToSet(AuditRoutes),
             NEW previous \in 0..Len(audit.executions), AcquireSource(c, r, previous)
      PROVE  AInv'
  BY <1>3, AcquireSourceInv
<1>4. ASSUME NEW c \in Auditors, NEW reason \in Reasons, SettleExecution(c, reason) PROVE AInv'
  BY <1>4, SettleExecutionInv
<1>5. ASSUME NEW c \in Auditors,
             \/ StartSampling(c) \/ AcquireForSample(c) \/ RecordSample(c)
             \/ RefuseSample(c) \/ FillMatrix(c)
      PROVE  AInv'
  BY <1>5, StartSamplingInv, AcquireForSampleInv, RecordSampleInv, RefuseSampleInv, FillMatrixInv
<1>6. ASSUME NEW c \in Auditors,
             CaptureSummary(c) \/ RegisterDeclaration(c) \/ StopAuditor(c)
      PROVE  AInv'
  BY <1>6, CaptureSummaryInv, RegisterDeclarationInv, StopAuditorInv
<1> QED BY <1>1, <1>2, <1>3, <1>4, <1>5, <1>6 DEF AuditNext

\* The rows refer to what is there, the loaders accept them, every summary that
\* was registered is found unchanged, and what is at work holds the lock.
THEOREM AuditInvariant == AuditSpec => []AInv
BY AuditInitInv, AuditStepInv, PTL DEF AuditSpec

\* Whatever runs, resumes, direct acquisitions and kills follow on each other,
\* the loaders accept the history of the plan, and a declaration finds the
\* summary it was registered on.
THEOREM AuditsAreAccepted == AuditSpec => []AuditIsAccepted
<1>1. AInv => AuditIsAccepted
  BY DEF AInv, AuditIsAccepted, SummariesLoad
<1> QED BY <1>1, AuditInvariant, PTL

-------------------------------------------------------------------------------
(* Chains, link by link *)

\* What holds of the first position and of the next one after each, holds of all.
LEMMA AllPositions ==
  ASSUME NEW n \in Nat, NEW S, n # 0 => 1 \in S,
         \A i \in 1..n : i # n /\ i \in S => i + 1 \in S
  PROVE  1..n \subseteq S
<1> SUFFICES ASSUME (1..n) \ S # {} PROVE FALSE
  OBVIOUS
<1> DEFINE T == (1..n) \ S
<1>1. T \subseteq Nat /\ T # {}
  OBVIOUS
<1> HIDE DEF T
<1>2. Min(T) \in T /\ \A y \in T : Min(T) <= y
  BY <1>1, SmallestPosition
<1> DEFINE m == Min(T)
<1> HIDE DEF m
<1>3. m \in 1..n /\ m \notin S /\ \A y \in T : m <= y
  BY <1>2 DEF m, T
<1>4. m # 1
  BY <1>3
<1>5. m - 1 \in 1..n /\ m - 1 # n /\ (m - 1) + 1 = m
  BY <1>3, <1>4
<1>6. m - 1 \in S
  BY <1>3, <1>5 DEF T
<1> QED
  BY <1>3, <1>5, <1>6

\* A chain begins with its execution; each one is continued by the next, the last
\* by none.
IsChain(a, n, s) ==
  /\ s \in Seq(DOMAIN a.executions) /\ (n = 0 <=> s = <<>>)
  /\ n # 0 => s[1] = n
  /\ \A i \in 1..Len(s) :
       IF i = Len(s) THEN Continuations(a, s[i]) = {}
       ELSE s[i + 1] \in Continuations(a, s[i])

\* An execution in front of a chain that its one continuation begins makes a chain.
LEMMA LinkAdded ==
  ASSUME NEW a, NEW m \in DOMAIN a.executions, m # 0, NEW next, NEW s, IsChain(a, next, s),
         IF next = 0 THEN Continuations(a, m) = {} ELSE next \in Continuations(a, m)
  PROVE  IsChain(a, m, <<m>> \o s)
<1> DEFINE t == <<m>> \o s
           one == <<m>>
           S == DOMAIN a.executions
<1>0. s \in Seq(S) /\ m \in S
  BY DEF IsChain
<1> HIDE DEF S
<1>1. s \in Seq(S) /\ one \in Seq(S) /\ Len(one) = 1 /\ one[1] = m
  BY <1>0
<1>2. /\ t \in Seq(S) /\ Len(t) = 1 + Len(s) /\ Len(s) \in Nat
      /\ \A i \in 1..(1 + Len(s)) : t[i] = IF i <= 1 THEN one[i] ELSE s[i - 1]
  <2> HIDE DEF one
  <2>1. t = one \o s
    BY DEF one
  <2> HIDE DEF t
  <2>2. /\ one \o s \in Seq(S) /\ Len(one \o s) = Len(one) + Len(s)
        /\ \A i \in 1..(Len(one) + Len(s)) :
             (one \o s)[i] = IF i <= Len(one) THEN one[i] ELSE s[i - Len(one)]
    BY <1>1, ConcatProperties
  <2>3. Len(s) \in Nat
    BY <1>1, LenProperties
  <2> QED BY <1>1, <2>1, <2>2, <2>3
<1> HIDE DEF t, one
<1>3. t[1] = m /\ t # <<>>
  BY <1>1, <1>2, EmptySeq
<1>a. (next = 0 <=> s = <<>>) /\ (next # 0 => s[1] = next)
  BY DEF IsChain
<1>b. \A i \in 1..Len(s) : IF i = Len(s) THEN Continuations(a, s[i]) = {}
                           ELSE s[i + 1] \in Continuations(a, s[i])
  BY DEF IsChain
<1>4. ASSUME NEW i \in 1..Len(t)
      PROVE  IF i = Len(t) THEN Continuations(a, t[i]) = {}
             ELSE t[i + 1] \in Continuations(a, t[i])
  <2>1. CASE i = 1 /\ next = 0
    <3>1. Len(s) = 0
      BY <1>a, <2>1
    <3> QED BY <1>2, <1>3, <2>1, <3>1
  <2>2. CASE i = 1 /\ next # 0
    <3>1. s[1] = next /\ Len(s) # 0
      BY <1>a, <1>1, <2>2, EmptySeq
    <3>2. t[2] = s[1] /\ Len(t) # 1
      BY <1>2, <3>1
    <3> QED BY <1>2, <1>3, <2>2, <3>1, <3>2
  <2>3. CASE i # 1
    <3>1. i - 1 \in 1..Len(s) /\ t[i] = s[i - 1] /\ (i = Len(t) <=> i - 1 = Len(s))
      BY <1>2, <2>3
    <3>2. i # Len(t) => t[i + 1] = s[(i - 1) + 1]
      BY <1>2, <2>3
    <3>3. IF i - 1 = Len(s) THEN Continuations(a, s[i - 1]) = {}
          ELSE s[(i - 1) + 1] \in Continuations(a, s[i - 1])
      BY <1>b, <3>1
    <3> QED BY <3>1, <3>2, <3>3
  <2> QED BY <2>1, <2>2, <2>3
<1>5. t \in Seq(DOMAIN a.executions)
  BY <1>2 DEF S
<1>6. IsChain(a, m, t)
  BY <1>3, <1>4, <1>5 DEF IsChain
<1> QED BY <1>6 DEF t, one

\* The chain from an execution, by its recursion.
LEMMA ContinuedIsChain ==
  ASSUME NEW a, AuditState(a), AuditsLoad(a), NEW n \in 0..Len(a.executions)
  PROVE  IsChain(a, n, Continued(a)[n])
<1> DEFINE len == Len(a.executions)
           next(m) == Latest(Continuations(a, m))
           f == Continued(a)
           F == [m \in 0..len |-> IF m = 0 THEN <<>> ELSE <<m>> \o f[next(m)]]
<1>1. len \in Nat /\ DOMAIN a.executions = 1..len
  BY ExecutionFields
<1>2. \A m \in 1..len : next(m) \in {0} \cup (m + 1)..len
  BY <1>1, ContinuationIsLater
<1>a. f = F
  BY ContinuedSolves
<1>b. F[0] = <<>> /\ \A m \in 1..len : F[m] = <<m>> \o f[next(m)]
  BY <1>1
<1>3. f[0] = <<>> /\ \A m \in 1..len : f[m] = <<m>> \o f[next(m)]
  <2> HIDE DEF F
  <2> QED BY <1>a, <1>b
<1>4. ASSUME NEW m \in 1..len
      PROVE  IF next(m) = 0 THEN Continuations(a, m) = {} ELSE next(m) \in Continuations(a, m)
  <2> DEFINE C == Continuations(a, m)
             S == {0} \cup C
  <2>1. C \subseteq 1..len
    BY <1>1 DEF Continuations, Executions
  <2>a. next(m) = Max(S)
    BY DEF Latest
  <2> HIDE DEF C, next
  <2>2. S \subseteq 0..len /\ S # {}
    BY <1>1, <2>1
  <2> HIDE DEF S
  <2>3. Max(S) \in S /\ \A y \in S : Max(S) >= y
    BY <1>1, <2>2, LargestPosition
  <2> DEFINE k == Max(S)
  <2> HIDE DEF k
  <2>4. k \in {0} \cup C /\ \A y \in C : k >= y
    BY <2>3 DEF S, k
  <2>5. IF k = 0 THEN C = {} ELSE k \in C
    BY <1>1, <2>1, <2>4
  <2> QED BY <2>5, <2>a DEF k, C
<1>5. IsChain(a, 0, f[0])
  <2>1. <<>> \in Seq(DOMAIN a.executions) /\ Len(<<>>) = 0
    BY EmptySeq
  <2> HIDE DEF f
  <2>2. IsChain(a, 0, <<>>)
    BY <2>1 DEF IsChain
  <2> QED BY <1>3, <2>2
<1> HIDE DEF f, next, len, F
<1>6. ASSUME NEW m \in 1..len, IsChain(a, next(m), f[next(m)]) PROVE IsChain(a, m, f[m])
  <2>1. m \in DOMAIN a.executions /\ m # 0 /\ f[m] = <<m>> \o f[next(m)]
    BY <1>1, <1>3
  <2>2. IF next(m) = 0 THEN Continuations(a, m) = {} ELSE next(m) \in Continuations(a, m)
    BY <1>4
  <2> QED BY <1>6, <2>1, <2>2, LinkAdded
<1> DEFINE Bad == {m \in 0..len : ~IsChain(a, m, f[m])}
<1>7. ASSUME Bad # {} PROVE FALSE
  <2>1. Bad \subseteq 0..len
    OBVIOUS
  <2> HIDE DEF Bad
  <2>2. Max(Bad) \in Bad /\ \A y \in Bad : Max(Bad) >= y
    BY <1>1, <1>7, <2>1, LargestPosition
  <2> DEFINE m == Max(Bad)
  <2> HIDE DEF m
  <2>a. m \in Bad /\ \A y \in Bad : m >= y
    BY <2>2 DEF m
  <2>b. m \in 0..len /\ ~IsChain(a, m, f[m])
    BY <2>a DEF Bad
  <2>c. ASSUME NEW y \in 0..len, y > m PROVE IsChain(a, y, f[y])
    <3>1. y \notin Bad
      BY <1>1, <2>a, <2>b, <2>c
    <3> QED BY <3>1 DEF Bad
  <2>3. m \in 0..len /\ ~IsChain(a, m, f[m]) /\ \A y \in 0..len : y > m => IsChain(a, y, f[y])
    BY <2>b, <2>c
  <2>4. m # 0
    BY <1>5, <2>3
  <2>5. next(m) \in {0} \cup (m + 1)..len /\ m \in 1..len
    BY <1>1, <1>2, <2>3, <2>4
  <2>6. IsChain(a, next(m), f[next(m)])
    BY <1>1, <1>5, <2>3, <2>5
  <2> QED BY <1>6, <2>3, <2>5, <2>6
<1>8. n \in 0..len
  BY DEF len
<1> QED BY <1>7, <1>8 DEF f

\* What continues an execution is its one continuation, of the same request and
\* later; what it continues is settled.
LEMMA ContinuationOf ==
  ASSUME NEW a, AuditState(a), AuditsLoad(a), NEW p \in DOMAIN a.executions,
         NEW k \in Continuations(a, p)
  PROVE  /\ k \in DOMAIN a.executions /\ a.executions[k].previous = p /\ p # 0 /\ p < k
         /\ RequestOf(a, k) = RequestOf(a, p) /\ ~IsOpen(a, p)
         /\ Continuations(a, p) = {k}
<1>1. k \in DOMAIN a.executions /\ a.executions[k].previous = p
  BY DEF Continuations, Executions
<1>2. p # 0
  BY ExecutionFields
<1>3. ExecutionAccepted(a, k)
  BY <1>1 DEF AuditsLoad, Executions
<1> QED BY <1>1, <1>2, <1>3 DEF ExecutionAccepted, RequestOf

\* The chains of a grown plan begin like the ones before.
LEMMA ChainsAgree ==
  ASSUME NEW a, NEW a2, AuditState(a), AuditsLoad(a), AuditState(a2), AuditsLoad(a2),
         NEW n, NEW s, NEW t, IsChain(a, n, s), IsChain(a2, n, t),
         DOMAIN a.executions \subseteq DOMAIN a2.executions,
         \A p \in DOMAIN a.executions : Continuations(a, p) \subseteq Continuations(a2, p)
  PROVE  Len(s) <= Len(t) /\ \A i \in 1..Len(s) : t[i] = s[i]
<1> DEFINE S == {i \in 1..Len(s) : i <= Len(t) /\ t[i] = s[i]}
<1>1. /\ s \in Seq(DOMAIN a.executions) /\ t \in Seq(DOMAIN a2.executions)
      /\ (n = 0 <=> s = <<>>) /\ (n = 0 <=> t = <<>>) /\ (n # 0 => s[1] = n /\ t[1] = n)
      /\ \A i \in 1..Len(s) : IF i = Len(s) THEN Continuations(a, s[i]) = {}
                              ELSE s[i + 1] \in Continuations(a, s[i])
      /\ \A i \in 1..Len(t) : IF i = Len(t) THEN Continuations(a2, t[i]) = {}
                              ELSE t[i + 1] \in Continuations(a2, t[i])
  BY DEF IsChain
<1>2. Len(s) \in Nat /\ Len(t) \in Nat /\ \A i \in 1..Len(s) : s[i] \in DOMAIN a.executions
  BY <1>1, LenProperties, ElementOfSeq
<1>3. Len(s) # 0 => Len(t) # 0 /\ n # 0
  BY <1>1, EmptySeq
<1>4. Len(s) # 0 => 1 \in S
  BY <1>1, <1>2, <1>3
<1>5. ASSUME NEW i \in 1..Len(s), i # Len(s), i \in S PROVE i + 1 \in S
  <2>1. s[i + 1] \in Continuations(a, s[i]) /\ s[i] \in DOMAIN a.executions
    BY <1>1, <1>2, <1>5
  <2>2. s[i + 1] \in Continuations(a2, t[i]) /\ t[i] \in DOMAIN a2.executions
    BY <1>5, <2>1
  <2>3. Continuations(a2, t[i]) = {s[i + 1]}
    BY <2>2, ContinuationOf
  <2>a. i \in 1..Len(t) /\ t[i] = s[i]
    BY <1>2, <1>5
  <2>b. IF i = Len(t) THEN Continuations(a2, t[i]) = {}
        ELSE t[i + 1] \in Continuations(a2, t[i])
    BY <1>1, <2>a
  <2>4. i \in 1..Len(t) /\ i # Len(t) /\ t[i + 1] \in Continuations(a2, t[i])
    BY <2>3, <2>a, <2>b
  <2> QED BY <1>2, <1>5, <2>3, <2>4
<1> HIDE DEF S
<1>6. 1..Len(s) \subseteq S
  BY <1>2, <1>4, <1>5, AllPositions
<1>7. \A i \in 1..Len(s) : i <= Len(t) /\ t[i] = s[i]
  BY <1>6 DEF S
<1>8. Len(s) <= Len(t)
  <2>1. CASE Len(s) = 0
    BY <1>2, <2>1
  <2>2. CASE Len(s) # 0
    <3>1. Len(s) \in 1..Len(s)
      BY <1>2, <2>2
    <3> QED BY <1>7, <3>1
  <2> QED BY <2>1, <2>2
<1> QED BY <1>7, <1>8

\* A chain goes on in time, for one request.
LEMMA ChainRises ==
  ASSUME NEW a, AuditState(a), AuditsLoad(a), NEW n, NEW s, IsChain(a, n, s)
  PROVE  \A i \in 1..Len(s) : /\ s[i] \in DOMAIN a.executions /\ RequestOf(a, s[i]) = RequestOf(a, n)
                              /\ \A j \in 1..(i - 1) : s[j] < s[i]
                              /\ i # 1 => a.executions[s[i]].previous = s[i - 1]
<1> DEFINE S == {i \in 1..Len(s) : /\ s[i] \in DOMAIN a.executions
                                   /\ RequestOf(a, s[i]) = RequestOf(a, n)
                                   /\ \A j \in 1..(i - 1) : s[j] < s[i]
                                   /\ i # 1 => a.executions[s[i]].previous = s[i - 1]}
<1>1. /\ s \in Seq(DOMAIN a.executions) /\ (n = 0 <=> s = <<>>) /\ (n # 0 => s[1] = n)
      /\ \A i \in 1..Len(s) : IF i = Len(s) THEN Continuations(a, s[i]) = {}
                              ELSE s[i + 1] \in Continuations(a, s[i])
  BY DEF IsChain
<1>2. Len(s) \in Nat /\ \A i \in 1..Len(s) : s[i] \in DOMAIN a.executions
  BY <1>1, LenProperties, ElementOfSeq
<1>a. DOMAIN a.executions \subseteq Nat
  BY ExecutionFields
<1>3. Len(s) # 0 => 1 \in S
  <2>1. Len(s) # 0 => n # 0
    BY <1>1, EmptySeq
  <2> QED BY <1>1, <1>2, <2>1
<1>4. ASSUME NEW i \in 1..Len(s), i # Len(s), i \in S PROVE i + 1 \in S
  <2>1. s[i] \in DOMAIN a.executions /\ s[i + 1] \in Continuations(a, s[i])
    BY <1>1, <1>2, <1>4
  <2>2. /\ s[i + 1] \in DOMAIN a.executions /\ s[i] < s[i + 1]
        /\ RequestOf(a, s[i + 1]) = RequestOf(a, s[i])
        /\ a.executions[s[i + 1]].previous = s[i]
    BY <2>1, ContinuationOf
  <2>3. RequestOf(a, s[i]) = RequestOf(a, n) /\ \A j \in 1..(i - 1) : s[j] < s[i]
    BY <1>4
  <2>4. ASSUME NEW j \in 1..((i + 1) - 1) PROVE s[j] < s[i + 1]
    <3>1. j \in 1..Len(s) /\ (j = i \/ j \in 1..(i - 1))
      BY <1>2
    <3>2. s[j] \in Nat /\ s[i] \in Nat /\ s[i + 1] \in Nat
      BY <1>a, <1>2, <2>1, <2>2, <3>1
    <3> QED BY <2>2, <2>3, <3>1, <3>2
  <2>5. i + 1 \in 1..Len(s) /\ (i + 1) - 1 = i
    BY <1>2, <1>4
  <2> QED BY <2>2, <2>3, <2>4, <2>5
<1> HIDE DEF S
<1>5. 1..Len(s) \subseteq S
  BY <1>2, <1>3, <1>4, AllPositions
<1> QED BY <1>5 DEF S

-------------------------------------------------------------------------------
(* A plan in order *)

\* Somebody continued an execution of the sampling under a key of his own.
OfAnother(a) ==
  \E n \in Executions(a) :
    /\ a.executions[n].key[1] = "own" /\ a.executions[n].previous # 0
    /\ a.executions[a.executions[n].previous].key[1] = "sample"

\* Nobody else did: a key tells what was continued.
KeyFits(a, n) ==
  LET x == a.executions[n]
  IN /\ x.key[1] = "own" => x.key = <<"own", x.request, 1>> /\ x.previous = 0
     /\ x.key[1] = "sample" => x.key = <<"sample", x.request, x.key[3]>> /\ x.request # "publisher"
     /\ x.key[1] = "matrix" =>
          /\ x.key = <<"matrix", "publisher", x.key[3]>> /\ x.request = "publisher"
          /\ SelectedBy(a) # {} /\ Root(a, "publisher") # 0
          /\ IF x.key[3] = 0 THEN x.previous = 0
             ELSE /\ x.previous # 0
                  /\ a.executions[x.previous].key = <<"matrix", "publisher", x.key[3] - 1>>
Sampled == {"feed", "doi_ra"}
\* The executions of the sampling are numbered without a gap.
SamplesCounted(a) ==
  \A r \in Sampled :
    LET S == SampleMatches(a, r)
    IN S # {} => a.executions[Latest(S)].key[3] = Cardinality(S)
\* Nothing continues the frozen feed.
FeedStands(a) == a.feed # 0 => Continuations(a, a.feed) = {}
\* The rows of a route interpret its chain from the first on, one by one.
RowsRead(a, r) ==
  LET chain == Chain(a, r)  m == Cardinality(RowsOf(a, r))  k == Latest(RowsOf(a, r))
  IN /\ m <= Len(chain) /\ Interpreted(a, r) = {chain[i] : i \in 1..m}
     /\ m # 0 => a.rows[k].generation = m /\ a.rows[k].acquisition = chain[m]
InOrder(a) ==
  /\ \A n \in Executions(a) : KeyFits(a, n)
  /\ SamplesCounted(a) /\ FeedStands(a)
  /\ SelectedBy(a) # {} => \A r \in AuditRequests : RowsRead(a, r)

\* The latest of some executions is their largest.
LEMMA LatestOf ==
  ASSUME NEW n \in Nat, NEW S, S \subseteq 1..n, S # {}
  PROVE  /\ Latest(S) \in S /\ \A y \in S : Latest(S) >= y
         /\ Latest(S) = Max(S)
         /\ \A x \in S : (\A y \in S : y <= x) => Latest(S) = x
<1> DEFINE T == {0} \cup S
<1>1. T \subseteq 0..n /\ T # {} /\ S \subseteq 0..n
  OBVIOUS
<1>2. Latest(S) = Max(T)
  BY DEF Latest
<1>3. Max(S) \in S /\ \A y \in S : Max(S) >= y
  BY <1>1, LargestPosition
<1>a. T \subseteq 0..n /\ T = {0} \cup S
  BY <1>1
<1> HIDE DEF T
<1>4. Max(T) \in T /\ \A y \in T : Max(T) >= y
  BY <1>1, LargestPosition
<1> DEFINE l == Max(T)  m == Max(S)
<1> HIDE DEF l, m
<1>5. /\ l \in {0} \cup S /\ \A y \in S : l >= y
      /\ m \in S /\ \A y \in S : m >= y
  BY <1>3, <1>4, <1>a DEF l, m
<1>6. l \in S
  BY <1>5
<1>7. l = m /\ \A x \in S : (\A y \in S : y <= x) => l = x
  BY <1>5, <1>6
<1> QED BY <1>2, <1>5, <1>6, <1>7 DEF l, m

\* Positions of a plan are numbers of executions.
LEMMA MatchesArePositions ==
  ASSUME NEW a, AuditState(a), NEW r
  PROVE  /\ SampleMatches(a, r) \subseteq 1..Len(a.executions)
         /\ Cardinality(SampleMatches(a, r)) \in Nat
         /\ Cardinality(SampleMatches(a, r)) = 0 <=> SampleMatches(a, r) = {}
<1>1. Len(a.executions) \in Nat /\ DOMAIN a.executions = 1..Len(a.executions)
  BY ExecutionFields
<1>2. SampleMatches(a, r) \subseteq 1..Len(a.executions)
  BY <1>1 DEF SampleMatches, Executions
<1>3. IsFiniteSet(SampleMatches(a, r))
  <2> DEFINE len == Len(a.executions)
  <2>a. len \in Int /\ 1 \in Int
    BY <1>1
  <2> HIDE DEF len
  <2>b. IsFiniteSet(1..len)
    BY <2>a, FS_Interval
  <2>1. IsFiniteSet(1..Len(a.executions))
    BY <2>b DEF len
  <2> QED BY <1>2, <2>1, FS_Subset
<1> QED BY <1>2, <1>3, FS_CardinalityType, FS_EmptySet

\* Until the sampling is complete, nothing is selected or excluded.
LEMMA NothingSelected ==
  ASSUME NEW a, AuditState(a), SamplingLoads(a), ~SamplingComplete(a)
  PROVE  Finals(a) = {} /\ SelectedBy(a) = {}
<1>1. ASSUME NEW e \in Finals(a) PROVE FALSE
  <2>1. e \in DOMAIN a.events /\ a.events[e].result \in {"selected", "excluded"}
    BY DEF Finals
  <2>2. a.events[e] \in EventRow
    BY <2>1, ElementOfSeq, LenProperties DEF AuditState
  <2>3. ChoiceAccepted(a, e)
    BY <2>1 DEF SamplingLoads
  <2>4. a.feed # 0
    BY <2>1, <2>2, <2>3 DEF ChoiceAccepted, EventRow
  <2> QED BY <1>1, <2>4 DEF SamplingComplete
<1>2. SelectedBy(a) \subseteq Finals(a)
  BY DEF SelectedBy, Finals
<1> QED BY <1>1, <1>2

\* What was selected is an acquired answer of the agency, after a frozen feed.
LEMMA SelectedIsAcquired ==
  ASSUME NEW a, AuditState(a), SamplingLoads(a), NEW e \in SelectedBy(a)
  PROVE  /\ a.feed # 0 /\ SamplingComplete(a)
         /\ a.events[e].execution \in DOMAIN a.executions
         /\ RequestOf(a, a.events[e].execution) = "doi_ra"
         /\ ReasonOf(a, a.events[e].execution) = "acquired"
<1>1. e \in DOMAIN a.events /\ a.events[e].result = "selected"
  BY DEF SelectedBy
<1>2. a.events[e] \in EventRow
  BY <1>1, ElementOfSeq, LenProperties DEF AuditState
<1>3. ChoiceAccepted(a, e)
  BY <1>1 DEF SamplingLoads
<1>4. a.events[e].of = "doi_ra"
  BY <1>1, <1>2, <1>3 DEF ChoiceAccepted, EventRow
<1>5. /\ a.feed # 0 /\ RequestOf(a, a.events[e].execution) = "doi_ra"
      /\ Verdict(ReasonOf(a, a.events[e].execution)) = "selected"
  BY <1>1, <1>3, <1>4 DEF ChoiceAccepted
<1>6. ReasonOf(a, a.events[e].execution) = "acquired"
  BY <1>5 DEF Verdict
<1>7. e \in Finals(a)
  BY <1>1 DEF Finals
<1> QED BY <1>1, <1>5, <1>6, <1>7 DEF SamplingComplete, AuditState

\* The last execution of the sampling of a route has the last number, and
\* nothing continues it.
LEMMA LastSample ==
  ASSUME NEW a, AuditState(a), AuditsLoad(a), InOrder(a), NEW r \in Sampled,
         SampleMatches(a, r) # {}
  PROVE  LET n == Latest(SampleMatches(a, r)) IN
         /\ n \in DOMAIN a.executions /\ n # 0 /\ RequestOf(a, n) = r
         /\ a.executions[n].key = <<"sample", r, Cardinality(SampleMatches(a, r))>>
         /\ Continuations(a, n) = {}
<1> DEFINE S == SampleMatches(a, r)  n == Latest(S)
<1>1. Len(a.executions) \in Nat /\ DOMAIN a.executions = 1..Len(a.executions)
  BY ExecutionFields
<1>2. S \subseteq 1..Len(a.executions) /\ S # {}
  BY MatchesArePositions
<1>3. n \in S /\ \A y \in S : n >= y
  <2> HIDE DEF S
  <2> QED BY <1>1, <1>2, LatestOf
<1>4. a.executions[n].key[3] = Cardinality(S)
  BY <1>2 DEF InOrder, SamplesCounted
<1> HIDE DEF n
<1>5. /\ n \in DOMAIN a.executions /\ n # 0
      /\ RequestOf(a, n) = r /\ a.executions[n].key[1] = "sample"
  BY <1>1, <1>3 DEF SampleMatches, Executions
<1>6. a.executions[n].key = <<"sample", r, a.executions[n].key[3]>>
  BY <1>5 DEF InOrder, KeyFits, Executions, RequestOf
<1>7. ASSUME NEW k \in Continuations(a, n) PROVE FALSE
  <2>1. /\ k \in DOMAIN a.executions /\ a.executions[k].previous = n /\ n < k
        /\ a.executions[k].request = r
    BY <1>5, ContinuationOf DEF RequestOf
  <2>2. KeyFits(a, k) /\ a.executions[k].key[1] \in {"own", "sample", "matrix"}
    BY <2>1, ExecutionFields DEF InOrder, Executions, ExecutionRow, AuditKeys
  <2>3. a.executions[k].key[1] = "sample"
    BY <1>5, <2>1, <2>2 DEF KeyFits, Sampled
  <2>4. k \in S
    BY <2>1, <2>3 DEF SampleMatches, Executions, RequestOf
  <2> QED BY <1>1, <1>3, <1>5, <2>1, <2>4
<1> QED BY <1>4, <1>5, <1>6, <1>7 DEF n, S

\* The first execution of a route of the matrix is an execution of this route;
\* the ones of the sampling are acquired and not continued.
LEMMA RootOfRoute ==
  ASSUME NEW a, AuditState(a), SamplingLoads(a), InOrder(a), SelectedBy(a) # {},
         NEW r \in AuditRequests
  PROVE  /\ Root(a, r) \in 0..Len(a.executions)
         /\ Root(a, r) # 0 => Root(a, r) \in DOMAIN a.executions /\ RequestOf(a, Root(a, r)) = r
         /\ r = "publisher" /\ Root(a, r) # 0 =>
              a.executions[Root(a, r)].key = <<"matrix", "publisher", 0>>
         /\ r # "publisher" => /\ Root(a, r) # 0 /\ ReasonOf(a, Root(a, r)) = "acquired"
                               /\ Continuations(a, Root(a, r)) = {}
<1>1. Len(a.executions) \in Nat /\ DOMAIN a.executions = 1..Len(a.executions)
  BY ExecutionFields
<1>2. Root(a, r) \in 0..Len(a.executions)
  BY RootIsExecution
<1>a. AuditsLoad(a)
  BY DEF SamplingLoads
<1>3. CASE r = "feed"
  <2>1. Root(a, r) = a.feed
    BY <1>3 DEF Root
  <2>2. a.feed # 0
    BY SelectedIsAcquired
  <2>3. RequestOf(a, a.feed) = "feed" /\ ReasonOf(a, a.feed) = "acquired"
    BY <2>2 DEF SamplingLoads
  <2>4. Continuations(a, a.feed) = {}
    BY <2>2 DEF InOrder, FeedStands
  <2> QED BY <1>1, <1>2, <1>3, <2>1, <2>2, <2>3, <2>4
<1>4. CASE r = "doi_ra"
  <2> DEFINE S == {a.events[e].execution : e \in SelectedBy(a)}
             n == Root(a, r)
  <2>1. Root(a, r) = Max(S)
    BY <1>4 DEF Root
  <2>2. \A y \in S : /\ y \in DOMAIN a.executions
                     /\ RequestOf(a, y) = "doi_ra" /\ ReasonOf(a, y) = "acquired"
    BY SelectedIsAcquired
  <2>3. S # {}
    OBVIOUS
  <2> HIDE DEF S
  <2>4. S \subseteq 0..Len(a.executions)
    BY <1>1, <2>2
  <2>5. Max(S) \in S
    BY <1>1, <2>3, <2>4, LargestPosition
  <2>6. n \in DOMAIN a.executions /\ RequestOf(a, n) = "doi_ra" /\ ReasonOf(a, n) = "acquired"
    BY <2>1, <2>2, <2>5
  <2> HIDE DEF n
  <2>7. ASSUME NEW k \in Continuations(a, n) PROVE FALSE
    <3>1. /\ k \in DOMAIN a.executions /\ a.executions[k].previous = n /\ n # 0
          /\ a.executions[k].request = "doi_ra"
      BY <1>a, <2>6, ContinuationOf DEF RequestOf
    <3>2. KeyFits(a, k) /\ a.executions[k].key[1] \in {"own", "sample", "matrix"}
      BY <3>1, ExecutionFields DEF InOrder, Executions, ExecutionRow, AuditKeys
    <3>3. a.executions[k].key[1] = "sample"
      BY <3>1, <3>2 DEF KeyFits
    <3>4. ExecutionAccepted(a, k)
      BY <1>a, <3>1 DEF AuditsLoad, Executions
    <3>5. CanContinue(a, n)
      BY <3>1, <3>3, <3>4 DEF ExecutionAccepted
    <3> QED BY <2>6, <3>5 DEF CanContinue
  <2>8. n # 0
    BY <1>1, <2>6
  <2> QED BY <1>2, <1>4, <2>6, <2>7, <2>8 DEF n
<1>5. CASE r = "publisher"
  <2> DEFINE S == WithKey(a, <<"matrix", r, 0>>)
  <2>1. S \subseteq 1..Len(a.executions) /\ \A y \in S : a.executions[y].key = <<"matrix", r, 0>>
    BY <1>1 DEF WithKey, Executions
  <2>2. Root(a, r) = Latest(S)
    BY <1>5 DEF Root
  <2> HIDE DEF S
  <2> DEFINE n == Latest(S)
  <2>3. n \in {0} \cup S
    BY <1>1, <2>1, LatestIsOne
  <2> HIDE DEF n
  <2>4. ASSUME n # 0 PROVE n \in DOMAIN a.executions /\ RequestOf(a, n) = r
                           /\ a.executions[n].key = <<"matrix", "publisher", 0>>
    <3>1. n \in DOMAIN a.executions /\ a.executions[n].key = <<"matrix", "publisher", 0>>
      BY <1>1, <1>5, <2>1, <2>3, <2>4
    <3>2. KeyFits(a, n) /\ a.executions[n].key[1] = "matrix"
      BY <3>1 DEF InOrder, Executions
    <3> QED BY <1>5, <3>1, <3>2 DEF KeyFits, RequestOf
  <2> QED BY <1>2, <1>5, <2>2, <2>4 DEF n
<1> QED BY <1>3, <1>4, <1>5 DEF AuditRequests

\* The chain of a route: the root, and what continued it with the matrix keys.
LEMMA ChainInOrder ==
  ASSUME NEW a, AuditState(a), SamplingLoads(a), InOrder(a), SelectedBy(a) # {},
         NEW r \in AuditRequests
  PROVE  LET chain == Chain(a, r) IN
         /\ chain \in Seq(DOMAIN a.executions) /\ IsChain(a, Root(a, r), chain)
         /\ Len(chain) \in Nat /\ DOMAIN chain = 1..Len(chain)
         /\ \A i \in 1..Len(chain) :
              /\ chain[i] \in DOMAIN a.executions /\ RequestOf(a, chain[i]) = r
              /\ \A j \in 1..(i - 1) : chain[j] < chain[i]
              /\ i # 1 => a.executions[chain[i]].previous = chain[i - 1]
              /\ r = "publisher" => a.executions[chain[i]].key = <<"matrix", "publisher", i - 1>>
         /\ r # "publisher" => Len(chain) = 1 /\ chain[1] = Root(a, r)
<1> DEFINE chain == Chain(a, r)  n == Root(a, r)
<1>1. n \in 0..Len(a.executions) /\ (n # 0 => RequestOf(a, n) = r)
      /\ (r = "publisher" /\ n # 0 => a.executions[n].key = <<"matrix", "publisher", 0>>)
      /\ (r # "publisher" => n # 0 /\ Continuations(a, n) = {})
  BY RootOfRoute
<1>a. AuditsLoad(a)
  BY DEF SamplingLoads
<1>2. IsChain(a, n, chain)
  <2> HIDE DEF n
  <2>1. IsChain(a, n, Continued(a)[n])
    BY <1>1, <1>a, ContinuedIsChain
  <2> QED BY <2>1 DEF Chain, n
<1> HIDE DEF chain, n
<1>3. /\ chain \in Seq(DOMAIN a.executions) /\ (n = 0 <=> chain = <<>>) /\ (n # 0 => chain[1] = n)
      /\ \A i \in 1..Len(chain) : IF i = Len(chain) THEN Continuations(a, chain[i]) = {}
                                  ELSE chain[i + 1] \in Continuations(a, chain[i])
  BY <1>2 DEF IsChain
<1>4. Len(chain) \in Nat /\ DOMAIN chain = 1..Len(chain)
  BY <1>3, LenProperties
<1>5. \A i \in 1..Len(chain) : /\ chain[i] \in DOMAIN a.executions
                               /\ RequestOf(a, chain[i]) = RequestOf(a, n)
                               /\ \A j \in 1..(i - 1) : chain[j] < chain[i]
                               /\ i # 1 => a.executions[chain[i]].previous = chain[i - 1]
  BY <1>2, <1>a, ChainRises
<1>6. Len(chain) # 0 => n # 0
  BY <1>3, EmptySeq
<1>7. r # "publisher" => Len(chain) = 1 /\ chain[1] = n
  <2> SUFFICES ASSUME r # "publisher" PROVE Len(chain) = 1 /\ chain[1] = n
    OBVIOUS
  <2>1. n # 0 /\ chain[1] = n /\ Continuations(a, n) = {}
    BY <1>1, <1>3
  <2>2. Len(chain) # 0
    BY <1>3, <2>1, EmptySeq
  <2>3. 1 \in 1..Len(chain)
    BY <1>4, <2>2
  <2>4. 1 = Len(chain)
    BY <1>3, <2>1, <2>3
  <2> QED BY <2>1, <2>4
<1>8. ASSUME r = "publisher"
      PROVE  \A i \in 1..Len(chain) : a.executions[chain[i]].key = <<"matrix", "publisher", i - 1>>
  <2> DEFINE S == {i \in 1..Len(chain) : a.executions[chain[i]].key = <<"matrix", "publisher", i - 1>>}
  <2>1. Len(chain) # 0 => 1 \in S
    BY <1>1, <1>3, <1>4, <1>6, <1>8
  <2> HIDE DEF S
  <2>2. ASSUME NEW i \in 1..Len(chain), i # Len(chain), i \in S PROVE i + 1 \in S
    <3> DEFINE k == chain[i + 1]
    <3>0. Len(chain) \in Nat /\ i \in 1..Len(chain) /\ i # Len(chain)
      BY <1>4, <2>2
    <3>1. i + 1 \in 1..Len(chain) /\ i + 1 # 1 /\ (i + 1) - 1 = i
      BY <3>0
    <3>2. /\ k \in DOMAIN a.executions /\ RequestOf(a, k) = r
          /\ a.executions[k].previous = chain[i] /\ chain[i] \in DOMAIN a.executions
      BY <1>1, <1>5, <1>6, <3>1
    <3> HIDE DEF k
    <3>3. /\ KeyFits(a, k) /\ a.executions[k].key[1] \in {"own", "sample", "matrix"}
          /\ a.executions[k].key[3] \in Nat
      BY <3>2, ExecutionFields DEF InOrder, Executions, ExecutionRow, AuditKeys
    <3>4. a.executions[k].previous # 0
      BY <3>2, ExecutionFields
    <3>5. a.executions[k].request = "publisher"
      BY <1>8, <3>2 DEF RequestOf
    <3>6. a.executions[k].key[1] = "matrix"
      BY <3>3, <3>4, <3>5 DEF KeyFits
    <3>7. /\ a.executions[k].key = <<"matrix", "publisher", a.executions[k].key[3]>>
          /\ a.executions[chain[i]].key = <<"matrix", "publisher", a.executions[k].key[3] - 1>>
      BY <3>2, <3>3, <3>4, <3>6 DEF KeyFits
    <3>8. a.executions[chain[i]].key = <<"matrix", "publisher", i - 1>>
      BY <2>2 DEF S
    <3> DEFINE g == a.executions[k].key[3]
               y == a.executions[chain[i]].key
    <3>a. y = <<"matrix", "publisher", g - 1>> /\ y = <<"matrix", "publisher", i - 1>>
      BY <3>7, <3>8
    <3> HIDE DEF y
    <3>b. y[3] = g - 1 /\ y[3] = i - 1
      BY <3>a
    <3>9. g = i
      BY <3>3, <3>b
    <3> QED BY <3>1, <3>7, <3>9 DEF k, S
  <2>3. 1..Len(chain) \subseteq S
    BY <1>4, <2>1, <2>2, AllPositions
  <2> QED BY <2>3 DEF S
<1>9. ASSUME NEW i \in 1..Len(chain)
      PROVE  /\ chain[i] \in DOMAIN a.executions /\ RequestOf(a, chain[i]) = r
             /\ \A j \in 1..(i - 1) : chain[j] < chain[i]
             /\ i # 1 => a.executions[chain[i]].previous = chain[i - 1]
             /\ r = "publisher" => a.executions[chain[i]].key = <<"matrix", "publisher", i - 1>>
  <2>1. n # 0
    BY <1>4, <1>6
  <2> QED BY <1>1, <1>5, <1>8, <2>1
<1>10. chain \in Seq(DOMAIN a.executions)
  BY <1>3
<1> QED BY <1>2, <1>4, <1>7, <1>9, <1>10 DEF chain, n

\* The rows of a route are positions, and the latest is the largest.
LEMMA RowsArePositions ==
  ASSUME NEW a, AuditState(a), NEW r
  PROVE  /\ Len(a.rows) \in Nat /\ DOMAIN a.rows = 1..Len(a.rows)
         /\ RowsOf(a, r) \subseteq 1..Len(a.rows) /\ IsFiniteSet(RowsOf(a, r))
         /\ Cardinality(RowsOf(a, r)) \in Nat
         /\ Cardinality(RowsOf(a, r)) = 0 <=> RowsOf(a, r) = {}
         /\ RowsOf(a, r) # {} => /\ Latest(RowsOf(a, r)) = Max(RowsOf(a, r))
                                 /\ Latest(RowsOf(a, r)) \in RowsOf(a, r)
         /\ RowsOf(a, r) = {} => Latest(RowsOf(a, r)) = 0
<1> DEFINE len == Len(a.rows)  S == RowsOf(a, r)
<1>1. len \in Nat /\ DOMAIN a.rows = 1..len
  BY LenProperties DEF AuditState
<1>2. S \subseteq 1..len
  BY <1>1 DEF RowsOf
<1> HIDE DEF len, S
<1>a. len \in Int /\ 1 \in Int
  BY <1>1
<1>b. IsFiniteSet(1..len)
  BY <1>a, FS_Interval
<1>3. IsFiniteSet(S)
  BY <1>2, <1>b, FS_Subset
<1>4. Cardinality(S) \in Nat /\ (Cardinality(S) = 0 <=> S = {})
  BY <1>3, FS_CardinalityType, FS_EmptySet
<1>5. S # {} => Latest(S) = Max(S) /\ Latest(S) \in S
  BY <1>1, <1>2, LatestOf
<1>6. S = {} => Latest(S) = 0
  BY <1>1, <1>2, LatestIsOne
<1> QED BY <1>1, <1>2, <1>3, <1>4, <1>5, <1>6 DEF len, S

\* What waits are the places after the interpreted ones.
LEMMA WaitingAfterRows ==
  ASSUME NEW a, AuditState(a), SamplingLoads(a), InOrder(a), SelectedBy(a) # {},
         NEW r \in AuditRequests
  PROVE  /\ ToInterpret(a, r) = (Cardinality(RowsOf(a, r)) + 1)..Len(Chain(a, r))
         /\ ToInterpret(a, r) # {} => Min(ToInterpret(a, r)) = Cardinality(RowsOf(a, r)) + 1
<1> DEFINE chain == Chain(a, r)  m == Cardinality(RowsOf(a, r))  w == ToInterpret(a, r)
<1>1. /\ Len(chain) \in Nat /\ DOMAIN chain = 1..Len(chain)
      /\ \A i \in 1..Len(chain) : /\ chain[i] \in DOMAIN a.executions
                                  /\ \A j \in 1..(i - 1) : chain[j] < chain[i]
  BY ChainInOrder
<1>2. m \in Nat
  BY RowsArePositions
<1>3. m <= Len(chain) /\ Interpreted(a, r) = {chain[i] : i \in 1..m}
  BY DEF InOrder, RowsRead
<1>4. w = {i \in DOMAIN chain : chain[i] \notin Interpreted(a, r)}
  BY DEF ToInterpret
<1> HIDE DEF chain, m, w
<1>a. \A i \in 1..Len(chain) : chain[i] \in Nat
  BY <1>1, ExecutionFields
<1>5. ASSUME NEW i \in 1..Len(chain) PROVE i \in w <=> i > m
  <2>1. CASE i <= m
    <3>1. chain[i] \in Interpreted(a, r)
      BY <1>2, <1>3, <2>1
    <3> QED BY <1>2, <1>4, <2>1, <3>1
  <2>2. CASE i > m
    <3>1. ASSUME NEW j \in 1..m PROVE chain[j] # chain[i]
      <4>1. j \in 1..(i - 1) /\ j \in 1..Len(chain)
        BY <1>1, <1>2, <1>3, <2>2
      <4>2. chain[j] < chain[i] /\ chain[j] \in Nat /\ chain[i] \in Nat
        BY <1>1, <1>a, <4>1
      <4> QED BY <4>2
    <3> QED BY <1>1, <1>3, <1>4, <2>2, <3>1
  <2> QED BY <1>2, <2>1, <2>2
<1>6. w \subseteq 1..Len(chain)
  BY <1>1, <1>4
<1>7. w = (m + 1)..Len(chain)
  <2> DEFINE len == Len(chain)
  <2>1. len \in Nat /\ w \subseteq 1..len /\ \A i \in 1..len : i \in w <=> i > m
    BY <1>1, <1>5, <1>6
  <2> HIDE DEF len
  <2>2. w \subseteq (m + 1)..len
    <3> SUFFICES ASSUME NEW i \in w PROVE i \in (m + 1)..len
      OBVIOUS
    <3>1. i \in 1..len /\ i > m
      BY <2>1
    <3> QED BY <1>2, <2>1, <3>1
  <2>3. (m + 1)..len \subseteq w
    <3> SUFFICES ASSUME NEW i \in (m + 1)..len PROVE i \in w
      OBVIOUS
    <3>1. i \in 1..len /\ i > m
      BY <1>2, <2>1
    <3> QED BY <2>1, <3>1
  <2> QED BY <2>2, <2>3 DEF len
<1>8. ASSUME w # {} PROVE Min(w) = m + 1
  <2>1. w \subseteq Nat
    BY <1>1, <1>6
  <2>2. Min(w) \in w /\ \A y \in w : Min(w) <= y
    BY <1>8, <2>1, SmallestPosition
  <2> DEFINE k == Min(w)
  <2> HIDE DEF k
  <2>3. k \in w /\ \A y \in w : k <= y
    BY <2>2 DEF k
  <2>4. m + 1 \in w
    BY <1>1, <1>2, <1>7, <2>3
  <2>5. k = m + 1
    BY <1>1, <1>2, <1>7, <2>3, <2>4
  <2> QED BY <2>5 DEF k
<1> QED BY <1>7, <1>8 DEF chain, m, w

\* All of the chain is shown.
LEMMA ShownIsChain ==
  ASSUME NEW a, AuditState(a), SamplingLoads(a), InOrder(a), SelectedBy(a) # {},
         NEW r \in AuditRequests
  PROVE  ShownChain(a, r) = Chain(a, r)
<1> DEFINE chain == Chain(a, r)
           ofMatrix(i) == \A j \in 2..i : a.executions[chain[j]].key = <<"matrix", r, j - 1>>
           S == {i \in 0..Len(chain) : ofMatrix(i)}
<1>1. /\ chain \in Seq(DOMAIN a.executions)
      /\ Len(chain) \in Nat /\ DOMAIN chain = 1..Len(chain)
      /\ r # "publisher" => Len(chain) = 1
      /\ \A i \in 1..Len(chain) :
           r = "publisher" => a.executions[chain[i]].key = <<"matrix", "publisher", i - 1>>
  BY ChainInOrder
<1>2. ShownChain(a, r) = SubSeq(chain, 1, Max(S))
  BY DEF ShownChain
<1> HIDE DEF chain
<1>3. ofMatrix(Len(chain))
  <2> SUFFICES ASSUME NEW j \in 2..Len(chain)
               PROVE  a.executions[chain[j]].key = <<"matrix", r, j - 1>>
    OBVIOUS
  <2>1. j \in 1..Len(chain) /\ Len(chain) # 1
    BY <1>1
  <2> QED BY <1>1, <2>1
<1>4. Len(chain) \in S /\ S \subseteq 0..Len(chain) /\ S # {}
  BY <1>1, <1>3
<1> HIDE DEF S
<1>5. Max(S) \in S /\ \A y \in S : Max(S) >= y
  BY <1>1, <1>4, LargestPosition
<1>6. Max(S) = Len(chain)
  <2> DEFINE m == Max(S)
  <2> HIDE DEF m
  <2>1. m \in S /\ m >= Len(chain)
    BY <1>4, <1>5 DEF m
  <2>2. m \in 0..Len(chain) /\ Len(chain) \in Nat
    BY <1>1, <1>4, <2>1
  <2>3. m = Len(chain)
    BY <2>1, <2>2
  <2> QED BY <2>3 DEF m
<1>7. SubSeq(chain, 1, Len(chain)) = chain
  <2> DEFINE m == Len(chain)  S2 == DOMAIN a.executions
  <2> HIDE DEF S2
  <2>1. chain \in Seq(S2) /\ m \in Nat /\ \A i \in 1..m : chain[i] \in S2
    BY <1>1, ElementOfSeq DEF S2
  <2>2. /\ SubSeq(chain, 1, m) \in Seq(S2) /\ Len(SubSeq(chain, 1, m)) = m
        /\ \A i \in 1..m : SubSeq(chain, 1, m)[i] = chain[i]
    BY <2>1, SubSeqProperties
  <2> QED BY <2>1, <2>2, SeqEqual
<1> QED BY <1>2, <1>6, <1>7 DEF chain

\* The row that is shown of a route.
LEMMA RowShown ==
  ASSUME NEW a, AuditState(a), SamplingLoads(a), InOrder(a), SelectedBy(a) # {},
         NEW r \in AuditRequests
  PROVE  LET chain == Chain(a, r) IN
         /\ chain = <<>> => ShownRow(a, r).acquisition = 0 /\ ShownRow(a, r).pending
         /\ chain # <<>> =>
              /\ Len(chain) \in 1..Len(chain) /\ Last(chain) = chain[Len(chain)]
              /\ ShownRow(a, r).acquisition = Last(chain) /\ Last(chain) # 0
              /\ ToInterpret(a, r) = {} => ShownRow(a, r).generation = Len(chain)
<1> DEFINE chain == Chain(a, r)  n == IF chain = <<>> THEN 0 ELSE Last(chain)
           rows == RowsOf(a, r)
           interpreted == n # 0 /\ rows # {} /\ a.rows[Max(rows)].acquisition = n
           x == ShownRow(a, r)
<1>1. /\ x.acquisition = n /\ x.pending = ~interpreted
      /\ x.generation = IF n = 0 THEN 1 ELSE Cardinality(rows) + (IF interpreted THEN 0 ELSE 1)
  BY ShownIsChain DEF ShownRow
<1>2. /\ chain \in Seq(DOMAIN a.executions) /\ Len(chain) \in Nat /\ DOMAIN chain = 1..Len(chain)
      /\ \A i \in 1..Len(chain) : chain[i] \in DOMAIN a.executions
  BY ChainInOrder
<1>3. /\ Cardinality(rows) \in Nat /\ (Cardinality(rows) = 0 <=> rows = {})
      /\ (rows # {} => Latest(rows) = Max(rows))
  BY RowsArePositions
<1>4. /\ Cardinality(rows) <= Len(chain)
      /\ Cardinality(rows) # 0 => a.rows[Latest(rows)].acquisition = chain[Cardinality(rows)]
  BY DEF InOrder, RowsRead
<1>5. ToInterpret(a, r) = (Cardinality(rows) + 1)..Len(chain)
  BY WaitingAfterRows
<1> HIDE DEF chain, rows, x
<1>6. CASE chain = <<>>
  BY <1>1, <1>6 DEF chain, x
<1>7. CASE chain # <<>>
  <2>1. Len(chain) # 0 /\ Len(chain) \in 1..Len(chain)
    BY <1>2, <1>7, EmptySeq
  <2>2. Last(chain) = chain[Len(chain)] /\ Last(chain) \in DOMAIN a.executions
    BY <1>2, <2>1 DEF Last
  <2>3. Last(chain) # 0
    BY <2>2, ExecutionFields
  <2>4. n = Last(chain)
    BY <1>7
  <2>5. ASSUME ToInterpret(a, r) = {} PROVE x.generation = Len(chain)
    <3>1. Cardinality(rows) = Len(chain)
      <4>1. Len(chain) \notin (Cardinality(rows) + 1)..Len(chain)
        BY <1>5, <2>5
      <4> QED BY <1>2, <1>3, <1>4, <4>1
    <3>2. rows # {} /\ a.rows[Max(rows)].acquisition = chain[Len(chain)]
      BY <1>3, <1>4, <2>1, <3>1
    <3>3. interpreted
      BY <2>2, <2>3, <2>4, <3>2
    <3> HIDE DEF interpreted, n
    <3> QED BY <1>1, <1>2, <2>3, <2>4, <3>1, <3>3
  <2> HIDE DEF n
  <2> QED BY <1>1, <1>7, <2>1, <2>2, <2>3, <2>4, <2>5 DEF chain, x
<1> QED BY <1>6, <1>7

-------------------------------------------------------------------------------
(* The order is kept *)

\* The one plan is what became of the other: its executions are all there.
Grew(a, a2) ==
  /\ DOMAIN a.executions \subseteq DOMAIN a2.executions
  /\ \A k \in DOMAIN a.executions :
       /\ a2.executions[k].key = a.executions[k].key
       /\ a2.executions[k].request = a.executions[k].request
       /\ a2.executions[k].previous = a.executions[k].previous

\* What another did stays.
LEMMA OfAnotherStays ==
  ASSUME NEW a, NEW a2, AuditState(a), AuditsLoad(a), Grew(a, a2), OfAnother(a)
  PROVE  OfAnother(a2)
<1>1. PICK n \in DOMAIN a.executions :
        /\ a.executions[n].key[1] = "own" /\ a.executions[n].previous # 0
        /\ a.executions[a.executions[n].previous].key[1] = "sample"
  BY DEF OfAnother, Executions
<1> DEFINE p == a.executions[n].previous
<1>2. p \in DOMAIN a.executions
  <2>1. ExecutionAccepted(a, n)
    BY DEF AuditsLoad, Executions
  <2>2. p < n /\ p # 0
    BY <1>1, <2>1 DEF ExecutionAccepted
  <2>3. p \in Nat
    BY ExecutionFields DEF ExecutionRow
  <2>4. Len(a.executions) \in Nat /\ DOMAIN a.executions = 1..Len(a.executions)
    BY ExecutionFields
  <2> HIDE DEF p
  <2> QED BY <2>2, <2>3, <2>4
<1>3. /\ n \in DOMAIN a2.executions /\ a2.executions[n].key[1] = "own"
      /\ a2.executions[n].previous = p /\ p # 0 /\ a2.executions[p].key[1] = "sample"
  BY <1>1, <1>2 DEF Grew
<1> HIDE DEF p
<1> QED BY <1>3 DEF OfAnother, Executions

\* What continues an execution goes on to.
LEMMA ContinuationsStay ==
  ASSUME NEW a, NEW a2, Grew(a, a2), NEW p
  PROVE  Continuations(a, p) \subseteq Continuations(a2, p)
BY DEF Grew, Continuations, Executions

\* The rows of a chain that grows are read as before.
LEMMA RowsReadGrows ==
  ASSUME NEW a, NEW a2, AuditState(a), AuditsLoad(a), AuditState(a2), AuditsLoad(a2),
         Grew(a, a2), a2.rows = a.rows, NEW r, Root(a2, r) = Root(a, r),
         Root(a, r) \in 0..Len(a.executions), RowsRead(a, r)
  PROVE  RowsRead(a2, r)
<1> DEFINE s == Chain(a, r)  t == Chain(a2, r)  n == Root(a, r)
<1>1. /\ Len(a.executions) \in Nat /\ DOMAIN a.executions = 1..Len(a.executions)
      /\ Len(a2.executions) \in Nat /\ DOMAIN a2.executions = 1..Len(a2.executions)
  BY ExecutionFields
<1>2. Root(a, r) \in 0..Len(a2.executions)
  BY <1>1 DEF Grew
<1>3. IsChain(a, n, s) /\ IsChain(a2, n, t)
  <2>1. IsChain(a, n, Continued(a)[n])
    BY ContinuedIsChain
  <2>2. IsChain(a2, n, Continued(a2)[n])
    BY <1>2, ContinuedIsChain
  <2> QED BY <2>1, <2>2 DEF Chain
<1> HIDE DEF s, t, n
<1>4. DOMAIN a.executions \subseteq DOMAIN a2.executions
  BY DEF Grew
<1>5. \A p \in DOMAIN a.executions : Continuations(a, p) \subseteq Continuations(a2, p)
  BY ContinuationsStay
<1>6. Len(s) <= Len(t) /\ \A i \in 1..Len(s) : t[i] = s[i]
  BY <1>3, <1>4, <1>5, ChainsAgree
<1>7. Len(s) \in Nat /\ Len(t) \in Nat
  BY <1>3, LenProperties DEF IsChain
<1> DEFINE m == Cardinality(RowsOf(a, r))  k == Latest(RowsOf(a, r))
<1>8. RowsOf(a2, r) = RowsOf(a, r) /\ Interpreted(a2, r) = Interpreted(a, r)
  BY DEF RowsOf, Interpreted
<1>9. /\ m <= Len(s) /\ Interpreted(a, r) = {s[i] : i \in 1..m}
      /\ m # 0 => a.rows[k].generation = m /\ a.rows[k].acquisition = s[m]
  BY DEF RowsRead, s
<1>10. m \in Nat
  BY RowsArePositions
<1> HIDE DEF m, k
<1>11. \A i \in 1..m : i \in 1..Len(s) /\ t[i] = s[i]
  BY <1>6, <1>7, <1>9, <1>10
<1>12. {s[i] : i \in 1..m} = {t[i] : i \in 1..m}
  BY <1>11
<1>13. m <= Len(t) /\ (m # 0 => s[m] = t[m])
  BY <1>6, <1>7, <1>9, <1>10, <1>11
<1>14. /\ m <= Len(t) /\ Interpreted(a2, r) = {t[i] : i \in 1..m}
       /\ m # 0 => a2.rows[k].generation = m /\ a2.rows[k].acquisition = t[m]
  BY <1>8, <1>9, <1>12, <1>13
<1> QED BY <1>8, <1>14 DEF RowsRead, t, m, k

\* Without rows there is nothing to read.
LEMMA NoRowsRead ==
  ASSUME NEW a, AuditState(a), NEW r, RowsOf(a, r) = {}, Len(Chain(a, r)) \in Nat
  PROVE  RowsRead(a, r)
<1>1. Cardinality(RowsOf(a, r)) = 0
  BY RowsArePositions
<1>2. Interpreted(a, r) = {}
  BY DEF Interpreted
<1> QED BY <1>1, <1>2 DEF RowsRead

\* Where the executions grow in order and the rest stays, the plan is in order.
LEMMA InOrderGrows ==
  ASSUME NEW a, NEW a2, AuditState(a), SamplingLoads(a), InOrder(a),
         AuditState(a2), AuditsLoad(a2), Grew(a, a2),
         a2.feed = a.feed, a2.events = a.events, a2.rows = a.rows,
         \A k \in DOMAIN a2.executions \ DOMAIN a.executions :
           KeyFits(a2, k) /\ (a.feed # 0 => a2.executions[k].previous # a.feed),
         SamplesCounted(a2),
         \A r \in AuditRequests :
           Root(a2, r) = Root(a, r) \/ (Root(a, r) = 0 /\ Root(a2, r) # 0)
  PROVE  InOrder(a2)
<1>1. SelectedBy(a2) = SelectedBy(a)
  BY DEF SelectedBy
<1>2. AuditsLoad(a)
  BY DEF SamplingLoads
<1>3. /\ Len(a.executions) \in Nat /\ DOMAIN a.executions = 1..Len(a.executions)
      /\ \A k \in DOMAIN a.executions : a.executions[k] \in ExecutionRow
  BY ExecutionFields
<1>4. ASSUME NEW k \in DOMAIN a.executions PROVE KeyFits(a2, k)
  <2>1. KeyFits(a, k)
    BY DEF InOrder, Executions
  <2> DEFINE p == a.executions[k].previous
  <2>2. p # 0 => p \in DOMAIN a.executions
    <3>1. ExecutionAccepted(a, k)
      BY <1>2 DEF AuditsLoad, Executions
    <3>2. p # 0 => p < k
      BY <3>1 DEF ExecutionAccepted
    <3>3. p \in Nat
      BY <1>3 DEF ExecutionRow
    <3> HIDE DEF p
    <3> QED BY <1>3, <3>2, <3>3
  <2>3. p # 0 => a2.executions[p].key = a.executions[p].key
    BY <2>2 DEF Grew
  <2>4. /\ a2.executions[k].key = a.executions[k].key
        /\ a2.executions[k].request = a.executions[k].request /\ a2.executions[k].previous = p
    BY DEF Grew
  <2>5. Root(a, "publisher") # 0 => Root(a2, "publisher") # 0
    BY DEF AuditRequests
  <2> QED BY <1>1, <2>1, <2>3, <2>4, <2>5 DEF KeyFits
<1>5. FeedStands(a2)
  <2> SUFFICES ASSUME a.feed # 0, NEW k \in Continuations(a2, a.feed) PROVE FALSE
    BY DEF FeedStands
  <2>1. k \in DOMAIN a2.executions /\ a2.executions[k].previous = a.feed
    BY DEF Continuations, Executions
  <2>2. k \in DOMAIN a.executions
    BY <2>1
  <2>3. k \in Continuations(a, a.feed)
    BY <2>1, <2>2 DEF Continuations, Executions, Grew
  <2> QED BY <2>3 DEF InOrder, FeedStands
<1>6. ASSUME SelectedBy(a) # {}, NEW r \in AuditRequests PROVE RowsRead(a2, r)
  <2>1. RowsRead(a, r) /\ Root(a, r) \in 0..Len(a.executions)
    BY <1>6, RootIsExecution DEF InOrder
  <2>2. CASE Root(a2, r) = Root(a, r)
    BY <1>2, <2>1, <2>2, RowsReadGrows
  <2>3. CASE Root(a, r) = 0
    <3>1. Len(Chain(a, r)) = 0
      <4>1. IsChain(a, 0, Continued(a)[0])
        BY <1>2, <1>3, ContinuedIsChain
      <4>2. Chain(a, r) = <<>>
        BY <2>3, <4>1 DEF Chain, IsChain
      <4> QED BY <4>2
    <3>2. RowsOf(a, r) = {}
      <4>1. Cardinality(RowsOf(a, r)) <= 0
        BY <2>1, <3>1 DEF RowsRead
      <4>2. Cardinality(RowsOf(a, r)) = 0
        BY <4>1, RowsArePositions
      <4> QED BY <4>2, RowsArePositions
    <3>3. RowsOf(a2, r) = {}
      BY <3>2 DEF RowsOf
    <3>4. Chain(a2, r) \in Seq(DOMAIN a2.executions)
      BY <1>1, <1>6, ChainOfRoute
    <3>5. Len(Chain(a2, r)) \in Nat
      BY <3>4, LenProperties
    <3> QED BY <3>3, <3>5, NoRowsRead
  <2> QED BY <2>2, <2>3
<1> QED BY <1>1, <1>4, <1>5, <1>6 DEF InOrder, Executions

\* Where only reasons and summaries differ, the plan is in order.
LEMMA SameShapeInOrder ==
  ASSUME NEW a, NEW a2, AuditState(a), SamplingLoads(a), AuditState(a2), AuditsLoad(a2),
         Grew(a, a2), DOMAIN a2.executions = DOMAIN a.executions,
         a2.feed = a.feed, a2.events = a.events, a2.rows = a.rows
  PROVE  /\ InOrder(a) => InOrder(a2)
         /\ \A r : SampleMatches(a2, r) = SampleMatches(a, r)
         /\ SamplingComplete(a2) <=> SamplingComplete(a)
         /\ SamplingRoute(a2) = SamplingRoute(a)
<1>1. \A r : SampleMatches(a2, r) = SampleMatches(a, r)
  BY DEF SampleMatches, Executions, RequestOf, Grew
<1>2. \A key : WithKey(a2, key) = WithKey(a, key)
  BY DEF WithKey, Executions, Grew
<1>3. SelectedBy(a2) = SelectedBy(a) /\ Finals(a2) = Finals(a)
  BY DEF SelectedBy, Finals
<1>4. \A r \in AuditRequests : Root(a2, r) = Root(a, r)
  BY <1>2, <1>3 DEF Root, AuditRequests
<1>5. ASSUME InOrder(a) PROVE InOrder(a2)
  <2>1. SamplesCounted(a2)
    <3> SUFFICES ASSUME NEW r \in Sampled, SampleMatches(a2, r) # {}
                 PROVE  a2.executions[Latest(SampleMatches(a2, r))].key[3] =
                          Cardinality(SampleMatches(a2, r))
      BY DEF SamplesCounted
    <3> DEFINE S == SampleMatches(a, r)  n == Latest(S)
    <3>1. SampleMatches(a2, r) = S /\ S # {}
      BY <1>1
    <3>2. a.executions[n].key[3] = Cardinality(S)
      BY <1>5, <3>1 DEF InOrder, SamplesCounted
    <3>3. n \in DOMAIN a.executions
      <4>1. S \subseteq 1..Len(a.executions)
        BY MatchesArePositions
      <4>2. Len(a.executions) \in Nat /\ DOMAIN a.executions = 1..Len(a.executions)
        BY ExecutionFields
      <4> HIDE DEF S
      <4>3. n \in S
        BY <3>1, <4>1, <4>2, LatestOf
      <4> QED BY <4>1, <4>2, <4>3
    <3>4. a2.executions[n].key = a.executions[n].key
      BY <3>3 DEF Grew
    <3> HIDE DEF S
    <3> QED BY <3>1, <3>2, <3>4
  <2> QED BY <1>4, <1>5, <2>1, InOrderGrows
<1>6. SamplingComplete(a2) <=> SamplingComplete(a)
  BY <1>3 DEF SamplingComplete
<1> QED BY <1>1, <1>5, <1>6 DEF SamplingRoute

\* A new execution is the last of the plan.
LEMMA AddedExecution ==
  ASSUME NEW a, AuditState(a), NEW key \in AuditKeys, NEW r \in AuditRequests,
         NEW previous \in 0..Len(a.executions), NEW a2, a2 = WithExecution(a, key, r, previous)
  PROVE  LET n == Len(a.executions) + 1 IN
         /\ a2.executions[n].key = key /\ a2.executions[n].request = r
         /\ a2.executions[n].previous = previous /\ a2.executions[n].reason = "none"
         /\ Len(a.executions) \in Nat /\ DOMAIN a.executions = 1..Len(a.executions)
         /\ DOMAIN a2.executions = 1..n /\ Len(a2.executions) = n
         /\ \A k \in DOMAIN a.executions : a2.executions[k] = a.executions[k]
         /\ Grew(a, a2)
         /\ a2.feed = a.feed /\ a2.events = a.events /\ a2.rows = a.rows
         /\ key[1] = "sample" => SampleMatches(a2, r) = SampleMatches(a, r) \cup {n}
         /\ \A q : key[1] # "sample" \/ q # r => SampleMatches(a2, q) = SampleMatches(a, q)
         /\ key = <<"matrix", "publisher", 0>> => Root(a2, "publisher") # 0
         /\ \A q \in AuditRequests :
              (q = "publisher" => key # <<"matrix", "publisher", 0>>) => Root(a2, q) = Root(a, q)
         /\ \A q \in AuditRequests : q # "publisher" => Root(a2, q) = Root(a, q)
<1> DEFINE x == [key |-> key, request |-> r, previous |-> previous, reason |-> "none"]
           len == Len(a.executions)
           n == Len(a.executions) + 1
<1>1. len \in Nat /\ DOMAIN a.executions = 1..len
  BY ExecutionFields
<1>2. /\ a2.executions = Append(a.executions, x)
      /\ a2.feed = a.feed /\ a2.events = a.events /\ a2.rows = a.rows
  BY DEF WithExecution, AuditState
<1>3. x \in ExecutionRow
  <2>1. previous \in Nat
    BY <1>1
  <2>2. "none" \in AuditReasons
    BY DEF AuditReasons
  <2> QED BY <2>1, <2>2 DEF ExecutionRow
<1>4. x.key = key /\ x.request = r /\ x.previous = previous /\ x.reason = "none"
  OBVIOUS
<1> HIDE DEF x
<1>5. /\ Len(a2.executions) = n /\ DOMAIN a2.executions = 1..n /\ a2.executions[n] = x
      /\ \A k \in DOMAIN a.executions : a2.executions[k] = a.executions[k]
  <2>1. a.executions \in Seq(ExecutionRow)
    BY DEF AuditState
  <2> QED BY <1>2, <1>3, <2>1, Appended
<1> HIDE DEF n
<1>a. n = len + 1
  BY DEF n
<1> HIDE DEF len
<1>6. Grew(a, a2)
  BY <1>1, <1>5, <1>a DEF Grew
<1>7. ASSUME NEW q, NEW k
      PROVE  k \in SampleMatches(a2, q) <=>
               k \in SampleMatches(a, q) \/ (k = n /\ key[1] = "sample" /\ r = q)
  <2>1. CASE k \in DOMAIN a.executions
    BY <1>1, <1>5, <1>a, <2>1 DEF SampleMatches, Executions, RequestOf
  <2>2. CASE k = n
    BY <1>1, <1>4, <1>5, <1>a, <2>2 DEF SampleMatches, Executions, RequestOf
  <2>3. CASE k \notin DOMAIN a.executions /\ k # n
    BY <1>1, <1>5, <1>a, <2>3 DEF SampleMatches, Executions, RequestOf
  <2> QED BY <2>1, <2>2, <2>3
<1>8. /\ key[1] = "sample" => SampleMatches(a2, r) = SampleMatches(a, r) \cup {n}
      /\ \A q : key[1] # "sample" \/ q # r => SampleMatches(a2, q) = SampleMatches(a, q)
  <2>1. ASSUME key[1] = "sample" PROVE SampleMatches(a2, r) = SampleMatches(a, r) \cup {n}
    <3>1. \A k : k \in SampleMatches(a2, r) <=> k \in SampleMatches(a, r) \/ k = n
      BY <1>7, <2>1
    <3> QED BY <3>1
  <2>2. ASSUME NEW q, key[1] # "sample" \/ q # r
        PROVE  SampleMatches(a2, q) = SampleMatches(a, q)
    <3>1. \A k : k \in SampleMatches(a2, q) <=> k \in SampleMatches(a, q)
      BY <1>7, <2>2
    <3> QED BY <3>1
  <2> QED BY <2>1, <2>2
<1>9. ASSUME key = <<"matrix", "publisher", 0>> PROVE Root(a2, "publisher") # 0
  <2> DEFINE S == WithKey(a2, <<"matrix", "publisher", 0>>)
  <2>1. S \subseteq 1..n /\ n \in S
    BY <1>1, <1>4, <1>5, <1>9, <1>a DEF WithKey, Executions
  <2> HIDE DEF S
  <2>2. n \in Nat /\ S # {}
    BY <1>1, <1>a, <2>1
  <2>3. Latest(S) \in S
    BY <2>1, <2>2, LatestOf
  <2>4. Latest(S) # 0
    BY <2>1, <2>3
  <2>5. Root(a2, "publisher") = Latest(S)
    BY DEF Root, S
  <2> QED BY <2>4, <2>5
<1>10. ASSUME NEW q \in AuditRequests, q = "publisher" => key # <<"matrix", "publisher", 0>>
       PROVE  Root(a2, q) = Root(a, q)
  <2>1. q = "publisher" => x.key # <<"matrix", "publisher", 0>>
    BY <1>4, <1>10
  <2>2. /\ a2.executions = Append(a.executions, x)
        /\ a2.feed = a.feed /\ a2.events = a.events /\ q \in AuditRequests
    BY <1>2
  <2> QED BY ONLY AuditState(a), <1>3, <2>1, <2>2, RootsStay
<1> QED BY <1>1, <1>2, <1>4, <1>5, <1>6, <1>8, <1>9, <1>10 DEF n, len

\* The next execution of the sampling.
LEMMA SampleInOrder ==
  ASSUME NEW a, AuditState(a), SamplingLoads(a), NEW r \in Sampled, r = SamplingRoute(a),
         NEW key \in AuditKeys,
         key = <<"sample", r, Cardinality(SampleMatches(a, r)) + 1>>,
         NEW previous, previous = Latest(SampleMatches(a, r)),
         NEW a2, a2 = WithExecution(a, key, r, previous), AuditState(a2), AuditsLoad(a2)
  PROVE  /\ InOrder(a) => InOrder(a2)
         /\ Latest(SampleMatches(a2, r)) = Len(a.executions) + 1
         /\ SamplingRoute(a2) = r /\ (SamplingComplete(a2) <=> SamplingComplete(a))
<1> DEFINE n == Len(a.executions) + 1  S == SampleMatches(a, r)
<1>1. Len(a.executions) \in Nat /\ S \subseteq 1..Len(a.executions) /\ Cardinality(S) \in Nat
  BY MatchesArePositions, ExecutionFields
<1>2. previous \in 0..Len(a.executions) /\ previous \in {0} \cup S
  BY <1>1, LatestIsOne
<1>3. r \in AuditRequests
  BY DEF Sampled, AuditRequests
<1>4. key[1] = "sample" /\ key[3] = Cardinality(S) + 1 /\ key = <<"sample", r, key[3]>>
  OBVIOUS
<1>a. key # <<"matrix", "publisher", 0>>
  BY <1>4
<1>5. /\ a2.executions[n].key = key /\ a2.executions[n].request = r
      /\ a2.executions[n].previous = previous
      /\ DOMAIN a.executions = 1..Len(a.executions) /\ DOMAIN a2.executions = 1..n
      /\ \A k \in DOMAIN a.executions : a2.executions[k] = a.executions[k]
      /\ Grew(a, a2) /\ a2.feed = a.feed /\ a2.events = a.events /\ a2.rows = a.rows
  BY <1>2, <1>3, AddedExecution
<1>6. /\ SampleMatches(a2, r) = S \cup {n}
      /\ \A q : q # r => SampleMatches(a2, q) = SampleMatches(a, q)
  BY <1>2, <1>3, <1>4, AddedExecution
<1>b. \A q \in AuditRequests : Root(a2, q) = Root(a, q)
  <2>1. /\ \A q \in AuditRequests :
             (q = "publisher" => key # <<"matrix", "publisher", 0>>) => Root(a2, q) = Root(a, q)
    BY <1>2, <1>3, AddedExecution
  <2> QED BY <1>a, <2>1
<1> HIDE DEF S
<1>7. Latest(S \cup {n}) = n
  <2> DEFINE T == S \cup {n}  m == n
  <2> DEFINE len == Len(a.executions)
  <2>a. len \in Nat /\ S \subseteq 1..len /\ m = len + 1 /\ T = S \cup {m}
    BY <1>1
  <2> HIDE DEF T, m, len
  <2>1. m \in Nat /\ T \subseteq 1..m /\ T # {} /\ m \in T /\ \A y \in T : y <= m
    BY <2>a
  <2>2. Latest(T) = m
    BY <2>1, LatestOf
  <2> QED BY <2>2 DEF T, m
<1>8. Finals(a2) = Finals(a)
  BY <1>5 DEF Finals
<1>9. ASSUME InOrder(a) PROVE InOrder(a2)
  <2>1. KeyFits(a2, n)
    BY <1>4, <1>5 DEF KeyFits, Sampled
  <2>2. a.feed # 0 => previous # a.feed
    <3> SUFFICES ASSUME a.feed # 0, previous = a.feed PROVE FALSE
      OBVIOUS
    <3>1. RequestOf(a, a.feed) = "feed" /\ r = "doi_ra"
      BY DEF SamplingLoads, SamplingRoute
    <3>2. a.feed \in S
      BY <1>2
    <3> QED BY <3>1, <3>2 DEF SampleMatches, S
  <2>3. SamplesCounted(a2)
    <3> SUFFICES ASSUME NEW q \in Sampled, SampleMatches(a2, q) # {}
                 PROVE  a2.executions[Latest(SampleMatches(a2, q))].key[3] =
                          Cardinality(SampleMatches(a2, q))
      BY DEF SamplesCounted
    <3>1. CASE q = r
      <4>1. IsFiniteSet(S) /\ n \notin S
        <5> DEFINE len == Len(a.executions)
        <5>1. len \in Nat /\ len \in Int /\ 1 \in Int /\ S \subseteq 1..len
          BY <1>1
        <5> HIDE DEF len
        <5>2. IsFiniteSet(1..len)
          BY <5>1, FS_Interval
        <5>3. IsFiniteSet(S)
          BY <5>1, <5>2, FS_Subset
        <5> QED BY <1>1, <5>3
      <4>2. Cardinality(S \cup {n}) = Cardinality(S) + 1
        BY <4>1, FS_AddElement
      <4>3. a2.executions[n].key[3] = Cardinality(S) + 1
        BY <1>4, <1>5
      <4> HIDE DEF n
      <4> QED BY <1>6, <1>7, <3>1, <4>2, <4>3
    <3>2. CASE q # r
      <4> DEFINE T == SampleMatches(a, q)  m == Latest(T)
      <4>1. SampleMatches(a2, q) = T /\ T # {}
        BY <1>6, <3>2
      <4>2. a.executions[m].key[3] = Cardinality(T)
        BY <1>9, <4>1 DEF InOrder, SamplesCounted
      <4>3. T \subseteq 1..Len(a.executions)
        BY MatchesArePositions
      <4> HIDE DEF T
      <4>4. m \in T
        BY <1>1, <4>1, <4>3, LatestOf
      <4>5. m \in DOMAIN a.executions
        BY <1>5, <4>3, <4>4
      <4>6. a2.executions[m] = a.executions[m]
        BY <1>5, <4>5
      <4> QED BY <4>1, <4>2, <4>6
    <3> QED BY <3>1, <3>2
  <2>4. \A k \in DOMAIN a2.executions \ DOMAIN a.executions : k = n
    BY <1>1, <1>5
  <2> QED BY <1>5, <1>9, <1>b, <2>1, <2>2, <2>3, <2>4, InOrderGrows
<1>10. SamplingComplete(a2) <=> SamplingComplete(a)
  BY <1>5, <1>8 DEF SamplingComplete
<1>11. SamplingRoute(a2) = r
  BY <1>5 DEF SamplingRoute
<1> QED BY <1>6, <1>7, <1>9, <1>10, <1>11

\* A new execution that is not of the sampling.
LEMMA OtherInOrder ==
  ASSUME NEW a, AuditState(a), SamplingLoads(a), InOrder(a), NEW r \in AuditRequests,
         NEW key \in AuditKeys, key[1] # "sample", NEW previous \in 0..Len(a.executions),
         a.feed # 0 => previous # a.feed,
         key = <<"matrix", "publisher", 0>> => Root(a, "publisher") = 0,
         NEW a2, a2 = WithExecution(a, key, r, previous), AuditState(a2), AuditsLoad(a2),
         KeyFits(a2, Len(a.executions) + 1)
  PROVE  InOrder(a2)
<1> DEFINE n == Len(a.executions) + 1
<1>1. /\ a2.executions[n].previous = previous /\ Len(a.executions) \in Nat
      /\ DOMAIN a.executions = 1..Len(a.executions) /\ DOMAIN a2.executions = 1..n
      /\ \A k \in DOMAIN a.executions : a2.executions[k] = a.executions[k]
      /\ Grew(a, a2) /\ a2.feed = a.feed /\ a2.events = a.events /\ a2.rows = a.rows
      /\ \A q : SampleMatches(a2, q) = SampleMatches(a, q)
  BY AddedExecution
<1>2. \A q \in AuditRequests :
        Root(a2, q) = Root(a, q) \/ (Root(a, q) = 0 /\ Root(a2, q) # 0)
  <2>1. /\ key = <<"matrix", "publisher", 0>> => Root(a2, "publisher") # 0
        /\ \A q \in AuditRequests :
             (q = "publisher" => key # <<"matrix", "publisher", 0>>) => Root(a2, q) = Root(a, q)
        /\ \A q \in AuditRequests : q # "publisher" => Root(a2, q) = Root(a, q)
    BY AddedExecution
  <2> QED BY <2>1
<1>3. \A q : SampleMatches(a2, q) = SampleMatches(a, q)
  BY <1>1
<1>4. SamplesCounted(a2)
  <2> SUFFICES ASSUME NEW q \in Sampled, SampleMatches(a2, q) # {}
               PROVE  a2.executions[Latest(SampleMatches(a2, q))].key[3] =
                        Cardinality(SampleMatches(a2, q))
    BY DEF SamplesCounted
  <2> DEFINE T == SampleMatches(a, q)  m == Latest(T)
  <2>1. SampleMatches(a2, q) = T /\ T # {}
    BY <1>3
  <2>2. a.executions[m].key[3] = Cardinality(T)
    BY <2>1 DEF InOrder, SamplesCounted
  <2>3. T \subseteq 1..Len(a.executions)
    BY MatchesArePositions
  <2> HIDE DEF T
  <2>4. m \in T
    BY <1>1, <2>1, <2>3, LatestOf
  <2>5. a2.executions[m] = a.executions[m]
    BY <1>1, <2>3, <2>4
  <2> QED BY <2>1, <2>2, <2>5
<1>5. \A k \in DOMAIN a2.executions \ DOMAIN a.executions : k = n
  BY <1>1
<1> QED BY <1>1, <1>2, <1>4, <1>5, InOrderGrows

\* A new event is the last of the plan.
LEMMA AddedEvent ==
  ASSUME NEW a, AuditState(a), NEW r, NEW n, NEW a2, a2 = WithEvent(a, r, n)
  PROVE  /\ a2.executions = a.executions /\ a2.feed = a.feed /\ a2.rows = a.rows
         /\ Len(a.events) \in Nat /\ DOMAIN a.events = 1..Len(a.events)
         /\ DOMAIN a2.events = 1..(Len(a.events) + 1)
         /\ \A e \in DOMAIN a.events : a2.events[e] = a.events[e]
         /\ LET x == a2.events[Len(a.events) + 1] IN
            /\ x.of = r /\ x.execution = n /\ x.reason = SeenReason(a, n)
            /\ x.result = IF r = "feed" THEN "blocked" ELSE Verdict(ReasonOf(a, n))
<1> DEFINE x == [of |-> r, execution |-> n, reason |-> SeenReason(a, n),
                 result |-> IF r = "feed" THEN "blocked" ELSE Verdict(ReasonOf(a, n))]
           last == Len(a.events) + 1
<1>1. a.events \in Seq(EventRow) /\ Len(a.events) \in Nat /\ DOMAIN a.events = 1..Len(a.events)
  BY LenProperties DEF AuditState
<1>2. /\ a2.executions = a.executions /\ a2.feed = a.feed /\ a2.rows = a.rows
      /\ a2.events = Append(a.events, x)
  BY DEF WithEvent, AuditState
<1>3. /\ x.of = r /\ x.execution = n /\ x.reason = SeenReason(a, n)
      /\ x.result = IF r = "feed" THEN "blocked" ELSE Verdict(ReasonOf(a, n))
  OBVIOUS
<1> HIDE DEF x
<1>4. /\ DOMAIN a2.events = 1..last /\ a2.events[last] = x
      /\ \A e \in DOMAIN a.events : a2.events[e] = a.events[e]
  BY <1>1, <1>2
<1> QED BY <1>1, <1>2, <1>3, <1>4

\* The answer of a sampling that goes on is an answer of its route, and the loader
\* takes the choice it gives.
LEMMA ChoiceLoads ==
  ASSUME NEW a, AuditState(a), SamplingLoads(a), ~SamplingComplete(a),
         NEW r, r = SamplingRoute(a), NEW n \in DOMAIN a.executions, RequestOf(a, n) = r
  PROVE  /\ r = "feed" /\ ReasonOf(a, n) = "acquired" =>
              SamplingLoads([a EXCEPT !.feed = n])
         /\ SamplingLoads(WithEvent(a, r, n))
<1>1. Finals(a) = {} /\ SelectedBy(a) = {}
  BY NothingSelected
<1>2. r \in {"feed", "doi_ra"} /\ (r = "doi_ra" => a.feed # 0) /\ (r = "feed" => a.feed = 0)
  BY DEF SamplingRoute
<1>a. AuditsLoad(a) /\ \A e \in DOMAIN a.events : ChoiceAccepted(a, e)
  BY DEF SamplingLoads
<1>3. ASSUME r = "feed", ReasonOf(a, n) = "acquired" PROVE SamplingLoads([a EXCEPT !.feed = n])
  <2> DEFINE a2 == [a EXCEPT !.feed = n]
  <2>1. a2.executions = a.executions /\ a2.events = a.events /\ a2.feed = n
    BY DEF AuditState
  <2> HIDE DEF a2
  <2>2. AuditsLoad(a2)
    BY <1>a, <2>1 DEF AuditsLoad, ExecutionAccepted, Executions, RequestOf, IsOpen, ReasonOf,
                      CanContinue, Continuations
  <2>3. RequestOf(a2, a2.feed) = "feed" /\ ReasonOf(a2, a2.feed) = "acquired"
    BY <1>3, <2>1 DEF RequestOf, ReasonOf
  <2>4. \A e \in DOMAIN a2.events : ChoiceAccepted(a2, e)
    <3> SUFFICES ASSUME NEW e \in DOMAIN a.events PROVE ChoiceAccepted(a2, e)
      BY <2>1
    <3>1. ChoiceAccepted(a, e)
      BY <1>a
    <3>2. a.events[e].of # "doi_ra"
      BY <1>2, <1>3, <3>1 DEF ChoiceAccepted
    <3> QED BY <2>1, <3>1, <3>2 DEF ChoiceAccepted, RequestOf, SeenReason, IsOpen, ReasonOf
  <2>5. SamplingLoads(a2)
    BY <2>2, <2>3, <2>4 DEF SamplingLoads
  <2> QED BY <2>5 DEF a2
<1>4. SamplingLoads(WithEvent(a, r, n))
  <2> DEFINE a2 == WithEvent(a, r, n)
             last == Len(a.events) + 1
  <2>1. /\ a2.executions = a.executions /\ a2.feed = a.feed
        /\ Len(a.events) \in Nat /\ DOMAIN a.events = 1..Len(a.events)
        /\ DOMAIN a2.events = 1..last
        /\ \A e \in DOMAIN a.events : a2.events[e] = a.events[e]
        /\ a2.events[last].of = r /\ a2.events[last].execution = n
        /\ a2.events[last].reason = SeenReason(a, n)
        /\ a2.events[last].result = IF r = "feed" THEN "blocked" ELSE Verdict(ReasonOf(a, n))
    BY AddedEvent
  <2> HIDE DEF a2
  <2>2. AuditsLoad(a2)
    BY <1>a, <2>1 DEF AuditsLoad, ExecutionAccepted, Executions, RequestOf, IsOpen, ReasonOf,
                      CanContinue, Continuations
  <2>3. a2.feed # 0 => RequestOf(a2, a2.feed) = "feed" /\ ReasonOf(a2, a2.feed) = "acquired"
    BY <2>1 DEF RequestOf, ReasonOf, SamplingLoads
  <2>4. Finals(a2) \subseteq {last}
    BY <1>1, <2>1 DEF Finals
  <2>5. ASSUME NEW e \in DOMAIN a.events PROVE ChoiceAccepted(a2, e)
    <3>1. ChoiceAccepted(a, e) /\ a2.events[e] = a.events[e]
      BY <1>a, <2>1
    <3>2. \A f \in Finals(a2) : f >= e
      BY <2>1, <2>4
    <3> QED BY <2>1, <3>1, <3>2 DEF ChoiceAccepted, RequestOf, SeenReason, IsOpen, ReasonOf
  <2>6. ChoiceAccepted(a2, last)
    <3>1. \A f \in Finals(a2) : f >= last
      BY <2>1, <2>4
    <3>2. RequestOf(a2, n) = RequestOf(a, n) /\ SeenReason(a2, n) = SeenReason(a, n)
          /\ ReasonOf(a2, n) = ReasonOf(a, n)
      BY <2>1 DEF RequestOf, SeenReason, IsOpen, ReasonOf
    <3> QED BY <1>2, <2>1, <3>1, <3>2 DEF ChoiceAccepted
  <2>7. DOMAIN a2.events = DOMAIN a.events \cup {last}
    BY <2>1
  <2>8. SamplingLoads(a2)
    BY <2>2, <2>3, <2>5, <2>6, <2>7 DEF SamplingLoads
  <2> QED BY <2>8 DEF a2
<1> QED BY <1>3, <1>4

\* The answer is an execution of the route; of the feed it is the last one.
LEMMA AnswerOfRoute ==
  ASSUME NEW a, AuditState(a), NEW r \in Sampled, NEW continuing, NEW got \in 0..Len(a.executions),
         got # 0 => got = Latest(SampleMatches(a, r)),
         NEW n, n = AnswerFor(a, r, continuing, got), n # 0
  PROVE  /\ n \in DOMAIN a.executions /\ RequestOf(a, n) = r
         /\ r = "feed" => SampleMatches(a, r) # {} /\ n = Latest(SampleMatches(a, r))
<1>1. Len(a.executions) \in Nat /\ DOMAIN a.executions = 1..Len(a.executions)
  BY ExecutionFields
<1> DEFINE S == SampleMatches(a, r)  R == Reusable(a, r)
<1>2. S \subseteq 1..Len(a.executions) /\ R \subseteq 1..Len(a.executions)
  BY <1>1 DEF SampleMatches, Reusable, Executions
<1>3. \A k \in S \cup R : k \in DOMAIN a.executions /\ RequestOf(a, k) = r
  BY DEF SampleMatches, Reusable, Executions
<1>4. r = "feed" => R = {}
  BY DEF Reusable
<1>5. n = Latest(S) \/ n = Latest(R)
  BY DEF AnswerFor
<1>6. n # Latest(S) => S = {} /\ n = Latest(R)
  BY DEF AnswerFor
<1> HIDE DEF S, R
<1>7. Latest(S) \in {0} \cup S /\ Latest(R) \in {0} \cup R
  BY <1>1, <1>2, LatestIsOne
<1>8. n \in S \cup R
  BY <1>5, <1>7
<1>9. ASSUME r = "feed" PROVE S # {} /\ n = Latest(S)
  BY <1>4, <1>6, <1>7, <1>8, <1>9
<1> QED BY <1>3, <1>8, <1>9 DEF S

\* Where the executions stay, and no matrix has begun, the order is kept.
LEMMA ChosenInOrder ==
  ASSUME NEW a, AuditState(a), AbstractsLoad(a), InOrder(a), ~SamplingComplete(a),
         NEW a2, AuditState(a2), SamplingLoads(a2),
         a2.executions = a.executions, a2.rows = a.rows, FeedStands(a2)
  PROVE  InOrder(a2)
<1>1. SamplingLoads(a) /\ SelectedBy(a) = {} /\ a.rows = <<>>
  BY NothingSelected, RowIsOfComplete DEF AbstractsLoad
<1>2. ASSUME NEW k \in Executions(a2) PROVE KeyFits(a2, k)
  <2>1. KeyFits(a, k) /\ a2.executions[k] = a.executions[k]
    BY DEF InOrder, Executions
  <2>2. a.executions[k].key[1] # "matrix"
    BY <1>1, <2>1 DEF KeyFits
  <2> QED BY <2>1, <2>2 DEF KeyFits
<1>3. \A r : SampleMatches(a2, r) = SampleMatches(a, r)
  BY DEF SampleMatches, Executions, RequestOf
<1>4. SamplesCounted(a2)
  <2>1. SamplesCounted(a)
    BY DEF InOrder
  <2> QED BY <1>3, <2>1 DEF SamplesCounted
<1>5. ASSUME SelectedBy(a2) # {}, NEW r \in AuditRequests PROVE RowsRead(a2, r)
  <2>1. AuditsLoad(a2)
    BY DEF SamplingLoads
  <2>2. Chain(a2, r) \in Seq(DOMAIN a2.executions)
    BY <1>5, <2>1, ChainOfRoute
  <2>3. Len(Chain(a2, r)) \in Nat
    BY <2>2, LenProperties
  <2>4. RowsOf(a2, r) = {}
    <3>1. DOMAIN a2.rows = {}
      BY <1>1
    <3> QED BY <3>1 DEF RowsOf
  <2> QED BY <2>3, <2>4, NoRowsRead
<1> QED BY <1>2, <1>4, <1>5 DEF InOrder

\* The feed that is frozen is the last of the sampling.
LEMMA FeedInOrder ==
  ASSUME NEW a, AuditState(a), AbstractsLoad(a), InOrder(a), ~SamplingComplete(a),
         SampleMatches(a, "feed") # {}, NEW n, n = Latest(SampleMatches(a, "feed")),
         NEW a2, a2 = [a EXCEPT !.feed = n], AuditState(a2), SamplingLoads(a2)
  PROVE  InOrder(a2)
<1>1. a2.executions = a.executions /\ a2.rows = a.rows /\ a2.feed = n
  BY DEF AuditState
<1>2. Continuations(a, n) = {}
  <2>1. "feed" \in Sampled /\ AuditsLoad(a)
    BY DEF Sampled, AbstractsLoad, SamplingLoads
  <2> QED BY <2>1, LastSample
<1>3. FeedStands(a2)
  BY <1>1, <1>2 DEF FeedStands, Continuations, Executions
<1> QED BY <1>1, <1>3, ChosenInOrder

\* A choice is made before the matrix begins.
LEMMA EventInOrder ==
  ASSUME NEW a, AuditState(a), AbstractsLoad(a), InOrder(a), ~SamplingComplete(a),
         NEW r, NEW n, NEW a2, a2 = WithEvent(a, r, n), AuditState(a2), SamplingLoads(a2)
  PROVE  InOrder(a2)
<1>1. a2.executions = a.executions /\ a2.rows = a.rows /\ a2.feed = a.feed
  BY AddedEvent
<1>2. FeedStands(a2)
  BY <1>1 DEF FeedStands, Continuations, Executions, InOrder
<1> QED BY <1>1, <1>2, ChosenInOrder

\* A new row is the last of its route.
LEMMA AddedRow ==
  ASSUME NEW a, AuditState(a), NEW r, NEW n, NEW a2, a2 = WithRow(a, r, n)
  PROVE  LET k == Len(a.rows) + 1 IN
         /\ a2.executions = a.executions /\ a2.feed = a.feed /\ a2.events = a.events
         /\ Len(a.rows) \in Nat /\ DOMAIN a.rows = 1..Len(a.rows) /\ DOMAIN a2.rows = 1..k
         /\ \A q \in DOMAIN a.rows : a2.rows[q] = a.rows[q]
         /\ a2.rows[k].request = r /\ a2.rows[k].acquisition = n
         /\ a2.rows[k].generation = Cardinality(RowsOf(a, r)) + 1
         /\ a2.rows[k].previous = Latest(RowsOf(a, r))
         /\ RowsOf(a2, r) = RowsOf(a, r) \cup {k}
         /\ Interpreted(a2, r) = Interpreted(a, r) \cup {n}
         /\ \A q : q # r => RowsOf(a2, q) = RowsOf(a, q) /\ Interpreted(a2, q) = Interpreted(a, q)
         /\ Cardinality(RowsOf(a2, r)) = Cardinality(RowsOf(a, r)) + 1
         /\ Latest(RowsOf(a2, r)) = k
<1> DEFINE x == [request |-> r, acquisition |-> n,
                 generation |-> Cardinality(RowsOf(a, r)) + 1, previous |-> Latest(RowsOf(a, r))]
           k == Len(a.rows) + 1
<1>1. a.rows \in Seq(MatrixRow) /\ Len(a.rows) \in Nat /\ DOMAIN a.rows = 1..Len(a.rows)
  BY LenProperties DEF AuditState
<1>2. /\ a2.executions = a.executions /\ a2.feed = a.feed /\ a2.events = a.events
      /\ a2.rows = Append(a.rows, x)
  BY DEF WithRow, AuditState
<1>3. /\ x.request = r /\ x.acquisition = n /\ x.generation = Cardinality(RowsOf(a, r)) + 1
      /\ x.previous = Latest(RowsOf(a, r))
  OBVIOUS
<1> HIDE DEF x
<1>4. /\ DOMAIN a2.rows = 1..k /\ a2.rows[k] = x
      /\ \A q \in DOMAIN a.rows : a2.rows[q] = a.rows[q]
  BY <1>1, <1>2
<1>5. k \notin DOMAIN a.rows /\ DOMAIN a2.rows = DOMAIN a.rows \cup {k}
  BY <1>1, <1>4
<1> HIDE DEF k
<1>6. /\ RowsOf(a2, r) = RowsOf(a, r) \cup {k}
      /\ \A q : q # r => RowsOf(a2, q) = RowsOf(a, q)
  <2>1. ASSUME NEW q, NEW j PROVE j \in RowsOf(a2, q) <=> j \in RowsOf(a, q) \/ (j = k /\ q = r)
    BY <1>3, <1>4, <1>5 DEF RowsOf
  <2>2. RowsOf(a2, r) = RowsOf(a, r) \cup {k}
    <3>1. \A j : j \in RowsOf(a2, r) <=> j \in RowsOf(a, r) \/ j = k
      BY <2>1
    <3> QED BY <3>1
  <2>3. ASSUME NEW q, q # r PROVE RowsOf(a2, q) = RowsOf(a, q)
    <3>1. \A j : j \in RowsOf(a2, q) <=> j \in RowsOf(a, q)
      BY <2>1, <2>3
    <3> QED BY <3>1
  <2> QED BY <2>2, <2>3
<1>7. \A q : RowsOf(a, q) \subseteq DOMAIN a.rows
  BY DEF RowsOf
<1>8. Interpreted(a2, r) = Interpreted(a, r) \cup {n}
  <2>1. \A j \in RowsOf(a, r) : a2.rows[j] = a.rows[j]
    BY <1>4, <1>7
  <2> QED BY <1>3, <1>4, <1>6, <2>1 DEF Interpreted
<1>9. ASSUME NEW q, q # r PROVE Interpreted(a2, q) = Interpreted(a, q)
  <2>1. \A j \in RowsOf(a, q) : a2.rows[j] = a.rows[j]
    BY <1>4, <1>7
  <2> QED BY <1>6, <1>9, <2>1 DEF Interpreted
<1>10. Cardinality(RowsOf(a2, r)) = Cardinality(RowsOf(a, r)) + 1
  <2>1. IsFiniteSet(RowsOf(a, r)) /\ k \notin RowsOf(a, r)
    BY <1>5, <1>7, RowsArePositions
  <2> QED BY <1>6, <2>1, FS_AddElement
<1>11. Latest(RowsOf(a2, r)) = k
  <2> DEFINE len == Len(a.rows)  S == RowsOf(a, r)  T == RowsOf(a2, r)
  <2>1. len \in Nat /\ S \subseteq 1..len /\ k = len + 1 /\ T = S \cup {k}
    BY <1>1, <1>6, <1>7 DEF k
  <2> HIDE DEF len, S, T
  <2>2. k \in Nat /\ T \subseteq 1..k /\ T # {} /\ k \in T /\ \A y \in T : y <= k
    BY <2>1
  <2>3. Latest(T) = k
    BY <2>2, LatestOf
  <2> QED BY <2>3 DEF T
<1> QED BY <1>1, <1>2, <1>3, <1>4, <1>6, <1>8, <1>9, <1>10, <1>11 DEF k

\* The rows do not matter to what the other loaders see.
LEMMA RowsApart ==
  ASSUME NEW a, NEW a2, a2.executions = a.executions, a2.feed = a.feed, a2.events = a.events
  PROVE  /\ SelectedBy(a2) = SelectedBy(a)
         /\ \A r \in AuditRequests : Root(a2, r) = Root(a, r) /\ Chain(a2, r) = Chain(a, r)
         /\ SamplingLoads(a) => SamplingLoads(a2)
         /\ \A n : /\ RequestOf(a2, n) = RequestOf(a, n) /\ (IsOpen(a2, n) <=> IsOpen(a, n))
                   /\ (CanContinue(a2, n) <=> CanContinue(a, n))
<1>1. SelectedBy(a2) = SelectedBy(a) /\ Finals(a2) = Finals(a)
  BY DEF SelectedBy, Finals
<1>2. \A key : WithKey(a2, key) = WithKey(a, key)
  BY DEF WithKey, Executions
<1>3. \A r \in AuditRequests : Root(a2, r) = Root(a, r)
  BY <1>1, <1>2 DEF Root, AuditRequests
<1>4. Continued(a2) = Continued(a)
  BY ContinuedByExecutions
<1>5. \A r \in AuditRequests : Chain(a2, r) = Chain(a, r)
  BY <1>3, <1>4 DEF Chain
<1>6. \A n : /\ RequestOf(a2, n) = RequestOf(a, n) /\ ReasonOf(a2, n) = ReasonOf(a, n)
             /\ (IsOpen(a2, n) <=> IsOpen(a, n)) /\ (CanContinue(a2, n) <=> CanContinue(a, n))
             /\ Continuations(a2, n) = Continuations(a, n) /\ SeenReason(a2, n) = SeenReason(a, n)
  BY DEF RequestOf, ReasonOf, IsOpen, CanContinue, Continuations, Executions, SeenReason
<1>7. \A n : ExecutionAccepted(a, n) => ExecutionAccepted(a2, n)
  BY <1>6 DEF ExecutionAccepted
<1>8. \A e : ChoiceAccepted(a, e) => ChoiceAccepted(a2, e)
  BY <1>1, <1>6 DEF ChoiceAccepted
<1>9. SamplingLoads(a) => SamplingLoads(a2)
  BY <1>6, <1>7, <1>8 DEF SamplingLoads, AuditsLoad, Executions
<1> QED BY <1>1, <1>3, <1>5, <1>6, <1>9

\* The row of the first place that waits is the next one of its route.
LEMMA RowLoads ==
  ASSUME NEW a, AuditState(a), AbstractsLoad(a), InOrder(a), SelectedBy(a) # {},
         NEW r \in AuditRequests, ToInterpret(a, r) # {},
         NEW n, n = Chain(a, r)[Min(ToInterpret(a, r))], ~IsOpen(a, n),
         NEW a2, a2 = WithRow(a, r, n)
  PROVE  AbstractsLoad(a2)
<1> DEFINE m == Cardinality(RowsOf(a, r))
           chain == Chain(a, r)
           len == Len(a.rows)
<1>1. SamplingLoads(a) /\ AuditsLoad(a) /\ \A k \in DOMAIN a.rows : RowAccepted(a, k)
  BY DEF AbstractsLoad, SamplingLoads
<1>2. /\ a2.executions = a.executions /\ a2.feed = a.feed /\ a2.events = a.events
      /\ len \in Nat /\ DOMAIN a.rows = 1..len /\ DOMAIN a2.rows = 1..(len + 1)
      /\ \A q \in DOMAIN a.rows : a2.rows[q] = a.rows[q]
      /\ a2.rows[len + 1].request = r /\ a2.rows[len + 1].acquisition = n
      /\ a2.rows[len + 1].generation = m + 1
      /\ a2.rows[len + 1].previous = Latest(RowsOf(a, r))
  BY AddedRow
<1>3. /\ SelectedBy(a2) = SelectedBy(a) /\ SamplingLoads(a2)
      /\ \A q \in AuditRequests : Root(a2, q) = Root(a, q)
      /\ \A k : /\ RequestOf(a2, k) = RequestOf(a, k) /\ (IsOpen(a2, k) <=> IsOpen(a, k))
                /\ (CanContinue(a2, k) <=> CanContinue(a, k))
  BY <1>1, <1>2, RowsApart
<1>4. /\ m \in Nat /\ (m = 0 <=> RowsOf(a, r) = {}) /\ RowsOf(a, r) \subseteq 1..len
      /\ RowsOf(a, r) # {} => Latest(RowsOf(a, r)) \in RowsOf(a, r)
      /\ RowsOf(a, r) = {} => Latest(RowsOf(a, r)) = 0
  BY RowsArePositions
<1>5. n = chain[m + 1] /\ m + 1 \in 1..Len(chain)
  <2>1. /\ ToInterpret(a, r) = (m + 1)..Len(chain)
        /\ Min(ToInterpret(a, r)) = m + 1
    BY <1>1, WaitingAfterRows
  <2>2. Len(chain) \in Nat
    BY <1>1, ChainInOrder
  <2>3. n = chain[m + 1] /\ (m + 1)..Len(chain) # {}
    BY <2>1
  <2> HIDE DEF m, chain
  <2> QED BY <1>4, <2>2, <2>3
<1>6. /\ chain \in Seq(DOMAIN a.executions) /\ IsChain(a, Root(a, r), chain)
      /\ Len(chain) \in Nat
      /\ \A i \in 1..Len(chain) :
           /\ chain[i] \in DOMAIN a.executions /\ RequestOf(a, chain[i]) = r
           /\ i # 1 => a.executions[chain[i]].previous = chain[i - 1]
           /\ r = "publisher" => a.executions[chain[i]].key = <<"matrix", "publisher", i - 1>>
      /\ r # "publisher" => Len(chain) = 1
  BY <1>1, ChainInOrder
<1>7. /\ m <= Len(chain)
      /\ m # 0 => /\ a.rows[Latest(RowsOf(a, r))].generation = m
                  /\ a.rows[Latest(RowsOf(a, r))].acquisition = chain[m]
  BY DEF InOrder, RowsRead
<1>8. (Root(a, r) = 0 <=> chain = <<>>) /\ (Root(a, r) # 0 => chain[1] = Root(a, r))
  BY <1>6 DEF IsChain
<1> HIDE DEF m, chain, len
<1>9. ASSUME NEW k \in DOMAIN a.rows PROVE RowAccepted(a2, k)
  <2> DEFINE p == a.rows[k].previous
             q == a.rows[k].request
  <2>1. RowAccepted(a, k) /\ a2.rows[k] = a.rows[k]
    BY <1>1, <1>2
  <2>2. p = 0 \/ p \in DOMAIN a.rows
    BY <2>1, RowBefore
  <2>3. {j \in 1..(k - 1) : a2.rows[j].request = q} = {j \in 1..(k - 1) : a.rows[j].request = q}
    <3>1. \A j \in 1..(k - 1) : j \in DOMAIN a.rows
      BY <1>2
    <3> QED BY <1>2, <3>1
  <2>4. p # 0 => a2.rows[p] = a.rows[p]
    BY <1>2, <2>2
  <2>5. Root(a2, q) = Root(a, q)
    <3>1. a.rows[k] \in MatrixRow
      BY ElementOfSeq, LenProperties DEF AuditState
    <3>2. q \in AuditRequests
      BY <3>1 DEF MatrixRow
    <3> QED BY <1>3, <3>2
  <2>6. p = Latest({j \in 1..(k - 1) : a2.rows[j].request = q})
    BY <2>1, <2>3 DEF RowAccepted
  <2> QED BY <1>2, <1>3, <2>1, <2>4, <2>5, <2>6 DEF RowAccepted
<1>10. RowAccepted(a2, len + 1)
  <2> DEFINE p == Latest(RowsOf(a, r))
  <2>1. RowsOf(a, r) = {j \in 1..((len + 1) - 1) : a2.rows[j].request = r}
    <3>1. RowsOf(a, r) = {j \in 1..len : a.rows[j].request = r}
      BY <1>2 DEF RowsOf
    <3>2. \A j \in 1..len : a2.rows[j] = a.rows[j]
      BY <1>2
    <3>3. (len + 1) - 1 = len
      BY <1>2
    <3> QED BY <3>1, <3>2, <3>3
  <2>2. RequestOf(a, n) = r /\ n \in DOMAIN a.executions
    BY <1>5, <1>6
  <2>3. CASE p = 0
    <3>1. m = 0
      BY <1>4, <2>3
    <3>2. chain[1] = Root(a, r)
      <4>1. Len(chain) # 0
        BY <1>5, <3>1
      <4>2. chain # <<>>
        BY <4>1, EmptySeq
      <4> QED BY <1>8, <4>2
    <3>3. n = Root(a2, r) /\ a2.rows[len + 1].generation = 1
      BY <1>2, <1>3, <1>5, <3>1, <3>2
    <3> QED BY <1>2, <1>3, <2>1, <2>2, <2>3, <3>3 DEF RowAccepted
  <2>4. CASE p # 0
    <3>1. p \in RowsOf(a, r) /\ m # 0
      BY <1>4, <2>4
    <3>2. p \in DOMAIN a.rows /\ a2.rows[p] = a.rows[p]
      BY <1>2, <1>4, <3>1
    <3>3. a.rows[p].generation = m /\ a.rows[p].acquisition = chain[m]
      BY <1>7, <3>1
    <3>4. m + 1 # 1 /\ (m + 1) - 1 = m /\ Len(chain) # 1
      BY <1>4, <1>5, <1>6, <3>1
    <3>5. a.executions[n].previous = chain[m] /\ r = "publisher"
      BY <1>5, <1>6, <3>4
    <3>6. a.executions[n].key = <<"matrix", "publisher", m>>
      <4>1. a.executions[chain[m + 1]].key = <<"matrix", "publisher", (m + 1) - 1>>
        BY <1>5, <1>6, <3>5
      <4> QED BY <1>5, <3>4, <4>1
    <3>7. ExecutionAccepted(a, n)
      BY <1>1, <2>2 DEF AuditsLoad, Executions
    <3>8. CanContinue(a, chain[m])
      <4>1. a.executions[n].key[1] = "matrix" /\ a.executions[n].key[3] = m
        BY <3>6
      <4>2. m > 0
        BY <1>4, <3>1
      <4> QED BY <3>5, <3>7, <4>1, <4>2 DEF ExecutionAccepted
    <3>9. /\ a2.rows[len + 1].generation = a2.rows[p].generation + 1
          /\ a2.executions[n].previous = a2.rows[p].acquisition
          /\ CanContinue(a2, a2.rows[p].acquisition)
      BY <1>2, <1>3, <3>2, <3>3, <3>5, <3>8
    <3> HIDE DEF p
    <3>10. a2.rows[len + 1].previous = p /\ p = Latest(RowsOf(a, r))
      BY <1>2 DEF p
    <3> QED BY <1>2, <1>3, <2>1, <2>2, <2>4, <3>9, <3>10 DEF RowAccepted
  <2> QED BY <2>3, <2>4
<1>11. DOMAIN a2.rows = DOMAIN a.rows \cup {len + 1}
  BY <1>2
<1> QED BY <1>3, <1>9, <1>10, <1>11 DEF AbstractsLoad

\* The row of the first place that waits keeps the order.
LEMMA RowInOrder ==
  ASSUME NEW a, AuditState(a), AbstractsLoad(a), InOrder(a), SelectedBy(a) # {},
         NEW r \in AuditRequests, ToInterpret(a, r) # {},
         NEW n, n = Chain(a, r)[Min(ToInterpret(a, r))],
         NEW a2, a2 = WithRow(a, r, n)
  PROVE  InOrder(a2)
<1> DEFINE m == Cardinality(RowsOf(a, r))
           chain == Chain(a, r)
           k == Len(a.rows) + 1
<1>1. SamplingLoads(a)
  BY DEF AbstractsLoad
<1>2. /\ a2.executions = a.executions /\ a2.feed = a.feed /\ a2.events = a.events
      /\ Len(a.rows) \in Nat /\ DOMAIN a.rows = 1..Len(a.rows)
      /\ \A q \in DOMAIN a.rows : a2.rows[q] = a.rows[q]
      /\ a2.rows[k].acquisition = n /\ a2.rows[k].generation = m + 1
      /\ Interpreted(a2, r) = Interpreted(a, r) \cup {n}
      /\ \A q : q # r => RowsOf(a2, q) = RowsOf(a, q) /\ Interpreted(a2, q) = Interpreted(a, q)
      /\ Cardinality(RowsOf(a2, r)) = m + 1 /\ Latest(RowsOf(a2, r)) = k
  BY AddedRow
<1>3. /\ SelectedBy(a2) = SelectedBy(a)
      /\ \A q \in AuditRequests : Root(a2, q) = Root(a, q) /\ Chain(a2, q) = Chain(a, q)
  BY <1>2, RowsApart
<1>4. m \in Nat
  BY RowsArePositions
<1>5. n = chain[m + 1] /\ m + 1 \in 1..Len(chain)
  <2>1. /\ ToInterpret(a, r) = (m + 1)..Len(chain)
        /\ Min(ToInterpret(a, r)) = m + 1
    BY <1>1, WaitingAfterRows
  <2>2. Len(chain) \in Nat
    BY <1>1, ChainInOrder
  <2>3. n = chain[m + 1] /\ (m + 1)..Len(chain) # {}
    BY <2>1
  <2> HIDE DEF m, chain
  <2> QED BY <1>4, <2>2, <2>3
<1>6. Interpreted(a, r) = {chain[i] : i \in 1..m}
  BY DEF InOrder, RowsRead
<1>a. Len(chain) \in Nat
  BY <1>1, ChainInOrder
<1>7. RowsRead(a2, r)
  <2> HIDE DEF m, k, chain
  <2>1. m + 1 <= Len(chain) /\ m + 1 # 0
    BY <1>4, <1>5, <1>a
  <2>2. 1..(m + 1) = 1..m \cup {m + 1}
    BY <1>4
  <2>3. Interpreted(a2, r) = {chain[i] : i \in 1..(m + 1)}
    BY <1>2, <1>5, <1>6, <2>2
  <2>4. Chain(a2, r) = chain
    BY <1>3 DEF chain
  <2> QED BY <1>2, <1>5, <2>1, <2>3, <2>4 DEF RowsRead
<1>8. ASSUME NEW q \in AuditRequests, q # r PROVE RowsRead(a2, q)
  <2>1. RowsRead(a, q)
    BY DEF InOrder
  <2>2. Cardinality(RowsOf(a, q)) # 0 =>
          Latest(RowsOf(a, q)) \in DOMAIN a.rows
    BY RowsArePositions
  <2>3. /\ RowsOf(a2, q) = RowsOf(a, q) /\ Interpreted(a2, q) = Interpreted(a, q)
        /\ Chain(a2, q) = Chain(a, q)
    BY <1>2, <1>3, <1>8
  <2>4. Cardinality(RowsOf(a, q)) # 0 =>
          a2.rows[Latest(RowsOf(a, q))] = a.rows[Latest(RowsOf(a, q))]
    BY <1>2, <2>2
  <2> QED BY <2>1, <2>3, <2>4 DEF RowsRead
<1>9. \A q : SampleMatches(a2, q) = SampleMatches(a, q)
  BY <1>2 DEF SampleMatches, Executions, RequestOf
<1>10. SamplesCounted(a2) /\ FeedStands(a2)
  BY <1>2, <1>9 DEF InOrder, SamplesCounted, FeedStands, Continuations, Executions
<1>11. Root(a2, "publisher") = Root(a, "publisher")
  BY <1>3 DEF AuditRequests
<1>12. \A j \in Executions(a2) : KeyFits(a2, j)
  BY <1>2, <1>3, <1>11 DEF InOrder, KeyFits, Executions
<1> QED BY <1>3, <1>7, <1>8, <1>10, <1>12 DEF InOrder

-------------------------------------------------------------------------------
(* The frames go on *)

\* What a frame goes on with: a sampling that is not complete and its last
\* execution, an open execution, a summary that is found; a refused frame had
\* another continue the sampling.
FrameGoes(a, x) ==
  /\ x.at = "sampling" => /\ ~SamplingComplete(a)
                          /\ x.got # 0 => x.got = Latest(SampleMatches(a, SamplingRoute(a)))
  /\ x.at = "fetching" =>
       /\ IsOpen(a, x.execution)
       /\ x.then.at = "sampling" => /\ ~SamplingComplete(a)
                                    /\ x.execution = Latest(SampleMatches(a, SamplingRoute(a)))
  /\ x.at = "captured" => SummaryLoads(a, x.boundary)
  /\ x.at = "refused" => OfAnother(a)
FramesGo == \A c \in Auditors : FrameGoes(audit, auditors[c])
\* The inductive invariant, with the one of the rows and the frames.
Goes == (OfAnother(audit) \/ InOrder(audit)) /\ FramesGo

\* What is written under the lock, or while nobody holds it, lets the others go on.
LEMMA FrameGoesOn ==
  ASSUME FramesSound, FramesGo, NEW c \in Auditors, planLock \in {c, Nobody}, NEW x, Puts(c, x),
         FrameGoes(audit', x), SummariesStand(audit, audit'), OfAnother(audit) => OfAnother(audit')
  PROVE  FramesGo'
<1>1. auditors'[c] = x /\ \A d \in Auditors \ {c} : auditors'[d] = auditors[d]
  BY DEF FramesSound, Puts
<1>2. ASSUME NEW d \in Auditors \ {c} PROVE FrameGoes(audit', auditors[d])
  <2>1. planLock # d
    BY AuditorAssumption
  <2>2. auditors[d].at \notin AtWork /\ FrameSound(audit, auditors[d]) /\ FrameGoes(audit, auditors[d])
    BY <2>1 DEF FramesSound, FramesGo
  <2>3. auditors[d].at # "sampling" /\ auditors[d].at # "fetching"
    BY <2>2 DEF AtWork
  <2>4. auditors[d].at = "captured" => SummaryLoads(audit', auditors[d].boundary)
    BY <2>2 DEF FrameSound, FrameGoes, SummariesStand
  <2>5. auditors[d].at = "refused" => OfAnother(audit')
    BY <2>2 DEF FrameGoes
  <2> QED BY <2>3, <2>4, <2>5 DEF FrameGoes
<1>3. \A d \in Auditors : FrameGoes(audit', auditors'[d])
  BY <1>1, <1>2
<1> QED BY <1>3 DEF FramesGo

\* A step that leaves executions, feed and events alone lets the others go on.
LEMMA FrameGoesRest ==
  ASSUME FramesSound, FramesGo, NEW c \in Auditors, NEW x, Puts(c, x), FrameGoes(audit', x),
         SummariesStand(audit, audit'),
         audit'.executions = audit.executions, audit'.feed = audit.feed,
         audit'.events = audit.events
  PROVE  FramesGo'
<1>1. auditors'[c] = x /\ \A d \in Auditors \ {c} : auditors'[d] = auditors[d]
  BY DEF FramesSound, Puts
<1>2. /\ SamplingComplete(audit') <=> SamplingComplete(audit)
      /\ SamplingRoute(audit') = SamplingRoute(audit)
      /\ \A r : SampleMatches(audit', r) = SampleMatches(audit, r)
      /\ \A n : IsOpen(audit', n) <=> IsOpen(audit, n)
      /\ OfAnother(audit') <=> OfAnother(audit)
  BY DEF SamplingComplete, Finals, SamplingRoute, SampleMatches, Executions, RequestOf, IsOpen,
         ReasonOf, OfAnother
<1>3. ASSUME NEW d \in Auditors \ {c} PROVE FrameGoes(audit', auditors[d])
  <2>1. FrameSound(audit, auditors[d]) /\ FrameGoes(audit, auditors[d])
    BY DEF FramesSound, FramesGo
  <2>2. auditors[d].at = "captured" => SummaryLoads(audit', auditors[d].boundary)
    BY <2>1 DEF FrameSound, FrameGoes, SummariesStand
  <2> QED BY <1>2, <2>1, <2>2 DEF FrameGoes
<1>4. \A d \in Auditors : FrameGoes(audit', auditors'[d])
  BY <1>1, <1>3
<1> QED BY <1>4 DEF FramesGo

\* A frame that waits for nothing goes on.
LEMMA IdleGoes ==
  ASSUME NEW a, NEW x, x.at \in {"idle", "start", "matrix"}
  PROVE  FrameGoes(a, x)
BY DEF FrameGoes

\* A step that leaves the plan as it is.
LEMMA PlanRests ==
  ASSUME AInv, Goes, NEW c \in Auditors, NEW x, Puts(c, x), FrameGoes(audit, x), audit' = audit
  PROVE  Goes'
<1>1. SummariesStand(audit, audit')
  BY DEF SummariesStand
<1>2. FramesGo'
  BY <1>1, FrameGoesRest DEF AInv, Goes
<1> QED BY <1>2 DEF Goes

\* A refusal, after another continued the sampling.
LEMMA RefusedGoes ==
  ASSUME AInv, Goes, NEW c \in Auditors, NEW r, NEW previous, Refused(c, r, previous),
         OfAnother(audit)
  PROVE  Goes'
<1> DEFINE x == [at |-> "refused", request |-> r, previous |-> previous]
<1>1. Puts(c, x) /\ audit' = audit
  BY DEF Refused
<1>2. x.at = "refused"
  OBVIOUS
<1> HIDE DEF x
<1>3. FrameGoes(audit, x)
  BY <1>2 DEF FrameGoes
<1> QED BY <1>1, <1>3, PlanRests

\* The next route, or the end of the run.
LEMMA ToRouteIdle ==
  ASSUME NEW c, NEW a, NEW continuing, NEW i, ToRoute(c, a, continuing, i)
  PROVE  \E x : Puts(c, x) /\ x.at \in {"idle", "start", "matrix"}
<1>1. CASE i \in DOMAIN Matrix(a)
  <2> DEFINE x == InMatrix(continuing, i, Existed(a, i))
  <2>1. Puts(c, x) /\ x.at = "matrix"
    BY <1>1 DEF ToRoute, InMatrix
  <2> HIDE DEF x
  <2> QED BY <2>1
<1>2. CASE i \notin DOMAIN Matrix(a)
  <2>1. Puts(c, AtEase) /\ AtEase.at = "idle"
    BY <1>2 DEF ToRoute, AtEase
  <2> QED BY <2>1
<1> QED BY <1>1, <1>2

\* A settlement keeps the order and the continuations.
LEMMA SettledPlan ==
  ASSUME NEW a, AuditState(a), AbstractsLoad(a), SummariesLoad(a),
         NEW n \in DOMAIN a.executions, IsOpen(a, n), NEW reason \in AuditReasons, reason # "none",
         reason = "outcome_unknown" \/ \A e \in DOMAIN a.events : a.events[e].execution # n,
         NEW a2, a2 = WithSettlement(a, n, reason)
  PROVE  /\ InOrder(a) => InOrder(a2)
         /\ OfAnother(a) => OfAnother(a2)
         /\ \A r : SampleMatches(a2, r) = SampleMatches(a, r)
         /\ SamplingComplete(a2) <=> SamplingComplete(a)
         /\ SamplingRoute(a2) = SamplingRoute(a)
         /\ SummariesStand(a, a2)
<1>1. /\ AuditState(a2) /\ AbstractsLoad(a2) /\ SummariesStand(a, a2)
      /\ DOMAIN a2.executions = DOMAIN a.executions
  BY SettlementAccepted
<1>2. SamplingLoads(a) /\ AuditsLoad(a) /\ AuditsLoad(a2)
  BY <1>1 DEF AbstractsLoad, SamplingLoads
<1>3. /\ a2.executions = [a.executions EXCEPT ![n].reason = reason]
      /\ a2.feed = a.feed /\ a2.events = a.events /\ a2.rows = a.rows
  BY DEF WithSettlement, AuditState
<1>4. Grew(a, a2)
  <2>1. \A k \in DOMAIN a.executions : a.executions[k] \in ExecutionRow
    BY ExecutionFields
  <2>2. ASSUME NEW k \in DOMAIN a.executions
        PROVE  /\ a2.executions[k].key = a.executions[k].key
               /\ a2.executions[k].request = a.executions[k].request
               /\ a2.executions[k].previous = a.executions[k].previous
    <3> DEFINE x == a.executions[k]
    <3>1. x \in ExecutionRow
      BY <2>1
    <3>2. a2.executions[k] = IF k = n THEN [x EXCEPT !.reason = reason] ELSE x
      BY <1>3
    <3> HIDE DEF x
    <3>3. /\ [x EXCEPT !.reason = reason].key = x.key
          /\ [x EXCEPT !.reason = reason].request = x.request
          /\ [x EXCEPT !.reason = reason].previous = x.previous
      BY <3>1 DEF ExecutionRow
    <3>4. /\ a2.executions[k].key = x.key /\ a2.executions[k].request = x.request
          /\ a2.executions[k].previous = x.previous
      BY <3>2, <3>3
    <3> QED BY <3>4 DEF x
  <2> QED BY <1>1, <2>2 DEF Grew
<1>5. OfAnother(a) => OfAnother(a2)
  BY <1>2, <1>4, OfAnotherStays
<1>6. /\ InOrder(a) => InOrder(a2)
      /\ \A r : SampleMatches(a2, r) = SampleMatches(a, r)
      /\ SamplingComplete(a2) <=> SamplingComplete(a)
      /\ SamplingRoute(a2) = SamplingRoute(a)
  BY <1>1, <1>2, <1>3, <1>4, SameShapeInOrder
<1> QED BY <1>1, <1>5, <1>6

\* An execution that is started is open, and of a sampling it is the last one.
LEMMA StartGoes ==
  ASSUME AInv, Goes, NEW c \in Auditors, planLock \in {c, Nobody},
         NEW key \in AuditKeys, NEW r \in AuditRequests, NEW previous \in 0..Len(audit.executions),
         key = <<"matrix", "publisher", 0>> => Root(audit, "publisher") = 0,
         audit' = WithExecution(audit, key, r, previous), AuditsLoad(audit'),
         NEW y, Puts(c, [at |-> "fetching", execution |-> Len(audit.executions) + 1, then |-> y]),
         InOrder(audit) => InOrder(audit') \/ OfAnother(audit'),
         y.at = "sampling" =>
           /\ ~SamplingComplete(audit')
           /\ Latest(SampleMatches(audit', SamplingRoute(audit'))) = Len(audit.executions) + 1
  PROVE  Goes'
<1> DEFINE x == [at |-> "fetching", execution |-> Len(audit.executions) + 1, then |-> y]
           n == Len(audit.executions) + 1
<1>1. AuditState(audit) /\ AbstractsLoad(audit) /\ SummariesLoad(audit) /\ AuditsLoad(audit)
  BY DEF AInv, AbstractsLoad, SamplingLoads
<1>2. x.at = "fetching" /\ x.execution = n /\ x.then = y
  OBVIOUS
<1>a. Puts(c, x)
  OBVIOUS
<1> HIDE DEF x
<1>3. audit'.executions[n].reason = "none" /\ Grew(audit, audit')
  <2> DEFINE a2 == audit'
  <2>1. a2 = WithExecution(audit, key, r, previous)
    OBVIOUS
  <2> HIDE DEF a2
  <2>2. a2.executions[n].reason = "none" /\ Grew(audit, a2)
    BY <1>1, <2>1, AddedExecution
  <2> QED BY <2>2 DEF a2
<1>4. SummariesStand(audit, audit')
  BY <1>1, ExecutionAdded
<1>5. OfAnother(audit) => OfAnother(audit')
  BY <1>1, <1>3, OfAnotherStays
<1>6. FrameGoes(audit', x)
  BY <1>2, <1>3 DEF FrameGoes, IsOpen, ReasonOf
<1>7. FramesGo'
  BY <1>4, <1>5, <1>6, <1>a, FrameGoesOn DEF AInv, Goes
<1> QED BY <1>5, <1>7 DEF Goes

\* _acquire_source, where an order is kept by what it adds and lets it add.
LEMMA StartExecutionGoes ==
  ASSUME AInv, Goes, NEW c \in Auditors, planLock = c,
         NEW key \in AuditKeys, NEW r \in AuditRequests, NEW previous \in 0..Len(audit.executions),
         key = <<"matrix", "publisher", 0>> => Root(audit, "publisher") = 0,
         NEW y, StartExecution(c, key, r, previous, y),
         NEW a2, a2 = WithExecution(audit, key, r, previous),
         InOrder(audit) =>
           /\ ~AlreadySettled(audit, key, r, previous, ShownFor(audit, r))
           /\ MayFollow(audit, r, previous) /\ KeyLoads(audit, key, r, previous),
         AuditState(a2) /\ AuditsLoad(a2) =>
           /\ InOrder(audit) => InOrder(a2)
           /\ y.at = "sampling" =>
                /\ ~SamplingComplete(a2)
                /\ Latest(SampleMatches(a2, SamplingRoute(a2))) = Len(audit.executions) + 1
  PROVE  Goes'
<1>1. AuditState(audit) /\ AbstractsLoad(audit) /\ SummariesLoad(audit) /\ AuditsLoad(audit)
  BY DEF AInv, AbstractsLoad, SamplingLoads
<1>2. ASSUME Refused(c, r, previous), ~InOrder(audit) PROVE Goes'
  <2>1. OfAnother(audit)
    BY <1>2 DEF Goes
  <2> QED BY <1>2, <2>1, RefusedGoes
<1>3. CASE /\ ~AlreadySettled(audit, key, r, previous, ShownFor(audit, r))
           /\ MayFollow(audit, r, previous) /\ AuditsLoad(a2)
  <2>1. /\ audit' = a2
        /\ Puts(c, [at |-> "fetching", execution |-> Len(audit.executions) + 1, then |-> y])
    BY <1>3 DEF StartExecution
  <2>2. AuditState(a2)
    BY <1>1, <1>3, ExecutionAdded
  <2> QED BY <1>3, <2>1, <2>2, StartGoes
<1>4. CASE ~(/\ ~AlreadySettled(audit, key, r, previous, ShownFor(audit, r))
             /\ MayFollow(audit, r, previous) /\ AuditsLoad(a2))
  <2>1. Refused(c, r, previous)
    BY <1>4 DEF StartExecution
  <2>2. ~InOrder(audit)
    <3> SUFFICES ASSUME InOrder(audit) PROVE FALSE
      OBVIOUS
    <3>1. AuditsLoad(a2)
      BY <1>1, NewExecutionLoads
    <3> QED BY <1>4, <3>1
  <2> QED BY <1>2, <2>1, <2>2
<1> QED BY <1>3, <1>4

\* acquire_source by itself: what it continues is of the sampling, or nothing.
LEMMA AcquireSourceGoes ==
  ASSUME AInv, Goes, NEW c \in Auditors, NEW r \in ToSet(AuditRoutes),
         NEW previous \in 0..Len(audit.executions), AcquireSource(c, r, previous)
  PROVE  Goes'
<1> DEFINE key == <<"own", r, 1>>  n == Len(audit.executions) + 1
<1>1. r \in AuditRequests
  BY DEF AuditRoutes, ToSet, AuditRequests
<1>2. /\ audit' = WithExecution(audit, key, r, previous)
      /\ ~AlreadySettled(audit, key, r, previous, ShownFor(audit, r))
      /\ MayFollow(audit, r, previous) /\ planLock = Nobody
      /\ WithKey(audit, key) = {}
      /\ Puts(c, [at |-> "fetching", execution |-> n, then |-> AtEase])
  BY DEF AcquireSource
<1>3. /\ AuditState(audit) /\ AbstractsLoad(audit) /\ SummariesLoad(audit) /\ AuditsLoad(audit)
      /\ SamplingLoads(audit)
  BY DEF AInv, AbstractsLoad, SamplingLoads
<1>4. key \in AuditKeys /\ key # <<"matrix", "publisher", 0>> /\ key[1] = "own"
      /\ key = <<"own", r, 1>>
  BY <1>1 DEF AuditKeys
<1>5. KeyLoads(audit, key, r, previous)
  BY DEF KeyLoads
<1> HIDE DEF key, n
<1> DEFINE a2 == audit'
<1>6. a2 = WithExecution(audit, key, r, previous)
  BY <1>2
<1> HIDE DEF a2
<1>7. AuditsLoad(a2)
  BY <1>1, <1>2, <1>3, <1>4, <1>5, <1>6, NewExecutionLoads
<1>8. AuditState(a2)
  BY <1>1, <1>3, <1>4, <1>6, <1>7, ExecutionAdded
<1>9. /\ a2.executions[n].key = key /\ a2.executions[n].request = r
      /\ a2.executions[n].previous = previous
      /\ DOMAIN a2.executions = 1..n
      /\ \A k \in DOMAIN audit.executions : a2.executions[k] = audit.executions[k]
  BY <1>1, <1>3, <1>4, <1>6, AddedExecution DEF n
<1>10. Len(audit.executions) \in Nat /\ DOMAIN audit.executions = 1..Len(audit.executions)
  BY <1>3, ExecutionFields
<1>11. ASSUME InOrder(audit), previous = 0 PROVE InOrder(a2)
  <2>1. KeyFits(a2, n)
    BY <1>4, <1>9, <1>11 DEF KeyFits
  <2>2. audit.feed # 0 => previous # audit.feed
    BY <1>11
  <2>3. key[1] # "sample"
    BY <1>4
  <2> QED BY <1>1, <1>3, <1>4, <1>6, <1>7, <1>8, <1>11, <2>1, <2>2, <2>3, OtherInOrder DEF n
<1>12. ASSUME InOrder(audit), previous # 0 PROVE OfAnother(a2)
  <2>1. previous \in DOMAIN audit.executions /\ RequestOf(audit, previous) = r
    BY <1>2, <1>10, <1>12 DEF MayFollow
  <2>2. KeyFits(audit, previous) /\ audit.executions[previous].key[1] \in {"own", "sample", "matrix"}
    BY <1>3, <1>12, <2>1, ExecutionFields DEF InOrder, Executions, ExecutionRow, AuditKeys
  <2>3. audit.executions[previous].key[1] # "own"
    <3> SUFFICES ASSUME audit.executions[previous].key[1] = "own" PROVE FALSE
      OBVIOUS
    <3>1. audit.executions[previous].key = key
      BY <1>4, <2>1, <2>2 DEF KeyFits, RequestOf
    <3> QED BY <1>2, <2>1, <3>1 DEF WithKey, Executions
  <2>4. audit.executions[previous].key[1] # "matrix"
    <3> SUFFICES ASSUME audit.executions[previous].key[1] = "matrix" PROVE FALSE
      OBVIOUS
    <3>1. r = "publisher" /\ SelectedBy(audit) # {} /\ Root(audit, "publisher") # 0
      BY <2>1, <2>2 DEF KeyFits, RequestOf
    <3> DEFINE shown == ShownFor(audit, r)
    <3>2. shown = ShownRow(audit, r)
      BY <3>1 DEF ShownFor
    <3>3. Chain(audit, r) # <<>>
      <4>1. IsChain(audit, Root(audit, r), Chain(audit, r))
        BY <1>1, <1>3, <1>12, <3>1, ChainInOrder
      <4> QED BY <3>1, <4>1 DEF IsChain
    <3>4. shown.acquisition # 0
      BY <1>1, <1>3, <1>12, <3>1, <3>2, <3>3, RowShown
    <3> HIDE DEF shown
    <3>5. key # <<"matrix", r, shown.generation>>
      BY <1>4
    <3>6. AlreadySettled(audit, key, r, previous, shown)
      BY <3>4, <3>5 DEF AlreadySettled
    <3> QED BY <1>2, <3>6 DEF shown
  <2>5. /\ n \in DOMAIN a2.executions /\ a2.executions[n].key[1] = "own"
        /\ a2.executions[n].previous = previous
        /\ a2.executions[previous].key[1] = "sample"
    BY <1>4, <1>9, <1>10, <2>1, <2>2, <2>3, <2>4 DEF n
  <2> QED BY <1>12, <2>5 DEF OfAnother, Executions
<1>13. InOrder(audit) => InOrder(audit') \/ OfAnother(audit')
  BY <1>11, <1>12 DEF a2
<1>14. AuditsLoad(audit')
  BY <1>7 DEF a2
<1>15. AtEase.at # "sampling"
  BY DEF AtEase
<1> QED BY <1>1, <1>2, <1>4, <1>13, <1>14, <1>15, StartGoes DEF n

\* What settles an execution finds it open.
LEMMA SettleExecutionGoes ==
  ASSUME AInv, Goes, NEW c \in Auditors, NEW reason, SettleExecution(c, reason)
  PROVE  Goes'
<1> DEFINE x == auditors[c]
           n == auditors[c].execution
<1>1. x.at = "fetching" /\ reason \in Outcomes(RequestOf(audit, n))
  BY DEF SettleExecution
<1>2. FrameSound(audit, x) /\ planLock = c /\ FrameGoes(audit, x)
  BY <1>1 DEF AInv, FramesSound, AtWork, Goes, FramesGo
<1>3. /\ n \in DOMAIN audit.executions
      /\ \A e \in DOMAIN audit.events : audit.events[e].execution # n
      /\ x.then = AtEase \/ IsSampling(x.then) \/ InAMatrix(x.then)
      /\ IsOpen(audit, n)
      /\ x.then.at = "sampling" =>
           ~SamplingComplete(audit) /\ n = Latest(SampleMatches(audit, SamplingRoute(audit)))
  BY <1>1, <1>2 DEF FrameSound, FrameGoes
<1>4. reason \in AuditReasons /\ reason # "none"
  <2>1. RequestOf(audit, n) \in AuditRequests
    BY <1>3, ExecutionFields DEF AInv, RequestOf, ExecutionRow
  <2> QED BY <1>1, <2>1 DEF Outcomes, AuditRequests, AuditReasons
<1>5. /\ audit' = WithSettlement(audit, n, reason)
      /\ Puts(c, IF x.then = AtEase THEN AtEase ELSE [x.then EXCEPT !.got = n])
  BY <1>3 DEF SettleExecution
<1>6. /\ InOrder(audit) => InOrder(audit')
      /\ OfAnother(audit) => OfAnother(audit')
      /\ \A r : SampleMatches(audit', r) = SampleMatches(audit, r)
      /\ SamplingComplete(audit') <=> SamplingComplete(audit)
      /\ SamplingRoute(audit') = SamplingRoute(audit)
      /\ SummariesStand(audit, audit')
  BY <1>3, <1>4, <1>5, SettledPlan DEF AInv
<1>7. PICK y : Puts(c, y) /\ FrameGoes(audit', y)
  <2>1. CASE x.then = AtEase
    <3>1. Puts(c, AtEase) /\ AtEase.at = "idle"
      BY <1>5, <2>1 DEF AtEase
    <3> QED BY <3>1, IdleGoes
  <2>2. CASE x.then # AtEase /\ IsSampling(x.then)
    <3> DEFINE y == [x.then EXCEPT !.got = n]
    <3>1. Puts(c, y)
      BY <1>5, <2>2
    <3>2. /\ y = [at |-> "sampling", continuing |-> x.then.continuing, got |-> n]
          /\ x.then.at = "sampling"
      BY <2>2 DEF IsSampling
    <3>3. y.got = n /\ y.at = "sampling"
      BY <3>2
    <3> HIDE DEF y, n
    <3>4. FrameGoes(audit', y)
      BY <1>3, <1>6, <3>2, <3>3 DEF FrameGoes
    <3> QED BY <3>1, <3>4
  <2>3. CASE x.then # AtEase /\ InAMatrix(x.then)
    <3> DEFINE y == [x.then EXCEPT !.got = n]
    <3>1. Puts(c, y)
      BY <1>5, <2>3
    <3>2. y = [at |-> "matrix", continuing |-> x.then.continuing, got |-> n,
               route |-> x.then.route, existed |-> x.then.existed, resumed |-> x.then.resumed]
      BY <2>3 DEF InAMatrix
    <3>3. y.at = "matrix"
      BY <3>2
    <3> HIDE DEF y
    <3> QED BY <3>1, <3>3, IdleGoes
  <2> QED BY <1>3, <2>1, <2>2, <2>3
<1>8. FramesGo'
  BY <1>2, <1>6, <1>7, FrameGoesOn DEF AInv, Goes
<1> QED BY <1>6, <1>8 DEF Goes

\* An open execution whose outcome is not known is closed in the same frame.
LEMMA CloseUnknownGoes ==
  ASSUME AInv, Goes, NEW c \in Auditors, planLock = c, NEW n \in DOMAIN audit.executions,
         IsOpen(audit, n), auditors[c].at \in {"sampling", "matrix"},
         audit' = WithSettlement(audit, n, "outcome_unknown"), UNCHANGED <<auditors, planLock>>
  PROVE  Goes'
<1>1. "outcome_unknown" \in AuditReasons
  BY DEF AuditReasons
<1>2. /\ InOrder(audit) => InOrder(audit')
      /\ OfAnother(audit) => OfAnother(audit')
      /\ \A r : SampleMatches(audit', r) = SampleMatches(audit, r)
      /\ SamplingComplete(audit') <=> SamplingComplete(audit)
      /\ SamplingRoute(audit') = SamplingRoute(audit)
      /\ SummariesStand(audit, audit')
  BY <1>1, SettledPlan DEF AInv
<1>3. FrameGoes(audit', auditors[c])
  <2>1. FrameGoes(audit, auditors[c])
    BY DEF Goes, FramesGo
  <2> QED BY <1>2, <2>1 DEF FrameGoes
<1>4. Puts(c, auditors[c])
  <2>1. auditors = [d \in Auditors |-> auditors[d]]
    BY DEF AInv, FramesSound
  <2>2. [auditors EXCEPT ![c] = auditors[c]] = auditors
    BY <2>1
  <2> QED BY <2>2 DEF Puts
<1>5. FramesGo'
  BY <1>2, <1>3, <1>4, FrameGoesOn DEF AInv, Goes
<1> QED BY <1>2, <1>5 DEF Goes

\* The sampling acquires the next execution of its route.
LEMMA AcquireForSampleGoes ==
  ASSUME AInv, Goes, NEW c \in Auditors, AcquireForSample(c)
  PROVE  Goes'
<1> DEFINE x == auditors[c]
           r == SamplingRoute(audit)
           S == SampleMatches(audit, r)
           last == Latest(S)
           key == <<"sample", r, Cardinality(S) + 1>>
<1>1. x.at = "sampling" /\ AnswerFor(audit, r, x.continuing, x.got) = 0
  BY DEF AcquireForSample
<1>2. FrameSound(audit, x) /\ planLock = c /\ FrameGoes(audit, x)
  BY <1>1 DEF AInv, FramesSound, AtWork, Goes, FramesGo
<1>3. IsSampling(x) /\ ~SamplingComplete(audit)
  BY <1>1, <1>2 DEF FrameSound, FrameGoes
<1>4. /\ AuditState(audit) /\ AuditsLoad(audit) /\ SamplingLoads(audit)
      /\ Len(audit.executions) \in Nat /\ DOMAIN audit.executions = 1..Len(audit.executions)
  BY ExecutionFields DEF AInv, AbstractsLoad, SamplingLoads
<1>5. /\ S \subseteq 1..Len(audit.executions) /\ Cardinality(S) \in Nat
      /\ Cardinality(S) = 0 <=> S = {}
  BY <1>4, MatchesArePositions
<1>6. r \in Sampled /\ r \in AuditRequests /\ (r = "feed" => audit.feed = 0)
  BY DEF SamplingRoute, Sampled, AuditRequests
<1>7. key \in AuditKeys /\ key # <<"matrix", "publisher", 0>>
      /\ key[1] = "sample" /\ key[2] = r /\ key[3] = Cardinality(S) + 1
  BY <1>5, <1>6 DEF AuditKeys
<1>8. CASE Lost(audit, last)
  <2>1. last \in 0..Len(audit.executions)
    <3> HIDE DEF S
    <3> QED BY <1>4, <1>5, LatestIsOne
  <2>2. last \in DOMAIN audit.executions /\ IsOpen(audit, last)
    BY <1>4, <1>8, <2>1 DEF Lost
  <2>3. /\ audit' = WithSettlement(audit, last, "outcome_unknown")
        /\ UNCHANGED <<auditors, planLock>>
    BY <1>8 DEF AcquireForSample
  <2> HIDE DEF last
  <2> QED BY <1>1, <1>2, <2>2, <2>3, CloseUnknownGoes
<1>9. CASE ~Lost(audit, last)
  <2>1. StartExecution(c, key, r, last, x)
    BY <1>9 DEF AcquireForSample
  <2>2. last \in 0..Len(audit.executions) /\ last \in {0} \cup S
    <3> HIDE DEF S
    <3> QED BY <1>4, <1>5, LatestIsOne
  <2>3. ~AlreadySettled(audit, key, r, last, ShownFor(audit, r))
    <3> DEFINE shown == ShownFor(audit, r)
    <3>1. SelectedBy(audit) = {}
      BY <1>3, <1>4, NothingSelected
    <3>2. shown.acquisition = 0
      BY <3>1 DEF ShownFor
    <3>3. ~AuditComplete(audit)
      BY <1>3 DEF AuditComplete
    <3> HIDE DEF shown, key, last, r
    <3>4. ~AlreadySettled(audit, key, r, last, shown)
      BY <1>6, <3>2, <3>3 DEF AlreadySettled
    <3> QED BY <3>4 DEF shown
  <2>4. ASSUME InOrder(audit)
        PROVE  MayFollow(audit, r, last) /\ KeyLoads(audit, key, r, last)
    <3>1. CASE S = {}
      <4>1. last = 0 /\ key[3] = 1
        BY <1>5, <1>7, <2>2, <3>1
      <4> HIDE DEF key, last
      <4> QED BY <1>7, <4>1 DEF MayFollow, KeyLoads
    <3>2. CASE S # {}
      <4>1. /\ last # 0 /\ RequestOf(audit, last) = r
            /\ audit.executions[last].key = <<"sample", r, Cardinality(S)>>
            /\ Continuations(audit, last) = {}
        BY <1>4, <1>6, <2>4, <3>2, LastSample
      <4>2. ~IsOpen(audit, last)
        BY <1>9, <4>1 DEF Lost
      <4>3. r = "feed" \/ CanContinue(audit, last)
        BY <1>1, <3>2, <4>1 DEF AnswerFor
      <4>4. key[3] # 1 /\ key[3] - 1 = Cardinality(S)
        BY <1>5, <1>7, <3>2
      <4>5. MayFollow(audit, r, last)
        BY <4>1, <4>2 DEF MayFollow
      <4> HIDE DEF key, last, S
      <4>6. KeyLoads(audit, key, r, last)
        BY <1>7, <4>1, <4>3, <4>4 DEF KeyLoads
      <4> QED BY <4>5, <4>6
    <3> QED BY <3>1, <3>2
  <2> DEFINE a2 == WithExecution(audit, key, r, last)
  <2>5. ASSUME AuditState(a2), AuditsLoad(a2)
        PROVE  /\ InOrder(audit) => InOrder(a2)
               /\ ~SamplingComplete(a2)
               /\ Latest(SampleMatches(a2, SamplingRoute(a2))) = Len(audit.executions) + 1
    <3> DEFINE b == a2  q == r  k == key  p == last
    <3>1. /\ b = WithExecution(audit, k, q, p) /\ q = SamplingRoute(audit) /\ q \in Sampled
          /\ k = <<"sample", q, Cardinality(SampleMatches(audit, q)) + 1>> /\ k \in AuditKeys
          /\ p = Latest(SampleMatches(audit, q)) /\ AuditState(b) /\ AuditsLoad(b)
      BY <1>6, <1>7, <2>5
    <3> HIDE DEF b, q, k, p
    <3>2. /\ InOrder(audit) => InOrder(b)
          /\ Latest(SampleMatches(b, q)) = Len(audit.executions) + 1
          /\ SamplingRoute(b) = q /\ (SamplingComplete(b) <=> SamplingComplete(audit))
      BY <1>4, <3>1, SampleInOrder
    <3>3. /\ InOrder(audit) => InOrder(b)
          /\ ~SamplingComplete(b)
          /\ Latest(SampleMatches(b, SamplingRoute(b))) = Len(audit.executions) + 1
      BY <1>3, <3>2
    <3> QED BY <3>3 DEF b
  <2>a. a2 = WithExecution(audit, key, r, last)
    OBVIOUS
  <2> HIDE DEF a2, key, last, r, x
  <2> QED BY <1>2, <1>6, <1>7, <2>1, <2>2, <2>3, <2>4, <2>5, <2>a, StartExecutionGoes
<1> QED BY <1>8, <1>9

\* The choice is recorded before every row and every summary.
LEMMA RecordSampleGoes ==
  ASSUME AInv, Goes, AInv', NEW c \in Auditors, RecordSample(c)
  PROVE  Goes'
<1> DEFINE x == auditors[c]
           r == SamplingRoute(audit)
           n == AnswerFor(audit, r, x.continuing, x.got)
<1>1. x.at = "sampling" /\ n # 0 /\ SamplingLoads(audit')
  BY DEF RecordSample
<1>2. FrameSound(audit, x) /\ planLock = c /\ FrameGoes(audit, x)
  BY <1>1 DEF AInv, FramesSound, AtWork, Goes, FramesGo
<1>3. /\ x.got \in 0..Len(audit.executions) /\ ~SamplingComplete(audit)
      /\ x.got # 0 => x.got = Latest(SampleMatches(audit, r))
  BY <1>1, <1>2 DEF FrameSound, FrameGoes
<1>4. AuditState(audit) /\ AbstractsLoad(audit) /\ AuditsLoad(audit) /\ SamplingLoads(audit)
      /\ AuditState(audit')
  BY DEF AInv, AbstractsLoad, SamplingLoads
<1>5. r \in Sampled /\ (r = "feed" => audit.feed = 0)
  BY DEF SamplingRoute, Sampled
<1>6. /\ n \in DOMAIN audit.executions /\ RequestOf(audit, n) = r
      /\ r = "feed" => SampleMatches(audit, r) # {} /\ n = Latest(SampleMatches(audit, r))
  <2> DEFINE got == x.got  continuing == x.continuing  m == n  q == r
  <2>1. m = AnswerFor(audit, q, continuing, got) /\ m # 0 /\ q \in Sampled
        /\ got \in 0..Len(audit.executions) /\ (got # 0 => got = Latest(SampleMatches(audit, q)))
    BY <1>1, <1>3, <1>5
  <2> HIDE DEF got, continuing, m, q
  <2>2. /\ m \in DOMAIN audit.executions /\ RequestOf(audit, m) = q
        /\ q = "feed" => SampleMatches(audit, q) # {} /\ m = Latest(SampleMatches(audit, q))
    BY <1>4, <2>1, AnswerOfRoute
  <2> QED BY <2>2 DEF m, q
<1>7. SummariesStand(audit, audit')
  <2>1. \A b : ~SummaryLoads(audit, b)
    BY <1>3, <1>4, SummaryIsOfComplete
  <2> QED BY <2>1 DEF SummariesStand
<1>8. CASE r = "feed" /\ ReasonOf(audit, n) = "acquired"
  <2>1. audit' = [audit EXCEPT !.feed = n] /\ Puts(c, Sampling(x.continuing))
    BY <1>8 DEF RecordSample
  <2>2. audit'.executions = audit.executions /\ audit'.events = audit.events
    BY <1>4, <2>1 DEF AuditState
  <2>3. OfAnother(audit) => OfAnother(audit')
    BY <2>2 DEF OfAnother, Executions
  <2>4. InOrder(audit) => InOrder(audit')
    <3> DEFINE a2 == audit'
    <3>1. a2 = [audit EXCEPT !.feed = n] /\ AuditState(a2) /\ SamplingLoads(a2)
      BY <1>1, <1>4, <2>1
    <3>2. SampleMatches(audit, "feed") # {} /\ n = Latest(SampleMatches(audit, "feed"))
      BY <1>6, <1>8
    <3> HIDE DEF a2, n
    <3>3. InOrder(audit) => InOrder(a2)
      BY <1>3, <1>4, <3>1, <3>2, FeedInOrder
    <3> QED BY <3>3 DEF a2
  <2>5. ~SamplingComplete(audit')
    <3>1. Finals(audit) = {}
      BY <1>3, <1>4, NothingSelected
    <3>2. Finals(audit') = {}
      BY <2>2, <3>1 DEF Finals
    <3> QED BY <3>2 DEF SamplingComplete
  <2> DEFINE y == Sampling(x.continuing)
  <2>6. y.at = "sampling" /\ y.got = 0
    BY DEF Sampling
  <2>7. Puts(c, y)
    BY <2>1
  <2> HIDE DEF y
  <2>8. FrameGoes(audit', y)
    BY <2>5, <2>6 DEF FrameGoes
  <2>9. FramesGo'
    BY <1>2, <1>7, <2>3, <2>7, <2>8, FrameGoesOn DEF AInv, Goes
  <2> QED BY <2>3, <2>4, <2>9 DEF Goes
<1>9. CASE ~(r = "feed" /\ ReasonOf(audit, n) = "acquired")
  <2>1. audit' = WithEvent(audit, r, n) /\ ToRoute(c, audit', x.continuing, 1)
    BY <1>9 DEF RecordSample
  <2> DEFINE a2 == audit'
  <2>2. a2 = WithEvent(audit, r, n) /\ AuditState(a2) /\ SamplingLoads(a2)
        /\ ToRoute(c, a2, x.continuing, 1)
    BY <1>1, <1>4, <2>1
  <2> HIDE DEF a2, n, r
  <2>3. a2.executions = audit.executions
    BY <1>4, <2>2, AddedEvent
  <2>4. OfAnother(audit) => OfAnother(a2)
    BY <2>3 DEF OfAnother, Executions
  <2>5. InOrder(audit) => InOrder(a2)
    BY <1>3, <1>4, <2>2, EventInOrder
  <2>6. PICK y : Puts(c, y) /\ y.at \in {"idle", "start", "matrix"}
    BY <2>2, ToRouteIdle
  <2>7. FrameGoes(audit', y)
    BY <2>6, IdleGoes
  <2>8. FramesGo'
    BY <1>2, <1>7, <2>4, <2>6, <2>7, FrameGoesOn DEF AInv, Goes, a2
  <2> QED BY <2>4, <2>5, <2>8 DEF Goes, a2
<1> QED BY <1>8, <1>9

\* The loader takes every choice of a sampling that goes on.
LEMMA RefuseSampleNever ==
  ASSUME AInv, Goes, NEW c \in Auditors, RefuseSample(c)
  PROVE  FALSE
<1> DEFINE x == auditors[c]
           r == SamplingRoute(audit)
           n == AnswerFor(audit, r, x.continuing, x.got)
<1>1. /\ x.at = "sampling" /\ n # 0
      /\ ~SamplingLoads(IF r = "feed" /\ ReasonOf(audit, n) = "acquired"
                        THEN [audit EXCEPT !.feed = n] ELSE WithEvent(audit, r, n))
  BY DEF RefuseSample
<1>2. FrameSound(audit, x) /\ FrameGoes(audit, x)
  BY <1>1 DEF AInv, FramesSound, AtWork, Goes, FramesGo
<1>3. /\ x.got \in 0..Len(audit.executions) /\ ~SamplingComplete(audit)
      /\ x.got # 0 => x.got = Latest(SampleMatches(audit, r))
  BY <1>1, <1>2 DEF FrameSound, FrameGoes
<1>4. AuditState(audit) /\ SamplingLoads(audit)
  BY DEF AInv, AbstractsLoad
<1>5. r \in Sampled /\ r = SamplingRoute(audit)
  BY DEF SamplingRoute, Sampled
<1> DEFINE got == x.got  continuing == x.continuing
<1>6. n = AnswerFor(audit, r, continuing, got) /\ got \in 0..Len(audit.executions)
      /\ (got # 0 => got = Latest(SampleMatches(audit, r)))
  BY <1>3
<1> HIDE DEF got, continuing, n, r
<1>7. n \in DOMAIN audit.executions /\ RequestOf(audit, n) = r
  BY <1>1, <1>4, <1>5, <1>6, AnswerOfRoute
<1>8. /\ r = "feed" /\ ReasonOf(audit, n) = "acquired" => SamplingLoads([audit EXCEPT !.feed = n])
      /\ SamplingLoads(WithEvent(audit, r, n))
  BY <1>3, <1>4, <1>5, <1>7, ChoiceLoads
<1> QED BY <1>1, <1>8

\* A run or a resume begins.
LEMMA EnterGoes ==
  ASSUME AInv, Goes, NEW c \in Auditors, NEW continuing, Enter(c, continuing)
  PROVE  Goes'
<1> DEFINE x == [at |-> "start", continuing |-> continuing]
<1>1. Puts(c, x) /\ audit' = audit /\ x.at = "start"
  BY DEF Enter
<1> HIDE DEF x
<1> QED BY <1>1, IdleGoes, PlanRests

\* A sampling begins that is not complete, or the matrix.
LEMMA StartSamplingGoes ==
  ASSUME AInv, Goes, NEW c \in Auditors, StartSampling(c)
  PROVE  Goes'
<1> DEFINE x == auditors[c]
<1>1. audit' = audit
  BY DEF StartSampling
<1>2. CASE Skips(audit, x.continuing)
  <2>1. ToRoute(c, audit, x.continuing, 1)
    BY <1>2 DEF StartSampling
  <2>2. PICK y : Puts(c, y) /\ y.at \in {"idle", "start", "matrix"}
    BY <2>1, ToRouteIdle
  <2> QED BY <1>1, <2>2, IdleGoes, PlanRests
<1>3. CASE ~Skips(audit, x.continuing)
  <2> DEFINE y == Sampling(x.continuing)
  <2>1. Puts(c, y) /\ y.at = "sampling" /\ y.got = 0 /\ ~SamplingComplete(audit)
    BY <1>3 DEF StartSampling, Sampling, Skips
  <2> HIDE DEF y
  <2>2. FrameGoes(audit, y)
    BY <2>1 DEF FrameGoes
  <2> QED BY <1>1, <2>1, <2>2, PlanRests
<1> QED BY <1>2, <1>3

\* A process stops.
LEMMA StopAuditorGoes ==
  ASSUME AInv, Goes, NEW c \in Auditors, StopAuditor(c)
  PROVE  Goes'
<1>1. Puts(c, AtEase) /\ audit' = audit /\ AtEase.at = "idle"
  BY DEF StopAuditor, AtEase
<1>2. FrameGoes(audit, AtEase)
  BY <1>1, IdleGoes
<1> QED BY <1>1, <1>2, PlanRests

\* A summary that is captured is found on the plan it is captured of.
LEMMA CapturedLoads ==
  ASSUME NEW a, AuditState(a), AuditComplete(a)
  PROVE  SummaryLoads(a, Boundary(a))
<1> DEFINE b == Boundary(a)  past == Truncated(a, b)
<1>1. /\ b.executions = a.executions /\ b.rows = Len(a.rows) /\ b.feed = a.feed
      /\ b.events = Len(a.events) /\ b.shown = Matrix(a)
  BY DEF Boundary
<1>2. Len(a.executions) \in Nat /\ Len(a.rows) \in Nat /\ a.rows \in Seq(MatrixRow)
  BY ExecutionFields, LenProperties DEF AuditState
<1>3. /\ past.executions = PastExecutions(a.executions, b) /\ past.feed = a.feed
      /\ past.events = a.events /\ past.rows = SubSeq(a.rows, 1, b.rows)
  BY TruncatedFields
<1> HIDE DEF b, past
<1>4. PastExecutions(a.executions, b) = a.executions
  <2>1. \A n \in DOMAIN a.executions : a.executions[n] \in ExecutionRow
    BY ExecutionFields
  <2>2. \A n \in DOMAIN a.executions :
          a.executions[n].reason = "none" =>
            [a.executions[n] EXCEPT !.reason = "none"] = a.executions[n]
    BY <2>1 DEF ExecutionRow
  <2>3. a.executions = [n \in DOMAIN a.executions |-> a.executions[n]]
    BY DEF AuditState
  <2>4. PastExecutions(a.executions, b) = [n \in DOMAIN a.executions |-> a.executions[n]]
    BY <1>1, <2>2 DEF PastExecutions
  <2> QED BY <2>3, <2>4
<1>5. SubSeq(a.rows, 1, b.rows) = a.rows
  <2> DEFINE s == a.rows  m == Len(s)
  <2>1. s \in Seq(MatrixRow) /\ m \in Nat /\ \A i \in 1..m : s[i] \in MatrixRow
    BY <1>2, ElementOfSeq
  <2>2. /\ SubSeq(s, 1, m) \in Seq(MatrixRow) /\ Len(SubSeq(s, 1, m)) = m
        /\ \A i \in 1..m : SubSeq(s, 1, m)[i] = s[i]
    BY <2>1, SubSeqProperties
  <2>3. SubSeq(s, 1, m) = s
    BY <2>1, <2>2, SeqEqual
  <2> QED BY <1>1, <2>3
<1>6. Matrix(past) = Matrix(a) /\ (AuditComplete(past) <=> AuditComplete(a))
  BY <1>3, <1>4, <1>5, ViewsAgree
<1>7. past.executions = b.executions /\ AuditComplete(past) /\ Matrix(past) = b.shown
  BY <1>1, <1>3, <1>4, <1>6
<1>8. b.rows <= Len(a.rows) /\ Len(b.executions) <= Len(a.executions)
  BY <1>1, <1>2
<1>9. \E p \in {Truncated(a, b)} : p.executions = b.executions /\ AuditComplete(p) /\ Matrix(p) = b.shown
  BY <1>7 DEF past
<1>10. SummaryLoads(a, b)
  BY <1>1, <1>8, <1>9 DEF SummaryLoads
<1> QED BY <1>10 DEF b

\* A summary is captured of a complete audit.
LEMMA CaptureSummaryGoes ==
  ASSUME AInv, Goes, NEW c \in Auditors, CaptureSummary(c)
  PROVE  Goes'
<1> DEFINE x == [at |-> "captured", boundary |-> Boundary(audit)]
<1>1. /\ Puts(c, x) /\ audit' = audit /\ AuditComplete(audit)
      /\ x.at = "captured" /\ x.boundary = Boundary(audit)
  BY DEF CaptureSummary
<1> HIDE DEF x
<1>2. FrameGoes(audit, x)
  BY <1>1, CapturedLoads DEF FrameGoes, AInv
<1> QED BY <1>1, <1>2, PlanRests

\* A declaration finds the summary that was captured.
LEMMA RegisterDeclarationGoes ==
  ASSUME AInv, Goes, NEW c \in Auditors, RegisterDeclaration(c)
  PROVE  Goes'
<1> DEFINE b == auditors[c].boundary
<1>1. auditors[c].at = "captured"
  BY DEF RegisterDeclaration
<1>2. IsBoundary(b) /\ SummaryLoads(audit, b)
  BY <1>1 DEF AInv, FramesSound, FrameSound, Goes, FramesGo, FrameGoes
<1>3. audit' = [audit EXCEPT !.summaries = @ \cup {b}] /\ Puts(c, AtEase)
  BY <1>2 DEF RegisterDeclaration
<1> DEFINE a2 == audit'
<1>4. a2 = [audit EXCEPT !.summaries = @ \cup {b}]
  BY <1>3
<1> HIDE DEF b, a2
<1>5. /\ a2.executions = audit.executions /\ a2.events = audit.events /\ a2.feed = audit.feed
      /\ a2.rows = audit.rows
  BY <1>4 DEF AInv, AuditState
<1>6. SummariesStand(audit, a2)
  BY <1>2, <1>4, SummaryAdded DEF AInv
<1>7. SelectedBy(a2) = SelectedBy(audit)
      /\ (\A r \in AuditRequests : Root(a2, r) = Root(audit, r) /\ Chain(a2, r) = Chain(audit, r))
  BY <1>5, RowsApart
<1>8. InOrder(audit) => InOrder(a2)
  <2>1. \A r : SampleMatches(a2, r) = SampleMatches(audit, r)
    BY <1>5 DEF SampleMatches, Executions, RequestOf
  <2>2. SamplesCounted(audit) => SamplesCounted(a2)
    BY <1>5, <2>1 DEF SamplesCounted
  <2>3. FeedStands(audit) => FeedStands(a2)
    BY <1>5 DEF FeedStands, Continuations, Executions
  <2>4. ASSUME NEW k, KeyFits(audit, k) PROVE KeyFits(a2, k)
    <3>1. Root(a2, "publisher") = Root(audit, "publisher")
      BY <1>7 DEF AuditRequests
    <3> QED BY <1>5, <1>7, <2>4, <3>1 DEF KeyFits
  <2>5. ASSUME NEW r \in AuditRequests, RowsRead(audit, r) PROVE RowsRead(a2, r)
    <3>1. RowsOf(a2, r) = RowsOf(audit, r) /\ Interpreted(a2, r) = Interpreted(audit, r)
      BY <1>5 DEF RowsOf, Interpreted
    <3> QED BY <1>5, <1>7, <2>5, <3>1 DEF RowsRead
  <2>6. Executions(a2) = Executions(audit)
    BY <1>5 DEF Executions
  <2> QED BY <1>7, <2>2, <2>3, <2>4, <2>5, <2>6 DEF InOrder
<1>9. OfAnother(audit) => OfAnother(a2)
  BY <1>5 DEF OfAnother, Executions
<1>10. FrameGoes(audit', AtEase)
  <2>1. AtEase.at = "idle"
    BY DEF AtEase
  <2> QED BY <2>1, IdleGoes
<1>11. FramesGo'
  BY <1>3, <1>5, <1>6, <1>10, FrameGoesRest DEF AInv, Goes, a2
<1> QED BY <1>8, <1>9, <1>11 DEF Goes, a2

\* What a route of the matrix may do next.
RouteGoes(c, r, chain, waiting) ==
  LET x == auditors[c]  first == chain[Min(waiting)] IN
  \/ /\ chain = <<>> /\ StartExecution(c, <<"matrix", r, 0>>, r, 0, x)
  \/ /\ waiting # {} /\ IsOpen(audit, first) /\ x.continuing
     /\ audit' = WithSettlement(audit, first, "outcome_unknown")
     /\ UNCHANGED <<auditors, planLock>>
  \/ /\ waiting # {} /\ ~IsOpen(audit, first)
     /\ IF AbstractsLoad(WithRow(audit, r, first))
        THEN /\ audit' = WithRow(audit, r, first)
             /\ UNCHANGED <<auditors, planLock>>
        ELSE Refused(c, r, first)
  \/ /\ chain # <<>> /\ waiting = {}
     /\ x.continuing /\ x.existed /\ ~x.resumed /\ CanContinue(audit, Last(chain))
     /\ StartExecution(c, <<"matrix", r, Len(chain)>>, r, Last(chain), [x EXCEPT !.resumed = TRUE])
  \/ /\ chain # <<>>
     /\ \/ waiting # {} /\ IsOpen(audit, first) /\ ~x.continuing
        \/ /\ waiting = {}
           /\ ~(x.continuing /\ x.existed /\ ~x.resumed /\ CanContinue(audit, Last(chain)))
     /\ ToRoute(c, audit, x.continuing, x.route + 1)
     /\ UNCHANGED audit

\* The step of the matrix is the turn of one route, with its chain and what waits there.
LEMMA RouteOfMatrix ==
  ASSUME NEW c \in Auditors, FillMatrix(c)
  PROVE  LET r == AuditRoutes[auditors[c].route] IN
         RouteGoes(c, r, Chain(audit, r), ToInterpret(audit, r))
<1> DEFINE r == AuditRoutes[auditors[c].route]
           chain == Chain(audit, r)
           waiting == ToInterpret(audit, r)
<1>1. \E ch \in {chain}, w \in {waiting} : RouteGoes(c, r, ch, w)
  BY DEF FillMatrix, RouteGoes
<1> HIDE DEF chain, waiting, r
<1>2. RouteGoes(c, r, chain, waiting)
  BY <1>1
<1> QED BY <1>2 DEF chain, waiting, r

\* Only the page of the publisher is acquired by the matrix: the feed and the
\* agency were answered by the sampling.
LEMMA FirstExecutionGoes ==
  ASSUME AInv, Goes, NEW c \in Auditors, planLock = c, SelectedBy(audit) # {},
         NEW r \in AuditRequests, Chain(audit, r) = <<>>, NEW y, y.at = "matrix",
         NEW key \in AuditKeys, key = <<"matrix", r, 0>>,
         StartExecution(c, key, r, 0, y)
  PROVE  Goes'
<1>1. /\ AuditState(audit) /\ AuditsLoad(audit) /\ SamplingLoads(audit)
      /\ Len(audit.executions) \in Nat
  BY ExecutionFields DEF AInv, AbstractsLoad, SamplingLoads
<1>2. Root(audit, r) = 0
  BY <1>1, ChainOfRoute
<1>3. key[1] = "matrix" /\ key[2] = r /\ key[3] = 0
  OBVIOUS
<1>4. key = <<"matrix", "publisher", 0>> => Root(audit, "publisher") = 0
  <2>1. key = <<"matrix", "publisher", 0>> => r = "publisher"
    BY <1>3
  <2> QED BY <1>2, <2>1
<1>5. InOrder(audit) => r = "publisher"
  BY <1>1, <1>2, RootOfRoute
<1>6. ASSUME InOrder(audit)
      PROVE  /\ ~AlreadySettled(audit, key, r, 0, ShownFor(audit, r))
             /\ MayFollow(audit, r, 0) /\ KeyLoads(audit, key, r, 0)
  <2> DEFINE shown == ShownFor(audit, r)
  <2>1. shown = ShownRow(audit, r)
    BY DEF ShownFor
  <2>2. ShownRow(audit, r).acquisition = 0 /\ ShownRow(audit, r).pending
    BY <1>1, <1>6, RowShown
  <2>3. ~AuditComplete(audit)
    <3>1. Matrix(audit) = [i \in DOMAIN AuditRoutes |-> ShownRow(audit, AuditRoutes[i])]
      BY DEF Matrix
    <3>2. 3 \in DOMAIN AuditRoutes /\ AuditRoutes[3] = r
      BY <1>5, <1>6 DEF AuditRoutes
    <3>3. 3 \in DOMAIN Matrix(audit) /\ Matrix(audit)[3] = ShownRow(audit, r)
      BY <3>1, <3>2
    <3>4. Matrix(audit)[3].pending
      BY <2>2, <3>3
    <3> QED BY <3>3, <3>4 DEF AuditComplete
  <2>4. shown.acquisition = 0 /\ r # "feed"
    BY <1>5, <1>6, <2>1, <2>2
  <2> HIDE DEF shown
  <2>5. ~AlreadySettled(audit, key, r, 0, shown)
    BY <2>3, <2>4 DEF AlreadySettled
  <2>6. MayFollow(audit, r, 0) /\ KeyLoads(audit, key, r, 0)
    BY <1>3 DEF MayFollow, KeyLoads
  <2> QED BY <2>5, <2>6 DEF shown
<1> DEFINE a2 == WithExecution(audit, key, r, 0)
<1>a. a2 = WithExecution(audit, key, r, 0)
  OBVIOUS
<1> HIDE DEF a2
<1>b. 0 \in 0..Len(audit.executions)
  BY <1>1
<1>7. ASSUME AuditState(a2), AuditsLoad(a2), InOrder(audit) PROVE InOrder(a2)
  <2> DEFINE n == Len(audit.executions) + 1
  <2>1. r = "publisher" /\ key = <<"matrix", "publisher", 0>>
    BY <1>5, <1>7
  <2>2. /\ a2.executions[n].key = key /\ a2.executions[n].request = r
        /\ a2.executions[n].previous = 0
        /\ a2.events = audit.events
        /\ key = <<"matrix", "publisher", 0>> => Root(a2, "publisher") # 0
    BY <1>1, <1>a, <1>b, AddedExecution
  <2>3. SelectedBy(a2) # {}
    BY <2>2 DEF SelectedBy
  <2> HIDE DEF n
  <2>4. KeyFits(a2, n)
    BY <1>3, <2>1, <2>2, <2>3 DEF KeyFits
  <2>5. key[1] # "sample" /\ (audit.feed # 0 => 0 # audit.feed)
    BY <1>3
  <2> QED BY <1>1, <1>4, <1>7, <1>a, <1>b, <2>4, <2>5, OtherInOrder DEF n
<1> QED BY <1>4, <1>6, <1>7, <1>a, <1>b, StartExecutionGoes

\* What waits for nothing has been interpreted, and is continued once.
LEMMA NextExecutionGoes ==
  ASSUME AInv, Goes, NEW c \in Auditors, planLock = c, SelectedBy(audit) # {},
         NEW r \in AuditRequests, Chain(audit, r) # <<>>, ToInterpret(audit, r) = {},
         NEW previous, previous = Last(Chain(audit, r)), CanContinue(audit, previous),
         NEW y, y.at = "matrix",
         NEW key \in AuditKeys, key = <<"matrix", r, Len(Chain(audit, r))>>,
         StartExecution(c, key, r, previous, y)
  PROVE  Goes'
<1> DEFINE chain == Chain(audit, r)  m == Len(chain)
<1>1. /\ AuditState(audit) /\ AbstractsLoad(audit) /\ AuditsLoad(audit) /\ SamplingLoads(audit)
      /\ Len(audit.executions) \in Nat /\ DOMAIN audit.executions = 1..Len(audit.executions)
  BY ExecutionFields DEF AInv, AbstractsLoad, SamplingLoads
<1>2. chain \in Seq(DOMAIN audit.executions) /\ chain # <<>> /\ previous = Last(chain)
  BY <1>1, ChainOfRoute
<1>3. key[1] = "matrix" /\ key[2] = r /\ key[3] = m /\ key = <<"matrix", r, m>>
  OBVIOUS
<1>c. ASSUME InOrder(audit)
      PROVE  /\ IsChain(audit, Root(audit, r), chain)
             /\ \A i \in 1..m : /\ RequestOf(audit, chain[i]) = r
                                /\ r = "publisher" =>
                                     audit.executions[chain[i]].key = <<"matrix", "publisher", i - 1>>
             /\ r # "publisher" => m = 1 /\ chain[1] = Root(audit, r)
  BY <1>1, <1>c, ChainInOrder
<1> HIDE DEF chain, m
<1>a. m = Len(chain) /\ chain = Chain(audit, r)
  BY DEF m, chain
<1>4. m \in Nat /\ m # 0 /\ m \in 1..m /\ previous = chain[m]
  BY <1>2, <1>a, LenProperties, EmptySeq DEF Last
<1>5. previous \in DOMAIN audit.executions /\ previous \in 0..Len(audit.executions) /\ previous # 0
  <2>1. previous \in DOMAIN audit.executions
    BY <1>2, <1>4, <1>a, ElementOfSeq
  <2> QED BY <1>1, <2>1
<1>6. key # <<"matrix", "publisher", 0>>
  BY <1>3, <1>4
<1>7. ASSUME InOrder(audit)
      PROVE  /\ r = "publisher" /\ Root(audit, "publisher") # 0
             /\ audit.executions[previous].key = <<"matrix", "publisher", m - 1>>
             /\ RequestOf(audit, previous) = r /\ Continuations(audit, previous) = {}
             /\ ~IsOpen(audit, previous)
             /\ ShownRow(audit, r).acquisition = previous /\ ShownRow(audit, r).generation = m
  <2>1. /\ IsChain(audit, Root(audit, r), chain)
        /\ \A i \in 1..m : /\ RequestOf(audit, chain[i]) = r
                           /\ r = "publisher" =>
                                audit.executions[chain[i]].key = <<"matrix", "publisher", i - 1>>
        /\ r # "publisher" => m = 1 /\ chain[1] = Root(audit, r)
    BY <1>7, <1>c
  <2>2. r = "publisher"
    <3> SUFFICES ASSUME r # "publisher" PROVE FALSE
      OBVIOUS
    <3>1. previous = Root(audit, r)
      BY <1>4, <2>1
    <3>2. ReasonOf(audit, previous) = "acquired"
      BY <1>1, <1>7, <3>1, RootOfRoute
    <3> QED BY <3>2 DEF CanContinue
  <2>3. Root(audit, r) # 0 /\ Continuations(audit, previous) = {}
    <3>1. (Root(audit, r) = 0 <=> chain = <<>>)
      BY <2>1 DEF IsChain
    <3>2. \A i \in 1..m : IF i = m THEN Continuations(audit, chain[i]) = {}
                          ELSE chain[i + 1] \in Continuations(audit, chain[i])
      BY <1>a, <2>1 DEF IsChain
    <3> QED BY <1>2, <1>4, <3>1, <3>2
  <2>4. ShownRow(audit, r).acquisition = previous /\ ShownRow(audit, r).generation = m
    BY <1>1, <1>2, <1>7, <1>a, RowShown
  <2>5. ~IsOpen(audit, previous)
    <3>1. m \in DOMAIN chain
      BY <1>2, <1>4, <1>a, LenProperties
    <3>2. previous \in Interpreted(audit, r)
      BY <1>4, <1>a, <3>1 DEF ToInterpret
    <3>3. PICK k \in RowsOf(audit, r) : audit.rows[k].acquisition = previous
      BY <3>2 DEF Interpreted
    <3>4. RowAccepted(audit, k)
      BY <1>1 DEF AbstractsLoad, RowsOf
    <3> QED BY <3>3, <3>4 DEF RowAccepted
  <2>6. RequestOf(audit, previous) = r
        /\ audit.executions[previous].key = <<"matrix", "publisher", m - 1>>
    BY <1>4, <2>1, <2>2
  <2> QED BY <2>2, <2>3, <2>4, <2>5, <2>6
<1>8. ASSUME InOrder(audit)
      PROVE  /\ ~AlreadySettled(audit, key, r, previous, ShownFor(audit, r))
             /\ MayFollow(audit, r, previous) /\ KeyLoads(audit, key, r, previous)
  <2> DEFINE shown == ShownFor(audit, r)
  <2>1. shown.acquisition = previous /\ shown.generation = m
    BY <1>7, <1>8 DEF ShownFor
  <2> HIDE DEF shown
  <2>2. ~AlreadySettled(audit, key, r, previous, shown)
    BY <1>3, <1>5, <2>1 DEF AlreadySettled
  <2>3. MayFollow(audit, r, previous)
    BY <1>7, <1>8 DEF MayFollow
  <2>4. KeyLoads(audit, key, r, previous)
    BY <1>3, <1>5, <1>7, <1>8 DEF KeyLoads
  <2> QED BY <2>2, <2>3, <2>4 DEF shown
<1> DEFINE a2 == WithExecution(audit, key, r, previous)
<1>b. a2 = WithExecution(audit, key, r, previous)
  OBVIOUS
<1> HIDE DEF a2
<1>9. ASSUME AuditState(a2), AuditsLoad(a2), InOrder(audit) PROVE InOrder(a2)
  <2> DEFINE n == Len(audit.executions) + 1
  <2>0. /\ AuditState(audit) /\ key \in AuditKeys /\ r \in AuditRequests
        /\ previous \in 0..Len(audit.executions) /\ a2 = WithExecution(audit, key, r, previous)
    BY <1>1, <1>5, <1>b
  <2>a. /\ a2.executions[n].key = key /\ a2.executions[n].request = r
        /\ a2.executions[n].previous = previous
        /\ \A k \in DOMAIN audit.executions : a2.executions[k] = audit.executions[k]
        /\ a2.events = audit.events
    BY ONLY <2>0, AddedExecution
  <2>1. /\ a2.executions[n].key = key /\ a2.executions[n].request = r
        /\ a2.executions[n].previous = previous
        /\ a2.executions[previous] = audit.executions[previous]
        /\ a2.events = audit.events
    BY <1>5, <2>a
  <2>2. Root(a2, "publisher") = Root(audit, "publisher")
    <3>1. \A q \in AuditRequests :
            (q = "publisher" => key # <<"matrix", "publisher", 0>>) => Root(a2, q) = Root(audit, q)
      BY <1>1, <1>5, <1>b, AddedExecution
    <3> QED BY <1>6, <3>1 DEF AuditRequests
  <2>3. SelectedBy(a2) # {}
    BY <2>1 DEF SelectedBy
  <2> HIDE DEF n
  <2>4. KeyFits(a2, n)
    BY <1>3, <1>4, <1>5, <1>7, <1>9, <2>1, <2>2, <2>3 DEF KeyFits
  <2>5. key[1] # "sample"
    BY <1>3
  <2>6. audit.feed # 0 => previous # audit.feed
    <3>1. audit.feed # 0 => RequestOf(audit, audit.feed) = "feed"
      BY <1>1 DEF SamplingLoads
    <3> QED BY <1>7, <1>9, <3>1
  <2> QED BY <1>1, <1>5, <1>6, <1>9, <1>b, <2>4, <2>5, <2>6, OtherInOrder DEF n
<1> QED BY <1>5, <1>6, <1>8, <1>9, <1>b, StartExecutionGoes

\* A route of the matrix is acquired, closed, interpreted, continued or left, and
\* never refused while the plan is in order.
LEMMA FillMatrixGoes ==
  ASSUME AInv, Goes, NEW c \in Auditors, FillMatrix(c)
  PROVE  Goes'
<1> DEFINE x == auditors[c]
           r == AuditRoutes[x.route]
           chain == Chain(audit, r)
           waiting == ToInterpret(audit, r)
           first == chain[Min(waiting)]
<1>1. x.at = "matrix"
  BY DEF FillMatrix
<1>2. FrameSound(audit, x) /\ planLock = c /\ FrameGoes(audit, x)
  BY <1>1 DEF AInv, FramesSound, AtWork, Goes, FramesGo
<1>3. InAMatrix(x) /\ x.route \in 1..3 /\ SelectedBy(audit) # {}
  BY <1>1, <1>2 DEF FrameSound, InAMatrix
<1>4. r \in AuditRequests
  BY <1>3 DEF AuditRoutes, AuditRequests
<1>5. AuditState(audit) /\ AbstractsLoad(audit) /\ AuditsLoad(audit)
  BY DEF AInv, AbstractsLoad, SamplingLoads
<1>6. chain \in Seq(DOMAIN audit.executions) /\ Len(chain) \in Nat /\ DOMAIN chain = 1..Len(chain)
  <2>1. chain \in Seq(DOMAIN audit.executions)
    BY <1>3, <1>4, <1>5, ChainOfRoute
  <2> QED BY <2>1, LenProperties
<1>7. waiting # {} => first \in DOMAIN audit.executions
  <2> SUFFICES ASSUME waiting # {} PROVE first \in DOMAIN audit.executions
    OBVIOUS
  <2>1. waiting \subseteq DOMAIN chain
    BY DEF ToInterpret
  <2> HIDE DEF chain, waiting
  <2>2. waiting \subseteq Nat
    BY <1>6, <2>1
  <2>3. Min(waiting) \in waiting
    BY <2>2, SmallestPosition
  <2>4. Min(waiting) \in 1..Len(chain)
    BY <1>6, <2>1, <2>3
  <2>5. chain[Min(waiting)] \in DOMAIN audit.executions
    BY <1>6, <2>4, ElementOfSeq
  <2> QED BY <2>5
<1>8. RouteGoes(c, r, chain, waiting)
  BY RouteOfMatrix
<1>9. Puts(c, auditors[c]) \/ auditors' # auditors
  <2>1. auditors = [d \in Auditors |-> auditors[d]]
    BY DEF AInv, FramesSound
  <2>2. [auditors EXCEPT ![c] = auditors[c]] = auditors
    BY <2>1
  <2> QED BY <2>2 DEF Puts
<1>a. chain = Chain(audit, r) /\ waiting = ToInterpret(audit, r)
  OBVIOUS
<1> HIDE DEF chain, waiting, r
<1>10. CASE chain = <<>> /\ StartExecution(c, <<"matrix", r, 0>>, r, 0, x)
  <2> DEFINE key == <<"matrix", r, 0>>
  <2>1. key \in AuditKeys /\ key = <<"matrix", r, 0>> /\ StartExecution(c, key, r, 0, x)
    BY <1>4, <1>10 DEF AuditKeys
  <2> HIDE DEF key, x
  <2> QED BY <1>1, <1>2, <1>3, <1>4, <1>10, <1>a, <2>1, FirstExecutionGoes
<1>11. CASE /\ waiting # {} /\ IsOpen(audit, first)
            /\ audit' = WithSettlement(audit, first, "outcome_unknown")
            /\ UNCHANGED <<auditors, planLock>>
  BY <1>1, <1>2, <1>7, <1>11, CloseUnknownGoes
<1>12. CASE /\ waiting # {} /\ ~IsOpen(audit, first)
            /\ IF AbstractsLoad(WithRow(audit, r, first))
               THEN /\ audit' = WithRow(audit, r, first)
                    /\ UNCHANGED <<auditors, planLock>>
               ELSE Refused(c, r, first)
  <2>1. first = Chain(audit, r)[Min(ToInterpret(audit, r))] /\ ToInterpret(audit, r) # {}
    BY <1>12, <1>a
  <2> HIDE DEF first
  <2>2. CASE ~AbstractsLoad(WithRow(audit, r, first))
    <3>1. Refused(c, r, first)
      BY <1>12, <2>2
    <3>2. ~InOrder(audit)
      BY <1>3, <1>4, <1>5, <1>12, <2>1, <2>2, RowLoads
    <3> QED BY <3>1, <3>2, RefusedGoes DEF Goes
  <2>3. CASE AbstractsLoad(WithRow(audit, r, first))
    <3> DEFINE a2 == audit'
    <3>1. a2 = WithRow(audit, r, first) /\ auditors' = auditors
      BY <1>12, <2>3
    <3> HIDE DEF a2
    <3>2. SummariesStand(audit, a2) /\ a2.executions = audit.executions
      BY <1>4, <1>7, <1>12, <3>1, RowAdded DEF AInv
    <3>3. OfAnother(audit) => OfAnother(a2)
      BY <3>2 DEF OfAnother, Executions
    <3>4. InOrder(audit) => InOrder(a2)
      BY <1>3, <1>4, <1>5, <2>1, <3>1, RowInOrder
    <3>5. FrameGoes(audit', x)
      BY <1>1, IdleGoes
    <3>6. Puts(c, x)
      BY <1>9, <3>1
    <3> HIDE DEF x
    <3>7. FramesGo'
      BY <1>2, <3>2, <3>3, <3>5, <3>6, FrameGoesOn DEF AInv, Goes, a2
    <3> QED BY <3>3, <3>4, <3>7 DEF Goes, a2
  <2> QED BY <2>2, <2>3
<1>13. CASE /\ chain # <<>> /\ waiting = {} /\ CanContinue(audit, Last(chain))
            /\ StartExecution(c, <<"matrix", r, Len(chain)>>, r, Last(chain),
                              [x EXCEPT !.resumed = TRUE])
  <2> DEFINE key == <<"matrix", r, Len(chain)>>
             y == [x EXCEPT !.resumed = TRUE]
             previous == Last(chain)
  <2>1. key \in AuditKeys /\ key = <<"matrix", r, Len(Chain(audit, r))>>
    BY <1>4, <1>6, <1>a DEF AuditKeys
  <2>2. y.at = "matrix"
    <3>1. InAMatrix(y)
      BY <1>3, ResumedFrame
    <3> HIDE DEF y
    <3> QED BY <3>1 DEF InAMatrix
  <2>3. StartExecution(c, key, r, previous, y) /\ previous = Last(Chain(audit, r))
        /\ CanContinue(audit, previous)
    BY <1>13, <1>a
  <2>4. Chain(audit, r) # <<>> /\ ToInterpret(audit, r) = {}
    BY <1>13, <1>a
  <2> HIDE DEF key, y, previous
  <2> QED BY <1>2, <1>3, <1>4, <2>1, <2>2, <2>3, <2>4, NextExecutionGoes
<1>14. CASE ToRoute(c, audit, x.continuing, x.route + 1) /\ audit' = audit
  <2>1. PICK y : Puts(c, y) /\ y.at \in {"idle", "start", "matrix"}
    BY <1>14, ToRouteIdle
  <2> QED BY <1>14, <2>1, IdleGoes, PlanRests
<1>15. \/ chain = <<>> /\ StartExecution(c, <<"matrix", r, 0>>, r, 0, x)
       \/ /\ waiting # {} /\ IsOpen(audit, first)
          /\ audit' = WithSettlement(audit, first, "outcome_unknown")
          /\ UNCHANGED <<auditors, planLock>>
       \/ /\ waiting # {} /\ ~IsOpen(audit, first)
          /\ IF AbstractsLoad(WithRow(audit, r, first))
             THEN /\ audit' = WithRow(audit, r, first)
                  /\ UNCHANGED <<auditors, planLock>>
             ELSE Refused(c, r, first)
       \/ /\ chain # <<>> /\ waiting = {} /\ CanContinue(audit, Last(chain))
          /\ StartExecution(c, <<"matrix", r, Len(chain)>>, r, Last(chain),
                            [x EXCEPT !.resumed = TRUE])
       \/ ToRoute(c, audit, x.continuing, x.route + 1) /\ audit' = audit
  BY <1>8 DEF RouteGoes
<1> HIDE DEF first, x
<1> QED BY <1>10, <1>11, <1>12, <1>13, <1>14, <1>15

\* Nothing has been executed at the start.
LEMMA AuditInitGoes ==
  AuditInit => Goes
<1> SUFFICES ASSUME AuditInit PROVE Goes
  OBVIOUS
<1>1. audit.executions = <<>> /\ audit.feed = 0 /\ audit.events = <<>>
  BY DEF AuditInit
<1>2. Executions(audit) = {} /\ SelectedBy(audit) = {}
  BY <1>1 DEF Executions, SelectedBy
<1>3. \A r : SampleMatches(audit, r) = {}
  BY <1>2 DEF SampleMatches
<1>4. InOrder(audit)
  BY <1>1, <1>2, <1>3 DEF InOrder, SamplesCounted, FeedStands
<1>5. \A c \in Auditors : auditors[c] = AtEase
  BY DEF AuditInit
<1>6. FrameGoes(audit, AtEase)
  <2>1. AtEase.at = "idle"
    BY DEF AtEase
  <2> QED BY <2>1, IdleGoes
<1> QED BY <1>4, <1>5, <1>6 DEF Goes, FramesGo

\* Every step lets the frames go on.
LEMMA AuditStepGoes ==
  AInv /\ AInv' /\ Goes /\ [AuditNext]_auditVars => Goes'
<1> SUFFICES ASSUME AInv, AInv', Goes, [AuditNext]_auditVars PROVE Goes'
  OBVIOUS
<1>1. CASE UNCHANGED auditVars
  BY <1>1 DEF auditVars, Goes, FramesGo
<1>2. ASSUME NEW c \in Auditors, NEW continuing \in BOOLEAN, Enter(c, continuing) PROVE Goes'
  BY <1>2, EnterGoes
<1>3. ASSUME NEW c \in Auditors, NEW r \in ToSet(AuditRoutes),
             NEW previous \in 0..Len(audit.executions), AcquireSource(c, r, previous)
      PROVE  Goes'
  BY <1>3, AcquireSourceGoes
<1>4. ASSUME NEW c \in Auditors, NEW reason \in Reasons, SettleExecution(c, reason) PROVE Goes'
  BY <1>4, SettleExecutionGoes
<1>5. ASSUME NEW c \in Auditors,
             \/ StartSampling(c) \/ AcquireForSample(c) \/ RecordSample(c)
             \/ RefuseSample(c) \/ FillMatrix(c)
      PROVE  Goes'
  BY <1>5, StartSamplingGoes, AcquireForSampleGoes, RecordSampleGoes, RefuseSampleNever,
     FillMatrixGoes
<1>6. ASSUME NEW c \in Auditors,
             CaptureSummary(c) \/ RegisterDeclaration(c) \/ StopAuditor(c)
      PROVE  Goes'
  BY <1>6, CaptureSummaryGoes, RegisterDeclarationGoes, StopAuditorGoes
<1> QED BY <1>1, <1>2, <1>3, <1>4, <1>5, <1>6 DEF AuditNext

\* No run, resume or declaration of the service is refused by its own history,
\* unless somebody continued an execution of the sampling under a key of his own.
THEOREM AuditsGo == AuditSpec => []AuditsGoThrough
<1>1. AuditInit => AInv /\ Goes
  BY AuditInitInv, AuditInitGoes
<1>2. (AInv /\ Goes) /\ [AuditNext]_auditVars => (AInv /\ Goes)'
  BY AuditStepInv, AuditStepGoes
<1>3. AInv /\ Goes => AuditsGoThrough
  BY DEF Goes, FramesGo, FrameGoes, AuditsGoThrough, OfAnother
<1> QED BY <1>1, <1>2, <1>3, PTL DEF AuditSpec

=============================================================================
