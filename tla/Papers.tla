-------------------------------- MODULE Papers --------------------------------
(***************************************************************************)
(* The paper facts of one archive (src/paper_radar/papers): observations   *)
(* from publishers, registries and a feed and manual corrections become    *)
(* versions, papers, relations, acquisitions and field revisions.          *)
(*                                                                         *)
(* An action is one read or one write transaction of a service call.  The  *)
(* tables are append only; `archive` holds them, numbered in the order of  *)
(* their rows where the code draws a uuid.                                 *)
(***************************************************************************)
EXTENDS Integers, FiniteSets, SequencesExt

CONSTANTS
  Submitters,        \* processes that submit or correct
  Requests,          \* the observations and corrections they may submit
  Entries,           \* entry ids of the feed
  NoDOI,             \* of a feed item without one
  MaxAcquisitions    \* bound on the acquisitions

\* A request names its stream (provider and query, feed entry, or actor and
\* request id), the time, bytes and parser of its material, and what it parsed.
ASSUME RequestAssumption ==
  \A r \in Requests :
    /\ r.source \in {"publisher", "registry", "feed", "manual"}
    /\ r.kind \in {"preprint", "journal"}
    /\ {r.stream, r.at, r.payload, r.parser, r.target.version, r.target.paper} \subseteq Nat
    /\ r.source = "feed" => r.stream \in Entries
    \* normalize_relations: an assertion is about the submitted DOI in its kind
    /\ \A p \in r.relations :
         /\ r.doi \in {p.pre, p.journal} /\ p.pre # p.journal
         /\ r.doi = p.pre <=> r.kind = "preprint"

VARIABLES
  archive,      \* the tables of papers/tables.py and conflict_tables.py
  submitters,   \* what each caller has in hand
  answers       \* history: <<request, answer>> of every call that was accepted

paperVars == <<archive, submitters, answers>>

-------------------------------------------------------------------------------
(* Lookups *)

\* external_identifiers: the version a DOI is bound to, 0 for none.
BoundTo(a, doi) ==
  LET owners == {v \in DOMAIN a.versions : a.versions[v].doi = doi}
  IN IF doi = NoDOI \/ owners = {} THEN 0 ELSE CHOOSE v \in owners : TRUE
PaperOf(a, v) == a.versions[v].paper
EventsOf(a, v) == {n \in DOMAIN a.acquisitions : a.acquisitions[n].version = v}
RevisionsOf(a, v) == SelectSeq(a.revisions, LAMBDA s : s.version = v)
SelectionsOf(a, p) == SelectSeq(a.selections, LAMBDA s : PaperOf(a, s) = p)
HasFields(r) == DOMAIN r.fields # {}

Material(r) == <<r.doi, r.kind, r.source, r.stream, r.payload>>
RequestKey(r) == <<r.doi, r.source, r.stream, r.at, r.payload, r.parser>>
Interpretation(r) == <<r.fields, r.relations, r.kind, r.target>>

\* The acquisition an exact retry finds, 0 for none.
SavedBy(a, r) ==
  LET found == {n \in DOMAIN a.acquisitions :
                  RequestKey(a.acquisitions[n].request) = RequestKey(r)}
  IN IF found = {} THEN 0 ELSE CHOOSE n \in found : TRUE

\* It was the same request.
Repeats(a, r) ==
  SavedBy(a, r) # 0 /\ Interpretation(a.acquisitions[SavedBy(a, r)].request) = Interpretation(r)

\* The observation of v that already holds these candidates, 0 for none.
SameCandidates(a, v, r) ==
  LET found == {o \in DOMAIN a.observations :
                  /\ a.observations[o].version = v
                  /\ a.observations[o].request.source = r.source
                  /\ a.observations[o].request.stream = r.stream
                  /\ a.observations[o].request.fields = r.fields}
  IN IF v = 0 \/ found = {} THEN 0 ELSE CHOOSE o \in found : TRUE

-------------------------------------------------------------------------------
(* Relations *)

Pairs(a) == {[pre |-> x.pre, journal |-> x.journal] : x \in a.relations}
About(a, doi) == {p \in Pairs(a) : doi \in {p.pre, p.journal}}
\* saved_relation_signature
Signature(a, n) == {[pre |-> x.pre, journal |-> x.journal] : x \in {y \in a.references : y.acquisition = n}}
HasNewRelations(a, r) == ~(r.relations \subseteq Pairs(a))

Roles(pairs) == {<<p.pre, "preprint">> : p \in pairs} \cup {<<p.journal, "journal">> : p \in pairs}
\* validate_endpoint_kinds
EndpointsClash(a, r) ==
  LET roles == Roles(Pairs(a) \cup r.relations)
  IN \E role \in roles :
       \/ \E other \in roles : other[1] = role[1] /\ other[2] # role[2]
       \/ BoundTo(a, role[1]) # 0 /\ a.versions[BoundTo(a, role[1])].kind # role[2]
       \/ role[1] = r.doi /\ role[2] # r.kind

RelatedPapers(a, r) ==
  LET ends == UNION {{p.pre, p.journal} : p \in About(a, r.doi) \cup r.relations} \ {r.doi}
  IN {PaperOf(a, BoundTo(a, d)) : d \in {e \in ends : BoundTo(a, e) # 0}}

\* relation_state: both ends are bound, to different papers.
RequiresMerge(a, doi) ==
  \E p \in About(a, doi) :
    /\ BoundTo(a, p.pre) # 0 /\ BoundTo(a, p.journal) # 0
    /\ PaperOf(a, BoundTo(a, p.pre)) # PaperOf(a, BoundTo(a, p.journal))

-------------------------------------------------------------------------------
(* Selection of versions and of fields *)

\* select_new_version: the first version, then at most one journal version.
Selected(a, v) ==
  LET earlier == SelectionsOf(a, PaperOf(a, v))
      upgrade == /\ a.versions[v].kind = "journal"
                 /\ a.versions[Last(earlier)].kind = "preprint"
  IN IF earlier = <<>> \/ upgrade
     THEN [a EXCEPT !.selections = Append(@, v)] ELSE a

WithVersion(a, r) ==
  LET owners == RelatedPapers(a, r)
      v == Len(a.versions) + 1
      paper == IF Cardinality(owners) = 1 THEN CHOOSE p \in owners : TRUE ELSE v
  IN Selected([a EXCEPT !.versions = Append(@, [paper |-> paper, kind |-> r.kind, doi |-> r.doi])], v)

Priority == [manual |-> 3, publisher |-> 2, registry |-> 1, feed |-> 0]
Rank(q) == <<Priority[q.request.source], IF q.request.source = "manual" THEN q.event ELSE 0,
             q.request.at, q.request.payload, q.request.parser, q.request.stream>>
Outranks(q, s) ==
  \E i \in 1..6 : Rank(q)[i] > Rank(s)[i] /\ \A j \in 1..(i - 1) : Rank(q)[j] = Rank(s)[j]
ParserKey(q) == <<q.request.source, q.request.stream, q.request.payload>>

\* choose_fields over a set of acquisitions: for each field the observation
\* and the acquisition it is taken from.
Winners(a, events) ==
  LET ranked == {n \in events : a.acquisitions[n].observation # 0}
      q(n) == a.acquisitions[n]
      highest == {n \in ranked : \A m \in ranked :
                    ParserKey(q(m)) = ParserKey(q(n)) => q(m).request.parser <= q(n).request.parser}
      Offer(n) == DOMAIN a.observations[q(n).observation].request.fields
      best(f) == CHOOSE n \in highest :
                   f \in Offer(n) /\ \A m \in highest \ {n} : f \in Offer(m) => Outranks(q(n), q(m))
  IN [f \in UNION {Offer(n) : n \in highest} |-> <<q(best(f)).observation, best(f)>>]

-------------------------------------------------------------------------------
(* The steps of a write transaction *)

WithObservation(a, v, r) ==
  [a EXCEPT !.observations = Append(@, [version |-> v, request |-> r])]

\* The result is settled by WithResult and WithRevision.
WithAcquisition(a, v, r, o, kept) ==
  [a EXCEPT !.acquisitions = Append(@,
     [request |-> r, version |-> v, observation |-> o, retained |-> kept,
      event |-> IF v = 0 THEN 0 ELSE Cardinality(EventsOf(a, v)) + 1,
      status |-> "not_retained", reason |-> "none",
      revision |-> IF v = 0 THEN 0 ELSE Len(RevisionsOf(a, v))])]

\* save_relations
WithRelations(a, r) ==
  LET n == Len(a.acquisitions)
      new == r.relations \ Pairs(a)
      by(p) == [pre |-> p.pre, journal |-> p.journal, acquisition |-> n]
  IN [a EXCEPT !.relations = @ \cup {by(p) : p \in new},
               !.references = @ \cup {by(p) : p \in r.relations},
               !.acquisitions[n].retained = @ \/ new # {}]

\* save_acquisition_result
WithResult(a) ==
  LET n == Len(a.acquisitions)
      merge == RequiresMerge(a, a.acquisitions[n].request.doi)
      kept == a.acquisitions[n].retained
  IN [a EXCEPT !.acquisitions[n].status = IF kept \/ merge THEN "retained" ELSE "not_retained",
               !.acquisitions[n].reason = IF merge THEN "requires_merge"
                                          ELSE IF kept THEN "none" ELSE "not_retained"]

WithRevisionUnsettled(a, v) ==
  LET old == RevisionsOf(a, v)
      winners == Winners(a, EventsOf(a, v))
  IN IF old # <<>> /\ Last(old).fields = winners THEN a
     ELSE [a EXCEPT !.revisions = Append(@, [version |-> v, trigger |-> Len(a.acquisitions), fields |-> winners])]

\* update_revision
WithRevision(a, v) ==
  LET n == Len(a.acquisitions)
      old == RevisionsOf(a, v)
      winners == Winners(a, EventsOf(a, v))
  IN IF old # <<>> /\ Last(old).fields = winners THEN a
     ELSE [a EXCEPT !.revisions = Append(@, [version |-> v, trigger |-> n, fields |-> winners]),
                    !.acquisitions[n].revision = Len(old) + 1]

Rejected(reason) == [status |-> "rejected", reason |-> reason]
Receipt(a, v, n, revision) ==
  [status |-> a.acquisitions[n].status, reason |-> a.acquisitions[n].reason,
   version |-> v, revision |-> revision,
   observation |-> a.acquisitions[n].observation, acquisition |-> n]
\* saved_acquisition_result: what a replay answers, from the stored row.
SavedResult(a, n) == Receipt(a, a.acquisitions[n].version, n, a.acquisitions[n].revision)
\* What the writer itself answers: the revision is the latest of the version.
NewResult(a, v) ==
  Receipt(a, v, Len(a.acquisitions), IF v = 0 THEN 0 ELSE Len(RevisionsOf(a, v)))

-------------------------------------------------------------------------------
(* Observations of publishers and registries *)

BadInterpretationTwice(a, r) ==
  \E n \in DOMAIN a.acquisitions :
    LET q == a.acquisitions[n].request
    IN Material(q) = Material(r) /\ r.parser <= q.parser

\* _check_interpretation: a parser does not go back and does not change its mind.
BadInterpretation(a, r) ==
  \E n \in DOMAIN a.acquisitions :
    LET q == a.acquisitions[n].request
    IN /\ Material(q) = Material(r)
       /\ \/ r.parser < q.parser
          \/ r.parser = q.parser /\ (q.fields # r.fields \/ Signature(a, n) # r.relations)

\* needs_source, in the cases where it looks at the archive at all.
LooksAhead(a, r) == (HasFields(r) \/ r.relations # {}) /\ SavedBy(a, r) = 0
LacksMaterial(a, r) ==
  \/ HasNewRelations(a, r)
  \/ HasFields(r) /\ SameCandidates(a, BoundTo(a, r.doi), r) = 0
NeedsSource(a, r) == LooksAhead(a, r) /\ LacksMaterial(a, r)

\* The strong identity conflict of a publisher or registry observation.
TargetMissing(a, r) == r.target.version \notin DOMAIN a.versions
                       \/ PaperOf(a, r.target.version) # r.target.paper
ObservationConflict(a, r) ==
  LET v == BoundTo(a, r.doi)
  IN IF r.target.version # 0 /\ (TargetMissing(a, r) \/ v = 0) THEN "target_mismatch"
     ELSE IF r.target.version # 0 /\ v # r.target.version THEN "doi_owner_conflict"
     ELSE IF v # 0 /\ a.versions[v].kind # r.kind THEN "version_kind_conflict"
     ELSE "none"

\* A registry observation must name its target or a relation.
Homeless(a, r) == /\ r.source = "registry" /\ r.target.version = 0
                  /\ r.relations = {} /\ About(a, r.doi) = {}

Placed(a, r) ==
  IF BoundTo(a, r.doi) = 0 /\ HasFields(r) THEN WithVersion(a, r) ELSE a
Observed(a, v, r, new) == IF new THEN WithObservation(a, v, r) ELSE a
Acquired(a, v, r, new) ==
  LET o == IF HasFields(r) THEN SameCandidates(a, v, r) ELSE 0
  IN WithResult(WithRelations(WithAcquisition(a, v, r, o, new), r))
Revised(a, v) == IF v = 0 THEN a ELSE WithRevision(a, v)
SavedIn(placed, r) ==
  LET v == BoundTo(placed, r.doi)
      new == HasFields(r) /\ SameCandidates(placed, v, r) = 0
  IN Revised(Acquired(Observed(placed, v, r, new), v, r, new), v)
ObservationSaved(a, r) == SavedIn(Placed(a, r), r)

\* conflicts.retain
WithConflict(a, r, category) ==
  IF \E c \in a.conflicts : c.request = r THEN a
  ELSE [a EXCEPT !.conflicts = @ \cup {[request |-> r, conflict |-> category]}]
\* conflicts.replay
ConflictReceipt(a, r) ==
  [status |-> "rejected", reason |-> (CHOOSE c \in a.conflicts : c.request = r).conflict]
InConflict(a, r) == \E c \in a.conflicts : c.request = r

\* The transaction of save_observation: what it leaves behind and what it
\* answers.  Without an artifact a conflict is not retained and the answer is
\* that the source is needed.
Outcome(a, answer) == [archive |-> a, answer |-> answer]
SourceNeeded == [status |-> "source_needed", reason |-> "none"]
Written(a, v) == Outcome(a, NewResult(a, v))
Retained(a, r) == Outcome(a, ConflictReceipt(a, r))
WrittenFor(a, r) == Written(a, BoundTo(a, r.doi))
ObservationOutcome(a, r, artifact) ==
  LET n == SavedBy(a, r)
      conflict == ObservationConflict(a, r)
  IN IF InConflict(a, r) THEN Outcome(a, ConflictReceipt(a, r))
     ELSE IF Repeats(a, r) THEN Outcome(a, SavedResult(a, n))
     ELSE IF Homeless(a, r) THEN Outcome(a, Rejected("invalid_observation"))
     ELSE IF conflict # "none"
       THEN IF artifact THEN Retained(WithConflict(a, r, conflict), r)
            ELSE Outcome(a, SourceNeeded)
     ELSE IF n # 0 \/ BadInterpretation(a, r) \/ EndpointsClash(a, r)
       THEN Outcome(a, Rejected("invalid_observation"))
     ELSE IF LacksMaterial(a, r) /\ ~artifact THEN Outcome(a, Rejected("corrupt_reference"))
     ELSE WrittenFor(ObservationSaved(a, r), r)

-------------------------------------------------------------------------------
(* Items of the feed *)

EntryVersion(a, r) == IF a.entries[r.stream] # 0 THEN a.entries[r.stream] ELSE BoundTo(a, r.doi)
FoundItem(a, r) == {d \in a.discoveries : d.payload = r.payload}
Discovery(a, r) == CHOOSE d \in FoundItem(a, r) : TRUE
\* The interpretation of this item by the same parser, 0 for none.
SameParser(a, r) ==
  LET same == {i \in UNION {d.interpretations : d \in FoundItem(a, r)} : i.parser = r.parser}
  IN IF same = {} THEN 0 ELSE (CHOOSE i \in same : TRUE).acquisition
HighestParser(a, r) ==
  Max({0} \cup {i.parser : i \in UNION {d.interpretations : d \in FoundItem(a, r)}})

FeedConflict(a, r) ==
  LET v == EntryVersion(a, r)
      known == a.entries[r.stream] # 0
      doi == IF v = 0 THEN NoDOI ELSE a.versions[v].doi
  IN IF v # 0 /\ a.versions[v].kind # r.kind THEN "version_kind_conflict"
     ELSE IF r.target.version # 0 /\ (v # r.target.version \/ TargetMissing(a, r))
       THEN "target_mismatch"
     ELSE IF known /\ r.doi # NoDOI /\ doi \notin {NoDOI, r.doi} THEN "entry_doi_changed"
     ELSE IF known /\ BoundTo(a, r.doi) \notin {0, v} THEN "doi_owner_conflict"
     ELSE IF r.target.version # 0 /\ r.doi # NoDOI /\ doi # r.doi THEN "target_mismatch"
     ELSE "none"

\* The refusals of an item that is in no conflict.
FeedRefused(a, r) ==
  LET same == SameParser(a, r)
  IN \/ \E d \in FoundItem(a, r) : d.entry # r.stream
     \/ same # 0 /\ LET q == a.acquisitions[same].request
                        d == Discovery(a, r)
                        submitted == (CHOOSE i \in d.interpretations : i.parser = r.parser).at
                    IN \/ r.parser < HighestParser(a, r) /\ r.at # submitted
                       \/ Interpretation(q) # Interpretation(r) \/ q.doi # r.doi
     \/ same = 0 /\ (r.parser < HighestParser(a, r) \/ (r.doi # NoDOI /\ EndpointsClash(a, r)))

SeenAgainLately(a, r) ==
  [a EXCEPT !.discoveries =
     {IF d.payload = r.payload THEN [d EXCEPT !.last = r.at] ELSE d : d \in @}]
SeenAgain(a, r) ==
  [a EXCEPT !.discoveries =
     {IF d.payload = r.payload THEN [d EXCEPT !.last = Max({@, r.at})] ELSE d : d \in @}]

\* A DOI is bound to the version of an entry that had none.
WithIdentity(a, v, r) ==
  IF a.versions[v].doi = NoDOI THEN [a EXCEPT !.versions[v].doi = r.doi] ELSE a

WithDiscovery(a, r) ==
  IF FoundItem(a, r) # {} THEN SeenAgain(a, r)
  ELSE [a EXCEPT !.discoveries = @ \cup {[payload |-> r.payload, entry |-> r.stream,
                                          first |-> r.at, last |-> r.at, interpretations |-> {}]}]
WithInterpretation(a, r) ==
  LET i == [parser |-> r.parser, at |-> r.at, acquisition |-> Len(a.acquisitions)]
  IN [a EXCEPT !.discoveries =
        {IF d.payload = r.payload THEN [d EXCEPT !.interpretations = @ \cup {i}] ELSE d : d \in @}]

ItemRevised(a, r) == WithRevision(a, a.entries[r.stream])
ItemPlaced(a, r) ==
  LET v == EntryVersion(a, r)
  IN IF v = 0 THEN [WithVersion(a, r) EXCEPT !.entries[r.stream] = Len(a.versions) + 1]
     ELSE [WithIdentity(a, v, r) EXCEPT !.entries[r.stream] = v]
\* The acquisition has the time at which the item was first seen.
ItemAcquired(seen, r, kept) ==
  LET first == [r EXCEPT !.at = Discovery(seen, r).first]
      v == seen.entries[r.stream]
      o == IF kept THEN Len(seen.observations) + 1 ELSE 0
  IN WithAcquisition(Observed(seen, v, first, kept), v, first, o, kept)
ItemSaved(a, r) ==
  LET kept == HasFields(r) \/ FoundItem(a, r) = {}
  IN ItemRevised(
       WithResult(WithInterpretation(ItemAcquired(WithDiscovery(ItemPlaced(a, r), r), r, kept), r)), r)

\* The transaction of submit_feed: what it leaves behind and what it answers.
ItemWritten(a, r) == Written(a, a.entries[r.stream])
ItemOutcome(a, r) ==
  LET conflict == FeedConflict(a, r)
  IN IF InConflict(a, r) THEN Outcome(a, ConflictReceipt(a, r))
     ELSE IF ~a.registered THEN Outcome(a, Rejected("invalid_observation"))
     ELSE IF conflict # "none" THEN Retained(WithConflict(a, r, conflict), r)
     ELSE IF FeedRefused(a, r) THEN Outcome(a, Rejected("invalid_observation"))
     ELSE IF SameParser(a, r) # 0
       THEN Outcome(SeenAgain(a, r), SavedResult(a, SameParser(a, r)))
     ELSE ItemWritten(ItemSaved(a, r), r)

-------------------------------------------------------------------------------
(* Manual corrections; r.stream is the request id, r.target the version *)

CorrectionOf(a, r) ==
  LET found == {n \in DOMAIN a.acquisitions :
                  LET q == a.acquisitions[n]
                  IN /\ q.request.source = "manual" /\ q.version = r.target.version
                     /\ q.request.stream = r.stream}
  IN IF found = {} THEN 0 ELSE CHOOSE n \in found : TRUE
CorrectionSaved(a, r) ==
  LET v == r.target.version
      stamped == [r EXCEPT !.doi = a.versions[v].doi, !.kind = a.versions[v].kind]
      acquired == WithAcquisition(WithObservation(a, v, stamped), v, stamped,
                                  Len(a.observations) + 1, TRUE)
  IN WithRevision([acquired EXCEPT !.acquisitions[Len(a.acquisitions) + 1].status = "retained"], v)

-------------------------------------------------------------------------------
(* Service calls *)

Idle == [at |-> "idle"]
Waiting(r, artifact) == [at |-> "planned", request |-> r, artifact |-> artifact]
Accepted(answer) == answer.status # "rejected"
Remembered(r) == \E x \in answers : x[1] = r
\* A rejection is remembered when the request had been accepted before, and so
\* is the receipt of a conflict.
Answer(r, answer) ==
  answers' = IF \/ Accepted(answer) \/ Remembered(r)
                \/ answer.reason = "corrupt_reference"
                \/ InConflict(archive', r) /\ r.source = "feed"
             THEN answers \cup {<<r, answer>>} ELSE answers
Within(a) == Len(a.acquisitions) <= MaxAcquisitions
\* The transaction commits and the caller has its answer.
Commit(outcome, r) ==
  /\ Within(outcome.archive)
  /\ archive' = outcome.archive
  /\ Answer(r, outcome.answer)

\* PaperFacts.submit: the read before the publication of the source.
Plan(c, r) ==
  /\ submitters[c] = Idle
  /\ r.source \in {"publisher", "registry"}
  /\ UNCHANGED archive
  /\ IF LooksAhead(archive, r) /\ BadInterpretation(archive, r)
     THEN Answer(r, Rejected("invalid_observation")) /\ UNCHANGED submitters
     ELSE /\ submitters' = [submitters EXCEPT ![c] = Waiting(r, NeedsSource(archive, r))]
          /\ UNCHANGED answers

\* save_observation: one BEGIN IMMEDIATE transaction.  When the source is
\* needed, submit publishes it and calls again.
Save(c) ==
  LET r == submitters[c].request
  IN /\ submitters[c].at = "planned"
     /\ \E outcome \in {ObservationOutcome(archive, r, submitters[c].artifact)} :
          \/ /\ outcome.answer = SourceNeeded
             /\ submitters' = [submitters EXCEPT ![c] = Waiting(r, TRUE)]
             /\ UNCHANGED <<archive, answers>>
          \/ /\ outcome.answer # SourceNeeded
             /\ submitters' = [submitters EXCEPT ![c] = Idle]
             /\ Commit(outcome, r)

\* submit_feed: the source is published first, then one transaction.
SubmitItem(c, r) ==
  /\ submitters[c] = Idle /\ r.source = "feed"
  /\ \E outcome \in {ItemOutcome(archive, r)} : Commit(outcome, r)
  /\ UNCHANGED submitters

\* PaperFacts.correct: what is read before the publication is read again here.
Correct(c, r) ==
  LET n == CorrectionOf(archive, r)
  IN /\ submitters[c] = Idle /\ r.source = "manual"
     /\ UNCHANGED submitters
     /\ \/ /\ n # 0 /\ archive.acquisitions[n].request.payload = r.payload
           /\ UNCHANGED archive /\ Answer(r, SavedResult(archive, n))
        \/ /\ IF n = 0 THEN r.target.version \notin DOMAIN archive.versions
                      ELSE archive.acquisitions[n].request.payload # r.payload
           /\ UNCHANGED archive /\ Answer(r, Rejected("invalid_manual_correction"))
        \/ /\ n = 0 /\ r.target.version \in DOMAIN archive.versions
           /\ \E new \in {CorrectionSaved(archive, r)} : Commit(Written(new, r.target.version), r)

RegisterFeed ==
  /\ ~archive.registered
  /\ archive' = [archive EXCEPT !.registered = TRUE]
  /\ UNCHANGED <<submitters, answers>>

\* A caller is killed, or its answer is lost: it may ask again.
Abandon(c) ==
  /\ submitters[c] # Idle
  /\ submitters' = [submitters EXCEPT ![c] = Idle]
  /\ UNCHANGED <<archive, answers>>

PapersInit ==
  /\ archive = [versions |-> <<>>, selections |-> <<>>, observations |-> <<>>,
                acquisitions |-> <<>>, revisions |-> <<>>, relations |-> {},
                references |-> {}, conflicts |-> {}, registered |-> FALSE,
                entries |-> [e \in Entries |-> 0], discoveries |-> {}]
  /\ submitters = [c \in Submitters |-> Idle]
  /\ answers = {}

PapersNext ==
  \/ \E c \in Submitters, r \in Requests : Plan(c, r) \/ SubmitItem(c, r) \/ Correct(c, r)
  \/ \E c \in Submitters : Save(c) \/ Abandon(c)
  \/ RegisterFeed

PapersSpec == PapersInit /\ [][PapersNext]_paperVars

-------------------------------------------------------------------------------
(* What the readers accept *)

VersionsOf(a, p) == {v \in DOMAIN a.versions : PaperOf(a, v) = p}
SelectionAccepted(a, p) ==
  LET events == SelectionsOf(a, p)
      Kind(v) == a.versions[v].kind
  IN /\ Len(events) \in 1..2
     /\ Len(events) = 2 => Kind(events[1]) = "preprint" /\ Kind(events[2]) = "journal"
     /\ (\E v \in VersionsOf(a, p) : Kind(v) = "journal") => Kind(Last(events)) = "journal"

IdentityAccepted(a, v) ==
  IF a.versions[v].doi = NoDOI THEN \E e \in Entries : a.entries[e] = v
  ELSE \A w \in DOMAIN a.versions : a.versions[w].doi = a.versions[v].doi => w = v

\* _validate_parser_history: the unbound rows come first, then the events.
ParserHistoryAccepted(a, v) ==
  LET Q(n) == a.acquisitions[n].request
      unbound == {n \in DOMAIN a.acquisitions : /\ a.acquisitions[n].version = 0
                                                /\ Q(n).doi = a.versions[v].doi
                                                /\ Q(n).kind = a.versions[v].kind}
  IN \A n \in EventsOf(a, v) :
       \A m \in unbound \cup {k \in EventsOf(a, v) : k < n} :
         Material(Q(m)) = Material(Q(n)) =>
           /\ Q(m).parser <= Q(n).parser
           /\ Q(m).parser = Q(n).parser => Q(m).fields = Q(n).fields

\* material_request_matches: the observation was made by this very acquisition.
MadeBy(a, n) ==
  LET q == a.acquisitions[n]
  IN q.observation # 0 /\ LET s == a.observations[q.observation].request
                          IN <<s.source, s.stream, s.at, s.payload, s.parser>> =
                             <<q.request.source, q.request.stream, q.request.at,
                               q.request.payload, q.request.parser>>
IntroducedRelation(a, n) == \E x \in a.relations : x.acquisition = n
\* retained_relation_result
ResultHolds(a, n) ==
  LET q == a.acquisitions[n]
  IN q.status = "retained" =>
       IF q.reason = "requires_merge" THEN RequiresMerge(a, q.request.doi)
       ELSE Signature(a, n) # {}

EventAccepted(a, n) ==
  LET q == a.acquisitions[n]
      v == a.versions[q.version]
  IN /\ \/ q.request.doi = v.doi
        \/ q.request.source \in {"feed", "manual"} /\ q.request.doi = NoDOI
     /\ q.request.kind = v.kind
     /\ q.observation # 0 =>
          LET s == a.observations[q.observation]
          IN s.version = q.version /\ s.request.source = q.request.source
             /\ s.request.stream = q.request.stream
     /\ q.retained = (MadeBy(a, n) \/ IntroducedRelation(a, n))
     /\ IF MadeBy(a, n) THEN q.status = "retained" ELSE ResultHolds(a, n)
ObservationsAccepted(a, v) ==
  /\ \A o \in DOMAIN a.observations : a.observations[o].version = v =>
       /\ HasFields(a.observations[o].request) \/ a.observations[o].request.source = "feed"
       /\ Cardinality({n \in EventsOf(a, v) : a.acquisitions[n].observation = o /\ MadeBy(a, n)}) = 1

\* load_trace chooses the fields again after every event, and the revisions
\* must be the changes of that choice.
RevisionsAccepted(a, v) ==
  LET event(e) == CHOOSE n \in EventsOf(a, v) : a.acquisitions[n].event = e
      events == 1..Cardinality(EventsOf(a, v))
      After(e) == Winners(a, {event(i) : i \in 1..e})
      changes == {e \in events : e = 1 \/ After(e) # After(e - 1)}
      Number(e) == Cardinality({c \in changes : c <= e})
      stored == RevisionsOf(a, v)
  IN /\ {a.acquisitions[n].event : n \in EventsOf(a, v)} = events /\ events # {}
     /\ \A e \in events : a.acquisitions[event(e)].revision = Number(e)
     /\ Len(stored) = Cardinality(changes)
     /\ \A c \in changes : /\ stored[Number(c)].trigger = event(c)
                           /\ stored[Number(c)].fields = After(c)

UnboundAccepted(a) ==
  \A n \in {k \in DOMAIN a.acquisitions : a.acquisitions[k].version = 0} :
    /\ a.acquisitions[n].observation = 0 /\ a.acquisitions[n].revision = 0
    /\ a.acquisitions[n].retained = IntroducedRelation(a, n)
    /\ ResultHolds(a, n)

RelationsAccepted(a) ==
  /\ \A x \in a.relations : x \in a.references
  /\ \A x, y \in a.relations : x.pre # y.journal
  /\ \A x \in a.references :
       LET q == a.acquisitions[x.acquisition].request
       IN /\ q.source \in {"publisher", "registry"}
          /\ q.doi \in {x.pre, x.journal} /\ (q.doi = x.pre <=> q.kind = "preprint")
          /\ \A end \in {<<x.pre, "preprint">>, <<x.journal, "journal">>} :
               BoundTo(a, end[1]) # 0 => a.versions[BoundTo(a, end[1])].kind = end[2]
  /\ \A n, m \in DOMAIN a.acquisitions :
       LET q == a.acquisitions[n].request  s == a.acquisitions[m].request
       IN Material(q) = Material(s) /\ q.parser = s.parser => Signature(a, n) = Signature(a, m)

\* load_discoveries
DiscoveriesAccepted(a) ==
  /\ \A d \in a.discoveries :
       LET lowest == CHOOSE i \in d.interpretations :
                       \A j \in d.interpretations : i.parser <= j.parser
       IN /\ d.interpretations # {} /\ d.first <= d.last /\ lowest.at = d.first
          /\ \A i \in d.interpretations :
               LET q == a.acquisitions[i.acquisition]
               IN /\ i.at <= d.last
                  /\ q.version = a.entries[d.entry] /\ q.request.source = "feed"
                  /\ <<q.request.stream, q.request.at, q.request.payload, q.request.parser>> =
                     <<d.entry, d.first, d.payload, i.parser>>
  /\ {n \in DOMAIN a.acquisitions : a.acquisitions[n].request.source = "feed"} =
       {i.acquisition : i \in UNION {d.interpretations : d \in a.discoveries}}

-------------------------------------------------------------------------------
(* Properties *)

\* What validate_all asks (papers/service.py:310) holds of every archive that
\* submissions, corrections and their races can write: the revisions are the
\* changes of the field choice replayed event by event, every observation has
\* one creator, relations, selections and feed discoveries close.
PaperHistoryIsAccepted ==
  /\ \A v \in DOMAIN archive.versions :
       /\ SelectionAccepted(archive, PaperOf(archive, v))
       /\ IdentityAccepted(archive, v) /\ ParserHistoryAccepted(archive, v)
       /\ ObservationsAccepted(archive, v) /\ RevisionsAccepted(archive, v)
  /\ \A n \in DOMAIN archive.acquisitions :
       archive.acquisitions[n].version # 0 => EventAccepted(archive, n)
  /\ UnboundAccepted(archive) /\ RelationsAccepted(archive) /\ DiscoveriesAccepted(archive)

\* A feed item seen again at another time than its parser first saw it: what is
\* recorded is the later sighting, not the request (papers/feed_repository.py:151).
SeenLater(r) ==
  /\ r.source = "feed"
  /\ \E d \in FoundItem(archive, r) : \E i \in d.interpretations :
       i.parser = r.parser /\ i.at # r.at
\* A request that was once accepted gets the same receipt for ever, whatever was
\* bound, merged, revised or superseded since (docs/contracts/paper-facts.md:133);
\* so does a feed item whose identity conflict was retained.  Only a sighting that
\* was never registered is refused once a later parser has read the item.  And no
\* writer ever finds that the material it needs was not published
\* (papers/repository.py:288).
ReceiptsStand ==
  /\ \A x, y \in answers : x[1] = y[1] =>
       x = y \/ (SeenLater(x[1]) /\ "invalid_observation" \in {x[2].reason, y[2].reason})
  /\ \A x \in answers : x[2].reason # "corrupt_reference"
=============================================================================
