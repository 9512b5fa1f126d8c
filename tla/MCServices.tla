------------------------------- MODULE MCServices -------------------------------
(***************************************************************************)
(* Small instances of the services, checked one beside the other: a        *)
(* behaviour is one of the parts, chosen at the start.                     *)
(***************************************************************************)
EXTENDS FeedPipeline, BodyExtraction, FixtureAudit, TLC

CONSTANTS w1, w2, k1, k2

VARIABLE part
paperParts == <<paperVars, feedVars, metadataVars, pipelineVars>>
parts == <<paperParts, bodyVars, auditVars, part>>

\* Requests of the paper facts: a feed entry that is seen twice and gets its DOI
\* later, a journal version and a preprint of it, two parsers of one material,
\* corrections.
NoFields == [f \in {} |-> 0]
Title(t) == [title |-> t]
Both(t) == [title |-> t, abstract |-> t]
XY == {[pre |-> "x", journal |-> "y"]}
Request(source, stream, doi, kind, at, payload, parser, fields, relations, v) ==
  [source |-> source, stream |-> stream, doi |-> doi, kind |-> kind, at |-> at,
   payload |-> payload, parser |-> parser, fields |-> fields, relations |-> relations,
   target |-> [paper |-> v, version |-> v]]
MCRequests ==
  { Request("feed", 1, "none", "preprint", 2, 1, 1, Title(1), {}, 0),
    Request("feed", 1, "none", "preprint", 4, 1, 1, Title(1), {}, 0),
    Request("feed", 1, "x", "preprint", 3, 1, 2, Both(1), {}, 0),
    Request("feed", 1, "y", "preprint", 1, 2, 1, NoFields, {}, 0),
    Request("registry", 2, "x", "preprint", 1, 3, 1, NoFields, XY, 0),
    Request("publisher", 3, "y", "journal", 2, 4, 1, Title(2), {}, 0),
    Request("publisher", 3, "y", "journal", 2, 4, 2, Both(2), XY, 0),
    Request("publisher", 3, "y", "journal", 1, 5, 1, Title(2), {}, 0),
    Request("publisher", 3, "x", "preprint", 1, 6, 1, Title(3), {}, 1),
    Request("manual", 4, "none", "journal", 1, 7, 1, Title(4), {}, 1),
    Request("manual", 4, "none", "journal", 1, 8, 1, Title(5), {}, 1) }

\* A feed of two items and what two parsers make of them.
Item(e, p) == [entry |-> e, payload |-> p]
MCBodies == << <<Item(1, 1), Item(2, 2)>>, <<Item(1, 1)>> >>
MCParsed ==
  [p \in 1..2 |-> [v \in 1..2 |->
    IF p = 1 THEN [invalid |-> FALSE, doi |-> IF v = 1 THEN "none" ELSE "x",
                   fields |-> IF v = 1 THEN NoFields ELSE Title(1)]
    ELSE [invalid |-> v = 1, doi |-> "x", fields |-> Title(2)]]]

\* Metadata: a page with an abstract; a feed item without a DOI that is complete,
\* the same entry with a DOI, a later abstract.
MCExtract == [p \in {5} |-> [v \in 1..2 |-> [abstract |-> 5]]]
Journal(payload, at, doi, fields) ==
  Request("feed", 1, doi, "journal", at, payload, 1, fields, {}, 0)
MCDiscovered ==
  { Journal(1, 1, "none", [title |-> 1, abstract |-> 1, source_url |-> 1]),
    Journal(2, 2, "x", Title(2)), Journal(3, 3, "x", Both(3)) }

\* Body: two attempts in all, shared by the PDFs; either a paper before it is
\* eligible, or one PDF that is extracted, read, and superseded by another.
Spent == Cardinality({<<f, n>> \in Fingerprints \X {1, 2} : n <= Len(body'.attempts[f])})
Reviewed == Cardinality({<<f, n>> \in Fingerprints \X {1, 2} : n <= Len(body'.reviews[f])})
BodyBounds ==
  /\ Spent <= 2 /\ Reviewed <= 1
  /\ body'.root = "unknown" /\ body'.decisions = <<>>
BasisBounds ==
  /\ Spent <= 2 /\ body'.root # "production"
  /\ Cardinality({c \in Extractors : extractors'[c] # AtRest}) <= 1
  /\ \A n \in DOMAIN body'.attachments : body'.attachments[n].pdf = <<"p", "q">>[n]
  /\ \A r \in Recipes : body'.attempts[<<"q", r>>] = <<>>
  /\ body'.root # body.root => body.attachments = <<>> /\ body.decisions # <<>>
  /\ body'.decisions # body.decisions => body.attachments = <<>> \/ readBases # {}

\* Audit: one execution under a key of its own, two of the feed, one summary.
OfOwn == {n \in Executions(audit') : audit'.executions[n].key[1] = "own"}
OfFeed == {n \in Executions(audit') : RequestOf(audit', n) = "feed"}
AuditBounds ==
  /\ Cardinality(OfOwn) <= 1 /\ Cardinality(OfFeed) <= 2
  /\ OfOwn # {} => Len(audit'.executions) < MaxExecutions
  /\ Cardinality({c \in Auditors : auditors'[c].at = "captured"}) <= 1
  /\ Cardinality(audit'.summaries) <= 1
  /\ \A c \in Auditors : auditors[c].at # "refused"

Busy(frames) == {c \in DOMAIN frames : frames[c] # Idle}
MCInit ==
  /\ part \in {"papers", "feeds", "metadata", "pipeline", "body", "basis", "audit"}
  /\ PapersInit /\ FeedInit /\ MetadataInit /\ PipelineInit /\ BodyInit /\ AuditInit
PapersPart ==
  \/ /\ part = "papers" /\ PapersNext
     /\ UNCHANGED <<feedVars, metadataVars, pipelineVars>>
  \/ /\ part = "feeds" /\ FeedNext
     /\ (Len(checks') > Len(checks)) => \A n \in DOMAIN checks : checks[n].settlement # Unsettled
     /\ UNCHANGED <<metadataVars, pipelineVars>>
  \/ /\ part = "metadata" /\ MetadataNext
     /\ Cardinality(archive'.discoveries) <= 1
     /\ (Len(runs') > Len(runs)) => \A n \in DOMAIN runs : "publisher" \in DOMAIN runs[n].routes
     /\ UNCHANGED <<feedVars, pipelineVars>>
  \/ /\ part = "pipeline" /\ PipelineNext
     /\ Cardinality(Busy(enrichers')) <= 1 /\ Len(runs') <= 1
     /\ UNCHANGED feedVars
BodyPart ==
  /\ BodyNext
  /\ \/ part = "body" /\ BodyBounds
     \/ part = "basis" /\ BasisBounds
MCNext ==
  /\ UNCHANGED part
  /\ \/ PapersPart /\ UNCHANGED <<bodyVars, auditVars>>
     \/ BodyPart /\ UNCHANGED <<paperParts, auditVars>>
     \/ /\ part = "audit" /\ AuditNext /\ AuditBounds
        /\ UNCHANGED <<paperParts, bodyVars>>
MCSpec == MCInit /\ [][MCNext]_parts

\* papers.validate_all over the archives of all parts but the metadata ones; in
\* the feeds only an item that has just been submitted changes the archive.
ArchiveIsAccepted ==
  \/ part \notin {"papers", "feeds"}
  \/ part = "feeds" /\ \A c \in Resumers : resumers[c].at # "submitted"
  \/ PaperHistoryIsAccepted

Symmetry == Permutations(Submitters) \cup Permutations(RunIds)
================================================================================
