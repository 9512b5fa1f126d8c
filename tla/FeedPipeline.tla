------------------------------ MODULE FeedPipeline ------------------------------
(***************************************************************************)
(* The registration of a value screening through the feed pipeline         *)
(* (src/paper_radar/feed_pipeline, screening_tasks/feed_gate.py): the      *)
(* metadata, the current facts, the boundary success and the mapped input  *)
(* are read one after the other, and the write transaction compares them.  *)
(***************************************************************************)
EXTENDS FeedIngestion, FeedMetadata

CONSTANTS
  Registrars,    \* processes that register a value request
  ManualIds,     \* request ids of value requests
  Purposes       \* "production" needs a success of pi_rpc, "test" does not

VARIABLES
  successes,     \* boundary successes: [fingerprint, verdict, executor]
  receipts,      \* receipts of value requests: [id, version, revision, fingerprint]
  proofs,        \* feed_value_registrations
  registrars     \* the Python frame of each register_value

pipelineVars == <<successes, receipts, proofs, registrars>>

\* The input of a revision: papers/mapping.py needs a title and an abstract.
Fields(a, v, k) == RevisionsOf(a, v)[k].fields
Mapped(a, v, k) == {"title", "abstract"} \subseteq DOMAIN Fields(a, v, k)
Fingerprint(a, v, k) ==
  [f \in {"title", "abstract"} |-> a.observations[Fields(a, v, k)[f][1]].request.fields[f]]

\* project_metadata at the revision of a settled run.
MinimumComplete(n) ==
  LET v == runs[n].version
  IN /\ runs[n].settled # 0
     /\ {"title", "abstract", "source_url"} \subseteq DOMAIN Fields(archive, v, runs[n].settled)
     /\ runs[n].doi = NoDOI \/ Applicable(n)
StillCurrent(n) == /\ Current(archive, runs[n].paper) = runs[n].version
                   /\ archive.versions[runs[n].version].doi = runs[n].doi

\* The evidence of the mapping of a paper.
Evidence(paper) ==
  LET v == Current(archive, paper)  k == Revision(archive, v)
  IN [version |-> v, revision |-> k, fingerprint |-> Fingerprint(archive, v, k)]
CanBeMapped(paper) ==
  LET v == Current(archive, paper) IN Mapped(archive, v, Revision(archive, v))

\* A screening of the boundary ends well: a success per fingerprint.
BoundarySucceeds(n, verdict, executor) ==
  /\ n \in DOMAIN runs /\ CanBeMapped(runs[n].paper)
  /\ LET print == Evidence(runs[n].paper).fingerprint
     IN /\ \A s \in successes : s.fingerprint # print
        /\ successes' = successes \cup
             {[fingerprint |-> print, verdict |-> verdict, executor |-> executor]}
  /\ UNCHANGED <<paperVars, metadataVars, receipts, proofs, registrars>>

ProofOf(key) == {p \in proofs : p.key = key}
ReceiptOf(id) == {x \in receipts : x.id = id}
Moves(c, frame) == registrars' = [registrars EXCEPT ![c] = frame]
Reads(c) == UNCHANGED <<paperVars, metadataVars, successes, receipts, proofs>>

\* A known registration is only verified; the metadata has to be complete.
ReadMetadata(c, id, n, success, purpose) ==
  LET key == [id |-> id, run |-> n, success |-> success, purpose |-> purpose]
  IN /\ registrars[c] = Idle /\ n \in DOMAIN runs
     /\ ProofOf(key) = {} /\ MinimumComplete(n) /\ StillCurrent(n)
     /\ Moves(c, [at |-> "metadata", key |-> key])
     /\ Reads(c)

\* PaperFacts.show: stale metadata is refused.
ShowPaper(c) ==
  LET n == registrars[c].key.run
      facts == Evidence(runs[n].paper)
  IN /\ registrars[c].at = "metadata"
     /\ Moves(c, IF <<facts.version, facts.revision>> = <<runs[n].version, runs[n].settled>>
                 THEN [at |-> "shown", key |-> registrars[c].key] ELSE Idle)
     /\ Reads(c)

\* query_successes and load_success: a current success that is in scope.
FindBoundary(c) ==
  LET key == registrars[c].key
      paper == runs[key.run].paper
      fits == /\ CanBeMapped(paper)
              /\ Evidence(paper).fingerprint = key.success.fingerprint
              /\ key.success.verdict = "in_scope"
              /\ key.purpose = "production" => key.success.executor = "pi_rpc"
  IN /\ registrars[c].at = "shown"
     /\ Moves(c, IF fits THEN [at |-> "gated", key |-> key] ELSE Idle)
     /\ Reads(c)

\* ScreeningTasks._register: an exact retry, or the mapping in its own reading.
MapValue(c) ==
  LET key == registrars[c].key
      paper == runs[key.run].paper
  IN /\ registrars[c].at = "gated"
     /\ Moves(c, IF ReceiptOf(key.id) = {} /\ CanBeMapped(paper)
                 THEN [at |-> "mapped", key |-> key, evidence |-> Evidence(paper)] ELSE Idle)
     /\ Reads(c)

Gate(key) == [version |-> runs[key.run].version, revision |-> runs[key.run].settled,
              fingerprint |-> key.success.fingerprint]
MayRegisterBlindly(key, evidence) ==
  /\ ReceiptOf(key.id) = {}
  /\ evidence = Gate(key)
\* The write transaction: the evidence is that of the gate, and still current.
MayRegister(key, evidence) ==
  /\ ReceiptOf(key.id) = {}
  /\ evidence = Gate(key)
  /\ Evidence(runs[key.run].paper) = evidence
RegisterValue(c) ==
  LET key == registrars[c].key
      evidence == registrars[c].evidence
      receipt == [id |-> key.id, version |-> evidence.version, revision |-> evidence.revision,
                  fingerprint |-> evidence.fingerprint]
  IN /\ registrars[c].at = "mapped"
     /\ IF MayRegister(key, evidence)
        THEN /\ receipts' = receipts \cup {receipt}
             /\ proofs' = proofs \cup {[key |-> key, gate |-> Gate(key), receipt |-> receipt]}
        ELSE UNCHANGED <<receipts, proofs>>
     /\ Moves(c, Idle)
     /\ UNCHANGED <<paperVars, metadataVars, successes>>

StopRegistrar(c) == registrars[c] # Idle /\ Moves(c, Idle) /\ Reads(c)

PipelineInit == /\ successes = {} /\ receipts = {} /\ proofs = {}
                /\ registrars = [c \in Registrars |-> Idle]
PipelineNext ==
  \/ MetadataNext /\ UNCHANGED pipelineVars
  \/ \E n \in DOMAIN runs, verdict \in {"in_scope", "out_of_scope"}, executor \in {"pi_rpc", "test"} :
       BoundarySucceeds(n, verdict, executor)
  \/ \E c \in Registrars :
       \/ \E id \in ManualIds, n \in DOMAIN runs, success \in successes, purpose \in Purposes :
            ReadMetadata(c, id, n, success, purpose)
       \/ ShowPaper(c) \/ FindBoundary(c) \/ MapValue(c) \/ RegisterValue(c) \/ StopRegistrar(c)

-------------------------------------------------------------------------------
(* Properties *)

\* A registration rests on one state of the facts although its basis was read in
\* five transactions: when its row appears, the revision of its settled metadata
\* is the current one, and the boundary success was given for the very text of
\* that revision.
RegisteredOnCurrentFacts ==
  [][\A p \in proofs' \ proofs :
       LET n == p.key.run
       IN /\ Evidence(runs[n].paper) = p.gate
          /\ MinimumComplete(n) /\ p.gate.revision = runs[n].settled
          /\ p.key.success \in successes /\ p.key.success.verdict = "in_scope"
    ]_<<paperVars, metadataVars, pipelineVars>>

\* A preparation goes through whatever was done before it (service.py:115): two
\* processes that resume one check never take each other's outcome of an item for
\* a corrupt reference (feed_ingestion/service.py:395), and material fetched and
\* published for a run is never refused by the paper facts when it is committed
\* later, twice, or for a second run (feed_metadata/service.py:378).  Both hold as
\* long as one version of the parser and of the abstract rules is in use.
PreparationsGoThrough ==
  /\ Cardinality({checks[n].parser : n \in DOMAIN checks}) <= 1 =>
       \A c \in Resumers : resumers[c].at # "corrupt"
  /\ Cardinality({runs[n].rules : n \in DOMAIN runs}) <= 1 =>
       \A c \in Enrichers : enrichers[c].at # "failed"

\* FeedPipeline.validate_all accepts every history.  A run replays whoever fetched
\* and committed its routes: a settled one has exactly the routes that the first
\* answer of the agency asks for, all committed, and its revision, read in a
\* transaction of its own, is not older than any acquisition of its routes
\* (feed_metadata/service.py:244).  A registration is what _verify_basis derives
\* from that run, whatever is observed, bound or enriched later (service.py:257).
PipelineValidates ==
  /\ \A n \in DOMAIN runs :
       /\ \A route \in DOMAIN runs[n].routes : RouteAccepted(n, route)
       /\ runs[n].settled # 0 =>
            /\ DOMAIN runs[n].routes = Expected(n)
            /\ \A route \in Expected(n) : runs[n].routes[route].committed
            /\ runs[n].settled \in 1..Revision(archive, runs[n].version)
  /\ \A p \in proofs :
       LET n == p.key.run
       IN /\ p.gate = [version |-> runs[n].version, revision |-> runs[n].settled,
                       fingerprint |-> Fingerprint(archive, runs[n].version, runs[n].settled)]
          /\ MinimumComplete(n) /\ p.receipt \in receipts
          /\ p.receipt.fingerprint = p.key.success.fingerprint /\ p.key.success \in successes
          /\ \A q \in proofs : q.receipt = p.receipt => q = p
=============================================================================
