------------------------------ MODULE FeedMetadata ------------------------------
(***************************************************************************)
(* Metadata of feed papers (src/paper_radar/feed_metadata): a run freezes  *)
(* the current version of a paper, asks the DOI agency, the registry it    *)
(* names and the publisher, and commits what they deliver to the paper     *)
(* facts.  Any process may resume a run, also beside one that executes it. *)
(***************************************************************************)
EXTENDS Papers

CONSTANTS
  Enrichers,     \* processes that enrich or resume
  RunIds,        \* request ids of runs
  Rules,         \* versions of the abstract rules, which are parser versions
  Agencies,      \* what the DOI agency may answer; "none" stands for a failure
  Pages,         \* payloads a source may deliver; 0 for nothing usable
  Extract,       \* Extract[payload][rules]: the fields the rules find in it
  Discovered     \* observations other processes make meanwhile

Registries == {"Crossref", "DataCite"}
Routes == {"doi_ra", "publisher"} \cup Registries
ASSUME MetadataAssumption ==
  /\ Rules \subseteq Nat \ {0} /\ Pages \subseteq Nat
  /\ \A r \in Discovered : r.source \in {"feed", "publisher"}

VARIABLES
  runs,        \* feed_metadata_requests and feed_metadata_routes
  enrichers    \* the Python frame of each _enrich or _resume

metadataVars == <<runs, enrichers>>

RunOf(id) == {n \in DOMAIN runs : runs[n].id = id}
Current(a, paper) == Last(SelectionsOf(a, paper))
Revision(a, v) == Len(RevisionsOf(a, v))
DiscoveredBy(a, v) == \E d \in a.discoveries : a.entries[d.entry] = v

Step(at, n) == [at |-> at, run |-> n]
OnRoute(at, n, route) == [at |-> at, run |-> n, route |-> route]
Enters(c, frame) == enrichers' = [enrichers EXCEPT ![c] = frame]

\* _enrich: one write transaction; the basis of a run is frozen.
Enrich(c, id, paper, rules) ==
  /\ enrichers[c] = Idle
  /\ \/ /\ RunOf(id) = {} /\ SelectionsOf(archive, paper) # <<>>
        /\ LET v == Current(archive, paper)
           IN /\ DiscoveredBy(archive, v) /\ archive.versions[v].kind = "journal"
              /\ runs' = Append(runs,
                   [id |-> id, paper |-> paper, version |-> v, doi |-> archive.versions[v].doi,
                    revision |-> Revision(archive, v), rules |-> rules, settled |-> 0,
                    routes |-> [route \in {} |-> 0]])
        /\ Enters(c, Step("registered", Len(runs) + 1))
     \/ \E n \in RunOf(id) :
          /\ runs[n].paper = paper /\ runs[n].rules = rules
          /\ Enters(c, Step("registered", n)) /\ UNCHANGED runs
  /\ UNCHANGED paperVars

\* _resume: a settled run is only replayed.
ResumeRun(c, n) ==
  /\ n \in DOMAIN runs /\ enrichers[c] \in {Idle, Step("registered", n)}
  /\ Enters(c, IF runs[n].settled # 0 THEN Idle
               ELSE IF runs[n].doi = NoDOI THEN Step("routed", n) ELSE OnRoute("route", n, "doi_ra"))
  /\ UNCHANGED <<paperVars, runs>>

\* After a route: the registry is the one of the stored answer of the agency.
After(n, route, view) ==
  IF route = "doi_ra" /\ view.agency \in Registries THEN OnRoute("route", n, view.agency)
  ELSE IF route = "publisher" THEN Step("routed", n)
  ELSE OnRoute("route", n, "publisher")
Continue(n, route, view) ==
  IF view.committed THEN After(n, route, view) ELSE OnRoute("submit", n, route)

LookAtRoute(c) ==
  LET n == enrichers[c].run  route == enrichers[c].route
  IN /\ enrichers[c].at = "route"
     /\ Enters(c, IF route \in DOMAIN runs[n].routes
                  THEN Continue(n, route, runs[n].routes[route]) ELSE OnRoute("fetch", n, route))
     /\ UNCHANGED <<paperVars, runs>>

\* What a fetch makes of the answer; usable material is published as an artifact.
Views(n, route) ==
  LET View(agency, payload) == [agency |-> agency, payload |-> payload, acquisition |-> 0,
                                committed |-> payload = 0]
      kept(p) == p # 0 /\ DOMAIN Extract[p][runs[n].rules] # {}
  IN IF route = "doi_ra" THEN {View(agency, 0) : agency \in Agencies}
     ELSE {View("none", IF kept(p) THEN p ELSE 0) : p \in Pages}

PutRouteAnew(n, route, view) ==
  [runs EXCEPT ![n].routes =
     [x \in DOMAIN @ \cup {route} |-> IF x = route THEN view ELSE @[x]]]
\* put_route keeps the view that came first, and the worker goes on with that one.
PutRoute(n, route, view) ==
  IF route \in DOMAIN runs[n].routes THEN runs
  ELSE [runs EXCEPT ![n].routes =
          [x \in DOMAIN @ \cup {route} |-> IF x = route THEN view ELSE @[x]]]
FetchRoute(c) ==
  LET n == enrichers[c].run  route == enrichers[c].route
  IN /\ enrichers[c].at = "fetch"
     /\ \E view \in Views(n, route) :
          /\ runs' = PutRoute(n, route, view)
          /\ Enters(c, Continue(n, route, runs'[n].routes[route]))
     /\ UNCHANGED paperVars

\* The observation of a route: its time is the one of the run.
RouteObservation(n, route) ==
  LET payload == runs[n].routes[route].payload
  IN [source |-> IF route = "publisher" THEN "publisher" ELSE "registry",
      stream |-> CASE route = "publisher" -> 100 [] route = "Crossref" -> 101 [] OTHER -> 102,
      doi |-> runs[n].doi, kind |-> "journal", at |-> 10 + n, payload |-> payload,
      parser |-> runs[n].rules,
      fields |-> [f \in DOMAIN Extract[payload][runs[n].rules] \cup {"source_url"} |->
                    IF f = "source_url" THEN payload ELSE Extract[payload][runs[n].rules][f]],
      relations |-> {}, target |-> [paper |-> runs[n].paper, version |-> runs[n].version]]

SubmitRoute(c) ==
  LET n == enrichers[c].run  route == enrichers[c].route
  IN /\ enrichers[c].at = "submit"
     /\ \E outcome \in {ObservationOutcome(archive, RouteObservation(n, route), TRUE)} :
          /\ Within(outcome.archive)
          /\ archive' = outcome.archive
          /\ Enters(c, IF Accepted(outcome.answer)
                       THEN [at |-> "commit", run |-> n, route |-> route,
                             acquisition |-> outcome.answer.acquisition]
                       ELSE Step("failed", n))
     /\ UNCHANGED <<submitters, answers, runs>>

CommitRoute(c) ==
  LET n == enrichers[c].run  route == enrichers[c].route
  IN /\ enrichers[c].at = "commit"
     /\ runs' = [runs EXCEPT ![n].routes[route] =
                   [@ EXCEPT !.committed = TRUE, !.acquisition = enrichers[c].acquisition]]
     /\ Enters(c, After(n, route, runs[n].routes[route]))
     /\ UNCHANGED paperVars

\* The revision is read in one transaction and stored, once, in another.
ReadRevision(c) ==
  LET n == enrichers[c].run
  IN /\ enrichers[c].at = "routed"
     /\ Enters(c, [at |-> "settling", run |-> n, revision |-> Revision(archive, runs[n].version)])
     /\ UNCHANGED <<paperVars, runs>>
SettleRun(c) ==
  LET n == enrichers[c].run
  IN /\ enrichers[c].at = "settling"
     /\ runs' = IF runs[n].settled = 0 THEN [runs EXCEPT ![n].settled = enrichers[c].revision]
                ELSE runs
     /\ Enters(c, Idle)
     /\ UNCHANGED paperVars

StopEnricher(c) ==
  /\ enrichers[c] # Idle
  /\ Enters(c, Idle)
  /\ UNCHANGED <<paperVars, runs>>

\* Another process submits to the paper facts.
OthersObserve(r) ==
  /\ \E outcome \in {IF r.source = "feed" THEN ItemOutcome(archive, r)
                     ELSE ObservationOutcome(archive, r, TRUE)} :
       /\ Within(outcome.archive)
       /\ archive' = outcome.archive
  /\ UNCHANGED <<submitters, answers, runs, enrichers>>

MetadataInit == runs = <<>> /\ enrichers = [c \in Enrichers |-> Idle]
MetadataNext ==
  \/ \E c \in Enrichers :
       \/ \E id \in RunIds, rules \in Rules, paper \in DOMAIN archive.versions :
            Enrich(c, id, paper, rules)
       \/ \E n \in DOMAIN runs : ResumeRun(c, n)
       \/ LookAtRoute(c) \/ FetchRoute(c) \/ SubmitRoute(c) \/ CommitRoute(c)
       \/ ReadRevision(c) \/ SettleRun(c) \/ StopEnricher(c)
  \/ \E r \in Discovered : OthersObserve(r)
  \/ RegisterFeed /\ UNCHANGED metadataVars

-------------------------------------------------------------------------------
(* What a replay accepts *)

Applicable(n) ==
  /\ "doi_ra" \in DOMAIN runs[n].routes /\ runs[n].routes["doi_ra"].agency \in Registries
Expected(n) ==
  IF runs[n].doi = NoDOI THEN {}
  ELSE {"doi_ra", "publisher"} \cup
       (IF Applicable(n) THEN {runs[n].routes["doi_ra"].agency} ELSE {})
\* _verify_route and _verify_route_closure
RouteAccepted(n, route) ==
  LET view == runs[n].routes[route]
  IN /\ view.committed => (view.payload = 0 <=> view.acquisition = 0)
     /\ view.acquisition # 0 =>
          LET q == archive.acquisitions[view.acquisition]
          IN /\ q.version = runs[n].version /\ q.request.payload = view.payload
             /\ q.request.parser = runs[n].rules
             /\ runs[n].settled # 0 => q.revision <= runs[n].settled
=============================================================================
