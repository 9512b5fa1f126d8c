------------------------------ MODULE FixtureAudit ------------------------------
(***************************************************************************)
(* One audit plan (src/paper_radar/fixture_audit): executions of source     *)
(* routes under the lock of the plan, the sampling of a member from a       *)
(* frozen feed, the matrix of its routes with continued executions, and     *)
(* declarations that refer to the summary of a complete audit.              *)
(***************************************************************************)
EXTENDS Integers, FiniteSets, SequencesExt

CONSTANTS
  Auditors,                  \* processes that run, resume, acquire or declare
  MaxExecutions, MaxEvents   \* bounds on the histories

Nobody == "nobody"
ASSUME AuditorAssumption == Nobody \notin Auditors

\* One journal whose feed has one candidate with a DOI: the feed, the agency of
\* the DOI, the page of the publisher.
AuditRoutes == <<"feed", "doi_ra", "publisher">>
\* What a route may settle as, one for each decision that follows from it.
\* "acquired_unparsable" is an acquired feed that the parser refuses; "temporary"
\* stands for the temporary failures other than an unknown outcome.
Outcomes(r) ==
  CASE r = "feed" -> {"acquired", "acquired_unparsable", "temporary"}
    [] r = "doi_ra" -> {"acquired", "identity_mismatch", "not_found", "temporary"}
    [] r = "publisher" -> {"acquired", "temporary"}
Reasons == UNION {Outcomes(r) : r \in ToSet(AuditRoutes)}
AtWork == {"start", "sampling", "matrix", "fetching"}

VARIABLES
  audit,        \* the rows of one plan
  auditors,     \* the Python frame of each process
  planLock      \* who holds the lock file of the plan

auditVars == <<audit, auditors, planLock>>

-------------------------------------------------------------------------------
(* Queries *)

Executions(a) == DOMAIN a.executions
RequestOf(a, n) == a.executions[n].request
ReasonOf(a, n) == a.executions[n].reason
IsOpen(a, n) == ReasonOf(a, n) = "none"
LostNever(a, n) == FALSE
Lost(a, n) == n # 0 /\ IsOpen(a, n)
CanContinue(a, n) == ReasonOf(a, n) \in {"none", "temporary", "outcome_unknown"}
Continuations(a, n) == {k \in Executions(a) : a.executions[k].previous = n}
WithKey(a, key) == {n \in Executions(a) : a.executions[n].key = key}
Latest(S) == Max({0} \cup S)

\* project_journal
Finals(a) == {e \in DOMAIN a.events : a.events[e].result \in {"selected", "excluded"}}
SamplingComplete(a) == a.feed # 0 /\ Finals(a) # {}
SamplingBlocked(a) == a.events # <<>> /\ Last(a.events).result = "blocked"
SelectedBy(a) == {e \in DOMAIN a.events : a.events[e].result = "selected"}

\* retained_acquisition, or the first execution of the matrix; 0 for none.
Root(a, r) ==
  CASE r = "feed" -> a.feed
    [] r = "doi_ra" -> Max({a.events[e].execution : e \in SelectedBy(a)})
    [] r = "publisher" -> Latest(WithKey(a, <<"matrix", r, 0>>))
\* For each execution the ones that continue it, in order.
Continued(a) ==
  LET after[n \in 0..Len(a.executions)] ==
        IF n = 0 THEN <<>>
        ELSE <<n>> \o after[Latest(Continuations(a, n))]
  IN after
Chain(a, r) == Continued(a)[Root(a, r)]
\* The part of it that a row shows: only continuations of the matrix itself.
ShownChain(a, r) ==
  LET chain == Chain(a, r)
      ofMatrix(i) == \A j \in 2..i : a.executions[chain[j]].key = <<"matrix", r, j - 1>>
  IN SubSeq(chain, 1, Max({i \in 0..Len(chain) : ofMatrix(i)}))
RowsOf(a, r) == {k \in DOMAIN a.rows : a.rows[k].request = r}
Interpreted(a, r) == {a.rows[k].acquisition : k \in RowsOf(a, r)}

\* project, with pending_row: the row of a route as it is shown, from the last
\* execution of its shown chain and its interpreted rows.
ShownRow(a, r) ==
  LET shown == ShownChain(a, r)
      n == IF shown = <<>> THEN 0 ELSE Last(shown)
      rows == RowsOf(a, r)
      interpreted == n # 0 /\ rows # {} /\ a.rows[Max(rows)].acquisition = n
  IN [acquisition |-> n, pending |-> ~interpreted,
      generation |-> IF n = 0 THEN 1
                     ELSE Cardinality(rows) + (IF interpreted THEN 0 ELSE 1)]
Matrix(a) == IF SelectedBy(a) = {} THEN <<>> ELSE [i \in DOMAIN AuditRoutes |-> ShownRow(a, AuditRoutes[i])]
AuditComplete(a) ==
  SamplingComplete(a) /\ \A i \in DOMAIN Matrix(a) : ~Matrix(a)[i].pending

-------------------------------------------------------------------------------
(* What the loaders accept *)

\* load_audits
ExecutionAccepted(a, n) ==
  LET x == a.executions[n]  p == a.executions[n].previous
  IN /\ p # 0 => /\ p < n /\ RequestOf(a, p) = x.request /\ ~IsOpen(a, p)
                 /\ Continuations(a, p) = {n}
     /\ x.key[1] = "sample" =>
          IF x.key[3] = 1 THEN p = 0
          ELSE /\ p # 0 /\ a.executions[p].key = <<"sample", x.request, x.key[3] - 1>>
               /\ x.request = "feed" \/ CanContinue(a, p)
     /\ x.key[1] = "matrix" /\ x.key[3] > 0 =>
          /\ p # 0 /\ CanContinue(a, p)
          /\ x.key[3] > 1 => a.executions[p].key = <<"matrix", x.request, x.key[3] - 1>>

SeenReason(a, n) == IF IsOpen(a, n) THEN "outcome_unknown" ELSE ReasonOf(a, n)
\* evaluate_candidate, for the agency of the DOI.
Verdict(reason) ==
  CASE reason = "acquired" -> "selected"
    [] reason = "identity_mismatch" -> "excluded"
    [] OTHER -> "blocked"
\* load_sampling, and the replay of each choice by validate_all
ChoiceAccepted(a, e) ==
  LET x == a.events[e]
  IN /\ RequestOf(a, x.execution) = x.of /\ x.reason = SeenReason(a, x.execution)
     /\ x.of = "doi_ra" => /\ a.feed # 0 /\ \A f \in Finals(a) : f >= e
                           /\ x.result = Verdict(ReasonOf(a, x.execution))
     /\ x.of = "feed" => x.result = "blocked"

\* load_abstracts
RowAccepted(a, k) ==
  LET x == a.rows[k]  p == a.rows[k].previous
  IN /\ SelectedBy(a) # {} /\ RequestOf(a, x.acquisition) = x.request
     /\ ~IsOpen(a, x.acquisition)
     /\ p = Latest({q \in 1..(k - 1) : a.rows[q].request = x.request})
     /\ IF p = 0 THEN x.generation = 1 /\ x.acquisition = Root(a, x.request)
        ELSE /\ x.generation = a.rows[p].generation + 1
             /\ a.executions[x.acquisition].previous = a.rows[p].acquisition
             /\ CanContinue(a, a.rows[p].acquisition)

AuditsLoad(a) == \A n \in Executions(a) : ExecutionAccepted(a, n)
SamplingLoads(a) ==
  /\ AuditsLoad(a)
  /\ a.feed # 0 => RequestOf(a, a.feed) = "feed" /\ ReasonOf(a, a.feed) = "acquired"
  /\ \A e \in DOMAIN a.events : ChoiceAccepted(a, e)
AbstractsLoad(a) == SamplingLoads(a) /\ \A k \in DOMAIN a.rows : RowAccepted(a, k)

-------------------------------------------------------------------------------
(* Executions *)

AtEase == [at |-> "idle"]
Puts(c, frame) == auditors' = [auditors EXCEPT ![c] = frame]
Leave(c) == planLock' = IF planLock = c THEN Nobody ELSE planLock

\* _require_new_execution, for a request whose shown row is given.
ShownFor(a, r) ==
  IF SelectedBy(a) = {} THEN [acquisition |-> 0, generation |-> 1] ELSE ShownRow(a, r)
AlreadySettled(a, key, r, previous, shown) ==
  IF previous # 0 /\ shown.acquisition = previous /\ CanContinue(a, previous)
  THEN key # <<"matrix", r, shown.generation>>
  ELSE AuditComplete(a) \/ shown.acquisition # 0 \/ (r = "feed" /\ a.feed # 0)
MayFollow(a, r, previous) ==
  previous # 0 =>
    RequestOf(a, previous) = r /\ ~IsOpen(a, previous) /\ Continuations(a, previous) = {}

WithExecution(a, key, r, previous) ==
  [a EXCEPT !.executions =
     Append(@, [key |-> key, request |-> r, previous |-> previous, reason |-> "none"])]
\* The caller gets an error; what it wrote is rolled back.
Refused(c, r, previous) ==
  /\ Puts(c, [at |-> "refused", request |-> r, previous |-> previous]) /\ Leave(c)
  /\ UNCHANGED audit

\* _acquire_source up to the fetch; x is the frame to return to.
StartExecution(c, key, r, previous, x) ==
  IF /\ ~AlreadySettled(audit, key, r, previous, ShownFor(audit, r))
     /\ MayFollow(audit, r, previous) /\ AuditsLoad(WithExecution(audit, key, r, previous))
  THEN /\ Len(audit.executions) < MaxExecutions
       /\ audit' = WithExecution(audit, key, r, previous)
       /\ Puts(c, [at |-> "fetching", execution |-> Len(audit.executions) + 1, then |-> x])
       /\ UNCHANGED planLock
  ELSE Refused(c, r, previous)

\* The row of the settlement; a second one violates the primary key.
WithSettlement(a, n, reason) == [a EXCEPT !.executions[n].reason = reason]
SettleExecution(c, reason) ==
  LET x == auditors[c]
  IN /\ auditors[c].at = "fetching"
     /\ reason \in Outcomes(RequestOf(audit, x.execution))
     /\ \/ /\ IsOpen(audit, x.execution)
           /\ audit' = WithSettlement(audit, x.execution, reason)
           /\ Puts(c, IF x.then = AtEase THEN AtEase ELSE [x.then EXCEPT !.got = x.execution])
           /\ IF x.then = AtEase THEN Leave(c) ELSE UNCHANGED planLock
        \/ /\ ~IsOpen(audit, x.execution)
           /\ Refused(c, RequestOf(audit, x.execution), x.execution)

\* acquire_source by itself, under the lock, with a key of its own.
AcquireSource(c, r, previous) ==
  /\ auditors[c] = AtEase /\ planLock = Nobody
  /\ ~AlreadySettled(audit, <<"own", r, 1>>, r, previous, ShownFor(audit, r))
  /\ MayFollow(audit, r, previous)
  /\ WithKey(audit, <<"own", r, 1>>) = {} /\ Len(audit.executions) < MaxExecutions
  /\ audit' = WithExecution(audit, <<"own", r, 1>>, r, previous)
  /\ Puts(c, [at |-> "fetching", execution |-> Len(audit.executions) + 1, then |-> AtEase])
  /\ planLock' = c

\* A kill, an executor that raises, or an answer that is lost.
StopAuditor(c) ==
  /\ auditors[c].at \in AtWork \cup {"captured"}
  /\ Puts(c, AtEase) /\ Leave(c)
  /\ UNCHANGED audit

-------------------------------------------------------------------------------
(* Sampling *)

\* run_audit and resume_audit: the lock is not waited for.
EnterShared(c, continuing) ==
  /\ auditors[c] = AtEase
  /\ planLock' = c
  /\ Puts(c, [at |-> "start", continuing |-> continuing])
  /\ UNCHANGED audit
Enter(c, continuing) ==
  /\ auditors[c] = AtEase /\ planLock = Nobody
  /\ planLock' = c
  /\ Puts(c, [at |-> "start", continuing |-> continuing])
  /\ UNCHANGED audit

\* The frames of the sampling and of the route i of the matrix.
Sampling(continuing) == [at |-> "sampling", continuing |-> continuing, got |-> 0]
InMatrix(continuing, i, existed) ==
  [at |-> "matrix", continuing |-> continuing, got |-> 0, route |-> i,
   existed |-> existed, resumed |-> FALSE]
Existed(a, i) == Root(a, AuditRoutes[i]) # 0
ToRoute(c, a, continuing, i) ==
  IF i \in DOMAIN Matrix(a)
  THEN Puts(c, InMatrix(continuing, i, Existed(a, i))) /\ UNCHANGED planLock
  ELSE Puts(c, AtEase) /\ Leave(c)

Skips(a, continuing) == SamplingComplete(a) \/ (SamplingBlocked(a) /\ ~continuing)
StartSampling(c) ==
  LET x == auditors[c]
  IN /\ auditors[c].at = "start"
     /\ UNCHANGED audit
     /\ IF Skips(audit, x.continuing) THEN ToRoute(c, audit, x.continuing, 1)
        ELSE Puts(c, Sampling(x.continuing)) /\ UNCHANGED planLock

\* _route: the execution that answers a route of the sampling, 0 to acquire one.
SampleMatches(a, r) ==
  {n \in Executions(a) : a.executions[n].key[1] = "sample" /\ RequestOf(a, n) = r}
Reusable(a, r) ==
  {n \in Executions(a) : /\ RequestOf(a, n) = r /\ r # "feed"
                         /\ ReasonOf(a, n) \in {"acquired", "not_found", "identity_mismatch"}}
AnswerFor(a, r, continuing, got) ==
  IF got # 0 THEN got
  ELSE IF SampleMatches(a, r) = {} THEN Latest(Reusable(a, r))
  ELSE IF continuing /\ (r = "feed" \/ CanContinue(a, Latest(SampleMatches(a, r)))) THEN 0
  ELSE Latest(SampleMatches(a, r))
SamplingRoute(a) == IF a.feed = 0 THEN "feed" ELSE "doi_ra"

AcquireForSample(c) ==
  LET x == auditors[c]
      r == SamplingRoute(audit)
      last == Latest(SampleMatches(audit, r))
      key == <<"sample", r, Cardinality(SampleMatches(audit, r)) + 1>>
  IN /\ auditors[c].at = "sampling" /\ AnswerFor(audit, r, x.continuing, x.got) = 0
     /\ \/ /\ Lost(audit, last)
           /\ audit' = WithSettlement(audit, last, "outcome_unknown")
           /\ UNCHANGED <<auditors, planLock>>
        \/ /\ ~Lost(audit, last)
           /\ StartExecution(c, key, r, last, x)

WithEvent(a, r, n) ==
  [a EXCEPT !.events = Append(@, [of |-> r, execution |-> n, reason |-> SeenReason(a, n),
     result |-> IF r = "feed" THEN "blocked" ELSE Verdict(ReasonOf(a, n))])]
\* The feed is frozen, or an event is appended; one transaction.
RecordSample(c) ==
  LET x == auditors[c]  r == SamplingRoute(audit)
  IN /\ auditors[c].at = "sampling" /\ AnswerFor(audit, r, x.continuing, x.got) # 0
     /\ \E n \in {AnswerFor(audit, r, x.continuing, x.got)} :
          IF r = "feed" /\ ReasonOf(audit, n) = "acquired"
          THEN /\ audit' = [audit EXCEPT !.feed = n]
               /\ Puts(c, Sampling(x.continuing)) /\ UNCHANGED planLock
          ELSE /\ Len(audit.events) < MaxEvents
               /\ audit' = WithEvent(audit, r, n)
               /\ ToRoute(c, audit', x.continuing, 1)
     /\ SamplingLoads(audit')
RefuseSample(c) ==
  LET x == auditors[c]  r == SamplingRoute(audit)
  IN /\ auditors[c].at = "sampling"
     /\ \E n \in {AnswerFor(audit, r, x.continuing, x.got)} :
          /\ n # 0
          /\ ~SamplingLoads(IF r = "feed" /\ ReasonOf(audit, n) = "acquired"
                            THEN [audit EXCEPT !.feed = n] ELSE WithEvent(audit, r, n))
     /\ Refused(c, r, 0)

-------------------------------------------------------------------------------
(* Matrix *)

\* The places of a chain whose executions have no row yet.
ToInterpret(a, r) == {i \in DOMAIN Chain(a, r) : Chain(a, r)[i] \notin Interpreted(a, r)}
WithRow(a, r, n) ==
  [a EXCEPT !.rows = Append(@,
     [request |-> r, acquisition |-> n, generation |-> Cardinality(RowsOf(a, r)) + 1,
      previous |-> Latest(RowsOf(a, r))])]

FillMatrix(c) ==
  /\ auditors[c].at = "matrix"
  /\ LET x == auditors[c]
         r == AuditRoutes[x.route]
     IN \E chain \in {Chain(audit, r)}, waiting \in {ToInterpret(audit, r)} :
        LET first == chain[Min(waiting)] IN
        \/ \* acquire_source for a route nobody has executed
           /\ chain = <<>> /\ StartExecution(c, <<"matrix", r, 0>>, r, 0, x)
        \/ \* close_unknown_source
           /\ waiting # {} /\ IsOpen(audit, first) /\ x.continuing
           /\ audit' = WithSettlement(audit, first, "outcome_unknown")
           /\ UNCHANGED <<auditors, planLock>>
        \/ \* _interpret, _append
           /\ waiting # {} /\ ~IsOpen(audit, first)
           /\ IF AbstractsLoad(WithRow(audit, r, first))
              THEN /\ audit' = WithRow(audit, r, first)
                   /\ UNCHANGED <<auditors, planLock>>
              ELSE Refused(c, r, first)
        \/ \* the execution that continues the last one
           /\ chain # <<>> /\ waiting = {}
           /\ x.continuing /\ x.existed /\ ~x.resumed /\ CanContinue(audit, Last(chain))
           /\ StartExecution(c, <<"matrix", r, Len(chain)>>, r, Last(chain),
                             [x EXCEPT !.resumed = TRUE])
        \/ \* the next route
           /\ chain # <<>>
           /\ \/ waiting # {} /\ IsOpen(audit, first) /\ ~x.continuing
              \/ /\ waiting = {}
                 /\ ~(x.continuing /\ x.existed /\ ~x.resumed /\ CanContinue(audit, Last(chain)))
           /\ ToRoute(c, audit, x.continuing, x.route + 1)
           /\ UNCHANGED audit

-------------------------------------------------------------------------------
(* Declarations *)

\* boundary_for
Boundary(a) ==
  [executions |-> a.executions, rows |-> Len(a.rows), feed |-> a.feed,
   events |-> Len(a.events), shown |-> Matrix(a)]
\* _capture_references, outside the write transaction and without the lock.
CaptureSummary(c) ==
  /\ auditors[c] = AtEase /\ AuditComplete(audit)
  /\ Puts(c, [at |-> "captured", boundary |-> Boundary(audit)])
  /\ UNCHANGED <<audit, planLock>>

\* The view as it was at a boundary.
Truncated(a, b) ==
  [a EXCEPT !.executions = [n \in DOMAIN b.executions |->
               IF b.executions[n].reason = "none" THEN [@[n] EXCEPT !.reason = "none"] ELSE @[n]],
            !.rows = SubSeq(@, 1, b.rows)]
\* load_summary
SummaryLoads(a, b) ==
  /\ b.feed = a.feed /\ b.events = Len(a.events) /\ b.rows <= Len(a.rows)
  /\ Len(b.executions) <= Len(a.executions)
  /\ \E past \in {Truncated(a, b)} :
       past.executions = b.executions /\ AuditComplete(past) /\ Matrix(past) = b.shown
RegisterDeclaration(c) ==
  /\ auditors[c].at = "captured"
  /\ IF SummaryLoads(audit, auditors[c].boundary)
     THEN /\ audit' = [audit EXCEPT !.summaries = @ \cup {auditors[c].boundary}]
          /\ Puts(c, AtEase) /\ UNCHANGED planLock
     ELSE Refused(c, "summary", 0)

AuditInit ==
  /\ audit = [executions |-> <<>>, feed |-> 0, events |-> <<>>, rows |-> <<>>, summaries |-> {}]
  /\ auditors = [c \in Auditors |-> AtEase]
  /\ planLock = Nobody

AuditNext ==
  \E c \in Auditors :
    \/ \E continuing \in BOOLEAN : Enter(c, continuing)
    \/ \E r \in ToSet(AuditRoutes), previous \in 0..Len(audit.executions) : AcquireSource(c, r, previous)
    \/ \E reason \in Reasons : SettleExecution(c, reason)
    \/ StartSampling(c) \/ AcquireForSample(c) \/ RecordSample(c) \/ RefuseSample(c) \/ FillMatrix(c)
    \/ CaptureSummary(c) \/ RegisterDeclaration(c) \/ StopAuditor(c)

AuditSpec == AuditInit /\ [][AuditNext]_auditVars

-------------------------------------------------------------------------------
(* What must hold *)

\* Whatever runs, resumes, direct acquisitions and kills follow on each other,
\* the loaders accept the history of the plan: the chains of executions, the
\* events with the reasons they saw, the generations of the matrix
\* (fixture_audit/acquisition_records.py:40, sampling_records.py:86,
\* abstract_records.py:30); and a declaration that was registered on a summary
\* finds it unchanged however the audit goes on (summary_records.py:72).
AuditIsAccepted ==
  AbstractsLoad(audit) /\ \A b \in audit.summaries : SummaryLoads(audit, b)

\* No run, resume or declaration of the service is refused by its own history:
\* the executions it starts, continues and settles are the ones the public entry
\* allows (acquisition_service.py:149, :218), even after kills; unless somebody
\* continued an execution of the sampling under a key of his own.
AuditsGoThrough ==
  \A c \in Auditors :
    auditors[c].at = "refused" =>
      \E n \in Executions(audit) :
        /\ audit.executions[n].key[1] = "own" /\ audit.executions[n].previous # 0
        /\ audit.executions[audit.executions[n].previous].key[1] = "sample"
=============================================================================
