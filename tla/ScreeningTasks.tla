---------------------------- MODULE ScreeningTasks ----------------------------
(***************************************************************************)
(* The screening task service (src/paper_radar/screening_tasks) for one    *)
(* paper and one stage: registration, claim, lease, settlement, candidate  *)
(* acceptance and explicit retry over one SQLite archive.                  *)
(*                                                                         *)
(* Every write transaction is BEGIN IMMEDIATE and is one action.  What the *)
(* code does before it (mapping the paper outside the transaction, the     *)
(* read-only check before a publication) is an action of its own, so any   *)
(* other caller may act in between.  A budget is a fingerprint: the code's *)
(* (paper, stage, fingerprint) with the first two fixed.                   *)
(***************************************************************************)
EXTENDS Integers, Sequences

CONSTANTS
  Callers,       \* threads or processes that use the service
  TaskIds,       \* pool of task uuids; its size bounds the generations
  RequestIds,    \* manual and retry request ids, one pool for the archive
  Fingerprints,  \* fingerprints of the stage inputs
  Mapping,       \* Mapping[r]: fingerprint of paper revision r, or Unmapped
  Unmapped,
  Candidates,    \* raw responses an executor may hand in
  Verdict,       \* Verdict[x]: what the authoritative validation says of x
  Reports,       \* failure kinds an executor may report
  Lease,         \* LEASE_SECONDS
  MaxTime,       \* bound on the injected clock
  NoTask, NoId, NoCandidate

AttemptsPerGeneration == 2
Revisions == 1..Len(Mapping)
Accept == "accept"
Rejections == {"output_invalid", "model_mismatch"}

ASSUME MappingAssumption ==
  /\ Mapping \in Seq(Fingerprints \cup {Unmapped}) /\ Len(Mapping) > 0
  /\ Unmapped \notin Fingerprints
ASSUME VerdictAssumption == Verdict \in [Candidates -> Rejections \cup {Accept}]
ASSUME TimeAssumption == Lease \in Nat /\ Lease > 0 /\ MaxTime \in Nat
ASSUME NullAssumption ==
  /\ NoTask \notin TaskIds
  /\ NoId \notin RequestIds
  /\ NoCandidate \notin Candidates
ASSUME ReportAssumption ==
  /\ "none" \notin Reports /\ "outcome_unknown" \notin Reports
  /\ Reports \cap Rejections = {}

VARIABLES
  now,        \* what the injected clock answers; it may also run backwards
  revision,   \* evidence of the paper's current revision (resolve_revision)
  tasks,      \* screening_tasks: budget, generation, parent
  requests,   \* screening_requests, one receipt per row
  attempts,   \* screening_attempts with its lease and failure, per task
  successes,  \* screening_successes
  artifacts,  \* published model_success_response artifacts
  callers     \* what each caller has in hand

vars == <<now, revision, tasks, requests, attempts, successes, artifacts, callers>>

-------------------------------------------------------------------------------
(* Types *)

Unused == [budget |-> Unmapped, generation |-> 0, parent |-> NoTask]
Task == [budget : Fingerprints \cup {Unmapped}, generation : Nat,
         parent : TaskIds \cup {NoTask}]

Request == [source : {"scheduled", "manual", "retry"},
            id : RequestIds \cup {NoId}, parent : TaskIds \cup {NoTask}]
Receipt == [request : Request, task : TaskIds, revision : Revisions,
            cached : TaskIds \cup {NoTask}]

Kinds == Reports \cup Rejections \cup {"outcome_unknown", "none"}
Attempt == [receipt : Receipt, revision : Revisions, claimed : Int, expires : Int,
            kind : Kinds, origin : {"none", "executor", "exception", "recovery"},
            settled : Int, submission : Candidates \cup {NoCandidate}]
Success == [budget : Fingerprints, task : TaskIds,
            attempt : 1..AttemptsPerGeneration, artifact : Candidates, settled : Int]

Idle == [op |-> "idle"]
Mapped == [op : {"register", "retry"}, request : Request, revision : Revisions]
Claiming == [op : {"claim"}, receipt : Receipt, revision : Revisions]
HeldAs(ops, candidates) ==
  [op : ops, task : TaskIds, attempt : 1..AttemptsPerGeneration,
   preview : Kinds, correction : Kinds, candidate : candidates]
Holding == HeldAs({"claimed", "holding"}, {NoCandidate})
             \cup HeldAs({"submitting", "published"}, Candidates)

TypeOK ==
  /\ now \in 0..MaxTime
  /\ revision \in Revisions
  /\ tasks \in [TaskIds -> Task]
  /\ requests \subseteq Receipt
  /\ attempts \in [TaskIds -> Seq(Attempt)]
  /\ successes \subseteq Success
  /\ artifacts \subseteq Candidates
  /\ callers \in [Callers -> {Idle} \cup Mapped \cup Claiming \cup Holding]

-------------------------------------------------------------------------------
(* Reading the archive *)

TasksOf(b) == {t \in TaskIds : tasks[t].budget = b}
IsLatest(t) ==
  \A u \in TasksOf(tasks[t].budget) : tasks[u].generation <= tasks[t].generation

Used(t) == Len(attempts[t])
LastRow(t) == attempts[t][Used(t)]
Accepted(t, n) == \E s \in successes : s.task = t /\ s.attempt = n
HasSuccess(b) == \E s \in successes : s.budget = b

\* The last attempt is neither failed nor accepted.
InFlight(t) ==
  /\ Used(t) > 0
  /\ LastRow(t).kind = "none"
  /\ ~Accepted(t, Used(t))

LeaseExpired(t) == InFlight(t) /\ now >= LastRow(t).expires

\* derive_status, as far as retry and reclaim tell its states apart.
Exhausted(t) ==
  /\ Used(t) = AttemptsPerGeneration
  /\ LastRow(t).kind # "none"
  /\ ~Accepted(t, Used(t))

\* Rows that answer a request exactly: the same request id, or for a scheduled
\* request the same day (one day is modelled), fingerprint and revision.
SameIdentity(request, rev) ==
  IF request.source = "scheduled"
    THEN {q \in requests : q.request.source = "scheduled" /\ q.revision = rev}
    ELSE {q \in requests : q.request.id = request.id}

\* Mutant: the preview forgets that the attempt in flight will be recovered.
CorrectionWithoutRecovery(t, recover) ==
  LET failed == {n \in 1..Used(t) : attempts[t][n].kind # "none"}
  IN  IF failed = {} THEN "none"
      ELSE attempts[t][CHOOSE n \in failed : \A m \in failed : m <= n].kind

\* The correction derived from the attempts of t: the kind of the latest failure,
\* or outcome_unknown when the attempt in flight is about to be recovered.
Correction(t, recover) ==
  LET failed == {n \in 1..Used(t) : attempts[t][n].kind # "none"}
  IN  IF recover /\ Used(t) > 0 /\ LastRow(t).kind = "none" THEN "outcome_unknown"
      ELSE IF failed = {} THEN "none"
      ELSE attempts[t][CHOOSE n \in failed : \A m \in failed : m <= n].kind

-------------------------------------------------------------------------------
(* Settling one attempt *)

Settle(rows, kind, origin, candidate) ==
  [rows EXCEPT ![Len(rows)] =
    [@ EXCEPT !.kind = kind, !.origin = origin, !.settled = now,
              !.submission = candidate]]

Recovered(t) == Settle(attempts[t], "outcome_unknown", "recovery", NoCandidate)

\* Mutant: claim and retry leave the expired attempt unsettled.
NotRecovered(t) == attempts[t]

\* Rows of t once an expired attempt in flight has been recovered.
AfterRecovery(t) == IF LeaseExpired(t) THEN Recovered(t) ELSE attempts[t]

-------------------------------------------------------------------------------
(* Registration: service._register and repository.register_request *)

\* Manual replay precedes the mapping; the mapping itself is read outside any
\* write transaction.
MapForRegistration(c, request) ==
  /\ callers[c] = Idle
  /\ request.source # "retry"
  /\ request.source = "scheduled" \/ SameIdentity(request, revision) = {}
  /\ Mapping[revision] # Unmapped
  /\ callers' = [callers EXCEPT ![c] =
       [op |-> "register", request |-> request, revision |-> revision]]
  /\ UNCHANGED <<now, revision, tasks, requests, attempts, successes, artifacts>>

\* request_conflict, the replayed receipt and facts_changed write nothing.
RegistrationAnswered(c) ==
  /\ callers[c].op = "register"
  /\ \/ SameIdentity(callers[c].request, callers[c].revision) # {}
     \/ revision # callers[c].revision
  /\ callers' = [callers EXCEPT ![c] = Idle]
  /\ UNCHANGED <<now, revision, tasks, requests, attempts, successes, artifacts>>

CachedSuccess(b) ==
  {s.task : s \in {s \in successes : s.budget = b}}

\* Mutant: the budget is looked up by the revision's receipts, not by fingerprint.
RegistrationPerRevision(c, t) ==
  LET request == callers[c].request
      rev == callers[c].revision
  IN  /\ callers[c].op = "register"
      /\ SameIdentity(request, rev) = {}
      /\ revision = rev
      /\ tasks[t] = Unused
      /\ tasks' = [tasks EXCEPT ![t] =
           [budget |-> Mapping[rev], generation |-> 0, parent |-> NoTask]]
      /\ requests' = requests \cup {[request |-> request, task |-> t,
                                     revision |-> rev, cached |-> NoTask]}
      /\ callers' = [callers EXCEPT ![c] = Idle]
      /\ UNCHANGED <<now, revision, attempts, successes, artifacts>>

\* A new budget starts with generation 0; a new request of a known budget
\* follows its latest generation and remembers an accepted success.
RegistrationRecorded(c, t) ==
  LET request == callers[c].request
      rev == callers[c].revision
      b == Mapping[rev]
  IN  /\ callers[c].op = "register"
      /\ SameIdentity(request, rev) = {}
      /\ revision = rev
      /\ IF TasksOf(b) = {}
           THEN /\ tasks[t] = Unused
                /\ tasks' = [tasks EXCEPT ![t] =
                     [budget |-> b, generation |-> 0, parent |-> NoTask]]
           ELSE t \in TasksOf(b) /\ IsLatest(t) /\ UNCHANGED tasks
      /\ \E cached \in TaskIds \cup {NoTask} :
           /\ IF HasSuccess(b) THEN cached \in CachedSuccess(b) ELSE cached = NoTask
           /\ requests' = requests \cup {[request |-> request, task |-> t,
                                          revision |-> rev, cached |-> cached]}
      /\ callers' = [callers EXCEPT ![c] = Idle]
      /\ UNCHANGED <<now, revision, attempts, successes, artifacts>>

-------------------------------------------------------------------------------
(* Retry: retry.RetryService.register *)

MapForRetry(c, request) ==
  /\ callers[c] = Idle
  /\ request.source = "retry" /\ tasks[request.parent] # Unused
  /\ SameIdentity(request, revision) = {}
  /\ Mapping[revision] # Unmapped
  /\ callers' = [callers EXCEPT ![c] =
       [op |-> "retry", request |-> request, revision |-> revision]]
  /\ UNCHANGED <<now, revision, tasks, requests, attempts, successes, artifacts>>

\* Mutant: a first failure is taken for a failed generation.
MayRetryAfterFirstFailure(request, rev) ==
  LET p == request.parent IN
  /\ SameIdentity(request, rev) = {}
  /\ revision = rev
  /\ tasks[p].budget = Mapping[rev]
  /\ \A u \in TaskIds : tasks[u].parent # p
  /\ ~HasSuccess(tasks[p].budget)
  /\ IsLatest(p)
  /\ Used(p) > 0 /\ (LastRow(p).kind # "none" \/ LeaseExpired(p))

\* Only the latest generation of an unsuccessful budget may be continued, once
\* both its attempts have failed; a second attempt whose lease has expired is
\* failed in the same transaction.
MayRetry(request, rev) ==
  LET p == request.parent IN
  /\ SameIdentity(request, rev) = {}
  /\ revision = rev
  /\ tasks[p].budget = Mapping[rev]
  /\ \A u \in TaskIds : tasks[u].parent # p
  /\ ~HasSuccess(tasks[p].budget)
  /\ IsLatest(p)
  /\ Exhausted(p) \/ (LeaseExpired(p) /\ Used(p) = AttemptsPerGeneration)

RetryRefused(c) ==
  /\ callers[c].op = "retry"
  /\ ~MayRetry(callers[c].request, callers[c].revision)
  /\ callers' = [callers EXCEPT ![c] = Idle]
  /\ UNCHANGED <<now, revision, tasks, requests, attempts, successes, artifacts>>

\* Mutant: the successor is opened without settling the expired second attempt.
RetryWithoutRecovery(c, t) ==
  LET request == callers[c].request
      p == request.parent
  IN  /\ callers[c].op = "retry"
      /\ MayRetry(request, callers[c].revision)
      /\ tasks[t] = Unused
      /\ tasks' = [tasks EXCEPT ![t] =
           [budget |-> tasks[p].budget, generation |-> tasks[p].generation + 1,
            parent |-> p]]
      /\ requests' = requests \cup {[request |-> request, task |-> t,
                          revision |-> callers[c].revision, cached |-> NoTask]}
      /\ callers' = [callers EXCEPT ![c] = Idle]
      /\ UNCHANGED <<now, revision, attempts, successes, artifacts>>

RetryRecorded(c, t) ==
  LET request == callers[c].request
      rev == callers[c].revision
      p == request.parent
  IN  /\ callers[c].op = "retry"
      /\ MayRetry(request, rev)
      /\ tasks[t] = Unused
      /\ attempts' = [attempts EXCEPT ![p] = AfterRecovery(p)]
      /\ tasks' = [tasks EXCEPT ![t] =
           [budget |-> tasks[p].budget, generation |-> tasks[p].generation + 1,
            parent |-> p]]
      /\ requests' = requests \cup {[request |-> request, task |-> t,
                                     revision |-> rev, cached |-> NoTask]}
      /\ callers' = [callers EXCEPT ![c] = Idle]
      /\ UNCHANGED <<now, revision, successes, artifacts>>

-------------------------------------------------------------------------------
(* Claim: execution.AttemptService.claim *)

\* The mapping of the receipt's snapshot must still give the frozen fingerprint.
MapForClaim(c, q) ==
  /\ callers[c] = Idle
  /\ q \in requests
  /\ Mapping[revision] = tasks[q.task].budget
  /\ callers' = [callers EXCEPT ![c] =
       [op |-> "claim", receipt |-> q, revision |-> revision]]
  /\ UNCHANGED <<now, revision, tasks, requests, attempts, successes, artifacts>>

\* Checks that end the transaction before anything is written.
ClaimBlocked(t, rev) ==
  \/ revision # rev
  \/ HasSuccess(tasks[t].budget)
  \/ InFlight(t) /\ now < LastRow(t).expires

\* A generation without attempts left: an expired attempt is still recovered
\* and that recovery is committed before budget_exhausted is raised.
ClaimExhausted(t) == Used(t) = AttemptsPerGeneration

\* A settled attempt that lies in the future of the clock: invalid_clock.
ClaimTooEarly(t) ==
  Used(t) > 0 /\ LastRow(t).kind # "none" /\ now < LastRow(t).settled

ClaimRefused(c) ==
  LET t == callers[c].receipt.task IN
  /\ callers[c].op = "claim"
  /\ \/ ClaimBlocked(t, callers[c].revision)
     \/ ~ClaimExhausted(t) /\ ClaimTooEarly(t)
  /\ callers' = [callers EXCEPT ![c] = Idle]
  /\ UNCHANGED <<now, revision, tasks, requests, attempts, successes, artifacts>>

ClaimOutOfBudget(c) ==
  LET t == callers[c].receipt.task IN
  /\ callers[c].op = "claim"
  /\ ~ClaimBlocked(t, callers[c].revision)
  /\ ClaimExhausted(t)
  /\ attempts' = [attempts EXCEPT ![t] = AfterRecovery(t)]
  /\ callers' = [callers EXCEPT ![c] = Idle]
  /\ UNCHANGED <<now, revision, tasks, requests, successes, artifacts>>

\* preclaim has seen the correction the executor is going to get: preview.
ClaimGranted(c) ==
  LET q == callers[c].receipt
      t == q.task
  IN  /\ callers[c].op = "claim"
      /\ ~ClaimBlocked(t, callers[c].revision)
      /\ ~ClaimExhausted(t)
      /\ ~ClaimTooEarly(t)
      /\ attempts' = [attempts EXCEPT ![t] = Append(AfterRecovery(t),
           [receipt |-> q, revision |-> callers[c].revision,
            claimed |-> now, expires |-> now + Lease,
            kind |-> "none", origin |-> "none", settled |-> 0,
            submission |-> NoCandidate])]
      /\ callers' = [callers EXCEPT ![c] =
           [op |-> "claimed", task |-> t, attempt |-> Used(t) + 1,
            preview |-> Correction(t, TRUE), correction |-> "none",
            candidate |-> NoCandidate]]
      /\ UNCHANGED <<now, revision, tasks, requests, successes, artifacts>>

\* service._run_once reads the correction again after the claim has committed.
ReadCorrection(c) ==
  /\ callers[c].op = "claimed"
  /\ callers' = [callers EXCEPT ![c] =
       [@ EXCEPT !.op = "holding", !.correction = Correction(callers[c].task, FALSE)]]
  /\ UNCHANGED <<now, revision, tasks, requests, attempts, successes, artifacts>>

-------------------------------------------------------------------------------
(* The holder of a claim: renew, fail, submit *)

\* Mutant: only the attempt number is compared, not whether it is settled.
OwnsByNumber(c) == callers[c].attempt = Used(callers[c].task)

\* The holder's attempt is the latest of its task and still unsettled; the lease
\* may have expired.  Settled attempts answer by replay or conflict, no write.
Owns(c) ==
  /\ callers[c].attempt = Used(callers[c].task)
  /\ InFlight(callers[c].task)

NotBeforeClaim(c) == now >= LastRow(callers[c].task).claimed

\* From the clock, not from the old deadline: a lease can become shorter.
Renewed(t) ==
  [attempts[t] EXCEPT ![Used(t)] = [@ EXCEPT !.expires = now + Lease]]

Renew(c) ==
  LET t == callers[c].task IN
  /\ callers[c].op = "holding"
  /\ Owns(c) /\ NotBeforeClaim(c)
  /\ attempts' = [attempts EXCEPT ![t] = Renewed(t)]
  /\ UNCHANGED <<now, revision, tasks, requests, successes, artifacts, callers>>

\* An executor's report, or an exception it raised; the caller keeps its
\* credential and may report or submit again.
Fail(c, kind, origin) ==
  LET t == callers[c].task IN
  /\ callers[c].op = "holding"
  /\ Owns(c) /\ NotBeforeClaim(c)
  /\ origin = "exception" => kind = "executor_error"
  /\ attempts' = [attempts EXCEPT ![t] = Settle(@, kind, origin, NoCandidate)]
  /\ UNCHANGED <<now, revision, tasks, requests, successes, artifacts, callers>>

\* The first, read-only check of submit.
SubmitStarted(c, x) ==
  /\ callers[c].op = "holding"
  /\ Owns(c)
  /\ callers' = [callers EXCEPT ![c] = [@ EXCEPT !.op = "submitting", !.candidate = x]]
  /\ UNCHANGED <<now, revision, tasks, requests, attempts, successes, artifacts>>

\* A valid response is published before, and outside, the write transaction.
Publish(c) ==
  /\ callers[c].op = "submitting"
  /\ Verdict[callers[c].candidate] = Accept
  /\ artifacts' = artifacts \cup {callers[c].candidate}
  /\ callers' = [callers EXCEPT ![c] = [@ EXCEPT !.op = "published"]]
  /\ UNCHANGED <<now, revision, tasks, requests, attempts, successes>>

Done(c) == [callers[c] EXCEPT !.op = "holding", !.candidate = NoCandidate]

\* The second check of submit lost its race, or the clock stands before the
\* claim, or the budget has a success: nothing is written.
SubmitRefused(c) ==
  /\ \/ callers[c].op = "published"
     \/ callers[c].op = "submitting" /\ Verdict[callers[c].candidate] # Accept
  /\ \/ ~Owns(c)
     \/ ~NotBeforeClaim(c)
     \/ callers[c].op = "published" /\ HasSuccess(tasks[callers[c].task].budget)
  /\ callers' = [callers EXCEPT ![c] = Done(c)]
  /\ UNCHANGED <<now, revision, tasks, requests, attempts, successes, artifacts>>

SubmitRejected(c) ==
  LET t == callers[c].task
      x == callers[c].candidate
  IN  /\ callers[c].op = "submitting"
      /\ Verdict[x] # Accept
      /\ Owns(c) /\ NotBeforeClaim(c)
      /\ attempts' = [attempts EXCEPT ![t] = Settle(@, Verdict[x], "executor", x)]
      /\ callers' = [callers EXCEPT ![c] = Done(c)]
      /\ UNCHANGED <<now, revision, tasks, requests, successes, artifacts>>

SubmitAccepted(c) ==
  LET t == callers[c].task
      b == tasks[t].budget
  IN  /\ callers[c].op = "published"
      /\ Owns(c) /\ NotBeforeClaim(c)
      /\ ~HasSuccess(b)
      /\ successes' = successes \cup {[budget |-> b, task |-> t,
           attempt |-> callers[c].attempt, artifact |-> callers[c].candidate,
           settled |-> now]}
      /\ callers' = [callers EXCEPT ![c] = Done(c)]
      /\ UNCHANGED <<now, revision, tasks, requests, attempts, artifacts>>

-------------------------------------------------------------------------------
(* Reclaim, and the environment *)

\* Mutant: the second attempt is left to a retry that need not come.
ReclaimFirstOnly(t) ==
  /\ LeaseExpired(t) /\ Used(t) < AttemptsPerGeneration
  /\ attempts' = [attempts EXCEPT ![t] = Recovered(t)]
  /\ UNCHANGED <<now, revision, tasks, requests, successes, artifacts, callers>>

\* execution.AttemptService.reclaim: any process, explicitly.
Reclaim(t) ==
  /\ LeaseExpired(t)
  /\ attempts' = [attempts EXCEPT ![t] = Recovered(t)]
  /\ UNCHANGED <<now, revision, tasks, requests, successes, artifacts, callers>>

\* A caller returns, is killed, or drops what it holds; a claim it made stays.
Leave(c) ==
  /\ callers[c] # Idle
  /\ callers' = [callers EXCEPT ![c] = Idle]
  /\ UNCHANGED <<now, revision, tasks, requests, attempts, successes, artifacts>>

\* New paper facts always carry new evidence, even when the text is an old one.
ReviseFacts ==
  /\ revision + 1 \in Revisions
  /\ revision' = revision + 1
  /\ UNCHANGED <<now, tasks, requests, attempts, successes, artifacts, callers>>

Tick ==
  /\ now < MaxTime
  /\ now' = now + 1
  /\ UNCHANGED <<revision, tasks, requests, attempts, successes, artifacts, callers>>

ClockSetBack ==
  /\ now > 0
  /\ now' \in 0..(now - 1)
  /\ UNCHANGED <<revision, tasks, requests, attempts, successes, artifacts, callers>>

-------------------------------------------------------------------------------

Init ==
  /\ now = 0
  /\ revision = 1
  /\ tasks = [t \in TaskIds |-> Unused]
  /\ requests = {}
  /\ attempts = [t \in TaskIds |-> <<>>]
  /\ successes = {}
  /\ artifacts = {}
  /\ callers = [c \in Callers |-> Idle]

Scheduled == [source |-> "scheduled", id |-> NoId, parent |-> NoTask]
Manual(i) == [source |-> "manual", id |-> i, parent |-> NoTask]
Retry(i, p) == [source |-> "retry", id |-> i, parent |-> p]

Register(c) ==
  \/ MapForRegistration(c, Scheduled)
  \/ \E i \in RequestIds : MapForRegistration(c, Manual(i))
  \/ RegistrationAnswered(c)
  \/ \E t \in TaskIds : RegistrationRecorded(c, t)

RetryTask(c) ==
  \/ \E i \in RequestIds, p \in TaskIds : MapForRetry(c, Retry(i, p))
  \/ RetryRefused(c)
  \/ \E t \in TaskIds : RetryRecorded(c, t)

ClaimTask(c) ==
  \/ \E q \in requests : MapForClaim(c, q)
  \/ ClaimRefused(c)
  \/ ClaimOutOfBudget(c)
  \/ ClaimGranted(c)

Hold(c) ==
  \/ ReadCorrection(c)
  \/ Renew(c)
  \/ \E k \in Reports, o \in {"executor", "exception"} : Fail(c, k, o)
  \/ \E x \in Candidates : SubmitStarted(c, x)
  \/ Publish(c)
  \/ SubmitRefused(c)
  \/ SubmitRejected(c)
  \/ SubmitAccepted(c)

Next ==
  \/ \E c \in Callers :
       Register(c) \/ RetryTask(c) \/ ClaimTask(c) \/ Hold(c) \/ Leave(c)
  \/ \E t \in TaskIds : Reclaim(t)
  \/ ReviseFacts \/ Tick \/ ClockSetBack

Spec == Init /\ [][Next]_vars

\* The code starts no reclaim daemon.  AbandonedAttemptSettles assumes what the
\* service asks of its operator: the clock goes on and is not set back for ever,
\* and reclaim is called again and again for every task.
OperatedSpec ==
  /\ Spec
  /\ <>[][~ClockSetBack]_vars
  /\ WF_vars(Tick)
  /\ \A t \in TaskIds : WF_vars(Reclaim(t))

-------------------------------------------------------------------------------
(* Properties *)

Registered == {t \in TaskIds : tasks[t] # Unused}
Unsettled(t, n) == attempts[t][n].kind = "none" /\ ~Accepted(t, n)

\* A success ends its budget: it belongs to the last attempt of the latest
\* generation, that attempt did not fail, and every other attempt of the budget
\* failed, so no second screening outcome can follow (submit against retry,
\* claim and reclaim by other callers).
SuccessClosesBudget ==
  \A s \in successes :
    /\ tasks[s.task].budget = s.budget /\ IsLatest(s.task)
    /\ s.attempt = Used(s.task) /\ LastRow(s.task).kind = "none"
    /\ \A t \in TasksOf(s.budget) : \A n \in 1..Used(t) :
         attempts[t][n].kind = "none" => t = s.task /\ n = s.attempt
    /\ \A r \in successes : r.budget = s.budget => r = s

\* At most one attempt of a budget is in flight, and only in its latest
\* generation: the holder of an older credential has nothing left to settle.
OneAttemptInFlight ==
  \A t \in Registered : \A n \in 1..Used(t) :
    Unsettled(t, n) =>
      /\ n = Used(t) /\ IsLatest(t)
      /\ ~HasSuccess(tasks[t].budget)

\* attempt_integrity.validate_attempts on one task: its attempts, leases and
\* failures.
ValidAttempts(t) ==
  /\ Used(t) <= AttemptsPerGeneration
  /\ \A n \in 1..Used(t) :
       LET row == attempts[t][n] IN
       /\ row.receipt \in requests /\ row.receipt.task = t
       /\ Mapping[row.revision] = tasks[t].budget
       /\ row.expires - row.claimed >= Lease
       /\ row.kind # "none" => row.settled >= row.claimed /\ ~Accepted(t, n)
       /\ row.origin = "recovery" =>
            row.kind = "outcome_unknown" /\ row.settled >= row.expires
       /\ n < Used(t) =>
            row.kind # "none" /\ row.settled <= attempts[t][n + 1].claimed

\* A backup never refuses the attempts the service has written itself, although
\* the clock may run backwards between any two transactions.
AttemptsValidate == \A t \in TaskIds : ValidAttempts(t)

\* integrity.validate_registration on one task: its place in the parent chain of
\* its budget, the parent's two failures, and its one retry request.
ValidRegistration(t) ==
  LET retries == {q \in requests : q.task = t /\ q.request.source = "retry"} IN
  /\ \E q \in requests : q.task = t
  /\ \A u \in TasksOf(tasks[t].budget) :
       tasks[u].generation = tasks[t].generation => u = t
  /\ IF tasks[t].generation = 0
       THEN tasks[t].parent = NoTask /\ retries = {}
       ELSE LET p == tasks[t].parent IN
            /\ tasks[p].budget = tasks[t].budget
            /\ tasks[p].generation = tasks[t].generation - 1
            /\ Used(p) = AttemptsPerGeneration
            /\ \A n \in 1..Used(p) : attempts[p][n].kind # "none" /\ ~Accepted(p, n)
            /\ \E q \in retries : retries = {q} /\ q.request.parent = p

\* The generations of a budget stay numbered without a gap along one parent chain,
\* whatever registrations, retries, claims and changes of facts interleave.
RegistrationValidates == \A t \in Registered : ValidRegistration(t)

\* success_integrity.validate_successes on one success.
ValidSuccess(s) ==
  /\ s.artifact \in artifacts /\ Verdict[s.artifact] = Accept
  /\ s.settled >= attempts[s.task][s.attempt].claimed

\* The same on a receipt answered from a success: it never spends an attempt.
ValidCachedReceipt(q) ==
  q.cached # NoTask =>
    /\ \E s \in successes : s.task = q.cached /\ s.budget = tasks[q.task].budget
    /\ \A t \in TaskIds : \A n \in 1..Used(t) : attempts[t][n].receipt # q

\* A success keeps a published artifact that validates and is not older than its
\* claim, and a cached receipt spends nothing, whoever registers meanwhile.
SuccessesValidate ==
  /\ \A s \in successes : ValidSuccess(s)
  /\ \A q \in requests : ValidCachedReceipt(q)

\* What screening_tasks.validate_all asks of an archive holds in every state that
\* callers, retries, expiry and a clock that jumps can reach.
ArchiveValidates == AttemptsValidate /\ RegistrationValidates /\ SuccessesValidate

\* While the claimed attempt is unsettled the executor works with exactly the
\* correction the pre-claim check was shown, whoever acted between the two reads.
CorrectionWasChecked ==
  \A c \in Callers :
    callers[c].op = "holding" /\ Unsettled(callers[c].task, callers[c].attempt)
      => callers[c].correction = callers[c].preview

\* A settled attempt is never settled again, re-opened or forgotten: a late fail,
\* submit, renew or reclaim with the old credential changes nothing.
SettlementIsFinal ==
  [][/\ successes \subseteq successes'
     /\ \A t \in TaskIds : \A n \in 1..Used(t) :
          /\ Used(t)' >= Used(t)
          /\ ~Unsettled(t, n) => attempts'[t][n] = attempts[t][n]
                                 /\ (Accepted(t, n)' <=> Accepted(t, n))]_vars

Held(t) == \E c \in Callers :
  callers[c].op \notin {"idle", "register", "retry", "claim"} /\ callers[c].task = t

Abandoned(t, n) ==
  Used(t) = n /\ InFlight(t) /\ ~Held(t) /\ LastRow(t).expires <= MaxTime

\* An attempt nobody holds any more does not stay in flight for ever, the second
\* attempt of a generation included: reclaim settles it once its lease has run
\* out (the bound MaxTime must leave room for that).
AbandonedAttemptSettles ==
  \A t \in TaskIds, n \in 1..AttemptsPerGeneration :
    Abandoned(t, n) ~> ~(Used(t) = n /\ InFlight(t))

-------------------------------------------------------------------------------
(* The budget every other component relies on *)

Budget == INSTANCE AttemptBudget WITH
  Budgets <- Fingerprints, Tasks <- TaskIds, Results <- Candidates,
  NoBudget <- Unmapped,
  owner <- [t \in TaskIds |-> tasks[t].budget],
  spent <- {a \in TaskIds \X (1..2) : a[2] <= Used(a[1])},
  failed <- {a \in TaskIds \X (1..2) :
               a[2] <= Used(a[1]) /\ attempts[a[1]][a[2]].kind # "none"},
  results <- {[attempt |-> <<s.task, s.attempt>>, value |-> s.artifact] :
               s \in successes}

\* The service implements the abstract budget: every transaction is one of its
\* steps or invisible.
ImplementsBudget == Budget!Spec
===============================================================================
