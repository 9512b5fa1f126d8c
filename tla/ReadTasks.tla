------------------------------- MODULE ReadTasks -------------------------------
(***************************************************************************)
(* The Read task service (src/paper_radar/read_tasks) for one paper:       *)
(* registration, claim, renewals, settlement, acceptance of an analysis,   *)
(* reclaim and retry.  It shares no code with the Screening service and    *)
(* differs where it matters: a claim never recovers an expired attempt, a  *)
(* holder loses its rights at the deadline, renewals are appended, a       *)
(* repeated retry joins the existing successor, and an analysis is unique  *)
(* per task, not per budget.                                               *)
(*                                                                         *)
(* Every write transaction is one action.  An operation that reads the     *)
(* clock twice has two readings: `now` and a later one at most Drift ahead.*)
(***************************************************************************)
EXTENDS Integers, Sequences

CONSTANTS
  Callers,       \* threads or processes that use the service
  TaskIds,       \* pool of task uuids; its size bounds the generations
  RequestIds,    \* request ids, unique in the archive
  Fingerprints,  \* fingerprints of the Read inputs of the paper
  NoFingerprint,
  Candidates,    \* raw responses an executor may hand in
  Sound,         \* those validate_read_output_v2 accepts as they are
  Degradable,    \* those it accepts, degraded, on the final attempt only
  Failures,      \* failure kinds an executor may report
  Lease,         \* LEASE_SECONDS
  MaxTime,       \* bound on the clock
  MaxRenewals,   \* bound on the renewals of one attempt
  Drift,         \* how far the clock may go on inside one transaction
  NoTask, NoRequest, NoCandidate

AttemptsPerGeneration == 2

ASSUME NumberAssumption ==
  /\ Lease \in Nat /\ Lease > 0
  /\ MaxTime \in Nat /\ MaxRenewals \in Nat /\ Drift \in Nat
ASSUME NullAssumption ==
  /\ NoTask \notin TaskIds
  /\ NoFingerprint \notin Fingerprints
  /\ NoCandidate \notin Candidates
ASSUME CandidateAssumption ==
  /\ Sound \subseteq Candidates /\ Degradable \subseteq Candidates
  /\ Sound \cap Degradable = {}
ASSUME FailureAssumption ==
  Failures \cap {"none", "accepted", "output_invalid", "outcome_unknown"} = {}

VARIABLES
  now,        \* the clock; it may run backwards between transactions
  admitted,   \* inputs whose current facts meet READ_PREREQUISITES
  tasks,      \* read_tasks: budget, generation, parent
  requests,   \* read_registrations: request id -> content and task
  attempts,   \* read_attempts, read_renewals and read_outcomes, per task
  analyses,   \* read_analyses
  artifacts,  \* published candidate artifacts
  callers     \* what each caller has in hand

vars == <<now, admitted, tasks, requests, attempts, analyses, artifacts, callers>>

-------------------------------------------------------------------------------
(* Types *)

Unused == [budget |-> NoFingerprint, generation |-> 0, parent |-> NoTask]
Task == [budget : Fingerprints \cup {NoFingerprint}, generation : Nat,
         parent : TaskIds \cup {NoTask}]

\* What request_hash digests: the registered input, or the retried task.
Content == [budget : Fingerprints \cup {NoFingerprint}, parent : TaskIds \cup {NoTask}]
Registration == [content : Content, task : TaskIds]
ASSUME RequestAssumption == NoRequest \notin Registration

Outcomes == Failures \cup {"none", "accepted", "output_invalid", "outcome_unknown"}
Attempt == [claimed : Int, renewals : Seq(Int), outcome : Outcomes, settled : Int]
Analysis == [task : TaskIds, ordinal : 1..AttemptsPerGeneration,
             artifact : Candidates, settled : Int]

Idle == [op |-> "idle"]
Failed == [op |-> "database_failed"]
Handle == [op : {"holding", "submitting", "published"}, task : TaskIds,
           ordinal : 1..AttemptsPerGeneration,
           candidate : Candidates \cup {NoCandidate}]

TypeOK ==
  /\ now \in 0..MaxTime
  /\ admitted \subseteq Fingerprints
  /\ tasks \in [TaskIds -> Task]
  /\ requests \in [RequestIds -> Registration \cup {NoRequest}]
  /\ attempts \in [TaskIds -> Seq(Attempt)]
  /\ analyses \subseteq Analysis
  /\ artifacts \subseteq Candidates
  /\ callers \in [Callers -> {Idle, Failed} \cup Handle]

-------------------------------------------------------------------------------
(* Reading the archive *)

Registered == {t \in TaskIds : tasks[t] # Unused}
TasksOf(b) == {t \in TaskIds : tasks[t].budget = b}
IsLatest(t) ==
  \A u \in TasksOf(tasks[t].budget) : tasks[u].generation <= tasks[t].generation

Used(t) == Len(attempts[t])
LastRow(t) == attempts[t][Used(t)]

LastRenewed(row) ==
  IF row.renewals = <<>> THEN row.claimed ELSE row.renewals[Len(row.renewals)]
Deadline(row) == LastRenewed(row) + Lease

\* ReadTask.status
Succeeded(t) == \E a \in analyses : a.task = t
Running(t) == \E n \in 1..Used(t) : attempts[t][n].outcome = "none"
Status(t) ==
  IF Succeeded(t) THEN "succeeded"
  ELSE IF Running(t) THEN "running"
  ELSE IF Used(t) = AttemptsPerGeneration THEN "failed" ELSE "ready"

\* A later clock reading in the same transaction.
LaterReading == {at \in now..(now + Drift) : at <= MaxTime}

-------------------------------------------------------------------------------
(* service.register and service.retry *)

\* A request id that is known answers by replay or request_conflict, no write.
\* A known budget is looked up without a limit of one row: with a second
\* generation the lookup itself fails, and nothing is written.
Register(c, i, b) ==
  /\ callers[c] = Idle
  /\ requests[i] = NoRequest
  /\ b \in admitted
  /\ \E t \in TaskIds :
       /\ IF TasksOf(b) = {}
            THEN /\ tasks[t] = Unused
                 /\ tasks' = [tasks EXCEPT ![t] =
                      [budget |-> b, generation |-> 1, parent |-> NoTask]]
            ELSE TasksOf(b) = {t} /\ UNCHANGED tasks
       /\ requests' = [requests EXCEPT ![i] =
            [content |-> [budget |-> b, parent |-> NoTask], task |-> t]]
  /\ UNCHANGED <<now, admitted, attempts, analyses, artifacts, callers>>

RegisterFails(c, i, b) ==
  /\ callers[c] = Idle
  /\ requests[i] = NoRequest
  /\ b \in admitted
  /\ \E t, u \in TasksOf(b) : t # u
  /\ callers' = [callers EXCEPT ![c] = Failed]
  /\ UNCHANGED <<now, admitted, tasks, requests, attempts, analyses, artifacts>>

RetryRequest(p) == [budget |-> NoFingerprint, parent |-> p]

\* Another request for a task that already has its successor joins it.
JoinRetry(i, p) ==
  /\ p \in Registered /\ requests[i] = NoRequest
  /\ \E t \in TaskIds :
       /\ tasks[t].parent = p
       /\ requests' = [requests EXCEPT ![i] =
            [content |-> RetryRequest(p), task |-> t]]
  /\ UNCHANGED <<now, admitted, tasks, attempts, analyses, artifacts, callers>>

\* Mutant: a task that is not running may be retried.
MayRetryUnlessRunning(p) == IsLatest(p) /\ Used(p) > 0 /\ Status(p) # "running"

MayRetry(p) == IsLatest(p) /\ Status(p) = "failed"

\* Mutant: the successor starts a parent chain of its own.
NewGenerationWithoutParent(i, p) ==
  /\ p \in Registered /\ requests[i] = NoRequest
  /\ \A u \in TaskIds : tasks[u].parent # p
  /\ MayRetry(p)
  /\ \E t \in TaskIds :
       /\ tasks[t] = Unused
       /\ tasks' = [tasks EXCEPT ![t] = [budget |-> tasks[p].budget,
            generation |-> tasks[p].generation + 1, parent |-> NoTask]]
       /\ requests' = [requests EXCEPT ![i] =
            [content |-> RetryRequest(p), task |-> t]]
  /\ UNCHANGED <<now, admitted, attempts, analyses, artifacts, callers>>

NewGeneration(i, p) ==
  /\ p \in Registered /\ requests[i] = NoRequest
  /\ \A u \in TaskIds : tasks[u].parent # p
  /\ MayRetry(p)
  /\ \E t \in TaskIds :
       /\ tasks[t] = Unused
       /\ tasks' = [tasks EXCEPT ![t] = [budget |-> tasks[p].budget,
            generation |-> tasks[p].generation + 1, parent |-> p]]
       /\ requests' = [requests EXCEPT ![i] =
            [content |-> RetryRequest(p), task |-> t]]
  /\ UNCHANGED <<now, admitted, attempts, analyses, artifacts, callers>>

-------------------------------------------------------------------------------
(* service.claim *)

\* Mutant: only the task's own result ends it, an attempt in flight does not.
MayClaimWhileRunning(t) ==
  /\ tasks[t].budget \in admitted
  /\ ~Succeeded(t) /\ Used(t) < AttemptsPerGeneration
  /\ \A u \in TaskIds : tasks[u].parent # t
  /\ Used(t) > 0 => now >= LastRow(t).settled

MayClaim(t) ==
  /\ tasks[t].budget \in admitted
  /\ Status(t) = "ready"
  /\ \A u \in TaskIds : tasks[u].parent # t
  /\ Used(t) > 0 => now >= LastRow(t).settled

Claim(c, t) ==
  /\ callers[c] = Idle
  /\ t \in Registered
  /\ MayClaim(t)
  /\ attempts' = [attempts EXCEPT ![t] = Append(@,
       [claimed |-> now, renewals |-> <<>>, outcome |-> "none", settled |-> 0])]
  /\ callers' = [callers EXCEPT ![c] = [op |-> "holding", task |-> t,
       ordinal |-> Used(t) + 1, candidate |-> NoCandidate]]
  /\ UNCHANGED <<now, admitted, tasks, requests, analyses, artifacts>>

-------------------------------------------------------------------------------
(* The holder: renew, fail, submit *)

Row(c) == attempts[callers[c].task][callers[c].ordinal]

\* validate_read_output_v2: list items without evidence are dropped, and the rest
\* accepted, only on the second attempt of a generation.
Accepts(x, ordinal) ==
  x \in Sound \/ (x \in Degradable /\ ordinal = AttemptsPerGeneration)
Acceptable(c) == Accepts(callers[c].candidate, callers[c].ordinal)

\* Mutant: an expired holder keeps its rights until it is reclaimed.
OwnsUntilReclaimed(c) ==
  /\ Row(c).outcome = "none"
  /\ LastRenewed(Row(c)) <= now

\* Mutant: the outcome is not looked at.
OwnsByDeadline(c) == LastRenewed(Row(c)) <= now /\ now < Deadline(Row(c))

\* _owned: unsettled, not before the last renewal, not at or after the deadline.
Owns(c) ==
  /\ Row(c).outcome = "none"
  /\ LastRenewed(Row(c)) <= now /\ now < Deadline(Row(c))

Renew(c) ==
  /\ callers[c].op = "holding"
  /\ Owns(c)
  /\ Len(Row(c).renewals) < MaxRenewals
  /\ \E at \in LaterReading :
       /\ attempts' = [attempts EXCEPT ![callers[c].task][callers[c].ordinal] =
            [@ EXCEPT !.renewals = Append(Row(c).renewals, at)]]
       /\ now' = at
  /\ UNCHANGED <<admitted, tasks, requests, analyses, artifacts, callers>>

SettleAs(c, outcome, at) ==
  attempts' = [attempts EXCEPT ![callers[c].task][callers[c].ordinal] =
    [@ EXCEPT !.outcome = outcome, !.settled = at]]

Fail(c, failure) ==
  /\ callers[c].op = "holding"
  /\ Owns(c)
  /\ \E at \in LaterReading : SettleAs(c, failure, at) /\ now' = at
  /\ UNCHANGED <<admitted, tasks, requests, analyses, artifacts, callers>>

\* The read-only ownership checks of acceptance.submit.
SubmitStarted(c, x) ==
  /\ callers[c].op = "holding"
  /\ Owns(c)
  /\ callers' = [callers EXCEPT ![c] = [@ EXCEPT !.op = "submitting", !.candidate = x]]
  /\ UNCHANGED <<now, admitted, tasks, requests, attempts, analyses, artifacts>>

Done(c) == [callers[c] EXCEPT !.op = "holding", !.candidate = NoCandidate]

SubmitInvalid(c) ==
  /\ callers[c].op = "submitting"
  /\ ~Acceptable(c)
  /\ Owns(c)
  /\ \E at \in LaterReading : SettleAs(c, "output_invalid", at) /\ now' = at
  /\ callers' = [callers EXCEPT ![c] = Done(c)]
  /\ UNCHANGED <<admitted, tasks, requests, analyses, artifacts>>

\* The candidate is published before, and outside, the write transaction.
Publish(c) ==
  /\ callers[c].op = "submitting"
  /\ Acceptable(c)
  /\ artifacts' = artifacts \cup {callers[c].candidate}
  /\ callers' = [callers EXCEPT ![c] = [@ EXCEPT !.op = "published"]]
  /\ UNCHANGED <<now, admitted, tasks, requests, attempts, analyses>>

SubmitAccepted(c) ==
  /\ callers[c].op = "published"
  /\ Owns(c)
  /\ ~Succeeded(callers[c].task)
  /\ \E at \in LaterReading :
       /\ SettleAs(c, "accepted", at)
       /\ analyses' = analyses \cup {[task |-> callers[c].task,
            ordinal |-> callers[c].ordinal, artifact |-> callers[c].candidate,
            settled |-> at]}
       /\ now' = at
  /\ callers' = [callers EXCEPT ![c] = Done(c)]
  /\ UNCHANGED <<admitted, tasks, requests, artifacts>>

\* The ownership check of the write transaction fails, or the attempt is settled.
SubmitRefused(c) ==
  /\ \/ callers[c].op = "submitting" /\ ~Acceptable(c) /\ ~Owns(c)
     \/ callers[c].op = "published" /\ (~Owns(c) \/ Succeeded(callers[c].task))
  /\ callers' = [callers EXCEPT ![c] = Done(c)]
  /\ UNCHANGED <<now, admitted, tasks, requests, attempts, analyses, artifacts>>

-------------------------------------------------------------------------------
(* service.reclaim, and the environment *)

Expired(row) == row.outcome = "none" /\ now >= Deadline(row)

\* Mutant: the deadline of the claim is used, renewals are not looked at.
ReclaimIgnoringRenewals(t) ==
  /\ \E n \in 1..Used(t) :
       attempts[t][n].outcome = "none" /\ now >= attempts[t][n].claimed + Lease
  /\ \E at \in LaterReading :
       /\ attempts' = [attempts EXCEPT ![t] = [n \in 1..Used(t) |->
            IF @[n].outcome = "none"
              THEN [@[n] EXCEPT !.outcome = "outcome_unknown", !.settled = at]
              ELSE @[n]]]
       /\ now' = at
  /\ UNCHANGED <<admitted, tasks, requests, analyses, artifacts, callers>>

\* Mutant: the second attempt is left to a retry that need not come.
ReclaimFirstOnly(t) ==
  /\ Used(t) = 1 /\ Expired(LastRow(t))
  /\ \E at \in LaterReading :
       /\ attempts' = [attempts EXCEPT ![t][1] =
            [@ EXCEPT !.outcome = "outcome_unknown", !.settled = at]]
       /\ now' = at
  /\ UNCHANGED <<admitted, tasks, requests, analyses, artifacts, callers>>

\* Every unsettled attempt of the task whose deadline has passed.
Reclaim(t) ==
  /\ \E n \in 1..Used(t) : Expired(attempts[t][n])
  /\ \E at \in LaterReading :
       /\ attempts' = [attempts EXCEPT ![t] = [n \in 1..Used(t) |->
            IF Expired(@[n])
              THEN [@[n] EXCEPT !.outcome = "outcome_unknown", !.settled = at]
              ELSE @[n]]]
       /\ now' = at
  /\ UNCHANGED <<admitted, tasks, requests, analyses, artifacts, callers>>

\* A caller returns, is killed, or drops its handle; its claim stays.
Leave(c) ==
  /\ callers[c] # Idle
  /\ callers' = [callers EXCEPT ![c] = Idle]
  /\ UNCHANGED <<now, admitted, tasks, requests, attempts, analyses, artifacts>>

\* Decisions, PDF, extraction, quality or metadata of the paper change.
FactsChange ==
  /\ admitted' \in SUBSET Fingerprints
  /\ admitted' # admitted
  /\ UNCHANGED <<now, tasks, requests, attempts, analyses, artifacts, callers>>

Tick ==
  /\ now < MaxTime
  /\ now' = now + 1
  /\ UNCHANGED <<admitted, tasks, requests, attempts, analyses, artifacts, callers>>

ClockSetBack ==
  /\ now > 0
  /\ now' \in 0..(now - 1)
  /\ UNCHANGED <<admitted, tasks, requests, attempts, analyses, artifacts, callers>>

-------------------------------------------------------------------------------

Init ==
  /\ now = 0
  /\ admitted = Fingerprints
  /\ tasks = [t \in TaskIds |-> Unused]
  /\ requests = [i \in RequestIds |-> NoRequest]
  /\ attempts = [t \in TaskIds |-> <<>>]
  /\ analyses = {}
  /\ artifacts = {}
  /\ callers = [c \in Callers |-> Idle]

Retry == \E i \in RequestIds, p \in TaskIds : JoinRetry(i, p) \/ NewGeneration(i, p)

Hold(c) ==
  \/ Renew(c)
  \/ \E f \in Failures : Fail(c, f)
  \/ \E x \in Candidates : SubmitStarted(c, x)
  \/ SubmitInvalid(c)
  \/ Publish(c)
  \/ SubmitAccepted(c)
  \/ SubmitRefused(c)

Next ==
  \/ \E c \in Callers, i \in RequestIds, b \in Fingerprints :
       Register(c, i, b) \/ RegisterFails(c, i, b)
  \/ Retry
  \/ \E c \in Callers : (\E t \in TaskIds : Claim(c, t)) \/ Hold(c) \/ Leave(c)
  \/ \E t \in TaskIds : Reclaim(t)
  \/ FactsChange \/ Tick \/ ClockSetBack

Spec == Init /\ [][Next]_vars

\* Nothing in the code reclaims by itself: an operator calls reclaim again and
\* again for every task, and the clock is not set back for ever.
OperatedSpec ==
  /\ Spec
  /\ <>[][~ClockSetBack]_vars
  /\ WF_vars(Tick)
  /\ \A t \in TaskIds : WF_vars(Reclaim(t))

-------------------------------------------------------------------------------
(* Properties *)

\* Although the table only makes an analysis unique per task, a budget never gets
\* a second one: an analysis belongs to the last attempt of the latest generation
\* and every other attempt of the budget failed (submit against retry and reclaim).
OneAnalysisPerBudget ==
  \A a \in analyses :
    /\ IsLatest(a.task)
    /\ a.ordinal = Used(a.task) /\ LastRow(a.task).outcome = "accepted"
    /\ \A t \in TasksOf(tasks[a.task].budget) : \A n \in 1..Used(t) :
         attempts[t][n].outcome \in {"none", "accepted"} =>
           t = a.task /\ n = a.ordinal
    /\ \A d \in analyses : tasks[d.task].budget = tasks[a.task].budget => d = a

\* validate_all on one task: requested, alone in its generation, its parent the
\* failed generation before it.
ValidTask(t) ==
  /\ \E i \in RequestIds : requests[i] # NoRequest /\ requests[i].task = t
  /\ \A u \in TasksOf(tasks[t].budget) :
       tasks[u].generation = tasks[t].generation => u = t
  /\ IF tasks[t].generation = 1 THEN tasks[t].parent = NoTask
     ELSE LET p == tasks[t].parent IN
          /\ p # NoTask /\ tasks[p].budget = tasks[t].budget
          /\ tasks[p].generation = tasks[t].generation - 1
          /\ Status(p) = "failed"

\* validate_all on one registration: a retry names the parent of its task, any
\* other request the input of its budget.
ValidRegistration(i) ==
  requests[i] # NoRequest =>
    LET c == requests[i].content IN
    IF c.budget = NoFingerprint THEN c.parent = tasks[requests[i].task].parent
                                ELSE c.budget = tasks[requests[i].task].budget

\* The generations of a budget stay one numbered parent chain of failed tasks, and
\* every request, one that joined an existing successor too, stays consistent.
ChainValidates ==
  /\ \A t \in Registered : ValidTask(t)
  /\ \A i \in RequestIds : ValidRegistration(i)

\* validate_all on one renewal: made by the holder before the deadline then valid.
RenewalInTime(row, k) ==
  LET before == IF k = 1 THEN row.claimed ELSE row.renewals[k - 1]
  IN  row.claimed <= row.renewals[k] /\ row.renewals[k] < before + Lease

\* validate_all on one settlement: the holder's before the deadline, a recovery's
\* not before it.
SettledInTime(row) ==
  row.outcome # "none" =>
    /\ row.settled >= row.claimed
    /\ (row.outcome = "outcome_unknown") <=> (row.settled >= Deadline(row))

ValidAttempt(t, n) ==
  LET row == attempts[t][n] IN
  /\ \A k \in 1..Len(row.renewals) : RenewalInTime(row, k)
  /\ SettledInTime(row)
  /\ n < Used(t) => row.outcome # "none"
  /\ row.outcome # "none" =>
       ((row.outcome = "accepted") <=> (Succeeded(t) /\ n = Used(t)))

\* An analysis as replay_analysis needs it: artifact and settlement of its attempt.
ValidAnalysis(a) ==
  /\ a.artifact \in artifacts /\ Accepts(a.artifact, a.ordinal)
  /\ a.settled = attempts[a.task][a.ordinal].settled

\* validate_all accepts the leases, renewals, settlements and analyses of every
\* reachable archive, so a backup never refuses what the service itself has
\* written, when the clock does not move inside a transaction.
LeasesValidate ==
  /\ \A t \in TaskIds : \A n \in 1..Used(t) : ValidAttempt(t, n)
  /\ \A a \in analyses : ValidAnalysis(a)

\* An unexpired lease is safe: whatever other callers do, an attempt is only
\* settled by its holder before the deadline it was last promised.
LeaseIsHonoured ==
  [][\A t \in TaskIds : \A n \in 1..Used(t) :
       attempts[t][n].outcome = "none" /\ now < Deadline(attempts[t][n])
         => attempts'[t][n].outcome # "outcome_unknown"]_vars

\* A settled attempt is never settled again, renewed or forgotten, and the
\* analysis of a task never changes.
SettlementIsFinal ==
  [][/\ analyses \subseteq analyses'
     /\ \A t \in TaskIds : \A n \in 1..Used(t) :
          attempts[t][n].outcome # "none" => attempts'[t][n] = attempts[t][n]]_vars

Held(t) == \E c \in Callers :
  callers[c].op \in {"holding", "submitting", "published"} /\ callers[c].task = t
Abandoned(t, n) ==
  /\ Used(t) = n /\ attempts[t][n].outcome = "none" /\ ~Held(t)
  /\ Deadline(attempts[t][n]) <= MaxTime

\* A claim whose holder was killed does not keep its task running for ever, as
\* long as somebody reclaims; a further claim alone never frees it.
AbandonedAttemptSettles ==
  \A t \in TaskIds, n \in 1..AttemptsPerGeneration :
    Abandoned(t, n) ~> (Used(t) >= n /\ attempts[t][n].outcome # "none")

\* docs/contracts/read-tasks.md: repeating a registration of the same input
\* returns to its budget.  The lookup in register answers database_failed
\* instead once a retry has given the budget a second generation.
RepeatedRegistrationReturns == \A c \in Callers : callers[c] # Failed

\* docs/contracts/read-tasks.md: only a holder whose lease has not expired may
\* renew, and validate_all checks every stored renewal and settlement.  renew,
\* fail and submit store a second clock reading that nothing compares with it.
HolderActsBeforeDeadline ==
  \A t \in TaskIds : \A n \in 1..Used(t) :
    LET row == attempts[t][n] IN
    /\ \A k \in 1..Len(row.renewals) : RenewalInTime(row, k)
    /\ SettledInTime(row)

-------------------------------------------------------------------------------
(* The budget *)

Budget == INSTANCE AttemptBudget WITH
  Budgets <- Fingerprints, Tasks <- TaskIds, Results <- Candidates,
  NoBudget <- NoFingerprint,
  owner <- [t \in TaskIds |-> tasks[t].budget],
  spent <- {a \in TaskIds \X (1..2) : a[2] <= Used(a[1])},
  failed <- {a \in TaskIds \X (1..2) : a[2] <= Used(a[1]) /\
               attempts[a[1]][a[2]].outcome \notin {"none", "accepted"}},
  results <- {[attempt |-> <<a.task, a.ordinal>>, value |-> a.artifact] :
               a \in analyses}

\* The service implements the abstract budget: every transaction is one of its
\* steps or invisible.
ImplementsBudget == Budget!Spec
===============================================================================
