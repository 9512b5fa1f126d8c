------------------------- MODULE ScreeningTasksProofs -------------------------
(***************************************************************************)
(* Proofs about the screening task service, for any number of callers,     *)
(* tasks, requests, fingerprints and candidates, any lease and any clock.  *)
(*                                                                         *)
(* The properties of ScreeningTasks are not inductive.  IInv adds what the *)
(* transactions rely on: only the last attempt of a task can be unsettled, *)
(* the generations of a budget are distinct, and every generation but the  *)
(* latest is superseded, that is, used up and failed.  AInv adds to it     *)
(* what the service leaves in the archive: what a row remembers of its     *)
(* claim and of its settlement, where a task came from, and what a caller  *)
(* has already checked or published.  With it validate_all accepts the     *)
(* archive in every reachable state, a settled attempt stays as it is, the *)
(* executor works with the correction that was checked before its claim,   *)
(* and the service implements the attempt budget.                          *)
(***************************************************************************)
EXTENDS ScreeningTasks, SequenceTheorems, TLAPS

-------------------------------------------------------------------------------
(* The inductive invariant *)

Counted ==
  \A t \in TaskIds :
    /\ Used(t) <= AttemptsPerGeneration
    /\ \A n \in 1..Used(t) : n < Used(t) => attempts[t][n].kind # "none"

Owned ==
  /\ \A t \in TaskIds : Used(t) > 0 => tasks[t].budget \in Fingerprints
  /\ \A q \in requests : tasks[q.task].budget \in Fingerprints

\* What a caller has in hand is in the archive.
CallersOwned ==
  \A c \in Callers :
    /\ callers[c].op = "register" => Mapping[callers[c].revision] \in Fingerprints
    /\ callers[c].op = "retry" =>
         /\ callers[c].request.parent \in TaskIds
         /\ tasks[callers[c].request.parent] # Unused
    /\ callers[c].op = "claim" => callers[c].receipt \in requests
    /\ callers[c].op \in {"claimed", "holding", "submitting", "published"} =>
         callers[c].attempt <= Used(callers[c].task)

UsedTasks ==
  \A t \in TaskIds : tasks[t].budget = Unmapped => tasks[t] = Unused

SameBudget(t, u) ==
  tasks[t].budget = tasks[u].budget /\ tasks[t].budget \in Fingerprints

DistinctGenerations ==
  \A t, u \in TaskIds :
    SameBudget(t, u) /\ tasks[t].generation = tasks[u].generation => t = u

Superseded(t) ==
  /\ Used(t) = AttemptsPerGeneration
  /\ \A n \in 1..Used(t) : attempts[t][n].kind # "none"

OlderSuperseded ==
  \A t, u \in TaskIds :
    SameBudget(t, u) /\ tasks[t].generation < tasks[u].generation => Superseded(t)

SuccessHeld ==
  \A s \in successes :
    /\ tasks[s.task].budget = s.budget
    /\ Used(s.task) > 0
    /\ s.attempt = Used(s.task)
    /\ LastRow(s.task).kind = "none"
    /\ \A r \in successes : r.budget = s.budget => r = s

IInv ==
  /\ TypeOK
  /\ Counted
  /\ Owned
  /\ CallersOwned
  /\ UsedTasks
  /\ DistinctGenerations
  /\ OlderSuperseded
  /\ SuccessHeld

-------------------------------------------------------------------------------
(* The properties follow from it *)

\* The budget of a success is closed, in every state IInv describes.
LEMMA InvClosesBudget == IInv => SuccessClosesBudget
<1> SUFFICES ASSUME IInv, NEW s \in successes
             PROVE  /\ tasks[s.task].budget = s.budget /\ IsLatest(s.task)
                    /\ s.attempt = Used(s.task) /\ LastRow(s.task).kind = "none"
                    /\ \A t \in TasksOf(s.budget) : \A n \in 1..Used(t) :
                         attempts[t][n].kind = "none" => t = s.task /\ n = s.attempt
                    /\ \A r \in successes : r.budget = s.budget => r = s
    BY DEF SuccessClosesBudget
<1>1. s.task \in TaskIds /\ s.budget \in Fingerprints
    BY DEF IInv, TypeOK, Success
<1>2. /\ tasks[s.task].budget = s.budget
      /\ Used(s.task) > 0 /\ s.attempt = Used(s.task)
      /\ LastRow(s.task).kind = "none"
      /\ \A r \in successes : r.budget = s.budget => r = s
    BY DEF IInv, SuccessHeld
<1>3. \A t \in TaskIds : Used(t) \in Nat /\ tasks[t].generation \in Nat
    BY DEF IInv, TypeOK, Task, Used
<1>4. ~Superseded(s.task)
    BY <1>1, <1>2, <1>3 DEF Superseded, LastRow
<1>5. ASSUME NEW t \in TasksOf(s.budget)
      PROVE  /\ t \in TaskIds
             /\ tasks[t].generation <= tasks[s.task].generation
             /\ t # s.task => Superseded(t)
  <2>1. t \in TaskIds /\ SameBudget(t, s.task) /\ SameBudget(s.task, t)
      BY <1>1, <1>2 DEF TasksOf, SameBudget
  <2>2. ~(tasks[s.task].generation < tasks[t].generation)
      BY <1>1, <1>4, <2>1 DEF IInv, OlderSuperseded
  <2>3. t # s.task => tasks[t].generation # tasks[s.task].generation
      BY <1>1, <2>1 DEF IInv, DistinctGenerations
  <2>4. t # s.task => tasks[t].generation < tasks[s.task].generation
      BY <1>1, <1>3, <2>1, <2>2, <2>3
  <2> QED
      BY <1>1, <1>3, <2>1, <2>2, <2>4 DEF IInv, OlderSuperseded
<1>6. IsLatest(s.task)
    BY <1>2, <1>5 DEF IsLatest
<1>7. ASSUME NEW t \in TasksOf(s.budget), NEW n \in 1..Used(t),
             attempts[t][n].kind = "none"
      PROVE  t = s.task /\ n = s.attempt
  <2>1. t = s.task
      BY <1>5, <1>7 DEF Superseded
  <2>2. ~(n < Used(t))
      BY <1>1, <1>7, <2>1 DEF IInv, Counted
  <2> QED
      BY <1>1, <1>2, <1>3, <2>1, <2>2
<1> QED
    BY <1>2, <1>6, <1>7

\* An unsettled attempt is the only one its budget has in flight, in every state
\* IInv describes.
LEMMA InvOneInFlight == IInv => OneAttemptInFlight
<1> SUFFICES ASSUME IInv, NEW t \in Registered, NEW n \in 1..Used(t),
                    Unsettled(t, n)
             PROVE  n = Used(t) /\ IsLatest(t) /\ ~HasSuccess(tasks[t].budget)
    BY DEF OneAttemptInFlight
<1>1. t \in TaskIds /\ attempts[t][n].kind = "none" /\ ~Accepted(t, n)
    BY DEF Registered, Unsettled
<1>2. \A u \in TaskIds : Used(u) \in Nat /\ tasks[u].generation \in Nat
    BY DEF IInv, TypeOK, Task, Used
<1>3. n = Used(t)
    BY <1>1, <1>2 DEF IInv, Counted
<1>4. tasks[t].budget \in Fingerprints
    BY <1>1, <1>2 DEF IInv, Owned
<1>5. IsLatest(t)
  <2> SUFFICES ASSUME NEW u \in TasksOf(tasks[t].budget)
               PROVE  tasks[u].generation <= tasks[t].generation
      BY DEF IsLatest
  <2>1. u \in TaskIds /\ SameBudget(t, u)
      BY <1>4 DEF TasksOf, SameBudget
  <2>2. ~Superseded(t)
      BY <1>1 DEF Superseded
  <2> QED
      BY <1>1, <1>2, <2>1, <2>2 DEF IInv, OlderSuperseded
<1>6. ~HasSuccess(tasks[t].budget)
  <2> SUFFICES ASSUME NEW s \in successes, s.budget = tasks[t].budget PROVE FALSE
      BY DEF HasSuccess
  <2>1. t = s.task /\ n = s.attempt
      BY <1>1, InvClosesBudget DEF SuccessClosesBudget, TasksOf
  <2> QED
      BY <1>1, <2>1 DEF Accepted
<1> QED
    BY <1>3, <1>5, <1>6

-------------------------------------------------------------------------------
(* The types of what a caller holds and of the archive's rows *)

LEMMA CallerTypes ==
  ASSUME TypeOK, NEW c \in Callers
  PROVE  /\ callers[c].op \in {"register", "retry"} => callers[c] \in Mapped
         /\ callers[c].op = "claim" => callers[c] \in Claiming
         /\ callers[c].op \in {"claimed", "holding", "submitting", "published"} =>
              callers[c] \in Holding
BY DEF TypeOK, Idle, Mapped, Claiming, Holding, HeldAs

LEMMA RowTypes ==
  ASSUME TypeOK, NEW t \in TaskIds
  PROVE  /\ attempts[t] \in Seq(Attempt) /\ Used(t) \in Nat
         /\ \A n \in 1..Used(t) : attempts[t][n] \in Attempt
         /\ tasks[t] \in Task
BY ElementOfSeq DEF TypeOK, Used

\* A settlement only rewrites the last row, and never leaves it unsettled.
LEMMA SettleRows ==
  ASSUME TypeOK, NEW t \in TaskIds, Used(t) > 0,
         NEW k \in Kinds, NEW o \in {"none", "executor", "exception", "recovery"},
         NEW x \in Candidates \cup {NoCandidate}
  PROVE  LET rows == Settle(attempts[t], k, o, x) IN
         /\ rows \in Seq(Attempt) /\ Len(rows) = Used(t)
         /\ \A n \in 1..Used(t) :
              rows[n].kind = IF n = Used(t) THEN k ELSE attempts[t][n].kind
<1> DEFINE row == [attempts[t][Used(t)] EXCEPT !.kind = k, !.origin = o,
                     !.settled = now, !.submission = x]
<1>1. /\ attempts[t] \in Seq(Attempt) /\ Used(t) \in Nat
      /\ attempts[t][Used(t)] \in Attempt
    BY RowTypes
<1>2. now \in Int
    BY DEF TypeOK
<1>3. row \in Attempt /\ row.kind = k
    BY <1>1, <1>2 DEF Attempt
<1>4. Settle(attempts[t], k, o, x) = [attempts[t] EXCEPT ![Used(t)] = row]
    BY DEF Settle, Used
<1> QED
    BY <1>1, <1>3, <1>4, ExceptSeq DEF Used

\* Recovering the attempt in flight changes the kind of the last row only.
LEMMA RecoveredRows ==
  ASSUME TypeOK, NEW t \in TaskIds, Used(t) > 0
  PROVE  /\ Recovered(t) \in Seq(Attempt) /\ Len(Recovered(t)) = Used(t)
         /\ \A n \in 1..Used(t) : Recovered(t)[n].kind =
              IF n = Used(t) THEN "outcome_unknown" ELSE attempts[t][n].kind
<1>1. "outcome_unknown" \in Kinds
    BY DEF Kinds
<1> QED
    BY <1>1, SettleRows DEF Recovered

\* The correction derived from the attempts of a task is one of the failure kinds.
LEMMA CorrectionType ==
  ASSUME IInv, NEW t \in TaskIds, NEW recover \in BOOLEAN
  PROVE  Correction(t, recover) \in Kinds
<1> DEFINE failed == {n \in 1..Used(t) : attempts[t][n].kind # "none"}
           latest == CHOOSE n \in failed : \A m \in failed : m <= n
<1>1. TypeOK /\ Used(t) \in Nat /\ Used(t) <= 2
    BY RowTypes DEF IInv, Counted, AttemptsPerGeneration
<1>2. failed # {} => \E n \in failed : \A m \in failed : m <= n
  <2>1. failed \subseteq {1, 2}
      BY <1>1
  <2> QED
      BY <2>1
<1>3. failed # {} => latest \in 1..Used(t)
    BY <1>2
<1>4. failed # {} => attempts[t][latest].kind \in Kinds
    BY <1>1, <1>3, RowTypes DEF Attempt
<1>5. "none" \in Kinds /\ "outcome_unknown" \in Kinds
    BY DEF Kinds
<1> QED
    BY <1>4, <1>5 DEF Correction

-------------------------------------------------------------------------------
(* Steps that preserve the invariant *)

\* Every caller keeps what it has, drops it, or goes on holding its attempt.
CallersKept ==
  /\ callers' \in [Callers -> {Idle} \cup Mapped \cup Claiming \cup Holding]
  /\ \A c \in Callers :
       \/ callers'[c] = callers[c]
       \/ callers'[c] = Idle
       \/ /\ callers[c] \in Holding /\ callers'[c] \in Holding
          /\ callers'[c].task = callers[c].task
          /\ callers'[c].attempt = callers[c].attempt

LEMMA KeptAreOwned ==
  ASSUME IInv, CallersKept,
         \A t \in TaskIds : tasks[t] # Unused => tasks'[t] = tasks[t],
         requests \subseteq requests',
         \A t \in TaskIds : Used(t)' >= Used(t) /\ Used(t)' \in Nat
  PROVE  CallersOwned'
<1> SUFFICES ASSUME NEW c \in Callers
             PROVE  /\ callers'[c].op = "register" =>
                         Mapping[callers'[c].revision] \in Fingerprints
                    /\ callers'[c].op = "retry" =>
                         /\ callers'[c].request.parent \in TaskIds
                         /\ tasks'[callers'[c].request.parent] # Unused
                    /\ callers'[c].op = "claim" => callers'[c].receipt \in requests'
                    /\ callers'[c].op \in {"claimed", "holding", "submitting", "published"} =>
                         callers'[c].attempt <= Len(attempts'[callers'[c].task])
    BY DEF CallersOwned, Used
<1>1. CASE callers'[c] = callers[c]
  <2>1. callers[c].op \in {"claimed", "holding", "submitting", "published"} =>
          /\ callers[c].task \in TaskIds
          /\ callers[c].attempt \in Nat
          /\ callers[c].attempt <= Used(callers[c].task)
      BY CallerTypes DEF IInv, CallersOwned, Holding, HeldAs, AttemptsPerGeneration
  <2>2. \A t \in TaskIds : Used(t) \in Nat
      BY RowTypes DEF IInv
  <2> QED
      BY <1>1, <2>1, <2>2 DEF IInv, CallersOwned, Used
<1>2. CASE callers'[c] = Idle
    BY <1>2 DEF Idle
<1>3. CASE /\ callers[c] \in Holding /\ callers'[c] \in Holding
           /\ callers'[c].task = callers[c].task
           /\ callers'[c].attempt = callers[c].attempt
  <2>1. /\ callers[c].op \in {"claimed", "holding", "submitting", "published"}
        /\ callers'[c].op \in {"claimed", "holding", "submitting", "published"}
        /\ callers[c].task \in TaskIds /\ callers[c].attempt \in Nat
      BY <1>3 DEF Holding, HeldAs, AttemptsPerGeneration
  <2>2. callers[c].attempt <= Used(callers[c].task)
      BY <2>1 DEF IInv, CallersOwned
  <2>3. Used(callers[c].task) \in Nat
      BY <2>1, RowTypes DEF IInv
  <2> QED
      BY <1>3, <2>1, <2>2, <2>3 DEF Used
<1> QED
    BY <1>1, <1>2, <1>3 DEF CallersKept

\* Steps that only move the clock, the paper's facts, publications or callers.
LEMMA ArchiveUnchanged ==
  ASSUME IInv, TypeOK', CallersOwned',
         UNCHANGED <<tasks, requests, attempts, successes>>
  PROVE  IInv'
BY DEF IInv, Counted, Owned, UsedTasks, DistinctGenerations, OlderSuperseded,
       SuccessHeld, Superseded, SameBudget, Used, LastRow

\* The settlement of the attempt in flight of t, as a failure.
LEMMA SettlementPreserves ==
  ASSUME IInv, CallersKept,
         NEW t \in TaskIds, InFlight(t),
         NEW k \in Kinds \ {"none"},
         NEW o \in {"none", "executor", "exception", "recovery"},
         NEW x \in Candidates \cup {NoCandidate},
         attempts' = [attempts EXCEPT ![t] = Settle(attempts[t], k, o, x)],
         UNCHANGED <<now, revision, tasks, requests, successes, artifacts>>
  PROVE  IInv'
<1> DEFINE rows == Settle(attempts[t], k, o, x)
<1>1. TypeOK /\ Used(t) > 0
    BY DEF IInv, InFlight
<1>2. /\ rows \in Seq(Attempt) /\ Len(rows) = Used(t)
      /\ \A n \in 1..Used(t) :
           rows[n].kind = IF n = Used(t) THEN k ELSE attempts[t][n].kind
    BY <1>1, SettleRows
<1> HIDE DEF rows
<1>3. /\ attempts' \in [TaskIds -> Seq(Attempt)]
      /\ attempts'[t] = rows
      /\ \A u \in TaskIds : u # t => attempts'[u] = attempts[u]
    BY <1>1, <1>2 DEF TypeOK, rows
<1>4. \A u \in TaskIds : Used(u)' = Used(u) /\ Used(u) \in Nat
    BY <1>1, <1>2, <1>3, RowTypes DEF Used
<1>5. \A u \in TaskIds : \A n \in 1..Used(u) :
        /\ attempts[u][n].kind # "none" => attempts'[u][n].kind # "none"
        /\ u # t => attempts'[u][n] = attempts[u][n]
    BY <1>2, <1>3
<1>6. TypeOK'
    BY <1>1, <1>3 DEF TypeOK, CallersKept
<1>7. CallersOwned'
    BY <1>4, KeptAreOwned
<1>8. Counted'
    BY <1>4, <1>5 DEF IInv, Counted, Used
<1>9. Owned' /\ UsedTasks' /\ DistinctGenerations'
    BY <1>4 DEF IInv, Owned, UsedTasks, DistinctGenerations, SameBudget, Used
<1>10. \A u \in TaskIds : Superseded(u) => Superseded(u)'
    BY <1>4, <1>5 DEF Superseded, Used
<1>11. OlderSuperseded'
    BY <1>10 DEF IInv, OlderSuperseded, SameBudget
<1>12. SuccessHeld'
  <2> SUFFICES ASSUME NEW s \in successes
               PROVE  /\ tasks[s.task].budget = s.budget
                      /\ Used(s.task)' > 0
                      /\ s.attempt = Used(s.task)'
                      /\ attempts'[s.task][Used(s.task)'].kind = "none"
                      /\ \A r \in successes : r.budget = s.budget => r = s
      BY DEF SuccessHeld, Used, LastRow
  <2>1. s.task \in TaskIds /\ s.task # t
      BY <1>1 DEF TypeOK, Success, IInv, SuccessHeld, InFlight, Accepted
  <2> QED
      BY <1>3, <1>4, <2>1 DEF IInv, SuccessHeld, LastRow
<1> QED
    BY <1>6, <1>7, <1>8, <1>9, <1>11, <1>12 DEF IInv

\* The steps of the environment and those of a caller that write no row.
LEMMA ClockPreserves ==
  ASSUME IInv, ReviseFacts \/ Tick \/ ClockSetBack
  PROVE  IInv'
<1>1. UNCHANGED <<tasks, requests, attempts, successes, artifacts, callers>>
    BY DEF ReviseFacts, Tick, ClockSetBack
<1>2. now' \in 0..MaxTime /\ revision' \in Revisions
    BY TimeAssumption DEF IInv, TypeOK, ReviseFacts, Tick, ClockSetBack
<1>3. TypeOK'
    BY <1>1, <1>2 DEF IInv, TypeOK
<1>4. CallersOwned'
    BY <1>1 DEF IInv, CallersOwned, Used
<1> QED
    BY <1>1, <1>3, <1>4, ArchiveUnchanged

LEMMA MappedPreserves ==
  ASSUME IInv, NEW c \in Callers, NEW request \in Request,
         request.source = "retry" => request.parent \in TaskIds,
         MapForRegistration(c, request) \/ MapForRetry(c, request)
  PROVE  IInv'
<1>1. /\ UNCHANGED <<now, revision, tasks, requests, attempts, successes, artifacts>>
      /\ Mapping[revision] # Unmapped
      /\ revision \in Revisions
    BY DEF MapForRegistration, MapForRetry, IInv, TypeOK
<1>2. Mapping[revision] \in Fingerprints
  <2>1. Mapping[revision] \in Fingerprints \cup {Unmapped}
      BY <1>1, MappingAssumption, ElementOfSeq DEF Revisions
  <2> QED
      BY <1>1, <2>1
<1>3. PICK op \in {"register", "retry"} :
        /\ callers' = [callers EXCEPT ![c] =
             [op |-> op, request |-> request, revision |-> revision]]
        /\ op = "retry" => request.source = "retry" /\ tasks[request.parent] # Unused
    BY DEF MapForRegistration, MapForRetry
<1>4. /\ callers'[c] = [op |-> op, request |-> request, revision |-> revision]
      /\ \A d \in Callers : d # c => callers'[d] = callers[d]
    BY <1>3 DEF IInv, TypeOK
<1>5. TypeOK'
  <2>1. callers'[c] \in Mapped
      BY <1>1, <1>4 DEF Mapped
  <2> QED
      BY <1>1, <1>3, <2>1 DEF IInv, TypeOK
<1>6. op = "retry" => request.parent \in TaskIds
    BY <1>3
<1>7. CallersOwned'
    BY <1>1, <1>2, <1>3, <1>4, <1>6 DEF IInv, CallersOwned, Used
<1> QED
    BY <1>1, <1>5, <1>7, ArchiveUnchanged

LEMMA MapForClaimPreserves ==
  ASSUME IInv, NEW c \in Callers, NEW q \in requests, MapForClaim(c, q)
  PROVE  IInv'
<1>1. UNCHANGED <<now, revision, tasks, requests, attempts, successes, artifacts>>
    BY DEF MapForClaim
<1>2. /\ callers'[c] = [op |-> "claim", receipt |-> q, revision |-> revision]
      /\ \A d \in Callers : d # c => callers'[d] = callers[d]
    BY DEF MapForClaim, IInv, TypeOK
<1>3. TypeOK'
  <2>1. callers'[c] \in Claiming
      BY <1>2 DEF Claiming, IInv, TypeOK
  <2> QED
      BY <1>1, <2>1 DEF IInv, TypeOK, MapForClaim
<1>4. CallersOwned'
    BY <1>1, <1>2 DEF IInv, CallersOwned, Used
<1> QED
    BY <1>1, <1>3, <1>4, ArchiveUnchanged

LEMMA KeptPreserves ==
  ASSUME IInv, CallersKept, artifacts' \subseteq Candidates,
         UNCHANGED <<now, revision, tasks, requests, attempts, successes>>
  PROVE  IInv'
<1>1. TypeOK'
    BY DEF IInv, TypeOK, CallersKept
<1>2. \A t \in TaskIds : Used(t)' = Used(t) /\ Used(t) \in Nat
    BY RowTypes DEF IInv, Used
<1>3. CallersOwned'
    BY <1>2, KeptAreOwned
<1> QED
    BY <1>1, <1>3, ArchiveUnchanged

\* One caller drops what it holds, or goes on holding its attempt.
LEMMA OneCallerKept ==
  ASSUME TypeOK, NEW c \in Callers, NEW held, callers' = [callers EXCEPT ![c] = held],
         \/ held = Idle
         \/ /\ callers[c] \in Holding /\ held \in Holding
            /\ held.task = callers[c].task /\ held.attempt = callers[c].attempt
  PROVE  CallersKept
BY DEF TypeOK, CallersKept

LEMMA DroppedPreserves ==
  ASSUME IInv, NEW c \in Callers,
         RegistrationAnswered(c) \/ RetryRefused(c) \/ ClaimRefused(c) \/ Leave(c)
  PROVE  IInv'
<1>1. /\ UNCHANGED <<now, revision, tasks, requests, attempts, successes, artifacts>>
      /\ callers' = [callers EXCEPT ![c] = Idle]
    BY DEF RegistrationAnswered, RetryRefused, ClaimRefused, Leave
<1>2. CallersKept
    BY <1>1, OneCallerKept DEF IInv
<1> QED
    BY <1>1, <1>2, KeptPreserves DEF IInv, TypeOK

LEMMA DoneHolds ==
  ASSUME TypeOK, NEW c \in Callers, callers[c].op \in {"submitting", "published"}
  PROVE  /\ callers[c] \in Holding /\ Done(c) \in Holding
         /\ Done(c).task = callers[c].task /\ Done(c).attempt = callers[c].attempt
BY CallerTypes DEF Done, Holding, HeldAs

LEMMA HeldPreserves ==
  ASSUME IInv, NEW c \in Callers,
         \/ ReadCorrection(c)
         \/ \E x \in Candidates : SubmitStarted(c, x)
         \/ Publish(c)
         \/ SubmitRefused(c)
  PROVE  IInv'
<1>1. /\ UNCHANGED <<now, revision, tasks, requests, attempts, successes>>
      /\ TypeOK
    BY DEF ReadCorrection, SubmitStarted, Publish, SubmitRefused, IInv
<1>2. callers[c].op \in {"claimed", "holding", "submitting", "published"} =>
        callers[c] \in Holding
    BY <1>1, CallerTypes
<1>3. artifacts' \subseteq Candidates
    BY <1>1, <1>2 DEF TypeOK, ReadCorrection, SubmitStarted, Publish, SubmitRefused,
       Holding, HeldAs, Accept
<1>4. CallersKept
  <2>1. CASE ReadCorrection(c)
    <3> DEFINE held == [callers[c] EXCEPT !.op = "holding",
                          !.correction = Correction(callers[c].task, FALSE)]
    <3>1. callers[c] \in Holding
        BY <1>2, <2>1 DEF ReadCorrection
    <3>2. Correction(callers[c].task, FALSE) \in Kinds
        BY <3>1, CorrectionType DEF Holding, HeldAs
    <3>3. held \in Holding /\ held.task = callers[c].task
          /\ held.attempt = callers[c].attempt
        BY <2>1, <3>1, <3>2 DEF Holding, HeldAs, ReadCorrection
    <3> QED
        BY <1>1, <2>1, <3>1, <3>3, OneCallerKept DEF ReadCorrection
  <2>2. CASE \E x \in Candidates : SubmitStarted(c, x)
    <3>1. PICK x \in Candidates : SubmitStarted(c, x)
        BY <2>2
    <3> DEFINE held == [callers[c] EXCEPT !.op = "submitting", !.candidate = x]
    <3>2. callers[c] \in Holding
        BY <1>2, <3>1 DEF SubmitStarted
    <3>3. held \in Holding /\ held.task = callers[c].task
          /\ held.attempt = callers[c].attempt
        BY <3>1, <3>2 DEF Holding, HeldAs, SubmitStarted
    <3> QED
        BY <1>1, <3>1, <3>2, <3>3, OneCallerKept DEF SubmitStarted
  <2>3. CASE Publish(c)
    <3> DEFINE held == [callers[c] EXCEPT !.op = "published"]
    <3>1. callers[c] \in Holding
        BY <1>2, <2>3 DEF Publish
    <3>2. held \in Holding /\ held.task = callers[c].task
          /\ held.attempt = callers[c].attempt
        BY <2>3, <3>1 DEF Holding, HeldAs, Publish
    <3> QED
        BY <1>1, <2>3, <3>1, <3>2, OneCallerKept DEF Publish
  <2>4. CASE SubmitRefused(c)
      BY <1>1, <2>4, DoneHolds, OneCallerKept DEF SubmitRefused
  <2> QED
      BY <2>1, <2>2, <2>3, <2>4
<1> QED
    BY <1>1, <1>3, <1>4, KeptPreserves

\* The steps that settle the attempt in flight as a failure.
LEMMA HolderSettles ==
  ASSUME IInv, NEW c \in Callers,
         \/ \E k \in Reports, o \in {"executor", "exception"} : Fail(c, k, o)
         \/ SubmitRejected(c)
  PROVE  IInv'
<1> DEFINE t == callers[c].task
<1>1. CASE \E k \in Reports, o \in {"executor", "exception"} : Fail(c, k, o)
  <2>1. PICK k \in Reports, o \in {"executor", "exception"} : Fail(c, k, o)
      BY <1>1
  <2>2. callers[c] \in Holding /\ t \in TaskIds
      BY <2>1, CallerTypes DEF Fail, IInv, Holding, HeldAs
  <2>3. k \in Kinds \ {"none"}
      BY ReportAssumption DEF Kinds
  <2>4. /\ InFlight(t)
        /\ attempts' = [attempts EXCEPT ![t] = Settle(attempts[t], k, o, NoCandidate)]
        /\ UNCHANGED <<now, revision, tasks, requests, successes, artifacts, callers>>
      BY <2>1, <2>2 DEF Fail, Owns, IInv, TypeOK
  <2>5. CallersKept
      BY <2>4 DEF CallersKept, IInv, TypeOK
  <2> QED
      BY <2>2, <2>3, <2>4, <2>5, SettlementPreserves
<1>2. CASE SubmitRejected(c)
  <2> DEFINE x == callers[c].candidate
  <2>1. callers[c] \in Holding /\ t \in TaskIds /\ x \in Candidates
      BY <1>2, CallerTypes DEF SubmitRejected, IInv, Holding, HeldAs
  <2>2. Verdict[x] \in Kinds \ {"none"}
      BY <1>2, <2>1, VerdictAssumption DEF SubmitRejected, Kinds, Rejections
  <2>3. /\ InFlight(t)
        /\ attempts' = [attempts EXCEPT ![t] =
             Settle(attempts[t], Verdict[x], "executor", x)]
        /\ UNCHANGED <<now, revision, tasks, requests, successes, artifacts>>
      BY <1>2, <2>1 DEF SubmitRejected, Owns, IInv, TypeOK
  <2>4. CallersKept
      BY <1>2, DoneHolds, OneCallerKept DEF SubmitRejected, IInv
  <2> QED
      BY <2>1, <2>2, <2>3, <2>4, SettlementPreserves
<1> QED
    BY <1>1, <1>2

LEMMA ReclaimPreserves ==
  ASSUME IInv, NEW t \in TaskIds, Reclaim(t)
  PROVE  IInv'
<1>1. /\ InFlight(t)
      /\ attempts' = [attempts EXCEPT ![t] =
           Settle(attempts[t], "outcome_unknown", "recovery", NoCandidate)]
      /\ UNCHANGED <<now, revision, tasks, requests, successes, artifacts, callers>>
    BY DEF Reclaim, LeaseExpired, Recovered
<1>2. CallersKept
    BY <1>1 DEF CallersKept, IInv, TypeOK
<1>3. "outcome_unknown" \in Kinds \ {"none"}
    BY DEF Kinds
<1> QED
    BY <1>1, <1>2, <1>3, SettlementPreserves

LEMMA OutOfBudgetPreserves ==
  ASSUME IInv, NEW c \in Callers, ClaimOutOfBudget(c)
  PROVE  IInv'
<1> DEFINE t == callers[c].receipt.task
<1>1. t \in TaskIds
    BY CallerTypes DEF ClaimOutOfBudget, IInv, Claiming, Receipt
<1>2. /\ attempts' = [attempts EXCEPT ![t] = AfterRecovery(t)]
      /\ UNCHANGED <<now, revision, tasks, requests, successes, artifacts>>
    BY DEF ClaimOutOfBudget
<1>3. CallersKept
    BY OneCallerKept DEF ClaimOutOfBudget, IInv
<1>4. CASE LeaseExpired(t)
  <2>1. "outcome_unknown" \in Kinds \ {"none"}
      BY DEF Kinds
  <2> QED
      BY <1>1, <1>2, <1>3, <1>4, <2>1, SettlementPreserves
         DEF AfterRecovery, Recovered, LeaseExpired
<1>5. CASE ~LeaseExpired(t)
  <2>1. attempts' = attempts
      BY <1>1, <1>2, <1>5 DEF AfterRecovery, IInv, TypeOK
  <2> QED
      BY <1>2, <1>3, <2>1, KeptPreserves DEF IInv, TypeOK
<1> QED
    BY <1>4, <1>5

\* A renewal only moves the deadline of the attempt in flight.
LEMMA RenewPreserves ==
  ASSUME IInv, NEW c \in Callers, Renew(c)
  PROVE  IInv'
<1> DEFINE t == callers[c].task
           row == [attempts[t][Used(t)] EXCEPT !.expires = now + Lease]
           rows == [attempts[t] EXCEPT ![Used(t)] = row]
<1>a. /\ TypeOK /\ t \in TaskIds /\ Used(t) > 0
      /\ UNCHANGED <<now, revision, tasks, requests, successes, artifacts, callers>>
    BY CallerTypes DEF Renew, Owns, InFlight, IInv, Holding, HeldAs
<1>b. /\ Used(t) \in Nat /\ attempts[t] \in Seq(Attempt)
      /\ attempts[t][Used(t)] \in Attempt
    BY <1>a, RowTypes
<1>c. attempts' = [attempts EXCEPT ![t] = rows]
  <2>1. Renewed(t) = rows
      BY DEF Renewed
  <2> QED
      BY <2>1 DEF Renew
<1>1. /\ TypeOK /\ t \in TaskIds /\ Used(t) \in Nat /\ Used(t) > 0
      /\ attempts[t] \in Seq(Attempt) /\ attempts[t][Used(t)] \in Attempt
      /\ UNCHANGED <<now, revision, tasks, requests, successes, artifacts, callers>>
      /\ attempts' = [attempts EXCEPT ![t] = rows]
    BY <1>a, <1>b, <1>c
<1>2. row \in Attempt /\ row.kind = attempts[t][Used(t)].kind
  <2>1. now + Lease \in Int
      BY <1>a, TimeAssumption DEF TypeOK
  <2> QED
      BY <1>b, <2>1 DEF Attempt
<1>3. /\ rows \in Seq(Attempt) /\ Len(rows) = Used(t)
      /\ \A n \in 1..Used(t) : rows[n].kind = attempts[t][n].kind
    BY <1>1, <1>2, ExceptSeq DEF Used
<1> HIDE DEF rows
<1>4. /\ attempts' \in [TaskIds -> Seq(Attempt)]
      /\ \A u \in TaskIds : Used(u)' = Used(u) /\ Used(u) \in Nat
      /\ \A u \in TaskIds : \A n \in 1..Used(u) :
           attempts'[u][n].kind = attempts[u][n].kind
    BY <1>1, <1>3, RowTypes DEF TypeOK, Used
<1>5. TypeOK'
    BY <1>1, <1>4 DEF TypeOK
<1>6. CallersOwned'
    BY <1>1, <1>4, CallerTypes DEF IInv, CallersOwned, Used, Holding, HeldAs
<1>7. Counted' /\ Owned' /\ UsedTasks' /\ DistinctGenerations'
    BY <1>1, <1>4
       DEF IInv, Counted, Owned, UsedTasks, DistinctGenerations, SameBudget, Used
<1>8. OlderSuperseded'
    BY <1>1, <1>4 DEF IInv, OlderSuperseded, SameBudget, Superseded, Used
<1>9. SuccessHeld'
  <2> SUFFICES ASSUME NEW s \in successes
               PROVE  /\ tasks[s.task].budget = s.budget
                      /\ Used(s.task)' > 0
                      /\ s.attempt = Used(s.task)'
                      /\ attempts'[s.task][Used(s.task)'].kind = "none"
                      /\ \A r \in successes : r.budget = s.budget => r = s
      BY <1>1 DEF SuccessHeld, Used, LastRow
  <2>1. s.task \in TaskIds
      BY <1>1 DEF TypeOK, Success
  <2> QED
      BY <1>4, <2>1 DEF IInv, SuccessHeld, LastRow
<1> QED
    BY <1>5, <1>6, <1>7, <1>8, <1>9 DEF IInv

\* The success of a budget that had none, for the attempt in flight.
LEMMA AcceptPreserves ==
  ASSUME IInv, NEW c \in Callers, SubmitAccepted(c)
  PROVE  IInv'
<1> DEFINE t == callers[c].task
           b == tasks[t].budget
           success == [budget |-> b, task |-> t, attempt |-> callers[c].attempt,
                       artifact |-> callers[c].candidate, settled |-> now]
<1>1. /\ TypeOK /\ t \in TaskIds /\ InFlight(t) /\ callers[c].attempt = Used(t)
      /\ callers[c].attempt \in 1..AttemptsPerGeneration
      /\ callers[c].candidate \in Candidates
      /\ ~HasSuccess(b)
      /\ successes' = successes \cup {success}
      /\ UNCHANGED <<now, revision, tasks, requests, attempts, artifacts>>
    BY CallerTypes DEF SubmitAccepted, Owns, IInv, Holding, HeldAs
<1>2. b \in Fingerprints
    BY <1>1 DEF IInv, Owned, InFlight
<1>3. CallersKept
    BY <1>1, DoneHolds, OneCallerKept DEF SubmitAccepted
<1>4. TypeOK'
    BY <1>1, <1>2, <1>3 DEF TypeOK, Success, CallersKept
<1>5. CallersOwned'
  <2>1. \A u \in TaskIds : Used(u)' = Used(u) /\ Used(u) \in Nat
      BY <1>1, RowTypes DEF Used
  <2> QED
      BY <1>1, <1>3, <2>1, KeptAreOwned
<1>6. Counted' /\ Owned' /\ UsedTasks' /\ DistinctGenerations' /\ OlderSuperseded'
    BY <1>1 DEF IInv, Counted, Owned, UsedTasks, DistinctGenerations,
                OlderSuperseded, SameBudget, Superseded, Used
<1>7. SuccessHeld'
  <2>1. \A s \in successes : s.budget # b
      BY <1>1 DEF HasSuccess
  <2> QED
      BY <1>1, <2>1 DEF IInv, SuccessHeld, InFlight, Used, LastRow
<1> QED
    BY <1>4, <1>5, <1>6, <1>7 DEF IInv

\* A receipt: of a new budget with its first task, or of a budget's latest task.
LEMMA RegistrationPreserves ==
  ASSUME IInv, NEW c \in Callers, NEW t \in TaskIds, RegistrationRecorded(c, t)
  PROVE  IInv'
<1> DEFINE request == callers[c].request
           rev == callers[c].revision
           b == Mapping[rev]
<1>1. /\ TypeOK /\ callers[c] \in Mapped /\ request \in Request /\ rev \in Revisions
      /\ b \in Fingerprints
      /\ UNCHANGED <<now, revision, attempts, successes, artifacts>>
      /\ callers' = [callers EXCEPT ![c] = Idle]
    BY CallerTypes DEF RegistrationRecorded, IInv, CallersOwned, Mapped
<1>2. PICK cached \in TaskIds \cup {NoTask} :
        requests' = requests \cup {[request |-> request, task |-> t,
                                    revision |-> rev, cached |-> cached]}
    BY DEF RegistrationRecorded
<1>3. requests' \subseteq Receipt
    BY <1>1, <1>2 DEF TypeOK, Receipt
<1>4. /\ tasks' \in [TaskIds -> Task]
      /\ tasks'[t].budget = b
      /\ \A u \in TaskIds : u # t => tasks'[u] = tasks[u]
      /\ \/ tasks' = tasks
         \/ tasks[t] = Unused /\ TasksOf(b) = {}
  <2>1. CASE TasksOf(b) = {}
    <3>1. /\ tasks[t] = Unused
          /\ tasks' = [tasks EXCEPT ![t] =
               [budget |-> b, generation |-> 0, parent |-> NoTask]]
        BY <2>1 DEF RegistrationRecorded
    <3>2. [budget |-> b, generation |-> 0, parent |-> NoTask] \in Task
        BY <1>1 DEF Task
    <3> QED
        BY <1>1, <2>1, <3>1, <3>2 DEF TypeOK
  <2>2. CASE TasksOf(b) # {}
    <3>1. t \in TasksOf(b) /\ tasks' = tasks
        BY <2>2 DEF RegistrationRecorded
    <3> QED
        BY <1>1, <3>1 DEF TypeOK, TasksOf
  <2> QED
      BY <2>1, <2>2
<1>5. CallersKept
    BY <1>1, OneCallerKept
<1>6. \A u \in TaskIds : Used(u)' = Used(u) /\ Used(u) \in Nat
    BY <1>1, RowTypes DEF Used
<1>7. tasks[t] = Unused => Used(t) = 0 /\ \A s \in successes : s.task # t
    BY <1>6, MappingAssumption
       DEF IInv, TypeOK, Owned, SuccessHeld, Success, Unused
<1>8. \A u \in TaskIds : tasks[u] # Unused => tasks'[u] = tasks[u]
    BY <1>4
<1>9. TypeOK'
    BY <1>1, <1>3, <1>4, <1>5 DEF TypeOK, CallersKept
<1>10. CallersOwned'
    BY <1>2, <1>5, <1>6, <1>8, KeptAreOwned
<1>11. Counted' /\ Owned' /\ UsedTasks'
  <2>1. Counted'
      BY <1>1, <1>6 DEF IInv, Counted, Used
  <2>2. Owned'
      BY <1>1, <1>2, <1>4, <1>6 DEF IInv, TypeOK, Owned, Receipt, Used
  <2>3. UsedTasks'
      BY <1>1, <1>4, MappingAssumption DEF IInv, UsedTasks
  <2> QED
      BY <2>1, <2>2, <2>3
<1>12. \A u, v \in TaskIds : u # v /\ SameBudget(u, v)' =>
         SameBudget(u, v) /\ tasks'[u] = tasks[u] /\ tasks'[v] = tasks[v]
  <2>1. CASE tasks' = tasks
      BY <2>1 DEF SameBudget
  <2>2. CASE tasks[t] = Unused /\ TasksOf(b) = {}
      BY <1>1, <1>4, <2>2 DEF SameBudget, TasksOf
  <2> QED
      BY <1>4, <2>1, <2>2
<1>13. DistinctGenerations'
    BY <1>12 DEF IInv, DistinctGenerations
<1>14. OlderSuperseded'
  <2>1. \A u \in TaskIds : Superseded(u) => Superseded(u)'
      BY <1>1, <1>6 DEF Superseded, Used
  <2>2. \A u \in TaskIds : ~(tasks'[u].generation < tasks'[u].generation)
      BY <1>4 DEF Task
  <2> QED
      BY <1>12, <2>1, <2>2 DEF IInv, OlderSuperseded
<1>15. SuccessHeld'
    BY <1>1, <1>4, <1>6, <1>7 DEF IInv, TypeOK, Success, SuccessHeld, Used, LastRow
<1> QED
    BY <1>9, <1>10, <1>11, <1>13, <1>14, <1>15 DEF IInv

\* A retry: the parent is used up and failed when its successor appears.
LEMMA RetryPreserves ==
  ASSUME IInv, NEW c \in Callers, NEW t \in TaskIds, RetryRecorded(c, t)
  PROVE  IInv'
<1> DEFINE request == callers[c].request
           rev == callers[c].revision
<1>0. PICK p \in TaskIds : p = request.parent
    BY DEF RetryRecorded, IInv, CallersOwned
<1> DEFINE new == [budget |-> tasks[p].budget, generation |-> tasks[p].generation + 1,
                   parent |-> p]
<1>1. /\ TypeOK /\ callers[c] \in Mapped /\ request \in Request /\ rev \in Revisions
      /\ p \in TaskIds /\ tasks[p] # Unused /\ tasks[t] = Unused
      /\ UNCHANGED <<now, revision, successes, artifacts>>
      /\ callers' = [callers EXCEPT ![c] = Idle]
    BY <1>0, CallerTypes DEF RetryRecorded, IInv, CallersOwned, Mapped
<1>2. /\ ~HasSuccess(tasks[p].budget) /\ IsLatest(p)
      /\ Exhausted(p) \/ (LeaseExpired(p) /\ Used(p) = AttemptsPerGeneration)
    BY <1>0 DEF RetryRecorded, MayRetry
<1>3. p # t /\ tasks[p].budget \in Fingerprints /\ tasks[p] \in Task
    BY <1>1, RowTypes DEF IInv, UsedTasks, Task
<1>4. /\ tasks'[t] = new /\ new \in Task
      /\ tasks' \in [TaskIds -> Task]
      /\ \A u \in TaskIds : u # t => tasks'[u] = tasks[u]
  <2>1. new \in Task
      BY <1>1, <1>3 DEF Task
  <2>2. tasks' = [tasks EXCEPT ![t] = new]
      BY <1>0 DEF RetryRecorded
  <2> QED
      BY <1>1, <2>1, <2>2 DEF TypeOK
<1>5. /\ requests' = requests \cup {[request |-> request, task |-> t,
                                     revision |-> rev, cached |-> NoTask]}
      /\ requests' \subseteq Receipt
    BY <1>1 DEF RetryRecorded, TypeOK, Receipt
<1>6. /\ attempts' \in [TaskIds -> Seq(Attempt)]
      /\ \A u \in TaskIds : u # p => attempts'[u] = attempts[u]
      /\ Used(p)' = Used(p) /\ Used(p) = AttemptsPerGeneration
      /\ \A n \in 1..Used(p) : attempts'[p][n].kind # "none"
  <2>1. attempts' = [attempts EXCEPT ![p] = AfterRecovery(p)]
      BY <1>0 DEF RetryRecorded
  <2>2. CASE LeaseExpired(p)
    <3>1. Used(p) > 0 /\ Used(p) = AttemptsPerGeneration
        BY <1>2, <2>2 DEF LeaseExpired, InFlight, Exhausted
    <3>2. /\ Used(p) = AttemptsPerGeneration
          /\ Recovered(p) \in Seq(Attempt) /\ Len(Recovered(p)) = Used(p)
          /\ \A n \in 1..Used(p) : Recovered(p)[n].kind =
               IF n = Used(p) THEN "outcome_unknown" ELSE attempts[p][n].kind
        BY <1>1, <3>1, RecoveredRows
    <3>3. \A n \in 1..Used(p) : n # Used(p) => attempts[p][n].kind # "none"
        BY <1>1, <3>2 DEF IInv, Counted, AttemptsPerGeneration
    <3> QED
        BY <1>1, <2>1, <2>2, <3>2, <3>3 DEF AfterRecovery, TypeOK, Used
  <2>3. CASE ~LeaseExpired(p)
    <3>1. Used(p) = AttemptsPerGeneration /\ LastRow(p).kind # "none"
        BY <1>2, <2>3 DEF Exhausted
    <3>2. \A n \in 1..Used(p) : attempts[p][n].kind # "none"
        BY <1>1, <3>1 DEF IInv, Counted, LastRow, AttemptsPerGeneration
    <3>3. attempts' = attempts
        BY <1>1, <2>1, <2>3 DEF AfterRecovery, TypeOK
    <3> QED
        BY <1>1, <3>1, <3>2, <3>3 DEF TypeOK, Used
  <2> QED
      BY <2>2, <2>3
<1>7. \A u \in TaskIds : Used(u)' = Used(u) /\ Used(u) \in Nat
    BY <1>1, <1>6, RowTypes DEF Used
<1>8. Used(t) = 0 /\ \A s \in successes : s.task # t /\ s.task # p
  <2>1. Unmapped \notin Fingerprints /\ tasks[t].budget = Unmapped
      BY <1>1, MappingAssumption DEF Unused
  <2>2. Used(t) = 0
      BY <1>7, <2>1 DEF IInv, Owned
  <2>3. ASSUME NEW s \in successes PROVE s.task # t /\ s.task # p
      BY <1>1, <1>2, <2>1 DEF IInv, SuccessHeld, TypeOK, Success, HasSuccess
  <2> QED
      BY <2>2, <2>3
<1>9. CallersKept
    BY <1>1, OneCallerKept
<1>10. TypeOK'
    BY <1>1, <1>4, <1>5, <1>6, <1>9 DEF TypeOK, CallersKept
<1>11. CallersOwned'
  <2>1. \A u \in TaskIds : tasks[u] # Unused => tasks'[u] = tasks[u]
      BY <1>1, <1>4
  <2> QED
      BY <1>5, <1>7, <1>9, <2>1, KeptAreOwned
<1>12. Counted'
  <2> SUFFICES ASSUME NEW u \in TaskIds, NEW n \in 1..Used(u)
               PROVE  /\ Used(u)' <= AttemptsPerGeneration
                      /\ n < Used(u) => attempts'[u][n].kind # "none"
      BY <1>7 DEF Counted, Used, IInv, AttemptsPerGeneration
  <2> QED
      BY <1>6, <1>7 DEF IInv, Counted
<1>13. Owned'
  <2>1. \A u \in TaskIds : tasks[u].budget \in Fingerprints => tasks'[u] = tasks[u]
      BY <1>1, <1>4, MappingAssumption DEF Unused
  <2>2. ASSUME NEW u \in TaskIds, Used(u)' > 0
        PROVE  tasks'[u].budget \in Fingerprints
      BY <1>7, <2>1, <2>2 DEF IInv, Owned
  <2>3. ASSUME NEW q \in requests'
        PROVE  tasks'[q.task].budget \in Fingerprints
      BY <1>1, <1>3, <1>4, <1>5, <2>1 DEF IInv, TypeOK, Owned, Receipt
  <2> QED
      BY <2>2, <2>3 DEF Owned, Used
<1>14. UsedTasks'
    BY <1>3, <1>4, MappingAssumption DEF IInv, UsedTasks
<1>15. \A u \in TaskIds : u # t /\ SameBudget(u, t)' =>
         /\ tasks'[u] = tasks[u] /\ SameBudget(u, p) /\ SameBudget(p, u)
         /\ tasks[u].generation \in Nat
         /\ tasks[u].generation <= tasks[p].generation
    BY <1>1, <1>2, <1>4, RowTypes DEF SameBudget, IsLatest, TasksOf, Task
<1>16. DistinctGenerations'
  <2> SUFFICES ASSUME NEW u \in TaskIds, NEW v \in TaskIds, u # v, SameBudget(u, v)',
                      tasks'[u].generation = tasks'[v].generation
               PROVE  FALSE
      BY DEF DistinctGenerations
  <2>1. u # t
      BY <1>3, <1>4, <1>15 DEF SameBudget, Task
  <2>2. v # t
      BY <1>3, <1>4, <1>15 DEF SameBudget, Task
  <2> QED
      BY <1>4, <2>1, <2>2 DEF IInv, DistinctGenerations, SameBudget
<1>17. OlderSuperseded'
  <2>1. \A u \in TaskIds : Superseded(u) => Superseded(u)'
      BY <1>6, <1>7 DEF Superseded, Used
  <2>2. Superseded(p)'
      BY <1>6, <1>7 DEF Superseded, Used
  <2> SUFFICES ASSUME NEW u \in TaskIds, NEW v \in TaskIds, SameBudget(u, v)',
                      tasks'[u].generation < tasks'[v].generation
               PROVE  Superseded(u)'
      BY DEF OlderSuperseded
  <2>3. u # t
      BY <1>3, <1>4, <1>15 DEF SameBudget, Task
  <2>4. CASE v = t
    <3>1. SameBudget(u, p) /\ tasks[u].generation <= tasks[p].generation
          /\ tasks[u].generation \in Nat
        BY <1>15, <2>3, <2>4
    <3>2. u # p => tasks[u].generation # tasks[p].generation
        BY <1>1, <3>1 DEF IInv, DistinctGenerations
    <3>3. u # p => tasks[u].generation < tasks[p].generation
        BY <1>3, <3>1, <3>2 DEF Task
    <3> QED
        BY <1>1, <2>1, <2>2, <3>1, <3>3 DEF IInv, OlderSuperseded
  <2>5. CASE v # t
      BY <1>4, <2>1, <2>3, <2>5 DEF IInv, OlderSuperseded, SameBudget
  <2> QED
      BY <2>4, <2>5
<1>18. SuccessHeld'
    BY <1>1, <1>4, <1>6, <1>7, <1>8 DEF IInv, TypeOK, Success, SuccessHeld, Used, LastRow
<1> QED
    BY <1>10, <1>11, <1>12, <1>13, <1>14, <1>16, <1>17, <1>18 DEF IInv

\* A claim: the attempts before it have failed, an expired one just now.
LEMMA ClaimPreserves ==
  ASSUME IInv, NEW c \in Callers, ClaimGranted(c)
  PROVE  IInv'
<1> DEFINE q == callers[c].receipt
<1>0. PICK t \in TaskIds : t = q.task
    BY CallerTypes DEF ClaimGranted, IInv, Claiming, Receipt
<1> DEFINE row == [receipt |-> q, revision |-> callers[c].revision,
                   claimed |-> now, expires |-> now + Lease,
                   kind |-> "none", origin |-> "none", settled |-> 0,
                   submission |-> NoCandidate]
           before == AfterRecovery(t)
           held == [op |-> "claimed", task |-> t, attempt |-> Used(t) + 1,
                    preview |-> Correction(t, TRUE), correction |-> "none",
                    candidate |-> NoCandidate]
<1>1. /\ TypeOK /\ callers[c] \in Claiming /\ q \in requests /\ q \in Receipt
      /\ UNCHANGED <<now, revision, tasks, requests, successes, artifacts>>
    BY CallerTypes DEF ClaimGranted, IInv, CallersOwned, Claiming
<1>2. /\ ~HasSuccess(tasks[t].budget)
      /\ ~(InFlight(t) /\ now < LastRow(t).expires)
      /\ Used(t) # AttemptsPerGeneration
    BY <1>0 DEF ClaimGranted, ClaimBlocked, ClaimExhausted
<1>3. attempts' = [attempts EXCEPT ![t] = Append(before, row)]
    BY <1>0 DEF ClaimGranted
<1>4. callers' = [callers EXCEPT ![c] = held]
    BY <1>0 DEF ClaimGranted
<1>5. /\ tasks[t].budget \in Fingerprints
      /\ Used(t) \in Nat /\ Used(t) < 2
      /\ \A s \in successes : s.task # t
  <2>1. tasks[t].budget \in Fingerprints
      BY <1>0, <1>1 DEF IInv, Owned
  <2>2. Used(t) \in Nat /\ Used(t) < 2
      BY <1>1, <1>2, RowTypes DEF IInv, Counted, AttemptsPerGeneration
  <2>3. \A s \in successes : s.task # t
      BY <1>2 DEF IInv, SuccessHeld, HasSuccess
  <2> QED
      BY <2>1, <2>2, <2>3
<1>6. row \in Attempt /\ row.kind = "none"
  <2>1. now \in Int /\ now + Lease \in Int
      BY <1>1, TimeAssumption DEF TypeOK
  <2> QED
      BY <1>1, <2>1 DEF Attempt, Claiming, Kinds
<1>7. /\ before \in Seq(Attempt) /\ Len(before) = Used(t)
      /\ \A n \in 1..Used(t) : before[n].kind # "none"
  <2>1. \A n \in 1..Used(t) : n # Used(t) => attempts[t][n].kind # "none"
      BY <1>5 DEF IInv, Counted
  <2>2. CASE LeaseExpired(t)
    <3>1. Used(t) > 0
        BY <2>2 DEF LeaseExpired, InFlight
    <3>2. /\ Recovered(t) \in Seq(Attempt) /\ Len(Recovered(t)) = Used(t)
          /\ \A n \in 1..Used(t) : Recovered(t)[n].kind =
               IF n = Used(t) THEN "outcome_unknown" ELSE attempts[t][n].kind
        BY <1>1, <3>1, RecoveredRows
    <3> QED
        BY <2>1, <2>2, <3>2 DEF AfterRecovery
  <2>3. CASE ~LeaseExpired(t)
    <3>1. Used(t) > 0 => LastRow(t).kind # "none"
      <4>1. ~InFlight(t) \/ ~(now >= LastRow(t).expires)
          BY <2>3 DEF LeaseExpired
      <4>2. Used(t) > 0 => LastRow(t).expires \in Int /\ now \in Int
        <5>1. Used(t) > 0 => LastRow(t) \in Attempt
            BY <1>1, <1>5, RowTypes DEF LastRow
        <5>2. now \in Int
            BY <1>1 DEF TypeOK
        <5> QED
            BY <5>1, <5>2 DEF Attempt
      <4>3. ~InFlight(t)
          BY <1>2, <4>1, <4>2 DEF InFlight
      <4>4. ~Accepted(t, Used(t))
          BY <1>5 DEF Accepted
      <4> QED
          BY <4>3, <4>4 DEF InFlight
    <3> QED
        BY <1>1, <1>5, <2>1, <2>3, <3>1, RowTypes DEF AfterRecovery, LastRow, Used
  <2> QED
      BY <2>2, <2>3
<1> HIDE DEF before, row
<1>8. /\ attempts' \in [TaskIds -> Seq(Attempt)]
      /\ Used(t)' = Used(t) + 1
      /\ \A n \in 1..Used(t) : attempts'[t][n].kind # "none"
      /\ \A u \in TaskIds : u # t => attempts'[u] = attempts[u]
  <2>1. /\ Append(before, row) \in Seq(Attempt)
        /\ Len(Append(before, row)) = Used(t) + 1
        /\ \A n \in 1..Used(t) : Append(before, row)[n] = before[n]
      BY <1>6, <1>7, AppendProperties
  <2> QED
      BY <1>1, <1>3, <1>7, <2>1 DEF TypeOK, Used
<1>9. \A u \in TaskIds : Used(u) \in Nat /\ Used(u)' \in Nat /\ Used(u)' >= Used(u)
    BY <1>1, <1>5, <1>8, RowTypes DEF Used
<1>10. held \in Holding
  <2>1. Correction(t, TRUE) \in Kinds /\ "none" \in Kinds
      BY CorrectionType DEF Kinds
  <2>2. Used(t) + 1 \in 1..AttemptsPerGeneration
      BY <1>5 DEF AttemptsPerGeneration
  <2>3. held \in HeldAs({"claimed", "holding"}, {NoCandidate})
      BY <2>1, <2>2 DEF HeldAs
  <2> QED
      BY <2>3 DEF Holding
<1>11. TypeOK'
    BY <1>1, <1>4, <1>8, <1>10 DEF TypeOK
<1>12. CallersOwned'
  <2> SUFFICES ASSUME NEW d \in Callers
               PROVE  /\ callers'[d].op = "register" =>
                           Mapping[callers'[d].revision] \in Fingerprints
                      /\ callers'[d].op = "retry" =>
                           /\ callers'[d].request.parent \in TaskIds
                           /\ tasks'[callers'[d].request.parent] # Unused
                      /\ callers'[d].op = "claim" => callers'[d].receipt \in requests'
                      /\ callers'[d].op \in {"claimed", "holding", "submitting", "published"} =>
                           callers'[d].attempt <= Len(attempts'[callers'[d].task])
      BY DEF CallersOwned, Used
  <2>1. CASE d = c
      BY <1>1, <1>4, <1>5, <1>8, <2>1 DEF TypeOK, Used
  <2>2. CASE d # c
    <3>1. callers'[d] = callers[d]
        BY <1>1, <1>4, <2>2 DEF TypeOK
    <3>2. callers[d].op \in {"claimed", "holding", "submitting", "published"} =>
            /\ callers[d].task \in TaskIds /\ callers[d].attempt \in Nat
            /\ callers[d].attempt <= Used(callers[d].task)
        BY <1>1, CallerTypes DEF IInv, CallersOwned, Holding, HeldAs, AttemptsPerGeneration
    <3> QED
        BY <1>1, <1>9, <3>1, <3>2 DEF IInv, CallersOwned, Used
  <2> QED
      BY <2>1, <2>2
<1>13. Counted'
  <2> SUFFICES ASSUME NEW u \in TaskIds
               PROVE  /\ Used(u)' <= AttemptsPerGeneration
                      /\ \A n \in 1..Used(u)' :
                           n < Used(u)' => attempts'[u][n].kind # "none"
      BY DEF Counted, Used
  <2>1. CASE u = t
      BY <1>5, <1>8, <2>1 DEF AttemptsPerGeneration
  <2>2. CASE u # t
      BY <1>8, <2>2 DEF IInv, Counted, Used
  <2> QED
      BY <2>1, <2>2
<1>14. Owned'
  <2> SUFFICES ASSUME NEW u \in TaskIds, Used(u)' > 0
               PROVE  tasks[u].budget \in Fingerprints
      BY <1>1 DEF Owned, IInv, Used
  <2> QED
      BY <1>5, <1>8 DEF IInv, Owned, Used
<1>15. UsedTasks' /\ DistinctGenerations'
    BY <1>1 DEF IInv, UsedTasks, DistinctGenerations, SameBudget
<1>16. OlderSuperseded'
  <2>1. ASSUME NEW u \in TaskIds, Superseded(u) PROVE Superseded(u)'
    <3>1. u # t
        BY <1>5, <2>1 DEF Superseded, AttemptsPerGeneration
    <3> QED
        BY <1>8, <2>1, <3>1 DEF Superseded, Used
  <2> QED
      BY <1>1, <2>1 DEF IInv, OlderSuperseded, SameBudget
<1>17. SuccessHeld'
    BY <1>1, <1>5, <1>8 DEF IInv, SuccessHeld, TypeOK, Success, Used, LastRow
<1> QED
    BY <1>11, <1>12, <1>13, <1>14, <1>15, <1>16, <1>17 DEF IInv

-------------------------------------------------------------------------------
(* The invariant, and the theorems *)

LEMMA InitInvariant == Init => IInv
<1> SUFFICES ASSUME Init PROVE IInv
    OBVIOUS
<1>1. TypeOK
  <2>1. Unused \in Task /\ Idle \in {Idle} \cup Mapped \cup Claiming \cup Holding
      BY DEF Unused, Task
  <2>2. 1 \in Revisions /\ now \in 0..MaxTime
      BY MappingAssumption, TimeAssumption DEF Init, Revisions
  <2> QED
      BY <2>1, <2>2, EmptySeq DEF Init, TypeOK
<1>2. \A t \in TaskIds : Used(t) = 0
    BY DEF Init, Used
<1>3. Counted /\ Owned /\ CallersOwned /\ UsedTasks /\ SuccessHeld
    BY <1>2 DEF Init, Counted, Owned, CallersOwned, UsedTasks, SuccessHeld, Idle,
       AttemptsPerGeneration
<1>4. \A t, u \in TaskIds : ~SameBudget(t, u)
    BY MappingAssumption DEF Init, SameBudget, Unused
<1> QED
    BY <1>1, <1>3, <1>4 DEF IInv, DistinctGenerations, OlderSuperseded

LEMMA NextInvariant == IInv /\ [Next]_vars => IInv'
<1> SUFFICES ASSUME IInv, [Next]_vars PROVE IInv'
    OBVIOUS
<1>1. ASSUME NEW c \in Callers, Register(c) PROVE IInv'
  <2>1. Scheduled \in Request /\ Scheduled.source # "retry"
        /\ \A i \in RequestIds : Manual(i) \in Request /\ Manual(i).source # "retry"
      BY DEF Scheduled, Manual, Request
  <2> QED
      BY <1>1, <2>1, MappedPreserves, DroppedPreserves, RegistrationPreserves DEF Register
<1>2. ASSUME NEW c \in Callers, RetryTask(c) PROVE IInv'
  <2>1. \A i \in RequestIds, p \in TaskIds :
          Retry(i, p) \in Request /\ Retry(i, p).parent \in TaskIds
      BY DEF Retry, Request
  <2> QED
      BY <1>2, <2>1, MappedPreserves, DroppedPreserves, RetryPreserves DEF RetryTask
<1>3. ASSUME NEW c \in Callers, ClaimTask(c) PROVE IInv'
    BY <1>3, MapForClaimPreserves, DroppedPreserves, OutOfBudgetPreserves, ClaimPreserves
       DEF ClaimTask
<1>4. ASSUME NEW c \in Callers, Hold(c) PROVE IInv'
    BY <1>4, HeldPreserves, RenewPreserves, HolderSettles, AcceptPreserves DEF Hold
<1>5. ASSUME NEW c \in Callers, Leave(c) PROVE IInv'
    BY <1>5, DroppedPreserves
<1>6. ASSUME NEW t \in TaskIds, Reclaim(t) PROVE IInv'
    BY <1>6, ReclaimPreserves
<1>7. ASSUME ReviseFacts \/ Tick \/ ClockSetBack PROVE IInv'
    BY <1>7, ClockPreserves
<1>8. CASE UNCHANGED vars
  <2>1. TypeOK' /\ CallersOwned'
      BY <1>8 DEF vars, IInv, TypeOK, CallersOwned, Used
  <2> QED
      BY <1>8, <2>1, ArchiveUnchanged DEF vars
<1> QED
    BY <1>1, <1>2, <1>3, <1>4, <1>5, <1>6, <1>7, <1>8 DEF Next

\* The inductive invariant holds in every reachable archive.
THEOREM Invariant == Spec => []IInv
BY InitInvariant, NextInvariant, PTL DEF Spec

\* Every state the service reaches is well typed, whatever its callers do.
THEOREM TypeCorrect == Spec => []TypeOK
<1>1. IInv => TypeOK
    BY DEF IInv
<1> QED
    BY <1>1, Invariant, PTL

\* A success ends its budget: no other attempt of it is or will be unsettled, and
\* no retry opens a generation after it (success.submit, retry.register, claim).
THEOREM SuccessIsTheLastWord == Spec => []SuccessClosesBudget
BY Invariant, InvClosesBudget, PTL

\* One attempt of a budget at a time is in flight, in its latest generation only.
THEOREM SingleAttempt == Spec => []OneAttemptInFlight
BY Invariant, InvOneInFlight, PTL

-------------------------------------------------------------------------------
(* The archive: the inductive invariant *)

\* A row names a receipt of its task, was claimed under the task's fingerprint
\* and its times are in order; a settlement comes after the claim, a recovery
\* after the lease.
SoundRow(t, n) ==
  LET row == attempts[t][n] IN
  /\ row.receipt \in requests /\ row.receipt.task = t
  /\ Mapping[row.revision] = tasks[t].budget
  /\ row.expires >= row.claimed + Lease
  /\ row.kind # "none" => row.settled >= row.claimed
  /\ row.origin = "recovery" =>
       row.kind = "outcome_unknown" /\ row.settled >= row.expires
  /\ n < Used(t) => row.settled <= attempts[t][n + 1].claimed

RowsSound == \A t \in TaskIds : \A n \in 1..Used(t) : SoundRow(t, n)

RetriesOf(t) == {q \in requests : q.task = t /\ q.request.source = "retry"}

\* Where a task came from: a registration, or the one retry of its parent.
Descended(t) ==
  /\ \E q \in requests : q.task = t
  /\ tasks[t].generation = 0 => tasks[t].parent = NoTask /\ RetriesOf(t) = {}
  /\ tasks[t].generation # 0 =>
       /\ tasks[t].parent \in TaskIds
       /\ tasks[tasks[t].parent].budget = tasks[t].budget
       /\ tasks[tasks[t].parent].generation = tasks[t].generation - 1
       /\ \E q \in RetriesOf(t) : RetriesOf(t) = {q} /\ q.request.parent = tasks[t].parent

TasksDescend == \A t \in TaskIds : tasks[t].budget \in Fingerprints => Descended(t)

SuccessesSound == \A s \in successes : ValidSuccess(s)
ReceiptsSound == \A q \in requests : ValidCachedReceipt(q)

\* The correction a task's last attempt was claimed with.
Shown(t) == IF Used(t) = 1 THEN "none" ELSE attempts[t][1].kind

\* What a caller has checked, and what it has published.
CallersSound ==
  \A c \in Callers :
    /\ callers[c].op = "register" => callers[c].request.source # "retry"
    /\ callers[c].op = "retry" => callers[c].request.source = "retry"
    /\ callers[c].op = "claim" =>
         Mapping[callers[c].revision] = tasks[callers[c].receipt.task].budget
    /\ callers[c].op = "published" =>
         callers[c].candidate \in artifacts /\ Verdict[callers[c].candidate] = Accept
    /\ callers[c].op \in {"claimed", "holding", "submitting", "published"}
         /\ attempts[callers[c].task][callers[c].attempt].kind = "none" =>
           /\ callers[c].preview = Shown(callers[c].task)
           /\ callers[c].op # "claimed" => callers[c].correction = callers[c].preview

AInv ==
  /\ IInv
  /\ RowsSound
  /\ TasksDescend
  /\ SuccessesSound
  /\ ReceiptsSound
  /\ CallersSound

-------------------------------------------------------------------------------
(* The steps, by what they do to the archive *)

\* A step that leaves every row of the archive as it is.
Quiet ==
  /\ UNCHANGED <<tasks, requests, attempts, successes>>
  /\ artifacts \subseteq artifacts'

\* The attempt in flight of t fails, on a report or by recovery.
Settles(t) ==
  \E k \in Kinds \ {"none"}, o \in {"executor", "exception", "recovery"},
     x \in Candidates \cup {NoCandidate} :
    /\ InFlight(t) /\ now >= LastRow(t).claimed
    /\ o = "recovery" => k = "outcome_unknown" /\ now >= LastRow(t).expires
    /\ attempts' = [attempts EXCEPT ![t] = Settle(attempts[t], k, o, x)]
    /\ UNCHANGED <<now, tasks, requests, successes, artifacts>>

\* A lease that has run out was claimed before the clock it ran out on.
LEMMA ExpiredIsLate ==
  ASSUME IInv, RowsSound, NEW t \in TaskIds, LeaseExpired(t)
  PROVE  /\ InFlight(t) /\ Used(t) > 0 /\ LastRow(t) \in Attempt
         /\ now >= LastRow(t).claimed /\ now >= LastRow(t).expires
<1>1. /\ InFlight(t) /\ Used(t) > 0 /\ now >= LastRow(t).expires
      /\ Used(t) \in Nat /\ LastRow(t) \in Attempt /\ now \in Int
    BY RowTypes DEF LeaseExpired, InFlight, IInv, TypeOK, LastRow
<1>2. LastRow(t).expires >= LastRow(t).claimed + Lease
    BY <1>1 DEF RowsSound, SoundRow, LastRow
<1>3. LastRow(t).claimed \in Int /\ LastRow(t).expires \in Int
    BY <1>1 DEF Attempt
<1> QED
    BY <1>1, <1>2, <1>3, TimeAssumption

\* Recovering an expired attempt settles it.
LEMMA RecoverySettles ==
  ASSUME IInv, RowsSound, NEW t \in TaskIds, LeaseExpired(t),
         attempts' = [attempts EXCEPT ![t] = Recovered(t)],
         UNCHANGED <<now, tasks, requests, successes, artifacts>>
  PROVE  Settles(t)
<1>1. "outcome_unknown" \in Kinds \ {"none"}
    BY DEF Kinds
<1> QED
    BY <1>1, ExpiredIsLate DEF Settles, Recovered

\* Every step is quiet, settles or renews the attempt in flight, claims, accepts,
\* registers or retries.
LEMMA Effects ==
  ASSUME IInv, RowsSound, [Next]_vars
  PROVE  \/ Quiet
         \/ \E t \in TaskIds : Settles(t)
         \/ \E c \in Callers : Renew(c) \/ ClaimGranted(c) \/ SubmitAccepted(c)
         \/ \E c \in Callers, t \in TaskIds : RegistrationRecorded(c, t) \/ RetryRecorded(c, t)
<1>1. ASSUME NEW c \in Callers,
             \/ Leave(c) \/ RegistrationAnswered(c) \/ RetryRefused(c) \/ ClaimRefused(c)
             \/ ReadCorrection(c) \/ Publish(c) \/ SubmitRefused(c)
             \/ \E x \in Candidates : SubmitStarted(c, x)
             \/ \E q \in requests : MapForClaim(c, q)
             \/ \E r \in Request : MapForRegistration(c, r) \/ MapForRetry(c, r)
      PROVE  Quiet
    BY <1>1 DEF Quiet, Leave, RegistrationAnswered, RetryRefused, ClaimRefused,
       ReadCorrection, Publish, SubmitRefused, SubmitStarted, MapForClaim,
       MapForRegistration, MapForRetry
<1>2. ASSUME NEW c \in Callers, ClaimOutOfBudget(c)
      PROVE  Quiet \/ \E t \in TaskIds : Settles(t)
  <2>1. PICK t \in TaskIds : t = callers[c].receipt.task
      BY <1>2, CallerTypes DEF ClaimOutOfBudget, IInv, Claiming, Receipt
  <2>2. /\ attempts' = [attempts EXCEPT ![t] = AfterRecovery(t)]
        /\ UNCHANGED <<now, tasks, requests, successes, artifacts>>
      BY <1>2, <2>1 DEF ClaimOutOfBudget
  <2>3. CASE LeaseExpired(t)
      BY <2>2, <2>3, RecoverySettles DEF AfterRecovery
  <2>4. CASE ~LeaseExpired(t)
      BY <2>2, <2>4 DEF AfterRecovery, Quiet, IInv, TypeOK
  <2> QED
      BY <2>3, <2>4
<1>3. ASSUME NEW c \in Callers, NEW k \in Reports, NEW o \in {"executor", "exception"},
             Fail(c, k, o)
      PROVE  \E t \in TaskIds : Settles(t)
  <2>1. PICK t \in TaskIds : t = callers[c].task
      BY <1>3, CallerTypes DEF Fail, IInv, Holding, HeldAs
  <2>2. k \in Kinds \ {"none"}
      BY ReportAssumption DEF Kinds
  <2>3. /\ InFlight(t) /\ now >= LastRow(t).claimed
        /\ attempts' = [attempts EXCEPT ![t] = Settle(attempts[t], k, o, NoCandidate)]
        /\ UNCHANGED <<now, tasks, requests, successes, artifacts>>
      BY <1>3, <2>1 DEF Fail, Owns, NotBeforeClaim
  <2> QED
      BY <2>2, <2>3 DEF Settles
<1>4. ASSUME NEW c \in Callers, SubmitRejected(c)
      PROVE  \E t \in TaskIds : Settles(t)
  <2>1. PICK t \in TaskIds, x \in Candidates : t = callers[c].task /\ x = callers[c].candidate
      BY <1>4, CallerTypes DEF SubmitRejected, IInv, Holding, HeldAs
  <2>2. Verdict[x] \in Kinds \ {"none"}
      BY <1>4, <2>1, VerdictAssumption DEF SubmitRejected, Kinds, Rejections
  <2>3. /\ InFlight(t) /\ now >= LastRow(t).claimed
        /\ attempts' = [attempts EXCEPT ![t] = Settle(attempts[t], Verdict[x], "executor", x)]
        /\ UNCHANGED <<now, tasks, requests, successes, artifacts>>
      BY <1>4, <2>1 DEF SubmitRejected, Owns, NotBeforeClaim
  <2> QED
      BY <2>2, <2>3 DEF Settles
<1>5. ASSUME NEW t \in TaskIds, Reclaim(t) PROVE Settles(t)
    BY <1>5, RecoverySettles DEF Reclaim
<1>6. ASSUME ReviseFacts \/ Tick \/ ClockSetBack \/ UNCHANGED vars PROVE Quiet
    BY <1>6 DEF ReviseFacts, Tick, ClockSetBack, vars, Quiet
<1>7. /\ Scheduled \in Request /\ \A i \in RequestIds : Manual(i) \in Request
      /\ \A i \in RequestIds, p \in TaskIds : Retry(i, p) \in Request
    BY DEF Scheduled, Manual, Retry, Request
<1>8. ASSUME NEW c \in Callers, Register(c)
      PROVE  Quiet \/ \E t \in TaskIds : RegistrationRecorded(c, t)
    BY <1>1, <1>7, <1>8 DEF Register
<1>9. ASSUME NEW c \in Callers, RetryTask(c)
      PROVE  Quiet \/ \E t \in TaskIds : RetryRecorded(c, t)
    BY <1>1, <1>7, <1>9 DEF RetryTask
<1>10. ASSUME NEW c \in Callers, ClaimTask(c)
       PROVE  Quiet \/ (\E t \in TaskIds : Settles(t)) \/ ClaimGranted(c)
    BY <1>1, <1>2, <1>10 DEF ClaimTask
<1>11. ASSUME NEW c \in Callers, Hold(c)
       PROVE  Quiet \/ (\E t \in TaskIds : Settles(t)) \/ Renew(c) \/ SubmitAccepted(c)
    BY <1>1, <1>3, <1>4, <1>11 DEF Hold
<1> QED
    BY <1>1, <1>5, <1>6, <1>8, <1>9, <1>10, <1>11 DEF Next

-------------------------------------------------------------------------------
(* The steps, by what they do to one row *)

Kept(t, n) == attempts'[t][n] = attempts[t][n]

SameClaim(t, n) ==
  /\ attempts'[t][n].receipt = attempts[t][n].receipt
  /\ attempts'[t][n].revision = attempts[t][n].revision
  /\ attempts'[t][n].claimed = attempts[t][n].claimed

\* The row in flight fails now.
Failing(t, n) ==
  LET old == attempts[t][n] new == attempts'[t][n] IN
  /\ InFlight(t) /\ n = Used(t) /\ now >= old.claimed
  /\ SameClaim(t, n) /\ new.expires = old.expires
  /\ new.kind # "none" /\ new.settled = now
  /\ new.origin = "recovery" => new.kind = "outcome_unknown" /\ now >= old.expires

\* The row in flight gets a new deadline.
Renewing(t, n) ==
  LET old == attempts[t][n] new == attempts'[t][n] IN
  /\ InFlight(t) /\ n = Used(t) /\ now >= old.claimed
  /\ SameClaim(t, n) /\ new.expires = now + Lease
  /\ new.kind = old.kind /\ new.origin = old.origin /\ new.settled = old.settled

\* A new row, after rows that have all failed, the last of them no later than now.
Granted(c, t) ==
  /\ ClaimGranted(c) /\ callers[c].receipt.task = t
  /\ Used(t) < AttemptsPerGeneration /\ Used(t)' = Used(t) + 1
  /\ LET new == attempts'[t][Used(t) + 1] IN
     /\ new.receipt = callers[c].receipt /\ new.revision = callers[c].revision
     /\ new.claimed = now /\ new.expires = now + Lease
     /\ new.kind = "none" /\ new.origin = "none"
  /\ \A n \in 1..Used(t) : attempts'[t][n].kind # "none"
  /\ Used(t) > 0 => attempts'[t][Used(t)].settled <= now

RowsKept(t) == \A n \in 1..Used(t) : Kept(t, n) \/ Failing(t, n) \/ Renewing(t, n)

\* Settling the attempt in flight fails its last row and keeps the others.
LEMMA SettledRows ==
  ASSUME IInv, NEW t \in TaskIds, InFlight(t), now >= LastRow(t).claimed,
         NEW k \in Kinds \ {"none"}, NEW o \in {"executor", "exception", "recovery"},
         NEW x \in Candidates \cup {NoCandidate},
         o = "recovery" => k = "outcome_unknown" /\ now >= LastRow(t).expires,
         NEW rows, rows = Settle(attempts[t], k, o, x)
  PROVE  /\ rows \in Seq(Attempt) /\ Len(rows) = Used(t)
         /\ \A n \in 1..(Used(t) - 1) : rows[n] = attempts[t][n]
         /\ rows[Used(t)].receipt = LastRow(t).receipt
         /\ rows[Used(t)].revision = LastRow(t).revision
         /\ rows[Used(t)].claimed = LastRow(t).claimed
         /\ rows[Used(t)].expires = LastRow(t).expires
         /\ rows[Used(t)].kind = k /\ rows[Used(t)].origin = o
         /\ rows[Used(t)].settled = now
<1> DEFINE row == [attempts[t][Used(t)] EXCEPT !.kind = k, !.origin = o,
                     !.settled = now, !.submission = x]
           old == attempts[t][Used(t)]
<1>1. /\ attempts[t] \in Seq(Attempt) /\ Used(t) \in Nat /\ Used(t) > 0
      /\ old \in Attempt /\ now \in Int
    BY RowTypes DEF IInv, InFlight, TypeOK
<1>2. /\ row \in Attempt /\ row.kind = k /\ row.origin = o /\ row.settled = now
      /\ row.receipt = old.receipt /\ row.revision = old.revision
      /\ row.claimed = old.claimed /\ row.expires = old.expires
    BY <1>1 DEF Attempt
<1>3. Settle(attempts[t], k, o, x) = [attempts[t] EXCEPT ![Used(t)] = row]
    BY DEF Settle, Used
<1> HIDE DEF row
<1>4. rows = [attempts[t] EXCEPT ![Used(t)] = row]
    BY <1>3
<1> QED
    BY <1>1, <1>2, <1>4, ExceptSeq DEF Used, LastRow

LEMMA SettlesRows ==
  ASSUME IInv, NEW t \in TaskIds, Settles(t), NEW u \in TaskIds
  PROVE  RowsKept(u) /\ Used(u)' = Used(u)
<1>1. PICK k \in Kinds \ {"none"}, o \in {"executor", "exception", "recovery"},
           x \in Candidates \cup {NoCandidate} :
        /\ InFlight(t) /\ now >= LastRow(t).claimed
        /\ o = "recovery" => k = "outcome_unknown" /\ now >= LastRow(t).expires
        /\ attempts' = [attempts EXCEPT ![t] = Settle(attempts[t], k, o, x)]
    BY DEF Settles
<1>2. PICK rows : rows = Settle(attempts[t], k, o, x)
    OBVIOUS
<1>3. /\ rows \in Seq(Attempt) /\ Len(rows) = Used(t)
      /\ \A n \in 1..(Used(t) - 1) : rows[n] = attempts[t][n]
      /\ rows[Used(t)].receipt = LastRow(t).receipt
      /\ rows[Used(t)].revision = LastRow(t).revision
      /\ rows[Used(t)].claimed = LastRow(t).claimed
      /\ rows[Used(t)].expires = LastRow(t).expires
      /\ rows[Used(t)].kind = k /\ rows[Used(t)].origin = o
      /\ rows[Used(t)].settled = now
    BY <1>1, <1>2, SettledRows
<1>4. attempts'[t] = rows /\ \A v \in TaskIds : v # t => attempts'[v] = attempts[v]
    BY <1>1, <1>2 DEF IInv, TypeOK
<1>5. Used(t) \in Nat
    BY RowTypes DEF IInv
<1>6. CASE u # t
    BY <1>4, <1>6 DEF RowsKept, Kept, Used
<1>7. CASE u = t
  <2>1. Used(t)' = Used(t)
      BY <1>3, <1>4 DEF Used
  <2>2. ASSUME NEW n \in 1..Used(t), n # Used(t) PROVE Kept(t, n)
      BY <1>3, <1>4, <1>5, <2>2 DEF Kept
  <2>3. ASSUME Used(t) > 0 PROVE Failing(t, Used(t))
      BY <1>1, <1>3, <1>4 DEF Failing, SameClaim, LastRow
  <2> QED
      BY <1>5, <1>7, <2>1, <2>2, <2>3 DEF RowsKept
<1> QED
    BY <1>6, <1>7

LEMMA RenewRows ==
  ASSUME IInv, NEW c \in Callers, Renew(c), NEW u \in TaskIds
  PROVE  RowsKept(u) /\ Used(u)' = Used(u)
<1>1. PICK t \in TaskIds : t = callers[c].task
    BY CallerTypes DEF Renew, IInv, Holding, HeldAs
<1> DEFINE old == attempts[t][Used(t)]
           row == [old EXCEPT !.expires = now + Lease]
<1>2. /\ attempts[t] \in Seq(Attempt) /\ Used(t) \in Nat /\ Used(t) > 0
      /\ old \in Attempt /\ now + Lease \in Int
      /\ InFlight(t) /\ now >= old.claimed
    BY <1>1, RowTypes, TimeAssumption
       DEF IInv, TypeOK, Renew, Owns, InFlight, NotBeforeClaim, LastRow
<1>3. /\ row \in Attempt /\ row.expires = now + Lease
      /\ row.kind = old.kind /\ row.origin = old.origin /\ row.settled = old.settled
      /\ row.receipt = old.receipt /\ row.revision = old.revision
      /\ row.claimed = old.claimed
    BY <1>2 DEF Attempt
<1>4. attempts' = [attempts EXCEPT ![t] = [attempts[t] EXCEPT ![Used(t)] = row]]
  <2>1. Renewed(t) = [attempts[t] EXCEPT ![Used(t)] = row]
      BY DEF Renewed
  <2> QED
      BY <1>1, <2>1 DEF Renew
<1> HIDE DEF row
<1>5. /\ attempts'[t] = [attempts[t] EXCEPT ![Used(t)] = row]
      /\ \A v \in TaskIds : v # t => attempts'[v] = attempts[v]
    BY <1>4 DEF IInv, TypeOK
<1>6. /\ Used(t)' = Used(t) /\ attempts'[t][Used(t)] = row
      /\ \A n \in 1..Used(t) : n # Used(t) => attempts'[t][n] = attempts[t][n]
    BY <1>2, <1>3, <1>5, ExceptSeq DEF Used
<1>7. CASE u # t
    BY <1>5, <1>7 DEF RowsKept, Kept, Used
<1>8. CASE u = t
  <2>1. Renewing(t, Used(t))
      BY <1>2, <1>3, <1>6 DEF Renewing, SameClaim
  <2> QED
      BY <1>6, <1>8, <2>1 DEF RowsKept, Kept
<1> QED
    BY <1>7, <1>8

\* Recovery of the attempt in flight, if its lease has run out, else nothing.
LEMMA RecoveryRows ==
  ASSUME IInv, RowsSound, NEW t \in TaskIds, NEW rows, rows = AfterRecovery(t),
         attempts'[t] = rows \/ (Len(attempts'[t]) = Used(t) + 1
                                 /\ \A n \in 1..Used(t) : attempts'[t][n] = rows[n])
  PROVE  RowsKept(t) /\ Len(rows) = Used(t) /\ rows \in Seq(Attempt)
<1>1. Used(t) \in Nat /\ attempts[t] \in Seq(Attempt) /\ Len(attempts[t]) = Used(t)
    BY RowTypes DEF IInv, Used
<1>2. CASE LeaseExpired(t)
  <2>1. /\ InFlight(t) /\ Used(t) > 0
        /\ now >= LastRow(t).claimed /\ now >= LastRow(t).expires
      BY <1>2, ExpiredIsLate
  <2>2. "outcome_unknown" \in Kinds \ {"none"}
      BY DEF Kinds
  <2>3. rows = Settle(attempts[t], "outcome_unknown", "recovery", NoCandidate)
      BY <1>2 DEF AfterRecovery, Recovered
  <2>4. /\ rows \in Seq(Attempt) /\ Len(rows) = Used(t)
        /\ \A n \in 1..(Used(t) - 1) : rows[n] = attempts[t][n]
        /\ rows[Used(t)].receipt = LastRow(t).receipt
        /\ rows[Used(t)].revision = LastRow(t).revision
        /\ rows[Used(t)].claimed = LastRow(t).claimed
        /\ rows[Used(t)].expires = LastRow(t).expires
        /\ rows[Used(t)].kind = "outcome_unknown" /\ rows[Used(t)].origin = "recovery"
        /\ rows[Used(t)].settled = now
      BY <2>1, <2>2, <2>3, SettledRows
  <2>5. \A n \in 1..Used(t) : attempts'[t][n] = rows[n]
      OBVIOUS
  <2>6. Failing(t, Used(t))
      BY <1>1, <2>1, <2>4, <2>5 DEF Failing, SameClaim, LastRow
  <2> QED
      BY <1>1, <2>4, <2>5, <2>6 DEF RowsKept, Kept
<1>3. CASE ~LeaseExpired(t)
    BY <1>1, <1>3 DEF AfterRecovery, RowsKept, Kept
<1> QED
    BY <1>2, <1>3

LEMMA GrantRows ==
  ASSUME IInv, RowsSound, IInv', NEW c \in Callers, ClaimGranted(c), NEW u \in TaskIds
  PROVE  RowsKept(u) /\ (Used(u)' = Used(u) \/ Granted(c, u))
<1>0. PICK t \in TaskIds : t = callers[c].receipt.task
    BY CallerTypes DEF ClaimGranted, IInv, Claiming, Receipt
<1> DEFINE row == [receipt |-> callers[c].receipt, revision |-> callers[c].revision,
                   claimed |-> now, expires |-> now + Lease,
                   kind |-> "none", origin |-> "none", settled |-> 0,
                   submission |-> NoCandidate]
<1>1. PICK before : before = AfterRecovery(t)
    OBVIOUS
<1>2. /\ attempts'[t] = Append(before, row)
      /\ \A v \in TaskIds : v # t => attempts'[v] = attempts[v]
      /\ ~(Used(t) > 0 /\ LastRow(t).kind # "none" /\ now < LastRow(t).settled)
      /\ Used(t) # AttemptsPerGeneration
    BY <1>0, <1>1 DEF ClaimGranted, ClaimTooEarly, ClaimExhausted, IInv, TypeOK
<1>3. Len(before) = Used(t) /\ Used(t) \in Nat /\ before \in Seq(Attempt)
  <2>1. CASE LeaseExpired(t)
      BY <1>1, <2>1, RecoveredRows, RowTypes DEF AfterRecovery, IInv, LeaseExpired, InFlight
  <2>2. CASE ~LeaseExpired(t)
      BY <1>1, <2>2, RowTypes DEF AfterRecovery, IInv, Used
  <2> QED
      BY <2>1, <2>2
<1>4. /\ Len(attempts'[t]) = Used(t) + 1 /\ attempts'[t][Used(t) + 1] = row
      /\ \A n \in 1..Used(t) : attempts'[t][n] = before[n]
  <2> HIDE DEF row
  <2>1. row \in {row} \cup Attempt /\ before \in Seq({row} \cup Attempt)
    <3>1. Attempt \subseteq {row} \cup Attempt
        OBVIOUS
    <3> QED
        BY <1>3, <3>1
  <2> QED
      BY <1>2, <1>3, <2>1, AppendProperties
<1>5. RowsKept(t)
    BY <1>1, <1>4, RecoveryRows
<1>6. /\ row.receipt = callers[c].receipt /\ row.revision = callers[c].revision
      /\ row.claimed = now /\ row.expires = now + Lease
      /\ row.kind = "none" /\ row.origin = "none"
    OBVIOUS
<1> HIDE DEF row
<1>7. CASE u # t
    BY <1>2, <1>7 DEF RowsKept, Kept, Used
<1>8. CASE u = t
  <2>1. /\ Used(t)' = Used(t) + 1 /\ Used(t) < AttemptsPerGeneration
        /\ \A n \in 1..Used(t) : attempts'[t][n].kind # "none"
      BY <1>2, <1>3, <1>4 DEF IInv, Counted, Used, AttemptsPerGeneration
  <2>2. Used(t) > 0 => attempts'[t][Used(t)].settled <= now
    <3> SUFFICES ASSUME Used(t) > 0 PROVE attempts'[t][Used(t)].settled <= now
        OBVIOUS
    <3>a. LastRow(t) \in Attempt
        BY <1>3, RowTypes DEF IInv, LastRow
    <3>0. LastRow(t) \in Attempt /\ LastRow(t).settled \in Int /\ now \in Int
        BY <3>a DEF IInv, TypeOK, Attempt
    <3>1. CASE Kept(t, Used(t))
        BY <1>2, <1>3, <2>1, <3>0, <3>1 DEF Kept, LastRow
    <3>2. CASE Failing(t, Used(t))
        BY <3>0, <3>2 DEF Failing
    <3>3. ~Renewing(t, Used(t))
        BY <1>3, <2>1 DEF Renewing, InFlight, LastRow
    <3> QED
        BY <1>3, <1>5, <3>1, <3>2, <3>3 DEF RowsKept
  <2>3. Granted(c, t)
      BY <1>0, <1>4, <1>6, <2>1, <2>2 DEF Granted
  <2> QED
      BY <1>5, <1>8, <2>3
<1> QED
    BY <1>7, <1>8

LEMMA RetryRows ==
  ASSUME IInv, RowsSound, NEW c \in Callers, NEW t \in TaskIds, RetryRecorded(c, t),
         NEW u \in TaskIds
  PROVE  RowsKept(u) /\ Used(u)' = Used(u)
<1>0. PICK p \in TaskIds : p = callers[c].request.parent
    BY DEF RetryRecorded, IInv, CallersOwned
<1>1. PICK rows : rows = AfterRecovery(p)
    OBVIOUS
<1>2. /\ attempts'[p] = rows
      /\ \A v \in TaskIds : v # p => attempts'[v] = attempts[v]
    BY <1>0, <1>1 DEF RetryRecorded, IInv, TypeOK
<1>3. CASE u # p
    BY <1>2, <1>3 DEF RowsKept, Kept, Used
<1>4. CASE u = p
    BY <1>1, <1>2, <1>4, RecoveryRows DEF Used
<1> QED
    BY <1>3, <1>4

\* What any step does to the rows of a task.
LEMMA RowSteps ==
  ASSUME IInv, RowsSound, [Next]_vars, NEW t \in TaskIds
  PROVE  RowsKept(t) /\ (Used(t)' = Used(t) \/ \E c \in Callers : Granted(c, t))
<1>1. IInv'
    BY NextInvariant
<1>2. CASE Quiet
    BY <1>2 DEF Quiet, RowsKept, Kept, Used
<1>3. ASSUME NEW c \in Callers, SubmitAccepted(c) \/ \E u \in TaskIds : RegistrationRecorded(c, u)
      PROVE  RowsKept(t) /\ Used(t)' = Used(t)
    BY <1>3 DEF SubmitAccepted, RegistrationRecorded, RowsKept, Kept, Used
<1> QED
    BY <1>1, <1>2, <1>3, Effects, SettlesRows, RenewRows, GrantRows, RetryRows

-------------------------------------------------------------------------------
(* The archive only grows, and settlements stay *)

LEMMA ArchiveGrows ==
  ASSUME IInv, RowsSound, [Next]_vars
  PROVE  /\ \A t \in TaskIds : tasks[t] # Unused => tasks'[t] = tasks[t]
         /\ \A t \in TaskIds : tasks[t].budget \in Fingerprints => tasks'[t] = tasks[t]
         /\ requests \subseteq requests' /\ successes \subseteq successes'
         /\ artifacts \subseteq artifacts'
<1>1. \A t \in TaskIds : tasks[t].budget \in Fingerprints => tasks[t] # Unused
    BY MappingAssumption DEF Unused
<1>2. CASE Quiet \/ \E t \in TaskIds : Settles(t)
    BY <1>2 DEF Quiet, Settles
<1>3. CASE \E c \in Callers : Renew(c) \/ ClaimGranted(c) \/ SubmitAccepted(c)
    BY <1>3 DEF Renew, ClaimGranted, SubmitAccepted
<1>4. ASSUME NEW c \in Callers, NEW t \in TaskIds,
             RegistrationRecorded(c, t) \/ RetryRecorded(c, t)
      PROVE  /\ \A u \in TaskIds : tasks[u] # Unused => tasks'[u] = tasks[u]
             /\ requests \subseteq requests' /\ successes' = successes
             /\ artifacts' = artifacts
  <2>1. tasks \in [TaskIds -> Task]
      BY DEF IInv, TypeOK
  <2> QED
      BY <1>4, <2>1 DEF RegistrationRecorded, RetryRecorded
<1> QED
    BY <1>1, <1>2, <1>3, <1>4, Effects

\* A success that was not there was accepted for the attempt in flight.
LEMMA NewSuccess ==
  ASSUME IInv, RowsSound, [Next]_vars, NEW s \in successes', s \notin successes
  PROVE  \E c \in Callers :
           /\ SubmitAccepted(c) /\ InFlight(s.task) /\ s.attempt = Used(s.task)
           /\ s = [budget |-> tasks[callers[c].task].budget, task |-> callers[c].task,
                   attempt |-> callers[c].attempt,
                   artifact |-> callers[c].candidate, settled |-> now]
<1>1. CASE Quiet \/ \E t \in TaskIds : Settles(t)
    BY <1>1 DEF Quiet, Settles
<1>2. CASE \E c \in Callers : Renew(c) \/ ClaimGranted(c)
    BY <1>2 DEF Renew, ClaimGranted
<1>3. CASE \E c \in Callers, t \in TaskIds : RegistrationRecorded(c, t) \/ RetryRecorded(c, t)
    BY <1>3 DEF RegistrationRecorded, RetryRecorded
<1>4. ASSUME NEW c \in Callers, SubmitAccepted(c)
      PROVE  /\ InFlight(s.task) /\ s.attempt = Used(s.task)
             /\ s = [budget |-> tasks[callers[c].task].budget, task |-> callers[c].task,
                     attempt |-> callers[c].attempt,
                     artifact |-> callers[c].candidate, settled |-> now]
    BY <1>4 DEF SubmitAccepted, Owns
<1> QED
    BY <1>1, <1>2, <1>3, <1>4, Effects

LEMMA SettledStays ==
  ASSUME IInv, RowsSound, [Next]_vars
  PROVE  /\ successes \subseteq successes'
         /\ \A t \in TaskIds : \A n \in 1..Used(t) :
              /\ Used(t)' >= Used(t)
              /\ ~Unsettled(t, n) => attempts'[t][n] = attempts[t][n]
                                     /\ (Accepted(t, n)' <=> Accepted(t, n))
<1>1. successes \subseteq successes'
    BY ArchiveGrows
<1> SUFFICES ASSUME NEW t \in TaskIds, NEW n \in 1..Used(t)
             PROVE  /\ Used(t)' >= Used(t)
                    /\ ~Unsettled(t, n) => attempts'[t][n] = attempts[t][n]
                                           /\ (Accepted(t, n)' <=> Accepted(t, n))
    BY <1>1
<1>2. Used(t) \in Nat
    BY RowTypes DEF IInv
<1>3. RowsKept(t) /\ (Used(t)' = Used(t) \/ Used(t)' = Used(t) + 1)
    BY RowSteps DEF Granted
<1>4. InFlight(t) /\ n = Used(t) => Unsettled(t, n)
    BY DEF InFlight, Unsettled, LastRow
<1>5. ASSUME ~Unsettled(t, n) PROVE Kept(t, n)
    BY <1>3, <1>4, <1>5 DEF RowsKept, Failing, Renewing
<1>6. ASSUME ~Unsettled(t, n) PROVE Accepted(t, n)' => Accepted(t, n)
  <2> SUFFICES ASSUME NEW s \in successes', s.task = t, s.attempt = n, s \notin successes
               PROVE  FALSE
      BY DEF Accepted
  <2>1. InFlight(t) /\ n = Used(t)
      BY NewSuccess
  <2> QED
      BY <1>4, <1>6, <2>1
<1>7. Accepted(t, n) => Accepted(t, n)'
    BY <1>1 DEF Accepted
<1> QED
    BY <1>2, <1>3, <1>5, <1>6, <1>7 DEF Kept

-------------------------------------------------------------------------------
(* Steps preserve the parts of the invariant *)

LEMMA RowsPreserved ==
  ASSUME AInv, [Next]_vars
  PROVE  RowsSound'
<1>0. IInv /\ RowsSound /\ CallersSound
    BY DEF AInv
<1> SUFFICES ASSUME NEW t \in TaskIds, NEW n \in 1..Len(attempts'[t])
             PROVE  SoundRow(t, n)'
    BY DEF RowsSound, Used
<1>1. IInv' /\ TypeOK' /\ now \in Int
    BY <1>0, NextInvariant DEF IInv, TypeOK
<1>2. /\ Used(t) \in Nat /\ \A m \in 1..Used(t) : attempts[t][m] \in Attempt
      /\ Used(t)' \in Nat /\ \A m \in 1..Used(t)' : attempts'[t][m] \in Attempt
    BY <1>0, <1>1, RowTypes DEF IInv, TypeOK, Used
<1>3. /\ RowsKept(t) /\ (Used(t)' = Used(t) \/ \E c \in Callers : Granted(c, t))
      /\ requests \subseteq requests'
      /\ tasks[t].budget \in Fingerprints => tasks'[t] = tasks[t]
    BY <1>0, RowSteps, ArchiveGrows
<1>4. Used(t) > 0 => tasks[t].budget \in Fingerprints
    BY <1>0 DEF IInv, Owned
<1>5. CASE n <= Used(t)
  <2>0. n \in 1..Used(t)
      BY <1>2, <1>5 DEF Used
  <2> DEFINE old == attempts[t][n]
             new == attempts'[t][n]
  <2>1. /\ old.receipt \in requests /\ old.receipt.task = t
        /\ Mapping[old.revision] = tasks[t].budget
        /\ old.expires >= old.claimed + Lease
        /\ old.kind # "none" => old.settled >= old.claimed
        /\ old.origin = "recovery" => old.kind = "outcome_unknown" /\ old.settled >= old.expires
        /\ n < Used(t) => old.settled <= attempts[t][n + 1].claimed
      BY <1>0, <2>0 DEF RowsSound, SoundRow
  <2>2. /\ old.claimed \in Int /\ old.expires \in Int /\ old.settled \in Int
        /\ new.claimed \in Int /\ new.expires \in Int /\ new.settled \in Int
    <3>1. old \in Attempt /\ new \in Attempt
        BY <1>2, <1>3, <2>0 DEF Granted
    <3> QED
        BY <3>1 DEF Attempt
  <2>3. /\ new.receipt = old.receipt /\ new.revision = old.revision
        /\ new.claimed = old.claimed
      BY <1>3, <2>0 DEF RowsKept, Kept, Failing, Renewing, SameClaim
  <2>4. /\ new.expires >= new.claimed + Lease
        /\ new.kind # "none" => new.settled >= new.claimed
        /\ new.origin = "recovery" => new.kind = "outcome_unknown" /\ new.settled >= new.expires
    <3>1. CASE Kept(t, n)
        BY <2>1, <3>1 DEF Kept
    <3>2. CASE Failing(t, n)
        BY <2>1, <2>3, <3>2 DEF Failing
    <3>3. CASE Renewing(t, n)
      <4>1. old.kind = "none"
          BY <3>3 DEF Renewing, InFlight, LastRow
      <4>2. now + Lease >= old.claimed + Lease
          BY <1>1, <2>2, <3>3, TimeAssumption DEF Renewing
      <4> QED
          BY <2>1, <2>3, <3>3, <4>1, <4>2 DEF Renewing
    <3> QED
        BY <1>3, <2>0, <3>1, <3>2, <3>3 DEF RowsKept
  <2>5. ASSUME n < Used(t)' PROVE new.settled <= attempts'[t][n + 1].claimed
    <3>1. CASE n < Used(t)
      <4>1. Kept(t, n)
          BY <1>3, <2>0, <3>1 DEF RowsKept, Failing, Renewing
      <4>2. n + 1 \in 1..Used(t)
          BY <1>2, <2>0, <3>1
      <4>3. attempts'[t][n + 1].claimed = attempts[t][n + 1].claimed
          BY <1>3, <4>2 DEF RowsKept, Kept, Failing, Renewing, SameClaim
      <4> QED
          BY <2>1, <3>1, <4>1, <4>3 DEF Kept
    <3>2. CASE n = Used(t)
        BY <1>2, <1>3, <2>0, <2>5, <3>2 DEF Granted
    <3> QED
        BY <1>2, <2>0, <3>1, <3>2
  <2>6. tasks'[t] = tasks[t]
      BY <1>2, <1>3, <1>4, <2>0
  <2> QED
      BY <1>3, <2>1, <2>3, <2>4, <2>5, <2>6 DEF SoundRow, Used
<1>6. CASE n > Used(t)
  <2>1. PICK c \in Callers : Granted(c, t)
      BY <1>2, <1>3, <1>6 DEF Used
  <2>2. n = Used(t) + 1 /\ Used(t)' = Used(t) + 1
      BY <1>2, <1>6, <2>1 DEF Granted, Used
  <2>3. /\ callers[c].op = "claim" /\ callers[c].receipt.task = t
        /\ callers[c].receipt \in requests
        /\ Mapping[callers[c].revision] = tasks[t].budget
      BY <1>0, <2>1 DEF Granted, ClaimGranted, IInv, CallersOwned, CallersSound
  <2>4. tasks'[t] = tasks[t]
      BY <2>1 DEF Granted, ClaimGranted
  <2>5. /\ attempts'[t][n].expires >= attempts'[t][n].claimed + Lease
        /\ attempts'[t][n].receipt = callers[c].receipt
        /\ attempts'[t][n].revision = callers[c].revision
        /\ attempts'[t][n].kind = "none" /\ attempts'[t][n].origin = "none"
      BY <1>1, <2>1, <2>2, TimeAssumption DEF Granted
  <2>6. ~(n < Used(t)')
      BY <1>2, <2>2
  <2> QED
      BY <1>3, <2>3, <2>4, <2>5, <2>6 DEF SoundRow, Used
<1> QED
    BY <1>2, <1>5, <1>6 DEF Used

\* Only a registration or a retry adds a receipt.
LEMMA RequestSteps ==
  ASSUME IInv, RowsSound, [Next]_vars
  PROVE  \/ UNCHANGED <<tasks, requests>>
         \/ \E c \in Callers, t \in TaskIds : RegistrationRecorded(c, t) \/ RetryRecorded(c, t)
<1>1. CASE Quiet \/ \E t \in TaskIds : Settles(t)
    BY <1>1 DEF Quiet, Settles
<1>2. CASE \E c \in Callers : Renew(c) \/ ClaimGranted(c) \/ SubmitAccepted(c)
    BY <1>2 DEF Renew, ClaimGranted, SubmitAccepted
<1> QED
    BY <1>1, <1>2, Effects

\* A receipt that answers a new request is not among the old ones.
LEMMA FreshReceipt ==
  ASSUME IInv, NEW c \in Callers, NEW t \in TaskIds, NEW cached,
         callers[c].op \in {"register", "retry"},
         SameIdentity(callers[c].request, callers[c].revision) = {}
  PROVE  [request |-> callers[c].request, task |-> t,
          revision |-> callers[c].revision, cached |-> cached] \notin requests
<1> DEFINE q == [request |-> callers[c].request, task |-> t,
                 revision |-> callers[c].revision, cached |-> cached]
<1>1. q.request = callers[c].request /\ q.revision = callers[c].revision
    OBVIOUS
<1> HIDE DEF q
<1>2. q \in requests => q \in SameIdentity(callers[c].request, callers[c].revision)
    BY <1>1 DEF SameIdentity
<1> QED
    BY <1>2 DEF q

LEMMA RegistrationDescends ==
  ASSUME AInv, NEW c \in Callers, NEW t \in TaskIds, RegistrationRecorded(c, t)
  PROVE  TasksDescend'
<1>0. IInv /\ RowsSound /\ TasksDescend /\ CallersSound
    BY DEF AInv
<1> SUFFICES ASSUME NEW u \in TaskIds, tasks'[u].budget \in Fingerprints
             PROVE  Descended(u)'
    BY DEF TasksDescend
<1>1. PICK cached, q :
        /\ q = [request |-> callers[c].request, task |-> t,
                revision |-> callers[c].revision, cached |-> cached]
        /\ requests' = requests \cup {q}
    BY DEF RegistrationRecorded
<1>2. q.task = t /\ q.request.source # "retry"
    BY <1>0, <1>1 DEF CallersSound, RegistrationRecorded
<1>3. \A v \in TaskIds : RetriesOf(v)' = RetriesOf(v)
    BY <1>1, <1>2 DEF RetriesOf
<1>4. \/ tasks' = tasks
      \/ /\ tasks[t] = Unused
         /\ tasks' = [tasks EXCEPT ![t] =
              [budget |-> Mapping[callers[c].revision], generation |-> 0, parent |-> NoTask]]
    BY DEF RegistrationRecorded
<1>5. tasks \in [TaskIds -> Task] /\ Unmapped \notin Fingerprints /\ requests \subseteq Receipt
    BY <1>0, MappingAssumption DEF IInv, TypeOK
<1>6. CASE tasks' = tasks
    BY <1>0, <1>1, <1>3, <1>6 DEF TasksDescend, Descended
<1>7. CASE /\ tasks[t] = Unused
           /\ tasks' = [tasks EXCEPT ![t] =
                [budget |-> Mapping[callers[c].revision], generation |-> 0, parent |-> NoTask]]
  <2>1. CASE u # t
    <3>1. tasks'[u] = tasks[u] /\ Descended(u)
        BY <1>0, <1>5, <1>7, <2>1 DEF TasksDescend
    <3>2. tasks[u].generation # 0 =>
            tasks[tasks[u].parent].budget \in Fingerprints /\ tasks[u].parent \in TaskIds
        BY <3>1 DEF Descended
    <3>3. tasks[u].generation # 0 => tasks'[tasks[u].parent] = tasks[tasks[u].parent]
        BY <1>5, <1>7, <3>2 DEF Unused
    <3> QED
        BY <1>1, <1>3, <3>1, <3>3 DEF Descended
  <2>2. CASE u = t
    <3>1. tasks'[t].generation = 0 /\ tasks'[t].parent = NoTask
        BY <1>5, <1>7
    <3>2. RetriesOf(t) = {}
        BY <1>0, <1>5, <1>7 DEF RetriesOf, IInv, Owned, Unused
    <3> QED
        BY <1>1, <1>2, <1>3, <2>2, <3>1, <3>2 DEF Descended
  <2> QED
      BY <2>1, <2>2
<1> QED
    BY <1>4, <1>6, <1>7

LEMMA RetryDescends ==
  ASSUME AInv, NEW c \in Callers, NEW t \in TaskIds, RetryRecorded(c, t)
  PROVE  TasksDescend'
<1>0. IInv /\ RowsSound /\ TasksDescend /\ CallersSound
    BY DEF AInv
<1>a. PICK p \in TaskIds : p = callers[c].request.parent
    BY <1>0 DEF RetryRecorded, IInv, CallersOwned
<1> SUFFICES ASSUME NEW u \in TaskIds, tasks'[u].budget \in Fingerprints
             PROVE  Descended(u)'
    BY DEF TasksDescend
<1>1. PICK q :
        /\ q = [request |-> callers[c].request, task |-> t,
                revision |-> callers[c].revision, cached |-> NoTask]
        /\ requests' = requests \cup {q}
    BY DEF RetryRecorded
<1>2. q.task = t /\ q.request.source = "retry" /\ q.request.parent = p
    BY <1>0, <1>a, <1>1 DEF CallersSound, RetryRecorded
<1>3. /\ \A v \in TaskIds : v # t => RetriesOf(v)' = RetriesOf(v)
      /\ RetriesOf(t)' = RetriesOf(t) \cup {q}
    BY <1>1, <1>2 DEF RetriesOf
<1>4. /\ tasks[t] = Unused /\ tasks[p] # Unused
      /\ tasks' = [tasks EXCEPT ![t] =
           [budget |-> tasks[p].budget, generation |-> tasks[p].generation + 1, parent |-> p]]
    BY <1>0, <1>a DEF RetryRecorded, IInv, CallersOwned
<1>5. /\ tasks \in [TaskIds -> Task] /\ Unmapped \notin Fingerprints
      /\ tasks[p].generation \in Nat /\ p # t
    BY <1>0, <1>4, MappingAssumption DEF IInv, TypeOK, Task
<1>6. CASE u # t
  <2>1. tasks'[u] = tasks[u] /\ Descended(u)
      BY <1>0, <1>4, <1>5, <1>6 DEF TasksDescend
  <2>2. tasks[u].generation # 0 =>
          tasks[tasks[u].parent].budget \in Fingerprints /\ tasks[u].parent \in TaskIds
      BY <2>1 DEF Descended
  <2>3. tasks[u].generation # 0 => tasks'[tasks[u].parent] = tasks[tasks[u].parent]
      BY <1>4, <1>5, <2>2 DEF Unused
  <2> QED
      BY <1>1, <1>3, <1>6, <2>1, <2>3 DEF Descended
<1>7. CASE u = t
  <2>1. /\ tasks'[t].generation = tasks[p].generation + 1 /\ tasks'[t].parent = p
        /\ tasks'[t].budget = tasks[p].budget /\ tasks'[p] = tasks[p]
      BY <1>4, <1>5
  <2>2. RetriesOf(t) = {}
      BY <1>0, <1>4, <1>5 DEF RetriesOf, IInv, Owned, Unused
  <2>3. RetriesOf(t)' = {q} /\ q \in requests'
      BY <1>1, <1>3, <2>2
  <2>4. tasks'[t].generation # 0 /\ tasks'[t].generation - 1 = tasks[p].generation
      BY <1>5, <2>1
  <2> QED
      BY <1>2, <1>7, <2>1, <2>3, <2>4 DEF Descended
<1> QED
    BY <1>6, <1>7

LEMMA DescentPreserved ==
  ASSUME AInv, [Next]_vars
  PROVE  TasksDescend'
<1>1. CASE UNCHANGED <<tasks, requests>>
    BY <1>1 DEF AInv, TasksDescend, Descended, RetriesOf
<1> QED
    BY <1>1, RequestSteps, RegistrationDescends, RetryDescends DEF AInv

LEMMA SuccessesPreserved ==
  ASSUME AInv, [Next]_vars
  PROVE  SuccessesSound'
<1>0. IInv /\ RowsSound /\ SuccessesSound /\ CallersSound /\ IInv'
    BY NextInvariant DEF AInv
<1> SUFFICES ASSUME NEW s \in successes'
             PROVE  /\ s.artifact \in artifacts' /\ Verdict[s.artifact] = Accept
                    /\ s.settled >= attempts'[s.task][s.attempt].claimed
    BY DEF SuccessesSound, ValidSuccess
<1>1. artifacts \subseteq artifacts'
    BY <1>0, ArchiveGrows
<1>2. CASE s \in successes
  <2>1. /\ s.artifact \in artifacts /\ Verdict[s.artifact] = Accept
        /\ s.settled >= attempts[s.task][s.attempt].claimed
      BY <1>0, <1>2 DEF SuccessesSound, ValidSuccess
  <2>2. s.task \in TaskIds /\ s.attempt = Used(s.task) /\ Used(s.task) > 0
        /\ Used(s.task) \in Nat
      BY <1>0, <1>2, RowTypes DEF IInv, SuccessHeld, TypeOK, Success
  <2>3. RowsKept(s.task)
      BY <1>0, <2>2, RowSteps
  <2>4. attempts'[s.task][s.attempt].claimed = attempts[s.task][s.attempt].claimed
      BY <2>2, <2>3 DEF RowsKept, Kept, Failing, Renewing, SameClaim
  <2> QED
      BY <1>1, <2>1, <2>4
<1>3. CASE s \notin successes
  <2>1. PICK c \in Callers :
          /\ SubmitAccepted(c) /\ s.attempt = Used(s.task)
          /\ s = [budget |-> tasks[callers[c].task].budget, task |-> callers[c].task,
                  attempt |-> callers[c].attempt,
                  artifact |-> callers[c].candidate, settled |-> now]
      BY <1>0, <1>3, NewSuccess
  <2>2. s.task = callers[c].task /\ s.artifact = callers[c].candidate /\ s.settled = now
      BY <2>1
  <2>3. /\ now >= attempts[s.task][Used(s.task)].claimed
        /\ s.artifact \in artifacts /\ Verdict[s.artifact] = Accept
        /\ attempts' = attempts
      BY <1>0, <2>1, <2>2 DEF SubmitAccepted, NotBeforeClaim, LastRow, CallersSound
  <2> QED
      BY <1>1, <2>1, <2>2, <2>3
<1> QED
    BY <1>2, <1>3

LEMMA ReceiptsPreserved ==
  ASSUME AInv, [Next]_vars
  PROVE  ReceiptsSound'
<1>0. IInv /\ RowsSound /\ ReceiptsSound /\ CallersSound
    BY DEF AInv
<1> SUFFICES ASSUME NEW q \in requests', q.cached # NoTask
             PROVE  /\ \E s \in successes' :
                         s.task = q.cached /\ s.budget = tasks'[q.task].budget
                    /\ \A t \in TaskIds : \A n \in 1..Len(attempts'[t]) :
                         attempts'[t][n].receipt # q
    BY DEF ReceiptsSound, ValidCachedReceipt, Used
<1>1. successes \subseteq successes'
    BY <1>0, ArchiveGrows
<1>2. CASE q \in requests
  <2>1. PICK s \in successes : s.task = q.cached /\ s.budget = tasks[q.task].budget
      BY <1>0, <1>2 DEF ReceiptsSound, ValidCachedReceipt
  <2>2. q.task \in TaskIds /\ tasks'[q.task] = tasks[q.task]
    <3>1. q.task \in TaskIds /\ tasks[q.task].budget \in Fingerprints
        BY <1>0, <1>2 DEF IInv, TypeOK, Owned, Receipt
    <3> QED
        BY <1>0, <3>1, ArchiveGrows
  <2>3. ASSUME NEW t \in TaskIds, NEW n \in 1..Len(attempts'[t]),
               attempts'[t][n].receipt = q
        PROVE  FALSE
    <3>1. RowsKept(t) /\ (Used(t)' = Used(t) \/ \E c \in Callers : Granted(c, t))
        BY <1>0, RowSteps
    <3>2. Used(t) \in Nat
        BY <1>0, RowTypes DEF IInv
    <3>3. CASE n <= Used(t)
      <4>1. attempts'[t][n].receipt = attempts[t][n].receipt
          BY <3>1, <3>2, <3>3 DEF RowsKept, Kept, Failing, Renewing, SameClaim
      <4> QED
          BY <1>0, <1>2, <2>3, <3>2, <3>3, <4>1 DEF ReceiptsSound, ValidCachedReceipt
    <3>4. CASE n > Used(t)
      <4>1. PICK c \in Callers : Granted(c, t)
          BY <3>1, <3>2, <3>4 DEF Used
      <4>2. n = Used(t) + 1
          BY <3>2, <3>4, <4>1 DEF Granted, Used
      <4>3. callers[c].receipt = q /\ t = q.task /\ ~HasSuccess(tasks[t].budget)
          BY <2>3, <4>1, <4>2 DEF Granted, ClaimGranted, ClaimBlocked
      <4> QED
          BY <2>1, <4>3 DEF HasSuccess
    <3> QED
        BY <3>2, <3>3, <3>4
  <2> QED
      BY <1>1, <2>1, <2>2, <2>3
<1>3. CASE q \notin requests
  <2>1. PICK c \in Callers, t \in TaskIds : RegistrationRecorded(c, t) \/ RetryRecorded(c, t)
      BY <1>0, <1>3, RequestSteps
  <2>2. ~RetryRecorded(c, t)
      BY <1>3 DEF RetryRecorded
  <2>3. RegistrationRecorded(c, t)
      BY <2>1, <2>2
  <2>4. PICK b : b = Mapping[callers[c].revision]
      OBVIOUS
  <2>5. PICK cached \in TaskIds \cup {NoTask} :
          /\ IF HasSuccess(b) THEN cached \in CachedSuccess(b) ELSE cached = NoTask
          /\ requests' = requests \cup {[request |-> callers[c].request, task |-> t,
                                         revision |-> callers[c].revision, cached |-> cached]}
      BY <2>3, <2>4 DEF RegistrationRecorded
  <2>6. q.task = t /\ q.cached = cached
      BY <1>3, <2>5
  <2>7. \E s \in successes : s.task = cached /\ s.budget = b
      BY <2>5, <2>6 DEF CachedSuccess
  <2>8. tasks'[t].budget = b /\ attempts' = attempts
      BY <1>0, <2>3, <2>4 DEF RegistrationRecorded, TasksOf, IInv, TypeOK
  <2>9. \A u \in TaskIds : \A n \in 1..Used(u) : attempts[u][n].receipt # q
      BY <1>0, <1>3 DEF RowsSound, SoundRow
  <2> QED
      BY <1>1, <2>6, <2>7, <2>8, <2>9 DEF Used
<1> QED
    BY <1>2, <1>3

-------------------------------------------------------------------------------
(* What the executor is shown *)

\* With the last attempt unsettled, the correction is the first one's failure.
LEMMA CorrectionIsShown ==
  ASSUME IInv, NEW t \in TaskIds, Used(t) > 0, LastRow(t).kind = "none"
  PROVE  Correction(t, FALSE) = Shown(t)
<1> DEFINE failed == {n \in 1..Used(t) : attempts[t][n].kind # "none"}
<1>1. Used(t) = 1 \/ Used(t) = 2
    BY RowTypes DEF IInv, Counted, AttemptsPerGeneration
<1>2. CASE Used(t) = 1
  <2>1. failed = {}
      BY <1>2 DEF LastRow
  <2> QED
      BY <1>2, <2>1 DEF Correction, Shown
<1>3. CASE Used(t) = 2
  <2>1. failed = {1}
      BY <1>3 DEF LastRow, IInv, Counted
  <2>2. (CHOOSE n \in failed : \A m \in failed : m <= n) = 1
      BY <2>1
  <2> QED
      BY <1>3, <2>1, <2>2 DEF Correction, Shown
<1> QED
    BY <1>1, <1>2, <1>3

\* The check before a claim is shown the failure the claim leaves behind.
LEMMA ClaimIsShown ==
  ASSUME IInv, RowsSound, IInv', NEW c \in Callers, NEW t \in TaskIds,
         ClaimGranted(c), t = callers[c].receipt.task
  PROVE  Correction(t, TRUE) = Shown(t)' /\ Used(t)' = Used(t) + 1
<1>1. PICK row : attempts'[t] = Append(AfterRecovery(t), row)
    BY DEF ClaimGranted, IInv, TypeOK
<1>2. /\ ~HasSuccess(tasks[t].budget) /\ ~(InFlight(t) /\ now < LastRow(t).expires)
      /\ Used(t) # AttemptsPerGeneration
    BY DEF ClaimGranted, ClaimBlocked, ClaimExhausted
<1>3. Used(t) = 0 \/ Used(t) = 1
    BY <1>2, RowTypes DEF IInv, Counted, AttemptsPerGeneration
<1>4. PICK before : before = AfterRecovery(t)
    OBVIOUS
<1>5. Len(before) = Used(t) /\ before \in Seq(Attempt)
  <2>1. CASE LeaseExpired(t)
      BY <1>4, <2>1, RecoveredRows, RowTypes DEF AfterRecovery, IInv, LeaseExpired, InFlight
  <2>2. CASE ~LeaseExpired(t)
      BY <1>4, <2>2, RowTypes DEF AfterRecovery, IInv, Used
  <2> QED
      BY <2>1, <2>2
<1>6. /\ Len(attempts'[t]) = Used(t) + 1
      /\ \A n \in 1..Used(t) : attempts'[t][n] = before[n]
  <2>1. before \in Seq({row} \cup Attempt)
    <3>1. Attempt \subseteq {row} \cup Attempt
        OBVIOUS
    <3> QED
        BY <1>5, <3>1
  <2> QED
      BY <1>1, <1>4, <1>5, <2>1, AppendProperties
<1>7. CASE Used(t) = 0
    BY <1>6, <1>7 DEF Correction, Shown, Used
<1>8. CASE Used(t) = 1
  <2>1. Shown(t)' = before[1].kind
      BY <1>6, <1>8 DEF Shown, Used
  <2>2. CASE LastRow(t).kind = "none"
    <3>1. InFlight(t)
      <4>1. ~Accepted(t, Used(t))
          BY <1>2 DEF Accepted, HasSuccess, IInv, SuccessHeld
      <4> QED
          BY <1>8, <2>2, <4>1 DEF InFlight
    <3>2. now >= LastRow(t).expires
      <4>1. LastRow(t) \in Attempt /\ now \in Int
          BY <1>8, RowTypes DEF LastRow, IInv, TypeOK
      <4> QED
          BY <1>2, <3>1, <4>1 DEF Attempt
    <3>3. before = Recovered(t)
        BY <1>4, <3>1, <3>2 DEF AfterRecovery, LeaseExpired
    <3>4. before[1].kind = "outcome_unknown"
        BY <1>8, <3>3, RecoveredRows DEF IInv
    <3> QED
        BY <1>6, <1>8, <2>1, <2>2, <3>4 DEF Correction, Used
  <2>3. CASE LastRow(t).kind # "none"
    <3>1. before = attempts[t]
        BY <1>4, <2>3 DEF AfterRecovery, LeaseExpired, InFlight
    <3> DEFINE failed == {n \in 1..Used(t) : attempts[t][n].kind # "none"}
    <3>2. failed = {1}
        BY <1>8, <2>3 DEF LastRow
    <3>3. (CHOOSE n \in failed : \A m \in failed : m <= n) = 1
        BY <3>2
    <3> QED
        BY <1>6, <1>8, <2>1, <2>3, <3>1, <3>2, <3>3 DEF Correction, Used
  <2> QED
      BY <2>2, <2>3
<1> QED
    BY <1>3, <1>6, <1>7, <1>8 DEF Used

\* An attempt that is still unsettled after a step was the last and unsettled
\* before it, and its executor was shown what it would be shown now.
LEMMA ShownStays ==
  ASSUME IInv, RowsSound, [Next]_vars, NEW t \in TaskIds, NEW n \in 1..Used(t),
         attempts'[t][n].kind = "none"
  PROVE  /\ attempts[t][n].kind = "none" /\ n = Used(t)
         /\ Shown(t)' = Shown(t)
<1>1. RowsKept(t) /\ (Used(t)' = Used(t) \/ \E c \in Callers : Granted(c, t))
    BY RowSteps
<1>2. Used(t) \in Nat /\ Used(t) <= 2
    BY RowTypes DEF IInv, Counted, AttemptsPerGeneration
<1>3. attempts[t][n].kind = "none" /\ n = Used(t)
    BY <1>1, <1>2 DEF RowsKept, Kept, Failing, Renewing, IInv, Counted
<1>4. Used(t)' = Used(t)
    BY <1>1, <1>2, <1>3 DEF Granted
<1>5. Used(t) # 1 => attempts'[t][1] = attempts[t][1]
    BY <1>1, <1>2 DEF RowsKept, Kept, Failing, Renewing
<1> QED
    BY <1>2, <1>3, <1>4, <1>5 DEF Shown, Used

HoldOps == {"claimed", "holding", "submitting", "published"}

\* A caller goes on holding its attempt: it reads its correction, submits,
\* publishes or is done with a submission.
Advances(c) ==
  /\ callers[c] \in Holding /\ callers[c].op \in HoldOps
  /\ callers'[c].op \in HoldOps \ {"claimed"}
  /\ callers'[c].task = callers[c].task /\ callers'[c].attempt = callers[c].attempt
  /\ callers'[c].preview = callers[c].preview
  /\ callers'[c].correction = IF callers[c].op = "claimed"
                                THEN Correction(callers[c].task, FALSE)
                                ELSE callers[c].correction
  /\ callers'[c].op = "published" =>
       callers'[c].candidate \in artifacts' /\ Verdict[callers'[c].candidate] = Accept

\* A caller has mapped the paper for a registration, a retry or a claim.
Maps(c) ==
  \/ callers'[c].op = "register" /\ callers'[c].request.source # "retry"
  \/ callers'[c].op = "retry" /\ callers'[c].request.source = "retry"
  \/ /\ callers'[c].op = "claim" /\ callers'[c].receipt \in requests
     /\ Mapping[callers'[c].revision] = tasks[callers'[c].receipt.task].budget

LEMMA HolderSteps ==
  ASSUME TypeOK, NEW c \in Callers, Hold(c)
  PROVE  callers'[c] = callers[c] \/ Advances(c)
<1>1. callers[c].op \in HoldOps => callers[c] \in Holding
    BY CallerTypes DEF HoldOps
<1>2. CASE ReadCorrection(c)
  <2>1. callers[c] \in Holding /\ callers[c].op = "claimed"
      BY <1>1, <1>2 DEF ReadCorrection, HoldOps
  <2>2. callers'[c] = [callers[c] EXCEPT !.op = "holding",
                         !.correction = Correction(callers[c].task, FALSE)]
      BY <1>2 DEF ReadCorrection, TypeOK
  <2> QED
      BY <2>1, <2>2 DEF Advances, HoldOps, Holding, HeldAs
<1>3. CASE Renew(c) \/ \E k \in Reports, o \in {"executor", "exception"} : Fail(c, k, o)
    BY <1>3 DEF Renew, Fail
<1>4. ASSUME NEW x \in Candidates, SubmitStarted(c, x) PROVE Advances(c)
  <2>1. callers[c] \in Holding /\ callers[c].op = "holding"
      BY <1>1, <1>4 DEF SubmitStarted, HoldOps
  <2>2. callers'[c] = [callers[c] EXCEPT !.op = "submitting", !.candidate = x]
      BY <1>4 DEF SubmitStarted, TypeOK
  <2> QED
      BY <2>1, <2>2 DEF Advances, HoldOps, Holding, HeldAs
<1>5. CASE Publish(c)
  <2>1. callers[c] \in Holding /\ callers[c].op = "submitting"
      BY <1>1, <1>5 DEF Publish, HoldOps
  <2>2. callers'[c] = [callers[c] EXCEPT !.op = "published"]
      BY <1>5 DEF Publish, TypeOK
  <2>3. callers[c].candidate \in artifacts' /\ Verdict[callers[c].candidate] = Accept
      BY <1>5 DEF Publish
  <2> QED
      BY <2>1, <2>2, <2>3 DEF Advances, HoldOps, Holding, HeldAs
<1>6. CASE SubmitRefused(c) \/ SubmitRejected(c) \/ SubmitAccepted(c)
  <2>1. callers[c] \in Holding /\ callers[c].op \in {"submitting", "published"}
      BY <1>1, <1>6 DEF SubmitRefused, SubmitRejected, SubmitAccepted, HoldOps
  <2>2. callers'[c] = [callers[c] EXCEPT !.op = "holding", !.candidate = NoCandidate]
      BY <1>6 DEF SubmitRefused, SubmitRejected, SubmitAccepted, TypeOK, Done
  <2> QED
      BY <2>1, <2>2 DEF Advances, HoldOps, Holding, HeldAs
<1> QED
    BY <1>2, <1>3, <1>4, <1>5, <1>6 DEF Hold

\* What any step does to a caller.
LEMMA CallerSteps ==
  ASSUME TypeOK, [Next]_vars, NEW c \in Callers
  PROVE  \/ callers'[c] = callers[c] \/ callers'[c] = Idle
         \/ Maps(c) \/ ClaimGranted(c) \/ Advances(c)
<1>1. callers \in [Callers -> {Idle} \cup Mapped \cup Claiming \cup Holding]
    BY DEF TypeOK
<1>2. ASSUME NEW d \in Callers, d # c, Register(d) \/ RetryTask(d) \/ ClaimTask(d) \/ Hold(d) \/ Leave(d)
      PROVE  callers'[c] = callers[c]
  <2>1. CASE Register(d)
      BY <1>1, <1>2, <2>1 DEF Register, MapForRegistration, RegistrationAnswered, RegistrationRecorded
  <2>2. CASE RetryTask(d)
      BY <1>1, <1>2, <2>2 DEF RetryTask, MapForRetry, RetryRefused, RetryRecorded
  <2>3. CASE ClaimTask(d)
      BY <1>1, <1>2, <2>3 DEF ClaimTask, MapForClaim, ClaimRefused, ClaimOutOfBudget, ClaimGranted
  <2>4. CASE Hold(d)
      BY <1>1, <1>2, <2>4 DEF Hold, ReadCorrection, Renew, Fail, SubmitStarted, Publish,
         SubmitRefused, SubmitRejected, SubmitAccepted
  <2>5. CASE Leave(d)
      BY <1>1, <1>2, <2>5 DEF Leave
  <2> QED
      BY <1>2, <2>1, <2>2, <2>3, <2>4, <2>5
<1>3. CASE Register(c)
  <2>1. CASE RegistrationAnswered(c) \/ \E t \in TaskIds : RegistrationRecorded(c, t)
      BY <1>1, <2>1 DEF RegistrationAnswered, RegistrationRecorded
  <2>2. ASSUME NEW r, r.source # "retry", MapForRegistration(c, r) PROVE Maps(c)
      BY <1>1, <2>2 DEF MapForRegistration, Maps
  <2>3. Scheduled.source # "retry" /\ \A i \in RequestIds : Manual(i).source # "retry"
      BY DEF Scheduled, Manual
  <2> QED
      BY <1>3, <2>1, <2>2, <2>3 DEF Register
<1>4. CASE RetryTask(c)
  <2>1. CASE RetryRefused(c) \/ \E t \in TaskIds : RetryRecorded(c, t)
      BY <1>1, <2>1 DEF RetryRefused, RetryRecorded
  <2>2. ASSUME NEW r, MapForRetry(c, r) PROVE Maps(c)
      BY <1>1, <2>2 DEF MapForRetry, Maps
  <2> QED
      BY <1>4, <2>1, <2>2 DEF RetryTask
<1>5. CASE ClaimTask(c)
  <2>1. CASE ClaimRefused(c) \/ ClaimOutOfBudget(c)
      BY <1>1, <2>1 DEF ClaimRefused, ClaimOutOfBudget
  <2>2. ASSUME NEW q \in requests, MapForClaim(c, q) PROVE Maps(c)
      BY <1>1, <2>2 DEF MapForClaim, Maps
  <2> QED
      BY <1>5, <2>1, <2>2 DEF ClaimTask
<1>6. CASE Leave(c)
    BY <1>1, <1>6 DEF Leave
<1>7. CASE (\E t \in TaskIds : Reclaim(t)) \/ ReviseFacts \/ Tick \/ ClockSetBack \/ UNCHANGED vars
    BY <1>7 DEF Reclaim, ReviseFacts, Tick, ClockSetBack, vars
<1> QED
    BY <1>2, <1>3, <1>4, <1>5, <1>6, <1>7, HolderSteps DEF Next

\* A holder was shown the correction its attempt still has.
LEMMA CallersPreserved ==
  ASSUME AInv, [Next]_vars
  PROVE  CallersSound'
<1>0. IInv /\ RowsSound /\ CallersSound /\ IInv' /\ TypeOK
    BY NextInvariant DEF AInv, IInv
<1> SUFFICES ASSUME NEW c \in Callers
             PROVE  /\ callers'[c].op = "register" => callers'[c].request.source # "retry"
                    /\ callers'[c].op = "retry" => callers'[c].request.source = "retry"
                    /\ callers'[c].op = "claim" =>
                         Mapping[callers'[c].revision] = tasks'[callers'[c].receipt.task].budget
                    /\ callers'[c].op = "published" =>
                         callers'[c].candidate \in artifacts'
                         /\ Verdict[callers'[c].candidate] = Accept
                    /\ callers'[c].op \in HoldOps
                         /\ attempts'[callers'[c].task][callers'[c].attempt].kind = "none" =>
                         /\ callers'[c].preview =
                              IF Len(attempts'[callers'[c].task]) = 1 THEN "none"
                              ELSE attempts'[callers'[c].task][1].kind
                         /\ callers'[c].op # "claimed" =>
                              callers'[c].correction = callers'[c].preview
    BY DEF CallersSound, HoldOps, Shown, Used
<1>1. /\ requests \subseteq requests' /\ artifacts \subseteq artifacts'
      /\ \A q \in requests : q.task \in TaskIds /\ tasks'[q.task] = tasks[q.task]
  <2>1. \A q \in requests : q.task \in TaskIds /\ tasks[q.task].budget \in Fingerprints
      BY <1>0 DEF TypeOK, IInv, Owned, Receipt
  <2> QED
      BY <1>0, <2>1, ArchiveGrows
<1>2. callers[c].op \in HoldOps => callers[c] \in Holding
    BY <1>0, CallerTypes DEF HoldOps
<1>3. ASSUME callers[c].op \in HoldOps,
             attempts'[callers[c].task][callers[c].attempt].kind = "none"
      PROVE  /\ callers[c].preview =
                  IF Len(attempts'[callers[c].task]) = 1 THEN "none"
                  ELSE attempts'[callers[c].task][1].kind
             /\ callers[c].op # "claimed" => callers[c].correction = callers[c].preview
             /\ callers[c].op = "claimed" =>
                  Correction(callers[c].task, FALSE) = callers[c].preview
  <2>1. PICK t \in TaskIds, n \in 1..AttemptsPerGeneration :
          t = callers[c].task /\ n = callers[c].attempt
      BY <1>2, <1>3 DEF Holding, HeldAs
  <2>2. n \in 1..Used(t) /\ Used(t) \in Nat
      BY <1>0, <1>3, <2>1, RowTypes DEF IInv, CallersOwned, HoldOps, AttemptsPerGeneration
  <2>3. attempts[t][n].kind = "none" /\ n = Used(t) /\ Shown(t)' = Shown(t)
      BY <1>0, <1>3, <2>1, <2>2, ShownStays
  <2>4. /\ callers[c].preview = Shown(t)
        /\ callers[c].op # "claimed" => callers[c].correction = callers[c].preview
      BY <1>0, <1>3, <2>1, <2>3 DEF CallersSound, HoldOps
  <2>5. Correction(t, FALSE) = Shown(t)
    <3>1. Used(t) > 0 /\ LastRow(t).kind = "none"
        BY <2>2, <2>3 DEF LastRow
    <3> QED
        BY <1>0, <3>1, CorrectionIsShown
  <2>6. Shown(t)' = IF Len(attempts'[t]) = 1 THEN "none" ELSE attempts'[t][1].kind
      BY DEF Shown, Used
  <2> QED
      BY <2>1, <2>3, <2>4, <2>5, <2>6
<1>4. CASE callers'[c] = callers[c]
  <2>1. callers[c].op = "claim" => callers[c].receipt \in requests
      BY <1>0 DEF IInv, CallersOwned
  <2>2. /\ callers[c].op = "register" => callers[c].request.source # "retry"
        /\ callers[c].op = "retry" => callers[c].request.source = "retry"
        /\ callers[c].op = "claim" =>
             Mapping[callers[c].revision] = tasks[callers[c].receipt.task].budget
        /\ callers[c].op = "published" =>
             callers[c].candidate \in artifacts /\ Verdict[callers[c].candidate] = Accept
      BY <1>0 DEF CallersSound
  <2> QED
      BY <1>1, <1>3, <1>4, <2>1, <2>2
<1>5. CASE callers'[c] = Idle
    BY <1>5 DEF Idle, HoldOps
<1>6. CASE Maps(c)
    BY <1>1, <1>6 DEF Maps, HoldOps
<1>7. CASE ClaimGranted(c)
  <2>1. PICK t \in TaskIds : t = callers[c].receipt.task
      BY <1>0, <1>7, CallerTypes DEF ClaimGranted, Claiming, Receipt
  <2>2. Correction(t, TRUE) = Shown(t)' /\ Used(t)' = Used(t) + 1
      BY <1>0, <1>7, <2>1, ClaimIsShown
  <2>3. callers'[c] = [op |-> "claimed", task |-> t, attempt |-> Used(t) + 1,
                       preview |-> Correction(t, TRUE), correction |-> "none",
                       candidate |-> NoCandidate]
      BY <1>0, <1>7, <2>1 DEF ClaimGranted, TypeOK
  <2>4. Shown(t)' = IF Len(attempts'[t]) = 1 THEN "none" ELSE attempts'[t][1].kind
      BY DEF Shown, Used
  <2>5. /\ callers'[c].op = "claimed" /\ callers'[c].task = t
        /\ callers'[c].preview = Correction(t, TRUE)
      BY <2>3
  <2> QED
      BY <2>2, <2>4, <2>5
<1>8. CASE Advances(c)
    BY <1>3, <1>8 DEF Advances, HoldOps
<1> QED
    BY <1>0, <1>4, <1>5, <1>6, <1>7, <1>8, CallerSteps

-------------------------------------------------------------------------------
(* The properties follow from the invariant *)

\* attempt_integrity accepts the attempts of every task.
LEMMA InvAttemptsValidate == AInv => AttemptsValidate
<1> SUFFICES ASSUME AInv, NEW t \in TaskIds PROVE ValidAttempts(t)
    BY DEF AttemptsValidate
<1>1. IInv /\ RowsSound /\ Used(t) \in Nat /\ Used(t) <= AttemptsPerGeneration
    BY RowTypes DEF AInv, IInv, Counted
<1> SUFFICES ASSUME NEW n \in 1..Used(t)
             PROVE  LET row == attempts[t][n] IN
                    /\ row.receipt \in requests /\ row.receipt.task = t
                    /\ Mapping[row.revision] = tasks[t].budget
                    /\ row.expires - row.claimed >= Lease
                    /\ row.kind # "none" => row.settled >= row.claimed /\ ~Accepted(t, n)
                    /\ row.origin = "recovery" =>
                         row.kind = "outcome_unknown" /\ row.settled >= row.expires
                    /\ n < Used(t) =>
                         row.kind # "none" /\ row.settled <= attempts[t][n + 1].claimed
    BY <1>1 DEF ValidAttempts
<1>2. SoundRow(t, n)
    BY <1>1 DEF RowsSound
<1>3. attempts[t][n].claimed \in Int /\ attempts[t][n].expires \in Int
  <2>1. attempts[t][n] \in Attempt
      BY <1>1, RowTypes DEF IInv
  <2> QED
      BY <2>1 DEF Attempt
<1>4. attempts[t][n].expires - attempts[t][n].claimed >= Lease
    BY <1>2, <1>3, TimeAssumption DEF SoundRow
<1>5. attempts[t][n].kind # "none" => ~Accepted(t, n)
    BY <1>1 DEF Accepted, IInv, SuccessHeld, LastRow
<1>6. n < Used(t) => attempts[t][n].kind # "none"
    BY <1>1 DEF IInv, Counted
<1> QED
    BY <1>2, <1>4, <1>5, <1>6 DEF SoundRow

\* validate_registration accepts every task.
LEMMA InvRegistrationValidates == AInv => RegistrationValidates
<1> SUFFICES ASSUME AInv, NEW t \in TaskIds, tasks[t] # Unused
             PROVE  ValidRegistration(t)
    BY DEF RegistrationValidates, Registered
<1>1. IInv /\ tasks[t] \in Task /\ Unmapped \notin Fingerprints
    BY RowTypes, MappingAssumption DEF AInv, IInv
<1>2. tasks[t].budget \in Fingerprints
    BY <1>1 DEF IInv, UsedTasks, Task
<1>3. Descended(t)
    BY <1>2 DEF AInv, TasksDescend
<1>4. \A u \in TasksOf(tasks[t].budget) :
        tasks[u].generation = tasks[t].generation => u = t
    BY <1>1, <1>2 DEF IInv, DistinctGenerations, SameBudget, TasksOf
<1>5. CASE tasks[t].generation = 0
    BY <1>3, <1>4, <1>5 DEF Descended, ValidRegistration, RetriesOf
<1>6. CASE tasks[t].generation # 0
  <2>1. PICK p \in TaskIds : p = tasks[t].parent
      BY <1>3, <1>6 DEF Descended
  <2>2. /\ tasks[p].budget = tasks[t].budget
        /\ tasks[p].generation = tasks[t].generation - 1
        /\ \E q \in RetriesOf(t) : RetriesOf(t) = {q} /\ q.request.parent = p
      BY <1>3, <1>6, <2>1 DEF Descended
  <2>3. tasks[p].generation < tasks[t].generation
      BY <1>1, <2>2 DEF Task
  <2>4. Superseded(p)
      BY <1>1, <1>2, <2>2, <2>3 DEF IInv, OlderSuperseded, SameBudget
  <2>5. \A n \in 1..Used(p) : ~Accepted(p, n)
      BY <1>1, <2>4 DEF Superseded, Accepted, IInv, SuccessHeld, LastRow
  <2> QED
      BY <1>3, <1>4, <1>6, <2>1, <2>2, <2>4, <2>5
         DEF Descended, ValidRegistration, RetriesOf, Superseded
<1> QED
    BY <1>5, <1>6

\* validate_all accepts the archive, in every state AInv describes.
LEMMA InvArchiveValidates == AInv => ArchiveValidates
BY InvAttemptsValidate, InvRegistrationValidates
   DEF AInv, ArchiveValidates, SuccessesValidate, SuccessesSound, ReceiptsSound

\* The executor works with the correction that was checked, in every state AInv
\* describes.
LEMMA InvCorrectionChecked == AInv => CorrectionWasChecked
BY DEF AInv, CallersSound, CorrectionWasChecked, Unsettled

-------------------------------------------------------------------------------
(* The theorems *)

LEMMA InitArchive == Init => AInv
<1> SUFFICES ASSUME Init PROVE AInv
    OBVIOUS
<1>1. \A t \in TaskIds : Used(t) = 0 /\ tasks[t].budget \notin Fingerprints
    BY MappingAssumption DEF Init, Used, Unused
<1>2. CallersSound
    BY DEF Init, CallersSound, Idle
<1> QED
    BY <1>1, <1>2, InitInvariant
       DEF Init, AInv, RowsSound, TasksDescend, SuccessesSound, ReceiptsSound

LEMMA NextArchive == AInv /\ [Next]_vars => AInv'
<1> SUFFICES ASSUME AInv, [Next]_vars PROVE AInv'
    OBVIOUS
<1>1. IInv'
    BY NextInvariant DEF AInv
<1> QED
    BY <1>1, RowsPreserved, DescentPreserved, SuccessesPreserved, ReceiptsPreserved,
       CallersPreserved DEF AInv

\* What a row, a task, a success, a receipt and a caller remember stays sound.
THEOREM ArchiveInvariant == Spec => []AInv
BY InitArchive, NextArchive, PTL DEF Spec

\* screening_tasks.validate_all accepts every archive the service can leave,
\* however registrations, retries, claims, expiry and clock jumps interleave.
THEOREM ArchiveAlwaysValidates == Spec => []ArchiveValidates
BY ArchiveInvariant, InvArchiveValidates, PTL

\* The correction read after the claim has committed is the one that was checked
\* before it, as long as the attempt is unsettled (service._run_once).
THEOREM CorrectionHolds == Spec => []CorrectionWasChecked
BY ArchiveInvariant, InvCorrectionChecked, PTL

\* A settled attempt stays settled as it was: no late fail, submit, renew, reclaim,
\* retry or claim rewrites it, and none removes it.
THEOREM SettledForEver == Spec => SettlementIsFinal
<1>1. AInv /\ [Next]_vars =>
        [/\ successes \subseteq successes'
         /\ \A t \in TaskIds : \A n \in 1..Used(t) :
              /\ Used(t)' >= Used(t)
              /\ ~Unsettled(t, n) => attempts'[t][n] = attempts[t][n]
                                     /\ (Accepted(t, n)' <=> Accepted(t, n))]_vars
    BY SettledStays DEF AInv
<1> QED
    BY <1>1, ArchiveInvariant, PTL DEF Spec, SettlementIsFinal

-------------------------------------------------------------------------------
(* The service implements the attempt budget *)

\* The values the budget's variables have in this archive.
BOwner == [t \in TaskIds |-> tasks[t].budget]
BSpent == {a \in TaskIds \X (1..2) : a[2] <= Used(a[1])}
BFailed == {a \in TaskIds \X (1..2) :
              a[2] <= Used(a[1]) /\ attempts[a[1]][a[2]].kind # "none"}
BResults == {[attempt |-> <<s.task, s.attempt>>, value |-> s.artifact] : s \in successes}

LEMMA ResultsAreSuccesses ==
  /\ \A r \in BResults : \E s \in successes : r.attempt = <<s.task, s.attempt>>
  /\ \A s \in successes : \E r \in BResults : r.attempt = <<s.task, s.attempt>>
<1> DEFINE result(s) == [attempt |-> <<s.task, s.attempt>>, value |-> s.artifact]
<1>1. \A s \in successes : result(s).attempt = <<s.task, s.attempt>>
    OBVIOUS
<1>2. BResults = {result(s) : s \in successes}
    BY DEF BResults
<1> HIDE DEF result
<1> QED
    BY <1>1, <1>2

LEMMA BudgetSucceeds ==
  ASSUME IInv, NEW b \in Fingerprints
  PROVE  Budget!Succeeded(b) <=> HasSuccess(b)
<1>1. Budget!Succeeded(b) <=> \E r \in BResults : BOwner[r.attempt[1]] = b
    BY DEF Budget!Succeeded, BResults, BOwner
<1>2. (\E r \in BResults : BOwner[r.attempt[1]] = b)
        <=> \E s \in successes : BOwner[s.task] = b
  <2>1. \A s \in successes : <<s.task, s.attempt>>[1] = s.task
      OBVIOUS
  <2> QED
      BY <2>1, ResultsAreSuccesses
<1>3. \A s \in successes : s.task \in TaskIds /\ tasks[s.task].budget = s.budget
    BY DEF IInv, TypeOK, Success, SuccessHeld
<1> QED
    BY <1>1, <1>2, <1>3 DEF BOwner, HasSuccess

\* The attempts pending in a budget are its unsettled rows.
LEMMA BudgetPending ==
  ASSUME IInv, NEW b \in Fingerprints, NEW t \in TaskIds, NEW n \in 1..2
  PROVE  <<t, n>> \in Budget!Pending(b) <=>
           n \in 1..Used(t) /\ Unsettled(t, n) /\ tasks[t].budget = b
<1> DEFINE accepted == {r.attempt : r \in BResults}
<1>1. Budget!Pending(b) = {a \in (BSpent \ BFailed) \ accepted : BOwner[a[1]] = b}
    BY DEF Budget!Pending, Budget!Accepted, BSpent, BFailed, BResults, BOwner
<1>2. BOwner[t] = tasks[t].budget
    BY DEF BOwner
<1>3. <<t, n>> \in BSpent <=> n \in 1..Used(t)
    BY RowTypes DEF BSpent, IInv
<1>4. <<t, n>> \in BFailed <=> n \in 1..Used(t) /\ attempts[t][n].kind # "none"
    BY RowTypes DEF BFailed, IInv
<1>5. <<t, n>> \in accepted <=> Accepted(t, n)
  <2>1. <<t, n>> \in accepted <=> \E r \in BResults : r.attempt = <<t, n>>
      OBVIOUS
  <2>2. (\E r \in BResults : r.attempt = <<t, n>>)
          <=> \E s \in successes : <<s.task, s.attempt>> = <<t, n>>
      BY ResultsAreSuccesses
  <2>3. \A s : <<s.task, s.attempt>> = <<t, n>> <=> s.task = t /\ s.attempt = n
      OBVIOUS
  <2> HIDE DEF accepted
  <2> QED
      BY <2>1, <2>2, <2>3 DEF Accepted
<1> HIDE DEF accepted
<1> QED
    BY <1>1, <1>2, <1>3, <1>4, <1>5 DEF Unsettled

\* An accepted attempt belongs to a budget that has a success.
LEMMA AcceptedSucceeds ==
  ASSUME IInv, NEW t \in TaskIds, NEW n, Accepted(t, n)
  PROVE  HasSuccess(tasks[t].budget)
BY DEF Accepted, HasSuccess, IInv, SuccessHeld

LEMMA BudgetSpent ==
  ASSUME IInv, NEW t \in TaskIds
  PROVE  /\ \A n \in 1..2 : <<t, n>> \in BSpent <=> n <= Used(t)
         /\ Used(t) = AttemptsPerGeneration => Budget!FullySpent(t)
<1>1. \A n \in 1..2 : <<t, n>> \in BSpent <=> n <= Used(t)
    BY DEF BSpent
<1>2. Budget!FullySpent(t) <=> \A n \in 1..2 : <<t, n>> \in BSpent
    BY DEF Budget!FullySpent, Budget!Numbers, BSpent
<1> QED
    BY <1>1, <1>2 DEF AttemptsPerGeneration

\* A step after which every row of a budget has failed gives up what was pending.
LEMMA PendingGivenUp ==
  ASSUME IInv, NEW b \in Fingerprints, ~HasSuccess(b),
         \A u \in TaskIds : Used(u)' \in Nat /\ Used(u)' >= Used(u),
         \A u \in TaskIds : \A n \in 1..Used(u) :
           /\ tasks[u].budget = b => attempts'[u][n].kind # "none"
           /\ tasks[u].budget # b =>
                (attempts'[u][n].kind = "none" <=> attempts[u][n].kind = "none"),
         \A u \in TaskIds : \A n \in 1..2 :
           n > Used(u) /\ n <= Used(u)' => attempts'[u][n].kind = "none"
  PROVE  BFailed' = BFailed \cup Budget!Pending(b)
<1>1. Budget!Pending(b) \subseteq TaskIds \X (1..2)
    BY DEF Budget!Pending
<1>2. ASSUME NEW x \in TaskIds \X (1..2)
      PROVE  (x[2] <= Used(x[1])' /\ attempts'[x[1]][x[2]].kind # "none")
               <=> (x[2] <= Used(x[1]) /\ attempts[x[1]][x[2]].kind # "none")
                   \/ x \in Budget!Pending(b)
  <2>1. PICK u \in TaskIds, m \in 1..2 : x = <<u, m>> /\ x[1] = u /\ x[2] = m
      OBVIOUS
  <2>2. x \in Budget!Pending(b) <=>
          m \in 1..Used(u) /\ Unsettled(u, m) /\ tasks[u].budget = b
      BY <2>1, BudgetPending
  <2>3. Used(u) \in Nat
      BY RowTypes DEF IInv
  <2>4. (m <= Used(u)' /\ attempts'[u][m].kind # "none")
          <=> (m <= Used(u) /\ attempts[u][m].kind # "none")
              \/ (m \in 1..Used(u) /\ Unsettled(u, m) /\ tasks[u].budget = b)
    <3>1. CASE m > Used(u)
        BY <2>3, <3>1
    <3>2. CASE m <= Used(u) /\ tasks[u].budget # b
        BY <2>3, <3>2
    <3>3. CASE m <= Used(u) /\ tasks[u].budget = b
      <4>1. ~Accepted(u, m)
          BY <3>3, AcceptedSucceeds
      <4> QED
          BY <2>3, <3>3, <4>1 DEF Unsettled
    <3> QED
        BY <2>3, <3>1, <3>2, <3>3
  <2> QED
      BY <2>1, <2>2, <2>4
<1> QED
    BY <1>1, <1>2 DEF BFailed

\* What is seen of the archive: budgets, granted attempts, failures and successes.
LEMMA BudgetSeesNothing ==
  ASSUME IInv, UNCHANGED <<tasks, successes>>,
         \A t \in TaskIds : Used(t)' = Used(t),
         \A t \in TaskIds : \A n \in 1..Used(t) :
           attempts'[t][n].kind = "none" <=> attempts[t][n].kind = "none"
  PROVE  UNCHANGED Budget!vars
<1>1. BOwner' = BOwner /\ BSpent' = BSpent /\ BResults' = BResults
    BY DEF BOwner, BSpent, BResults
<1>2. BFailed' = BFailed
  <2>1. ASSUME NEW x \in TaskIds \X (1..2)
        PROVE  (x[2] <= Used(x[1])' /\ attempts'[x[1]][x[2]].kind # "none")
                 <=> (x[2] <= Used(x[1]) /\ attempts[x[1]][x[2]].kind # "none")
    <3>1. PICK u \in TaskIds, m \in 1..2 : x = <<u, m>> /\ x[1] = u /\ x[2] = m
        OBVIOUS
    <3>2. Used(u)' = Used(u) /\ (m <= Used(u) => m \in 1..Used(u))
        BY RowTypes DEF IInv
    <3> QED
        BY <3>1, <3>2
  <2> QED
      BY <2>1 DEF BFailed
<1> QED
    BY <1>1, <1>2 DEF Budget!vars, BOwner, BSpent, BFailed, BResults

\* A registration of a new input, or a retry, opens a task: the tasks before it
\* are spent, and an attempt still pending is given up.
LEMMA OpenStep ==
  ASSUME IInv, NEW b \in Fingerprints, NEW t \in TaskIds, tasks[t] = Unused,
         ~HasSuccess(b),
         \A u \in TaskIds : Used(u)' = Used(u),
         \A u \in TaskIds : tasks[u].budget = b => Used(u) = AttemptsPerGeneration,
         \A u \in TaskIds : \A n \in 1..Used(u) :
           /\ tasks[u].budget = b => attempts'[u][n].kind # "none"
           /\ tasks[u].budget # b =>
                (attempts'[u][n].kind = "none" <=> attempts[u][n].kind = "none"),
         NEW made, made.budget = b, tasks' = [tasks EXCEPT ![t] = made],
         UNCHANGED successes
  PROVE  Budget!Open(b, t)
<1>0. \A u \in TaskIds : Used(u) \in Nat
    BY RowTypes DEF IInv
<1>1. BOwner[t] = Unmapped
    BY DEF BOwner, Unused
<1>2. ~Budget!Succeeded(b)
    BY BudgetSucceeds
<1>3. \A u \in TaskIds : BOwner[u] = b => Budget!FullySpent(u)
    BY BudgetSpent DEF BOwner
<1>4. BOwner' = [BOwner EXCEPT ![t] = b]
    BY DEF BOwner, IInv, TypeOK
<1>5. BSpent' = BSpent /\ BResults' = BResults
    BY DEF BSpent, BResults
<1>6. BFailed' = BFailed \cup Budget!Pending(b)
    BY <1>0, PendingGivenUp
<1> QED
    BY <1>1, <1>2, <1>3, <1>4, <1>5, <1>6
       DEF Budget!Open, BOwner, BSpent, BFailed, BResults

LEMMA RegistrationOpens ==
  ASSUME IInv, NEW c \in Callers, NEW t \in TaskIds, RegistrationRecorded(c, t)
  PROVE  Budget!Next \/ UNCHANGED Budget!vars
<1>1. PICK b \in Fingerprints : b = Mapping[callers[c].revision]
    BY DEF RegistrationRecorded, IInv, CallersOwned
<1>2. UNCHANGED <<attempts, successes>>
    BY DEF RegistrationRecorded
<1>3. CASE TasksOf(b) # {}
  <2>1. UNCHANGED tasks
      BY <1>1, <1>3 DEF RegistrationRecorded
  <2> QED
      BY <1>2, <2>1, BudgetSeesNothing DEF Used
<1>4. CASE TasksOf(b) = {}
  <2> DEFINE made == [budget |-> b, generation |-> 0, parent |-> NoTask]
  <2>1. tasks[t] = Unused /\ tasks' = [tasks EXCEPT ![t] = made]
      BY <1>1, <1>4 DEF RegistrationRecorded
  <2>2. \A u \in TaskIds : tasks[u].budget # b
      BY <1>4 DEF TasksOf
  <2>3. ~HasSuccess(b)
      BY <2>2 DEF HasSuccess, IInv, SuccessHeld, TypeOK, Success
  <2>4. made.budget = b
      OBVIOUS
  <2>5. \A u \in TaskIds : Used(u)' = Used(u)
      BY <1>2 DEF Used
  <2> HIDE DEF made
  <2>6. Budget!Open(b, t)
      BY <1>2, <2>1, <2>2, <2>3, <2>4, <2>5, OpenStep
  <2> QED
      BY <2>6 DEF Budget!Next
<1> QED
    BY <1>3, <1>4

LEMMA RetryOpens ==
  ASSUME IInv, RowsSound, IInv', NEW c \in Callers, NEW t \in TaskIds, RetryRecorded(c, t)
  PROVE  Budget!Next
<1>0. PICK p \in TaskIds : p = callers[c].request.parent
    BY DEF RetryRecorded, IInv, CallersOwned
<1>1. PICK b : b = tasks[p].budget
    OBVIOUS
<1> DEFINE made == [budget |-> b, generation |-> tasks[p].generation + 1, parent |-> p]
<1>2. /\ tasks[t] = Unused /\ tasks[p] # Unused /\ p # t /\ UNCHANGED successes
      /\ tasks' = [tasks EXCEPT ![t] = made]
      /\ ~HasSuccess(b) /\ IsLatest(p)
    BY <1>0, <1>1 DEF RetryRecorded, MayRetry, IInv, CallersOwned
<1>3. b \in Fingerprints /\ Unmapped \notin Fingerprints /\ tasks \in [TaskIds -> Task]
    BY <1>1, <1>2, RowTypes, MappingAssumption DEF IInv, TypeOK, UsedTasks, Task
<1>4. /\ tasks'[t].budget = b /\ tasks'[t].generation = tasks[p].generation + 1
      /\ \A u \in TaskIds : u # t => tasks'[u] = tasks[u]
    BY <1>2, <1>3
<1>5. made.budget = b
    OBVIOUS
<1> HIDE DEF made
<1>6. ASSUME NEW u \in TaskIds, tasks[u].budget = b
      PROVE  Superseded(u)'
  <2>1. u # t /\ tasks'[u] = tasks[u]
      BY <1>2, <1>3, <1>4, <1>6 DEF Unused
  <2>2. tasks[u].generation < tasks[p].generation + 1
      BY <1>1, <1>2, <1>3, <1>6 DEF IsLatest, TasksOf, Task
  <2>3. SameBudget(u, t)' /\ tasks'[u].generation < tasks'[t].generation
      BY <1>3, <1>4, <1>6, <2>1, <2>2 DEF SameBudget
  <2> QED
      BY <2>3 DEF IInv, OlderSuperseded
<1>7. \A u \in TaskIds : RowsKept(u) /\ Used(u)' = Used(u) /\ Used(u) \in Nat
    BY RetryRows, RowTypes DEF IInv
<1>8. \A u \in TaskIds : tasks[u].budget = b => Used(u) = AttemptsPerGeneration
    BY <1>6, <1>7 DEF Superseded, Used
<1>9. ASSUME NEW u \in TaskIds, NEW n \in 1..Used(u)
      PROVE  /\ tasks[u].budget = b => attempts'[u][n].kind # "none"
             /\ tasks[u].budget # b =>
                  (attempts'[u][n].kind = "none" <=> attempts[u][n].kind = "none")
  <2>1. CASE tasks[u].budget = b
      BY <1>6, <1>7, <2>1 DEF Superseded, Used
  <2>2. CASE tasks[u].budget # b
    <3>1. u # p
        BY <1>1, <2>2
    <3>2. attempts'[u] = attempts[u]
        BY <1>0, <3>1 DEF RetryRecorded, IInv, TypeOK
    <3> QED
        BY <2>2, <3>2
  <2> QED
      BY <2>1, <2>2
<1>10. Budget!Open(b, t)
    BY <1>2, <1>3, <1>5, <1>7, <1>8, <1>9, OpenStep
<1> QED
    BY <1>3, <1>10 DEF Budget!Next

\* A claim spends the next attempt of the only task of its budget not used up, and
\* gives up the one whose lease has run out.
LEMMA ClaimSpends ==
  ASSUME IInv, RowsSound, IInv', NEW c \in Callers, ClaimGranted(c)
  PROVE  Budget!Next
<1>0. PICK t \in TaskIds : t = callers[c].receipt.task
    BY CallerTypes DEF ClaimGranted, IInv, Claiming, Receipt
<1>1. PICK b : b = tasks[t].budget
    OBVIOUS
<1>2. /\ callers[c].receipt \in requests /\ ~HasSuccess(b)
      /\ UNCHANGED <<tasks, successes>>
    BY <1>0, <1>1 DEF ClaimGranted, ClaimBlocked, IInv, CallersOwned
<1>3. b \in Fingerprints /\ Unmapped \notin Fingerprints
    BY <1>0, <1>1, <1>2, MappingAssumption DEF IInv, Owned
<1>4. Granted(c, t)
  <2>a. Used(t)' = Used(t) + 1 /\ Used(t) \in Nat
      BY <1>0, ClaimIsShown, RowTypes DEF IInv
  <2>1. Used(t)' # Used(t)
      BY <2>a
  <2> QED
      BY <2>1, GrantRows
<1>5. PICK n \in 1..2 : n = Used(t) + 1 /\ Used(t)' = n
    BY <1>4, RowTypes DEF Granted, AttemptsPerGeneration, IInv
<1>6. /\ attempts'[t][n].kind = "none"
      /\ \A m \in 1..Used(t) : attempts'[t][m].kind # "none"
    BY <1>4, <1>5 DEF Granted
<1>7. \A u \in TaskIds : u # t => attempts'[u] = attempts[u] /\ Used(u)' = Used(u)
    BY <1>0 DEF ClaimGranted, IInv, TypeOK, Used
<1>8. \A u \in TaskIds : Used(u) \in Nat /\ Used(u)' \in Nat /\ Used(u)' >= Used(u)
    BY <1>5, <1>7, RowTypes DEF IInv
<1>9. ASSUME NEW u \in TaskIds, tasks[u].budget = b, u # t
      PROVE  Superseded(u)
  <2>1. SameBudget(u, t) /\ SameBudget(t, u)
      BY <1>1, <1>3, <1>9 DEF SameBudget
  <2>2. ~Superseded(t)
      BY <1>4 DEF Superseded, Granted, AttemptsPerGeneration
  <2>3. tasks[u].generation # tasks[t].generation
      BY <1>9, <2>1 DEF IInv, DistinctGenerations
  <2>4. ~(tasks[t].generation < tasks[u].generation)
      BY <2>1, <2>2 DEF IInv, OlderSuperseded
  <2>5. tasks[u].generation < tasks[t].generation
      BY <2>3, <2>4, RowTypes DEF IInv, Task
  <2> QED
      BY <2>1, <2>5 DEF IInv, OlderSuperseded
<1>10. BOwner' = BOwner /\ BResults' = BResults /\ BOwner[t] = b
    BY <1>1, <1>2 DEF BOwner, BResults
<1>11. \A u \in TaskIds \ {t} : BOwner[u] = BOwner[t] => Budget!FullySpent(u)
    BY <1>9, <1>10, BudgetSpent DEF BOwner, Superseded
<1>12. <<t, n>> \notin BSpent /\ \A m \in 1..2 : m < n => <<t, m>> \in BSpent
    BY <1>5, <1>8, BudgetSpent
<1>13. BSpent' = BSpent \cup {<<t, n>>}
  <2>1. ASSUME NEW x \in TaskIds \X (1..2)
        PROVE  x[2] <= Used(x[1])' <=> x[2] <= Used(x[1]) \/ x = <<t, n>>
    <3>1. PICK u \in TaskIds, m \in 1..2 : x = <<u, m>> /\ x[1] = u /\ x[2] = m
        OBVIOUS
    <3>2. m <= Used(u)' <=> m <= Used(u) \/ (u = t /\ m = n)
        BY <1>5, <1>7, <1>8
    <3> QED
        BY <3>1, <3>2
  <2>2. <<t, n>> \in TaskIds \X (1..2)
      OBVIOUS
  <2> QED
      BY <2>1, <2>2 DEF BSpent
<1>14. BFailed' = BFailed \cup Budget!Pending(b)
  <2>1. ASSUME NEW u \in TaskIds, NEW m \in 1..Used(u)
        PROVE  /\ tasks[u].budget = b => attempts'[u][m].kind # "none"
               /\ tasks[u].budget # b =>
                    (attempts'[u][m].kind = "none" <=> attempts[u][m].kind = "none")
      BY <1>1, <1>6, <1>7, <1>9 DEF Superseded
  <2>2. ASSUME NEW u \in TaskIds, NEW m \in 1..2, m > Used(u), m <= Used(u)'
        PROVE  attempts'[u][m].kind = "none"
    <3>1. u = t
        BY <1>7, <1>8, <2>2
    <3>2. m = n
        BY <1>5, <1>8, <2>2, <3>1
    <3> QED
        BY <1>6, <3>1, <3>2
  <2> QED
      BY <1>2, <1>3, <1>8, <2>1, <2>2, PendingGivenUp
<1>15. Budget!Spend(t, n)
  <2>1. ~Budget!Succeeded(b)
      BY <1>2, <1>3, BudgetSucceeds
  <2>2. b # Unmapped
      BY <1>3
  <2> QED
      BY <1>10, <1>11, <1>12, <1>13, <1>14, <2>1, <2>2
         DEF Budget!Spend, Budget!Numbers, BOwner, BSpent, BFailed, BResults
<1> QED
    BY <1>15 DEF Budget!Next, Budget!Numbers

LEMMA SettlementFails ==
  ASSUME IInv, IInv', NEW t \in TaskIds, Settles(t)
  PROVE  Budget!Next
<1>1. PICK n \in 1..2 : n = Used(t)
    BY RowTypes DEF Settles, InFlight, IInv, Counted, AttemptsPerGeneration
<1>2. PICK b : b = tasks[t].budget
    OBVIOUS
<1>3. /\ b \in Fingerprints /\ b # Unmapped
      /\ n \in 1..Used(t) /\ Unsettled(t, n) /\ UNCHANGED <<tasks, successes>>
    BY <1>1, <1>2, MappingAssumption
       DEF Settles, InFlight, Unsettled, LastRow, IInv, Owned
<1>4. <<t, n>> \in Budget!Pending(b)
    BY <1>2, <1>3, BudgetPending
<1>5. \A u \in TaskIds : RowsKept(u) /\ Used(u)' = Used(u) /\ Used(u) \in Nat
    BY SettlesRows, RowTypes DEF IInv
<1>6. BOwner' = BOwner /\ BSpent' = BSpent /\ BResults' = BResults /\ BOwner[t] = b
    BY <1>2, <1>3, <1>5 DEF BOwner, BSpent, BResults
<1>7. attempts'[t][n].kind # "none"
  <2>1. PICK k \in Kinds \ {"none"}, o \in {"executor", "exception", "recovery"},
             x \in Candidates \cup {NoCandidate} :
          /\ InFlight(t) /\ now >= LastRow(t).claimed
          /\ o = "recovery" => k = "outcome_unknown" /\ now >= LastRow(t).expires
          /\ attempts' = [attempts EXCEPT ![t] = Settle(attempts[t], k, o, x)]
      BY DEF Settles
  <2>2. PICK rows : rows = Settle(attempts[t], k, o, x)
      OBVIOUS
  <2>3. rows[Used(t)].kind = k
      BY <2>1, <2>2, SettledRows
  <2>4. attempts'[t] = rows
      BY <2>1, <2>2 DEF IInv, TypeOK
  <2> QED
      BY <1>1, <2>3, <2>4
<1>8. ASSUME NEW u \in TaskIds, NEW m \in 1..Used(u), u # t \/ m # n
      PROVE  attempts'[u][m] = attempts[u][m]
  <2>1. CASE u # t
      BY <2>1 DEF Settles, IInv, TypeOK
  <2>2. CASE u = t
      BY <1>1, <1>5, <1>8, <2>2 DEF RowsKept, Kept, Failing, Renewing
  <2> QED
      BY <2>1, <2>2
<1>9. BFailed' = BFailed \cup {<<t, n>>}
  <2>1. ASSUME NEW x \in TaskIds \X (1..2)
        PROVE  (x[2] <= Used(x[1])' /\ attempts'[x[1]][x[2]].kind # "none")
                 <=> (x[2] <= Used(x[1]) /\ attempts[x[1]][x[2]].kind # "none")
                     \/ x = <<t, n>>
    <3>1. PICK u \in TaskIds, m \in 1..2 : x = <<u, m>> /\ x[1] = u /\ x[2] = m
        OBVIOUS
    <3>2. CASE u = t /\ m = n
        BY <1>1, <1>5, <1>7, <3>1, <3>2
    <3>3. CASE u # t \/ m # n
        BY <1>5, <1>8, <3>1, <3>3
    <3> QED
        BY <3>2, <3>3
  <2>2. <<t, n>> \in TaskIds \X (1..2)
      OBVIOUS
  <2> QED
      BY <2>1, <2>2 DEF BFailed
<1>10. Budget!Fail(<<t, n>>)
    BY <1>3, <1>4, <1>6, <1>9 DEF Budget!Fail, BOwner, BSpent, BFailed, BResults
<1>11. <<t, n>> \in Budget!Attempts
    BY DEF Budget!Attempts, Budget!Numbers
<1> QED
    BY <1>10, <1>11 DEF Budget!Next

LEMMA AcceptanceAccepts ==
  ASSUME IInv, NEW c \in Callers, SubmitAccepted(c)
  PROVE  Budget!Next
<1>0. PICK t \in TaskIds, n \in 1..2, x \in Candidates :
        t = callers[c].task /\ n = callers[c].attempt /\ x = callers[c].candidate
    BY CallerTypes DEF SubmitAccepted, IInv, Holding, HeldAs, AttemptsPerGeneration
<1>1. PICK b : b = tasks[t].budget
    OBVIOUS
<1>2. PICK new : new = [budget |-> b, task |-> t, attempt |-> n, artifact |-> x, settled |-> now]
    OBVIOUS
<1>3. /\ n = Used(t) /\ InFlight(t) /\ ~HasSuccess(b)
      /\ successes' = successes \cup {new} /\ UNCHANGED <<tasks, attempts>>
    BY <1>0, <1>1, <1>2 DEF SubmitAccepted, Owns
<1>4. b \in Fingerprints /\ b # Unmapped /\ n \in 1..Used(t) /\ Unsettled(t, n)
    BY <1>1, <1>3, MappingAssumption DEF InFlight, Unsettled, LastRow, IInv, Owned
<1>5. ~Budget!Succeeded(b)
    BY <1>3, <1>4, BudgetSucceeds
<1>6. Budget!Pending(b) = {<<t, n>>}
  <2>1. Budget!Pending(b) \subseteq TaskIds \X (1..2)
      BY DEF Budget!Pending
  <2>2. <<t, n>> \in Budget!Pending(b)
      BY <1>1, <1>4, BudgetPending
  <2>3. \A u \in TaskIds : \A m \in 1..Used(u) :
          tasks[u].budget = b /\ Unsettled(u, m) => m = Used(u) /\ IsLatest(u)
    <3>1. \A u \in TaskIds : tasks[u].budget = b => u \in Registered
        BY <1>4 DEF Registered, Unused
    <3> QED
        BY <3>1, InvOneInFlight DEF OneAttemptInFlight
  <2>4. ASSUME NEW y \in Budget!Pending(b) PROVE y = <<t, n>>
    <3>1. PICK u \in TaskIds, m \in 1..2 : y = <<u, m>>
        BY <2>1
    <3>2. m \in 1..Used(u) /\ Unsettled(u, m) /\ tasks[u].budget = b
        BY <1>4, <2>4, <3>1, BudgetPending
    <3>3. m = Used(u) /\ IsLatest(u) /\ IsLatest(t)
        BY <1>1, <1>4, <2>3, <3>2
    <3>4. tasks[u].generation = tasks[t].generation
      <4>1. tasks[u].generation \in Nat /\ tasks[t].generation \in Nat
          BY RowTypes DEF IInv, Task
      <4> QED
          BY <1>1, <3>2, <3>3, <4>1 DEF IsLatest, TasksOf
    <3>5. u = t
        BY <1>1, <1>4, <3>2, <3>4 DEF IInv, DistinctGenerations, SameBudget
    <3> QED
        BY <1>3, <3>1, <3>3, <3>5
  <2> QED
      BY <2>2, <2>4
<1>7. BOwner' = BOwner /\ BSpent' = BSpent /\ BFailed' = BFailed /\ BOwner[t] = b
    BY <1>1, <1>3 DEF BOwner, BSpent, BFailed, Used
<1>8. BResults' = BResults \cup {[attempt |-> <<t, n>>, value |-> x]}
  <2> DEFINE result(s) == [attempt |-> <<s.task, s.attempt>>, value |-> s.artifact]
  <2>1. BResults = {result(s) : s \in successes} /\ BResults' = {result(s) : s \in successes'}
      BY DEF BResults
  <2>2. result(new) = [attempt |-> <<t, n>>, value |-> x]
      BY <1>2
  <2> HIDE DEF result
  <2> QED
      BY <1>3, <2>1, <2>2
<1>9. Budget!AcceptResult(<<t, n>>, x)
    BY <1>4, <1>5, <1>6, <1>7, <1>8
       DEF Budget!AcceptResult, BOwner, BSpent, BFailed, BResults
<1>10. <<t, n>> \in Budget!Attempts
    BY DEF Budget!Attempts, Budget!Numbers
<1> QED
    BY <1>9, <1>10 DEF Budget!Next

\* Every step of the service is a step of the budget, or one it does not see.
LEMMA BudgetStep == AInv /\ [Next]_vars => [Budget!Next]_(Budget!vars)
<1> SUFFICES ASSUME AInv, [Next]_vars
             PROVE  Budget!Next \/ UNCHANGED Budget!vars
    OBVIOUS
<1>0. IInv /\ RowsSound /\ IInv'
    BY NextInvariant DEF AInv
<1>1. CASE Quiet
    BY <1>0, <1>1, BudgetSeesNothing DEF Quiet, Used
<1>2. ASSUME NEW c \in Callers, Renew(c) PROVE UNCHANGED Budget!vars
  <2>1. ASSUME NEW u \in TaskIds
        PROVE  RowsKept(u) /\ Used(u)' = Used(u)
      BY <1>0, <1>2, RenewRows
  <2>2. UNCHANGED <<tasks, successes>>
      BY <1>2 DEF Renew
  <2>3. ASSUME NEW u \in TaskIds, NEW n \in 1..Used(u)
        PROVE  attempts'[u][n].kind = "none" <=> attempts[u][n].kind = "none"
    <3>1. ~Failing(u, n)
      <4>1. CASE u # callers[c].task
          BY <1>0, <1>2, <4>1 DEF Renew, Failing, InFlight, LastRow, IInv, TypeOK
      <4>2. CASE u = callers[c].task
        <5> DEFINE row == [attempts[u][Used(u)] EXCEPT !.expires = now + Lease]
        <5>1. attempts[u] \in Seq(Attempt) /\ Used(u) \in Nat
              /\ \A m \in 1..Used(u) : attempts[u][m] \in Attempt
            BY <1>0, RowTypes DEF IInv
        <5>2. attempts'[u] = [attempts[u] EXCEPT ![Used(u)] = row]
            BY <1>0, <1>2, <4>2 DEF Renew, Renewed, IInv, TypeOK
        <5>3. row.kind = attempts[u][Used(u)].kind
            OBVIOUS
        <5> HIDE DEF row
        <5>4. attempts'[u][n].kind = attempts[u][n].kind
            BY <5>1, <5>2, <5>3
        <5> QED
            BY <5>4 DEF Failing, InFlight, LastRow
      <4> QED
          BY <4>1, <4>2
    <3> QED
        BY <2>1, <3>1 DEF RowsKept, Kept, Renewing
  <2> QED
      BY <1>0, <2>1, <2>2, <2>3, BudgetSeesNothing
<1> QED
    BY <1>0, <1>1, <1>2, Effects, SettlementFails, ClaimSpends, AcceptanceAccepts,
       RegistrationOpens, RetryOpens

\* The Screening service implements the attempt budget it shares with Read: each of
\* its transactions is one step of the budget, or invisible.
THEOREM BudgetImplemented == Spec => ImplementsBudget
<1>1. Init => Budget!Init
  <2> SUFFICES ASSUME Init PROVE Budget!Init
      OBVIOUS
  <2>1. \A t \in TaskIds : Used(t) = 0 /\ tasks[t].budget = Unmapped
      BY EmptySeq DEF Init, Used, Unused
  <2>2. BOwner = [t \in TaskIds |-> Unmapped]
      BY <2>1 DEF BOwner
  <2>3. \A a \in TaskIds \X (1..2) : ~(a[2] <= Used(a[1]))
      BY <2>1
  <2>4. BSpent = {} /\ BFailed = {} /\ BResults = {}
      BY <2>3 DEF BSpent, BFailed, BResults, Init
  <2> QED
      BY <2>2, <2>4 DEF Budget!Init, BOwner, BSpent, BFailed, BResults
<1> QED
    BY <1>1, ArchiveInvariant, BudgetStep, PTL DEF Spec, ImplementsBudget, Budget!Spec
=============================================================================
