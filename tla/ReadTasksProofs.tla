---------------------------- MODULE ReadTasksProofs ----------------------------
(***************************************************************************)
(* Proofs about the Read task service, for any number of callers, tasks,   *)
(* requests, fingerprints and candidates, any lease and any clock.         *)
(*                                                                         *)
(* The properties of ReadTasks are not inductive.  IInv adds what the      *)
(* transactions rely on without looking at it: only the last attempt of a  *)
(* task can be unsettled or accepted, the generations of a budget are      *)
(* distinct, every generation but the latest is used up and failed, an     *)
(* analysis and an accepted row stand for each other, and a handle names   *)
(* an attempt that was granted.                                            *)
(***************************************************************************)
EXTENDS ReadTasks, SequenceTheorems, TLAPS

-------------------------------------------------------------------------------
(* The inductive invariant *)

HasFailed(row) == row.outcome \notin {"none", "accepted"}

\* A second attempt is granted only after the first has failed.
Counted ==
  \A t \in TaskIds :
    /\ Used(t) <= AttemptsPerGeneration
    /\ \A n \in 1..Used(t) : n < Used(t) => HasFailed(attempts[t][n])

\* What is not registered is blank; what is, has a budget and a generation.
TasksMade ==
  \A t \in TaskIds :
    IF tasks[t].budget = NoFingerprint
      THEN tasks[t] = Unused /\ attempts[t] = <<>>
      ELSE tasks[t].generation >= 1

\* The first generation has no parent, any other the one before it.
ParentsPrecede ==
  \A t \in TaskIds :
    tasks[t].budget # NoFingerprint =>
      IF tasks[t].generation = 1 THEN tasks[t].parent = NoTask
      ELSE /\ tasks[t].parent \in TaskIds
           /\ tasks[tasks[t].parent].budget = tasks[t].budget
           /\ tasks[tasks[t].parent].generation + 1 = tasks[t].generation

SameBudget(t, u) ==
  tasks[t].budget = tasks[u].budget /\ tasks[t].budget # NoFingerprint

DistinctGenerations ==
  \A t, u \in TaskIds :
    SameBudget(t, u) /\ tasks[t].generation = tasks[u].generation => t = u

UsedUp(t) ==
  /\ Used(t) = AttemptsPerGeneration
  /\ \A n \in 1..Used(t) : HasFailed(attempts[t][n])

OlderUsedUp ==
  \A t, u \in TaskIds :
    SameBudget(t, u) /\ tasks[t].generation < tasks[u].generation => UsedUp(t)

\* An analysis and the accepted last attempt of its task stand for each other.
AnalysesRecorded ==
  /\ \A a \in analyses :
       /\ Used(a.task) > 0 /\ a.ordinal = Used(a.task)
       /\ LastRow(a.task).outcome = "accepted"
       /\ LastRow(a.task).settled = a.settled
       /\ a.artifact \in artifacts /\ Accepts(a.artifact, a.ordinal)
       /\ \A d \in analyses : d.task = a.task => d = a
  /\ \A t \in TaskIds : \A n \in 1..Used(t) :
       attempts[t][n].outcome = "accepted" => Succeeded(t)

\* What a caller has in hand: a granted attempt, a candidate once it submits, and
\* the published artifact after that.
Granted(h) ==
  /\ h.ordinal <= Used(h.task)
  /\ h.op \in {"submitting", "published"} => h.candidate \in Candidates
  /\ h.op = "published" =>
       h.candidate \in artifacts /\ Accepts(h.candidate, h.ordinal)
HandlesGranted ==
  \A c \in Callers :
    callers[c].op \in {"holding", "submitting", "published"} => Granted(callers[c])

\* A request names a registered task, and every registered task a request.
RequestsMatch ==
  /\ \A i \in RequestIds :
       requests[i] # NoRequest => tasks[requests[i].task].budget # NoFingerprint
  /\ \A i \in RequestIds : ValidRegistration(i)
  /\ \A t \in TaskIds :
       tasks[t].budget # NoFingerprint =>
         \E i \in RequestIds : requests[i] # NoRequest /\ requests[i].task = t

IInv ==
  /\ TypeOK
  /\ Counted
  /\ TasksMade
  /\ ParentsPrecede
  /\ DistinctGenerations
  /\ OlderUsedUp
  /\ AnalysesRecorded
  /\ HandlesGranted
  /\ RequestsMatch

-------------------------------------------------------------------------------
(* Types of handles and rows *)

LEMMA CallerTypes ==
  ASSUME TypeOK, NEW c \in Callers,
         callers[c].op \in {"holding", "submitting", "published"}
  PROVE  /\ callers[c] \in Handle
         /\ callers[c].task \in TaskIds /\ callers[c].ordinal \in 1..2
         /\ callers[c].candidate \in Candidates \cup {NoCandidate}
BY DEF TypeOK, Idle, Failed, Handle, AttemptsPerGeneration

LEMMA RowTypes ==
  ASSUME TypeOK, NEW t \in TaskIds
  PROVE  /\ attempts[t] \in Seq(Attempt) /\ Used(t) \in Nat
         /\ \A n \in 1..Used(t) :
              /\ attempts[t][n] \in Attempt
              /\ attempts[t][n].claimed \in Int /\ attempts[t][n].settled \in Int
              /\ attempts[t][n].renewals \in Seq(Int)
              /\ attempts[t][n].outcome \in Outcomes
         /\ tasks[t] \in Task /\ tasks[t].generation \in Nat
<1>1. /\ attempts[t] \in Seq(Attempt) /\ Used(t) \in Nat
      /\ \A n \in 1..Used(t) : attempts[t][n] \in Attempt
      /\ tasks[t] \in Task
    BY ElementOfSeq, LenProperties DEF TypeOK, Used
<1> QED
    BY <1>1 DEF Attempt, Task

LEMMA AnalysisTypes ==
  ASSUME TypeOK, NEW a \in analyses
  PROVE  a.task \in TaskIds /\ a.ordinal \in 1..2 /\ a.artifact \in Candidates
BY DEF TypeOK, Analysis, AttemptsPerGeneration

\* The last moment a lease was renewed is a time.
LEMMA RenewedTypes ==
  ASSUME NEW row \in Attempt
  PROVE  LastRenewed(row) \in Int /\ Deadline(row) = LastRenewed(row) + Lease
<1>1. row.claimed \in Int /\ row.renewals \in Seq(Int)
    BY DEF Attempt
<1>2. row.renewals # <<>> => row.renewals[Len(row.renewals)] \in Int
    BY <1>1, EmptySeq, ElementOfSeq
<1> QED
    BY <1>1, <1>2 DEF LastRenewed, Deadline

LEMMA LaterIsTime ==
  ASSUME TypeOK, NEW at \in LaterReading
  PROVE  at \in 0..MaxTime /\ at >= now /\ (Drift = 0 => at = now)
BY NumberAssumption DEF TypeOK, LaterReading

-------------------------------------------------------------------------------
(* Consequences of the invariant for one attempt *)

\* An unsettled attempt is the last of its task, and its generation the latest.
LEMMA UnsettledIsLast ==
  ASSUME IInv, NEW t \in TaskIds, NEW n \in 1..Used(t),
         attempts[t][n].outcome \in {"none", "accepted"}
  PROVE  /\ n = Used(t) /\ Used(t) > 0 /\ ~UsedUp(t)
         /\ tasks[t].budget # NoFingerprint
         /\ \A u \in TaskIds : SameBudget(t, u) /\ u # t =>
              UsedUp(u) /\ tasks[u].generation < tasks[t].generation
<1>1. Used(t) \in Nat
    BY RowTypes DEF IInv
<1>2. n = Used(t) /\ Used(t) > 0 /\ ~UsedUp(t)
    BY <1>1 DEF IInv, Counted, HasFailed, UsedUp
<1>3. tasks[t].budget # NoFingerprint
    BY <1>2, EmptySeq DEF IInv, TasksMade, Used
<1>4. ASSUME NEW u \in TaskIds, SameBudget(t, u), u # t
      PROVE  UsedUp(u) /\ tasks[u].generation < tasks[t].generation
  <2>1. SameBudget(u, t) /\ tasks[t].generation \in Nat /\ tasks[u].generation \in Nat
      BY <1>4, RowTypes DEF IInv, SameBudget
  <2>2. tasks[t].generation # tasks[u].generation
      BY <1>4 DEF IInv, DistinctGenerations
  <2>3. ~(tasks[t].generation < tasks[u].generation)
      BY <1>2, <1>4 DEF IInv, OlderUsedUp
  <2> QED
      BY <2>1, <2>2, <2>3 DEF IInv, OlderUsedUp
<1> QED
    BY <1>2, <1>3, <1>4

\* The task of an analysis has no other generation with an analysis.
LEMMA SuccessIsLast ==
  ASSUME IInv, NEW a \in analyses
  PROVE  /\ a.task \in TaskIds /\ a.ordinal = Used(a.task)
         /\ a.ordinal \in 1..Used(a.task)
         /\ attempts[a.task][a.ordinal].outcome = "accepted"
         /\ \A u \in TaskIds : SameBudget(a.task, u) /\ u # a.task =>
              UsedUp(u) /\ tasks[u].generation < tasks[a.task].generation
<1>1. /\ a.task \in TaskIds /\ a.ordinal \in 1..2
      /\ a.ordinal = Used(a.task) /\ LastRow(a.task).outcome = "accepted"
    BY AnalysisTypes DEF IInv, AnalysesRecorded
<1>2. a.ordinal \in 1..Used(a.task)
    BY <1>1
<1>3. attempts[a.task][a.ordinal].outcome = "accepted"
    BY <1>1 DEF LastRow
<1> QED
    BY <1>1, <1>2, <1>3, UnsettledIsLast

\* A task that can still be given an attempt is the latest of its budget, and the
\* others are used up.
LEMMA ReadyIsLatest ==
  ASSUME IInv, NEW t \in TaskIds, t \in Registered, Status(t) = "ready"
  PROVE  /\ Used(t) \in {0, 1} /\ ~Succeeded(t)
         /\ \A n \in 1..Used(t) : HasFailed(attempts[t][n])
         /\ tasks[t].budget # NoFingerprint
         /\ \A u \in TaskIds : SameBudget(t, u) /\ u # t => UsedUp(u)
<1>1. Used(t) \in Nat /\ Used(t) <= 2
    BY RowTypes DEF IInv, Counted, AttemptsPerGeneration
<1>2. ~Succeeded(t) /\ ~Running(t) /\ Used(t) # 2
    BY DEF Status, AttemptsPerGeneration
<1>3. \A n \in 1..Used(t) : HasFailed(attempts[t][n])
    BY <1>2 DEF Running, HasFailed, IInv, AnalysesRecorded
<1>4. tasks[t].budget # NoFingerprint
    BY DEF Registered, IInv, TasksMade
<1>5. ASSUME NEW u \in TaskIds, SameBudget(t, u), u # t PROVE UsedUp(u)
  <2>1. ~UsedUp(t)
      BY <1>2 DEF UsedUp, AttemptsPerGeneration
  <2>2. SameBudget(u, t) /\ tasks[t].generation \in Nat /\ tasks[u].generation \in Nat
      BY <1>5, RowTypes DEF IInv, SameBudget
  <2>3. tasks[t].generation # tasks[u].generation
      BY <1>5 DEF IInv, DistinctGenerations
  <2>4. ~(tasks[t].generation < tasks[u].generation)
      BY <1>5, <2>1 DEF IInv, OlderUsedUp
  <2> QED
      BY <2>2, <2>3, <2>4 DEF IInv, OlderUsedUp
<1> QED
    BY <1>1, <1>2, <1>3, <1>4, <1>5

\* A task that may be retried is the latest of its budget, and all are used up.
LEMMA RetriedIsUsedUp ==
  ASSUME IInv, NEW p \in TaskIds, p \in Registered, MayRetry(p)
  PROVE  /\ tasks[p].budget # NoFingerprint /\ ~Succeeded(p)
         /\ \A u \in TaskIds : SameBudget(p, u) =>
              UsedUp(u) /\ tasks[u].generation <= tasks[p].generation
<1>1. Used(p) \in Nat /\ tasks[p].generation \in Nat
    BY RowTypes DEF IInv
<1>2. ~Succeeded(p) /\ ~Running(p) /\ Used(p) = 2
    BY DEF MayRetry, Status, AttemptsPerGeneration
<1>3. tasks[p].budget # NoFingerprint
    BY DEF Registered, IInv, TasksMade
<1>4. UsedUp(p)
    BY <1>2 DEF UsedUp, Running, HasFailed, AttemptsPerGeneration, IInv, AnalysesRecorded
<1>5. ASSUME NEW u \in TaskIds, SameBudget(p, u)
      PROVE  UsedUp(u) /\ tasks[u].generation <= tasks[p].generation
  <2>1. tasks[u].generation <= tasks[p].generation
      BY <1>5 DEF MayRetry, IsLatest, TasksOf, SameBudget
  <2>2. SameBudget(u, p) /\ tasks[u].generation \in Nat
      BY <1>5, RowTypes DEF IInv, SameBudget
  <2>3. tasks[u].generation = tasks[p].generation => u = p
      BY <1>5 DEF IInv, DistinctGenerations
  <2> QED
      BY <1>1, <1>4, <2>1, <2>2, <2>3 DEF IInv, OlderUsedUp
<1> QED
    BY <1>2, <1>3, <1>5

-------------------------------------------------------------------------------
(* Steps that preserve the invariant *)

\* Every caller keeps its handle, goes on holding its attempt, or drops it.
CallersKept ==
  /\ callers' \in [Callers -> {Idle, Failed} \cup Handle]
  /\ \A c \in Callers :
       \/ callers'[c] = callers[c]
       \/ callers'[c].op \in {"idle", "database_failed"}
       \/ /\ callers[c].op \in {"submitting", "published"}
          /\ callers'[c].op = "holding"
          /\ callers'[c].task = callers[c].task
          /\ callers'[c].ordinal = callers[c].ordinal

LEMMA KeptAreGranted ==
  ASSUME IInv, CallersKept, artifacts \subseteq artifacts',
         \A t \in TaskIds : Used(t)' \in Nat /\ Used(t)' >= Used(t)
  PROVE  HandlesGranted'
<1> SUFFICES ASSUME NEW c \in Callers,
                    callers'[c].op \in {"holding", "submitting", "published"}
             PROVE  Granted(callers[c])'
    BY DEF HandlesGranted
<1>1. CASE callers'[c] = callers[c]
  <2>1. /\ callers[c].task \in TaskIds /\ callers[c].ordinal \in 1..2
        /\ Granted(callers[c])
      BY <1>1, CallerTypes DEF IInv, HandlesGranted
  <2>2. Used(callers[c].task) \in Nat
      BY <2>1, RowTypes DEF IInv
  <2> QED
      BY <1>1, <2>1, <2>2 DEF Granted, Used
<1>2. CASE /\ callers[c].op \in {"submitting", "published"}
           /\ callers'[c].op = "holding"
           /\ callers'[c].task = callers[c].task
           /\ callers'[c].ordinal = callers[c].ordinal
  <2>1. /\ callers[c].task \in TaskIds /\ callers[c].ordinal \in 1..2
        /\ Granted(callers[c])
      BY <1>2, CallerTypes DEF IInv, HandlesGranted
  <2>2. Used(callers[c].task) \in Nat
      BY <2>1, RowTypes DEF IInv
  <2> QED
      BY <1>2, <2>1, <2>2 DEF Granted, Used
<1> QED
    BY <1>1, <1>2 DEF CallersKept

\* Steps that move the clock, the paper's facts, publications or callers only.
LEMMA ArchiveUnchanged ==
  ASSUME IInv, TypeOK', HandlesGranted', artifacts \subseteq artifacts',
         UNCHANGED <<tasks, requests, attempts, analyses>>
  PROVE  IInv'
<1>1. Counted' /\ TasksMade' /\ ParentsPrecede' /\ DistinctGenerations' /\ OlderUsedUp'
    BY DEF IInv, Counted, TasksMade, ParentsPrecede, DistinctGenerations, OlderUsedUp,
       SameBudget, UsedUp, Used
<1>2. AnalysesRecorded'
    BY DEF IInv, AnalysesRecorded, Used, LastRow, Succeeded
<1>3. RequestsMatch'
    BY DEF IInv, RequestsMatch, ValidRegistration
<1> QED
    BY <1>1, <1>2, <1>3 DEF IInv

LEMMA EnvironmentPreserves ==
  ASSUME IInv, FactsChange \/ Tick \/ ClockSetBack \/ UNCHANGED vars
  PROVE  IInv'
<1>1. UNCHANGED <<tasks, requests, attempts, analyses, artifacts, callers>>
    BY DEF FactsChange, Tick, ClockSetBack, vars
<1>2. now' \in 0..MaxTime /\ admitted' \subseteq Fingerprints
    BY NumberAssumption DEF FactsChange, Tick, ClockSetBack, vars, IInv, TypeOK
<1>3. TypeOK'
    BY <1>1, <1>2 DEF IInv, TypeOK
<1>4. HandlesGranted'
    BY <1>1 DEF IInv, HandlesGranted, Granted, Used
<1> QED
    BY <1>1, <1>3, <1>4, ArchiveUnchanged

\* One caller drops its handle, or gives up a submission.
LEMMA DoneHolds ==
  ASSUME TypeOK, NEW c \in Callers, callers[c].op \in {"submitting", "published"}
  PROVE  /\ Done(c) \in Handle /\ Done(c).op = "holding"
         /\ Done(c).task = callers[c].task /\ Done(c).ordinal = callers[c].ordinal
BY CallerTypes DEF Done, Handle

LEMMA OneCallerKept ==
  ASSUME TypeOK, NEW c \in Callers, NEW h, callers' = [callers EXCEPT ![c] = h],
         \/ h \in {Idle, Failed}
         \/ callers[c].op \in {"submitting", "published"} /\ h = Done(c)
  PROVE  CallersKept
<1>1. h \in {Idle, Failed} \cup Handle
    BY DoneHolds
<1>2. \/ h.op \in {"idle", "database_failed"}
      \/ /\ callers[c].op \in {"submitting", "published"} /\ h.op = "holding"
         /\ h.task = callers[c].task /\ h.ordinal = callers[c].ordinal
    BY DoneHolds DEF Idle, Failed
<1> QED
    BY <1>1, <1>2 DEF TypeOK, CallersKept

LEMMA DroppedPreserves ==
  ASSUME IInv, NEW c \in Callers,
         \/ Leave(c) \/ SubmitRefused(c)
         \/ \E i \in RequestIds, b \in Fingerprints : RegisterFails(c, i, b)
  PROVE  IInv'
<1>1. UNCHANGED <<now, admitted, tasks, requests, attempts, analyses, artifacts>>
    BY DEF Leave, SubmitRefused, RegisterFails
<1>2. \E h : /\ callers' = [callers EXCEPT ![c] = h]
             /\ \/ h \in {Idle, Failed}
                \/ callers[c].op \in {"submitting", "published"} /\ h = Done(c)
    BY DEF Leave, SubmitRefused, RegisterFails
<1>3. CallersKept
    BY <1>2, OneCallerKept DEF IInv
<1>4. \A t \in TaskIds : Used(t)' \in Nat /\ Used(t)' >= Used(t)
    BY <1>1, RowTypes DEF IInv, Used
<1>5. HandlesGranted'
    BY <1>1, <1>3, <1>4, KeptAreGranted
<1>6. TypeOK'
    BY <1>1, <1>3 DEF IInv, TypeOK, CallersKept
<1> QED
    BY <1>1, <1>5, <1>6, ArchiveUnchanged

\* The ownership checks of submit, and the publication of what was accepted.
LEMMA SubmissionPreserves ==
  ASSUME IInv, NEW c \in Callers,
         (\E x \in Candidates : SubmitStarted(c, x)) \/ Publish(c)
  PROVE  IInv'
<1>1. /\ UNCHANGED <<now, admitted, tasks, requests, attempts, analyses>>
      /\ callers[c].op \in {"holding", "submitting"}
      /\ artifacts \subseteq artifacts'
    BY DEF SubmitStarted, Publish
<1>2. callers[c] \in Handle /\ Granted(callers[c])
    BY <1>1, CallerTypes DEF IInv, HandlesGranted
<1>3. PICK h \in Handle :
        /\ callers' = [callers EXCEPT ![c] = h]
        /\ h.op \in {"submitting", "published"}
        /\ h.task = callers[c].task /\ h.ordinal = callers[c].ordinal
        /\ h.candidate \in Candidates
        /\ h.op = "published" => h.candidate \in artifacts' /\ Accepts(h.candidate, h.ordinal)
        /\ artifacts' \subseteq Candidates
  <2>1. ASSUME NEW x \in Candidates, SubmitStarted(c, x)
        PROVE  \E h \in Handle :
                 /\ callers' = [callers EXCEPT ![c] = h]
                 /\ h.op \in {"submitting", "published"}
                 /\ h.task = callers[c].task /\ h.ordinal = callers[c].ordinal
                 /\ h.candidate \in Candidates
                 /\ h.op = "published" =>
                      h.candidate \in artifacts' /\ Accepts(h.candidate, h.ordinal)
                 /\ artifacts' \subseteq Candidates
    <3> DEFINE h == [callers[c] EXCEPT !.op = "submitting", !.candidate = x]
    <3>1. h \in Handle /\ h.op = "submitting" /\ h.task = callers[c].task
          /\ h.ordinal = callers[c].ordinal /\ h.candidate = x
        BY <1>2 DEF Handle
    <3> QED
        BY <2>1, <3>1 DEF SubmitStarted, IInv, TypeOK
  <2>2. ASSUME Publish(c)
        PROVE  \E h \in Handle :
                 /\ callers' = [callers EXCEPT ![c] = h]
                 /\ h.op \in {"submitting", "published"}
                 /\ h.task = callers[c].task /\ h.ordinal = callers[c].ordinal
                 /\ h.candidate \in Candidates
                 /\ h.op = "published" =>
                      h.candidate \in artifacts' /\ Accepts(h.candidate, h.ordinal)
                 /\ artifacts' \subseteq Candidates
    <3> DEFINE h == [callers[c] EXCEPT !.op = "published"]
    <3>1. callers[c].candidate \in Candidates
        BY <1>2, <2>2 DEF Publish, Granted
    <3>2. h \in Handle /\ h.op = "published" /\ h.task = callers[c].task
          /\ h.ordinal = callers[c].ordinal /\ h.candidate = callers[c].candidate
        BY <1>2 DEF Handle
    <3>3. /\ callers' = [callers EXCEPT ![c] = h]
          /\ artifacts' = artifacts \cup {callers[c].candidate}
          /\ Accepts(callers[c].candidate, callers[c].ordinal)
          /\ artifacts \subseteq Candidates
        BY <2>2 DEF Publish, Acceptable, IInv, TypeOK
    <3> HIDE DEF h
    <3> QED
        BY <3>1, <3>2, <3>3
  <2> QED
      BY <2>1, <2>2
<1>4. TypeOK'
    BY <1>1, <1>3 DEF IInv, TypeOK
<1>5. HandlesGranted'
  <2> SUFFICES ASSUME NEW d \in Callers,
                      callers'[d].op \in {"holding", "submitting", "published"}
               PROVE  Granted(callers[d])'
      BY DEF HandlesGranted
  <2>1. CASE d = c
      BY <1>1, <1>2, <1>3, <2>1 DEF IInv, TypeOK, Granted, Used
  <2>2. CASE d # c
      BY <1>1, <1>3, <2>2 DEF IInv, TypeOK, HandlesGranted, Granted, Used
  <2> QED
      BY <2>1, <2>2
<1> QED
    BY <1>1, <1>4, <1>5, ArchiveUnchanged

\* Rows are rewritten in place: none is added, and a settled one stays as it is.
RowsKept ==
  /\ attempts' \in [TaskIds -> Seq(Attempt)]
  /\ \A t \in TaskIds : Used(t)' = Used(t)
  /\ \A t \in TaskIds : \A n \in 1..Used(t) :
       attempts[t][n].outcome # "none" => attempts'[t][n] = attempts[t][n]

LEMMA RowRewritten ==
  ASSUME TypeOK, NEW t \in TaskIds, NEW n \in 1..Used(t), NEW row \in Attempt,
         attempts[t][n].outcome = "none",
         attempts' = [attempts EXCEPT ![t][n] = row]
  PROVE  /\ RowsKept /\ attempts'[t][n] = row
         /\ \A u \in TaskIds : \A m \in 1..Used(u) :
              u # t \/ m # n => attempts'[u][m] = attempts[u][m]
<1> DEFINE rows == [attempts[t] EXCEPT ![n] = row]
<1>1. attempts[t] \in Seq(Attempt) /\ n \in 1..Len(attempts[t])
    BY RowTypes DEF Used
<1>2. /\ rows \in Seq(Attempt) /\ Len(rows) = Used(t)
      /\ \A m \in 1..Used(t) : rows[m] = IF m = n THEN row ELSE attempts[t][m]
    BY <1>1, ExceptSeq DEF Used
<1>3. attempts' = [attempts EXCEPT ![t] = rows]
    OBVIOUS
<1> HIDE DEF rows
<1>4. /\ attempts' \in [TaskIds -> Seq(Attempt)] /\ attempts'[t] = rows
      /\ \A u \in TaskIds : u # t => attempts'[u] = attempts[u]
    BY <1>2, <1>3 DEF TypeOK
<1>5. \A u \in TaskIds : Used(u)' = Used(u)
    BY <1>2, <1>4 DEF Used
<1>6. attempts'[t][n] = row
      /\ \A u \in TaskIds : \A m \in 1..Used(u) :
           u # t \/ m # n => attempts'[u][m] = attempts[u][m]
    BY <1>2, <1>4
<1> QED
    BY <1>4, <1>5, <1>6 DEF RowsKept

\* The tasks and requests of a budget do not look at the rows, and what is used up
\* stays so.
LEMMA RegistryKept ==
  ASSUME IInv, RowsKept, UNCHANGED <<tasks, requests>>
  PROVE  Counted' /\ TasksMade' /\ ParentsPrecede' /\ DistinctGenerations'
         /\ OlderUsedUp' /\ RequestsMatch'
<1>1. \A t \in TaskIds : Used(t) \in Nat /\ Used(t)' = Used(t)
    BY RowTypes DEF IInv, RowsKept
<1>2. \A t \in TaskIds : \A n \in 1..Used(t) :
        HasFailed(attempts[t][n]) => HasFailed(attempts[t][n])'
    BY DEF RowsKept, HasFailed
<1>3. Counted'
    BY <1>1, <1>2 DEF IInv, Counted
<1>4. TasksMade'
  <2>1. \A t \in TaskIds : attempts[t] = <<>> => attempts'[t] = <<>>
      BY <1>1, EmptySeq DEF RowsKept, Used
  <2> QED
      BY <2>1 DEF IInv, TasksMade
<1>5. OlderUsedUp'
    BY <1>1, <1>2 DEF IInv, OlderUsedUp, SameBudget, UsedUp
<1>6. ParentsPrecede' /\ DistinctGenerations'
    BY DEF IInv, ParentsPrecede, DistinctGenerations, SameBudget
<1>7. RequestsMatch'
    BY DEF IInv, RequestsMatch, ValidRegistration
<1> QED
    BY <1>3, <1>4, <1>5, <1>6, <1>7

\* Rows are rewritten and none of them is accepted: a renewal, a failure, a recovery.
LEMMA RowsPreserve ==
  ASSUME IInv, RowsKept, CallersKept, now' \in 0..MaxTime,
         UNCHANGED <<admitted, tasks, requests, analyses, artifacts>>,
         \A t \in TaskIds : \A n \in 1..Used(t) :
           attempts[t][n].outcome = "none" => attempts'[t][n].outcome # "accepted"
  PROVE  IInv'
<1>1. \A t \in TaskIds : Used(t) \in Nat /\ Used(t)' = Used(t)
    BY RowTypes DEF IInv, RowsKept
<1>2. TypeOK'
    BY DEF IInv, TypeOK, RowsKept, CallersKept
<1>3. HandlesGranted'
    BY <1>1, KeptAreGranted
<1>4. AnalysesRecorded'
  <2>1. ASSUME NEW a \in analyses
        PROVE  /\ Used(a.task)' > 0 /\ a.ordinal = Used(a.task)'
               /\ LastRow(a.task)' = LastRow(a.task)
    <3>1. /\ a.task \in TaskIds /\ a.ordinal = Used(a.task)
          /\ a.ordinal \in 1..Used(a.task)
          /\ attempts[a.task][a.ordinal].outcome = "accepted"
        BY SuccessIsLast
    <3>2. attempts'[a.task][a.ordinal] = attempts[a.task][a.ordinal]
        BY <3>1 DEF RowsKept
    <3> QED
        BY <1>1, <3>1, <3>2 DEF LastRow
  <2>2. \A t \in TaskIds : \A n \in 1..Used(t) :
          attempts'[t][n].outcome = "accepted" => attempts[t][n].outcome = "accepted"
      BY DEF RowsKept
  <2>3. \A a \in analyses :
          /\ LastRow(a.task).outcome = "accepted" /\ LastRow(a.task).settled = a.settled
          /\ a.artifact \in artifacts /\ Accepts(a.artifact, a.ordinal)
          /\ \A d \in analyses : d.task = a.task => d = a
      BY DEF IInv, AnalysesRecorded
  <2>4. \A t \in TaskIds : \A n \in 1..Used(t) :
          attempts[t][n].outcome = "accepted" => Succeeded(t)
      BY DEF IInv, AnalysesRecorded
  <2>5. \A t \in TaskIds : Succeeded(t) => Succeeded(t)'
      BY DEF Succeeded
  <2> QED
      BY <1>1, <2>1, <2>2, <2>3, <2>4, <2>5 DEF AnalysesRecorded
<1> QED
    BY <1>2, <1>3, <1>4, RegistryKept DEF IInv

\* The row a holder owns.
LEMMA OwnedRow ==
  ASSUME IInv, NEW c \in Callers,
         callers[c].op \in {"holding", "submitting", "published"}
  PROVE  /\ callers[c].task \in TaskIds
         /\ callers[c].ordinal \in 1..Used(callers[c].task)
         /\ Row(c) = attempts[callers[c].task][callers[c].ordinal]
         /\ Row(c) \in Attempt
<1>1. /\ callers[c].task \in TaskIds /\ callers[c].ordinal \in 1..2
      /\ callers[c].ordinal <= Used(callers[c].task)
    BY CallerTypes DEF IInv, HandlesGranted, Granted
<1>2. Used(callers[c].task) \in Nat
    BY <1>1, RowTypes DEF IInv
<1>3. callers[c].ordinal \in 1..Used(callers[c].task)
    BY <1>1, <1>2
<1> QED
    BY <1>1, <1>3, RowTypes DEF IInv, Row

\* The holder's settlement rewrites its row.
LEMMA SettledRow ==
  ASSUME IInv, NEW c \in Callers, NEW at \in LaterReading, NEW o \in Outcomes,
         callers[c].op \in {"holding", "submitting", "published"},
         Owns(c), SettleAs(c, o, at)
  PROVE  LET t == callers[c].task
             n == callers[c].ordinal IN
         /\ RowsKept
         /\ attempts'[t][n] = [attempts[t][n] EXCEPT !.outcome = o, !.settled = at]
         /\ attempts'[t][n].outcome = o /\ attempts'[t][n].settled = at
         /\ attempts'[t][n].renewals = attempts[t][n].renewals
         /\ attempts'[t][n].claimed = attempts[t][n].claimed
         /\ \A u \in TaskIds : \A m \in 1..Used(u) :
              u # t \/ m # n => attempts'[u][m] = attempts[u][m]
<1> DEFINE t == callers[c].task
           n == callers[c].ordinal
           row == [attempts[t][n] EXCEPT !.outcome = o, !.settled = at]
<1>1. /\ t \in TaskIds /\ n \in 1..Used(t) /\ attempts[t][n] \in Attempt
      /\ attempts[t][n].outcome = "none"
    BY OwnedRow DEF Owns
<1>2. at \in Int
    BY LaterIsTime DEF IInv
<1>3. /\ row \in Attempt /\ row.outcome = o /\ row.settled = at
      /\ row.renewals = attempts[t][n].renewals /\ row.claimed = attempts[t][n].claimed
    BY <1>1, <1>2 DEF Attempt
<1>4. attempts' = [attempts EXCEPT ![t][n] = row]
    BY DEF SettleAs
<1> HIDE DEF row
<1>5. /\ RowsKept /\ attempts'[t][n] = row
      /\ \A u \in TaskIds : \A m \in 1..Used(u) :
           u # t \/ m # n => attempts'[u][m] = attempts[u][m]
    BY <1>1, <1>3, <1>4, RowRewritten DEF IInv
<1> QED
    BY <1>3, <1>5 DEF row

\* A renewal appends to the row of the holder.
LEMMA RenewedRow ==
  ASSUME IInv, NEW c \in Callers, Renew(c)
  PROVE  \E at \in LaterReading :
         LET t == callers[c].task
             n == callers[c].ordinal IN
         /\ now' = at /\ RowsKept
         /\ attempts'[t][n].renewals = Append(attempts[t][n].renewals, at)
         /\ attempts'[t][n].outcome = "none"
         /\ attempts'[t][n].claimed = attempts[t][n].claimed
         /\ attempts'[t][n].settled = attempts[t][n].settled
         /\ \A u \in TaskIds : \A m \in 1..Used(u) :
              u # t \/ m # n => attempts'[u][m] = attempts[u][m]
<1> DEFINE t == callers[c].task
           n == callers[c].ordinal
<1>0. PICK at \in LaterReading :
        /\ now' = at
        /\ attempts' = [attempts EXCEPT ![t][n] =
             [attempts[t][n] EXCEPT !.renewals = Append(attempts[t][n].renewals, at)]]
    BY DEF Renew, Row
<1> DEFINE row == [attempts[t][n] EXCEPT !.renewals = Append(attempts[t][n].renewals, at)]
<1>1. /\ t \in TaskIds /\ n \in 1..Used(t) /\ attempts[t][n] \in Attempt
      /\ attempts[t][n].outcome = "none"
    BY OwnedRow DEF Renew, Owns
<1>2. at \in Int
    BY LaterIsTime DEF IInv
<1>3. Append(attempts[t][n].renewals, at) \in Seq(Int)
    BY <1>1, <1>2, AppendProperties DEF Attempt
<1>4. /\ row \in Attempt /\ row.outcome = "none"
      /\ row.renewals = Append(attempts[t][n].renewals, at)
      /\ row.claimed = attempts[t][n].claimed
      /\ row.settled = attempts[t][n].settled
    BY <1>1, <1>3 DEF Attempt
<1>5. attempts' = [attempts EXCEPT ![t][n] = row]
    BY <1>0
<1> HIDE DEF row
<1>6. /\ RowsKept /\ attempts'[t][n] = row
      /\ \A u \in TaskIds : \A m \in 1..Used(u) :
           u # t \/ m # n => attempts'[u][m] = attempts[u][m]
    BY <1>1, <1>4, <1>5, RowRewritten DEF IInv
<1> QED
    BY <1>0, <1>4, <1>6

LEMMA SameCallersKept ==
  ASSUME TypeOK, UNCHANGED callers
  PROVE  CallersKept
BY DEF TypeOK, CallersKept

LEMMA RenewPreserves ==
  ASSUME IInv, NEW c \in Callers, Renew(c)
  PROVE  IInv'
<1> DEFINE t == callers[c].task
           n == callers[c].ordinal
<1>1. PICK at \in LaterReading :
        /\ now' = at /\ RowsKept /\ attempts'[t][n].outcome = "none"
        /\ \A u \in TaskIds : \A m \in 1..Used(u) :
             u # t \/ m # n => attempts'[u][m] = attempts[u][m]
    BY RenewedRow
<1>2. \A u \in TaskIds : \A m \in 1..Used(u) :
        attempts[u][m].outcome = "none" => attempts'[u][m].outcome # "accepted"
    BY <1>1
<1>3. UNCHANGED <<admitted, tasks, requests, analyses, artifacts, callers>>
    BY DEF Renew
<1>4. now' \in 0..MaxTime
    BY <1>1, LaterIsTime DEF IInv
<1> QED
    BY <1>1, <1>2, <1>3, <1>4, SameCallersKept, RowsPreserve DEF IInv

\* The holder settles its attempt as a failure of its own or as invalid output.
LEMMA FailurePreserves ==
  ASSUME IInv, NEW c \in Callers, (\E f \in Failures : Fail(c, f)) \/ SubmitInvalid(c)
  PROVE  IInv'
<1> DEFINE t == callers[c].task
           n == callers[c].ordinal
<1>1. /\ callers[c].op \in {"holding", "submitting", "published"} /\ Owns(c)
      /\ UNCHANGED <<admitted, tasks, requests, analyses, artifacts>>
    BY DEF Fail, SubmitInvalid
<1>2. PICK at \in LaterReading, o \in Outcomes :
        SettleAs(c, o, at) /\ now' = at /\ o \notin {"none", "accepted"}
    BY FailureAssumption DEF Fail, SubmitInvalid, Outcomes
<1>3. /\ RowsKept /\ attempts'[t][n].outcome = o
      /\ \A u \in TaskIds : \A m \in 1..Used(u) :
           u # t \/ m # n => attempts'[u][m] = attempts[u][m]
    BY <1>1, <1>2, SettledRow
<1>4. \A u \in TaskIds : \A m \in 1..Used(u) :
        attempts[u][m].outcome = "none" => attempts'[u][m].outcome # "accepted"
    BY <1>2, <1>3
<1>5. CallersKept
    BY SameCallersKept, OneCallerKept DEF Fail, SubmitInvalid, IInv
<1>6. now' \in 0..MaxTime
    BY <1>2, LaterIsTime DEF IInv
<1> QED
    BY <1>1, <1>3, <1>4, <1>5, <1>6, RowsPreserve

\* Reclaim settles the expired attempts and leaves the others alone.
LEMMA ReclaimedRows ==
  ASSUME IInv, NEW t \in TaskIds, Reclaim(t)
  PROVE  \E at \in LaterReading :
         /\ now' = at /\ RowsKept
         /\ \A u \in TaskIds : u # t => attempts'[u] = attempts[u]
         /\ \A n \in 1..Used(t) :
              /\ ~Expired(attempts[t][n]) => attempts'[t][n] = attempts[t][n]
              /\ Expired(attempts[t][n]) =>
                   /\ attempts'[t][n].outcome = "outcome_unknown"
                   /\ attempts'[t][n].settled = at
                   /\ attempts'[t][n].renewals = attempts[t][n].renewals
                   /\ attempts'[t][n].claimed = attempts[t][n].claimed
<1> DEFINE row(n, at) == IF Expired(attempts[t][n])
             THEN [attempts[t][n] EXCEPT !.outcome = "outcome_unknown", !.settled = at]
             ELSE attempts[t][n]
<1>0. PICK at \in LaterReading :
        /\ now' = at
        /\ attempts' = [attempts EXCEPT ![t] = [n \in 1..Used(t) |->
             IF Expired(attempts[t][n])
               THEN [attempts[t][n] EXCEPT !.outcome = "outcome_unknown", !.settled = at]
               ELSE attempts[t][n]]]
    BY DEF Reclaim
<1> DEFINE rows == [n \in 1..Used(t) |-> row(n, at)]
<1>1. TypeOK /\ Used(t) \in Nat /\ \A n \in 1..Used(t) : attempts[t][n] \in Attempt
    BY RowTypes DEF IInv
<1>2. "outcome_unknown" \in Outcomes /\ at \in Int
    BY LaterIsTime DEF IInv, Outcomes
<1>3. \A n \in 1..Used(t) :
        /\ row(n, at) \in Attempt
        /\ ~Expired(attempts[t][n]) => row(n, at) = attempts[t][n]
        /\ Expired(attempts[t][n]) =>
             /\ row(n, at).outcome = "outcome_unknown"
             /\ row(n, at).settled = at
             /\ row(n, at).renewals = attempts[t][n].renewals
             /\ row(n, at).claimed = attempts[t][n].claimed
    BY <1>1, <1>2 DEF Attempt
<1>4. attempts' = [attempts EXCEPT ![t] = rows]
    BY <1>0
<1> HIDE DEF row
<1>5. rows \in Seq(Attempt) /\ Len(rows) = Used(t)
      /\ \A n \in 1..Used(t) : rows[n] = row(n, at)
    BY <1>1, <1>3, IsASeq, LenProperties
<1> HIDE DEF rows
<1>6. /\ attempts' \in [TaskIds -> Seq(Attempt)] /\ attempts'[t] = rows
      /\ \A u \in TaskIds : u # t => attempts'[u] = attempts[u]
    BY <1>1, <1>4, <1>5 DEF TypeOK
<1>7. \A u \in TaskIds : Used(u)' = Used(u)
    BY <1>5, <1>6 DEF Used
<1>8. \A n \in 1..Used(t) :
        attempts[t][n].outcome # "none" => attempts'[t][n] = attempts[t][n]
    BY <1>3, <1>5, <1>6 DEF Expired
<1>9. RowsKept
    BY <1>6, <1>7, <1>8 DEF RowsKept
<1>10. \A n \in 1..Used(t) :
         /\ ~Expired(attempts[t][n]) => attempts'[t][n] = attempts[t][n]
         /\ Expired(attempts[t][n]) =>
              /\ attempts'[t][n].outcome = "outcome_unknown"
              /\ attempts'[t][n].settled = at
              /\ attempts'[t][n].renewals = attempts[t][n].renewals
              /\ attempts'[t][n].claimed = attempts[t][n].claimed
    BY <1>3, <1>5, <1>6
<1> QED
    BY <1>0, <1>6, <1>9, <1>10

LEMMA ReclaimPreserves ==
  ASSUME IInv, NEW t \in TaskIds, Reclaim(t)
  PROVE  IInv'
<1>1. PICK at \in LaterReading :
        /\ now' = at /\ RowsKept
        /\ \A u \in TaskIds : u # t => attempts'[u] = attempts[u]
        /\ \A n \in 1..Used(t) :
             /\ ~Expired(attempts[t][n]) => attempts'[t][n] = attempts[t][n]
             /\ Expired(attempts[t][n]) => attempts'[t][n].outcome = "outcome_unknown"
    BY ReclaimedRows
<1>2. \A u \in TaskIds : \A n \in 1..Used(u) :
        attempts[u][n].outcome = "none" => attempts'[u][n].outcome # "accepted"
    BY <1>1
<1>3. UNCHANGED <<admitted, tasks, requests, analyses, artifacts, callers>>
    BY DEF Reclaim
<1>4. now' \in 0..MaxTime
    BY <1>1, LaterIsTime DEF IInv
<1> QED
    BY <1>1, <1>2, <1>3, <1>4, SameCallersKept, RowsPreserve DEF IInv

\* An analysis is recorded for the unsettled attempt of a task that has none.
LEMMA AcceptPreserves ==
  ASSUME IInv, NEW c \in Callers, SubmitAccepted(c)
  PROVE  IInv'
<1>0. PICK t \in TaskIds, n \in 1..2 : t = callers[c].task /\ n = callers[c].ordinal
    BY CallerTypes DEF SubmitAccepted, IInv
<1>1. /\ callers[c].op = "published" /\ Owns(c) /\ ~Succeeded(t)
      /\ callers' = [callers EXCEPT ![c] = Done(c)]
      /\ UNCHANGED <<admitted, tasks, requests, artifacts>>
    BY <1>0 DEF SubmitAccepted
<1>2. PICK at \in LaterReading :
        /\ SettleAs(c, "accepted", at) /\ now' = at
        /\ analyses' = analyses \cup
             {[task |-> t, ordinal |-> n, artifact |-> callers[c].candidate,
               settled |-> at]}
    BY <1>0 DEF SubmitAccepted
<1> DEFINE new == [task |-> t, ordinal |-> n, artifact |-> callers[c].candidate,
                   settled |-> at]
<1>3. /\ t \in TaskIds /\ n \in 1..Used(t) /\ attempts[t][n].outcome = "none"
      /\ Granted(callers[c]) /\ callers[c].ordinal \in 1..2
    BY <1>0, <1>1, OwnedRow, CallerTypes DEF Owns, IInv, HandlesGranted
<1>4. n = Used(t) /\ Used(t) > 0
    BY <1>3, UnsettledIsLast
<1>5. "accepted" \in Outcomes
    BY DEF Outcomes
<1>6. /\ RowsKept /\ attempts'[t][n].outcome = "accepted" /\ attempts'[t][n].settled = at
      /\ \A u \in TaskIds : \A m \in 1..Used(u) :
           u # t \/ m # n => attempts'[u][m] = attempts[u][m]
  <2>1. /\ RowsKept
        /\ attempts'[callers[c].task][callers[c].ordinal].outcome = "accepted"
        /\ attempts'[callers[c].task][callers[c].ordinal].settled = at
        /\ \A u \in TaskIds : \A m \in 1..Used(u) :
             u # callers[c].task \/ m # callers[c].ordinal =>
               attempts'[u][m] = attempts[u][m]
      BY <1>1, <1>2, <1>5, SettledRow
  <2> QED
      BY <1>0, <2>1
<1>7. CallersKept
    BY <1>1, OneCallerKept DEF IInv
<1>8. \A u \in TaskIds : Used(u) \in Nat /\ Used(u)' = Used(u)
    BY <1>6, RowTypes DEF IInv, RowsKept
<1>9. /\ new \in Analysis /\ new.task = t /\ new.ordinal = n
      /\ new.artifact = callers[c].candidate /\ new.settled = at
  <2>1. at \in Int
      BY LaterIsTime DEF IInv
  <2> QED
      BY <1>0, <1>1, <1>3, <2>1 DEF Analysis, Granted, AttemptsPerGeneration
<1>10. TypeOK'
  <2>1. now' \in 0..MaxTime
      BY <1>2, LaterIsTime DEF IInv
  <2> QED
      BY <1>1, <1>2, <1>6, <1>7, <1>9, <2>1 DEF IInv, TypeOK, RowsKept, CallersKept
<1>11. HandlesGranted'
    BY <1>1, <1>7, <1>8, KeptAreGranted
<1>12. AnalysesRecorded'
  <2>1. ASSUME NEW a \in analyses'
        PROVE  /\ Used(a.task)' > 0 /\ a.ordinal = Used(a.task)'
               /\ LastRow(a.task)'.outcome = "accepted"
               /\ LastRow(a.task)'.settled = a.settled
               /\ a.artifact \in artifacts' /\ Accepts(a.artifact, a.ordinal)
               /\ \A d \in analyses' : d.task = a.task => d = a
    <3>1. CASE a = new
      <4>1. LastRow(t)' = attempts'[t][n]
          BY <1>3, <1>4, <1>8 DEF LastRow
      <4>2. \A d \in analyses' : d.task = t => d = new
          BY <1>1, <1>2 DEF Succeeded
      <4> QED
          BY <1>0, <1>1, <1>3, <1>4, <1>6, <1>8, <1>9, <3>1, <4>1, <4>2 DEF Granted
    <3>2. CASE a \in analyses
      <4>1. a.task # t
          BY <1>1, <3>2 DEF Succeeded
      <4>2. /\ a.task \in TaskIds /\ a.ordinal = Used(a.task)
            /\ a.ordinal \in 1..Used(a.task)
          BY <3>2, SuccessIsLast
      <4>3. LastRow(a.task)' = LastRow(a.task)
          BY <1>6, <1>8, <4>1, <4>2 DEF LastRow
      <4>4. /\ Used(a.task) > 0 /\ LastRow(a.task).outcome = "accepted"
            /\ LastRow(a.task).settled = a.settled
            /\ a.artifact \in artifacts /\ Accepts(a.artifact, a.ordinal)
            /\ \A d \in analyses : d.task = a.task => d = a
          BY <3>2 DEF IInv, AnalysesRecorded
      <4>5. \A d \in analyses' : d.task = a.task => d = a
          BY <1>2, <4>1, <4>4
      <4> QED
          BY <1>1, <1>8, <4>2, <4>3, <4>4, <4>5
    <3> QED
        BY <1>2, <3>1, <3>2
  <2>2. ASSUME NEW u \in TaskIds, NEW m \in 1..Used(u), attempts'[u][m].outcome = "accepted"
        PROVE  Succeeded(u)'
    <3>1. CASE u = t /\ m = n
        BY <1>2, <1>9, <3>1 DEF Succeeded
    <3>2. CASE u # t \/ m # n
        BY <1>2, <1>6, <2>2, <3>2 DEF IInv, AnalysesRecorded, Succeeded
    <3> QED
        BY <3>1, <3>2
  <2> QED
      BY <1>8, <2>1, <2>2 DEF AnalysesRecorded
<1> QED
    BY <1>1, <1>6, <1>10, <1>11, <1>12, RegistryKept DEF IInv

\* A second request for a registered task, or for the successor of a failed one.
LEMMA RequestPreserves ==
  ASSUME IInv, NEW i \in RequestIds, NEW t \in TaskIds, NEW content \in Content,
         tasks[t].budget # NoFingerprint, requests[i] = NoRequest,
         IF content.budget = NoFingerprint THEN content.parent = tasks[t].parent
                                           ELSE content.budget = tasks[t].budget,
         requests' = [requests EXCEPT ![i] = [content |-> content, task |-> t]],
         UNCHANGED <<now, admitted, tasks, attempts, analyses, artifacts, callers>>
  PROVE  IInv'
<1> DEFINE r == [content |-> content, task |-> t]
<1>1. r \in Registration /\ r # NoRequest /\ r.content = content /\ r.task = t
    BY RequestAssumption DEF Registration
<1>2. /\ requests'[i] = r
      /\ \A j \in RequestIds : j # i => requests'[j] = requests[j]
    BY DEF IInv, TypeOK
<1>3. TypeOK'
    BY <1>1 DEF IInv, TypeOK
<1> HIDE DEF r
<1>4. RequestsMatch'
  <2>1. ASSUME NEW j \in RequestIds, requests'[j] # NoRequest
        PROVE  tasks[requests'[j].task].budget # NoFingerprint
      BY <1>1, <1>2, <2>1 DEF IInv, RequestsMatch
  <2>2. ASSUME NEW j \in RequestIds PROVE ValidRegistration(j)'
      BY <1>1, <1>2 DEF IInv, RequestsMatch, ValidRegistration
  <2>3. ASSUME NEW u \in TaskIds, tasks[u].budget # NoFingerprint
        PROVE  \E j \in RequestIds : requests'[j] # NoRequest /\ requests'[j].task = u
      BY <1>2, <2>3 DEF IInv, RequestsMatch
  <2> QED
      BY <2>1, <2>2, <2>3 DEF RequestsMatch
<1>5. Counted' /\ TasksMade' /\ ParentsPrecede' /\ DistinctGenerations' /\ OlderUsedUp'
    BY DEF IInv, Counted, TasksMade, ParentsPrecede, DistinctGenerations, OlderUsedUp,
       SameBudget, UsedUp, Used
<1>6. AnalysesRecorded' /\ HandlesGranted'
    BY DEF IInv, AnalysesRecorded, HandlesGranted, Granted, Used, LastRow, Succeeded
<1> QED
    BY <1>3, <1>4, <1>5, <1>6 DEF IInv

\* A new task of a budget all of whose generations are used up, with its request.
LEMMA TaskPreserves ==
  ASSUME IInv, NEW i \in RequestIds, NEW t \in TaskIds, NEW made \in Task,
         NEW content \in Content,
         tasks[t] = Unused, made.budget \in Fingerprints,
         \A u \in TaskIds : tasks[u].budget = made.budget =>
           UsedUp(u) /\ tasks[u].generation < made.generation,
         IF made.generation = 1 THEN made.parent = NoTask
         ELSE /\ made.parent \in TaskIds
              /\ tasks[made.parent].budget = made.budget
              /\ tasks[made.parent].generation + 1 = made.generation,
         made.generation >= 1, requests[i] = NoRequest,
         IF content.budget = NoFingerprint THEN content.parent = made.parent
                                           ELSE content.budget = made.budget,
         tasks' = [tasks EXCEPT ![t] = made],
         requests' = [requests EXCEPT ![i] = [content |-> content, task |-> t]],
         UNCHANGED <<now, admitted, attempts, analyses, artifacts, callers>>
  PROVE  IInv'
<1> DEFINE r == [content |-> content, task |-> t]
<1>1. r \in Registration /\ r # NoRequest /\ r.content = content /\ r.task = t
    BY RequestAssumption DEF Registration
<1>2. /\ requests'[i] = r
      /\ \A j \in RequestIds : j # i => requests'[j] = requests[j]
      /\ tasks'[t] = made
      /\ \A u \in TaskIds : u # t => tasks'[u] = tasks[u]
    BY DEF IInv, TypeOK
<1>3. /\ made.budget # NoFingerprint /\ made.generation \in Nat
      /\ tasks[t].budget = NoFingerprint /\ attempts[t] = <<>>
      /\ \A u \in TaskIds : tasks[u].generation \in Nat /\ Used(u) \in Nat
    BY NullAssumption, RowTypes DEF Task, Unused, IInv, TasksMade
<1>4. TypeOK'
    BY <1>1 DEF IInv, TypeOK
<1> HIDE DEF r
<1>5. Counted'
    BY DEF IInv, Counted, Used
<1>6. TasksMade'
    BY <1>2, <1>3 DEF IInv, TasksMade
<1>7. ParentsPrecede'
  <2> SUFFICES ASSUME NEW u \in TaskIds, tasks'[u].budget # NoFingerprint
               PROVE  IF tasks'[u].generation = 1 THEN tasks'[u].parent = NoTask
                      ELSE /\ tasks'[u].parent \in TaskIds
                           /\ tasks'[tasks'[u].parent].budget = tasks'[u].budget
                           /\ tasks'[tasks'[u].parent].generation + 1 = tasks'[u].generation
      BY DEF ParentsPrecede
  <2>1. CASE u = t
      BY <1>2, <1>3, <2>1
  <2>2. CASE u # t
    <3>1. tasks[u].parent \in TaskIds /\ tasks[tasks[u].parent].budget = tasks[u].budget
            => tasks[u].parent # t
        BY <1>2, <1>3, <2>2
    <3> QED
        BY <1>2, <2>2, <3>1 DEF IInv, ParentsPrecede
  <2> QED
      BY <2>1, <2>2
<1>8. DistinctGenerations'
  <2> SUFFICES ASSUME NEW u \in TaskIds, NEW v \in TaskIds,
                      tasks'[u].budget = tasks'[v].budget,
                      tasks'[u].budget # NoFingerprint,
                      tasks'[u].generation = tasks'[v].generation
               PROVE  u = v
      BY DEF DistinctGenerations, SameBudget
  <2>1. CASE u # t /\ v # t
      BY <1>2, <2>1 DEF IInv, DistinctGenerations, SameBudget
  <2>2. CASE u = t /\ v # t
      BY <1>2, <1>3, <2>2
  <2>3. CASE u # t /\ v = t
      BY <1>2, <1>3, <2>3
  <2> QED
      BY <2>1, <2>2, <2>3
<1>9. OlderUsedUp'
  <2> SUFFICES ASSUME NEW u \in TaskIds, NEW v \in TaskIds,
                      tasks'[u].budget = tasks'[v].budget,
                      tasks'[u].budget # NoFingerprint,
                      tasks'[u].generation < tasks'[v].generation
               PROVE  UsedUp(u)
      BY DEF OlderUsedUp, SameBudget, UsedUp, Used
  <2>1. CASE u # t /\ v # t
      BY <1>2, <2>1 DEF IInv, OlderUsedUp, SameBudget
  <2>2. CASE u = t
      BY <1>2, <1>3, <2>2
  <2>3. CASE u # t /\ v = t
      BY <1>2, <2>3
  <2> QED
      BY <2>1, <2>2, <2>3
<1>10. AnalysesRecorded' /\ HandlesGranted'
    BY DEF IInv, AnalysesRecorded, HandlesGranted, Granted, Used, LastRow, Succeeded
<1>11. RequestsMatch'
  <2>0. ASSUME NEW j \in RequestIds, requests[j] # NoRequest
        PROVE  requests[j].task # t
      BY <1>3, <2>0 DEF IInv, RequestsMatch
  <2>a. ASSUME NEW j \in RequestIds, requests[j] # NoRequest
        PROVE  requests[j].task \in TaskIds
      BY <2>a DEF IInv, TypeOK, Registration
  <2>1. ASSUME NEW j \in RequestIds, requests'[j] # NoRequest
        PROVE  tasks'[requests'[j].task].budget # NoFingerprint
    <3>1. CASE j = i
        BY <1>1, <1>2, <1>3, <3>1
    <3>2. CASE j # i
        BY <1>2, <2>0, <2>a, <2>1, <3>2 DEF IInv, RequestsMatch
    <3> QED
        BY <3>1, <3>2
  <2>2. ASSUME NEW j \in RequestIds PROVE ValidRegistration(j)'
    <3>1. CASE j = i
        BY <1>1, <1>2, <3>1 DEF ValidRegistration
    <3>2. CASE j # i
        BY <1>2, <2>0, <2>a, <3>2 DEF IInv, RequestsMatch, ValidRegistration
    <3> QED
        BY <3>1, <3>2
  <2>3. ASSUME NEW u \in TaskIds, tasks'[u].budget # NoFingerprint
        PROVE  \E j \in RequestIds : requests'[j] # NoRequest /\ requests'[j].task = u
    <3>1. CASE u = t
        BY <1>1, <1>2, <3>1
    <3>2. CASE u # t
        BY <1>2, <2>3, <3>2 DEF IInv, RequestsMatch
    <3> QED
        BY <3>1, <3>2
  <2> QED
      BY <2>1, <2>2, <2>3 DEF RequestsMatch
<1> QED
    BY <1>4, <1>5, <1>6, <1>7, <1>8, <1>9, <1>10, <1>11 DEF IInv

LEMMA RegisterPreserves ==
  ASSUME IInv, NEW c \in Callers, NEW i \in RequestIds, NEW b \in Fingerprints,
         Register(c, i, b)
  PROVE  IInv'
<1> DEFINE content == [budget |-> b, parent |-> NoTask]
           made == [budget |-> b, generation |-> 1, parent |-> NoTask]
<1>1. PICK t \in TaskIds :
        /\ IF TasksOf(b) = {}
             THEN tasks[t] = Unused /\ tasks' = [tasks EXCEPT ![t] = made]
             ELSE TasksOf(b) = {t} /\ UNCHANGED tasks
        /\ requests' = [requests EXCEPT ![i] = [content |-> content, task |-> t]]
    BY DEF Register
<1>2. /\ requests[i] = NoRequest
      /\ UNCHANGED <<now, admitted, attempts, analyses, artifacts, callers>>
    BY DEF Register
<1>3. b # NoFingerprint /\ content \in Content /\ content.budget = b
    BY NullAssumption DEF Content
<1>4. /\ made \in Task /\ made.budget = b /\ made.generation = 1
      /\ made.parent = NoTask
    BY DEF Task
<1> HIDE DEF content, made
<1>5. CASE TasksOf(b) = {}
  <2>1. \A u \in TaskIds : tasks[u].budget # b
      BY <1>5 DEF TasksOf
  <2>2. tasks[t] = Unused /\ tasks' = [tasks EXCEPT ![t] = made]
      BY <1>1, <1>5
  <2>3. /\ made.budget \in Fingerprints /\ made.generation >= 1
        /\ content.budget # NoFingerprint /\ content.budget = made.budget
        /\ \A u \in TaskIds : tasks[u].budget = made.budget =>
             UsedUp(u) /\ tasks[u].generation < made.generation
      BY <1>3, <1>4, <2>1
  <2> QED
      BY <1>1, <1>2, <1>3, <1>4, <2>2, <2>3, TaskPreserves
<1>6. CASE TasksOf(b) # {}
  <2>1. tasks[t].budget = b /\ UNCHANGED tasks
      BY <1>1, <1>6 DEF TasksOf
  <2> QED
      BY <1>1, <1>2, <1>3, <2>1, RequestPreserves
<1> QED
    BY <1>5, <1>6

LEMMA RetryPreserves ==
  ASSUME IInv, NEW i \in RequestIds, NEW p \in TaskIds,
         JoinRetry(i, p) \/ NewGeneration(i, p)
  PROVE  IInv'
<1> DEFINE content == RetryRequest(p)
<1>1. /\ p \in Registered /\ requests[i] = NoRequest
      /\ UNCHANGED <<now, admitted, attempts, analyses, artifacts, callers>>
    BY DEF JoinRetry, NewGeneration
<1>2. /\ content \in Content /\ content.budget = NoFingerprint /\ content.parent = p
    BY DEF Content, RetryRequest
<1>3. ASSUME JoinRetry(i, p) PROVE IInv'
  <2>1. PICK t \in TaskIds :
          /\ tasks[t].parent = p
          /\ requests' = [requests EXCEPT ![i] = [content |-> content, task |-> t]]
      BY <1>3 DEF JoinRetry
  <2>2. UNCHANGED tasks
      BY <1>3 DEF JoinRetry
  <2>3. tasks[t].budget # NoFingerprint
      BY <2>1, NullAssumption DEF IInv, TasksMade, Unused
  <2> HIDE DEF content
  <2> QED
      BY <1>1, <1>2, <2>1, <2>2, <2>3, RequestPreserves
<1>4. ASSUME NewGeneration(i, p) PROVE IInv'
  <2> DEFINE made == [budget |-> tasks[p].budget,
                      generation |-> tasks[p].generation + 1, parent |-> p]
  <2>1. PICK t \in TaskIds :
          /\ tasks[t] = Unused /\ tasks' = [tasks EXCEPT ![t] = made]
          /\ requests' = [requests EXCEPT ![i] = [content |-> content, task |-> t]]
      BY <1>4 DEF NewGeneration
  <2>2. /\ tasks[p].budget # NoFingerprint
        /\ \A u \in TaskIds : SameBudget(p, u) =>
             UsedUp(u) /\ tasks[u].generation <= tasks[p].generation
      BY <1>1, <1>4, RetriedIsUsedUp DEF NewGeneration
  <2>3. /\ tasks[p] \in Task /\ tasks[p].generation \in Nat
        /\ tasks[p].generation >= 1
      BY <2>2, RowTypes DEF IInv, TasksMade
  <2>4. /\ made \in Task /\ made.budget = tasks[p].budget /\ made.parent = p
        /\ made.generation = tasks[p].generation + 1
      BY <2>3 DEF Task
  <2>5. tasks[p].budget \in Fingerprints
      BY <2>2, <2>3 DEF Task
  <2>6. \A u \in TaskIds : tasks[u].budget = made.budget =>
          UsedUp(u) /\ tasks[u].generation < made.generation
    <3>1. \A u \in TaskIds : tasks[u].generation \in Nat
        BY RowTypes DEF IInv
    <3> QED
        BY <2>2, <2>3, <2>4, <3>1 DEF SameBudget
  <2>7. made.generation >= 1 /\ made.generation # 1
      BY <2>3, <2>4
  <2> HIDE DEF content, made
  <2> QED
      BY <1>1, <1>2, <2>1, <2>2, <2>4, <2>5, <2>6, <2>7, TaskPreserves
<1> QED
    BY <1>3, <1>4

\* A further attempt of a ready task, and its handle.
LEMMA ClaimPreserves ==
  ASSUME IInv, NEW c \in Callers, NEW t \in TaskIds, Claim(c, t)
  PROVE  IInv'
<1> DEFINE row == [claimed |-> now, renewals |-> <<>>, outcome |-> "none", settled |-> 0]
           held == [op |-> "holding", task |-> t, ordinal |-> Used(t) + 1,
                    candidate |-> NoCandidate]
<1>1. /\ attempts' = [attempts EXCEPT ![t] = Append(attempts[t], row)]
      /\ callers' = [callers EXCEPT ![c] = held]
      /\ UNCHANGED <<now, admitted, tasks, requests, analyses, artifacts>>
    BY DEF Claim
<1>2. /\ Used(t) \in {0, 1} /\ ~Succeeded(t)
      /\ \A n \in 1..Used(t) : HasFailed(attempts[t][n])
      /\ tasks[t].budget # NoFingerprint
    BY ReadyIsLatest DEF Claim, MayClaim
<1>3. row \in Attempt /\ row.outcome = "none"
  <2>1. now \in Int /\ <<>> \in Seq(Int)
      BY EmptySeq DEF IInv, TypeOK
  <2> QED
      BY <2>1 DEF Attempt, Outcomes
<1> HIDE DEF row
<1>4. /\ Append(attempts[t], row) \in Seq(Attempt)
      /\ Len(Append(attempts[t], row)) = Used(t) + 1
      /\ \A n \in 1..Used(t) : Append(attempts[t], row)[n] = attempts[t][n]
      /\ Append(attempts[t], row)[Used(t) + 1] = row
    BY <1>3, RowTypes, AppendProperties DEF IInv, Used
<1>5. /\ attempts' \in [TaskIds -> Seq(Attempt)]
      /\ Used(t)' = Used(t) + 1
      /\ \A n \in 1..Used(t) : attempts'[t][n] = attempts[t][n]
      /\ attempts'[t][Used(t) + 1].outcome = "none"
      /\ \A u \in TaskIds : u # t => attempts'[u] = attempts[u]
    BY <1>1, <1>3, <1>4 DEF IInv, TypeOK, Used
<1>6. \A u \in TaskIds :
        Used(u) \in Nat /\ Used(u)' = IF u = t THEN Used(t) + 1 ELSE Used(u)
    BY <1>5, RowTypes DEF IInv, Used
<1>7. held \in Handle /\ held.op = "holding" /\ held.task = t /\ held.ordinal = Used(t) + 1
    BY <1>2 DEF Handle, AttemptsPerGeneration
<1> HIDE DEF held
<1>8. /\ callers'[c] = held
      /\ \A d \in Callers : d # c => callers'[d] = callers[d]
    BY <1>1 DEF IInv, TypeOK
<1>9. TypeOK'
    BY <1>1, <1>5, <1>7 DEF IInv, TypeOK
<1>10. HandlesGranted'
  <2> SUFFICES ASSUME NEW d \in Callers,
                      callers'[d].op \in {"holding", "submitting", "published"}
               PROVE  Granted(callers[d])'
      BY DEF HandlesGranted
  <2>1. CASE d = c
      BY <1>5, <1>7, <1>8, <1>2, <2>1 DEF Granted
  <2>2. CASE d # c
    <3>1. /\ callers'[d] = callers[d] /\ Granted(callers[d])
          /\ callers[d].task \in TaskIds /\ callers[d].ordinal \in 1..2
        BY <1>8, <2>2, CallerTypes DEF IInv, HandlesGranted
    <3> QED
        BY <1>1, <1>6, <3>1 DEF Granted
  <2> QED
      BY <2>1, <2>2
<1>11. Counted'
  <2> SUFFICES ASSUME NEW u \in TaskIds
               PROVE  /\ Used(u)' <= AttemptsPerGeneration
                      /\ \A n \in 1..Used(u)' : n < Used(u)' => HasFailed(attempts'[u][n])
      BY DEF Counted, HasFailed
  <2>1. CASE u = t
      BY <1>2, <1>5, <2>1 DEF AttemptsPerGeneration
  <2>2. CASE u # t
      BY <1>5, <1>6, <2>2 DEF IInv, Counted
  <2> QED
      BY <2>1, <2>2
<1>12. TasksMade'
    BY <1>1, <1>2, <1>5 DEF IInv, TasksMade
<1>13. ParentsPrecede' /\ DistinctGenerations'
    BY <1>1 DEF IInv, ParentsPrecede, DistinctGenerations, SameBudget
<1>14. OlderUsedUp'
  <2>1. ASSUME NEW u \in TaskIds, UsedUp(u) PROVE UsedUp(u)'
    <3>1. u # t
        BY <1>2, <2>1 DEF UsedUp, AttemptsPerGeneration
    <3> QED
        BY <1>5, <1>6, <2>1, <3>1 DEF UsedUp, HasFailed
  <2> QED
      BY <1>1, <2>1 DEF IInv, OlderUsedUp, SameBudget
<1>15. AnalysesRecorded'
  <2>1. ASSUME NEW a \in analyses
        PROVE  /\ Used(a.task)' > 0 /\ a.ordinal = Used(a.task)'
               /\ LastRow(a.task)' = LastRow(a.task)
    <3>1. a.task # t
        BY <1>2 DEF Succeeded
    <3>2. /\ a.task \in TaskIds /\ a.ordinal = Used(a.task)
          /\ a.ordinal \in 1..Used(a.task)
        BY SuccessIsLast
    <3> QED
        BY <1>5, <1>6, <3>1, <3>2 DEF LastRow
  <2>2. ASSUME NEW u \in TaskIds, NEW n \in 1..Used(u)',
               attempts'[u][n].outcome = "accepted"
        PROVE  Succeeded(u)
    <3>1. u # t
      <4>1. n = Used(t) + 1 \/ n \in 1..Used(t) \/ u # t
          BY <1>2, <1>6
      <4> QED
          BY <1>2, <1>5, <2>2, <4>1 DEF HasFailed
    <3> QED
        BY <1>5, <1>6, <2>2, <3>1 DEF IInv, AnalysesRecorded
  <2>3. \A a \in analyses :
          /\ LastRow(a.task).outcome = "accepted" /\ LastRow(a.task).settled = a.settled
          /\ a.artifact \in artifacts /\ Accepts(a.artifact, a.ordinal)
          /\ \A d \in analyses : d.task = a.task => d = a
      BY DEF IInv, AnalysesRecorded
  <2>4. \A u \in TaskIds : Succeeded(u) <=> Succeeded(u)'
      BY <1>1 DEF Succeeded
  <2> QED
      BY <1>1, <2>1, <2>2, <2>3, <2>4 DEF AnalysesRecorded
<1>16. RequestsMatch'
    BY <1>1 DEF IInv, RequestsMatch, ValidRegistration
<1> QED
    BY <1>9, <1>10, <1>11, <1>12, <1>13, <1>14, <1>15, <1>16 DEF IInv

-------------------------------------------------------------------------------
(* The invariant *)

LEMMA InitInvariant == Init => IInv
<1> SUFFICES ASSUME Init PROVE IInv
    OBVIOUS
<1>1. Unused \in Task /\ Unused.budget = NoFingerprint
    BY DEF Unused, Task
<1>2. TypeOK
    BY <1>1, EmptySeq, NumberAssumption DEF Init, TypeOK
<1>3. \A t \in TaskIds : Used(t) = 0 /\ tasks[t] = Unused /\ attempts[t] = <<>>
    BY EmptySeq DEF Init, Used
<1>4. Counted /\ TasksMade /\ ParentsPrecede /\ DistinctGenerations /\ OlderUsedUp
    BY <1>1, <1>3 DEF Counted, TasksMade, ParentsPrecede, DistinctGenerations,
       OlderUsedUp, SameBudget, AttemptsPerGeneration
<1>5. AnalysesRecorded
    BY <1>3 DEF Init, AnalysesRecorded
<1>6. HandlesGranted
    BY DEF Init, HandlesGranted, Idle
<1>7. RequestsMatch
    BY <1>1, <1>3 DEF Init, RequestsMatch, ValidRegistration
<1> QED
    BY <1>2, <1>4, <1>5, <1>6, <1>7 DEF IInv

LEMMA NextInvariant == IInv /\ [Next]_vars => IInv'
<1> SUFFICES ASSUME IInv, [Next]_vars PROVE IInv'
    OBVIOUS
<1>1. ASSUME NEW c \in Callers, NEW i \in RequestIds, NEW b \in Fingerprints,
             Register(c, i, b) \/ RegisterFails(c, i, b)
      PROVE  IInv'
    BY <1>1, RegisterPreserves, DroppedPreserves
<1>2. ASSUME Retry PROVE IInv'
    BY <1>2, RetryPreserves DEF Retry
<1>3. ASSUME NEW c \in Callers, NEW t \in TaskIds, Claim(c, t) PROVE IInv'
    BY <1>3, ClaimPreserves
<1>4. ASSUME NEW c \in Callers, Hold(c) PROVE IInv'
    BY <1>4, RenewPreserves, FailurePreserves, SubmissionPreserves, AcceptPreserves,
       DroppedPreserves DEF Hold
<1>5. ASSUME NEW c \in Callers, Leave(c) PROVE IInv'
    BY <1>5, DroppedPreserves
<1>6. ASSUME NEW t \in TaskIds, Reclaim(t) PROVE IInv'
    BY <1>6, ReclaimPreserves
<1>7. ASSUME FactsChange \/ Tick \/ ClockSetBack \/ UNCHANGED vars PROVE IInv'
    BY <1>7, EnvironmentPreserves
<1> QED
    BY <1>1, <1>2, <1>3, <1>4, <1>5, <1>6, <1>7 DEF Next

\* The inductive invariant holds in every reachable archive.
THEOREM Invariant == Spec => []IInv
BY InitInvariant, NextInvariant, PTL DEF Spec

\* Every state the Read service reaches is well typed, whatever its callers do.
THEOREM TypeCorrect == Spec => []TypeOK
<1>1. IInv => TypeOK
    BY DEF IInv
<1> QED
    BY <1>1, Invariant, PTL

-------------------------------------------------------------------------------
(* The archive *)

\* An analysis is the last word of its budget, in every state IInv describes.
LEMMA InvOneAnalysis == IInv => OneAnalysisPerBudget
<1> SUFFICES ASSUME IInv, NEW a \in analyses
             PROVE  /\ IsLatest(a.task)
                    /\ a.ordinal = Used(a.task) /\ LastRow(a.task).outcome = "accepted"
                    /\ \A t \in TasksOf(tasks[a.task].budget) : \A n \in 1..Used(t) :
                         attempts[t][n].outcome \in {"none", "accepted"} =>
                           t = a.task /\ n = a.ordinal
                    /\ \A d \in analyses :
                         tasks[d.task].budget = tasks[a.task].budget => d = a
    BY DEF OneAnalysisPerBudget
<1>1. /\ a.task \in TaskIds /\ a.ordinal = Used(a.task)
      /\ a.ordinal \in 1..Used(a.task)
      /\ attempts[a.task][a.ordinal].outcome = "accepted"
      /\ \A u \in TaskIds : SameBudget(a.task, u) /\ u # a.task =>
           UsedUp(u) /\ tasks[u].generation < tasks[a.task].generation
    BY SuccessIsLast
<1>2. tasks[a.task].budget # NoFingerprint
    BY <1>1, UnsettledIsLast
<1>3. \A t \in TasksOf(tasks[a.task].budget) :
        t \in TaskIds /\ (t # a.task => UsedUp(t) /\
                            tasks[t].generation < tasks[a.task].generation)
    BY <1>1, <1>2 DEF TasksOf, SameBudget
<1>4. \A t \in TaskIds : tasks[t].generation \in Nat
    BY RowTypes DEF IInv
<1>5. IsLatest(a.task)
    BY <1>1, <1>3, <1>4 DEF IsLatest
<1>6. ASSUME NEW t \in TasksOf(tasks[a.task].budget), NEW n \in 1..Used(t),
             attempts[t][n].outcome \in {"none", "accepted"}
      PROVE  t = a.task /\ n = a.ordinal
  <2>1. t = a.task
      BY <1>3, <1>6 DEF UsedUp, HasFailed
  <2> QED
      BY <1>1, <1>6, <2>1, UnsettledIsLast
<1>7. ASSUME NEW d \in analyses, tasks[d.task].budget = tasks[a.task].budget
      PROVE  d = a
  <2>1. /\ d.task \in TaskIds /\ d.ordinal \in 1..Used(d.task)
        /\ attempts[d.task][d.ordinal].outcome = "accepted"
      BY SuccessIsLast
  <2>2. d.task = a.task
      BY <1>6, <1>7, <2>1 DEF TasksOf
  <2> QED
      BY <2>2 DEF IInv, AnalysesRecorded
<1> QED
    BY <1>1, <1>5, <1>6, <1>7 DEF LastRow

\* The generations form a chain of failed tasks, in every state IInv describes.
LEMMA InvChain == IInv => ChainValidates
<1> SUFFICES ASSUME IInv PROVE ChainValidates
    OBVIOUS
<1>1. ASSUME NEW t \in Registered PROVE ValidTask(t)
  <2>1. /\ t \in TaskIds /\ tasks[t].budget # NoFingerprint
        /\ tasks[t].generation >= 1 /\ tasks[t].generation \in Nat
      BY RowTypes DEF Registered, IInv, TasksMade
  <2>2. \E i \in RequestIds : requests[i] # NoRequest /\ requests[i].task = t
      BY <2>1 DEF IInv, RequestsMatch
  <2>3. \A u \in TasksOf(tasks[t].budget) :
          tasks[u].generation = tasks[t].generation => u = t
      BY <2>1 DEF TasksOf, IInv, DistinctGenerations, SameBudget
  <2>4. tasks[t].generation = 1 => tasks[t].parent = NoTask
      BY <2>1 DEF IInv, ParentsPrecede
  <2>5. ASSUME tasks[t].generation # 1
        PROVE  LET p == tasks[t].parent IN
               /\ p # NoTask /\ tasks[p].budget = tasks[t].budget
               /\ tasks[p].generation = tasks[t].generation - 1
               /\ Status(p) = "failed"
    <3> DEFINE p == tasks[t].parent
    <3>1. /\ p \in TaskIds /\ tasks[p].budget = tasks[t].budget
          /\ tasks[p].generation + 1 = tasks[t].generation
        BY <2>1, <2>5 DEF IInv, ParentsPrecede
    <3>2. tasks[p].generation \in Nat
        BY <3>1, RowTypes DEF IInv
    <3>3. UsedUp(p)
        BY <2>1, <3>1, <3>2 DEF IInv, OlderUsedUp, SameBudget
    <3>4. ~Running(p)
        BY <3>3 DEF Running, UsedUp, HasFailed
    <3>5. ~Succeeded(p)
      <4> SUFFICES ASSUME NEW a \in analyses, a.task = p PROVE FALSE
          BY DEF Succeeded
      <4> QED
          BY <3>3, SuccessIsLast DEF UsedUp, HasFailed
    <3>6. Status(p) = "failed"
        BY <3>3, <3>4, <3>5 DEF Status, UsedUp
    <3> QED
        BY <2>1, <3>1, <3>2, <3>6, NullAssumption
  <2> QED
      BY <2>2, <2>3, <2>4, <2>5 DEF ValidTask
<1> QED
    BY <1>1 DEF ChainValidates, IInv, RequestsMatch

\* A budget never gets a second analysis, although the table only makes one unique
\* per task: no retry, reclaim or late submission leaves two (acceptance.submit,
\* service.retry, service.reclaim).
THEOREM AnalysisIsTheLastWord == Spec => []OneAnalysisPerBudget
BY Invariant, InvOneAnalysis, PTL

\* The registrations, retries and joined retries of any archive pass validate_all:
\* a budget's generations are one numbered chain of failed tasks.
THEOREM GenerationsChain == Spec => []ChainValidates
BY Invariant, InvChain, PTL

-------------------------------------------------------------------------------
(* Settlements are final, and leases are kept to *)

\* No transaction rewrites a settled row or drops an analysis.
LEMMA SettledRowsStay ==
  ASSUME IInv, [Next]_vars
  PROVE  /\ analyses \subseteq analyses'
         /\ \A t \in TaskIds : \A n \in 1..Used(t) :
              attempts[t][n].outcome # "none" => attempts'[t][n] = attempts[t][n]
<1> DEFINE Stays ==
      /\ analyses \subseteq analyses'
      /\ \A t \in TaskIds : \A n \in 1..Used(t) :
           attempts[t][n].outcome # "none" => attempts'[t][n] = attempts[t][n]
<1>1. ASSUME UNCHANGED <<attempts, analyses>> PROVE Stays
    BY <1>1
<1>2. ASSUME RowsKept, analyses \subseteq analyses' PROVE Stays
    BY <1>2 DEF RowsKept
<1>3. ASSUME NEW c \in Callers, NEW t \in TaskIds, Claim(c, t) PROVE Stays
  <2>1. UNCHANGED analyses
      BY <1>3 DEF Claim
  <2>2. \A u \in TaskIds : u # t => attempts'[u] = attempts[u]
      BY <1>3 DEF Claim, IInv, TypeOK
  <2>3. \A n \in 1..Used(t) : attempts'[t][n] = attempts[t][n]
    <3> DEFINE row == [claimed |-> now, renewals |-> <<>>, outcome |-> "none",
                       settled |-> 0]
    <3>1. row \in Attempt
      <4>1. now \in Int /\ <<>> \in Seq(Int)
          BY EmptySeq DEF IInv, TypeOK
      <4> QED
          BY <4>1 DEF Attempt, Outcomes
    <3>2. attempts'[t] = Append(attempts[t], row)
        BY <1>3 DEF Claim, IInv, TypeOK
    <3> HIDE DEF row
    <3> QED
        BY <3>1, <3>2, RowTypes, AppendProperties DEF IInv, Used
  <2> QED
      BY <2>1, <2>2, <2>3
<1>4. ASSUME NEW c \in Callers, Hold(c) PROVE Stays
  <2>1. CASE Renew(c)
      BY <2>1, <1>2, RenewedRow DEF Renew
  <2>2. CASE (\E f \in Failures : Fail(c, f)) \/ SubmitInvalid(c) \/ SubmitAccepted(c)
    <3>1. /\ callers[c].op \in {"holding", "submitting", "published"} /\ Owns(c)
          /\ analyses \subseteq analyses'
        BY <2>2 DEF Fail, SubmitInvalid, SubmitAccepted
    <3>2. \E at \in LaterReading, o \in Outcomes : SettleAs(c, o, at)
        BY <2>2 DEF Fail, SubmitInvalid, SubmitAccepted, Outcomes
    <3>3. RowsKept
        BY <3>1, <3>2, SettledRow
    <3> QED
        BY <1>2, <3>1, <3>3
  <2>3. CASE (\E x \in Candidates : SubmitStarted(c, x)) \/ Publish(c) \/ SubmitRefused(c)
      BY <1>1, <2>3 DEF SubmitStarted, Publish, SubmitRefused
  <2> QED
      BY <1>4, <2>1, <2>2, <2>3 DEF Hold
<1>5. ASSUME NEW t \in TaskIds, Reclaim(t) PROVE Stays
    BY <1>2, <1>5, ReclaimedRows DEF Reclaim
<1>6. ASSUME \/ \E c \in Callers, i \in RequestIds, b \in Fingerprints :
                  Register(c, i, b) \/ RegisterFails(c, i, b)
             \/ Retry \/ (\E c \in Callers : Leave(c))
             \/ FactsChange \/ Tick \/ ClockSetBack \/ UNCHANGED vars
      PROVE  Stays
  <2>1. UNCHANGED <<attempts, analyses>>
      BY <1>6 DEF Register, RegisterFails, Retry, JoinRetry, NewGeneration, Leave,
         FactsChange, Tick, ClockSetBack, vars
  <2> QED
      BY <1>1, <2>1
<1> QED
    BY <1>3, <1>4, <1>5, <1>6 DEF Next

\* A settled attempt is never settled again, renewed or forgotten, and no analysis
\* is replaced, whatever its former holder still does (service._owned, reclaim).
THEOREM SettledForEver == Spec => SettlementIsFinal
BY Invariant, SettledRowsStay, PTL DEF Spec, SettlementIsFinal

\* An attempt is not given up while its last deadline is ahead.
LEMMA UnexpiredRowsStay ==
  ASSUME IInv, [Next]_vars
  PROVE  \A t \in TaskIds : \A n \in 1..Used(t) :
           attempts[t][n].outcome = "none" /\ now < Deadline(attempts[t][n])
             => attempts'[t][n].outcome # "outcome_unknown"
<1> SUFFICES ASSUME NEW t \in TaskIds, NEW n \in 1..Used(t),
                    attempts[t][n].outcome = "none", now < Deadline(attempts[t][n])
             PROVE  attempts'[t][n].outcome # "outcome_unknown"
    OBVIOUS
<1>1. ASSUME UNCHANGED attempts
      PROVE  attempts'[t][n].outcome # "outcome_unknown"
    BY <1>1
<1>2. ASSUME NEW c \in Callers, NEW u \in TaskIds, Claim(c, u)
      PROVE  attempts'[t][n].outcome # "outcome_unknown"
  <2>1. t # u
      BY <1>2, ReadyIsLatest DEF Claim, MayClaim, Status, Running
  <2> QED
      BY <1>2, <2>1 DEF Claim, IInv, TypeOK
<1>3. ASSUME NEW c \in Callers, Hold(c)
      PROVE  attempts'[t][n].outcome # "outcome_unknown"
  <2>1. CASE Renew(c)
      BY <2>1, RenewedRow
  <2>2. CASE (\E f \in Failures : Fail(c, f)) \/ SubmitInvalid(c) \/ SubmitAccepted(c)
    <3>1. callers[c].op \in {"holding", "submitting", "published"} /\ Owns(c)
        BY <2>2 DEF Fail, SubmitInvalid, SubmitAccepted
    <3>2. PICK at \in LaterReading, o \in Outcomes :
            SettleAs(c, o, at) /\ o # "outcome_unknown"
        BY <2>2, FailureAssumption DEF Fail, SubmitInvalid, SubmitAccepted, Outcomes
    <3>3. /\ attempts'[callers[c].task][callers[c].ordinal].outcome = o
          /\ \A u \in TaskIds : \A m \in 1..Used(u) :
               u # callers[c].task \/ m # callers[c].ordinal =>
                 attempts'[u][m] = attempts[u][m]
        BY <3>1, <3>2, SettledRow
    <3> QED
        BY <3>2, <3>3
  <2>3. CASE (\E x \in Candidates : SubmitStarted(c, x)) \/ Publish(c) \/ SubmitRefused(c)
      BY <1>1, <2>3 DEF SubmitStarted, Publish, SubmitRefused
  <2> QED
      BY <1>3, <2>1, <2>2, <2>3 DEF Hold
<1>4. ASSUME NEW u \in TaskIds, Reclaim(u)
      PROVE  attempts'[t][n].outcome # "outcome_unknown"
  <2>1. ~Expired(attempts[t][n])
    <3>1. now \in Int /\ Deadline(attempts[t][n]) \in Int
        BY RowTypes, RenewedTypes, NumberAssumption DEF IInv, TypeOK
    <3> QED
        BY <3>1 DEF Expired
  <2>2. attempts'[t][n] = attempts[t][n]
      BY <1>4, <2>1, ReclaimedRows
  <2> QED
      BY <2>2
<1>5. ASSUME \/ \E c \in Callers, i \in RequestIds, b \in Fingerprints :
                  Register(c, i, b) \/ RegisterFails(c, i, b)
             \/ Retry \/ (\E c \in Callers : Leave(c))
             \/ FactsChange \/ Tick \/ ClockSetBack \/ UNCHANGED vars
      PROVE  attempts'[t][n].outcome # "outcome_unknown"
    BY <1>1, <1>5 DEF Register, RegisterFails, Retry, JoinRetry, NewGeneration, Leave,
       FactsChange, Tick, ClockSetBack, vars
<1> QED
    BY <1>2, <1>3, <1>4, <1>5 DEF Next

\* Nobody gives an attempt up before the deadline its holder was last promised, for
\* any clock, any drift and any number of callers (service.reclaim, service.renew).
THEOREM LeaseKept == Spec => LeaseIsHonoured
BY Invariant, UnexpiredRowsStay, PTL DEF Spec, LeaseIsHonoured

\* The renewals and the settlement of one row, as validate_all wants them.
InTime(row) == (\A k \in 1..Len(row.renewals) : RenewalInTime(row, k)) /\ SettledInTime(row)

\* A lease is never renewed to a moment before the claim.
LEMMA RenewedAfterClaim ==
  ASSUME NEW row \in Attempt, InTime(row)
  PROVE  row.claimed <= LastRenewed(row)
<1>1. row.claimed \in Int /\ row.renewals \in Seq(Int)
    BY DEF Attempt
<1>2. row.renewals # <<>> => Len(row.renewals) \in 1..Len(row.renewals)
    BY <1>1, EmptySeq
<1> QED
    BY <1>1, <1>2 DEF InTime, RenewalInTime, LastRenewed

\* A renewal by the owner before the deadline keeps a row in time.
LEMMA RenewalKeepsTime ==
  ASSUME TypeOK, NEW row \in Attempt, NEW next \in Attempt, InTime(row),
         row.outcome = "none", LastRenewed(row) <= now, now < Deadline(row),
         next.claimed = row.claimed, next.outcome = "none",
         next.renewals = Append(row.renewals, now)
  PROVE  InTime(next)
<1> DEFINE m == Len(row.renewals)
<1>1. /\ row.claimed \in Int /\ row.renewals \in Seq(Int) /\ m \in Nat /\ now \in Int
      /\ LastRenewed(row) \in Int /\ Deadline(row) = LastRenewed(row) + Lease
      /\ row.claimed <= LastRenewed(row)
    BY RenewedTypes, RenewedAfterClaim, LenProperties DEF Attempt, TypeOK
<1>2. /\ Len(next.renewals) = m + 1 /\ next.renewals[m + 1] = now
      /\ \A k \in 1..m : next.renewals[k] = row.renewals[k]
    BY <1>1, AppendProperties
<1>3. ASSUME NEW k \in 1..m PROVE RenewalInTime(next, k)
  <2>1. RenewalInTime(row, k)
      BY DEF InTime
  <2>2. k # 1 => k - 1 \in 1..m
      BY <1>1
  <2> QED
      BY <1>2, <2>1, <2>2 DEF RenewalInTime
<1>4. RenewalInTime(next, m + 1)
  <2>1. LastRenewed(row) = IF m = 0 THEN row.claimed ELSE row.renewals[m]
      BY <1>1, EmptySeq DEF LastRenewed
  <2>2. (IF m + 1 = 1 THEN next.claimed ELSE next.renewals[m + 1 - 1]) = LastRenewed(row)
      BY <1>1, <1>2, <2>1
  <2> QED
      BY <1>1, <1>2, <2>2, NumberAssumption DEF RenewalInTime
<1>5. \A k \in 1..Len(next.renewals) : k \in 1..m \/ k = m + 1
    BY <1>1, <1>2
<1> QED
    BY <1>3, <1>4, <1>5 DEF InTime, SettledInTime

\* A settlement does not move the deadline, and is judged by it.
LEMMA SettlementKeepsTime ==
  ASSUME TypeOK, NEW row \in Attempt, NEW next \in Attempt, InTime(row),
         next.claimed = row.claimed, next.renewals = row.renewals,
         next.settled = now, next.outcome # "none",
         IF next.outcome = "outcome_unknown" THEN now >= Deadline(row)
         ELSE LastRenewed(row) <= now /\ now < Deadline(row)
  PROVE  InTime(next)
<1>1. /\ row.claimed \in Int /\ now \in Int
      /\ LastRenewed(row) \in Int /\ Deadline(row) = LastRenewed(row) + Lease
      /\ row.claimed <= LastRenewed(row)
    BY RenewedTypes, RenewedAfterClaim DEF Attempt, TypeOK
<1>2. LastRenewed(next) = LastRenewed(row) /\ Deadline(next) = Deadline(row)
    BY DEF LastRenewed, Deadline
<1>3. SettledInTime(next)
    BY <1>1, <1>2, NumberAssumption DEF SettledInTime
<1>4. \A k \in 1..Len(next.renewals) : RenewalInTime(next, k)
    BY DEF InTime, RenewalInTime
<1> QED
    BY <1>3, <1>4 DEF InTime

AllInTime == \A t \in TaskIds : \A n \in 1..Used(t) : InTime(attempts[t][n])

\* When the clock does not move inside a transaction, every row stays in time.
LEMMA TimeKept ==
  ASSUME Drift = 0, IInv, AllInTime, [Next]_vars
  PROVE  AllInTime'
<1> USE DEF AllInTime
<1>0. /\ TypeOK /\ TypeOK'
      /\ \A t \in TaskIds : \A n \in 1..Used(t) : attempts[t][n] \in Attempt
      /\ \A t \in TaskIds : \A n \in 1..Used(t)' : attempts'[t][n] \in Attempt
  <2>1. IInv'
      BY NextInvariant
  <2>2. \A t \in TaskIds : attempts'[t] \in Seq(Attempt)
      BY <2>1 DEF IInv, TypeOK
  <2>3. \A t \in TaskIds : \A n \in 1..Used(t)' : attempts'[t][n] \in Attempt
      BY <2>2, ElementOfSeq DEF Used
  <2> QED
      BY <2>1, <2>3, RowTypes DEF IInv
<1>1. ASSUME UNCHANGED attempts PROVE AllInTime'
    BY <1>1 DEF Used
<1>2. ASSUME RowsKept, NEW t \in TaskIds, NEW n \in 1..Used(t),
             InTime(attempts'[t][n]),
             \A u \in TaskIds : \A m \in 1..Used(u) :
               u # t \/ m # n => attempts'[u][m] = attempts[u][m]
      PROVE  AllInTime'
  <2> SUFFICES ASSUME NEW u \in TaskIds, NEW m \in 1..Used(u)
               PROVE  InTime(attempts'[u][m])
      BY <1>2 DEF RowsKept, InTime, RenewalInTime, SettledInTime, Deadline, LastRenewed
  <2> QED
      BY <1>2
<1>3. ASSUME NEW c \in Callers, NEW t \in TaskIds, Claim(c, t) PROVE AllInTime'
  <2> DEFINE row == [claimed |-> now, renewals |-> <<>>, outcome |-> "none",
                     settled |-> 0]
  <2>1. /\ attempts'[t] = Append(attempts[t], row)
        /\ \A u \in TaskIds : u # t => attempts'[u] = attempts[u]
      BY <1>3 DEF Claim, IInv, TypeOK
  <2>2. row \in Attempt
    <3>1. now \in Int /\ <<>> \in Seq(Int)
        BY EmptySeq DEF IInv, TypeOK
    <3> QED
        BY <3>1 DEF Attempt, Outcomes
  <2>3. InTime(row)
    <3>1. row.renewals = <<>> /\ row.outcome = "none"
        OBVIOUS
    <3>2. Len(row.renewals) = 0
        BY <3>1, EmptySeq
    <3> HIDE DEF row
    <3> QED
        BY <3>1, <3>2 DEF InTime, SettledInTime
  <2> HIDE DEF row
  <2>4. \A n \in 1..Used(t)' : InTime(attempts'[t][n])
    <3>1. /\ Used(t)' = Used(t) + 1 /\ attempts'[t][Used(t) + 1] = row
          /\ \A n \in 1..Used(t) : attempts'[t][n] = attempts[t][n]
        BY <2>1, <2>2, RowTypes, AppendProperties DEF IInv, Used
    <3>2. \A n \in 1..(Used(t) + 1) : n \in 1..Used(t) \/ n = Used(t) + 1
        BY RowTypes DEF IInv
    <3> QED
        BY <2>3, <3>1, <3>2
  <2>5. ASSUME NEW u \in TaskIds, u # t, NEW n \in 1..Used(u)'
        PROVE  InTime(attempts'[u][n])
      BY <2>1, <2>5 DEF Used
  <2>6. \A u \in TaskIds : \A n \in 1..Used(u)' : InTime(attempts'[u][n])
      BY <2>4, <2>5
  <2> QED
      BY <2>6 DEF InTime, RenewalInTime, SettledInTime, Deadline, LastRenewed
<1>4. ASSUME NEW c \in Callers, Hold(c) PROVE AllInTime'
  <2> DEFINE t == callers[c].task
             n == callers[c].ordinal
  <2>1. CASE Renew(c)
    <3>1. PICK at \in LaterReading :
            /\ RowsKept
            /\ attempts'[t][n].renewals = Append(attempts[t][n].renewals, at)
            /\ attempts'[t][n].outcome = "none"
            /\ attempts'[t][n].claimed = attempts[t][n].claimed
            /\ \A u \in TaskIds : \A m \in 1..Used(u) :
                 u # t \/ m # n => attempts'[u][m] = attempts[u][m]
        BY <2>1, RenewedRow
    <3>2. at = now
        BY LaterIsTime DEF IInv
    <3>3. /\ t \in TaskIds /\ n \in 1..Used(t) /\ attempts[t][n] \in Attempt
          /\ attempts[t][n].outcome = "none"
          /\ LastRenewed(attempts[t][n]) <= now /\ now < Deadline(attempts[t][n])
        BY <2>1, OwnedRow DEF Renew, Owns
    <3>4. attempts'[t][n] \in Attempt
        BY <1>0, <3>1, <3>3 DEF RowsKept
    <3>5. InTime(attempts'[t][n])
        BY <1>0, <3>1, <3>2, <3>3, <3>4, RenewalKeepsTime
    <3> QED
        BY <1>2, <3>1, <3>3, <3>5
  <2>2. CASE (\E f \in Failures : Fail(c, f)) \/ SubmitInvalid(c) \/ SubmitAccepted(c)
    <3>1. callers[c].op \in {"holding", "submitting", "published"} /\ Owns(c)
        BY <2>2 DEF Fail, SubmitInvalid, SubmitAccepted
    <3>2. PICK at \in LaterReading, o \in Outcomes :
            SettleAs(c, o, at) /\ o \notin {"none", "outcome_unknown"}
        BY <2>2, FailureAssumption DEF Fail, SubmitInvalid, SubmitAccepted, Outcomes
    <3>3. /\ RowsKept
          /\ attempts'[t][n].outcome = o /\ attempts'[t][n].settled = at
          /\ attempts'[t][n].renewals = attempts[t][n].renewals
          /\ attempts'[t][n].claimed = attempts[t][n].claimed
          /\ \A u \in TaskIds : \A m \in 1..Used(u) :
               u # t \/ m # n => attempts'[u][m] = attempts[u][m]
        BY <3>1, <3>2, SettledRow
    <3>4. at = now
        BY LaterIsTime DEF IInv
    <3>5. /\ t \in TaskIds /\ n \in 1..Used(t) /\ attempts[t][n] \in Attempt
          /\ LastRenewed(attempts[t][n]) <= now /\ now < Deadline(attempts[t][n])
        BY <3>1, OwnedRow DEF Owns
    <3>6. attempts'[t][n] \in Attempt
        BY <1>0, <3>3, <3>5 DEF RowsKept
    <3>7. InTime(attempts'[t][n])
        BY <1>0, <3>2, <3>3, <3>4, <3>5, <3>6, SettlementKeepsTime
    <3> QED
        BY <1>2, <3>3, <3>5, <3>7
  <2>3. CASE (\E x \in Candidates : SubmitStarted(c, x)) \/ Publish(c) \/ SubmitRefused(c)
      BY <1>1, <2>3 DEF SubmitStarted, Publish, SubmitRefused
  <2> QED
      BY <1>4, <2>1, <2>2, <2>3 DEF Hold
<1>5. ASSUME NEW t \in TaskIds, Reclaim(t) PROVE AllInTime'
  <2>1. PICK at \in LaterReading :
          /\ RowsKept
          /\ \A u \in TaskIds : u # t => attempts'[u] = attempts[u]
          /\ \A n \in 1..Used(t) :
               /\ ~Expired(attempts[t][n]) => attempts'[t][n] = attempts[t][n]
               /\ Expired(attempts[t][n]) =>
                    /\ attempts'[t][n].outcome = "outcome_unknown"
                    /\ attempts'[t][n].settled = at
                    /\ attempts'[t][n].renewals = attempts[t][n].renewals
                    /\ attempts'[t][n].claimed = attempts[t][n].claimed
      BY <1>5, ReclaimedRows
  <2>2. at = now
      BY LaterIsTime DEF IInv
  <2>3. ASSUME NEW n \in 1..Used(t), Expired(attempts[t][n])
        PROVE  InTime(attempts'[t][n])
    <3>1. attempts[t][n] \in Attempt /\ attempts'[t][n] \in Attempt
        BY <1>0, <2>1 DEF RowsKept
    <3>2. InTime(attempts[t][n]) /\ now >= Deadline(attempts[t][n])
        BY <2>3 DEF Expired
    <3> QED
        BY <1>0, <2>1, <2>2, <2>3, <3>1, <3>2, SettlementKeepsTime
  <2>4. \A u \in TaskIds : \A n \in 1..Used(u) : InTime(attempts'[u][n])
      BY <2>1, <2>3
  <2> QED
      BY <2>1, <2>4 DEF RowsKept, InTime, RenewalInTime, SettledInTime, Deadline, LastRenewed
<1>6. ASSUME \/ \E c \in Callers, i \in RequestIds, b \in Fingerprints :
                  Register(c, i, b) \/ RegisterFails(c, i, b)
             \/ Retry \/ (\E c \in Callers : Leave(c))
             \/ FactsChange \/ Tick \/ ClockSetBack \/ UNCHANGED vars
      PROVE  AllInTime'
  <2>1. UNCHANGED attempts
      BY <1>6 DEF Register, RegisterFails, Retry, JoinRetry, NewGeneration, Leave,
         FactsChange, Tick, ClockSetBack, vars
  <2> QED
      BY <1>1, <2>1
<1> QED
    BY <1>3, <1>4, <1>5, <1>6 DEF Next

\* Rows in time are all that validate_all asks of leases, in states IInv describes.
LEMMA InvLeasesValidate == IInv /\ AllInTime => LeasesValidate
<1> SUFFICES ASSUME IInv, AllInTime PROVE LeasesValidate
    OBVIOUS
<1>1. ASSUME NEW t \in TaskIds, NEW n \in 1..Used(t) PROVE ValidAttempt(t, n)
  <2>1. InTime(attempts[t][n])
      BY DEF AllInTime
  <2>2. n < Used(t) => HasFailed(attempts[t][n])
      BY DEF IInv, Counted
  <2>3. attempts[t][n].outcome = "accepted" => Succeeded(t) /\ n = Used(t)
      BY UnsettledIsLast DEF IInv, AnalysesRecorded
  <2>4. Succeeded(t) /\ n = Used(t) => attempts[t][n].outcome = "accepted"
      BY SuccessIsLast DEF Succeeded
  <2> QED
      BY <2>1, <2>2, <2>3, <2>4 DEF ValidAttempt, InTime, HasFailed
<1>2. ASSUME NEW a \in analyses PROVE ValidAnalysis(a)
    BY SuccessIsLast DEF IInv, AnalysesRecorded, ValidAnalysis, LastRow
<1> QED
    BY <1>1, <1>2 DEF LeasesValidate

\* validate_all accepts the leases, renewals, settlements and analyses of every
\* archive the service writes, when no transaction sees the clock move (run
\* read_drift shows that it does not hold otherwise).
THEOREM LeasesAreValid ==
  ASSUME Drift = 0
  PROVE  Spec => []LeasesValidate
<1>1. Init => AllInTime
  <2>1. Init => \A t \in TaskIds : Used(t) = 0
      BY EmptySeq DEF Init, Used
  <2> QED
      BY <2>1 DEF AllInTime
<1>2. IInv /\ AllInTime /\ [Next]_vars => AllInTime'
    BY TimeKept
<1>3. Spec => []AllInTime
    BY <1>1, <1>2, Invariant, PTL DEF Spec
<1> QED
    BY <1>3, Invariant, InvLeasesValidate, PTL

-------------------------------------------------------------------------------
(* The service implements the attempt budget *)

\* The values the budget's variables have in this archive.
BOwner == [t \in TaskIds |-> tasks[t].budget]
BSpent == {a \in TaskIds \X (1..2) : a[2] <= Used(a[1])}
BFailed == {a \in TaskIds \X (1..2) : a[2] <= Used(a[1]) /\
              attempts[a[1]][a[2]].outcome \notin {"none", "accepted"}}
BResults == {[attempt |-> <<a.task, a.ordinal>>, value |-> a.artifact] : a \in analyses}

BudgetVars == <<BOwner, BSpent, BFailed, BResults>>

\* What is seen of the archive: budgets, granted attempts, failures and analyses.
LEMMA BudgetSeesNothing ==
  ASSUME IInv, UNCHANGED analyses,
         \A t \in TaskIds : tasks'[t].budget = tasks[t].budget,
         \A t \in TaskIds : Used(t)' = Used(t),
         \A t \in TaskIds : \A n \in 1..Used(t) :
           HasFailed(attempts[t][n])' = HasFailed(attempts[t][n])
  PROVE  UNCHANGED Budget!vars
<1>1. BOwner' = BOwner
    BY DEF BOwner
<1>2. BSpent' = BSpent
    BY DEF BSpent
<1>3. BFailed' = BFailed
  <2>1. \A a \in TaskIds \X (1..2) : a[2] <= Used(a[1]) => a[2] \in 1..Used(a[1])
      BY RowTypes DEF IInv
  <2>2. \A a \in TaskIds \X (1..2) :
          a[2] <= Used(a[1]) =>
            HasFailed(attempts[a[1]][a[2]])' = HasFailed(attempts[a[1]][a[2]])
      BY <2>1
  <2> QED
      BY <2>2 DEF BFailed, HasFailed
<1>4. BResults' = BResults
    BY DEF BResults
<1> QED
    BY <1>1, <1>2, <1>3, <1>4 DEF Budget!vars, BOwner, BSpent, BFailed, BResults

LEMMA ResultsAreAnalyses ==
  /\ \A r \in BResults : \E a \in analyses : r.attempt = <<a.task, a.ordinal>>
  /\ \A a \in analyses : \E r \in BResults : r.attempt = <<a.task, a.ordinal>>
<1> DEFINE result(a) == [attempt |-> <<a.task, a.ordinal>>, value |-> a.artifact]
<1>1. \A a \in analyses : result(a).attempt = <<a.task, a.ordinal>>
    OBVIOUS
<1>2. BResults = {result(a) : a \in analyses}
    BY DEF BResults
<1> HIDE DEF result
<1> QED
    BY <1>1, <1>2

LEMMA BudgetSucceeds ==
  ASSUME IInv, NEW b \in Fingerprints
  PROVE  Budget!Succeeded(b) <=> \E a \in analyses : tasks[a.task].budget = b
<1>1. Budget!Succeeded(b) <=> \E r \in BResults : BOwner[r.attempt[1]] = b
    BY DEF Budget!Succeeded, BResults, BOwner
<1>2. (\E r \in BResults : BOwner[r.attempt[1]] = b)
        <=> \E a \in analyses : BOwner[a.task] = b
  <2>1. \A a \in analyses : <<a.task, a.ordinal>>[1] = a.task
      OBVIOUS
  <2> QED
      BY <2>1, ResultsAreAnalyses
<1>3. \A a \in analyses : a.task \in TaskIds
    BY AnalysisTypes DEF IInv
<1> QED
    BY <1>1, <1>2, <1>3 DEF BOwner

\* The attempts pending in a budget are its unsettled rows.
LEMMA BudgetPending ==
  ASSUME IInv, NEW b \in Fingerprints, NEW t \in TaskIds, NEW n \in 1..2
  PROVE  <<t, n>> \in Budget!Pending(b) <=>
           /\ n \in 1..Used(t) /\ attempts[t][n].outcome = "none"
           /\ tasks[t].budget = b
<1> DEFINE accepted == {r.attempt : r \in BResults}
<1>1. Budget!Pending(b) = {a \in (BSpent \ BFailed) \ accepted : BOwner[a[1]] = b}
    BY DEF Budget!Pending, Budget!Accepted, BSpent, BFailed, BResults, BOwner
<1>2. BOwner[t] = tasks[t].budget
    BY DEF BOwner
<1>3. <<t, n>> \in BSpent <=> n \in 1..Used(t)
    BY RowTypes DEF BSpent, IInv
<1>4. <<t, n>> \in BFailed <=>
        n \in 1..Used(t) /\ attempts[t][n].outcome \notin {"none", "accepted"}
    BY RowTypes DEF BFailed, IInv
<1>5. <<t, n>> \in accepted <=> \E a \in analyses : a.task = t /\ a.ordinal = n
  <2>1. \A x : x \in accepted <=> \E a \in analyses : x = <<a.task, a.ordinal>>
      BY ResultsAreAnalyses
  <2> QED
      BY <2>1
<1>6. n \in 1..Used(t) =>
        (attempts[t][n].outcome = "accepted" <=>
           \E a \in analyses : a.task = t /\ a.ordinal = n)
  <2> SUFFICES ASSUME n \in 1..Used(t)
               PROVE  attempts[t][n].outcome = "accepted" <=>
                        \E a \in analyses : a.task = t /\ a.ordinal = n
      OBVIOUS
  <2>1. ASSUME attempts[t][n].outcome = "accepted"
        PROVE  \E a \in analyses : a.task = t /\ a.ordinal = n
    <3>1. n = Used(t)
        BY <2>1, UnsettledIsLast
    <3>2. PICK a \in analyses : a.task = t
        BY <2>1 DEF IInv, AnalysesRecorded, Succeeded
    <3> QED
        BY <3>1, <3>2, SuccessIsLast
  <2>2. ASSUME NEW a \in analyses, a.task = t, a.ordinal = n
        PROVE  attempts[t][n].outcome = "accepted"
      BY <2>2, SuccessIsLast
  <2> QED
      BY <2>1, <2>2
<1> HIDE DEF accepted
<1> QED
    BY <1>1, <1>2, <1>3, <1>4, <1>5, <1>6

\* A task that is used up is fully spent.
LEMMA BudgetSpent ==
  ASSUME IInv, NEW t \in TaskIds
  PROVE  /\ \A n \in 1..2 : <<t, n>> \in BSpent <=> n <= Used(t)
         /\ UsedUp(t) => Budget!FullySpent(t)
<1>1. \A n \in 1..2 : <<t, n>> \in BSpent <=> n <= Used(t)
    BY DEF BSpent
<1>2. Budget!FullySpent(t) <=> \A n \in 1..2 : <<t, n>> \in BSpent
    BY DEF Budget!FullySpent, Budget!Numbers, BSpent
<1> QED
    BY <1>1, <1>2 DEF UsedUp, AttemptsPerGeneration

\* Nothing is pending in a budget whose tasks have only failed rows.
LEMMA NothingPending ==
  ASSUME IInv, NEW b \in Fingerprints,
         \A t \in TaskIds : tasks[t].budget = b =>
           \A n \in 1..Used(t) : HasFailed(attempts[t][n])
  PROVE  Budget!Pending(b) = {} /\ ~Budget!Succeeded(b)
<1>1. Budget!Pending(b) \subseteq TaskIds \X (1..2)
    BY DEF Budget!Pending
<1>2. ASSUME NEW t \in TaskIds, NEW n \in 1..2 PROVE <<t, n>> \notin Budget!Pending(b)
  <2> SUFFICES ASSUME <<t, n>> \in Budget!Pending(b) PROVE FALSE
      OBVIOUS
  <2>1. n \in 1..Used(t) /\ attempts[t][n].outcome = "none" /\ tasks[t].budget = b
      BY BudgetPending
  <2> QED
      BY <2>1 DEF HasFailed
<1>3. \A x \in TaskIds \X (1..2) : x \notin Budget!Pending(b)
  <2> TAKE x \in TaskIds \X (1..2)
  <2>1. x = <<x[1], x[2]>> /\ x[1] \in TaskIds /\ x[2] \in 1..2
      OBVIOUS
  <2> QED
      BY <1>2, <2>1
<1>4. \A a \in analyses : tasks[a.task].budget # b
    BY SuccessIsLast DEF HasFailed
<1> QED
    BY <1>1, <1>3, <1>4, BudgetSucceeds

\* Registering a new input, or retrying a failed task, opens a task.
LEMMA OpenStep ==
  ASSUME IInv, NEW b \in Fingerprints, NEW t \in TaskIds, tasks[t] = Unused,
         \A u \in TaskIds : tasks[u].budget = b => UsedUp(u),
         NEW made, made.budget = b, tasks' = [tasks EXCEPT ![t] = made],
         UNCHANGED <<attempts, analyses>>
  PROVE  Budget!Open(b, t)
<1>1. BOwner[t] = NoFingerprint
    BY DEF BOwner, Unused
<1>2. Budget!Pending(b) = {} /\ ~Budget!Succeeded(b)
    BY NothingPending DEF UsedUp
<1>3. \A u \in TaskIds : BOwner[u] = b => Budget!FullySpent(u)
    BY BudgetSpent DEF BOwner
<1>4. BOwner' = [BOwner EXCEPT ![t] = b]
    BY DEF BOwner, IInv, TypeOK
<1>5. BSpent' = BSpent /\ BFailed' = BFailed /\ BResults' = BResults
    BY DEF BSpent, BFailed, BResults, Used
<1>6. BFailed' = BFailed \cup Budget!Pending(b)
    BY <1>2, <1>5
<1> QED
    BY <1>1, <1>2, <1>3, <1>4, <1>5, <1>6
       DEF Budget!Open, BOwner, BSpent, BFailed, BResults

\* A claim spends the next attempt of the only task of its budget not used up.
LEMMA SpendStep ==
  ASSUME IInv, NEW c \in Callers, NEW t \in TaskIds, Claim(c, t)
  PROVE  \E n \in 1..2 : Budget!Spend(t, n)
<1> DEFINE b == tasks[t].budget
           n == Used(t) + 1
           row == [claimed |-> now, renewals |-> <<>>, outcome |-> "none", settled |-> 0]
<1>1. /\ Used(t) \in {0, 1}
      /\ \A m \in 1..Used(t) : HasFailed(attempts[t][m])
      /\ b # NoFingerprint
      /\ \A u \in TaskIds : SameBudget(t, u) /\ u # t => UsedUp(u)
    BY ReadyIsLatest DEF Claim, MayClaim
<1>2. n \in 1..2 /\ b \in Fingerprints
    BY <1>1, RowTypes DEF IInv, Task
<1>3. Budget!Pending(b) = {} /\ ~Budget!Succeeded(b)
  <2>1. \A u \in TaskIds : tasks[u].budget = b =>
          \A m \in 1..Used(u) : HasFailed(attempts[u][m])
      BY <1>1 DEF SameBudget, UsedUp
  <2> HIDE DEF b
  <2> QED
      BY <1>2, <2>1, NothingPending
<1>4. /\ attempts' = [attempts EXCEPT ![t] = Append(attempts[t], row)]
      /\ UNCHANGED <<tasks, analyses>>
    BY DEF Claim
<1>5. row \in Attempt /\ row.outcome = "none"
  <2>1. now \in Int /\ <<>> \in Seq(Int)
      BY EmptySeq DEF IInv, TypeOK
  <2> QED
      BY <2>1 DEF Attempt, Outcomes
<1> HIDE DEF row
<1>6. /\ attempts'[t] = Append(attempts[t], row)
      /\ \A u \in TaskIds : u # t => attempts'[u] = attempts[u]
      /\ Used(t)' = n
      /\ \A m \in 1..Used(t) : attempts'[t][m] = attempts[t][m]
      /\ attempts'[t][n].outcome = "none"
  <2>1. attempts'[t] = Append(attempts[t], row)
        /\ \A u \in TaskIds : u # t => attempts'[u] = attempts[u]
      BY <1>4 DEF IInv, TypeOK
  <2> QED
      BY <1>5, <2>1, RowTypes, AppendProperties DEF IInv, Used
<1>7. BOwner' = BOwner /\ BResults' = BResults /\ BOwner[t] = b
    BY <1>4 DEF BOwner, BResults
<1>8. \A u \in TaskIds \ {t} : BOwner[u] = BOwner[t] => Budget!FullySpent(u)
    BY <1>1, BudgetSpent DEF BOwner, SameBudget
<1>9. <<t, n>> \notin BSpent /\ \A m \in 1..2 : m < n => <<t, m>> \in BSpent
    BY <1>1, <1>2, BudgetSpent
<1>10. \A u \in TaskIds : Used(u) \in Nat /\ Used(u)' = IF u = t THEN n ELSE Used(u)
    BY <1>6, RowTypes DEF IInv, Used
<1>11. BSpent' = BSpent \cup {<<t, n>>}
  <2>1. \A x \in TaskIds \X (1..2) :
          x[2] <= Used(x[1])' <=> x[2] <= Used(x[1]) \/ x = <<t, n>>
    <3> SUFFICES ASSUME NEW u \in TaskIds, NEW m \in 1..2
                 PROVE  m <= Used(u)' <=> m <= Used(u) \/ (u = t /\ m = n)
        OBVIOUS
    <3> QED
        BY <1>1, <1>10
  <2>2. <<t, n>> \in TaskIds \X (1..2)
      BY <1>2
  <2> HIDE DEF n
  <2> QED
      BY <2>1, <2>2 DEF BSpent
<1>12. BFailed' = BFailed \cup Budget!Pending(b)
  <2>1. ASSUME NEW x \in TaskIds \X (1..2)
        PROVE  (x[2] <= Used(x[1])' /\ HasFailed(attempts[x[1]][x[2]])')
                 <=> (x[2] <= Used(x[1]) /\ HasFailed(attempts[x[1]][x[2]]))
    <3>1. PICK u \in TaskIds, m \in 1..2 : x = <<u, m>> /\ x[1] = u /\ x[2] = m
        OBVIOUS
    <3>2. (m <= Used(u)' /\ HasFailed(attempts[u][m])')
            <=> (m <= Used(u) /\ HasFailed(attempts[u][m]))
      <4>1. CASE u = t
        <5>1. \/ m \in 1..Used(t) /\ m <= Used(t)
              \/ m = n /\ ~(m <= Used(t))
              \/ ~(m <= n) /\ ~(m <= Used(t))
            BY <1>1
        <5>2. m \in 1..Used(t) => attempts'[t][m] = attempts[t][m] /\ m <= n
            BY <1>1, <1>6
        <5>3. ~HasFailed(attempts'[t][n])
            BY <1>6 DEF HasFailed
        <5> HIDE DEF n
        <5> QED
            BY <1>6, <4>1, <5>1, <5>2, <5>3 DEF HasFailed
      <4>2. CASE u # t
          BY <1>6, <1>10, <4>2 DEF HasFailed
      <4> QED
          BY <4>1, <4>2
    <3> QED
        BY <3>1, <3>2 DEF HasFailed
  <2>2. BFailed' = BFailed
      BY <2>1 DEF BFailed, HasFailed
  <2> QED
      BY <1>3, <2>2
<1> HIDE DEF n
<1> QED
    BY <1>1, <1>2, <1>3, <1>7, <1>8, <1>9, <1>11, <1>12
       DEF Budget!Spend, Budget!Numbers, BOwner, BSpent, BFailed, BResults

\* The settlement of the unsettled attempt of a task as a failure.
LEMMA FailStep ==
  ASSUME IInv, NEW t \in TaskIds, NEW n \in 1..Used(t), RowsKept,
         attempts[t][n].outcome = "none", HasFailed(attempts'[t][n]),
         \A u \in TaskIds : \A m \in 1..Used(u) :
           u # t \/ m # n => attempts'[u][m] = attempts[u][m],
         UNCHANGED <<tasks, analyses>>
  PROVE  \E a \in Budget!Attempts : Budget!Fail(a)
<1> DEFINE b == tasks[t].budget
           a == <<t, n>>
<1>1. n \in 1..2 /\ Used(t) \in Nat /\ n = Used(t)
    BY UnsettledIsLast, RowTypes DEF IInv, Counted, AttemptsPerGeneration
<1>2. b \in Fingerprints
    BY UnsettledIsLast, RowTypes DEF IInv, Task
<1>3. a \in Budget!Pending(b)
    BY <1>1, <1>2, BudgetPending
<1>4. /\ BOwner' = BOwner /\ BSpent' = BSpent /\ BResults' = BResults
      /\ BOwner[t] = b
    BY DEF BOwner, BSpent, BResults, RowsKept
<1>5. BFailed' = BFailed \cup {a}
  <2>1. ASSUME NEW x \in TaskIds \X (1..2)
        PROVE  (x[2] <= Used(x[1])' /\ HasFailed(attempts'[x[1]][x[2]]))
                 <=> (x[2] <= Used(x[1]) /\ HasFailed(attempts[x[1]][x[2]])) \/ x = a
    <3>1. PICK u \in TaskIds, m \in 1..2 : x = <<u, m>> /\ x[1] = u /\ x[2] = m
        OBVIOUS
    <3>2. Used(u)' = Used(u) /\ (m <= Used(u) => m \in 1..Used(u))
        BY RowTypes DEF RowsKept, IInv
    <3>3. CASE u = t /\ m = n
        BY <1>1, <3>1, <3>2, <3>3
    <3>4. CASE u # t \/ m # n
        BY <3>1, <3>2, <3>4
    <3> QED
        BY <3>3, <3>4
  <2>2. a \in TaskIds \X (1..2)
      BY <1>1
  <2> HIDE DEF a
  <2> QED
      BY <2>1, <2>2 DEF BFailed, HasFailed
<1>6. a \in Budget!Attempts /\ a[1] = t
    BY <1>1 DEF Budget!Attempts, Budget!Numbers
<1>7. b # NoFingerprint
    BY <1>2, NullAssumption
<1> HIDE DEF a, b
<1> QED
    BY <1>3, <1>4, <1>5, <1>6, <1>7 DEF Budget!Fail, BOwner, BSpent, BFailed, BResults

\* The acceptance of the unsettled attempt is the only pending one of its budget.
LEMMA AcceptStep ==
  ASSUME IInv, NEW c \in Callers, SubmitAccepted(c)
  PROVE  \E a \in Budget!Attempts, x \in Candidates : Budget!AcceptResult(a, x)
<1>0. PICK t \in TaskIds, n \in 1..2 : t = callers[c].task /\ n = callers[c].ordinal
    BY CallerTypes DEF SubmitAccepted, IInv
<1> DEFINE b == tasks[t].budget
           a == <<t, n>>
           x == callers[c].candidate
<1>1. /\ callers[c].op = "published" /\ Owns(c) /\ ~Succeeded(t) /\ UNCHANGED tasks
    BY <1>0 DEF SubmitAccepted
<1>2. PICK at \in LaterReading :
        /\ SettleAs(c, "accepted", at)
        /\ analyses' = analyses \cup
             {[task |-> t, ordinal |-> n, artifact |-> x, settled |-> at]}
    BY <1>0 DEF SubmitAccepted
<1>3. /\ n \in 1..Used(t) /\ attempts[t][n].outcome = "none" /\ x \in Candidates
    BY <1>0, <1>1, OwnedRow DEF Owns, IInv, HandlesGranted, Granted
<1>4. /\ n = Used(t) /\ b # NoFingerprint
      /\ \A u \in TaskIds : SameBudget(t, u) /\ u # t => UsedUp(u)
    BY <1>3, UnsettledIsLast
<1>5. b \in Fingerprints
    BY <1>4, RowTypes DEF IInv, Task
<1>6. "accepted" \in Outcomes
    BY DEF Outcomes
<1>7. /\ RowsKept /\ attempts'[t][n].outcome = "accepted"
      /\ \A u \in TaskIds : \A m \in 1..Used(u) :
           u # t \/ m # n => attempts'[u][m] = attempts[u][m]
  <2>1. /\ RowsKept
        /\ attempts'[callers[c].task][callers[c].ordinal].outcome = "accepted"
        /\ \A u \in TaskIds : \A m \in 1..Used(u) :
             u # callers[c].task \/ m # callers[c].ordinal =>
               attempts'[u][m] = attempts[u][m]
      BY <1>1, <1>2, <1>6, SettledRow
  <2> QED
      BY <1>0, <2>1
<1>8. ~Budget!Succeeded(b)
  <2>1. \A d \in analyses : d.task # t
      BY <1>1 DEF Succeeded
  <2>2. \A d \in analyses : tasks[d.task].budget # b
      BY <1>4, <2>1, SuccessIsLast DEF SameBudget, UsedUp, HasFailed
  <2> QED
      BY <1>5, <2>2, BudgetSucceeds
<1>9. Budget!Pending(b) = {a}
  <2>1. Budget!Pending(b) \subseteq TaskIds \X (1..2)
      BY DEF Budget!Pending
  <2>2. a \in Budget!Pending(b)
      BY <1>3, <1>5, BudgetPending
  <2>3. ASSUME NEW u \in TaskIds, NEW m \in 1..2, <<u, m>> \in Budget!Pending(b)
        PROVE  u = t /\ m = n
    <3>1. m \in 1..Used(u) /\ attempts[u][m].outcome = "none" /\ tasks[u].budget = b
        BY <1>5, <2>3, BudgetPending
    <3>2. u = t
        BY <1>4, <3>1 DEF SameBudget, UsedUp, HasFailed
    <3> QED
        BY <1>4, <3>1, <3>2, UnsettledIsLast
  <2>4. \A y \in Budget!Pending(b) : y = a
    <3> TAKE y \in Budget!Pending(b)
    <3>1. y = <<y[1], y[2]>> /\ y[1] \in TaskIds /\ y[2] \in 1..2
        BY <2>1
    <3> QED
        BY <2>3, <3>1
  <2> HIDE DEF a
  <2> QED
      BY <2>2, <2>4
<1>10. BOwner' = BOwner /\ BSpent' = BSpent /\ BOwner[t] = b
    BY <1>1, <1>7 DEF BOwner, BSpent, RowsKept
<1>11. BFailed' = BFailed
  <2>1. ASSUME NEW y \in TaskIds \X (1..2)
        PROVE  (y[2] <= Used(y[1])' /\ HasFailed(attempts'[y[1]][y[2]]))
                 <=> (y[2] <= Used(y[1]) /\ HasFailed(attempts[y[1]][y[2]]))
    <3>1. PICK u \in TaskIds, m \in 1..2 : y = <<u, m>> /\ y[1] = u /\ y[2] = m
        OBVIOUS
    <3>2. Used(u)' = Used(u) /\ (m <= Used(u) => m \in 1..Used(u))
        BY <1>7, RowTypes DEF RowsKept, IInv
    <3>3. CASE u = t /\ m = n
        BY <1>3, <1>7, <3>1, <3>2, <3>3 DEF HasFailed
    <3>4. CASE u # t \/ m # n
        BY <1>7, <3>1, <3>2, <3>4
    <3> QED
        BY <3>3, <3>4
  <2> QED
      BY <2>1 DEF BFailed, HasFailed
<1>12. BResults' = BResults \cup {[attempt |-> a, value |-> x]}
  <2> DEFINE result(d) == [attempt |-> <<d.task, d.ordinal>>, value |-> d.artifact]
             new == [task |-> t, ordinal |-> n, artifact |-> x, settled |-> at]
  <2>1. BResults = {result(d) : d \in analyses} /\ BResults' = {result(d) : d \in analyses'}
      BY DEF BResults
  <2>2. result(new) = [attempt |-> a, value |-> x]
      OBVIOUS
  <2>3. analyses' = analyses \cup {new}
      BY <1>2
  <2> HIDE DEF result, new
  <2> QED
      BY <2>1, <2>2, <2>3
<1>13. a \in Budget!Attempts /\ a[1] = t
    BY DEF Budget!Attempts, Budget!Numbers
<1> HIDE DEF a, b, x
<1> QED
    BY <1>3, <1>4, <1>8, <1>9, <1>10, <1>11, <1>12, <1>13
       DEF Budget!AcceptResult, BOwner, BSpent, BFailed, BResults, x

\* Every step of the service is a step of the budget, or one it does not see.
LEMMA BudgetStep == IInv /\ [Next]_vars => [Budget!Next]_(Budget!vars)
<1> SUFFICES ASSUME IInv, [Next]_vars
             PROVE  Budget!Next \/ UNCHANGED Budget!vars
    OBVIOUS
<1>1. ASSUME UNCHANGED <<tasks, attempts, analyses>> PROVE UNCHANGED Budget!vars
    BY <1>1, BudgetSeesNothing DEF Used, HasFailed
<1>2. ASSUME NEW c \in Callers, NEW i \in RequestIds, NEW b \in Fingerprints,
             Register(c, i, b)
      PROVE  Budget!Next \/ UNCHANGED Budget!vars
  <2>1. CASE TasksOf(b) = {}
    <3> DEFINE made == [budget |-> b, generation |-> 1, parent |-> NoTask]
    <3>1. PICK t \in TaskIds : tasks[t] = Unused /\ tasks' = [tasks EXCEPT ![t] = made]
        BY <1>2, <2>1 DEF Register
    <3>2. \A u \in TaskIds : tasks[u].budget # b
        BY <2>1 DEF TasksOf
    <3>3. made.budget = b
        OBVIOUS
    <3>4. UNCHANGED <<attempts, analyses>>
        BY <1>2 DEF Register
    <3> HIDE DEF made
    <3>5. Budget!Open(b, t)
        BY <3>1, <3>2, <3>3, <3>4, OpenStep
    <3> QED
        BY <3>5 DEF Budget!Next
  <2>2. CASE TasksOf(b) # {}
      BY <1>1, <1>2, <2>2 DEF Register
  <2> QED
      BY <2>1, <2>2
<1>3. ASSUME NEW i \in RequestIds, NEW p \in TaskIds, NewGeneration(i, p)
      PROVE  Budget!Next
  <2> DEFINE b == tasks[p].budget
             made == [budget |-> tasks[p].budget,
                      generation |-> tasks[p].generation + 1, parent |-> p]
  <2>1. PICK t \in TaskIds : tasks[t] = Unused /\ tasks' = [tasks EXCEPT ![t] = made]
      BY <1>3 DEF NewGeneration
  <2>2. /\ b # NoFingerprint
        /\ \A u \in TaskIds : tasks[u].budget = b => UsedUp(u)
      BY <1>3, RetriedIsUsedUp DEF NewGeneration, SameBudget
  <2>3. b \in Fingerprints
      BY <2>2, RowTypes DEF IInv, Task
  <2>4. made.budget = b /\ UNCHANGED <<attempts, analyses>>
      BY <1>3 DEF NewGeneration
  <2> HIDE DEF made, b
  <2>5. Budget!Open(b, t)
      BY <2>1, <2>2, <2>3, <2>4, OpenStep
  <2> QED
      BY <2>3, <2>5 DEF Budget!Next
<1>4. ASSUME NEW c \in Callers, NEW t \in TaskIds, Claim(c, t) PROVE Budget!Next
    BY <1>4, SpendStep DEF Budget!Next, Budget!Numbers
<1>5. ASSUME NEW c \in Callers, Renew(c) PROVE UNCHANGED Budget!vars
  <2>1. /\ RowsKept /\ UNCHANGED <<tasks, analyses>>
        /\ attempts'[callers[c].task][callers[c].ordinal].outcome = "none"
        /\ \A u \in TaskIds : \A m \in 1..Used(u) :
             u # callers[c].task \/ m # callers[c].ordinal =>
               attempts'[u][m] = attempts[u][m]
      BY <1>5, RenewedRow DEF Renew
  <2>2. attempts[callers[c].task][callers[c].ordinal].outcome = "none"
      BY <1>5 DEF Renew, Owns, Row
  <2>3. \A u \in TaskIds : \A m \in 1..Used(u) :
          HasFailed(attempts[u][m])' = HasFailed(attempts[u][m])
      BY <2>1, <2>2 DEF HasFailed
  <2> QED
      BY <2>1, <2>3, BudgetSeesNothing DEF RowsKept
<1>6. ASSUME NEW c \in Callers, (\E f \in Failures : Fail(c, f)) \/ SubmitInvalid(c)
      PROVE  Budget!Next
  <2>0. PICK t \in TaskIds, n \in 1..2 : t = callers[c].task /\ n = callers[c].ordinal
      BY <1>6, CallerTypes DEF Fail, SubmitInvalid, IInv
  <2>1. /\ callers[c].op \in {"holding", "submitting", "published"} /\ Owns(c)
        /\ UNCHANGED <<tasks, analyses>>
      BY <1>6 DEF Fail, SubmitInvalid
  <2>2. PICK at \in LaterReading, o \in Outcomes :
          SettleAs(c, o, at) /\ o \notin {"none", "accepted"}
      BY <1>6, FailureAssumption DEF Fail, SubmitInvalid, Outcomes
  <2>3. /\ RowsKept
        /\ attempts'[callers[c].task][callers[c].ordinal].outcome = o
        /\ \A u \in TaskIds : \A m \in 1..Used(u) :
             u # callers[c].task \/ m # callers[c].ordinal =>
               attempts'[u][m] = attempts[u][m]
      BY <2>1, <2>2, SettledRow
  <2>4. n \in 1..Used(t) /\ attempts[t][n].outcome = "none"
      BY <2>0, <2>1, OwnedRow DEF Owns
  <2>5. HasFailed(attempts'[t][n])
        /\ \A u \in TaskIds : \A m \in 1..Used(u) :
             u # t \/ m # n => attempts'[u][m] = attempts[u][m]
      BY <2>0, <2>2, <2>3 DEF HasFailed
  <2>6. \E a \in Budget!Attempts : Budget!Fail(a)
      BY <2>1, <2>3, <2>4, <2>5, FailStep
  <2> QED
      BY <2>6 DEF Budget!Next
<1>7. ASSUME NEW c \in Callers, SubmitAccepted(c) PROVE Budget!Next
    BY <1>7, AcceptStep DEF Budget!Next
<1>8. ASSUME NEW t \in TaskIds, Reclaim(t) PROVE Budget!Next
  <2>1. PICK n \in 1..Used(t) : Expired(attempts[t][n])
      BY <1>8 DEF Reclaim
  <2>2. RowsKept /\ UNCHANGED <<tasks, analyses>>
        /\ (\A u \in TaskIds : u # t => attempts'[u] = attempts[u])
        /\ \A m \in 1..Used(t) :
             /\ ~Expired(attempts[t][m]) => attempts'[t][m] = attempts[t][m]
             /\ Expired(attempts[t][m]) => attempts'[t][m].outcome = "outcome_unknown"
      BY <1>8, ReclaimedRows DEF Reclaim
  <2>3. \A m \in 1..Used(t) : Expired(attempts[t][m]) => m = n
      BY <2>1, UnsettledIsLast DEF Expired
  <2>4. /\ attempts[t][n].outcome = "none" /\ HasFailed(attempts'[t][n])
        /\ \A u \in TaskIds : \A m \in 1..Used(u) :
             u # t \/ m # n => attempts'[u][m] = attempts[u][m]
      BY <2>1, <2>2, <2>3 DEF Expired, HasFailed
  <2>5. \E a \in Budget!Attempts : Budget!Fail(a)
      BY <2>2, <2>4, FailStep
  <2> QED
      BY <2>5 DEF Budget!Next
<1>9. ASSUME NEW c \in Callers, Hold(c)
      PROVE  Budget!Next \/ UNCHANGED Budget!vars
  <2>1. CASE (\E x \in Candidates : SubmitStarted(c, x)) \/ Publish(c) \/ SubmitRefused(c)
      BY <1>1, <2>1 DEF SubmitStarted, Publish, SubmitRefused
  <2> QED
      BY <1>5, <1>6, <1>7, <1>9, <2>1 DEF Hold
<1>10. ASSUME \/ \E c \in Callers, i \in RequestIds, b \in Fingerprints :
                   RegisterFails(c, i, b)
              \/ \E i \in RequestIds, p \in TaskIds : JoinRetry(i, p)
              \/ \E c \in Callers : Leave(c)
              \/ FactsChange \/ Tick \/ ClockSetBack \/ UNCHANGED vars
       PROVE  UNCHANGED Budget!vars
    BY <1>1, <1>10 DEF RegisterFails, JoinRetry, Leave, FactsChange, Tick, ClockSetBack,
       vars
<1> QED
    BY <1>2, <1>3, <1>4, <1>8, <1>9, <1>10 DEF Next, Retry

\* The Read service implements the attempt budget it shares with Screening: each of
\* its transactions is one step of the budget, or invisible.
THEOREM BudgetImplemented == Spec => ImplementsBudget
<1>1. Init => Budget!Init
  <2> SUFFICES ASSUME Init PROVE Budget!Init
      OBVIOUS
  <2>1. \A t \in TaskIds : Used(t) = 0 /\ tasks[t].budget = NoFingerprint
      BY EmptySeq DEF Init, Used, Unused
  <2>2. BOwner = [t \in TaskIds |-> NoFingerprint]
      BY <2>1 DEF BOwner
  <2>3. \A a \in TaskIds \X (1..2) : ~(a[2] <= Used(a[1]))
      BY <2>1
  <2>4. BSpent = {} /\ BFailed = {} /\ BResults = {}
      BY <2>3 DEF BSpent, BFailed, BResults, Init
  <2> QED
      BY <2>2, <2>4 DEF Budget!Init, BOwner, BSpent, BFailed, BResults
<1> QED
    BY <1>1, Invariant, BudgetStep, PTL DEF Spec, ImplementsBudget, Budget!Spec
================================================================================
