------------------------------ MODULE PiExecution ------------------------------
(***************************************************************************)
(* One controlled execution of Pi for a task: src/paper_radar/pi_execution  *)
(* (screening) and src/paper_radar/read_execution (reading, one at a time   *)
(* on a root). Admission, protection of the installation, the token, the    *)
(* claim, one session and its settlement, with kills of any of the          *)
(* processes. What a session says is RpcCall's; the budget of a task is      *)
(* ScreeningTasks' and ReadTasks'; the installations are PiInstalls'.       *)
(***************************************************************************)
EXTENDS Integers, FiniteSets, SequencesExt

CONSTANTS
  Readers, Screeners,   \* processes that execute an attempt
  ExecutionInstalls,    \* installations
  Evidenced,            \* those whose binding has an admission evidence
  AttemptLimit          \* attempts of a task

Executors == Readers \cup Screeners
NoExecutor == "nobody"
ASSUME NobodyAssumption == NoExecutor \notin Executors

VARIABLES
  rootHolder,     \* who holds .body-read.lock
  selected,       \* the installation activated last
  inPlace,        \* installations that are registered and not retired
  budgets,        \* the attempts of the reading task and of the screening task
  executors,      \* the Python frame of each run_attempt
  orphans         \* process groups nobody waits for any more

executionVars == <<rootHolder, selected, inPlace, budgets, executors, orphans>>

KindOf(c) == IF c \in Readers THEN "read" ELSE "screening"
AtRestNow == [at |-> "idle", binding |-> "none", use |-> "none", session |-> "none",
              dir |-> FALSE, ordinal |-> 0, told |-> FALSE, result |-> "none"]
Goes(c, at) == executors' = [executors EXCEPT ![c].at = at]

\* Whether an attempt follows a rejected candidate, and so is told of it.
FollowsRejection(attempts) == attempts # <<>> /\ Last(attempts).outcome = "rejected"
Claimable(attempts) ==
  /\ Len(attempts) < AttemptLimit
  /\ \A n \in DOMAIN attempts : attempts[n].outcome \notin {"in_flight", "accepted"}

Group(kind, install) == [kind |-> kind, install |-> install]
\* The groups a living executor waits for.
Attended ==
  {Group(executors[c].session, executors[c].use) :
     c \in {d \in Executors : executors[d].session # "none"}}
InUse(i) ==
  (\E c \in Executors : executors[c].use = i) \/ (\E g \in orphans : g.install = i)

-------------------------------------------------------------------------------
(* Before the claim *)

\* A reading waits for the root, before its token and its attempt.
EnterExecution(c) ==
  /\ executors[c].at = "idle"
  /\ Goes(c, IF c \in Readers THEN "waiting" ELSE "prepare")
  /\ UNCHANGED <<rootHolder, selected, inPlace, budgets, orphans>>
TakeRoot(c) ==
  /\ executors[c].at = "waiting" /\ rootHolder = NoExecutor
  /\ rootHolder' = c /\ Goes(c, "prepare")
  /\ UNCHANGED <<selected, inPlace, budgets, orphans>>

\* The binding is made of the selected installation; without evidence: refused.
Admit(c) ==
  /\ executors[c].at = "prepare"
  /\ executors' = IF selected \in Evidenced
                  THEN [executors EXCEPT ![c].at = "admitted", ![c].binding = selected]
                  ELSE [executors EXCEPT ![c].at = "releasing"]
  /\ UNCHANGED <<rootHolder, selected, inPlace, budgets, orphans>>
\* prepare_launch: the installation that is selected now, held shared.
UseInstall(c) ==
  /\ executors[c].at = "admitted"
  /\ \/ /\ selected \in inPlace
        /\ executors' = [executors EXCEPT ![c].at = "using", ![c].use = selected]
     \/ Goes(c, "releasing")
  /\ UNCHANGED <<rootHolder, selected, inPlace, budgets, orphans>>

\* credential_token: a process of its own, which inherits the hold.
StartToken(c) ==
  /\ executors[c].at = "using"
  /\ executors' = [executors EXCEPT ![c].at = "token", ![c].session = "token"]
  /\ UNCHANGED <<rootHolder, selected, inPlace, budgets, orphans>>
TokenEnds(c) ==
  /\ executors[c].at = "token"
  /\ \/ /\ \E at \in {"prepared", "releasing"} :
             executors' = [executors EXCEPT ![c].at = at, ![c].session = "none"]
        /\ UNCHANGED orphans
     \/ /\ executors' = [executors EXCEPT ![c].at = "releasing", ![c].session = "none"]
        /\ orphans' = orphans \cup {Group("token", executors[c].use)}
  /\ UNCHANGED <<rootHolder, selected, inPlace, budgets>>

\* A wrong variant: the installation is not compared again.
CheckBindingNot(c) ==
  /\ executors[c].at = "prepared"
  /\ Goes(c, "bound")
  /\ UNCHANGED <<rootHolder, selected, inPlace, budgets, orphans>>
CheckBinding(c) ==
  /\ executors[c].at = "prepared"
  /\ Goes(c, IF executors[c].use = executors[c].binding THEN "bound" ELSE "releasing")
  /\ UNCHANGED <<rootHolder, selected, inPlace, budgets, orphans>>

-------------------------------------------------------------------------------
(* The attempt *)

\* The correction is the one of the claim, whatever was read before; a message
\* that is too long then, or a task that cannot be claimed, ends it here.
Claim(c) ==
  LET attempts == budgets[KindOf(c)]
  IN /\ executors[c].at = "bound"
     /\ \/ /\ Claimable(attempts)
           /\ budgets' = [budgets EXCEPT ![KindOf(c)] =
                Append(@, [outcome |-> "in_flight", install |-> "none"])]
           /\ executors' = [executors EXCEPT ![c].at = "claimed",
                ![c].ordinal = Len(attempts) + 1, ![c].told = FollowsRejection(attempts)]
        \/ Goes(c, "releasing") /\ UNCHANGED budgets
     /\ UNCHANGED <<rootHolder, selected, inPlace, orphans>>

\* The directory of the attempt, then the process; a start that fails is an answer.
Launch(c) ==
  /\ executors[c].at = "claimed"
  /\ \/ executors' = [executors EXCEPT ![c].at = "running", ![c].session = "session",
                                       ![c].dir = TRUE]
     \/ executors' = [executors EXCEPT ![c].at = "answered", ![c].result = "failed"]
  /\ UNCHANGED <<rootHolder, selected, inPlace, budgets, orphans>>

\* _OwnedSession.terminate: the directory goes when the whole group has gone, and
\* only then is there a candidate. An interruption leaves the attempt unsettled.
CallEnds(c) ==
  /\ executors[c].at = "running"
  /\ \/ \E result \in {"candidate", "failed"} :
          executors' = [executors EXCEPT ![c].at = "answered", ![c].result = result,
                                         ![c].session = "none", ![c].dir = FALSE]
     \/ executors' = [executors EXCEPT ![c].at = "answered", ![c].result = "failed",
                                       ![c].session = "none"]
     \/ executors' = [executors EXCEPT ![c].at = "answered", ![c].result = "failed"]
     \/ executors' = [executors EXCEPT ![c].at = "releasing", ![c].session = "none",
                                       ![c].dir = FALSE]
  /\ UNCHANGED <<rootHolder, selected, inPlace, budgets, orphans>>

\* submit_pi, run_once and fail: only the attempt that is still unsettled.
SettleCall(c) ==
  LET kind == KindOf(c)
      Settled(outcome, install) ==
        [budgets EXCEPT ![kind][executors[c].ordinal] =
           [outcome |-> outcome, install |-> install]]
  IN /\ executors[c].at = "answered"
     /\ IF budgets[kind][executors[c].ordinal].outcome # "in_flight" THEN UNCHANGED budgets
        ELSE IF executors[c].result = "failed" THEN budgets' = Settled("failed", "none")
        ELSE \/ budgets' = Settled("accepted", executors[c].use)
             \/ \E outcome \in {"rejected", "failed"} : budgets' = Settled(outcome, "none")
     /\ Goes(c, "releasing")
     /\ UNCHANGED <<rootHolder, selected, inPlace, orphans>>

\* prepared.close() cannot end a group whose deadline has passed; then the
\* installation and the root are let go.
LetGo(c) ==
  /\ executors[c].at = "releasing"
  /\ executors' = [executors EXCEPT ![c] = AtRestNow]
  /\ orphans' = IF executors[c].session = "none" THEN orphans
                ELSE orphans \cup {Group(executors[c].session, executors[c].use)}
  /\ rootHolder' = IF rootHolder = c THEN NoExecutor ELSE rootHolder
  /\ UNCHANGED <<selected, inPlace, budgets>>

-------------------------------------------------------------------------------
(* Kills and others *)

\* A kill frees the locks of the process, not those its children have inherited;
\* while it lets go, it does the same as LetGo.
KillExecutor(c) ==
  /\ executors[c].at \notin {"idle", "releasing"}
  /\ executors' = [executors EXCEPT ![c] = AtRestNow]
  /\ orphans' = IF executors[c].session = "none" THEN orphans
                ELSE orphans \cup {Group(executors[c].session, executors[c].use)}
  /\ rootHolder' = IF rootHolder = c THEN NoExecutor ELSE rootHolder
  /\ UNCHANGED <<selected, inPlace, budgets>>
OrphanEnds(g) ==
  /\ g \in orphans /\ orphans' = orphans \ {g}
  /\ UNCHANGED <<rootHolder, selected, inPlace, budgets, executors>>

\* Someone settles an attempt whose lease is over, its holder alive or not.
ReclaimAttempt(kind) ==
  /\ budgets[kind] # <<>> /\ Last(budgets[kind]).outcome = "in_flight"
  /\ budgets' = [budgets EXCEPT ![kind][Len(budgets[kind])] = [outcome |-> "unknown", install |-> "none"]]
  /\ UNCHANGED <<rootHolder, selected, inPlace, executors, orphans>>
Activate(i) ==
  /\ i \in inPlace \ {selected} /\ selected' = i
  /\ UNCHANGED <<rootHolder, inPlace, budgets, executors, orphans>>
\* Cleanup retires what it could lock exclusively and is not selected.
RetireInstall(i) ==
  /\ i \in inPlace \ {selected} /\ ~InUse(i)
  /\ inPlace' = inPlace \ {i}
  /\ UNCHANGED <<rootHolder, selected, budgets, executors, orphans>>

ExecutionInit ==
  /\ rootHolder = NoExecutor /\ inPlace = ExecutionInstalls
  /\ selected \in ExecutionInstalls
  /\ budgets = [kind \in {"read", "screening"} |-> <<>>]
  /\ executors = [c \in Executors |-> AtRestNow]
  /\ orphans = {}
ExecutionNext ==
  \/ \E c \in Executors :
       \/ EnterExecution(c) \/ TakeRoot(c) \/ Admit(c) \/ UseInstall(c)
       \/ StartToken(c) \/ TokenEnds(c) \/ CheckBinding(c) \/ Claim(c) \/ Launch(c)
       \/ CallEnds(c) \/ SettleCall(c) \/ LetGo(c) \/ KillExecutor(c)
  \/ \E g \in orphans : OrphanEnds(g)
  \/ \E kind \in {"read", "screening"} : ReclaimAttempt(kind)
  \/ \E i \in ExecutionInstalls : Activate(i) \/ RetireInstall(i)
ExecutionSpec == ExecutionInit /\ [][ExecutionNext]_executionVars

-------------------------------------------------------------------------------
(* What must hold *)

\* While others activate, retire, reclaim and die: every process of Pi, also one
\* its parent has left, runs in an installation that is in place, and a session
\* only in one that was admitted; readings that are alive exclude each other on
\* the root from the admission on (read_tasks/execution.py:25); an accepted answer
\* was given under an admitted installation, and the answer of a session exists
\* only when its group and its directory are gone; an attempt was told of a
\* rejected candidate exactly if the attempt before it was rejected.
ExecutionIsSound ==
  /\ \A g \in Attended \cup orphans :
       g.install \in inPlace /\ (g.kind = "session" => g.install \in Evidenced)
  /\ \A c, d \in Readers :
       {executors[c].at, executors[d].at} \cap {"idle", "waiting"} = {} => c = d
  /\ \A c \in Executors :
       /\ executors[c].result = "candidate" =>
            executors[c].session = "none" /\ ~executors[c].dir
       /\ executors[c].session = "session" => executors[c].dir
       /\ executors[c].ordinal # 0 =>
            executors[c].told =
              FollowsRejection(SubSeq(budgets[KindOf(c)], 1, executors[c].ordinal - 1))
  /\ \A kind \in DOMAIN budgets : \A n \in DOMAIN budgets[kind] :
       budgets[kind][n].outcome = "accepted" => budgets[kind][n].install \in Evidenced
=============================================================================
