----------------------------- MODULE AttemptBudget -----------------------------
(***************************************************************************)
(* What a task service promises about one budget, whatever its clock,      *)
(* leases, credentials and callers do: a chain of tasks, at most two       *)
(* attempts each, at most one attempt in flight, at most one result, and   *)
(* no new task before every attempt has been spent and has failed.         *)
(* The Screening and the Read services both implement it.                  *)
(***************************************************************************)
EXTENDS Integers

CONSTANTS Budgets, Tasks, Results,
          NoBudget   \* not one of Budgets

VARIABLES
  owner,    \* the budget a task belongs to, or NoBudget
  spent,    \* attempts <<task, number>> ever granted
  failed,   \* attempts settled as failures
  results   \* accepted results, with their attempt

vars == <<owner, spent, failed, results>>

Numbers == 1..2
Attempts == Tasks \X Numbers

TypeOK ==
  /\ owner \in [Tasks -> Budgets \cup {NoBudget}]
  /\ spent \subseteq Attempts
  /\ failed \subseteq spent
  /\ results \subseteq [attempt : spent, value : Results]

Succeeded(b) == \E r \in results : owner[r.attempt[1]] = b
Accepted == {r.attempt : r \in results}
Pending(b) == {a \in (spent \ failed) \ Accepted : owner[a[1]] = b}
FullySpent(t) == \A n \in Numbers : <<t, n>> \in spent

Init ==
  /\ owner = [t \in Tasks |-> NoBudget]
  /\ spent = {}
  /\ failed = {}
  /\ results = {}

\* The first task of a budget, or a further one; an attempt still pending is
\* given up in the same step.
Open(b, t) ==
  /\ owner[t] = NoBudget
  /\ ~Succeeded(b)
  /\ \A u \in Tasks : owner[u] = b => FullySpent(u)
  /\ owner' = [owner EXCEPT ![t] = b]
  /\ failed' = failed \cup Pending(b)
  /\ UNCHANGED <<spent, results>>

\* A new attempt; again the one still pending is given up.
Spend(t, n) ==
  /\ owner[t] # NoBudget
  /\ ~Succeeded(owner[t])
  /\ \A u \in Tasks \ {t} : owner[u] = owner[t] => FullySpent(u)
  /\ <<t, n>> \notin spent
  /\ \A m \in Numbers : m < n => <<t, m>> \in spent
  /\ spent' = spent \cup {<<t, n>>}
  /\ failed' = failed \cup Pending(owner[t])
  /\ UNCHANGED <<owner, results>>

Fail(a) ==
  /\ owner[a[1]] # NoBudget
  /\ a \in Pending(owner[a[1]])
  /\ failed' = failed \cup {a}
  /\ UNCHANGED <<owner, spent, results>>

AcceptResult(a, x) ==
  /\ owner[a[1]] # NoBudget
  /\ Pending(owner[a[1]]) = {a}
  /\ ~Succeeded(owner[a[1]])
  /\ results' = results \cup {[attempt |-> a, value |-> x]}
  /\ UNCHANGED <<owner, spent, failed>>

Next ==
  \/ \E b \in Budgets, t \in Tasks : Open(b, t)
  \/ \E t \in Tasks, n \in Numbers : Spend(t, n)
  \/ \E a \in Attempts : Fail(a) \/ (\E x \in Results : AcceptResult(a, x))

Spec == Init /\ [][Next]_vars

-------------------------------------------------------------------------------

\* A budget has at most one result, and every other attempt of it has failed:
\* no caller can later be told of another outcome or of a further attempt.
OneOutcome ==
  \A r \in results, a \in spent :
    owner[a[1]] = owner[r.attempt[1]] /\ a # r.attempt => a \in failed
===============================================================================
