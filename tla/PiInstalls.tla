------------------------------ MODULE PiInstalls ------------------------------
(***************************************************************************)
(* The installations of one Pi supply under one installation root          *)
(* (src/paper_radar/pi_supply): published by prepare and rebuild, selected *)
(* by activate, verified, used with a shared lock that child processes     *)
(* inherit, and collected by a saved plan under exclusive locks.           *)
(*                                                                         *)
(* An action is one write transaction, one lock call, or one change of the *)
(* installation root.  A lock belongs to an open file description: it is   *)
(* released when the last process that has it is gone.                     *)
(***************************************************************************)
EXTENDS Integers, FiniteSets, SequencesExt

CONSTANTS
  Installs,        \* pool of installation uuids
  Users,           \* processes that select, verify or use
  Publishers,      \* processes that prepare or rebuild
  Cleaners,        \* processes that plan and execute a cleanup
  NoInstall,
  Torn,            \* an intent file whose writer was killed half way
  Window,          \* how many activated installations are kept (4 in the code)
  Whole,           \* pieces of a complete tree
  MaxChecks, MaxActivations, MaxPlans, MaxRuns,   \* bounds on the histories
  MaxWaiting,      \* bound on the plans that wait for their execution
  MaxFaults        \* bound on the kills and the pieces lost to the outside

ASSUME NumberAssumption ==
  /\ Window \in Nat \ {0} /\ Whole \in Nat \ {0}
  /\ {MaxChecks, MaxActivations, MaxPlans, MaxRuns, MaxWaiting, MaxFaults} \subseteq Nat
ASSUME NullAssumption == NoInstall \notin Installs /\ Torn \notin Installs

Callers == Users \cup Publishers

VARIABLES
  facts,      \* the safety tables: installs, checks, activations, retirements
  plans,      \* pi_cleanup_plans
  runs,       \* pi_cleanup_executions and pi_cleanup_progress
  place,      \* where the tree of an installation is
  pieces,     \* how much of it is left: the content its hash identifies
  intents,    \* the intent files of prepare and rebuild
  callers,    \* what each caller has in hand
  children,   \* a process of a caller that inherited its lock
  cleaners,   \* the Python frame of each execute_cleanup_plan
  faults      \* kills and losses so far

vars == <<facts, plans, runs, place, pieces, intents, callers, children,
          cleaners, faults>>
database == <<facts, plans, runs>>
trees == <<place, pieces, faults>>

-------------------------------------------------------------------------------
(* Types *)

Check == [install : Installs, passed : BOOLEAN]
\* retired[i] is the number of the plan that retired i, 0 for none.
Facts == [installed : SUBSET Installs, checks : Seq(Check),
          activations : Seq(Installs), retired : [Installs -> 0..MaxPlans]]

Reasons == {"retained", "latest_install_check", "in_flight"}
Places == {"absent", "placed", "trash"}
Item == [place : Places, pieces : 0..Whole, protection : SUBSET Reasons,
         candidate : BOOLEAN]
Plan == [facts : Facts, items : [Installs -> Item]]

Phases == {"not_run", "blocked", "retired", "moved", "completed", "failed"}
Event == [install : Installs, phase : Phases]
Run == [plan : 1..MaxPlans, events : Seq(Event)]

Idle == [op |-> "idle"]
Caller == [op : {"use", "activate", "verify", "prepare", "rebuild"},
           at : {"candidate", "refused", "handle", "building",
                 "publishing", "intended", "placed", "released"},
           install : Installs \cup {NoInstall}, rest : Seq(Installs)]
Surveyed == [at : {"surveyed"}, plan : Plan]
Executing == [at : {"started", "locking", "checked", "retired",
                    "moved", "recorded", "deleting", "deleted"},
              run : 1..MaxRuns, expected : Facts, locked : SUBSET Installs,
              done : SUBSET Installs, item : Installs \cup {NoInstall}]

TypeOK ==
  /\ facts \in Facts
  /\ plans \in Seq(Plan) /\ Len(plans) <= MaxPlans
  /\ runs \in Seq(Run) /\ Len(runs) <= MaxRuns
  /\ place \in [Installs -> Places]
  /\ pieces \in [Installs -> 0..Whole]
  /\ intents \in [{"prepare", "rebuild"} -> Installs \cup {NoInstall, Torn}]
  /\ callers \in [Callers -> {Idle} \cup Caller]
  /\ children \in [Callers -> Installs \cup {NoInstall}]
  /\ cleaners \in [Cleaners -> {Idle} \cup Surveyed \cup Executing]
  /\ faults \in 0..MaxFaults

-------------------------------------------------------------------------------
(* Facts and retention *)

Retired(f) == {i \in Installs : f.retired[i] # 0}

\* acquire_install and use_install: registered, with a passed check, not retired.
Registered(i) == i \in facts.installed /\ i \notin Retired(facts)
Current == IF facts.activations = <<>> THEN NoInstall ELSE Last(facts.activations)

\* The current selection and the most recent ones before it, Window in all.
ActivatedSince(f, n) == Range(SubSeq(f.activations, n, Len(f.activations)))
Retained(f) ==
  {i \in Range(f.activations) :
     \E n \in DOMAIN f.activations :
       /\ f.activations[n] = i
       /\ Cardinality(ActivatedSince(f, n)) <= Window}

LastPassed(f, i) ==
  LET passing == {n \in DOMAIN f.checks : f.checks[n] = [install |-> i, passed |-> TRUE]}
  IN IF passing = {} THEN 0 ELSE Max(passing)
LatestChecked(f) ==
  {i \in f.installed :
     LastPassed(f, i) > 0 /\ \A j \in f.installed : LastPassed(f, j) <= LastPassed(f, i)}

Protection(f, busy, i) ==
  (IF i \in Retained(f) THEN {"retained"} ELSE {})
  \cup (IF i \in LatestChecked(f) THEN {"latest_install_check"} ELSE {})
  \cup (IF i \in busy THEN {"in_flight"} ELSE {})

CompletedInstalls ==
  {i \in Installs : \E n \in DOMAIN runs :
     [install |-> i, phase |-> "completed"] \in Range(runs[n].events)}

-------------------------------------------------------------------------------
(* Locks *)

LockStates == {"handle", "placed"}
Shared(i) ==
  \E c \in Callers :
    \/ callers[c] # Idle /\ callers[c].at \in LockStates /\ callers[c].install = i
    \/ children[c] = i
LockedBy(k) ==
  IF cleaners[k] = Idle \/ cleaners[k].at = "surveyed" THEN {} ELSE cleaners[k].locked
Exclusive(i) == \E k \in Cleaners : i \in LockedBy(k)

Complete(i) == place[i] = "placed" /\ pieces[i] = Whole

-------------------------------------------------------------------------------
(* Use, activation and verification *)

Takes(c, op, i, rest) ==
  callers' = [callers EXCEPT ![c] =
    [op |-> op, at |-> "candidate", install |-> i, rest |-> rest]]
Proceeds(c, at) == callers' = [callers EXCEPT ![c].at = at]
Stops(c) == callers' = [callers EXCEPT ![c] = Idle]

\* A lock or check that fails ends a use, tries the next installation of an
\* activation, and is itself the result of a verification.
Refused(c) ==
  CASE callers[c].op = "use" -> Stops(c)
    [] callers[c].op = "verify" -> Proceeds(c, "refused")
    [] callers[c].op = "activate" ->
         IF callers[c].rest = <<>> THEN Stops(c)
         ELSE Takes(c, "activate", Head(callers[c].rest), Tail(callers[c].rest))

Starts(c) == callers[c] = Idle /\ children[c] = NoInstall

UseSelected(c) ==
  /\ Starts(c)
  /\ Current # NoInstall /\ Registered(Current)
  /\ Takes(c, "use", Current, <<>>)
  /\ UNCHANGED <<database, trees, intents, children, cleaners>>

Verify(c, i) ==
  /\ Starts(c)
  /\ i \in facts.installed
  /\ IF Registered(i)
       THEN Takes(c, "verify", i, <<>>)
       ELSE callers' = [callers EXCEPT ![c] =
              [op |-> "verify", at |-> "refused", install |-> i, rest |-> <<>>]]
  /\ UNCHANGED <<database, trees, intents, children, cleaners>>

\* available_installs: those that can be acquired, the latest check first.
Available == {i \in Installs : Registered(i) /\ ~Exclusive(i) /\ Complete(i)}
LatestFirst(chosen) ==
  {order \in [1..Cardinality(chosen) -> chosen] :
     \A m, n \in DOMAIN order : m < n =>
       LastPassed(facts, order[m]) > LastPassed(facts, order[n])}

Activate(c) ==
  /\ Starts(c)
  /\ Available # {}
  /\ \E order \in LatestFirst(Available) : Takes(c, "activate", Head(order), Tail(order))
  /\ UNCHANGED <<database, trees, intents, children, cleaners>>

AcquireUnread(c) ==
  /\ callers[c] # Idle /\ callers[c].at = "candidate"
  /\ LET i == callers[c].install IN
       IF ~Exclusive(i) /\ Complete(i) THEN Proceeds(c, "handle") ELSE Refused(c)
  /\ UNCHANGED <<database, trees, intents, children, cleaners>>

\* _acquire: under the lock, what was read before it is read again, then the
\* whole tree.
Acquire(c) ==
  /\ callers[c] # Idle /\ callers[c].at = "candidate"
  /\ LET i == callers[c].install IN
       IF /\ ~Exclusive(i)
          /\ Registered(i)
          /\ callers[c].op = "use" => Current = i
          /\ Complete(i)
         THEN Proceeds(c, "handle") ELSE Refused(c)
  /\ UNCHANGED <<database, trees, intents, children, cleaners>>

\* A process runs from the installation and inherits the lock.
Spawn(c) ==
  /\ callers[c] # Idle /\ children[c] = NoInstall
  /\ \/ callers[c].op \in {"use", "verify"} /\ callers[c].at = "handle"
     \/ callers[c].op = "rebuild" /\ callers[c].at = "placed"
  /\ Complete(callers[c].install)
  /\ children' = [children EXCEPT ![c] = callers[c].install]
  /\ UNCHANGED <<database, trees, intents, callers, cleaners>>

ChildExits(c) ==
  /\ children[c] # NoInstall
  /\ children' = [children EXCEPT ![c] = NoInstall]
  /\ UNCHANGED <<database, trees, intents, callers, cleaners>>

\* The end of a use terminates its process before it closes the lock.
EndUse(c) ==
  /\ callers[c] # Idle /\ callers[c].op = "use" /\ callers[c].at = "handle"
  /\ Stops(c)
  /\ children' = [children EXCEPT ![c] = NoInstall]
  /\ UNCHANGED <<database, trees, intents, cleaners>>

\* The check is appended while the lock, if there is one, is still held.
RecordCheck(c) ==
  /\ callers[c] # Idle /\ callers[c].op = "verify"
  /\ callers[c].at \in {"handle", "refused"}
  /\ children[c] = NoInstall
  /\ Len(facts.checks) < MaxChecks
  /\ LET i == callers[c].install
         passed == callers[c].at = "handle" /\ Complete(i)
     IN facts' = [facts EXCEPT !.checks = Append(@, [install |-> i, passed |-> passed])]
  /\ Stops(c)
  /\ UNCHANGED <<plans, runs, trees, intents, children, cleaners>>

\* commit_activation: under the lock; it does not look at retirements.
CommitActivation(c) ==
  /\ callers[c] # Idle /\ callers[c].op = "activate" /\ callers[c].at = "handle"
  /\ Len(facts.activations) < MaxActivations
  /\ facts' = [facts EXCEPT !.activations = Append(@, callers[c].install)]
  /\ Stops(c)
  /\ UNCHANGED <<plans, runs, trees, intents, children, cleaners>>

-------------------------------------------------------------------------------
(* Publication: prepare and rebuild *)

\* The uuids of the pool that nothing names yet.
Unused ==
  {i \in Installs : /\ i \notin facts.installed /\ place[i] = "absent"
                    /\ \A op \in DOMAIN intents : intents[op] # i}

Build(c, op) ==
  /\ Starts(c)
  /\ Unused # {} \/ intents[op] # NoInstall
  /\ op = "prepare" => facts.installed = {}
  /\ op = "rebuild" => facts.installed # {}
  /\ callers' = [callers EXCEPT ![c] =
       [op |-> op, at |-> "building", install |-> NoInstall, rest |-> <<>>]]
  /\ UNCHANGED <<database, trees, intents, children, cleaners>>

PublishStates == {"publishing", "intended", "placed", "released"}
RootLocked == \E c \in Callers : callers[c] # Idle /\ callers[c].at \in PublishStates

\* Under the publication lock a prepare that lost the race returns the other's
\* installation, or a conflict; either way it registers nothing.
EnterPublication(c) ==
  /\ callers[c] # Idle /\ callers[c].at = "building"
  /\ ~RootLocked
  /\ IF callers[c].op = "prepare" /\ facts.installed # {}
       THEN Stops(c) ELSE Proceeds(c, "publishing")
  /\ UNCHANGED <<database, trees, intents, children, cleaners>>

\* _publication_intent: the intent on disk, or a new one, synced.
ReadIntent(c) ==
  /\ callers[c] # Idle /\ callers[c].at = "publishing"
  /\ LET op == callers[c].op IN
       \/ intents[op] = Torn /\ Stops(c) /\ UNCHANGED intents
       \/ \E i \in IF intents[op] = NoInstall THEN Unused ELSE {intents[op]} \ {Torn} :
            /\ intents' = [intents EXCEPT ![op] = i]
            /\ callers' = [callers EXCEPT ![c].at = "intended", ![c].install = i]
  /\ UNCHANGED <<database, trees, children, cleaners>>

\* publication_protection: a registered installation must not be retired.
MayPublish(i) == ~Exclusive(i) /\ (i \in facts.installed => Registered(i))

\* _publish_tree, under the shared lock: renamed into place, never over another;
\* a tree that is there already must be the expected one.
PublishTree(c) ==
  /\ callers[c] # Idle /\ callers[c].at = "intended"
  /\ LET i == callers[c].install IN
       IF MayPublish(i) /\ place[i] = "absent"
         THEN /\ place' = [place EXCEPT ![i] = "placed"]
              /\ pieces' = [pieces EXCEPT ![i] = Whole]
              /\ Proceeds(c, "placed")
         ELSE /\ IF MayPublish(i) /\ Complete(i) THEN Proceeds(c, "placed") ELSE Stops(c)
              /\ UNCHANGED <<place, pieces>>
  /\ UNCHANGED <<database, faults, intents, children, cleaners>>

\* commit_supply, and commit_install after the inspection of the tree in place;
\* then the lock is released, while the intent is still there.
CommitInstall(c) ==
  /\ callers[c] # Idle /\ callers[c].at = "placed" /\ children[c] = NoInstall
  /\ LET i == callers[c].install IN
       IF callers[c].op = "rebuild" /\ ~Complete(i)
         THEN Stops(c) /\ UNCHANGED facts
         ELSE /\ Proceeds(c, "released")
              /\ IF i \in facts.installed THEN UNCHANGED facts
                 ELSE /\ Len(facts.checks) < MaxChecks
                      /\ facts' = [facts EXCEPT !.installed = @ \cup {i},
                           !.checks = Append(@, [install |-> i, passed |-> TRUE])]
  /\ UNCHANGED <<plans, runs, trees, intents, children, cleaners>>

\* The unlink may fail: the installation is registered, the intent stays.
ForgetIntent(c) ==
  /\ callers[c] # Idle /\ callers[c].at = "released"
  /\ \E left \in {callers[c].install, NoInstall} :
       intents' = [intents EXCEPT ![callers[c].op] = left]
  /\ Stops(c)
  /\ UNCHANGED <<database, trees, children, cleaners>>

\* A kill between the creation of the intent file and its content leaves it torn.
Kill(c) ==
  /\ callers[c] # Idle
  /\ faults < MaxFaults /\ faults' = faults + 1
  /\ Stops(c)
  /\ \/ UNCHANGED intents
     \/ /\ callers[c].at = "publishing" /\ intents[callers[c].op] = NoInstall
        /\ intents' = [intents EXCEPT ![callers[c].op] = Torn]
  /\ UNCHANGED <<database, place, pieces, children, cleaners>>

-------------------------------------------------------------------------------
(* Cleanup plans *)

\* create_cleanup_plan: every installation is probed and its tree hashed.
\* A completed one that is there again is left to the operator.
Survey(i) ==
  LET busy == {j \in Installs : Shared(j) \/ Exclusive(j)} IN
  [place |-> place[i], pieces |-> pieces[i], protection |-> Protection(facts, busy, i),
   candidate |-> /\ i \in facts.installed
                 /\ place[i] # "absent"
                 /\ Protection(facts, busy, i) = {}
                 /\ i \notin CompletedInstalls]

SurveyInstalls(k) ==
  /\ cleaners[k] = Idle
  /\ Len(plans) < MaxPlans /\ Len(plans) < Len(runs) + MaxWaiting
  /\ cleaners' = [cleaners EXCEPT ![k] = [at |-> "surveyed",
       plan |-> [facts |-> facts, items |-> [i \in Installs |-> Survey(i)]]]]
  /\ UNCHANGED <<database, trees, intents, callers, children>>

SavePlanLate(k) ==
  /\ cleaners[k] # Idle /\ cleaners[k].at = "surveyed"
  /\ plans' = IF Len(plans) < MaxPlans
       THEN Append(plans, [cleaners[k].plan EXCEPT !.facts = facts]) ELSE plans
  /\ cleaners' = [cleaners EXCEPT ![k] = Idle]
  /\ UNCHANGED <<facts, runs, trees, intents, callers, children>>

\* Saved only if the facts it was made from still hold.
SavePlan(k) ==
  /\ cleaners[k] # Idle /\ cleaners[k].at = "surveyed"
  /\ IF cleaners[k].plan.facts = facts /\ Len(plans) < MaxPlans
       THEN plans' = Append(plans, cleaners[k].plan) ELSE UNCHANGED plans
  /\ cleaners' = [cleaners EXCEPT ![k] = Idle]
  /\ UNCHANGED <<facts, runs, trees, intents, callers, children>>

-------------------------------------------------------------------------------
(* Execution of a plan *)

Candidates(p) == {i \in Installs : plans[p].items[i].candidate}
PlanOf(k) == runs[cleaners[k].run].plan
Chosen(k) == Candidates(PlanOf(k))

EventsOf(chosen, phase) ==
  SetToSeq({[install |-> i, phase |-> phase] : i \in chosen})
Recorded(r, events) == [runs EXCEPT ![r].events = @ \o events]

\* The last phase of an installation before place n; "none" before its first event.
PhaseBefore(events, i, n) ==
  LET earlier == {m \in DOMAIN events : m < n /\ events[m].install = i}
  IN IF earlier = {} THEN "none" ELSE events[Max(earlier)].phase
Phase(r, i) == PhaseBefore(runs[r].events, i, Len(runs[r].events) + 1)

\* _record_failure: the failing installation, or all that have not started.
\* The frame is left, and with it every exclusive lock.
FailsAt(k, i) ==
  /\ runs' = Recorded(cleaners[k].run,
       EventsOf({i} \ {j \in {i} : Phase(cleaners[k].run, j) \in
                         {"completed", "failed", "blocked"}}, "failed"))
  /\ cleaners' = [cleaners EXCEPT ![k] = Idle]
FailsWhole(k) ==
  /\ runs' = Recorded(cleaners[k].run, EventsOf(Chosen(k), "blocked"))
  /\ cleaners' = [cleaners EXCEPT ![k] = Idle]
Moves(k, at) == cleaners' = [cleaners EXCEPT ![k].at = at]

Executes(k, at) == cleaners[k] # Idle /\ cleaners[k].at = at

\* collection_path and _check_item: the tree is where the plan saw it, unless it
\* was retired since, and has the content the plan saw.
AsPlanned(k, i) ==
  LET item == plans[PlanOf(k)].items[i] IN
  /\ i \notin CompletedInstalls
  /\ place[i] = item.place /\ pieces[i] = item.pieces

BeginRun(k, p) ==
  /\ cleaners[k] = Idle
  /\ Len(runs) < MaxRuns
  /\ Candidates(p) = {} => facts = plans[p].facts
  /\ runs' = Append(runs, [plan |-> p, events |-> EventsOf(Candidates(p), "not_run")])
  /\ cleaners' = [cleaners EXCEPT ![k] =
       IF Candidates(p) = {} THEN Idle
       ELSE [at |-> "started", run |-> Len(runs) + 1, expected |-> plans[p].facts,
             locked |-> {}, done |-> {}, item |-> NoInstall]]
  /\ UNCHANGED <<facts, plans, trees, intents, callers, children>>

\* The facts are compared before the locks, after them, and in the transaction.
CompareFacts(k) ==
  /\ Executes(k, "started")
  /\ IF facts = cleaners[k].expected THEN Moves(k, "locking") /\ UNCHANGED runs
     ELSE FailsWhole(k)
  /\ UNCHANGED <<facts, plans, trees, intents, callers, children>>

LockExclusiveBlindly(k) ==
  /\ Executes(k, "locking")
  /\ \E i \in Chosen(k) \ cleaners[k].locked :
       IF Exclusive(i) \/ ~AsPlanned(k, i)
         THEN FailsAt(k, i)
         ELSE /\ cleaners' = [cleaners EXCEPT ![k].locked = @ \cup {i}]
              /\ UNCHANGED runs
  /\ UNCHANGED <<facts, plans, trees, intents, callers, children>>

LockExclusive(k) ==
  /\ Executes(k, "locking")
  /\ \E i \in Chosen(k) \ cleaners[k].locked :
       IF Shared(i) \/ Exclusive(i) \/ ~AsPlanned(k, i)
         THEN FailsAt(k, i)
         ELSE /\ cleaners' = [cleaners EXCEPT ![k].locked = @ \cup {i}]
              /\ UNCHANGED runs
  /\ UNCHANGED <<facts, plans, trees, intents, callers, children>>

Recheck(k) ==
  /\ Executes(k, "locking") /\ cleaners[k].locked = Chosen(k)
  /\ IF facts # cleaners[k].expected THEN FailsWhole(k)
     ELSE \/ /\ \A i \in Chosen(k) : AsPlanned(k, i)
             /\ Moves(k, "checked") /\ UNCHANGED runs
          \/ \E i \in Chosen(k) : ~AsPlanned(k, i) /\ FailsAt(k, i)
  /\ UNCHANGED <<facts, plans, trees, intents, callers, children>>

RetireAgain(k) ==
  /\ Executes(k, "checked")
  /\ IF facts # cleaners[k].expected THEN FailsWhole(k) /\ UNCHANGED facts
     ELSE LET p == PlanOf(k)
              after == [facts EXCEPT !.retired = [i \in Installs |->
                IF i \in Candidates(p) THEN p ELSE @[i]]]
          IN /\ facts' = after
             /\ runs' = Recorded(cleaners[k].run, EventsOf(Candidates(p), "retired"))
             /\ cleaners' = [cleaners EXCEPT ![k].at = "retired", ![k].expected = after]
  /\ UNCHANGED <<plans, trees, intents, callers, children>>

\* The short transaction that retires what was installed, and only that.
Retire(k) ==
  /\ Executes(k, "checked")
  /\ IF facts # cleaners[k].expected THEN FailsWhole(k) /\ UNCHANGED facts
     ELSE LET p == PlanOf(k)
              after == [facts EXCEPT !.retired = [i \in Installs |->
                IF i \in Candidates(p) /\ @[i] = 0 THEN p ELSE @[i]]]
          IN /\ facts' = after
             /\ runs' = Recorded(cleaners[k].run, EventsOf(Candidates(p), "retired"))
             /\ cleaners' = [cleaners EXCEPT ![k].at = "retired", ![k].expected = after]
  /\ UNCHANGED <<plans, trees, intents, callers, children>>

\* The next item: facts and tree once more, then move_to_trash.
MoveToTrash(k) ==
  /\ Executes(k, "retired")
  /\ \E i \in Chosen(k) \ cleaners[k].done :
       IF facts = cleaners[k].expected /\ AsPlanned(k, i)
         THEN /\ place' = [place EXCEPT ![i] = "trash"]
              /\ cleaners' = [cleaners EXCEPT ![k].at = "moved", ![k].item = i]
              /\ UNCHANGED runs
         ELSE FailsAt(k, i) /\ UNCHANGED place
  /\ UNCHANGED <<facts, plans, pieces, faults, intents, callers, children>>

RecordMoved(k) ==
  /\ Executes(k, "moved")
  /\ runs' = Recorded(cleaners[k].run, EventsOf({cleaners[k].item}, "moved"))
  /\ Moves(k, "recorded")
  /\ UNCHANGED <<facts, plans, trees, intents, callers, children>>

\* delete_tree: compared for the last time, then deleted piece by piece.
BeginDelete(k) ==
  /\ Executes(k, "recorded")
  /\ LET i == cleaners[k].item IN
       IF /\ facts = cleaners[k].expected
          /\ pieces[i] = plans[PlanOf(k)].items[i].pieces
         THEN Moves(k, "deleting") /\ UNCHANGED runs
         ELSE FailsAt(k, i)
  /\ UNCHANGED <<facts, plans, trees, intents, callers, children>>

\* Mutant: a tree is deleted in one go, whatever its size.
DeletePieceOnce(k) ==
  /\ Executes(k, "deleting")
  /\ LET i == cleaners[k].item IN
       /\ pieces' = [pieces EXCEPT ![i] = @ - 1]
       /\ Moves(k, "deleted")
  /\ UNCHANGED <<database, place, faults, intents, callers, children>>

DeletePiece(k) ==
  /\ Executes(k, "deleting")
  /\ LET i == cleaners[k].item IN
       IF pieces[i] > 0
         THEN /\ pieces' = [pieces EXCEPT ![i] = @ - 1]
              /\ UNCHANGED <<place, cleaners>>
         ELSE /\ place' = [place EXCEPT ![i] = "absent"]
              /\ Moves(k, "deleted") /\ UNCHANGED pieces
  /\ UNCHANGED <<database, faults, intents, callers, children>>

\* The file system refuses a deletion: the failure is recorded, the rest stays.
DeleteFails(k) ==
  /\ Executes(k, "deleting") /\ pieces[cleaners[k].item] > 0
  /\ faults < MaxFaults /\ faults' = faults + 1
  /\ FailsAt(k, cleaners[k].item)
  /\ UNCHANGED <<facts, plans, place, pieces, intents, callers, children>>

RecordCompleted(k) ==
  /\ Executes(k, "deleted")
  /\ LET done == cleaners[k].done \cup {cleaners[k].item} IN
       /\ runs' = Recorded(cleaners[k].run, EventsOf({cleaners[k].item}, "completed"))
       /\ cleaners' = [cleaners EXCEPT ![k] =
            IF done = Chosen(k) THEN Idle
            ELSE [@ EXCEPT !.at = "retired", !.done = done, !.item = NoInstall]]
  /\ UNCHANGED <<facts, plans, trees, intents, callers, children>>

KillCleaner(k) ==
  /\ cleaners[k] # Idle
  /\ faults < MaxFaults /\ faults' = faults + 1
  /\ cleaners' = [cleaners EXCEPT ![k] = Idle]
  /\ UNCHANGED <<database, place, pieces, intents, callers, children>>

\* The outside damages a tree in place.
Damage(i) ==
  /\ faults < MaxFaults
  /\ place[i] # "absent" /\ pieces[i] > 0
  /\ pieces' = [pieces EXCEPT ![i] = @ - 1]
  /\ faults' = faults + 1
  /\ UNCHANGED <<database, place, intents, callers, children, cleaners>>

-------------------------------------------------------------------------------
Init ==
  /\ facts = [installed |-> {}, checks |-> <<>>, activations |-> <<>>,
              retired |-> [i \in Installs |-> 0]]
  /\ plans = <<>> /\ runs = <<>>
  /\ place = [i \in Installs |-> "absent"]
  /\ pieces = [i \in Installs |-> 0]
  /\ intents = [op \in {"prepare", "rebuild"} |-> NoInstall]
  /\ callers = [c \in Callers |-> Idle]
  /\ children = [c \in Callers |-> NoInstall]
  /\ cleaners = [k \in Cleaners |-> Idle]
  /\ faults = 0

UserStep(c) ==
  \/ UseSelected(c) \/ Activate(c) \/ \E i \in Installs : Verify(c, i)
  \/ Acquire(c) \/ EndUse(c) \/ RecordCheck(c) \/ CommitActivation(c)

PublisherStep(c) ==
  \/ \E op \in {"prepare", "rebuild"} : Build(c, op)
  \/ EnterPublication(c) \/ ReadIntent(c) \/ PublishTree(c)
  \/ CommitInstall(c) \/ ForgetIntent(c)

CleanerStep(k) ==
  \/ SurveyInstalls(k) \/ SavePlan(k) \/ \E p \in DOMAIN plans : BeginRun(k, p)
  \/ CompareFacts(k) \/ LockExclusive(k) \/ Recheck(k) \/ Retire(k)
  \/ MoveToTrash(k) \/ RecordMoved(k) \/ BeginDelete(k)
  \/ DeletePiece(k) \/ DeleteFails(k) \/ RecordCompleted(k) \/ KillCleaner(k)

Next ==
  \/ \E c \in Users : UserStep(c)
  \/ \E c \in Publishers : PublisherStep(c)
  \/ \E c \in Callers : Spawn(c) \/ ChildExits(c) \/ Kill(c)
  \/ \E k \in Cleaners : CleanerStep(k)
  \/ \E i \in Installs : Damage(i)

Spec == Init /\ [][Next]_vars

-------------------------------------------------------------------------------
(* The validators of read_state *)

\* A row of the safety tables never changes: a plan's facts are still there.
StillThere(old, new) ==
  /\ old.installed \subseteq new.installed
  /\ IsPrefix(old.checks, new.checks)
  /\ IsPrefix(old.activations, new.activations)
  /\ \A i \in Retired(old) : new.retired[i] = old.retired[i]

\* validate_plan_history
PlanAccepted(p) ==
  LET plan == plans[p]
      busy == {i \in Installs : "in_flight" \in plan.items[i].protection} IN
  /\ StillThere(plan.facts, facts)
  /\ \A i \in plan.facts.installed :
       LET item == plan.items[i] IN
       /\ item.protection = Protection(plan.facts, busy, i)
       /\ item.candidate => item.protection = {} /\ item.place # "absent"
       /\ item.place = "trash" => i \in Retired(plan.facts)
RetirementsAccepted ==
  \A i \in Retired(facts) :
    facts.retired[i] \in DOMAIN plans /\ i \in Candidates(facts.retired[i])

\* validate_execution_history: what may follow a phase.
MayFollow(phase) ==
  CASE phase = "none" -> {"not_run"}
    [] phase = "not_run" -> {"blocked", "retired", "failed"}
    [] phase = "retired" -> {"moved", "failed"}
    [] phase = "moved" -> {"completed", "failed"}
    [] OTHER -> {}
RunAccepted(r) ==
  LET run == runs[r]
      blocked == {e.install : e \in {x \in Range(run.events) : x.phase = "blocked"}}
  IN /\ {e.install : e \in Range(run.events)} = Candidates(run.plan)
     /\ blocked \in {{}, Candidates(run.plan)}
     /\ \A n \in DOMAIN run.events :
          LET e == run.events[n] IN
          /\ e.phase \in MayFollow(PhaseBefore(run.events, e.install, n))
          /\ e.phase \in {"retired", "moved", "completed"} =>
               /\ facts.retired[e.install] # 0
               /\ plans[run.plan].facts.retired[e.install] = 0
                    => facts.retired[e.install] = run.plan

-------------------------------------------------------------------------------
(* Properties *)

\* Who holds an installation after its checks: a caller with a handle, a
\* publication under its lock, a process that inherited either.
HolderIds == {"caller", "child"} \X Callers
HoldersOf(i) ==
  {<<"caller", c>> : c \in {d \in Callers :
      callers[d] # Idle /\ callers[d].install = i
      /\ callers[d].at \in {"handle", "placed"}}}
  \cup {<<"child", c>> : c \in {d \in Callers : children[d] = i}}

\* A held installation is in place and not retired: also one that only a child
\* of a killed parent still runs, and whenever cleanup ran in between.
HeldStaysInPlace ==
  \A i \in facts.installed :
    HoldersOf(i) # {} => place[i] = "placed" /\ i \notin Retired(facts)

\* The installations of the retention window and the latest one checked are
\* never retired, although activations, checks and retirements are separate
\* transactions and an activation does not look at retirements.
ProtectedIsNotRetired ==
  (Retained(facts) \cup LatestChecked(facts)) \cap Retired(facts) = {}

\* Whatever was killed, failed or overtaken, the archive is one read_state
\* accepts: it validates the plans and executions on every operation.
HistoryIsAccepted ==
  /\ \A p \in DOMAIN plans : PlanAccepted(p)
  /\ RetirementsAccepted
  /\ \A r \in DOMAIN runs : RunAccepted(r)

\* A deletion recorded as completed left nothing, and what left its place, or
\* lost a piece to cleanup, was retired before: no crash makes the record run
\* ahead of the tree, or the tree ahead of the retirement.
DeletionIsAccounted ==
  /\ \A i \in CompletedInstalls : place[i] = "absent"
  /\ \A i \in facts.installed : place[i] # "placed" => i \in Retired(facts)

\* Every step is a step of the abstract life of an installation, or invisible.
Stage(i) ==
  IF i \notin facts.installed THEN "unknown"
  ELSE IF i \notin Retired(facts) THEN "available"
  ELSE IF place[i] = "absent" THEN "gone" ELSE "retired"
Lifecycle == INSTANCE InstallLifecycle WITH
  Holders <- HolderIds,
  stage <- [i \in Installs |-> Stage(i)],
  holders <- [i \in Installs |-> HoldersOf(i)]
ImplementsLifecycle == Lifecycle!Spec

\* docs/contracts/pi-supply.md on a rebuild killed after its registration: the
\* retry only completes the intent.  It can if the intent's installation is not
\* one that was retired in the meantime.
IntentCanBeCompleted == RootLocked \/ intents["rebuild"] \notin Retired(facts)
===============================================================================
