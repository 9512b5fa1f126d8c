--------------------------- MODULE PiInstallsProofs ---------------------------
(***************************************************************************)
(* Proofs about the installations of a Pi supply, for any number of        *)
(* installations, users, publishers and cleaners, any retention window and *)
(* any length of the histories.                                            *)
(*                                                                         *)
(* That a held installation is neither moved nor retired rests on the      *)
(* locks; that a protected one is not retired, on what a plan has seen and *)
(* on the comparison of facts under the locks; that read_state accepts the *)
(* archive, on what a cleaner still has to do at each of its steps.        *)
(***************************************************************************)
EXTENDS PiInstalls, FiniteSetTheorems, SequenceTheorems, TLAPS

-------------------------------------------------------------------------------
(* The inductive invariant *)

\* A lock is shared or exclusive, and an exclusive one has one holder.
LocksSound ==
  /\ \A i \in Installs : ~(Shared(i) /\ Exclusive(i))
  /\ \A k, m \in Cleaners : k # m => LockedBy(k) \cap LockedBy(m) = {}

\* What is locked shared is in place and not retired, registered or not yet.
SharedSound ==
  \A i \in Installs : Shared(i) => place[i] = "placed" /\ i \notin Retired(facts)

\* A plan describes the facts it was made from: what validate_plan_history asks of
\* it, and that its candidates are installations.
PlanSound(plan) ==
  LET busy == {i \in Installs : "in_flight" \in plan.items[i].protection} IN
  /\ IsFiniteSet(plan.facts.installed)
  /\ \A i \in Installs : plan.items[i].candidate => i \in plan.facts.installed
  /\ \A i \in plan.facts.installed :
       /\ plan.items[i].protection = Protection(plan.facts, busy, i)
       /\ plan.items[i].candidate =>
            plan.items[i].protection = {} /\ plan.items[i].place # "absent"
       /\ plan.items[i].place = "trash" => i \in Retired(plan.facts)

PlansSound ==
  \A p \in DOMAIN plans : PlanSound(plans[p]) /\ StillThere(plans[p].facts, facts)

\* Which callers use an installation and which publish one.
CallerSound(v) ==
  v # Idle =>
    /\ v.at \in {"candidate", "refused", "handle"} =>
         v.op \in {"use", "activate", "verify"} /\ v.install \in Installs
    /\ v.at \in PublishStates \cup {"building"} => v.op \in {"prepare", "rebuild"}
    /\ v.at \in {"intended", "placed", "released"} => v.install \in Installs
CallersSound == \A c \in Callers : CallerSound(callers[c])

SurveysSound ==
  \A k \in Cleaners : cleaners[k] \in Surveyed => PlanSound(cleaners[k].plan)

CandidatesIn(plan) == {i \in Installs : plan.items[i].candidate}

\* The facts f show that run retired i, unless it was retired before the plan.
RetiredBy(run, plan, f, i) ==
  f.retired[i] # 0 /\ (plan.facts.retired[i] = 0 => f.retired[i] = run.plan)

\* RunAccepted of a run, its plan and the facts.
RunIn(run, plan, f) ==
  /\ {e.install : e \in Range(run.events)} = CandidatesIn(plan)
  /\ {e.install : e \in {x \in Range(run.events) : x.phase = "blocked"}}
       \in {{}, CandidatesIn(plan)}
  /\ \A n \in DOMAIN run.events :
       LET e == run.events[n] IN
       /\ e.phase \in MayFollow(PhaseBefore(run.events, e.install, n))
       /\ e.phase \in {"retired", "moved", "completed"} => RetiredBy(run, plan, f, e.install)

RunsSound ==
  \A r \in DOMAIN runs :
    runs[r].plan \in DOMAIN plans /\ RunIn(runs[r], plans[runs[r].plan], facts)

Early == {"started", "locking", "checked"}
WithItem == {"moved", "recorded", "deleting", "deleted"}

\* The phase an installation of the plan has reached in the run of e.
PhaseAt(e, i) ==
  IF e.at \in Early THEN "not_run"
  ELSE IF i \in e.done THEN "completed"
  ELSE IF e.at \in {"recorded", "deleting", "deleted"} /\ i = e.item THEN "moved"
  ELSE "retired"

\* What the frame e of an execution knows of its run, its plan, the facts and trees.
FrameIn(e, run, plan, f, where) ==
  /\ e.locked \subseteq CandidatesIn(plan)
  /\ e.at \notin {"started", "locking"} => e.locked = CandidatesIn(plan)
  /\ e.at \in Early => e.expected = plan.facts /\ e.done = {}
  /\ e.at \notin Early => \A i \in CandidatesIn(plan) : RetiredBy(run, plan, f, i)
  /\ e.at \in WithItem => e.item \in CandidatesIn(plan) \ e.done
  /\ e.at = "deleted" => where[e.item] = "absent"
  /\ \A i \in CandidatesIn(plan) :
       PhaseBefore(run.events, i, Len(run.events) + 1) = PhaseAt(e, i)
  /\ \A x \in Range(run.events) : x.phase # "blocked"

FrameSound(e) ==
  /\ e.run \in DOMAIN runs /\ runs[e.run].plan \in DOMAIN plans
  /\ FrameIn(e, runs[e.run], plans[runs[e.run].plan], facts, place)

FramesSound ==
  /\ \A k \in Cleaners : cleaners[k] \in Executing => FrameSound(cleaners[k])
  /\ \A k, m \in Cleaners :
       k # m /\ cleaners[k] \in Executing /\ cleaners[m] \in Executing
         => cleaners[k].run # cleaners[m].run

PlacedOrRetired ==
  \A i \in facts.installed : place[i] # "placed" => i \in Retired(facts)

CompletedSound ==
  \A i \in CompletedInstalls : place[i] = "absent" /\ i \in Retired(facts)

IInv ==
  /\ TypeOK
  /\ IsFiniteSet(facts.installed)
  /\ LocksSound
  /\ SharedSound
  /\ CallersSound
  /\ PlansSound
  /\ SurveysSound
  /\ RunsSound
  /\ FramesSound
  /\ ProtectedIsNotRetired
  /\ RetirementsAccepted
  /\ PlacedOrRetired
  /\ CompletedSound

-------------------------------------------------------------------------------
(* Positions, sets as sequences, prefixes *)

\* A nonempty set of positions has a largest one.
LEMMA LargestExists ==
  ASSUME NEW n \in Nat, NEW S, S \subseteq 1..n, S # {}
  PROVE  /\ Max(S) \in S
         /\ \A y \in S : Max(S) >= y
<1> DEFINE R == {ss \in Nat \X Nat : ss[1] < ss[2]}
           T == {n - x : x \in S}
<1>1. T \subseteq Nat /\ T # {}
  <2>1. \A x \in S : n - x \in Nat
      OBVIOUS
  <2> QED
      BY <2>1
<1>2. IsWellFoundedOn(R, Nat)
    BY NatLessThanWellFounded DEF OpToRel
<1>3. PICK t \in T : \A y \in T : ~ (<<y, t>> \in R)
    BY <1>1, <1>2, WFMin
<1>4. \A y \in T : ~ (y < t)
    BY <1>1, <1>3
<1>5. PICK x \in S : t = n - x
    OBVIOUS
<1>6. \A y \in S : x >= y
    BY <1>4, <1>5
<1> QED
    BY <1>6 DEF Max

\* A number of a set that no other exceeds is its largest.
LEMMA LargestIs ==
  ASSUME NEW S \in SUBSET Nat, NEW x \in S, \A y \in S : y <= x
  PROVE  Max(S) = x
<1>1. \E m \in S : \A y \in S : m >= y
    OBVIOUS
<1>2. Max(S) \in S /\ \A y \in S : Max(S) >= y
    BY <1>1 DEF Max
<1>3. Max(S) \in Nat /\ x \in Nat /\ Max(S) >= x /\ Max(S) <= x
    BY <1>2
<1> QED
    BY <1>3

LEMMA SetAsSequence ==
  ASSUME NEW S, IsFiniteSet(S)
  PROVE  /\ SetToSeq(S) \in Seq(S) /\ Len(SetToSeq(S)) = Cardinality(S)
         /\ Cardinality(S) \in Nat
         /\ Range(SetToSeq(S)) = S
         /\ \A m, n \in 1..Cardinality(S) : SetToSeq(S)[m] = SetToSeq(S)[n] => m = n
<1>1. Cardinality(S) \in Nat /\ ExistsBijection(1..Cardinality(S), S)
    BY FS_CardinalityType
<1>2. PICK f \in Bijection(1..Cardinality(S), S) : TRUE
    BY <1>1 DEF ExistsBijection
<1>3. f \in [1..Cardinality(S) -> S] /\ IsInjective(f)
    BY <1>2 DEF Bijection, Injection, IsInjective
<1>4. SetToSeq(S) \in [1..Cardinality(S) -> S] /\ IsInjective(SetToSeq(S))
    BY <1>3 DEF SetToSeq
<1>5. SetToSeq(S) \in Injection(1..Cardinality(S), S)
    BY <1>4 DEF Injection, IsInjective
<1>6. Cardinality(1..Cardinality(S)) = Cardinality(S)
    BY <1>1, FS_Interval
<1>7. SetToSeq(S) \in Surjection(1..Cardinality(S), S)
    BY <1>5, <1>6, FS_Injection
<1>8. Range(SetToSeq(S)) = S
    BY <1>4, <1>7 DEF Surjection, Range
<1>9. SetToSeq(S) \in Seq(S) /\ Len(SetToSeq(S)) = Cardinality(S)
    BY <1>1, <1>4
<1> QED
    BY <1>1, <1>4, <1>8, <1>9 DEF IsInjective

LEMMA PrefixMeans ==
  ASSUME NEW S, NEW s \in Seq(S), NEW t \in Seq(S)
  PROVE  IsPrefix(s, t) <=> Len(s) <= Len(t) /\ \A n \in 1..Len(s) : s[n] = t[n]
<1>1. CASE Len(s) <= Len(t)
  <2>1. /\ SubSeq(s, 1, Len(s)) = [n \in 1..Len(s) |-> s[n]]
        /\ SubSeq(t, 1, Len(s)) = [n \in 1..Len(s) |-> t[n]]
      BY <1>1
  <2> QED
      BY <1>1, <2>1 DEF IsPrefix
<1>2. CASE ~(Len(s) <= Len(t))
    BY <1>2 DEF IsPrefix
<1> QED
    BY <1>1, <1>2

\* What a sequence holds from place n on.
LEMMA RangeFrom ==
  ASSUME NEW S, NEW s \in Seq(S), NEW n \in 1..Len(s)
  PROVE  Range(SubSeq(s, n, Len(s))) = {s[m] : m \in n..Len(s)}
<1> DEFINE N == Len(s)
           sub == SubSeq(s, n, N)
<1>1. N \in Nat /\ n \in Int /\ n <= N /\ \A m \in n..N : s[m] \in S
    OBVIOUS
<1>2. sub \in Seq(S) /\ Len(sub) = N - n + 1 /\ \A m \in 1..(N - n + 1) : sub[m] = s[n + m - 1]
    BY <1>1, SubSeqProperties
<1> HIDE DEF sub
<1>3. DOMAIN sub = 1..(N - n + 1)
    BY <1>2
<1>4. ASSUME NEW m \in 1..(N - n + 1)
      PROVE  \E l \in n..N : sub[m] = s[l]
  <2>1. n + m - 1 \in n..N /\ sub[m] = s[n + m - 1]
      BY <1>1, <1>2
  <2> QED
      BY <2>1
<1>5. ASSUME NEW l \in n..N
      PROVE  \E m \in 1..(N - n + 1) : sub[m] = s[l]
  <2>1. /\ l - n + 1 \in 1..(N - n + 1) /\ n + (l - n + 1) - 1 = l
      BY <1>1
  <2> QED
      BY <1>2, <2>1
<1>6. Range(sub) = {s[m] : m \in n..N}
  <2>1. Range(sub) = {sub[m] : m \in 1..(N - n + 1)}
      BY <1>3 DEF Range
  <2>2. \A y : y \in {sub[m] : m \in 1..(N - n + 1)} => y \in {s[l] : l \in n..N}
      BY <1>4
  <2>3. \A y : y \in {s[l] : l \in n..N} => y \in {sub[m] : m \in 1..(N - n + 1)}
      BY <1>5
  <2> QED
      BY <2>1, <2>2, <2>3
<1> QED
    BY <1>6 DEF sub

-------------------------------------------------------------------------------
(* Checks, activations and facts *)

LEMMA LastPassedType ==
  ASSUME NEW f, f.checks \in Seq(Check), NEW i
  PROVE  /\ LastPassed(f, i) \in 0..Len(f.checks)
         /\ LastPassed(f, i) > 0 =>
              f.checks[LastPassed(f, i)] = [install |-> i, passed |-> TRUE]
<1> DEFINE passing == {n \in DOMAIN f.checks : f.checks[n] = [install |-> i, passed |-> TRUE]}
<1>1. passing \subseteq 1..Len(f.checks) /\ Len(f.checks) \in Nat
    OBVIOUS
<1>2. CASE passing = {}
    BY <1>1, <1>2 DEF LastPassed
<1>3. CASE passing # {}
  <2>1. Max(passing) \in passing
      BY <1>1, <1>3, LargestExists
  <2>2. LastPassed(f, i) = Max(passing)
      BY <1>3 DEF LastPassed
  <2> HIDE DEF passing
  <2>3. LastPassed(f, i) \in passing
      BY <2>1, <2>2
  <2> QED
      BY <1>1, <2>3 DEF passing
<1> QED
    BY <1>2, <1>3

\* What one more check does to the last passed check of an installation.
LEMMA LastPassedAppended ==
  ASSUME NEW f, NEW g, NEW x \in Check, f.checks \in Seq(Check),
         g.checks = Append(f.checks, x), NEW i
  PROVE  LastPassed(g, i) =
           IF x = [install |-> i, passed |-> TRUE] THEN Len(f.checks) + 1
           ELSE LastPassed(f, i)
<1> DEFINE old == {n \in DOMAIN f.checks : f.checks[n] = [install |-> i, passed |-> TRUE]}
           now == {n \in DOMAIN g.checks : g.checks[n] = [install |-> i, passed |-> TRUE]}
<1>1. /\ Len(f.checks) \in Nat
      /\ DOMAIN f.checks = 1..Len(f.checks) /\ DOMAIN g.checks = 1..(Len(f.checks) + 1)
      /\ g.checks[Len(f.checks) + 1] = x
      /\ \A n \in 1..Len(f.checks) : g.checks[n] = f.checks[n]
    OBVIOUS
<1>2. LastPassed(g, i) = IF now = {} THEN 0 ELSE Max(now)
    BY DEF LastPassed
<1>3. LastPassed(f, i) = IF old = {} THEN 0 ELSE Max(old)
    BY DEF LastPassed
<1>4. CASE x = [install |-> i, passed |-> TRUE]
  <2>1. now \in SUBSET Nat /\ Len(f.checks) + 1 \in now
        /\ \A y \in now : y <= Len(f.checks) + 1
      BY <1>1, <1>4
  <2>2. Max(now) = Len(f.checks) + 1
      BY <2>1, LargestIs
  <2> QED
      BY <1>2, <1>4, <2>1, <2>2
<1>5. CASE x # [install |-> i, passed |-> TRUE]
  <2>1. now = old
      BY <1>1, <1>5
  <2> QED
      BY <1>2, <1>3, <1>5, <2>1
<1> QED
    BY <1>4, <1>5

\* A check that fails changes nothing; one that passes is the latest.
LEMMA LatestAppended ==
  ASSUME NEW f, NEW g, NEW x \in Check, f.checks \in Seq(Check),
         g.checks = Append(f.checks, x), x.install \in g.installed,
         g.installed \subseteq f.installed \cup {x.install},
         ~x.passed => g.installed = f.installed
  PROVE  LatestChecked(g) = IF x.passed THEN {x.install} ELSE LatestChecked(f)
<1> DEFINE N == Len(f.checks)
<1>1. N \in Nat /\ x = [install |-> x.install, passed |-> x.passed] /\ x.passed \in BOOLEAN
    BY DEF Check
<1>2. \A i : LastPassed(f, i) \in 0..N
    BY LastPassedType
<1>3. \A i : LastPassed(g, i) = IF x = [install |-> i, passed |-> TRUE] THEN N + 1
                                 ELSE LastPassed(f, i)
    BY LastPassedAppended
<1>4. CASE x.passed
  <2>1. \A i : LastPassed(g, i) = IF i = x.install THEN N + 1 ELSE LastPassed(f, i)
    <3> SUFFICES ASSUME NEW i
                 PROVE  (x = [install |-> i, passed |-> TRUE]) <=> (i = x.install)
        BY <1>3
    <3> QED
        BY <1>1, <1>4
  <2>2. ASSUME NEW i \in LatestChecked(g)
        PROVE  i = x.install
    <3>1. LastPassed(g, x.install) <= LastPassed(g, i)
        BY <2>2 DEF LatestChecked
    <3> QED
        BY <1>1, <1>2, <2>1, <3>1
  <2>3. x.install \in LatestChecked(g)
    <3>1. \A j : LastPassed(g, j) <= N + 1
        BY <1>1, <1>2, <2>1
    <3>2. LastPassed(g, x.install) = N + 1 /\ N + 1 > 0
        BY <1>1, <2>1
    <3> QED
        BY <3>1, <3>2 DEF LatestChecked
  <2> QED
      BY <1>4, <2>2, <2>3
<1>5. CASE ~x.passed
  <2>1. \A i : LastPassed(g, i) = LastPassed(f, i)
      BY <1>3, <1>5
  <2> QED
      BY <1>5, <2>1 DEF LatestChecked
<1> QED
    BY <1>4, <1>5

\* One more activation keeps nothing else than it kept before.
LEMMA RetainedAppended ==
  ASSUME NEW f, NEW g, NEW i \in Installs, f.activations \in Seq(Installs),
         g.activations = Append(f.activations, i)
  PROVE  Retained(g) \subseteq Retained(f) \cup {i}
<1> DEFINE N == Len(f.activations)
<1>1. /\ N \in Nat /\ DOMAIN f.activations = 1..N /\ DOMAIN g.activations = 1..(N + 1)
      /\ Len(g.activations) = N + 1 /\ g.activations[N + 1] = i
      /\ \A n \in 1..N : g.activations[n] = f.activations[n]
      /\ g.activations \in Seq(Installs)
    OBVIOUS
<1> SUFFICES ASSUME NEW j \in Retained(g), j # i
             PROVE  j \in Retained(f)
    OBVIOUS
<1>2. PICK n \in DOMAIN g.activations :
        g.activations[n] = j /\ Cardinality(ActivatedSince(g, n)) <= Window
    BY DEF Retained
<1>3. n \in 1..N /\ f.activations[n] = j
    BY <1>1, <1>2
<1>4. ActivatedSince(f, n) \subseteq ActivatedSince(g, n)
  <2>1. /\ ActivatedSince(f, n) = {f.activations[m] : m \in n..N}
        /\ ActivatedSince(g, n) = {g.activations[m] : m \in n..(N + 1)}
      BY <1>1, <1>3, RangeFrom DEF ActivatedSince
  <2>2. \A m \in n..N : m \in n..(N + 1) /\ g.activations[m] = f.activations[m]
      BY <1>1, <1>3
  <2> QED
      BY <2>1, <2>2
<1>5. IsFiniteSet(ActivatedSince(g, n))
  <2> DEFINE h == [m \in n..(N + 1) |-> g.activations[m]]
             T == {g.activations[m] : m \in n..(N + 1)}
  <2>1. ActivatedSince(g, n) = T
      BY <1>1, <1>3, RangeFrom DEF ActivatedSince
  <2>2. IsFiniteSet(n..(N + 1))
      BY <1>1, <1>3, FS_Interval
  <2>3. h \in Surjection(n..(N + 1), T)
      BY DEF Surjection
  <2> HIDE DEF h, T
  <2>4. IsFiniteSet(T)
      BY <2>2, <2>3, FS_Surjection
  <2> QED
      BY <2>1, <2>4
<1>6. Cardinality(ActivatedSince(f, n)) <= Cardinality(ActivatedSince(g, n))
    BY <1>4, <1>5, FS_Subset
<1>7. /\ Cardinality(ActivatedSince(g, n)) \in Nat /\ Cardinality(ActivatedSince(f, n)) \in Nat
    BY <1>4, <1>5, FS_Subset, FS_CardinalityType
<1>8. Cardinality(ActivatedSince(f, n)) <= Window
    BY <1>2, <1>6, <1>7, NumberAssumption
<1> QED
    BY <1>1, <1>3, <1>8 DEF Retained, Range

-------------------------------------------------------------------------------
(* The facts of a supply only grow *)

LEMMA StillThereSame ==
  ASSUME NEW f \in Facts
  PROVE  StillThere(f, f)
<1>1. f.checks \in Seq(Check) /\ f.activations \in Seq(Installs)
    BY DEF Facts
<1>2. IsPrefix(f.checks, f.checks) /\ IsPrefix(f.activations, f.activations)
    BY <1>1, PrefixMeans
<1> QED
    BY <1>2 DEF StillThere

LEMMA StillThereTransitive ==
  ASSUME NEW f \in Facts, NEW g \in Facts, NEW h \in Facts,
         StillThere(f, g), StillThere(g, h)
  PROVE  StillThere(f, h)
<1>1. /\ f.checks \in Seq(Check) /\ f.activations \in Seq(Installs)
      /\ g.checks \in Seq(Check) /\ g.activations \in Seq(Installs)
      /\ h.checks \in Seq(Check) /\ h.activations \in Seq(Installs)
    BY DEF Facts
<1>2. \A S : \A r, s, t \in Seq(S) : IsPrefix(r, s) /\ IsPrefix(s, t) => IsPrefix(r, t)
  <2> SUFFICES ASSUME NEW S, NEW r \in Seq(S), NEW s \in Seq(S), NEW t \in Seq(S),
                      IsPrefix(r, s), IsPrefix(s, t)
               PROVE  IsPrefix(r, t)
      OBVIOUS
  <2>1. Len(r) <= Len(s) /\ \A n \in 1..Len(r) : r[n] = s[n]
      BY PrefixMeans
  <2>2. Len(s) <= Len(t) /\ \A n \in 1..Len(s) : s[n] = t[n]
      BY PrefixMeans
  <2>3. Len(r) \in Nat /\ Len(s) \in Nat /\ Len(t) \in Nat
      OBVIOUS
  <2>4. Len(r) <= Len(t) /\ \A n \in 1..Len(r) : r[n] = t[n]
      BY <2>1, <2>2, <2>3
  <2> QED
      BY <2>4, PrefixMeans
<1>3. IsPrefix(f.checks, h.checks) /\ IsPrefix(f.activations, h.activations)
    BY <1>1, <1>2 DEF StillThere
<1>4. \A i \in Retired(f) : h.retired[i] = f.retired[i]
    BY DEF StillThere, Retired
<1> QED
    BY <1>3, <1>4 DEF StillThere

LEMMA PrefixAppended ==
  ASSUME NEW S, NEW s \in Seq(S), NEW x \in S
  PROVE  IsPrefix(s, Append(s, x))
<1> DEFINE t == Append(s, x)
<1>1. t \in Seq(S) /\ Len(s) <= Len(t) /\ \A n \in 1..Len(s) : s[n] = t[n]
    OBVIOUS
<1> HIDE DEF t
<1>2. IsPrefix(s, t)
    BY <1>1, PrefixMeans
<1> QED
    BY <1>2 DEF t

-------------------------------------------------------------------------------
(* The events of a run *)

\* The events recorded in one transaction: one for each installation.
LEMMA EventsShape ==
  ASSUME NEW chosen \in SUBSET Installs, IsFiniteSet(chosen), NEW phase \in Phases
  PROVE  /\ EventsOf(chosen, phase) \in Seq(Event)
         /\ \A n \in 1..Len(EventsOf(chosen, phase)) :
              /\ EventsOf(chosen, phase)[n].install \in chosen
              /\ EventsOf(chosen, phase)[n].phase = phase
         /\ \A i \in chosen : \E n \in 1..Len(EventsOf(chosen, phase)) :
              EventsOf(chosen, phase)[n].install = i
         /\ \A m, n \in 1..Len(EventsOf(chosen, phase)) :
              EventsOf(chosen, phase)[m].install = EventsOf(chosen, phase)[n].install => m = n
<1> DEFINE S == {[install |-> i, phase |-> phase] : i \in chosen}
           es == EventsOf(chosen, phase)
<1>1. IsFiniteSet(S)
  <2> DEFINE h == [i \in chosen |-> [install |-> i, phase |-> phase]]
  <2>1. h \in Surjection(chosen, S)
      BY DEF Surjection
  <2> HIDE DEF h, S
  <2> QED
      BY <2>1, FS_Surjection
<1>2. es = SetToSeq(S)
    BY DEF EventsOf
<1>3. S \subseteq Event
    BY DEF Event
<1> HIDE DEF S, es
<1>4. /\ es \in Seq(S) /\ Len(es) = Cardinality(S) /\ Len(es) \in Nat
      /\ Range(es) = S
      /\ \A m, n \in 1..Len(es) : es[m] = es[n] => m = n
    BY <1>1, <1>2, SetAsSequence
<1>5. es \in Seq(Event)
    BY <1>3, <1>4
<1>6. \A n \in 1..Len(es) : es[n] \in S
    BY <1>4
<1>7. \A n \in 1..Len(es) : \E i \in chosen : es[n] = [install |-> i, phase |-> phase]
    BY <1>6 DEF S
<1>8. \A i \in chosen : [install |-> i, phase |-> phase] \in S
    BY DEF S
<1>9. \A x \in S : \E n \in 1..Len(es) : es[n] = x
    BY <1>4 DEF Range
<1>10. \A i \in chosen : \E n \in 1..Len(es) : es[n].install = i
  <2> SUFFICES ASSUME NEW i \in chosen
               PROVE  \E n \in 1..Len(es) : es[n].install = i
      OBVIOUS
  <2>1. PICK n \in 1..Len(es) : es[n] = [install |-> i, phase |-> phase]
      BY <1>8, <1>9
  <2> QED
      BY <2>1
<1>11. \A m, n \in 1..Len(es) : es[m].install = es[n].install => m = n
  <2> SUFFICES ASSUME NEW m \in 1..Len(es), NEW n \in 1..Len(es),
                      es[m].install = es[n].install
               PROVE  m = n
      OBVIOUS
  <2>1. PICK i \in chosen : es[m] = [install |-> i, phase |-> phase]
      BY <1>7
  <2>2. PICK j \in chosen : es[n] = [install |-> j, phase |-> phase]
      BY <1>7
  <2>3. es[m] = es[n]
      BY <2>1, <2>2
  <2> QED
      BY <1>4, <2>3
<1>12. \A n \in 1..Len(es) : es[n].install \in chosen /\ es[n].phase = phase
  <2> SUFFICES ASSUME NEW n \in 1..Len(es)
               PROVE  es[n].install \in chosen /\ es[n].phase = phase
      OBVIOUS
  <2>1. PICK i \in chosen : es[n] = [install |-> i, phase |-> phase]
      BY <1>7
  <2> QED
      BY <2>1
<1> QED
    BY <1>5, <1>10, <1>11, <1>12 DEF es

LEMMA PhaseBeforeSame ==
  ASSUME NEW s \in Seq(Event), NEW t \in Seq(Event), NEW i, NEW n \in Nat, NEW m \in Nat,
         n <= Len(s) + 1, n <= m, Len(s) <= Len(t), m <= Len(t) + 1,
         \A l \in 1..Len(s) : s[l] = t[l],
         \A l \in n..(m - 1) : t[l].install # i
  PROVE  PhaseBefore(t, i, m) = PhaseBefore(s, i, n)
<1> DEFINE old == {l \in DOMAIN s : l < n /\ s[l].install = i}
           now == {l \in DOMAIN t : l < m /\ t[l].install = i}
<1>1. /\ DOMAIN s = 1..Len(s) /\ Len(s) \in Nat
      /\ DOMAIN t = 1..Len(t) /\ Len(t) \in Nat
    OBVIOUS
<1>2. now = old
    BY <1>1
<1>3. PhaseBefore(t, i, m) = IF now = {} THEN "none" ELSE t[Max(now)].phase
    BY DEF PhaseBefore
<1>4. PhaseBefore(s, i, n) = IF old = {} THEN "none" ELSE s[Max(old)].phase
    BY DEF PhaseBefore
<1>5. CASE old = {}
    BY <1>2, <1>3, <1>4, <1>5
<1>6. CASE old # {}
  <2>1. old \subseteq 1..Len(s)
      BY <1>1
  <2>2. Max(old) \in old
      BY <1>1, <1>6, <2>1, LargestExists
  <2>3. t[Max(old)] = s[Max(old)]
      BY <2>1, <2>2
  <2> QED
      BY <1>2, <1>3, <1>4, <1>6, <2>3
<1> QED
    BY <1>5, <1>6

LEMMA PhaseBeforeOld ==
  ASSUME NEW s \in Seq(Event), NEW t \in Seq(Event), Len(s) <= Len(t),
         \A l \in 1..Len(s) : s[l] = t[l], NEW i, NEW n \in 1..Len(s)
  PROVE  PhaseBefore(t, i, n) = PhaseBefore(s, i, n)
<1>1. /\ n \in Nat /\ n <= Len(s) + 1 /\ n <= n /\ n <= Len(t) + 1
      /\ \A l \in n..(n - 1) : t[l].install # i
    OBVIOUS
<1> QED
    BY <1>1, PhaseBeforeSame

LEMMA PhaseBeforeNew ==
  ASSUME NEW s \in Seq(Event), NEW t \in Seq(Event), Len(s) <= Len(t),
         \A l \in 1..Len(s) : s[l] = t[l], NEW i, NEW m \in (Len(s) + 1)..(Len(t) + 1),
         \A l \in (Len(s) + 1)..(m - 1) : t[l].install # i
  PROVE  PhaseBefore(t, i, m) = PhaseBefore(s, i, Len(s) + 1)
<1> DEFINE n == Len(s) + 1
<1>1. /\ n \in Nat /\ n <= Len(s) + 1 /\ n <= m /\ m <= Len(t) + 1 /\ m \in Nat
      /\ \A l \in n..(m - 1) : t[l].install # i
    OBVIOUS
<1> HIDE DEF n
<1>2. PhaseBefore(t, i, m) = PhaseBefore(s, i, n)
    BY <1>1, PhaseBeforeSame
<1> QED
    BY <1>2 DEF n

\* es has one event for each chosen installation, and t is s with es at its end.
OneEach(es, chosen, phase) ==
  /\ \A n \in 1..Len(es) : es[n].install \in chosen /\ es[n].phase = phase
  /\ \A i \in chosen : \E n \in 1..Len(es) : es[n].install = i
  /\ \A m, n \in 1..Len(es) : es[m].install = es[n].install => m = n
Extended(s, es, t) ==
  /\ Len(t) = Len(s) + Len(es)
  /\ \A n \in 1..Len(s) : t[n] = s[n]
  /\ \A n \in (Len(s) + 1)..(Len(s) + Len(es)) : t[n] = es[n - Len(s)]
  /\ \A m \in 1..Len(es) : t[Len(s) + m] = es[m]

\* t is s with one more event of this phase for each chosen installation.
Batched(s, chosen, phase, t) ==
  /\ t \in Seq(Event) /\ Len(s) <= Len(t)
  /\ \A n \in 1..Len(s) :
       t[n] = s[n] /\ \A i : PhaseBefore(t, i, n) = PhaseBefore(s, i, n)
  /\ \A n \in (Len(s) + 1)..Len(t) :
       /\ t[n].install \in chosen /\ t[n].phase = phase
       /\ PhaseBefore(t, t[n].install, n) =
            PhaseBefore(s, t[n].install, Len(s) + 1)
  /\ \A i \in Installs : PhaseBefore(t, i, Len(t) + 1) =
       IF i \in chosen THEN phase ELSE PhaseBefore(s, i, Len(s) + 1)
  /\ {x.install : x \in Range(t)} = {x.install : x \in Range(s)} \cup chosen
  /\ \A x \in Range(t) : x \in Range(s) \/ (x.install \in chosen /\ x.phase = phase)
  /\ Range(s) \subseteq Range(t)
  /\ \A i \in chosen : [install |-> i, phase |-> phase] \in Range(t)

\* A batch of events at the end of a run: each follows the last phase its
\* installation had before, and is its last phase now.
LEMMA BatchFollows ==
  ASSUME NEW s \in Seq(Event), NEW es \in Seq(Event), NEW t \in Seq(Event),
         NEW chosen \in SUBSET Installs, NEW phase \in Phases,
         OneEach(es, chosen, phase), Extended(s, es, t)
  PROVE  Batched(s, chosen, phase, t)
<1> DEFINE N == Len(s)
           M == Len(es)
<1>1. /\ \A n \in 1..M : es[n].install \in chosen /\ es[n].phase = phase
      /\ \A i \in chosen : \E n \in 1..M : es[n].install = i
      /\ \A m, n \in 1..M : es[m].install = es[n].install => m = n
    BY DEF OneEach
<1>2. /\ N \in Nat /\ M \in Nat /\ Len(t) = N + M
      /\ \A n \in 1..N : t[n] = s[n]
      /\ \A n \in (N + 1)..(N + M) : t[n] = es[n - N]
      /\ \A m \in 1..M : t[N + m] = es[m]
    BY DEF Extended
<1>3. \A n \in 1..N : \A i : PhaseBefore(t, i, n) = PhaseBefore(s, i, n)
  <2>1. Len(s) <= Len(t) /\ \A l \in 1..Len(s) : s[l] = t[l]
      BY <1>2
  <2> QED
      BY <2>1, PhaseBeforeOld
<1>4. ASSUME NEW n \in (N + 1)..(N + M)
      PROVE  /\ t[n].install \in chosen /\ t[n].phase = phase
             /\ PhaseBefore(t, t[n].install, n) = PhaseBefore(s, t[n].install, N + 1)
  <2>1. n - N \in 1..M /\ t[n] = es[n - N]
      BY <1>2
  <2>2. \A l \in (N + 1)..(n - 1) : t[l].install # t[n].install
    <3> SUFFICES ASSUME NEW l \in (N + 1)..(n - 1), t[l].install = t[n].install
                 PROVE  FALSE
        OBVIOUS
    <3>1. l - N \in 1..M /\ t[l] = es[l - N] /\ l - N # n - N
        BY <1>2
    <3> QED
        BY <1>1, <2>1, <3>1
  <2>3. /\ n \in (Len(s) + 1)..(Len(t) + 1) /\ Len(s) <= Len(t)
        /\ \A l \in 1..Len(s) : s[l] = t[l]
      BY <1>2
  <2>4. PhaseBefore(t, t[n].install, n) = PhaseBefore(s, t[n].install, N + 1)
      BY <2>2, <2>3, PhaseBeforeNew
  <2> QED
      BY <1>1, <2>1, <2>4
<1>5. ASSUME NEW i \in chosen
      PROVE  PhaseBefore(t, i, Len(t) + 1) = phase
  <2>1. PICK m \in 1..M : es[m].install = i
      BY <1>1
  <2>2. N + m \in 1..(N + M) /\ N + m \in (N + 1)..(N + M) /\ t[N + m] = es[m]
      BY <1>2
  <2>3. t[N + m].install = i
      BY <2>1, <2>2
  <2> DEFINE now == {l \in DOMAIN t : l < Len(t) + 1 /\ t[l].install = i}
  <2>4. now \subseteq 1..Len(t) /\ Len(t) \in Nat /\ N + m \in now
      BY <1>2, <2>2, <2>3
  <2>5. Max(now) \in now /\ Max(now) >= N + m
      BY <2>4, LargestExists
  <2>6. Max(now) \in (N + 1)..(N + M)
    <3> HIDE DEF now
    <3>1. Max(now) \in 1..(N + M)
        BY <1>2, <2>4, <2>5
    <3> QED
        BY <1>2, <2>5, <3>1
  <2>7. t[Max(now)].phase = phase
      BY <1>4, <2>6
  <2> QED
      BY <2>4, <2>7 DEF PhaseBefore
<1>6. ASSUME NEW i \in Installs, i \notin chosen
      PROVE  PhaseBefore(t, i, Len(t) + 1) = PhaseBefore(s, i, N + 1)
  <2> DEFINE end == Len(t) + 1
  <2>1. \A l \in (N + 1)..(N + M) : t[l].install # i
      BY <1>4, <1>6
  <2>2. /\ end \in (Len(s) + 1)..(Len(t) + 1) /\ Len(s) <= Len(t)
        /\ \A l \in 1..Len(s) : s[l] = t[l]
        /\ \A l \in (Len(s) + 1)..(end - 1) : t[l].install # i
      BY <1>2, <2>1
  <2> HIDE DEF end
  <2>3. PhaseBefore(t, i, end) = PhaseBefore(s, i, Len(s) + 1)
      BY <2>2, PhaseBeforeNew
  <2> QED
      BY <2>3 DEF end
<1>7. /\ Range(s) = {s[n] : n \in 1..N} /\ Range(t) = {t[n] : n \in 1..(N + M)}
  <2>1. DOMAIN t = 1..(N + M) /\ DOMAIN s = 1..N
      BY <1>2
  <2> QED
      BY <2>1 DEF Range
<1>8. \A n \in 1..(N + M) : n \in 1..N \/ n \in (N + 1)..(N + M)
    BY <1>2
<1>9. Range(s) \subseteq Range(t)
  <2>1. \A n \in 1..N : n \in 1..(N + M)
      BY <1>2
  <2> QED
      BY <1>2, <1>7, <2>1
<1>10. \A x \in Range(t) : x \in Range(s) \/ (x.install \in chosen /\ x.phase = phase)
  <2> SUFFICES ASSUME NEW n \in 1..(N + M)
               PROVE  t[n] \in Range(s) \/ (t[n].install \in chosen /\ t[n].phase = phase)
      BY <1>7
  <2>1. CASE n \in 1..N
    <3>1. t[n] = s[n] /\ s[n] \in Range(s)
        BY <1>2, <1>7, <2>1
    <3> QED
        BY <3>1
  <2>2. CASE n \in (N + 1)..(N + M)
      BY <1>4, <2>2
  <2> QED
      BY <1>8, <2>1, <2>2
<1>11. \A i \in chosen : [install |-> i, phase |-> phase] \in Range(t)
  <2> SUFFICES ASSUME NEW i \in chosen
               PROVE  [install |-> i, phase |-> phase] \in Range(t)
      OBVIOUS
  <2>1. PICK m \in 1..M : es[m].install = i
      BY <1>1
  <2>2. N + m \in 1..(N + M) /\ N + m \in (N + 1)..(N + M) /\ t[N + m] = es[m]
      BY <1>2
  <2>3. es[m] \in Event /\ es[m].phase = phase
      BY <1>1
  <2>4. es[m] = [install |-> i, phase |-> phase]
      BY <2>1, <2>3 DEF Event
  <2> QED
      BY <1>7, <2>2, <2>4
<1>12. {x.install : x \in Range(t)} = {x.install : x \in Range(s)} \cup chosen
  <2>1. \A i \in chosen : \E x \in Range(t) : x.install = i
    <3> SUFFICES ASSUME NEW i \in chosen
                 PROVE  \E x \in Range(t) : x.install = i
        OBVIOUS
    <3>1. [install |-> i, phase |-> phase].install = i
        OBVIOUS
    <3> QED
        BY <1>11, <3>1
  <2> QED
      BY <1>9, <1>10, <2>1
<1> QED
    BY <1>2, <1>3, <1>4, <1>5, <1>6, <1>9, <1>10, <1>11, <1>12 DEF Batched

LEMMA BatchAppended ==
  ASSUME NEW s \in Seq(Event), NEW chosen \in SUBSET Installs, IsFiniteSet(chosen),
         NEW phase \in Phases
  PROVE  Batched(s, chosen, phase, s \o EventsOf(chosen, phase))
<1> DEFINE es == EventsOf(chosen, phase)
           t == s \o es
<1>1. es \in Seq(Event) /\ OneEach(es, chosen, phase)
    BY EventsShape DEF OneEach
<1> HIDE DEF es
<1>2. t \in Seq(Event) /\ Extended(s, es, t)
    BY <1>1 DEF Extended
<1> HIDE DEF t
<1>3. Batched(s, chosen, phase, t)
    BY <1>1, <1>2, BatchFollows
<1> QED
    BY <1>3 DEF t, es

-------------------------------------------------------------------------------
(* Frames and runs when something else changes *)

Keeps(f, g) == \A i \in Retired(f) : g.retired[i] = f.retired[i]

LEMMA RetiredByKept ==
  ASSUME NEW run, NEW plan, NEW f, NEW g, Keeps(f, g), NEW i \in Installs,
         RetiredBy(run, plan, f, i)
  PROVE  RetiredBy(run, plan, g, i)
BY DEF RetiredBy, Keeps, Retired

LEMMA FrameKept ==
  ASSUME NEW e, NEW run, NEW plan, NEW f, NEW g, NEW where, NEW after,
         FrameIn(e, run, plan, f, where), Keeps(f, g),
         e.at = "deleted" => after[e.item] = "absent"
  PROVE  FrameIn(e, run, plan, g, after)
<1>1. \A i \in CandidatesIn(plan) : RetiredBy(run, plan, f, i) => RetiredBy(run, plan, g, i)
    BY RetiredByKept DEF CandidatesIn
<1> QED
    BY <1>1 DEF FrameIn

LEMMA RunKept ==
  ASSUME NEW run, NEW plan, NEW f, NEW g, RunIn(run, plan, f), Keeps(f, g)
  PROVE  RunIn(run, plan, g)
<1>1. \A i \in CandidatesIn(plan) : RetiredBy(run, plan, f, i) => RetiredBy(run, plan, g, i)
    BY RetiredByKept DEF CandidatesIn
<1>2. \A n \in DOMAIN run.events : run.events[n].install \in CandidatesIn(plan)
  <2>1. {e.install : e \in Range(run.events)} = CandidatesIn(plan)
      BY DEF RunIn
  <2> QED
      BY <2>1 DEF Range
<1> QED
    BY <1>1, <1>2 DEF RunIn

\* What the validator asks of a run, of the run, its plan and the facts alone.
LEMMA RunsAccepted ==
  RunsSound => \A r \in DOMAIN runs : RunAccepted(r)
<1> SUFFICES ASSUME RunsSound, NEW r \in DOMAIN runs
             PROVE  RunAccepted(r)
    OBVIOUS
<1>1. RunIn(runs[r], plans[runs[r].plan], facts)
    BY DEF RunsSound
<1>2. CandidatesIn(plans[runs[r].plan]) = Candidates(runs[r].plan)
    BY DEF CandidatesIn, Candidates
<1> QED
    BY <1>1, <1>2 DEF RunIn, RunAccepted, RetiredBy

\* A run grows by a batch whose phase may follow the last one of its installations.
LEMMA RunRecorded ==
  ASSUME NEW run \in Run, NEW plan, NEW f, NEW g, NEW chosen \in SUBSET CandidatesIn(plan),
         NEW phase \in Phases, NEW t, Batched(run.events, chosen, phase, t),
         RunIn(run, plan, f), Keeps(f, g),
         \A i \in chosen :
           phase \in MayFollow(PhaseBefore(run.events, i, Len(run.events) + 1)),
         \A i \in chosen : phase \in {"retired", "moved", "completed"} => RetiredBy(run, plan, g, i),
         phase = "blocked" =>
           chosen = CandidatesIn(plan) /\ \A x \in Range(run.events) : x.phase # "blocked"
  PROVE  RunIn([plan |-> run.plan, events |-> t], plan, g)
<1> DEFINE s == run.events
           now == [plan |-> run.plan, events |-> t]
<1>1. s \in Seq(Event) /\ t \in Seq(Event) /\ Len(s) \in Nat /\ Len(s) <= Len(t)
    BY DEF Run, Batched
<1>2. {x.install : x \in Range(t)} = CandidatesIn(plan)
    BY DEF Batched, RunIn
<1>3. {x.install : x \in {y \in Range(t) : y.phase = "blocked"}} \in {{}, CandidatesIn(plan)}
  <2>1. CASE phase = "blocked"
    <3>1. \A i \in chosen : [install |-> i, phase |-> phase] \in Range(t)
        BY DEF Batched
    <3>2. \A i \in chosen : [install |-> i, phase |-> phase].install = i
                            /\ [install |-> i, phase |-> phase].phase = "blocked"
        BY <2>1
    <3>3. \A x \in Range(t) : x.phase = "blocked" => x.install \in chosen
        BY <2>1 DEF Batched
    <3> QED
        BY <2>1, <3>1, <3>2, <3>3
  <2>2. CASE phase # "blocked"
    <3>1. \A x \in Range(t) : x.phase = "blocked" => x \in Range(s)
        BY <2>2 DEF Batched
    <3>2. Range(s) \subseteq Range(t)
        BY DEF Batched
    <3>3. {y \in Range(t) : y.phase = "blocked"} = {y \in Range(s) : y.phase = "blocked"}
        BY <3>1, <3>2
    <3> QED
        BY <3>3 DEF RunIn
  <2> QED
      BY <2>1, <2>2
<1>4. ASSUME NEW n \in DOMAIN t
      PROVE  /\ t[n].phase \in MayFollow(PhaseBefore(t, t[n].install, n))
             /\ t[n].phase \in {"retired", "moved", "completed"}
                  => RetiredBy(run, plan, g, t[n].install)
  <2>1. n \in 1..Len(s) \/ n \in (Len(s) + 1)..Len(t)
      BY <1>1
  <2>2. CASE n \in 1..Len(s)
    <3>1. t[n] = s[n] /\ PhaseBefore(t, t[n].install, n) = PhaseBefore(s, s[n].install, n)
        BY <2>2 DEF Batched
    <3>2. n \in DOMAIN s
        BY <1>1, <2>2
    <3>3. /\ s[n].phase \in MayFollow(PhaseBefore(s, s[n].install, n))
          /\ s[n].phase \in {"retired", "moved", "completed"} => RetiredBy(run, plan, g, s[n].install)
        BY <3>2, RunKept DEF RunIn
    <3> QED
        BY <3>1, <3>3
  <2>3. CASE n \in (Len(s) + 1)..Len(t)
    <3>1. /\ t[n].install \in chosen /\ t[n].phase = phase
          /\ PhaseBefore(t, t[n].install, n) = PhaseBefore(s, t[n].install, Len(s) + 1)
        BY <2>3 DEF Batched
    <3> QED
        BY <3>1
  <2> QED
      BY <2>1, <2>2, <2>3
<1>5. now.plan = run.plan /\ now.events = t
    OBVIOUS
<1>6. \A i : RetiredBy(now, plan, g, i) <=> RetiredBy(run, plan, g, i)
    BY <1>5 DEF RetiredBy
<1> HIDE DEF now
<1>7. RunIn(now, plan, g)
    BY <1>2, <1>3, <1>4, <1>5, <1>6 DEF RunIn
<1> QED
    BY <1>7 DEF now

\* A run that begins: nothing has happened to any candidate of its plan.
LEMMA RunBegun ==
  ASSUME NEW plan, NEW p, NEW f, NEW t, IsFiniteSet(CandidatesIn(plan)),
         t = EventsOf(CandidatesIn(plan), "not_run")
  PROVE  /\ t \in Seq(Event)
         /\ RunIn([plan |-> p, events |-> t], plan, f)
         /\ \A i \in CandidatesIn(plan) : PhaseBefore(t, i, Len(t) + 1) = "not_run"
         /\ \A x \in Range(t) : x.phase = "not_run"
<1> DEFINE chosen == CandidatesIn(plan)
           now == [plan |-> p, events |-> t]
           none == <<>>
<1>1. chosen \in SUBSET Installs /\ "not_run" \in Phases
    BY DEF CandidatesIn, Phases
<1>2. t \in Seq(Event)
    BY <1>1, EventsShape
<1>3. none \in Seq(Event) /\ Len(none) = 0 /\ none \o t = t /\ Range(none) = {}
    BY <1>2 DEF Range
<1>4. Batched(none, chosen, "not_run", t)
    BY <1>1, <1>3, BatchAppended
<1>5. \A i : PhaseBefore(none, i, Len(none) + 1) = "none"
    BY DEF PhaseBefore
<1> HIDE DEF none
<1>6. {x.install : x \in Range(t)} = chosen
    BY <1>3, <1>4 DEF Batched
<1>7. \A x \in Range(t) : x.phase = "not_run"
    BY <1>3, <1>4 DEF Batched
<1>8. ASSUME NEW n \in DOMAIN t
      PROVE  t[n].phase = "not_run" /\ PhaseBefore(t, t[n].install, n) = "none"
  <2>1. n \in (Len(none) + 1)..Len(t)
      BY <1>2, <1>3
  <2>2. /\ t[n].phase = "not_run"
        /\ PhaseBefore(t, t[n].install, n) = PhaseBefore(none, t[n].install, Len(none) + 1)
      BY <1>4, <2>1 DEF Batched
  <2> QED
      BY <1>5, <2>2
<1>9. \A i \in chosen : PhaseBefore(t, i, Len(t) + 1) = "not_run"
    BY <1>1, <1>4 DEF Batched
<1>10. now.plan = p /\ now.events = t
    OBVIOUS
<1> HIDE DEF now, chosen
<1>11. RunIn(now, plan, f)
  <2>1. {e.install : e \in {x \in Range(t) : x.phase = "blocked"}} = {}
      BY <1>7
  <2>2. \A n \in DOMAIN t : t[n].phase \in MayFollow(PhaseBefore(t, t[n].install, n))
      BY <1>8 DEF MayFollow
  <2> QED
      BY <1>6, <1>8, <1>10, <2>1, <2>2 DEF RunIn, chosen
<1> QED
    BY <1>2, <1>7, <1>9, <1>11 DEF now, chosen

-------------------------------------------------------------------------------
(* What the invariant says of retired installations, candidates and frames *)

LEMMA CandidateFacts ==
  ASSUME IInv, NEW p \in DOMAIN plans
  PROVE  /\ IsFiniteSet(CandidatesIn(plans[p]))
         /\ CandidatesIn(plans[p]) \subseteq plans[p].facts.installed
         /\ CandidatesIn(plans[p]) \subseteq facts.installed
         /\ CandidatesIn(plans[p]) \subseteq Installs
<1>1. PlanSound(plans[p]) /\ StillThere(plans[p].facts, facts)
    BY DEF IInv, PlansSound
<1>2. IsFiniteSet(plans[p].facts.installed)
      /\ CandidatesIn(plans[p]) \subseteq plans[p].facts.installed
    BY <1>1 DEF PlanSound, CandidatesIn
<1>3. plans[p].facts.installed \subseteq facts.installed
    BY <1>1 DEF StillThere
<1>4. IsFiniteSet(CandidatesIn(plans[p]))
    BY <1>2, FS_Subset
<1> QED
    BY <1>2, <1>3, <1>4 DEF CandidatesIn

LEMMA RetiredIsInstalled ==
  ASSUME IInv
  PROVE  Retired(facts) \subseteq facts.installed /\ CompletedInstalls \subseteq Retired(facts)
<1>1. ASSUME NEW i \in Retired(facts)
      PROVE  i \in facts.installed
  <2>1. facts.retired[i] \in DOMAIN plans /\ i \in Candidates(facts.retired[i])
      BY <1>1 DEF IInv, RetirementsAccepted
  <2>2. i \in CandidatesIn(plans[facts.retired[i]])
      BY <2>1 DEF Candidates, CandidatesIn
  <2> QED
      BY <2>1, <2>2, CandidateFacts
<1> QED
    BY <1>1 DEF IInv, CompletedSound

LEMMA IdleIsNone == Idle \notin Executing /\ Idle \notin Surveyed /\ Idle \notin Caller
BY DEF Idle, Executing, Surveyed, Caller

LEMMA BusyCaller ==
  ASSUME TypeOK, NEW c \in Callers, callers[c] # Idle
  PROVE  callers[c] \in Caller
BY DEF TypeOK

LEMMA BusyCleaner ==
  ASSUME TypeOK, NEW k \in Cleaners, cleaners[k] # Idle
  PROVE  /\ cleaners[k] \in Surveyed \cup Executing
         /\ cleaners[k].at = "surveyed" => cleaners[k] \in Surveyed
         /\ cleaners[k].at # "surveyed" => cleaners[k] \in Executing
         /\ cleaners[k] \in Executing => cleaners[k].at # "surveyed"
BY DEF TypeOK, Surveyed, Executing

\* What an executing cleaner knows.
LEMMA ExecutingFacts ==
  ASSUME IInv, NEW k \in Cleaners, cleaners[k] \in Executing
  PROVE  /\ cleaners[k].run \in DOMAIN runs /\ runs[cleaners[k].run] \in Run
         /\ PlanOf(k) = runs[cleaners[k].run].plan /\ PlanOf(k) \in DOMAIN plans
         /\ PlanOf(k) \in 1..MaxPlans
         /\ Chosen(k) = CandidatesIn(plans[PlanOf(k)]) /\ IsFiniteSet(Chosen(k))
         /\ Chosen(k) \subseteq facts.installed /\ Chosen(k) \subseteq Installs
         /\ FrameIn(cleaners[k], runs[cleaners[k].run], plans[PlanOf(k)], facts, place)
         /\ RunIn(runs[cleaners[k].run], plans[PlanOf(k)], facts)
         /\ LockedBy(k) = cleaners[k].locked
         /\ cleaners[k].at \notin {"started", "locking"} => LockedBy(k) = Chosen(k)
<1>1. FrameSound(cleaners[k])
    BY DEF IInv, FramesSound
<1>2. cleaners[k].run \in DOMAIN runs /\ runs[cleaners[k].run] \in Run
    BY <1>1 DEF FrameSound, IInv, TypeOK
<1>3. PlanOf(k) = runs[cleaners[k].run].plan /\ PlanOf(k) \in DOMAIN plans /\ PlanOf(k) \in 1..MaxPlans
    BY <1>1, <1>2 DEF FrameSound, PlanOf, Run
<1>4. Chosen(k) = CandidatesIn(plans[PlanOf(k)])
    BY DEF Chosen, Candidates, CandidatesIn
<1>5. /\ FrameIn(cleaners[k], runs[cleaners[k].run], plans[PlanOf(k)], facts, place)
      /\ RunIn(runs[cleaners[k].run], plans[PlanOf(k)], facts)
    BY <1>1, <1>2, <1>3 DEF FrameSound, IInv, RunsSound
<1>6. LockedBy(k) = cleaners[k].locked
    BY IdleIsNone DEF LockedBy, Executing
<1>7. cleaners[k].at \notin {"started", "locking"} => cleaners[k].locked = Chosen(k)
    BY <1>4, <1>5 DEF FrameIn
<1> QED
    BY <1>2, <1>3, <1>4, <1>5, <1>6, <1>7, CandidateFacts

-------------------------------------------------------------------------------
(* Steps of the callers *)

\* Whose lock may be new after a step of a caller.
LEMMA CallerTakes ==
  ASSUME NEW c \in Callers, NEW v, TypeOK,
         callers' = [callers EXCEPT ![c] = v],
         children' = children \/ children' = [children EXCEPT ![c] = NoInstall],
         NEW i \in Installs, Shared(i)'
  PROVE  Shared(i) \/ (v # Idle /\ v.at \in LockStates /\ v.install = i)
<1>1. PICK d \in Callers : \/ callers'[d] # Idle /\ callers'[d].at \in LockStates
                              /\ callers'[d].install = i
                           \/ children'[d] = i
    BY DEF Shared, Idle, LockStates
<1>2. CASE callers'[d] # Idle /\ callers'[d].at \in LockStates /\ callers'[d].install = i
  <2>1. CASE d = c
    <3>1. callers'[d] = v
        BY <2>1 DEF TypeOK
    <3> QED
        BY <1>2, <3>1
  <2>2. CASE d # c
    <3>1. callers'[d] = callers[d]
        BY <2>2 DEF TypeOK
    <3> QED
        BY <1>2, <3>1 DEF Shared
  <2> QED
      BY <2>1, <2>2
<1>3. CASE children'[d] = i
  <2>1. children[d] = i
      BY <1>3, NullAssumption DEF TypeOK
  <2> QED
      BY <2>1 DEF Shared
<1> QED
    BY <1>1, <1>2, <1>3

\* A step that leaves records, trees and cleaners alone, and whose new locks are on
\* installations in place, not retired and not locked by a cleaner.
LEMMA CallerStepSound ==
  ASSUME IInv, TypeOK', CallersSound',
         UNCHANGED <<facts, plans, runs, place, cleaners>>,
         \A i \in Installs : Shared(i)' =>
           Shared(i) \/ (~Exclusive(i) /\ place[i] = "placed" /\ i \notin Retired(facts))
  PROVE  IInv'
<1>1. /\ \A i \in Installs : Exclusive(i)' <=> Exclusive(i)
      /\ \A k \in Cleaners : LockedBy(k)' = LockedBy(k)
    BY DEF Exclusive, LockedBy, Idle
<1>2. LocksSound' /\ SharedSound'
    BY <1>1 DEF IInv, LocksSound, SharedSound
<1>3. PlansSound' /\ SurveysSound' /\ RunsSound' /\ FramesSound'
    BY DEF IInv, PlansSound, SurveysSound, RunsSound, FramesSound, FrameSound
<1>4. ProtectedIsNotRetired' /\ RetirementsAccepted' /\ PlacedOrRetired' /\ CompletedSound'
    BY DEF IInv, ProtectedIsNotRetired, RetirementsAccepted, PlacedOrRetired, CompletedSound,
           CompletedInstalls, Candidates
<1>5. IsFiniteSet(facts.installed)'
    BY DEF IInv
<1> QED
    BY <1>2, <1>3, <1>4, <1>5 DEF IInv

LEMMA CallerMoves ==
  ASSUME IInv, NEW c \in Callers, NEW v \in {Idle} \cup Caller, CallerSound(v),
         callers' = [callers EXCEPT ![c] = v],
         children' = children \/ children' = [children EXCEPT ![c] = NoInstall],
         UNCHANGED <<facts, plans, runs, place, pieces, cleaners>>,
         intents' \in [{"prepare", "rebuild"} -> Installs \cup {NoInstall, Torn}],
         faults' \in 0..MaxFaults,
         v # Idle /\ v.at \in LockStates =>
           Shared(v.install) \/ (~Exclusive(v.install) /\ place[v.install] = "placed"
                                 /\ v.install \notin Retired(facts))
  PROVE  IInv'
<1>1. TypeOK /\ CallersSound
    BY DEF IInv
<1>2. TypeOK'
  <2>1. callers' \in [Callers -> {Idle} \cup Caller]
      BY <1>1 DEF TypeOK
  <2>2. children' \in [Callers -> Installs \cup {NoInstall}]
      BY <1>1 DEF TypeOK
  <2> QED
      BY <1>1, <2>1, <2>2 DEF TypeOK
<1>3. CallersSound'
  <2>1. \A x : CallerSound(x)' <=> CallerSound(x)
      BY DEF CallerSound, PublishStates, Idle
  <2>2. \A d \in Callers : CallerSound(callers'[d])
      BY <1>1 DEF CallersSound, TypeOK
  <2> QED
      BY <2>1, <2>2 DEF CallersSound
<1>4. \A i \in Installs : Shared(i)' =>
        Shared(i) \/ (~Exclusive(i) /\ place[i] = "placed" /\ i \notin Retired(facts))
    BY <1>1, CallerTakes
<1> QED
    BY <1>2, <1>3, <1>4, CallerStepSound

LEMMA UseSelectedSound ==
  ASSUME IInv, NEW c \in Users, UseSelected(c)
  PROVE  IInv'
<1> DEFINE v == [op |-> "use", at |-> "candidate", install |-> Current, rest |-> <<>>]
<1>1. /\ c \in Callers /\ TypeOK /\ callers' = [callers EXCEPT ![c] = v]
      /\ UNCHANGED <<facts, plans, runs, place, pieces, cleaners, intents, faults, children>>
    BY DEF IInv, Callers, UseSelected, Takes, database, trees
<1>2. Current \in Installs
  <2>1. Registered(Current)
      BY DEF UseSelected
  <2> QED
      BY <1>1, <2>1 DEF Registered, TypeOK, Facts
<1>3. v \in Caller /\ v.at \notin LockStates /\ CallerSound(v)
    BY <1>2 DEF Caller, LockStates, CallerSound, PublishStates
<1>4. /\ intents' \in [{"prepare", "rebuild"} -> Installs \cup {NoInstall, Torn}]
      /\ faults' \in 0..MaxFaults
    BY <1>1 DEF TypeOK
<1> HIDE DEF v
<1> QED
    BY <1>1, <1>3, <1>4, CallerMoves

LEMMA VerifySound ==
  ASSUME IInv, NEW c \in Users, NEW i \in Installs, Verify(c, i)
  PROVE  IInv'
<1> DEFINE at == IF Registered(i) THEN "candidate" ELSE "refused"
           v == [op |-> "verify", at |-> at, install |-> i, rest |-> <<>>]
<1>1. /\ c \in Callers /\ TypeOK /\ callers' = [callers EXCEPT ![c] = v]
      /\ UNCHANGED <<facts, plans, runs, place, pieces, cleaners, intents, faults, children>>
    BY DEF IInv, Callers, Verify, Takes, database, trees
<1>2. v \in Caller /\ v.at \notin LockStates /\ CallerSound(v)
    BY DEF Caller, LockStates, CallerSound, PublishStates
<1>3. /\ intents' \in [{"prepare", "rebuild"} -> Installs \cup {NoInstall, Torn}]
      /\ faults' \in 0..MaxFaults
    BY <1>1 DEF TypeOK
<1> HIDE DEF v
<1> QED
    BY <1>1, <1>2, <1>3, CallerMoves

LEMMA ActivateSound ==
  ASSUME IInv, NEW c \in Users, Activate(c)
  PROVE  IInv'
<1>1. /\ c \in Callers /\ TypeOK /\ IsFiniteSet(facts.installed)
      /\ UNCHANGED <<facts, plans, runs, place, pieces, cleaners, intents, faults, children>>
    BY DEF IInv, Callers, Activate, database, trees
<1>2. PICK order \in LatestFirst(Available) :
        Takes(c, "activate", Head(order), Tail(order))
    BY DEF Activate
<1>3. Head(order) \in Installs /\ Tail(order) \in Seq(Installs)
  <2>1. Available \subseteq facts.installed /\ Available \subseteq Installs
      BY DEF Available, Registered
  <2>2. IsFiniteSet(Available) /\ Available # {}
      BY <1>1, <2>1, FS_Subset DEF Activate
  <2>3. Cardinality(Available) \in Nat /\ Cardinality(Available) # 0
      BY <2>2, FS_CardinalityType, FS_EmptySet
  <2>4. order \in [1..Cardinality(Available) -> Available]
      BY DEF LatestFirst
  <2>5. order \in Seq(Installs) /\ Len(order) = Cardinality(Available)
      BY <2>1, <2>3, <2>4
  <2>6. order # <<>>
      BY <2>3, <2>5
  <2> QED
      BY <2>5, <2>6, HeadTailProperties
<1> DEFINE v == [op |-> "activate", at |-> "candidate", install |-> Head(order),
                 rest |-> Tail(order)]
<1>4. callers' = [callers EXCEPT ![c] = v]
    BY <1>2 DEF Takes
<1>5. v \in Caller /\ v.at \notin LockStates /\ CallerSound(v)
    BY <1>3 DEF Caller, LockStates, CallerSound, PublishStates
<1>6. /\ intents' \in [{"prepare", "rebuild"} -> Installs \cup {NoInstall, Torn}]
      /\ faults' \in 0..MaxFaults
    BY <1>1 DEF TypeOK
<1> HIDE DEF v
<1> QED
    BY <1>1, <1>4, <1>5, <1>6, CallerMoves

LEMMA HeldIsShared ==
  ASSUME NEW c \in Callers, callers[c] # Idle, callers[c].at \in LockStates
  PROVE  Shared(callers[c].install)
BY DEF Shared

LEMMA ProceedsTo ==
  ASSUME NEW r \in Caller, NEW at
  PROVE  [r EXCEPT !.at = at]
           = [op |-> r.op, at |-> at, install |-> r.install, rest |-> r.rest]
BY DEF Caller

LEMMA ProceedsWith ==
  ASSUME NEW r \in Caller, NEW at, NEW i
  PROVE  [r EXCEPT !.at = at, !.install = i]
           = [op |-> r.op, at |-> at, install |-> i, rest |-> r.rest]
<1> DEFINE now == [r EXCEPT !.at = at, !.install = i]
<1>1. now \in [op : {r.op}, at : {at}, install : {i}, rest : {r.rest}]
    BY DEF Caller
<1> HIDE DEF now
<1>2. now = [op |-> r.op, at |-> at, install |-> i, rest |-> r.rest]
    BY <1>1
<1> QED
    BY <1>2 DEF now

LEMMA AcquireSound ==
  ASSUME IInv, NEW c \in Users, Acquire(c)
  PROVE  IInv'
<1> DEFINE r == callers[c]
           i == r.install
<1>1. /\ c \in Callers /\ TypeOK /\ CallerSound(r)
      /\ UNCHANGED <<facts, plans, runs, place, pieces, cleaners, intents, faults, children>>
      /\ r # Idle /\ r.at = "candidate"
    BY DEF IInv, Callers, CallersSound, Acquire, database, trees
<1>2. r \in Caller /\ i \in Installs /\ r.op \in {"use", "activate", "verify"}
    BY <1>1, BusyCaller DEF CallerSound
<1>3. /\ intents' \in [{"prepare", "rebuild"} -> Installs \cup {NoInstall, Torn}]
      /\ faults' \in 0..MaxFaults
    BY <1>1 DEF TypeOK
<1>4. \/ ~Exclusive(i) /\ Registered(i) /\ Complete(i) /\ Proceeds(c, "handle")
      \/ Refused(c)
    BY DEF Acquire
<1>5. CASE ~Exclusive(i) /\ Registered(i) /\ Complete(i) /\ Proceeds(c, "handle")
  <2> DEFINE v == [op |-> r.op, at |-> "handle", install |-> i, rest |-> r.rest]
  <2>1. callers' = [callers EXCEPT ![c] = v]
      BY <1>2, <1>5, ProceedsTo DEF Proceeds
  <2>2. v \in Caller /\ CallerSound(v) /\ v.install = i
      BY <1>2 DEF Caller, CallerSound, PublishStates
  <2>3. ~Exclusive(i) /\ place[i] = "placed" /\ i \notin Retired(facts)
      BY <1>5 DEF Registered, Complete
  <2> HIDE DEF v
  <2> QED
      BY <1>1, <1>3, <2>1, <2>2, <2>3, CallerMoves
<1>6. CASE Refused(c)
  <2>1. \E v \in {Idle} \cup Caller :
          /\ callers' = [callers EXCEPT ![c] = v] /\ CallerSound(v)
          /\ v # Idle => v.at \notin LockStates
    <3>1. CASE r.op = "use" \/ (r.op = "activate" /\ r.rest = <<>>)
      <4>1. callers' = [callers EXCEPT ![c] = Idle]
          BY <1>6, <3>1 DEF Refused, Stops
      <4> QED
          BY <4>1 DEF CallerSound
    <3>2. CASE r.op = "verify"
      <4> DEFINE v == [op |-> r.op, at |-> "refused", install |-> i, rest |-> r.rest]
      <4>1. callers' = [callers EXCEPT ![c] = v]
          BY <1>2, <1>6, <3>2, ProceedsTo DEF Refused, Proceeds
      <4>2. v \in Caller /\ CallerSound(v) /\ v.at \notin LockStates
          BY <1>2 DEF Caller, CallerSound, PublishStates, LockStates
      <4> QED
          BY <4>1, <4>2
    <3>3. CASE r.op = "activate" /\ r.rest # <<>>
      <4> DEFINE v == [op |-> "activate", at |-> "candidate", install |-> Head(r.rest),
                       rest |-> Tail(r.rest)]
      <4>1. callers' = [callers EXCEPT ![c] = v]
          BY <1>6, <3>3 DEF Refused, Takes
      <4>2. Head(r.rest) \in Installs /\ Tail(r.rest) \in Seq(Installs)
          BY <1>2, <3>3, HeadTailProperties DEF Caller
      <4>3. v \in Caller /\ CallerSound(v) /\ v.at \notin LockStates
          BY <4>2 DEF Caller, CallerSound, PublishStates, LockStates
      <4> QED
          BY <4>1, <4>3
    <3> QED
        BY <1>2, <3>1, <3>2, <3>3
  <2>2. PICK v \in {Idle} \cup Caller :
          /\ callers' = [callers EXCEPT ![c] = v] /\ CallerSound(v)
          /\ v # Idle => v.at \notin LockStates
      BY <2>1
  <2> QED
      BY <1>1, <1>3, <2>2, CallerMoves
<1> QED
    BY <1>4, <1>5, <1>6

LEMMA StopsSound ==
  ASSUME IInv, NEW c \in Callers, Stops(c),
         children' = children \/ children' = [children EXCEPT ![c] = NoInstall],
         UNCHANGED <<facts, plans, runs, place, pieces, cleaners>>,
         intents' \in [{"prepare", "rebuild"} -> Installs \cup {NoInstall, Torn}],
         faults' \in 0..MaxFaults
  PROVE  IInv'
BY CallerMoves DEF Stops, CallerSound

LEMMA EndUseSound ==
  ASSUME IInv, NEW c \in Users, EndUse(c)
  PROVE  IInv'
<1>1. /\ c \in Callers /\ TypeOK /\ Stops(c) /\ children' = [children EXCEPT ![c] = NoInstall]
      /\ UNCHANGED <<facts, plans, runs, place, pieces, cleaners, intents, faults>>
    BY DEF IInv, Callers, EndUse, database, trees
<1> QED
    BY <1>1, StopsSound DEF TypeOK

LEMMA ChildExitsSound ==
  ASSUME IInv, NEW c \in Callers, ChildExits(c)
  PROVE  IInv'
<1>1. /\ TypeOK /\ CallersSound /\ children' = [children EXCEPT ![c] = NoInstall]
      /\ UNCHANGED <<facts, plans, runs, place, pieces, cleaners, intents, faults, callers>>
    BY DEF IInv, ChildExits, database, trees
<1>2. callers' = [callers EXCEPT ![c] = callers[c]] /\ callers[c] \in {Idle} \cup Caller
    BY <1>1 DEF TypeOK
<1>3. CallerSound(callers[c])
    BY <1>1 DEF CallersSound
<1> QED
    BY <1>1, <1>2, <1>3, CallerMoves, HeldIsShared DEF TypeOK

LEMMA SpawnSound ==
  ASSUME IInv, NEW c \in Callers, Spawn(c)
  PROVE  IInv'
<1> DEFINE i == callers[c].install
<1>1. /\ TypeOK /\ CallersSound /\ children' = [children EXCEPT ![c] = i]
      /\ UNCHANGED <<facts, plans, runs, place, pieces, cleaners, intents, faults, callers>>
    BY DEF IInv, Spawn, database, trees
<1>2. callers[c] # Idle /\ callers[c].at \in LockStates
    BY DEF Spawn, LockStates
<1>3. Shared(i)
    BY <1>2, HeldIsShared
<1>4. i \in Installs
    BY <1>1, <1>2 DEF CallersSound, CallerSound, LockStates
<1>5. TypeOK'
    BY <1>1, <1>4 DEF TypeOK
<1>6. CallersSound'
  <2>1. \A x : CallerSound(x)' <=> CallerSound(x)
      BY DEF CallerSound, PublishStates, Idle
  <2> QED
      BY <1>1, <2>1 DEF CallersSound
<1>7. ASSUME NEW j \in Installs, Shared(j)'
      PROVE  Shared(j)
  <2>1. PICK d \in Callers : \/ callers[d] # Idle /\ callers[d].at \in LockStates
                                /\ callers[d].install = j
                             \/ children'[d] = j
      BY <1>1, <1>7 DEF Shared, Idle, LockStates
  <2>2. CASE children'[d] = j /\ d = c
      BY <1>1, <1>3, <2>2 DEF TypeOK
  <2>3. CASE children'[d] = j /\ d # c
    <3>1. children[d] = j
        BY <1>1, <2>3 DEF TypeOK
    <3> QED
        BY <3>1 DEF Shared
  <2> QED
      BY <2>1, <2>2, <2>3 DEF Shared
<1> QED
    BY <1>1, <1>5, <1>6, <1>7, CallerStepSound

LEMMA BuildSound ==
  ASSUME IInv, NEW c \in Publishers, NEW op \in {"prepare", "rebuild"}, Build(c, op)
  PROVE  IInv'
<1> DEFINE v == [op |-> op, at |-> "building", install |-> NoInstall, rest |-> <<>>]
<1>1. /\ c \in Callers /\ TypeOK /\ callers' = [callers EXCEPT ![c] = v]
      /\ UNCHANGED <<facts, plans, runs, place, pieces, cleaners, intents, faults, children>>
    BY DEF IInv, Callers, Build, database, trees
<1>2. v \in Caller /\ v.at \notin LockStates /\ CallerSound(v)
    BY DEF Caller, LockStates, CallerSound, PublishStates
<1> HIDE DEF v
<1> QED
    BY <1>1, <1>2, CallerMoves DEF TypeOK

\* A publisher that goes on: it publishes as before, and takes no lock.
LEMMA PublisherProceeds ==
  ASSUME IInv, NEW c \in Publishers, callers[c] # Idle,
         callers[c].at \in PublishStates \cup {"building"},
         NEW at \in {"publishing", "intended"}, NEW i \in Installs \cup {NoInstall},
         at = "intended" => i \in Installs,
         callers' = [callers EXCEPT ![c].at = at, ![c].install = i],
         UNCHANGED <<facts, plans, runs, place, pieces, cleaners, faults, children>>,
         intents' \in [{"prepare", "rebuild"} -> Installs \cup {NoInstall, Torn}]
  PROVE  IInv'
<1> DEFINE r == callers[c]
           v == [op |-> r.op, at |-> at, install |-> i, rest |-> r.rest]
<1>1. c \in Callers /\ TypeOK /\ CallerSound(r)
    BY DEF IInv, Callers, CallersSound
<1>2. r \in Caller /\ r.op \in {"prepare", "rebuild"}
    BY <1>1, BusyCaller DEF CallerSound
<1>3. [r EXCEPT !.at = at, !.install = i] = v
    BY <1>2, ProceedsWith
<1>4. callers' = [callers EXCEPT ![c] = v]
  <2>1. callers' = [callers EXCEPT ![c] = [r EXCEPT !.at = at, !.install = i]]
      BY <1>1 DEF TypeOK
  <2> QED
      BY <1>3, <2>1
<1>5. v \in Caller /\ v.at \notin LockStates /\ CallerSound(v)
    BY <1>2 DEF Caller, LockStates, CallerSound, PublishStates
<1> HIDE DEF v
<1> QED
    BY <1>1, <1>4, <1>5, CallerMoves DEF TypeOK

LEMMA EnterPublicationSound ==
  ASSUME IInv, NEW c \in Publishers, EnterPublication(c)
  PROVE  IInv'
<1> DEFINE r == callers[c]
<1>1. /\ c \in Callers /\ TypeOK /\ r # Idle /\ r.at = "building"
      /\ UNCHANGED <<facts, plans, runs, place, pieces, cleaners, intents, faults, children>>
    BY DEF IInv, Callers, EnterPublication, database, trees
<1>2. Stops(c) \/ Proceeds(c, "publishing")
    BY DEF EnterPublication
<1>3. CASE Stops(c)
    BY <1>1, <1>3, StopsSound DEF TypeOK
<1>4. CASE Proceeds(c, "publishing")
  <2>1. r \in Caller
      BY <1>1, BusyCaller
  <2>2. r.install \in Installs \cup {NoInstall}
      BY <2>1 DEF Caller
  <2>3. callers' = [callers EXCEPT ![c].at = "publishing", ![c].install = r.install]
    <3>1. [r EXCEPT !.at = "publishing"]
            = [[r EXCEPT !.at = "publishing"] EXCEPT !.install = r.install]
        BY <2>1 DEF Caller
    <3>2. callers' = [callers EXCEPT ![c] = [r EXCEPT !.at = "publishing"]]
        BY <1>1, <1>4 DEF Proceeds, TypeOK
    <3>3. callers' = [callers EXCEPT ![c] =
                        [[r EXCEPT !.at = "publishing"] EXCEPT !.install = r.install]]
        BY <3>1, <3>2
    <3> QED
        BY <1>1, <3>3 DEF TypeOK
  <2> QED
      BY <1>1, <2>2, <2>3, PublisherProceeds DEF TypeOK
<1> QED
    BY <1>2, <1>3, <1>4

LEMMA ReadIntentSound ==
  ASSUME IInv, NEW c \in Publishers, ReadIntent(c)
  PROVE  IInv'
<1> DEFINE r == callers[c]
           op == r.op
<1>1. /\ c \in Callers /\ TypeOK /\ r # Idle /\ r.at = "publishing" /\ CallerSound(r)
      /\ UNCHANGED <<facts, plans, runs, place, pieces, cleaners, faults, children>>
    BY DEF IInv, Callers, CallersSound, ReadIntent, database, trees
<1>2. op \in {"prepare", "rebuild"} /\ r.at \in PublishStates \cup {"building"}
    BY <1>1 DEF CallerSound, PublishStates
<1>3. \/ Stops(c) /\ UNCHANGED intents
      \/ \E i \in IF intents[op] = NoInstall THEN Unused ELSE {intents[op]} \ {Torn} :
           /\ intents' = [intents EXCEPT ![op] = i]
           /\ callers' = [callers EXCEPT ![c].at = "intended", ![c].install = i]
    BY DEF ReadIntent
<1>4. CASE Stops(c) /\ UNCHANGED intents
    BY <1>1, <1>4, StopsSound DEF TypeOK
<1>5. ASSUME NEW i \in IF intents[op] = NoInstall THEN Unused ELSE {intents[op]} \ {Torn},
             intents' = [intents EXCEPT ![op] = i],
             callers' = [callers EXCEPT ![c].at = "intended", ![c].install = i]
      PROVE  IInv'
  <2>1. i \in Installs
      BY <1>1, <1>2, <1>5 DEF Unused, TypeOK
  <2>2. intents' \in [{"prepare", "rebuild"} -> Installs \cup {NoInstall, Torn}]
      BY <1>1, <1>5, <2>1 DEF TypeOK
  <2> QED
      BY <1>1, <1>2, <1>5, <2>1, <2>2, PublisherProceeds
<1> QED
    BY <1>3, <1>4, <1>5

LEMMA ForgetIntentSound ==
  ASSUME IInv, NEW c \in Publishers, ForgetIntent(c)
  PROVE  IInv'
<1> DEFINE r == callers[c]
<1>1. /\ c \in Callers /\ TypeOK /\ r # Idle /\ r.at = "released" /\ CallerSound(r) /\ Stops(c)
      /\ UNCHANGED <<facts, plans, runs, place, pieces, cleaners, faults, children>>
    BY DEF IInv, Callers, CallersSound, ForgetIntent, database, trees
<1>2. r.install \in Installs
    BY <1>1 DEF CallerSound
<1>3. intents' \in [{"prepare", "rebuild"} -> Installs \cup {NoInstall, Torn}]
    BY <1>1, <1>2 DEF ForgetIntent, TypeOK
<1> QED
    BY <1>1, <1>3, StopsSound DEF TypeOK

LEMMA KillSound ==
  ASSUME IInv, NEW c \in Callers, Kill(c)
  PROVE  IInv'
<1>1. /\ TypeOK /\ Stops(c)
      /\ UNCHANGED <<facts, plans, runs, place, pieces, cleaners, children>>
    BY DEF IInv, Kill, database
<1>2. intents' \in [{"prepare", "rebuild"} -> Installs \cup {NoInstall, Torn}]
    BY <1>1 DEF Kill, TypeOK
<1>3. faults' \in 0..MaxFaults
    BY <1>1, NumberAssumption DEF Kill, TypeOK
<1> QED
    BY <1>1, <1>2, <1>3, StopsSound

\* A caller records an installation, a check or an activation, and takes no lock.
LEMMA FactsGrow ==
  ASSUME IInv, NEW c \in Callers, NEW v \in {Idle} \cup Caller, CallerSound(v),
         callers' = [callers EXCEPT ![c] = v],
         v # Idle => v.at \notin LockStates,
         UNCHANGED <<plans, runs, place, pieces, cleaners, intents, faults, children>>,
         facts' \in Facts, facts'.retired = facts.retired, StillThere(facts, facts'),
         IsFiniteSet(facts'.installed),
         \A i \in facts'.installed \ facts.installed : place[i] = "placed",
         (Retained(facts') \cup LatestChecked(facts')) \cap Retired(facts) = {}
  PROVE  IInv'
<1>1. TypeOK /\ CallersSound /\ facts \in Facts
    BY DEF IInv, TypeOK
<1>2. TypeOK'
  <2>1. callers' \in [Callers -> {Idle} \cup Caller]
      BY <1>1 DEF TypeOK
  <2> QED
      BY <1>1, <2>1 DEF TypeOK
<1>3. CallersSound'
  <2>1. \A x : CallerSound(x)' <=> CallerSound(x)
      BY DEF CallerSound, PublishStates, Idle
  <2>2. \A d \in Callers : CallerSound(callers'[d])
      BY <1>1 DEF CallersSound, TypeOK
  <2> QED
      BY <2>1, <2>2 DEF CallersSound
<1>4. \A j \in Installs : Shared(j)' => Shared(j)
    BY <1>1, CallerTakes
<1>5. Retired(facts') = Retired(facts) /\ Keeps(facts, facts')
    BY DEF Retired, Keeps
<1>6. LocksSound' /\ SharedSound'
  <2>1. /\ \A j \in Installs : Exclusive(j)' <=> Exclusive(j)
        /\ \A k \in Cleaners : LockedBy(k)' = LockedBy(k)
      BY DEF Exclusive, LockedBy, Idle
  <2> QED
      BY <1>4, <1>5, <2>1 DEF IInv, LocksSound, SharedSound
<1>7. PlansSound'
  <2> SUFFICES ASSUME NEW p \in DOMAIN plans
               PROVE  PlanSound(plans[p]) /\ StillThere(plans[p].facts, facts')
      BY DEF PlansSound
  <2>1. PlanSound(plans[p]) /\ StillThere(plans[p].facts, facts)
      BY DEF IInv, PlansSound
  <2>2. plans[p] \in Plan
      BY <1>1 DEF TypeOK
  <2>3. plans[p].facts \in Facts
      BY <2>2 DEF Plan
  <2> QED
      BY <1>1, <2>1, <2>3, StillThereTransitive
<1>8. SurveysSound' /\ RunsSound' /\ FramesSound'
  <2>1. SurveysSound'
      BY DEF IInv, SurveysSound
  <2>2. RunsSound'
      BY <1>5, RunKept DEF IInv, RunsSound
  <2>3. \A k \in Cleaners : cleaners[k] \in Executing => FrameSound(cleaners[k])'
    <3> SUFFICES ASSUME NEW k \in Cleaners, cleaners[k] \in Executing
                 PROVE  FrameSound(cleaners[k])'
        OBVIOUS
    <3>1. FrameSound(cleaners[k])
        BY DEF IInv, FramesSound
    <3>2. FrameIn(cleaners[k], runs[cleaners[k].run], plans[runs[cleaners[k].run].plan],
                  facts, place)
        BY <3>1 DEF FrameSound
    <3>3. cleaners[k].at = "deleted" => place[cleaners[k].item] = "absent"
        BY <3>2 DEF FrameIn
    <3>4. FrameIn(cleaners[k], runs[cleaners[k].run], plans[runs[cleaners[k].run].plan],
                  facts', place)
        BY <1>5, <3>2, <3>3, FrameKept
    <3> QED
        BY <3>1, <3>4 DEF FrameSound
  <2> QED
      BY <2>1, <2>2, <2>3 DEF IInv, FramesSound
<1>9. ProtectedIsNotRetired' /\ RetirementsAccepted'
  <2>1. RetirementsAccepted'
      BY <1>5 DEF IInv, RetirementsAccepted, Candidates
  <2> QED
      BY <1>5, <2>1 DEF ProtectedIsNotRetired
<1>10. PlacedOrRetired' /\ CompletedSound'
    BY <1>5 DEF IInv, PlacedOrRetired, CompletedSound, CompletedInstalls
<1> QED
    BY <1>2, <1>3, <1>6, <1>7, <1>8, <1>9, <1>10 DEF IInv

LEMMA FactsWith ==
  ASSUME NEW f \in Facts, NEW x
  PROVE  /\ [f EXCEPT !.activations = x] = [installed |-> f.installed, checks |-> f.checks,
              activations |-> x, retired |-> f.retired]
         /\ [f EXCEPT !.checks = x] = [installed |-> f.installed, checks |-> x,
              activations |-> f.activations, retired |-> f.retired]
         /\ [f EXCEPT !.retired = x] = [installed |-> f.installed, checks |-> f.checks,
              activations |-> f.activations, retired |-> x]
BY DEF Facts

LEMMA FactsInstalling ==
  ASSUME NEW f \in Facts, NEW i, NEW check
  PROVE  [f EXCEPT !.installed = @ \cup {i}, !.checks = Append(@, check)]
           = [installed |-> f.installed \cup {i}, checks |-> Append(f.checks, check),
              activations |-> f.activations, retired |-> f.retired]
<1> DEFINE now == [f EXCEPT !.installed = @ \cup {i}, !.checks = Append(@, check)]
<1>1. now \in [installed : {f.installed \cup {i}}, checks : {Append(f.checks, check)},
                activations : {f.activations}, retired : {f.retired}]
    BY DEF Facts
<1> HIDE DEF now
<1>2. now = [installed |-> f.installed \cup {i}, checks |-> Append(f.checks, check),
             activations |-> f.activations, retired |-> f.retired]
    BY <1>1
<1> QED
    BY <1>2 DEF now

LEMMA CommitActivationSound ==
  ASSUME IInv, NEW c \in Users, CommitActivation(c)
  PROVE  IInv'
<1> DEFINE i == callers[c].install
           longer == Append(facts.activations, i)
<1>1. /\ c \in Callers /\ TypeOK /\ CallerSound(callers[c]) /\ facts \in Facts
      /\ callers[c] # Idle /\ callers[c].at = "handle"
      /\ callers' = [callers EXCEPT ![c] = Idle]
      /\ UNCHANGED <<plans, runs, place, pieces, cleaners, intents, faults, children>>
    BY DEF IInv, TypeOK, Callers, CallersSound, CommitActivation, Stops, trees
<1>2. i \in Installs /\ Shared(i)
    BY <1>1, HeldIsShared DEF CallerSound, LockStates
<1>3. place[i] = "placed" /\ i \notin Retired(facts)
    BY <1>2 DEF IInv, SharedSound
<1>4. facts' = [installed |-> facts.installed, checks |-> facts.checks,
                activations |-> longer, retired |-> facts.retired]
    BY <1>1, FactsWith DEF CommitActivation
<1>5. facts.activations \in Seq(Installs) /\ longer \in Seq(Installs)
    BY <1>1, <1>2 DEF Facts
<1>6. facts' \in Facts
    BY <1>1, <1>4, <1>5 DEF Facts
<1>7. StillThere(facts, facts')
  <2>1. StillThere(facts, facts)
      BY <1>1, StillThereSame
  <2>2. IsPrefix(facts.activations, longer)
      BY <1>2, <1>5, PrefixAppended
  <2> QED
      BY <1>4, <2>1, <2>2 DEF StillThere
<1>8. Retained(facts') \subseteq Retained(facts) \cup {i}
    BY <1>2, <1>4, <1>5, RetainedAppended
<1>9. LatestChecked(facts') = LatestChecked(facts)
    BY <1>4 DEF LatestChecked, LastPassed
<1>10. (Retained(facts') \cup LatestChecked(facts')) \cap Retired(facts) = {}
    BY <1>3, <1>8, <1>9 DEF IInv, ProtectedIsNotRetired
<1>11. facts'.retired = facts.retired /\ facts'.installed = facts.installed
    BY <1>4
<1>12. IsFiniteSet(facts'.installed)
    BY <1>11 DEF IInv
<1> QED
    BY <1>1, <1>6, <1>7, <1>10, <1>11, <1>12, FactsGrow DEF CallerSound

LEMMA RecordCheckSound ==
  ASSUME IInv, NEW c \in Users, RecordCheck(c)
  PROVE  IInv'
<1> DEFINE r == callers[c]
           i == r.install
           passed == r.at = "handle" /\ Complete(i)
           check == [install |-> i, passed |-> passed]
           longer == Append(facts.checks, check)
<1>1. /\ c \in Callers /\ TypeOK /\ CallerSound(r) /\ facts \in Facts
      /\ r # Idle /\ r.at \in {"handle", "refused"} /\ r.op = "verify"
      /\ callers' = [callers EXCEPT ![c] = Idle]
      /\ UNCHANGED <<plans, runs, place, pieces, cleaners, intents, faults, children>>
    BY DEF IInv, TypeOK, Callers, CallersSound, RecordCheck, Stops, trees
<1>2. i \in Installs /\ check \in Check /\ check.install = i /\ check.passed = passed
    BY <1>1 DEF CallerSound, Check
<1>3. facts' = [installed |-> facts.installed, checks |-> longer,
                activations |-> facts.activations, retired |-> facts.retired]
    BY <1>1, FactsWith DEF RecordCheck
<1>4. facts.checks \in Seq(Check) /\ longer \in Seq(Check)
    BY <1>1, <1>2 DEF Facts
<1>5. facts' \in Facts
    BY <1>1, <1>3, <1>4 DEF Facts
<1>6. StillThere(facts, facts')
  <2>1. StillThere(facts, facts)
      BY <1>1, StillThereSame
  <2>2. IsPrefix(facts.checks, longer)
      BY <1>2, <1>4, PrefixAppended
  <2> QED
      BY <1>3, <2>1, <2>2 DEF StillThere
<1>7. LatestChecked(facts') \subseteq LatestChecked(facts)
                                    \cup (IF passed THEN {i} ELSE {})
  <2>1. facts'.checks = Append(facts.checks, check) /\ facts'.installed = facts.installed
      BY <1>3
  <2>2. CASE i \in facts.installed
    <3>1. LatestChecked(facts') = IF check.passed THEN {check.install} ELSE LatestChecked(facts)
        BY <1>2, <1>4, <2>1, <2>2, LatestAppended
    <3> QED
        BY <1>2, <3>1
  <2>3. CASE i \notin facts.installed
    <3>1. \A j : LastPassed(facts', j) =
            IF check = [install |-> j, passed |-> TRUE] THEN Len(facts.checks) + 1
            ELSE LastPassed(facts, j)
        BY <1>2, <1>4, <2>1, LastPassedAppended
    <3>2. \A j \in facts.installed : check # [install |-> j, passed |-> TRUE]
        BY <2>3
    <3>3. \A j \in facts.installed : LastPassed(facts', j) = LastPassed(facts, j)
        BY <3>1, <3>2
    <3> QED
        BY <2>1, <3>3 DEF LatestChecked
  <2> QED
      BY <2>2, <2>3
<1>8. passed => i \notin Retired(facts)
  <2>1. passed => Shared(i)
      BY <1>1, HeldIsShared DEF LockStates
  <2> QED
      BY <1>2, <2>1 DEF IInv, SharedSound
<1>9. Retained(facts') = Retained(facts)
    BY <1>3 DEF Retained, ActivatedSince
<1>10. (Retained(facts') \cup LatestChecked(facts')) \cap Retired(facts) = {}
    BY <1>7, <1>8, <1>9 DEF IInv, ProtectedIsNotRetired
<1>11. facts'.retired = facts.retired /\ facts'.installed = facts.installed
    BY <1>3
<1>12. IsFiniteSet(facts'.installed)
    BY <1>11 DEF IInv
<1> QED
    BY <1>1, <1>5, <1>6, <1>10, <1>11, <1>12, FactsGrow DEF CallerSound

LEMMA CommitInstallSound ==
  ASSUME IInv, NEW c \in Publishers, CommitInstall(c)
  PROVE  IInv'
<1> DEFINE r == callers[c]
           i == r.install
           v == [op |-> r.op, at |-> "released", install |-> i, rest |-> r.rest]
           check == [install |-> i, passed |-> TRUE]
           longer == Append(facts.checks, check)
<1>1. /\ c \in Callers /\ TypeOK /\ CallerSound(r) /\ facts \in Facts
      /\ r # Idle /\ r.at = "placed" /\ children[c] = NoInstall
      /\ UNCHANGED <<plans, runs, place, pieces, cleaners, intents, faults, children>>
    BY DEF IInv, TypeOK, Callers, CallersSound, CommitInstall, trees
<1>2. r \in Caller /\ i \in Installs /\ r.op \in {"prepare", "rebuild"} /\ Shared(i)
    BY <1>1, BusyCaller, HeldIsShared DEF CallerSound, LockStates, PublishStates
<1>3. place[i] = "placed" /\ i \notin Retired(facts)
    BY <1>2 DEF IInv, SharedSound
<1>4. CASE Stops(c) /\ UNCHANGED facts
    BY <1>1, <1>4, StopsSound DEF TypeOK
<1>5. v \in Caller /\ CallerSound(v) /\ v.at \notin LockStates
    BY <1>2 DEF Caller, CallerSound, PublishStates, LockStates
<1>6. CASE Proceeds(c, "released") /\ UNCHANGED facts
  <2>1. callers' = [callers EXCEPT ![c] = v]
      BY <1>2, <1>6, ProceedsTo DEF Proceeds
  <2> HIDE DEF v
  <2> QED
      BY <1>1, <1>5, <1>6, <2>1, CallerMoves DEF TypeOK
<1>7. CASE /\ Proceeds(c, "released") /\ i \notin facts.installed
           /\ facts' = [facts EXCEPT !.installed = @ \cup {i},
                          !.checks = Append(@, [install |-> i, passed |-> TRUE])]
  <2>1. callers' = [callers EXCEPT ![c] = v]
      BY <1>2, <1>7, ProceedsTo DEF Proceeds
  <2>2. facts.checks \in Seq(Check) /\ check \in Check /\ longer \in Seq(Check)
      BY <1>1, <1>2 DEF Facts, Check
  <2>3. facts' = [installed |-> facts.installed \cup {i}, checks |-> longer,
                  activations |-> facts.activations, retired |-> facts.retired]
      BY <1>1, <1>7, FactsInstalling
  <2>4. facts' \in Facts
      BY <1>1, <1>2, <2>2, <2>3 DEF Facts
  <2>5. StillThere(facts, facts')
    <3>1. StillThere(facts, facts)
        BY <1>1, StillThereSame
    <3>2. IsPrefix(facts.checks, longer)
        BY <2>2, PrefixAppended
    <3> QED
        BY <2>3, <3>1, <3>2 DEF StillThere
  <2>6. LatestChecked(facts') = {i}
    <3>1. /\ facts'.checks = Append(facts.checks, check) /\ i \in facts'.installed
          /\ facts'.installed \subseteq facts.installed \cup {i}
          /\ check.passed /\ check.install = i
        BY <2>3
    <3>2. LatestChecked(facts') = IF check.passed THEN {check.install} ELSE LatestChecked(facts)
        BY <2>2, <3>1, LatestAppended
    <3> QED
        BY <3>1, <3>2
  <2>7. Retained(facts') = Retained(facts)
      BY <2>3 DEF Retained, ActivatedSince
  <2>8. (Retained(facts') \cup LatestChecked(facts')) \cap Retired(facts) = {}
      BY <1>3, <2>6, <2>7 DEF IInv, ProtectedIsNotRetired
  <2>9. IsFiniteSet(facts'.installed)
    <3>1. IsFiniteSet(facts.installed \cup {i})
        BY FS_AddElement DEF IInv
    <3> QED
        BY <2>3, <3>1
  <2>10. /\ \A j \in facts'.installed \ facts.installed : place[j] = "placed"
         /\ facts'.retired = facts.retired
      BY <1>3, <2>3
  <2> HIDE DEF v
  <2> QED
      BY <1>1, <1>5, <2>1, <2>4, <2>5, <2>8, <2>9, <2>10, FactsGrow
<1> QED
    BY <1>4, <1>6, <1>7 DEF CommitInstall

LEMMA PublishTreeSound ==
  ASSUME IInv, NEW c \in Publishers, PublishTree(c)
  PROVE  IInv'
<1> DEFINE r == callers[c]
           i == r.install
           v == [op |-> r.op, at |-> "placed", install |-> i, rest |-> r.rest]
<1>1. /\ c \in Callers /\ TypeOK /\ CallersSound /\ CallerSound(r)
      /\ r # Idle /\ r.at = "intended"
      /\ UNCHANGED <<facts, plans, runs, faults, intents, children, cleaners>>
    BY DEF IInv, Callers, CallersSound, PublishTree, database
<1>2. r \in Caller /\ i \in Installs /\ r.op \in {"prepare", "rebuild"}
    BY <1>1, BusyCaller DEF CallerSound, PublishStates
<1>3. v \in Caller /\ CallerSound(v) /\ v.install = i
    BY <1>2 DEF Caller, CallerSound, PublishStates
<1>4. MayPublish(i) => ~Exclusive(i) /\ i \notin Retired(facts)
    BY RetiredIsInstalled DEF MayPublish, Registered
<1>5. CASE Stops(c) /\ UNCHANGED <<place, pieces>>
    BY <1>1, <1>5, StopsSound DEF TypeOK
<1>6. CASE MayPublish(i) /\ Complete(i) /\ Proceeds(c, "placed") /\ UNCHANGED <<place, pieces>>
  <2>1. callers' = [callers EXCEPT ![c] = v]
      BY <1>2, <1>6, ProceedsTo DEF Proceeds
  <2>2. ~Exclusive(i) /\ place[i] = "placed" /\ i \notin Retired(facts)
      BY <1>4, <1>6 DEF Complete
  <2> HIDE DEF v
  <2> QED
      BY <1>1, <1>3, <1>6, <2>1, <2>2, CallerMoves DEF TypeOK
<1>7. CASE /\ MayPublish(i) /\ place[i] = "absent" /\ Proceeds(c, "placed")
           /\ place' = [place EXCEPT ![i] = "placed"]
           /\ pieces' = [pieces EXCEPT ![i] = Whole]
  <2>1. callers' = [callers EXCEPT ![c] = v]
      BY <1>2, <1>7, ProceedsTo DEF Proceeds
  <2>2. /\ place'[i] = "placed" /\ \A j \in Installs : j # i => place'[j] = place[j]
        /\ ~Exclusive(i) /\ i \notin Retired(facts)
      BY <1>1, <1>2, <1>4, <1>7 DEF TypeOK
  <2>3. TypeOK'
    <3>1. place' \in [Installs -> Places] /\ pieces' \in [Installs -> 0..Whole]
      <4>1. Whole \in 0..Whole /\ "placed" \in Places
          BY NumberAssumption DEF Places
      <4>2. place' \in [Installs -> Places]
          BY <1>1, <1>7, <4>1 DEF TypeOK
      <4>3. pieces' \in [Installs -> 0..Whole]
          BY <1>1, <1>7, <4>1 DEF TypeOK
      <4> QED
          BY <4>2, <4>3
    <3>2. callers' \in [Callers -> {Idle} \cup Caller]
        BY <1>1, <1>3, <2>1 DEF TypeOK
    <3> QED
        BY <1>1, <3>1, <3>2 DEF TypeOK
  <2>4. CallersSound'
    <3>1. \A x : CallerSound(x)' <=> CallerSound(x)
        BY DEF CallerSound, PublishStates, Idle
    <3>2. \A d \in Callers : CallerSound(callers'[d])
        BY <1>1, <1>3, <2>1 DEF CallersSound, TypeOK
    <3> QED
        BY <3>1, <3>2 DEF CallersSound
  <2>5. ASSUME NEW j \in Installs, Shared(j)'
        PROVE  Shared(j) \/ j = i
    <3>1. Shared(j) \/ (v # Idle /\ v.at \in LockStates /\ v.install = j)
        BY <1>1, <2>1, <2>5, CallerTakes
    <3> QED
        BY <1>3, <3>1
  <2>6. LocksSound' /\ SharedSound'
    <3>1. /\ \A j \in Installs : Exclusive(j)' <=> Exclusive(j)
          /\ \A k \in Cleaners : LockedBy(k)' = LockedBy(k)
        BY <1>1 DEF Exclusive, LockedBy, Idle
    <3> QED
        BY <1>1, <2>2, <2>5, <3>1 DEF IInv, LocksSound, SharedSound
  <2>7. ASSUME NEW k \in Cleaners, cleaners[k] \in Executing
        PROVE  FrameSound(cleaners[k])'
    <3> DEFINE e == cleaners[k]
    <3>1. FrameIn(e, runs[e.run], plans[PlanOf(k)], facts, place)
          /\ (e.at = "deleted" => LockedBy(k) = Chosen(k))
          /\ Chosen(k) = CandidatesIn(plans[PlanOf(k)]) /\ Chosen(k) \subseteq Installs
          /\ PlanOf(k) = runs[e.run].plan
        BY <2>7, ExecutingFacts
    <3>2. e.at = "deleted" => e.item \in LockedBy(k) /\ place[e.item] = "absent"
        BY <3>1 DEF FrameIn, WithItem
    <3>3. e.at = "deleted" => e.item # i /\ e.item \in Installs
        BY <2>2, <3>1, <3>2 DEF Exclusive
    <3>4. e.at = "deleted" => place'[e.item] = "absent"
        BY <2>2, <3>2, <3>3
    <3>5. Keeps(facts, facts)
        BY DEF Keeps
    <3>6. FrameIn(e, runs[e.run], plans[PlanOf(k)], facts, place')
        BY <3>1, <3>4, <3>5, FrameKept
    <3>7. FrameSound(e)
        BY <2>7 DEF IInv, FramesSound
    <3> QED
        BY <1>1, <3>1, <3>6, <3>7 DEF FrameSound
  <2>8. PlansSound' /\ SurveysSound' /\ RunsSound' /\ FramesSound'
    <3>1. FramesSound'
        BY <1>1, <2>7 DEF IInv, FramesSound
    <3> QED
        BY <1>1, <3>1 DEF IInv, PlansSound, SurveysSound, RunsSound
  <2>9. ProtectedIsNotRetired' /\ RetirementsAccepted' /\ IsFiniteSet(facts.installed)'
      BY <1>1 DEF IInv, ProtectedIsNotRetired, RetirementsAccepted, Candidates
  <2>10. PlacedOrRetired'
      BY <1>1, <2>2 DEF IInv, PlacedOrRetired, TypeOK, Facts
  <2>11. CompletedSound'
    <3>1. i \notin CompletedInstalls
        BY <2>2, RetiredIsInstalled
    <3>2. CompletedInstalls' = CompletedInstalls /\ CompletedInstalls \subseteq Installs
        BY <1>1 DEF CompletedInstalls
    <3> QED
        BY <1>1, <2>2, <3>1, <3>2 DEF IInv, CompletedSound
  <2> QED
      BY <2>3, <2>4, <2>6, <2>8, <2>9, <2>10, <2>11 DEF IInv
<1> QED
    BY <1>5, <1>6, <1>7 DEF PublishTree

-------------------------------------------------------------------------------
(* Steps of the cleaners *)

LockedIn(e) == IF e = Idle \/ e.at = "surveyed" THEN {} ELSE e.locked

\* What a step of one cleaner leaves as it was: it locks what nobody has locked,
\* adds to the records, and moves or retires only what it has locked.
LEMMA CleanerStep_Others ==
  ASSUME IInv, NEW k \in Cleaners, NEW v, cleaners' = [cleaners EXCEPT ![k] = v],
         UNCHANGED <<callers, children>>,
         \A i \in LockedIn(v) : i \in LockedBy(k) \/ (i \in Installs /\ ~Shared(i) /\ ~Exclusive(i)),
         \A p \in DOMAIN plans : p \in DOMAIN plans' /\ plans'[p] = plans[p],
         \A r \in DOMAIN runs :
           r \in DOMAIN runs' /\ (runs'[r] = runs[r] \/ (cleaners[k] \in Executing /\ r = cleaners[k].run)),
         Keeps(facts, facts'),
         \A i \in Retired(facts') : i \in Retired(facts) \/ i \in LockedBy(k),
         \A i \in Installs : place'[i] = place[i] \/ i \in LockedBy(k),
         v \in Executing =>
           /\ (cleaners[k] \in Executing /\ v.run = cleaners[k].run) \/ v.run \notin DOMAIN runs
           /\ v.run \in DOMAIN runs' /\ runs'[v.run].plan \in DOMAIN plans'
           /\ FrameIn(v, runs'[v.run], plans'[runs'[v.run].plan], facts', place')
  PROVE  LocksSound' /\ SharedSound' /\ CallersSound' /\ FramesSound'
<1>1. TypeOK
    BY DEF IInv
<1>2. /\ \A m \in Cleaners : m # k => cleaners'[m] = cleaners[m]
      /\ cleaners'[k] = v
    BY <1>1 DEF TypeOK
<1>3. /\ \A m \in Cleaners : m # k => LockedBy(m)' = LockedBy(m)
      /\ LockedBy(k)' = LockedIn(v)
    BY <1>2 DEF LockedBy, LockedIn, Idle
<1>4. \A i \in Installs : Shared(i)' <=> Shared(i)
    BY DEF Shared, Idle, LockStates
<1>5. LocksSound'
  <2>1. ASSUME NEW i \in Installs, Shared(i)', Exclusive(i)'
        PROVE  FALSE
    <3>1. PICK m \in Cleaners : i \in LockedBy(m)'
        BY <2>1 DEF Exclusive
    <3>2. i \in LockedBy(m) \/ (~Shared(i) /\ ~Exclusive(i))
        BY <1>3, <3>1
    <3> QED
        BY <1>4, <2>1, <3>2 DEF IInv, LocksSound, Exclusive
  <2>2. ASSUME NEW m \in Cleaners, m # k
        PROVE  LockedBy(k)' \cap LockedBy(m)' = {}
    <3>1. LockedBy(k) \cap LockedBy(m) = {}
        BY <2>2 DEF IInv, LocksSound
    <3>2. \A i \in LockedBy(k)' : i \in LockedBy(k) \/ ~Exclusive(i)
        BY <1>3
    <3> QED
        BY <1>3, <2>2, <3>1, <3>2 DEF Exclusive
  <2>3. \A l, m \in Cleaners : l # m => LockedBy(l)' \cap LockedBy(m)' = {}
      BY <1>3, <2>2 DEF IInv, LocksSound
  <2> QED
      BY <2>1, <2>3 DEF LocksSound
<1>6. SharedSound'
  <2> SUFFICES ASSUME NEW i \in Installs, Shared(i)
               PROVE  place'[i] = "placed" /\ i \notin Retired(facts')
      BY <1>4 DEF SharedSound
  <2>1. i \notin LockedBy(k)
      BY DEF IInv, LocksSound, Exclusive
  <2> QED
      BY <2>1 DEF IInv, SharedSound
<1>7. CallersSound'
  <2>1. \A x : CallerSound(x)' <=> CallerSound(x)
      BY DEF CallerSound, PublishStates, Idle
  <2> QED
      BY <2>1 DEF CallersSound, IInv
<1>8. ASSUME NEW m \in Cleaners, m # k, cleaners[m] \in Executing
      PROVE  FrameSound(cleaners[m])' /\ cleaners'[m].run \in DOMAIN runs
             /\ (cleaners[k] \in Executing => cleaners'[m].run # cleaners[k].run)
  <2> DEFINE e == cleaners[m]
  <2>1. /\ FrameIn(e, runs[e.run], plans[PlanOf(m)], facts, place)
        /\ e.run \in DOMAIN runs /\ PlanOf(m) \in DOMAIN plans /\ PlanOf(m) = runs[e.run].plan
        /\ (e.at = "deleted" => LockedBy(m) = Chosen(m))
        /\ Chosen(m) = CandidatesIn(plans[PlanOf(m)]) /\ Chosen(m) \subseteq Installs
      BY <1>8, ExecutingFacts
  <2>2. cleaners[k] \in Executing => e.run # cleaners[k].run
      BY <1>8 DEF IInv, FramesSound
  <2>3. /\ e.run \in DOMAIN runs' /\ runs'[e.run] = runs[e.run]
        /\ PlanOf(m) \in DOMAIN plans' /\ plans'[PlanOf(m)] = plans[PlanOf(m)]
      BY <2>1, <2>2
  <2>4. e.at = "deleted" => e.item \in LockedBy(m) /\ e.item \in Installs /\ place[e.item] = "absent"
      BY <2>1 DEF FrameIn, WithItem
  <2>5. LockedBy(k) \cap LockedBy(m) = {}
      BY <1>8 DEF IInv, LocksSound
  <2>6. e.at = "deleted" => place'[e.item] = "absent"
      BY <2>4, <2>5
  <2>7. FrameIn(e, runs[e.run], plans[PlanOf(m)], facts', place')
      BY <2>1, <2>6, FrameKept
  <2>8. FrameSound(e)'
    <3>1. e' = e
        BY <1>2, <1>8
    <3> QED
        BY <2>1, <2>3, <2>7, <3>1 DEF FrameSound
  <2> QED
      BY <1>2, <1>8, <2>1, <2>2, <2>8
<1>9. FramesSound'
  <2>1. \A m \in Cleaners : cleaners'[m] \in Executing => FrameSound(cleaners[m])'
    <3> SUFFICES ASSUME NEW m \in Cleaners, cleaners'[m] \in Executing
                 PROVE  FrameSound(cleaners[m])'
        OBVIOUS
    <3>1. CASE m # k
        BY <1>2, <1>8, <3>1
    <3>2. CASE m = k
      <4>1. v \in Executing /\ cleaners'[k] = v
          BY <1>2, <3>2
      <4> QED
          BY <3>2, <4>1 DEF FrameSound
    <3> QED
        BY <3>1, <3>2
  <2>2. ASSUME NEW l \in Cleaners, NEW m \in Cleaners, l # m,
               cleaners'[l] \in Executing, cleaners'[m] \in Executing
        PROVE  cleaners'[l].run # cleaners'[m].run
    <3>1. CASE l # k /\ m # k
        BY <1>2, <2>2, <3>1 DEF IInv, FramesSound
    <3>2. CASE l = k
        BY <1>2, <1>8, <2>2, <3>2
    <3>3. CASE m = k
        BY <1>2, <1>8, <2>2, <3>3
    <3> QED
        BY <3>1, <3>2, <3>3
  <2>3. Executing' = Executing
      BY DEF Executing, Facts
  <2> QED
      BY <2>1, <2>2, <2>3 DEF FramesSound
<1> QED
    BY <1>5, <1>6, <1>7, <1>9

\* A step that records nothing.
LEMMA QuietStepSound ==
  ASSUME IInv, NEW k \in Cleaners, NEW v \in {Idle} \cup Surveyed \cup Executing,
         cleaners' = [cleaners EXCEPT ![k] = v],
         UNCHANGED <<facts, plans, runs, intents, callers, children>>,
         place' \in [Installs -> Places], pieces' \in [Installs -> 0..Whole],
         faults' \in 0..MaxFaults,
         \A i \in LockedIn(v) : i \in LockedBy(k) \/ (i \in Installs /\ ~Shared(i) /\ ~Exclusive(i)),
         \A i \in Installs : place'[i] = place[i] \/ (i \in LockedBy(k) /\ i \in Retired(facts)
                               /\ (i \in CompletedInstalls => place'[i] = "absent")),
         v \in Surveyed => PlanSound(v.plan),
         v \in Executing =>
           /\ cleaners[k] \in Executing /\ v.run = cleaners[k].run
           /\ FrameIn(v, runs[v.run], plans[PlanOf(k)], facts, place')
  PROVE  IInv'
<1>1. TypeOK
    BY DEF IInv
<1>2. TypeOK'
  <2>1. cleaners' \in [Cleaners -> {Idle} \cup Surveyed \cup Executing]
      BY <1>1 DEF TypeOK
  <2> QED
      BY <1>1, <2>1 DEF TypeOK
<1>3. v \in Executing =>
        /\ v.run \in DOMAIN runs' /\ runs'[v.run].plan \in DOMAIN plans'
        /\ FrameIn(v, runs'[v.run], plans'[runs'[v.run].plan], facts', place')
  <2> SUFFICES ASSUME v \in Executing
               PROVE  /\ v.run \in DOMAIN runs /\ runs[v.run].plan \in DOMAIN plans
                      /\ FrameIn(v, runs[v.run], plans[runs[v.run].plan], facts, place')
      OBVIOUS
  <2>1. /\ v.run \in DOMAIN runs /\ PlanOf(k) = runs[v.run].plan /\ PlanOf(k) \in DOMAIN plans
      BY ExecutingFacts
  <2> QED
      BY <2>1
<1>4. LocksSound' /\ SharedSound' /\ CallersSound' /\ FramesSound'
  <2>1. Keeps(facts, facts')
      BY DEF Keeps
  <2> QED
      BY <1>3, <2>1, CleanerStep_Others
<1>5. SurveysSound'
  <2> SUFFICES ASSUME NEW m \in Cleaners, cleaners'[m] \in Surveyed
               PROVE  PlanSound(cleaners'[m].plan)
    <3>1. Surveyed' = Surveyed
        BY DEF Surveyed, Plan, Facts
    <3> QED
        BY <3>1 DEF SurveysSound
  <2>1. cleaners'[m] = IF m = k THEN v ELSE cleaners[m]
      BY <1>1 DEF TypeOK
  <2> QED
      BY <2>1 DEF IInv, SurveysSound
<1>6. PlansSound' /\ RunsSound' /\ ProtectedIsNotRetired' /\ RetirementsAccepted'
      /\ IsFiniteSet(facts.installed)'
    BY DEF IInv, PlansSound, RunsSound, ProtectedIsNotRetired, RetirementsAccepted, Candidates
<1>7. PlacedOrRetired'
    BY <1>1 DEF IInv, PlacedOrRetired, TypeOK, Facts
<1>8. CompletedSound'
  <2>1. CompletedInstalls' = CompletedInstalls /\ CompletedInstalls \subseteq Installs
      BY DEF CompletedInstalls
  <2> QED
      BY <2>1 DEF IInv, CompletedSound
<1> QED
    BY <1>2, <1>4, <1>5, <1>6, <1>7, <1>8 DEF IInv

LEMMA RunWith ==
  ASSUME NEW run \in Run, NEW t
  PROVE  [run EXCEPT !.events = t] = [plan |-> run.plan, events |-> t]
BY DEF Run

LEMMA RecordedIs ==
  ASSUME TypeOK, NEW r \in DOMAIN runs, NEW es
  PROVE  Recorded(r, es) =
           [runs EXCEPT ![r] = [plan |-> runs[r].plan, events |-> runs[r].events \o es]]
<1>1. runs[r] \in Run
    BY DEF TypeOK
<1>2. [runs[r] EXCEPT !.events = runs[r].events \o es]
        = [plan |-> runs[r].plan, events |-> runs[r].events \o es]
    BY <1>1, RunWith
<1>3. Recorded(r, es) = [runs EXCEPT ![r] = [runs[r] EXCEPT !.events = runs[r].events \o es]]
    BY DEF Recorded
<1> QED
    BY <1>2, <1>3

\* A step that records one event for each of the chosen installations.
LEMMA RecordingStepSound ==
  ASSUME IInv, NEW k \in Cleaners, cleaners[k] \in Executing,
         NEW v \in {Idle} \cup Executing, cleaners' = [cleaners EXCEPT ![k] = v],
         UNCHANGED <<plans, place, intents, callers, children>>,
         NEW chosen \in SUBSET Chosen(k), NEW phase \in Phases,
         runs' = Recorded(cleaners[k].run, EventsOf(chosen, phase)),
         facts' \in Facts, facts'.installed = facts.installed, StillThere(facts, facts'),
         pieces' \in [Installs -> 0..Whole], faults' \in 0..MaxFaults,
         LockedIn(v) \subseteq LockedBy(k),
         \A i \in Retired(facts') : i \in Retired(facts) \/ i \in LockedBy(k),
         ProtectedIsNotRetired', RetirementsAccepted',
         \A i \in chosen : phase \in MayFollow(PhaseAt(cleaners[k], i)),
         \A i \in chosen : phase \in {"retired", "moved", "completed"} =>
           RetiredBy(runs[cleaners[k].run], plans[PlanOf(k)], facts', i),
         \A i \in chosen : phase = "completed" => place[i] = "absent",
         phase = "blocked" => chosen = Chosen(k),
         v \in Executing =>
           /\ v.run = cleaners[k].run /\ phase # "blocked"
           /\ v.locked = cleaners[k].locked /\ v.locked = Chosen(k)
           /\ v.at \notin Early
           /\ \A i \in Chosen(k) : RetiredBy(runs[cleaners[k].run], plans[PlanOf(k)], facts', i)
           /\ v.at \in WithItem => v.item \in Chosen(k) \ v.done
           /\ v.at # "deleted"
           /\ \A i \in Chosen(k) :
                PhaseAt(v, i) = IF i \in chosen THEN phase ELSE PhaseAt(cleaners[k], i)
  PROVE  IInv'
<1> DEFINE e == cleaners[k]
           r == e.run
           run == runs[r]
           plan == plans[PlanOf(k)]
           t == run.events \o EventsOf(chosen, phase)
           now == [plan |-> run.plan, events |-> t]
<1>1. TypeOK /\ facts \in Facts
    BY DEF IInv, TypeOK
<1>2. /\ r \in DOMAIN runs /\ run \in Run /\ PlanOf(k) = run.plan /\ PlanOf(k) \in DOMAIN plans
      /\ Chosen(k) = CandidatesIn(plan) /\ IsFiniteSet(Chosen(k)) /\ Chosen(k) \subseteq Installs
      /\ FrameIn(e, run, plan, facts, place) /\ RunIn(run, plan, facts)
    BY ExecutingFacts
<1>3. run.events \in Seq(Event) /\ run.plan \in 1..MaxPlans
    BY <1>2 DEF Run
<1>4. Batched(run.events, chosen, phase, t)
  <2>1. IsFiniteSet(chosen) /\ chosen \in SUBSET Installs
      BY <1>2, FS_Subset
  <2> QED
      BY <1>3, <2>1, BatchAppended
<1>5. runs' = [runs EXCEPT ![r] = now]
    BY <1>1, <1>2, RecordedIs
<1>6. \A i \in Chosen(k) : PhaseBefore(run.events, i, Len(run.events) + 1) = PhaseAt(e, i)
    BY <1>2 DEF FrameIn
<1>7. \A x \in Range(run.events) : x.phase # "blocked"
    BY <1>2 DEF FrameIn
<1>8. Keeps(facts, facts')
    BY DEF StillThere, Keeps
<1> HIDE DEF t
<1>9. RunIn(now, plan, facts')
  <2>1. /\ run \in Run /\ chosen \in SUBSET CandidatesIn(plan) /\ RunIn(run, plan, facts)
        /\ phase = "blocked" => chosen = CandidatesIn(plan)
      BY <1>2
  <2>2. \A i \in chosen : phase \in MayFollow(PhaseBefore(run.events, i, Len(run.events) + 1))
      BY <1>6
  <2> HIDE DEF run, plan, r
  <2> QED
      BY <1>4, <1>7, <1>8, <2>1, <2>2, RunRecorded DEF run, plan, r
<1>10. t \in Seq(Event) /\ now \in Run /\ now.plan = run.plan /\ now.events = t
    BY <1>3, <1>4 DEF Batched, Run
<1> HIDE DEF now
<1>11. /\ runs' \in Seq(Run) /\ Len(runs') = Len(runs) /\ DOMAIN runs' = DOMAIN runs
       /\ runs'[r] = now /\ \A n \in DOMAIN runs : n # r => runs'[n] = runs[n]
    BY <1>1, <1>2, <1>5, <1>10 DEF TypeOK
<1>12. TypeOK'
  <2>1. cleaners' \in [Cleaners -> {Idle} \cup Surveyed \cup Executing]
      BY <1>1 DEF TypeOK
  <2>2. runs' \in Seq(Run) /\ Len(runs') <= MaxRuns
      BY <1>1, <1>11 DEF TypeOK
  <2> QED
      BY <1>1, <2>1, <2>2 DEF TypeOK
<1>13. v \in Executing =>
         /\ v.run \in DOMAIN runs' /\ runs'[v.run].plan \in DOMAIN plans'
         /\ FrameIn(v, runs'[v.run], plans'[runs'[v.run].plan], facts', place')
  <2> SUFFICES ASSUME v \in Executing
               PROVE  /\ v.run \in DOMAIN runs' /\ runs'[v.run].plan \in DOMAIN plans
                      /\ FrameIn(v, runs'[v.run], plans[runs'[v.run].plan], facts', place)
      OBVIOUS
  <2>1. \A x \in Range(t) : x.phase # "blocked"
      BY <1>4, <1>7 DEF Batched
  <2>2. \A i \in Chosen(k) : PhaseBefore(t, i, Len(t) + 1) = PhaseAt(v, i)
      BY <1>2, <1>4, <1>6 DEF Batched
  <2>3. \A i \in Chosen(k) : RetiredBy(now, plan, facts', i)
      BY <1>10 DEF RetiredBy
  <2>4. FrameIn(v, now, plan, facts', place)
      BY <1>2, <1>10, <2>1, <2>2, <2>3 DEF FrameIn, Early
  <2> QED
      BY <1>2, <1>10, <1>11, <2>4
<1>14. LocksSound' /\ SharedSound' /\ CallersSound' /\ FramesSound'
    BY <1>2, <1>8, <1>11, <1>13, CleanerStep_Others
<1>15. PlansSound'
  <2> SUFFICES ASSUME NEW p \in DOMAIN plans
               PROVE  PlanSound(plans[p]) /\ StillThere(plans[p].facts, facts')
      BY DEF PlansSound
  <2>1. PlanSound(plans[p]) /\ StillThere(plans[p].facts, facts) /\ plans[p] \in Plan
      BY <1>1 DEF IInv, PlansSound, TypeOK
  <2>2. plans[p].facts \in Facts
      BY <2>1 DEF Plan
  <2> QED
      BY <1>1, <2>1, <2>2, StillThereTransitive
<1>16. SurveysSound'
  <2> SUFFICES ASSUME NEW m \in Cleaners, cleaners'[m] \in Surveyed
               PROVE  PlanSound(cleaners'[m].plan)
    <3>1. Surveyed' = Surveyed
        BY DEF Surveyed, Plan, Facts
    <3> QED
        BY <3>1 DEF SurveysSound
  <2>1. cleaners'[m] = IF m = k THEN v ELSE cleaners[m]
      BY <1>1 DEF TypeOK
  <2>2. v \notin Surveyed
      BY IdleIsNone DEF Executing, Surveyed
  <2> QED
      BY <2>1, <2>2 DEF IInv, SurveysSound
<1>17. RunsSound'
  <2> SUFFICES ASSUME NEW n \in DOMAIN runs
               PROVE  runs'[n].plan \in DOMAIN plans /\ RunIn(runs'[n], plans[runs'[n].plan], facts')
      BY <1>11 DEF RunsSound
  <2>1. CASE n = r
      BY <1>2, <1>9, <1>10, <1>11, <2>1
  <2>2. CASE n # r
    <3>1. runs[n].plan \in DOMAIN plans /\ RunIn(runs[n], plans[runs[n].plan], facts)
        BY DEF IInv, RunsSound
    <3> QED
        BY <1>8, <1>11, <2>2, <3>1, RunKept
  <2> QED
      BY <2>1, <2>2
<1>18. IsFiniteSet(facts.installed)'
    BY DEF IInv
<1>19. PlacedOrRetired'
    BY <1>8 DEF IInv, PlacedOrRetired, Keeps, Retired
<1>20. CompletedSound'
  <2> SUFFICES ASSUME NEW i \in Installs, NEW n \in DOMAIN runs,
                      [install |-> i, phase |-> "completed"] \in Range(runs'[n].events)
               PROVE  place[i] = "absent" /\ i \in Retired(facts')
      BY <1>11 DEF CompletedSound, CompletedInstalls
  <2>1. CASE [install |-> i, phase |-> "completed"] \in Range(runs[n].events)
    <3>1. i \in CompletedInstalls
        BY <2>1 DEF CompletedInstalls
    <3>2. place[i] = "absent" /\ i \in Retired(facts)
        BY <3>1 DEF IInv, CompletedSound
    <3> QED
        BY <1>8, <3>2 DEF Keeps, Retired
  <2>2. CASE ~ ([install |-> i, phase |-> "completed"] \in Range(runs[n].events))
    <3> DEFINE x == [install |-> i, phase |-> "completed"]
    <3>1. n = r /\ x \in Range(t)
        BY <1>10, <1>11, <2>2
    <3>2. x.install \in chosen /\ x.phase = phase
        BY <1>4, <2>2, <3>1 DEF Batched
    <3>3. i \in chosen /\ phase = "completed"
        BY <3>2
    <3>4. facts'.retired[i] # 0
        BY <3>3 DEF RetiredBy
    <3> QED
        BY <3>3, <3>4 DEF Retired
  <2> QED
      BY <2>1, <2>2
<1> QED
    BY <1>12, <1>14, <1>15, <1>16, <1>17, <1>18, <1>19, <1>20 DEF IInv

LEMMA FrameWith ==
  ASSUME NEW e \in Executing, NEW at
  PROVE  [e EXCEPT !.at = at]
           = [at |-> at, run |-> e.run, expected |-> e.expected, locked |-> e.locked,
              done |-> e.done, item |-> e.item]
BY DEF Executing

LEMMA FrameLocking ==
  ASSUME NEW e \in Executing, NEW i
  PROVE  [e EXCEPT !.locked = @ \cup {i}]
           = [at |-> e.at, run |-> e.run, expected |-> e.expected, locked |-> e.locked \cup {i},
              done |-> e.done, item |-> e.item]
BY DEF Executing

LEMMA FrameMoving ==
  ASSUME NEW e \in Executing, NEW at, NEW i
  PROVE  [e EXCEPT !.at = at, !.item = i]
           = [at |-> at, run |-> e.run, expected |-> e.expected, locked |-> e.locked,
              done |-> e.done, item |-> i]
<1> DEFINE now == [e EXCEPT !.at = at, !.item = i]
<1>1. now \in [at : {at}, run : {e.run}, expected : {e.expected}, locked : {e.locked},
               done : {e.done}, item : {i}]
    BY DEF Executing
<1> HIDE DEF now
<1>2. now = [at |-> at, run |-> e.run, expected |-> e.expected, locked |-> e.locked,
             done |-> e.done, item |-> i]
    BY <1>1
<1> QED
    BY <1>2 DEF now

LEMMA FrameRetiring ==
  ASSUME NEW e \in Executing, NEW at, NEW f
  PROVE  [e EXCEPT !.at = at, !.expected = f]
           = [at |-> at, run |-> e.run, expected |-> f, locked |-> e.locked,
              done |-> e.done, item |-> e.item]
<1> DEFINE now == [e EXCEPT !.at = at, !.expected = f]
<1>1. now \in [at : {at}, run : {e.run}, expected : {f}, locked : {e.locked},
               done : {e.done}, item : {e.item}]
    BY DEF Executing
<1> HIDE DEF now
<1>2. now = [at |-> at, run |-> e.run, expected |-> f, locked |-> e.locked,
             done |-> e.done, item |-> e.item]
    BY <1>1
<1> QED
    BY <1>2 DEF now

LEMMA FrameGoesOn ==
  ASSUME NEW e \in Executing, NEW at, NEW d, NEW i
  PROVE  [e EXCEPT !.at = at, !.done = d, !.item = i]
           = [at |-> at, run |-> e.run, expected |-> e.expected, locked |-> e.locked,
              done |-> d, item |-> i]
<1> DEFINE now == [e EXCEPT !.at = at, !.done = d, !.item = i]
<1>1. now \in [at : {at}, run : {e.run}, expected : {e.expected}, locked : {e.locked},
               done : {d}, item : {i}]
    BY DEF Executing
<1> HIDE DEF now
<1>2. now = [at |-> at, run |-> e.run, expected |-> e.expected, locked |-> e.locked,
             done |-> d, item |-> i]
    BY <1>1
<1> QED
    BY <1>2 DEF now

\* Leaving the frame with a failure.
LEMMA FailsSound ==
  ASSUME IInv, NEW k \in Cleaners, cleaners[k] \in Executing,
         cleaners' = [cleaners EXCEPT ![k] = Idle],
         UNCHANGED <<facts, plans, place, pieces, intents, callers, children>>,
         faults' \in 0..MaxFaults,
         NEW chosen \in SUBSET Chosen(k), NEW phase \in {"failed", "blocked"},
         runs' = Recorded(cleaners[k].run, EventsOf(chosen, phase)),
         \A i \in chosen : phase \in MayFollow(PhaseAt(cleaners[k], i)),
         phase = "blocked" => chosen = Chosen(k)
  PROVE  IInv'
<1>1. /\ facts' \in Facts /\ facts'.installed = facts.installed /\ StillThere(facts, facts')
      /\ pieces' \in [Installs -> 0..Whole]
      /\ ProtectedIsNotRetired' /\ RetirementsAccepted'
    BY StillThereSame DEF IInv, TypeOK, ProtectedIsNotRetired, RetirementsAccepted, Candidates
<1>2. phase \in Phases /\ phase \notin {"retired", "moved", "completed"}
    BY DEF Phases
<1>3. LockedIn(Idle) \subseteq LockedBy(k) /\ Idle \notin Executing
    BY IdleIsNone DEF LockedIn
<1> QED
    BY <1>1, <1>2, <1>3, RecordingStepSound

LEMMA FailsWholeSound ==
  ASSUME IInv, NEW k \in Cleaners, cleaners[k] \in Executing, cleaners[k].at \in Early,
         FailsWhole(k), UNCHANGED <<facts, plans, place, pieces, faults, intents, callers, children>>
  PROVE  IInv'
<1>1. \A i \in Chosen(k) : "blocked" \in MayFollow(PhaseAt(cleaners[k], i))
    BY DEF PhaseAt, MayFollow
<1>2. faults' \in 0..MaxFaults
    BY DEF IInv, TypeOK
<1> QED
    BY <1>1, <1>2, FailsSound DEF FailsWhole

LEMMA FailsAtSound ==
  ASSUME IInv, NEW k \in Cleaners, cleaners[k] \in Executing, NEW i \in Chosen(k),
         FailsAt(k, i), faults' \in 0..MaxFaults,
         UNCHANGED <<facts, plans, place, pieces, intents, callers, children>>
  PROVE  IInv'
<1> DEFINE e == cleaners[k]
           ended == {j \in {i} : Phase(e.run, j) \in {"completed", "failed", "blocked"}}
<1>1. Phase(e.run, i) = PhaseAt(e, i)
    BY ExecutingFacts DEF FrameIn, Phase
<1>2. \A j \in {i} \ ended : "failed" \in MayFollow(PhaseAt(e, j))
    BY <1>1 DEF PhaseAt, MayFollow
<1>3. /\ runs' = Recorded(e.run, EventsOf({i} \ ended, "failed"))
      /\ cleaners' = [cleaners EXCEPT ![k] = Idle]
    BY DEF FailsAt
<1>4. {i} \ ended \in SUBSET Chosen(k)
    OBVIOUS
<1> HIDE DEF ended
<1> QED
    BY <1>2, <1>3, <1>4, FailsSound

LEMMA ExecutesIs ==
  ASSUME IInv, NEW k \in Cleaners, NEW at, at # "surveyed", Executes(k, at)
  PROVE  cleaners[k] \in Executing /\ cleaners[k].at = at
BY BusyCleaner DEF Executes, IInv

\* A frame that goes on to the next place of the program, and only that.
LEMMA MovesSound ==
  ASSUME IInv, NEW k \in Cleaners, cleaners[k] \in Executing,
         NEW at \in {"locking", "checked", "deleting", "deleted"}, Moves(k, at),
         UNCHANGED <<facts, plans, runs, intents, callers, children, pieces, faults>>,
         place' \in [Installs -> Places],
         at = "locking" => cleaners[k].at = "started",
         at = "checked" => cleaners[k].at = "locking" /\ cleaners[k].locked = Chosen(k),
         at = "deleting" => cleaners[k].at = "recorded",
         at = "deleted" => cleaners[k].at = "deleting" /\ place'[cleaners[k].item] = "absent",
         \A i \in Installs : place'[i] = place[i]
           \/ (at = "deleted" /\ i = cleaners[k].item)
  PROVE  IInv'
<1> DEFINE e == cleaners[k]
           v == [at |-> at, run |-> e.run, expected |-> e.expected, locked |-> e.locked,
                 done |-> e.done, item |-> e.item]
<1>1. TypeOK
    BY DEF IInv
<1>2. cleaners' = [cleaners EXCEPT ![k] = v]
    BY FrameWith DEF Moves
<1>3. v \in Executing
    BY DEF Executing
<1>4. /\ v.at = at /\ v.run = e.run /\ v.expected = e.expected /\ v.locked = e.locked
      /\ v.done = e.done /\ v.item = e.item
    OBVIOUS
<1>5. pieces' \in [Installs -> 0..Whole] /\ faults' \in 0..MaxFaults
    BY <1>1 DEF TypeOK
<1> HIDE DEF v
<1>6. LockedIn(v) \subseteq LockedBy(k)
    BY <1>3, <1>4, ExecutingFacts DEF LockedIn, Executing
<1>7. /\ FrameIn(e, runs[e.run], plans[PlanOf(k)], facts, place)
      /\ Chosen(k) = CandidatesIn(plans[PlanOf(k)])
      /\ (e.at \notin {"started", "locking"} => LockedBy(k) = Chosen(k))
      /\ Chosen(k) \subseteq Installs
    BY ExecutingFacts
<1>8. \A i : PhaseAt(v, i) = PhaseAt(e, i)
    BY <1>4 DEF PhaseAt, Early
<1>9. FrameIn(v, runs[v.run], plans[PlanOf(k)], facts, place')
    BY <1>4, <1>7, <1>8 DEF FrameIn, Early, WithItem
<1>10. \A i \in Installs : place'[i] = place[i] \/ (i \in LockedBy(k) /\ i \in Retired(facts)
                               /\ (i \in CompletedInstalls => place'[i] = "absent"))
  <2> SUFFICES ASSUME at = "deleted"
               PROVE  e.item \in LockedBy(k) /\ e.item \in Retired(facts)
      OBVIOUS
  <2>1. e.item \in Chosen(k) /\ LockedBy(k) = Chosen(k) /\ e.item \in Installs
      BY <1>7 DEF FrameIn, WithItem
  <2>2. RetiredBy(runs[e.run], plans[PlanOf(k)], facts, e.item)
      BY <1>7, <2>1 DEF FrameIn, Early
  <2> QED
      BY <2>1, <2>2 DEF RetiredBy, Retired
<1>11. v \notin Surveyed
    BY <1>3 DEF Executing, Surveyed
<1> QED
    BY <1>2, <1>3, <1>4, <1>5, <1>6, <1>9, <1>10, <1>11, QuietStepSound

LEMMA CompareFactsSound ==
  ASSUME IInv, NEW k \in Cleaners, CompareFacts(k)
  PROVE  IInv'
<1>1. cleaners[k] \in Executing /\ cleaners[k].at = "started" /\ TypeOK
    BY ExecutesIs DEF CompareFacts, IInv
<1>2. UNCHANGED <<facts, plans, place, pieces, faults, intents, callers, children>>
    BY DEF CompareFacts, trees
<1>3. CASE FailsWhole(k)
    BY <1>1, <1>2, <1>3, FailsWholeSound DEF Early
<1>4. CASE Moves(k, "locking") /\ UNCHANGED runs
    BY <1>1, <1>2, <1>4, MovesSound DEF TypeOK
<1> QED
    BY <1>3, <1>4 DEF CompareFacts

LEMMA LockExclusiveSound ==
  ASSUME IInv, NEW k \in Cleaners, LockExclusive(k)
  PROVE  IInv'
<1> DEFINE e == cleaners[k]
<1>1. e \in Executing /\ e.at = "locking" /\ TypeOK
    BY ExecutesIs DEF LockExclusive, IInv
<1>2. UNCHANGED <<facts, plans, place, pieces, faults, intents, callers, children>>
    BY DEF LockExclusive, trees
<1>3. PICK i \in Chosen(k) \ e.locked :
        IF Shared(i) \/ Exclusive(i) \/ ~AsPlanned(k, i) THEN FailsAt(k, i)
        ELSE cleaners' = [cleaners EXCEPT ![k].locked = @ \cup {i}] /\ UNCHANGED runs
    BY DEF LockExclusive
<1>4. CASE FailsAt(k, i)
    BY <1>1, <1>2, <1>4, FailsAtSound DEF TypeOK
<1>5. CASE /\ ~Shared(i) /\ ~Exclusive(i)
           /\ cleaners' = [cleaners EXCEPT ![k].locked = @ \cup {i}] /\ UNCHANGED runs
  <2> DEFINE v == [at |-> e.at, run |-> e.run, expected |-> e.expected,
                   locked |-> e.locked \cup {i}, done |-> e.done, item |-> e.item]
  <2>1. cleaners' = [cleaners EXCEPT ![k] = v]
      BY <1>1, <1>5, FrameLocking
  <2>2. /\ FrameIn(e, runs[e.run], plans[PlanOf(k)], facts, place)
        /\ Chosen(k) = CandidatesIn(plans[PlanOf(k)]) /\ Chosen(k) \subseteq Installs
        /\ LockedBy(k) = e.locked
      BY <1>1, ExecutingFacts
  <2>3. v \in Executing
      BY <1>1, <2>2 DEF Executing
  <2>4. /\ v.at = e.at /\ v.run = e.run /\ v.expected = e.expected /\ v.locked = e.locked \cup {i}
        /\ v.done = e.done /\ v.item = e.item
      OBVIOUS
  <2> HIDE DEF v
  <2>5. \A j \in LockedIn(v) : j \in LockedBy(k) \/ (j \in Installs /\ ~Shared(j) /\ ~Exclusive(j))
      BY <1>5, <2>2, <2>4 DEF LockedIn
  <2>6. \A j : PhaseAt(v, j) = PhaseAt(e, j)
      BY <2>4 DEF PhaseAt, Early
  <2>7. FrameIn(v, runs[v.run], plans[PlanOf(k)], facts, place')
      BY <1>1, <1>2, <2>2, <2>4, <2>6 DEF FrameIn, Early, WithItem
  <2>8. v \notin Surveyed
      BY <2>3 DEF Executing, Surveyed
  <2> QED
      BY <1>1, <1>2, <1>5, <2>1, <2>3, <2>4, <2>5, <2>7, <2>8, QuietStepSound DEF TypeOK
<1> QED
    BY <1>3, <1>4, <1>5

LEMMA RecheckSound ==
  ASSUME IInv, NEW k \in Cleaners, Recheck(k)
  PROVE  IInv'
<1>1. cleaners[k] \in Executing /\ cleaners[k].at = "locking" /\ TypeOK
    BY ExecutesIs DEF Recheck, IInv
<1>2. UNCHANGED <<facts, plans, place, pieces, faults, intents, callers, children>>
    BY DEF Recheck, trees
<1>3. \/ FailsWhole(k)
      \/ Moves(k, "checked") /\ UNCHANGED runs
      \/ \E i \in Chosen(k) : FailsAt(k, i)
    BY DEF Recheck
<1>4. CASE FailsWhole(k)
    BY <1>1, <1>2, <1>4, FailsWholeSound DEF Early
<1>5. CASE Moves(k, "checked") /\ UNCHANGED runs
  <2>1. cleaners[k].locked = Chosen(k)
      BY DEF Recheck
  <2> QED
      BY <1>1, <1>2, <1>5, <2>1, MovesSound DEF TypeOK
<1>6. ASSUME NEW i \in Chosen(k), FailsAt(k, i)
      PROVE  IInv'
    BY <1>1, <1>2, <1>6, FailsAtSound DEF TypeOK
<1> QED
    BY <1>3, <1>4, <1>5, <1>6

\* What is retired was not protected when the plan was made, and the facts are the
\* plan's: nothing became protected since.
LEMMA RetireSound ==
  ASSUME IInv, NEW k \in Cleaners, Retire(k)
  PROVE  IInv'
<1> DEFINE e == cleaners[k]
           p == PlanOf(k)
           plan == plans[p]
           run == runs[e.run]
<1>1. e \in Executing /\ e.at = "checked" /\ TypeOK /\ facts \in Facts
    BY ExecutesIs DEF Retire, IInv, TypeOK
<1>2. UNCHANGED <<plans, place, pieces, faults, intents, callers, children>>
    BY DEF Retire, trees
<1>3. CASE FailsWhole(k) /\ UNCHANGED facts
    BY <1>1, <1>2, <1>3, FailsWholeSound DEF Early
<1>4. CASE facts = e.expected
  <2> DEFINE marks == [i \in Installs |->
               IF i \in Candidates(p) /\ facts.retired[i] = 0 THEN p ELSE facts.retired[i]]
             after == [installed |-> facts.installed, checks |-> facts.checks,
                       activations |-> facts.activations, retired |-> marks]
             v == [at |-> "retired", run |-> e.run, expected |-> after, locked |-> e.locked,
                   done |-> e.done, item |-> e.item]
  <2>1. [facts EXCEPT !.retired = marks] = after
      BY <1>1, FactsWith
  <2>2. /\ facts' = [facts EXCEPT !.retired = marks]
        /\ runs' = Recorded(e.run, EventsOf(Candidates(p), "retired"))
        /\ cleaners' = [cleaners EXCEPT ![k].at = "retired",
                                        ![k].expected = [facts EXCEPT !.retired = marks]]
      BY <1>4 DEF Retire
  <2>3. /\ FrameIn(e, run, plan, facts, place) /\ Chosen(k) = CandidatesIn(plan)
        /\ Chosen(k) \subseteq Installs /\ LockedBy(k) = Chosen(k) /\ e.locked = Chosen(k)
        /\ Candidates(p) = Chosen(k) /\ p \in DOMAIN plans /\ p \in 1..MaxPlans /\ p = run.plan
        /\ Chosen(k) \subseteq facts.installed
      BY <1>1, ExecutingFacts DEF Chosen
  <2>4. plan.facts = facts /\ e.done = {}
      BY <1>1, <1>4, <2>3 DEF FrameIn, Early
  <2>5. facts' = after
      BY <2>1, <2>2
  <2>6. cleaners' = [cleaners EXCEPT ![k] = v]
    <3>1. cleaners' = [cleaners EXCEPT ![k].at = "retired", ![k].expected = after]
        BY <2>1, <2>2
    <3> HIDE DEF after
    <3>2. [e EXCEPT !.at = "retired", !.expected = after] = v
        BY <1>1, FrameRetiring
    <3>3. cleaners' = [cleaners EXCEPT ![k] = [e EXCEPT !.at = "retired", !.expected = after]]
        BY <1>1, <3>1 DEF TypeOK
    <3> QED
        BY <3>2, <3>3
  <2>7. marks \in [Installs -> 0..MaxPlans]
      BY <1>1, <2>3 DEF Facts
  <2>8. \A i \in Installs : facts.retired[i] \in 0..MaxPlans
      BY <1>1 DEF Facts
  <2>9. /\ \A i \in Installs : marks[i] =
             IF i \in Chosen(k) /\ facts.retired[i] = 0 THEN p ELSE facts.retired[i]
      BY <2>3
  <2>10. p # 0
      BY <2>3
  <2> HIDE DEF marks
  <2>11. after \in Facts
      BY <1>1, <2>7 DEF Facts
  <2>12. v \in Executing
      BY <1>1, <2>11 DEF Executing
  <2>13. /\ v.at = "retired" /\ v.run = e.run /\ v.locked = Chosen(k) /\ v.done = {}
      BY <2>3, <2>4
  <2>14. /\ after.installed = facts.installed /\ after.retired = marks
         /\ after.checks = facts.checks /\ after.activations = facts.activations
      OBVIOUS
  <2> HIDE DEF after, v
  <2>15. Retired(after) = Retired(facts) \cup Chosen(k)
      BY <2>3, <2>9, <2>10, <2>14 DEF Retired
  <2>16. StillThere(facts, after)
    <3>1. StillThere(facts, facts)
        BY <1>1, StillThereSame
    <3>2. \A i \in Retired(facts) : after.retired[i] = facts.retired[i]
        BY <2>9, <2>14 DEF Retired
    <3> QED
        BY <2>14, <3>1, <3>2 DEF StillThere
  <2>17. ProtectedIsNotRetired'
    <3>1. Retained(after) = Retained(facts) /\ LatestChecked(after) = LatestChecked(facts)
        BY <2>14 DEF Retained, ActivatedSince, LatestChecked, LastPassed
    <3>2. ASSUME NEW i \in Chosen(k)
          PROVE  i \notin Retained(facts) /\ i \notin LatestChecked(facts)
      <4>1. PlanSound(plan) /\ i \in plan.facts.installed /\ plan.items[i].candidate
          BY <2>3, <2>4 DEF IInv, PlansSound, CandidatesIn
      <4>2. PICK busy : plan.items[i].protection = Protection(plan.facts, busy, i)
                        /\ plan.items[i].protection = {}
          BY <4>1 DEF PlanSound
      <4> QED
          BY <2>4, <4>2 DEF Protection
    <3>3. (Retained(after) \cup LatestChecked(after)) \cap Retired(after) = {}
        BY <2>15, <3>1, <3>2 DEF IInv, ProtectedIsNotRetired
    <3> QED
        BY <2>5, <3>3 DEF ProtectedIsNotRetired
  <2>18. RetirementsAccepted'
    <3> SUFFICES ASSUME NEW i \in Retired(after)
                 PROVE  after.retired[i] \in DOMAIN plans
                        /\ i \in CandidatesIn(plans[after.retired[i]])
        BY <1>2, <2>5 DEF RetirementsAccepted, Candidates, CandidatesIn
    <3>1. CASE i \in Retired(facts)
      <4>1. after.retired[i] = facts.retired[i]
          BY <2>16, <3>1 DEF StillThere
      <4> QED
          BY <3>1, <4>1 DEF IInv, RetirementsAccepted, Candidates, CandidatesIn
    <3>2. CASE i \notin Retired(facts)
      <4>1. i \in Chosen(k) /\ facts.retired[i] = 0 /\ i \in Installs
          BY <2>15, <3>2 DEF Retired
      <4>2. after.retired[i] = p
          BY <2>9, <2>14, <4>1
      <4> QED
          BY <2>3, <4>1, <4>2
    <3> QED
        BY <3>1, <3>2
  <2>19. \A i \in Chosen(k) : RetiredBy(run, plan, after, i)
    <3> SUFFICES ASSUME NEW i \in Chosen(k)
                 PROVE  RetiredBy(run, plan, after, i)
        OBVIOUS
    <3>1. after.retired[i] = IF facts.retired[i] = 0 THEN p ELSE facts.retired[i]
        BY <2>3, <2>9, <2>14
    <3> QED
        BY <2>3, <2>4, <2>10, <3>1 DEF RetiredBy
  <2>20. \A i \in Chosen(k) : PhaseAt(e, i) = "not_run" /\ PhaseAt(v, i) = "retired"
      BY <1>1, <2>13 DEF PhaseAt, Early
  <2>21. /\ \A i \in Chosen(k) : "retired" \in MayFollow(PhaseAt(e, i))
         /\ "retired" \in Phases
      BY <2>20 DEF MayFollow, Phases
  <2>22. /\ LockedIn(v) \subseteq LockedBy(k)
         /\ \A i \in Retired(facts') : i \in Retired(facts) \/ i \in LockedBy(k)
      BY <2>3, <2>5, <2>13, <2>15 DEF LockedIn
  <2>23. runs' = Recorded(e.run, EventsOf(Chosen(k), "retired"))
      BY <2>2, <2>3
  <2>24. pieces' \in [Installs -> 0..Whole] /\ faults' \in 0..MaxFaults
      BY <1>1, <1>2 DEF TypeOK
  <2>25. v.at \notin Early /\ v.at \notin WithItem /\ v.at # "deleted"
      BY <2>13 DEF Early, WithItem
  <2>26. /\ facts' \in Facts /\ facts'.installed = facts.installed /\ StillThere(facts, facts')
         /\ \A i \in Chosen(k) : RetiredBy(run, plan, facts', i)
      BY <2>5, <2>11, <2>14, <2>16, <2>19
  <2>27. /\ v.run = e.run /\ v.locked = e.locked /\ v.locked = Chosen(k)
         /\ \A i \in Chosen(k) :
              PhaseAt(v, i) = IF i \in Chosen(k) THEN "retired" ELSE PhaseAt(e, i)
      BY <2>3, <2>13, <2>20
  <2>28. UNCHANGED <<plans, place, intents, callers, children>>
      BY <1>2
  <2> QED
      BY <1>1, <2>6, <2>12, <2>17, <2>18, <2>21, <2>22, <2>23, <2>24, <2>25, <2>26, <2>27, <2>28,
         RecordingStepSound
<1> QED
    BY <1>3, <1>4 DEF Retire

LEMMA MoveToTrashSound ==
  ASSUME IInv, NEW k \in Cleaners, MoveToTrash(k)
  PROVE  IInv'
<1> DEFINE e == cleaners[k]
<1>1. e \in Executing /\ e.at = "retired" /\ TypeOK
    BY ExecutesIs DEF MoveToTrash, IInv
<1>2. UNCHANGED <<facts, plans, pieces, faults, intents, callers, children>>
    BY DEF MoveToTrash
<1>3. PICK i \in Chosen(k) \ e.done :
        IF facts = e.expected /\ AsPlanned(k, i)
        THEN /\ place' = [place EXCEPT ![i] = "trash"]
             /\ cleaners' = [cleaners EXCEPT ![k].at = "moved", ![k].item = i]
             /\ UNCHANGED runs
        ELSE FailsAt(k, i) /\ UNCHANGED place
    BY DEF MoveToTrash
<1>4. CASE FailsAt(k, i) /\ UNCHANGED place
    BY <1>1, <1>2, <1>4, FailsAtSound DEF TypeOK
<1>5. CASE /\ AsPlanned(k, i) /\ place' = [place EXCEPT ![i] = "trash"]
           /\ cleaners' = [cleaners EXCEPT ![k].at = "moved", ![k].item = i]
           /\ UNCHANGED runs
  <2> DEFINE v == [at |-> "moved", run |-> e.run, expected |-> e.expected,
                   locked |-> e.locked, done |-> e.done, item |-> i]
  <2>1. cleaners' = [cleaners EXCEPT ![k] = v]
    <3>1. [e EXCEPT !.at = "moved", !.item = i] = v
        BY <1>1, FrameMoving
    <3>2. cleaners' = [cleaners EXCEPT ![k] = [e EXCEPT !.at = "moved", !.item = i]]
        BY <1>1, <1>5 DEF TypeOK
    <3> QED
        BY <3>1, <3>2
  <2>2. /\ FrameIn(e, runs[e.run], plans[PlanOf(k)], facts, place)
        /\ Chosen(k) = CandidatesIn(plans[PlanOf(k)]) /\ Chosen(k) \subseteq Installs
        /\ LockedBy(k) = Chosen(k) /\ LockedBy(k) = e.locked
      BY <1>1, ExecutingFacts
  <2>3. i \in Installs /\ i \in Chosen(k) /\ i \notin e.done
      BY <2>2
  <2>4. v \in Executing
      BY <1>1, <2>3 DEF Executing
  <2>5. /\ v.at = "moved" /\ v.run = e.run /\ v.expected = e.expected /\ v.locked = e.locked
        /\ v.done = e.done /\ v.item = i
      OBVIOUS
  <2> HIDE DEF v
  <2>6. \A j : PhaseAt(v, j) = PhaseAt(e, j)
      BY <1>1, <2>5 DEF PhaseAt, Early
  <2>7. FrameIn(v, runs[v.run], plans[PlanOf(k)], facts, place')
      BY <1>1, <2>2, <2>3, <2>5, <2>6 DEF FrameIn, Early, WithItem
  <2>8. RetiredBy(runs[e.run], plans[PlanOf(k)], facts, i)
      BY <1>1, <2>2, <2>3 DEF FrameIn, Early
  <2>9. i \in Retired(facts) /\ i \notin CompletedInstalls
      BY <1>5, <2>3, <2>8 DEF RetiredBy, Retired, AsPlanned
  <2>10. \A j \in Installs : place'[j] = place[j] \/ (j \in LockedBy(k) /\ j \in Retired(facts)
                               /\ (j \in CompletedInstalls => place'[j] = "absent"))
      BY <1>1, <1>5, <2>2, <2>3, <2>9 DEF TypeOK
  <2>11. /\ place' \in [Installs -> Places] /\ pieces' \in [Installs -> 0..Whole]
         /\ faults' \in 0..MaxFaults
      BY <1>1, <1>2, <1>5 DEF TypeOK, Places
  <2>12. \A j \in LockedIn(v) : j \in LockedBy(k)
      BY <2>2, <2>5 DEF LockedIn
  <2>13. v \notin Surveyed
      BY <2>4 DEF Executing, Surveyed
  <2> QED
      BY <1>1, <1>2, <1>5, <2>1, <2>4, <2>5, <2>7, <2>10, <2>11, <2>12, <2>13, QuietStepSound
<1> QED
    BY <1>3, <1>4, <1>5

LEMMA BeginDeleteSound ==
  ASSUME IInv, NEW k \in Cleaners, BeginDelete(k)
  PROVE  IInv'
<1>1. cleaners[k] \in Executing /\ cleaners[k].at = "recorded" /\ TypeOK
    BY ExecutesIs DEF BeginDelete, IInv
<1>2. UNCHANGED <<facts, plans, place, pieces, faults, intents, callers, children>>
    BY DEF BeginDelete, trees
<1>3. CASE FailsAt(k, cleaners[k].item)
  <2>1. cleaners[k].item \in Chosen(k)
      BY <1>1, ExecutingFacts DEF FrameIn, WithItem
  <2> QED
      BY <1>1, <1>2, <1>3, <2>1, FailsAtSound DEF TypeOK
<1>4. CASE Moves(k, "deleting") /\ UNCHANGED runs
    BY <1>1, <1>2, <1>4, MovesSound DEF TypeOK
<1> QED
    BY <1>3, <1>4 DEF BeginDelete

LEMMA DeleteFailsSound ==
  ASSUME IInv, NEW k \in Cleaners, DeleteFails(k)
  PROVE  IInv'
<1>1. cleaners[k] \in Executing /\ cleaners[k].at = "deleting" /\ TypeOK
    BY ExecutesIs DEF DeleteFails, IInv
<1>2. cleaners[k].item \in Chosen(k)
    BY <1>1, ExecutingFacts DEF FrameIn, WithItem
<1>3. faults' \in 0..MaxFaults
    BY <1>1, NumberAssumption DEF DeleteFails, TypeOK
<1> QED
    BY <1>1, <1>2, <1>3, FailsAtSound DEF DeleteFails

\* A step that only takes pieces away, or only loses them.
LEMMA PiecesSound ==
  ASSUME IInv, pieces' \in [Installs -> 0..Whole], faults' \in 0..MaxFaults,
         UNCHANGED <<facts, plans, runs, place, intents, callers, children, cleaners>>
  PROVE  IInv'
<1>1. TypeOK'
    BY DEF IInv, TypeOK
<1>2. CallersSound'
  <2>1. \A x : CallerSound(x)' <=> CallerSound(x)
      BY DEF CallerSound, PublishStates, Idle
  <2> QED
      BY <2>1 DEF CallersSound, IInv
<1>3. \A i \in Installs : Shared(i)' => Shared(i)
    BY DEF Shared, Idle, LockStates
<1> QED
    BY <1>1, <1>2, <1>3, CallerStepSound

LEMMA DeletePieceSound ==
  ASSUME IInv, NEW k \in Cleaners, DeletePiece(k)
  PROVE  IInv'
<1> DEFINE i == cleaners[k].item
<1>1. cleaners[k] \in Executing /\ cleaners[k].at = "deleting" /\ TypeOK
    BY ExecutesIs DEF DeletePiece, IInv
<1>2. UNCHANGED <<facts, plans, runs, faults, intents, callers, children>>
    BY DEF DeletePiece, database
<1>3. i \in Installs
    BY <1>1, ExecutingFacts DEF FrameIn, WithItem
<1>4. CASE /\ pieces[i] > 0 /\ pieces' = [pieces EXCEPT ![i] = @ - 1]
           /\ UNCHANGED <<place, cleaners>>
  <2>1. pieces[i] \in 0..Whole /\ Whole \in Nat
      BY <1>1, <1>3, NumberAssumption DEF TypeOK
  <2>2. pieces[i] - 1 \in 0..Whole
      BY <1>4, <2>1
  <2>3. pieces' \in [Installs -> 0..Whole]
      BY <1>1, <1>4, <2>2 DEF TypeOK
  <2> QED
      BY <1>1, <1>2, <1>4, <2>3, PiecesSound DEF TypeOK
<1>5. CASE /\ place' = [place EXCEPT ![i] = "absent"]
           /\ Moves(k, "deleted") /\ UNCHANGED pieces
  <2>1. place' \in [Installs -> Places] /\ place'[i] = "absent"
        /\ \A j \in Installs : place'[j] = place[j] \/ j = i
      BY <1>1, <1>3, <1>5 DEF TypeOK, Places
  <2> QED
      BY <1>1, <1>2, <1>5, <2>1, MovesSound
<1> QED
    BY <1>4, <1>5 DEF DeletePiece

LEMMA DamageSound ==
  ASSUME IInv, NEW i \in Installs, Damage(i)
  PROVE  IInv'
<1>1. TypeOK /\ pieces[i] \in 0..Whole /\ Whole \in Nat /\ faults \in 0..MaxFaults /\ MaxFaults \in Nat
    BY NumberAssumption DEF IInv, TypeOK
<1>2. pieces[i] - 1 \in 0..Whole /\ faults' \in 0..MaxFaults
    BY <1>1 DEF Damage
<1>3. pieces' \in [Installs -> 0..Whole]
    BY <1>1, <1>2 DEF Damage, TypeOK
<1> QED
    BY <1>2, <1>3, PiecesSound DEF Damage, database

LEMMA KillCleanerSound ==
  ASSUME IInv, NEW k \in Cleaners, KillCleaner(k)
  PROVE  IInv'
<1>1. TypeOK /\ faults \in 0..MaxFaults /\ MaxFaults \in Nat
    BY NumberAssumption DEF IInv, TypeOK
<1>2. faults' \in 0..MaxFaults
    BY <1>1 DEF KillCleaner
<1>3. /\ cleaners' = [cleaners EXCEPT ![k] = Idle]
      /\ UNCHANGED <<facts, plans, runs, place, pieces, intents, callers, children>>
    BY DEF KillCleaner, database
<1> QED
    BY <1>1, <1>2, <1>3, IdleIsNone, QuietStepSound DEF LockedIn, TypeOK

\* A step that records one phase of the item in hand, with the facts as they are.
LEMMA ItemRecorded ==
  ASSUME IInv, NEW k \in Cleaners, cleaners[k] \in Executing,
         cleaners[k].at \in {"moved", "deleted"},
         NEW phase \in {"moved", "completed"},
         phase = "moved" <=> cleaners[k].at = "moved",
         NEW v \in {Idle} \cup Executing, cleaners' = [cleaners EXCEPT ![k] = v],
         runs' = Recorded(cleaners[k].run, EventsOf({cleaners[k].item}, phase)),
         UNCHANGED <<facts, plans, place, pieces, faults, intents, callers, children>>,
         v \in Executing =>
           /\ v.run = cleaners[k].run /\ v.locked = cleaners[k].locked
           /\ phase = "moved" =>
                v.at = "recorded" /\ v.done = cleaners[k].done /\ v.item = cleaners[k].item
           /\ phase = "completed" =>
                v.at = "retired" /\ v.done = cleaners[k].done \cup {cleaners[k].item}
  PROVE  IInv'
<1> DEFINE e == cleaners[k]
           i == e.item
           chosen == {i}
<1>1. /\ FrameIn(e, runs[e.run], plans[PlanOf(k)], facts, place)
      /\ Chosen(k) = CandidatesIn(plans[PlanOf(k)]) /\ LockedBy(k) = Chosen(k)
      /\ e.locked = Chosen(k)
    BY ExecutingFacts
<1>2. /\ i \in Chosen(k) /\ i \notin e.done /\ e.at \notin Early
      /\ \A j \in Chosen(k) : RetiredBy(runs[e.run], plans[PlanOf(k)], facts, j)
      /\ (e.at = "deleted" => place[i] = "absent")
    BY <1>1 DEF FrameIn, WithItem, Early
<1>3. PhaseAt(e, i) = IF phase = "moved" THEN "retired" ELSE "moved"
    BY <1>2 DEF PhaseAt
<1>4. phase \in MayFollow(PhaseAt(e, i)) /\ phase \in Phases /\ phase # "blocked"
    BY <1>3 DEF MayFollow, Phases
<1>5. /\ facts' \in Facts /\ facts'.installed = facts.installed /\ StillThere(facts, facts')
      /\ pieces' \in [Installs -> 0..Whole] /\ faults' \in 0..MaxFaults
      /\ ProtectedIsNotRetired' /\ RetirementsAccepted'
      /\ \A j \in Retired(facts') : j \in Retired(facts) \/ j \in LockedBy(k)
    BY StillThereSame DEF IInv, TypeOK, ProtectedIsNotRetired, RetirementsAccepted, Candidates
<1>6. LockedIn(v) \subseteq LockedBy(k)
    BY <1>1, IdleIsNone DEF LockedIn
<1>7. \A j \in chosen : phase = "completed" => place[j] = "absent"
    BY <1>2
<1>8. \A j \in chosen : RetiredBy(runs[e.run], plans[PlanOf(k)], facts', j)
    BY <1>2
<1>9. v \in Executing =>
        /\ v.run = e.run /\ phase # "blocked"
        /\ v.locked = e.locked /\ v.locked = Chosen(k)
        /\ v.at \notin Early
        /\ \A j \in Chosen(k) : RetiredBy(runs[e.run], plans[PlanOf(k)], facts', j)
        /\ v.at \in WithItem => v.item \in Chosen(k) \ v.done
        /\ v.at # "deleted"
        /\ \A j \in Chosen(k) :
             PhaseAt(v, j) = IF j \in chosen THEN phase ELSE PhaseAt(e, j)
  <2> SUFFICES ASSUME v \in Executing
               PROVE  /\ v.at \notin Early /\ v.at # "deleted"
                      /\ v.at \in WithItem => v.item \in Chosen(k) \ v.done
                      /\ \A j \in Chosen(k) :
                           PhaseAt(v, j) = IF j \in chosen THEN phase ELSE PhaseAt(e, j)
      BY <1>1, <1>2, <1>4
  <2>1. CASE phase = "moved"
      BY <1>2, <2>1 DEF PhaseAt, Early, WithItem
  <2>2. CASE phase = "completed"
      BY <1>2, <2>2 DEF PhaseAt, Early, WithItem
  <2> QED
      BY <2>1, <2>2
<1>10. chosen \in SUBSET Chosen(k) /\ \A j \in chosen : phase \in MayFollow(PhaseAt(e, j))
    BY <1>2, <1>4
<1>11. runs' = Recorded(e.run, EventsOf(chosen, phase))
    OBVIOUS
<1> HIDE DEF chosen
<1> QED
    BY <1>4, <1>5, <1>6, <1>7, <1>8, <1>9, <1>10, <1>11, RecordingStepSound

LEMMA RecordMovedSound ==
  ASSUME IInv, NEW k \in Cleaners, RecordMoved(k)
  PROVE  IInv'
<1> DEFINE e == cleaners[k]
           v == [at |-> "recorded", run |-> e.run, expected |-> e.expected,
                 locked |-> e.locked, done |-> e.done, item |-> e.item]
<1>1. e \in Executing /\ e.at = "moved"
    BY ExecutesIs DEF RecordMoved
<1>2. /\ UNCHANGED <<facts, plans, place, pieces, faults, intents, callers, children>>
      /\ runs' = Recorded(e.run, EventsOf({e.item}, "moved"))
    BY DEF RecordMoved, trees
<1>3. cleaners' = [cleaners EXCEPT ![k] = v]
    BY <1>1, FrameWith DEF RecordMoved, Moves
<1>4. v \in Executing
    BY <1>1 DEF Executing
<1>5. /\ v.run = e.run /\ v.locked = e.locked /\ v.at = "recorded" /\ v.done = e.done
      /\ v.item = e.item
    OBVIOUS
<1> HIDE DEF v
<1> QED
    BY <1>1, <1>2, <1>3, <1>4, <1>5, ItemRecorded

LEMMA RecordCompletedSound ==
  ASSUME IInv, NEW k \in Cleaners, RecordCompleted(k)
  PROVE  IInv'
<1> DEFINE e == cleaners[k]
           done == e.done \cup {e.item}
           v == [at |-> "retired", run |-> e.run, expected |-> e.expected,
                 locked |-> e.locked, done |-> done, item |-> NoInstall]
<1>1. e \in Executing /\ e.at = "deleted" /\ TypeOK
    BY ExecutesIs DEF RecordCompleted, IInv
<1>2. /\ UNCHANGED <<facts, plans, place, pieces, faults, intents, callers, children>>
      /\ runs' = Recorded(e.run, EventsOf({e.item}, "completed"))
    BY DEF RecordCompleted, trees
<1>3. [e EXCEPT !.at = "retired", !.done = done, !.item = NoInstall] = v
    BY <1>1, FrameGoesOn
<1>4. \/ cleaners' = [cleaners EXCEPT ![k] = Idle]
      \/ cleaners' = [cleaners EXCEPT ![k] = v]
  <2>1. \/ cleaners' = [cleaners EXCEPT ![k] = Idle]
        \/ cleaners' = [cleaners EXCEPT ![k] =
             [e EXCEPT !.at = "retired", !.done = done, !.item = NoInstall]]
      BY <1>1 DEF RecordCompleted, TypeOK
  <2> QED
      BY <1>3, <2>1
<1>5. CASE cleaners' = [cleaners EXCEPT ![k] = Idle]
    BY <1>1, <1>2, <1>5, IdleIsNone, ItemRecorded
<1>6. CASE cleaners' = [cleaners EXCEPT ![k] = v]
  <2>1. e.item \in Installs /\ e.done \subseteq Installs
      BY <1>1, ExecutingFacts DEF FrameIn, WithItem, Executing
  <2>2. v \in Executing
      BY <1>1, <2>1 DEF Executing
  <2>3. v.run = e.run /\ v.locked = e.locked /\ v.at = "retired" /\ v.done = e.done \cup {e.item}
      OBVIOUS
  <2> HIDE DEF v
  <2> QED
      BY <1>1, <1>2, <1>6, <2>2, <2>3, ItemRecorded
<1> QED
    BY <1>4, <1>5, <1>6

\* A survey describes the facts it has read.
LEMMA SurveySound ==
  ASSUME IInv
  PROVE  /\ [facts |-> facts, items |-> [i \in Installs |-> Survey(i)]] \in Plan
         /\ PlanSound([facts |-> facts, items |-> [i \in Installs |-> Survey(i)]])
<1> DEFINE plan == [facts |-> facts, items |-> [i \in Installs |-> Survey(i)]]
           busy == {j \in Installs : Shared(j) \/ Exclusive(j)}
           seen == {i \in Installs : "in_flight" \in plan.items[i].protection}
<1>1. TypeOK /\ facts \in Facts
    BY DEF IInv, TypeOK
<1>2. \A i \in Installs : Protection(facts, busy, i) \in SUBSET Reasons
    BY DEF Protection, Reasons
<1>3. \A i \in Installs : Survey(i) \in Item
    BY <1>1, <1>2 DEF Survey, Item, TypeOK
<1>4. /\ plan.facts = facts
      /\ \A i \in Installs : plan.items[i] = Survey(i)
    OBVIOUS
<1>5. plan \in Plan
    BY <1>1, <1>3 DEF Plan
<1>6. \A i \in Installs :
        /\ Survey(i).place = place[i] /\ Survey(i).protection = Protection(facts, busy, i)
        /\ Survey(i).candidate = (/\ i \in facts.installed /\ place[i] # "absent"
                                  /\ Protection(facts, busy, i) = {}
                                  /\ i \notin CompletedInstalls)
    BY DEF Survey
<1> HIDE DEF plan
<1>7. seen = busy
  <2>1. \A b, i : "in_flight" \in Protection(facts, b, i) <=> i \in b
      BY DEF Protection
  <2>2. busy \subseteq Installs
      OBVIOUS
  <2>3. \A i \in Installs : plan.items[i].protection = Protection(facts, busy, i)
      BY <1>4, <1>6
  <2> HIDE DEF busy
  <2> QED
      BY <2>1, <2>2, <2>3
<1>8. facts.installed \subseteq Installs
    BY <1>1 DEF Facts
<1>9. \A i \in facts.installed : place[i] = "trash" => i \in Retired(facts)
    BY DEF IInv, PlacedOrRetired
<1>10. PlanSound(plan)
  <2>1. IsFiniteSet(plan.facts.installed)
      BY <1>4 DEF IInv
  <2>2. \A i \in Installs : plan.items[i].candidate => i \in plan.facts.installed
      BY <1>4, <1>6
  <2>3. \A i \in plan.facts.installed :
          /\ plan.items[i].protection = Protection(plan.facts, seen, i)
          /\ plan.items[i].candidate =>
               plan.items[i].protection = {} /\ plan.items[i].place # "absent"
          /\ plan.items[i].place = "trash" => i \in Retired(plan.facts)
      BY <1>4, <1>6, <1>7, <1>8, <1>9
  <2> QED
      BY <2>1, <2>2, <2>3 DEF PlanSound
<1> QED
    BY <1>5, <1>10 DEF plan

LEMMA SurveyInstallsSound ==
  ASSUME IInv, NEW k \in Cleaners, SurveyInstalls(k)
  PROVE  IInv'
<1> DEFINE plan == [facts |-> facts, items |-> [i \in Installs |-> Survey(i)]]
           v == [at |-> "surveyed", plan |-> plan]
<1>1. /\ UNCHANGED <<facts, plans, runs, place, pieces, faults, intents, callers, children>>
      /\ cleaners' = [cleaners EXCEPT ![k] = v] /\ TypeOK
    BY DEF SurveyInstalls, database, trees, IInv
<1>2. plan \in Plan /\ PlanSound(plan)
    BY SurveySound
<1> HIDE DEF plan
<1>3. v \in Surveyed /\ v.plan = plan
    BY <1>2 DEF Surveyed
<1>4. LockedIn(v) = {} /\ v \notin Executing
    BY DEF LockedIn, Executing
<1> HIDE DEF v
<1>5. /\ place' \in [Installs -> Places] /\ pieces' \in [Installs -> 0..Whole]
      /\ faults' \in 0..MaxFaults
    BY <1>1 DEF TypeOK
<1> QED
    BY <1>1, <1>2, <1>3, <1>4, <1>5, QuietStepSound

LEMMA SavePlanSound ==
  ASSUME IInv, NEW k \in Cleaners, SavePlan(k)
  PROVE  IInv'
<1> DEFINE plan == cleaners[k].plan
<1>1. /\ TypeOK /\ facts \in Facts
      /\ UNCHANGED <<facts, runs, place, pieces, faults, intents, callers, children>>
      /\ cleaners' = [cleaners EXCEPT ![k] = Idle]
    BY DEF SavePlan, trees, IInv, TypeOK
<1>2. cleaners[k] \in Surveyed /\ plan \in Plan /\ PlanSound(plan)
  <2>1. cleaners[k] \in Surveyed
      BY <1>1, BusyCleaner DEF SavePlan
  <2> QED
      BY <2>1 DEF IInv, SurveysSound, Surveyed
<1>3. /\ place' \in [Installs -> Places] /\ pieces' \in [Installs -> 0..Whole]
      /\ faults' \in 0..MaxFaults
    BY <1>1 DEF TypeOK
<1>4. CASE UNCHANGED plans
    BY <1>1, <1>3, <1>4, IdleIsNone, QuietStepSound DEF LockedIn
<1>5. CASE /\ plan.facts = facts /\ Len(plans) < MaxPlans
           /\ plans' = Append(plans, plan)
  <2>1. plans \in Seq(Plan) /\ Len(plans) \in Nat /\ MaxPlans \in Nat
      BY <1>1, NumberAssumption DEF TypeOK
  <2>2. /\ plans' \in Seq(Plan) /\ Len(plans') = Len(plans) + 1 /\ Len(plans') <= MaxPlans
        /\ DOMAIN plans = 1..Len(plans) /\ DOMAIN plans' = 1..(Len(plans) + 1)
        /\ plans'[Len(plans) + 1] = plan
        /\ \A p \in 1..Len(plans) : plans'[p] = plans[p]
      BY <1>2, <1>5, <2>1
  <2>3. \A p \in DOMAIN plans : p \in DOMAIN plans' /\ plans'[p] = plans[p]
      BY <2>1, <2>2
  <2>4. TypeOK'
    <3>1. cleaners' \in [Cleaners -> {Idle} \cup Surveyed \cup Executing]
        BY <1>1 DEF TypeOK
    <3> QED
        BY <1>1, <2>2, <3>1 DEF TypeOK
  <2>5. LocksSound' /\ SharedSound' /\ CallersSound' /\ FramesSound'
    <3>1. Keeps(facts, facts') /\ LockedIn(Idle) = {} /\ Idle \notin Executing
        BY <1>1, IdleIsNone DEF Keeps, LockedIn
    <3> QED
        BY <1>1, <2>3, <3>1, CleanerStep_Others
  <2>6. PlansSound'
    <3> SUFFICES ASSUME NEW p \in DOMAIN plans'
                 PROVE  PlanSound(plans'[p]) /\ StillThere(plans'[p].facts, facts)
        BY <1>1 DEF PlansSound
    <3>1. CASE p \in DOMAIN plans
        BY <2>3, <3>1 DEF IInv, PlansSound
    <3>2. CASE p \notin DOMAIN plans
      <4>1. plans'[p] = plan
          BY <2>1, <2>2, <3>2
      <4> QED
          BY <1>1, <1>2, <1>5, <4>1, StillThereSame
    <3> QED
        BY <3>1, <3>2
  <2>7. SurveysSound'
    <3> SUFFICES ASSUME NEW m \in Cleaners, cleaners'[m] \in Surveyed
                 PROVE  PlanSound(cleaners'[m].plan)
      <4>1. Surveyed' = Surveyed
          BY DEF Surveyed, Plan, Facts
      <4> QED
          BY <4>1 DEF SurveysSound
    <3>1. cleaners'[m] = IF m = k THEN Idle ELSE cleaners[m]
        BY <1>1 DEF TypeOK
    <3> QED
        BY <3>1, IdleIsNone DEF IInv, SurveysSound
  <2>8. RunsSound'
    <3> SUFFICES ASSUME NEW r \in DOMAIN runs
                 PROVE  runs[r].plan \in DOMAIN plans' /\ RunIn(runs[r], plans'[runs[r].plan], facts)
        BY <1>1 DEF RunsSound
    <3>1. runs[r].plan \in DOMAIN plans /\ RunIn(runs[r], plans[runs[r].plan], facts)
        BY DEF IInv, RunsSound
    <3> QED
        BY <2>3, <3>1
  <2>9. ProtectedIsNotRetired' /\ PlacedOrRetired' /\ CompletedSound' /\ IsFiniteSet(facts.installed)'
      BY <1>1 DEF IInv, ProtectedIsNotRetired, PlacedOrRetired, CompletedSound, CompletedInstalls
  <2>10. RetirementsAccepted'
      BY <1>1, <2>3 DEF IInv, RetirementsAccepted, Candidates
  <2> QED
      BY <2>4, <2>5, <2>6, <2>7, <2>8, <2>9, <2>10 DEF IInv
<1> QED
    BY <1>4, <1>5 DEF SavePlan

LEMMA BeginRunSound ==
  ASSUME IInv, NEW k \in Cleaners, NEW p \in DOMAIN plans, BeginRun(k, p)
  PROVE  IInv'
<1> DEFINE plan == plans[p]
           chosen == CandidatesIn(plan)
           t == EventsOf(chosen, "not_run")
           now == [plan |-> p, events |-> t]
           r == Len(runs) + 1
           e == [at |-> "started", run |-> r, expected |-> plan.facts,
                 locked |-> {}, done |-> {}, item |-> NoInstall]
           v == IF chosen = {} THEN Idle ELSE e
<1>1. /\ TypeOK /\ facts \in Facts /\ Len(runs) < MaxRuns /\ cleaners[k] = Idle
      /\ UNCHANGED <<facts, plans, place, pieces, faults, intents, callers, children>>
    BY DEF BeginRun, trees, IInv, TypeOK
<1>2. Candidates(p) = chosen
    BY DEF Candidates, CandidatesIn
<1>3. runs' = Append(runs, now) /\ cleaners' = [cleaners EXCEPT ![k] = v]
    BY <1>2 DEF BeginRun
<1>4. IsFiniteSet(chosen) /\ chosen \subseteq Installs
    BY CandidateFacts
<1>5. /\ t \in Seq(Event) /\ RunIn(now, plan, facts)
      /\ \A i \in chosen : PhaseBefore(t, i, Len(t) + 1) = "not_run"
      /\ \A x \in Range(t) : x.phase = "not_run"
    BY <1>4, RunBegun
<1>6. plan \in Plan /\ p \in 1..MaxPlans /\ plan.facts \in Facts
  <2>1. plan \in Plan /\ p \in 1..Len(plans) /\ Len(plans) \in Nat /\ Len(plans) <= MaxPlans
        /\ MaxPlans \in Nat
      BY <1>1, NumberAssumption DEF TypeOK
  <2> QED
      BY <2>1 DEF Plan
<1>7. now \in Run /\ now.plan = p /\ now.events = t
    BY <1>5, <1>6 DEF Run
<1>8. e \in Executing
  <2>1. r \in 1..MaxRuns
    <3>1. Len(runs) \in Nat /\ MaxRuns \in Nat
        BY <1>1, NumberAssumption DEF TypeOK
    <3> QED
        BY <1>1, <3>1
  <2> QED
      BY <1>6, <2>1 DEF Executing
<1>9. /\ e.at = "started" /\ e.run = r /\ e.expected = plan.facts /\ e.locked = {} /\ e.done = {}
    OBVIOUS
<1> HIDE DEF now, t, e
<1>10. /\ runs' \in Seq(Run) /\ Len(runs') = Len(runs) + 1 /\ Len(runs') <= MaxRuns
       /\ runs'[r] = now /\ r \in DOMAIN runs' /\ r \notin DOMAIN runs
       /\ \A n \in DOMAIN runs : n \in DOMAIN runs' /\ runs'[n] = runs[n]
       /\ \A n \in DOMAIN runs' : n \in DOMAIN runs \/ n = r
  <2>1. runs \in Seq(Run) /\ Len(runs) \in Nat /\ MaxRuns \in Nat
      BY <1>1, NumberAssumption DEF TypeOK
  <2> QED
      BY <1>1, <1>3, <1>7, <2>1
<1>11. TypeOK'
  <2>1. cleaners' \in [Cleaners -> {Idle} \cup Surveyed \cup Executing]
      BY <1>1, <1>3, <1>8 DEF TypeOK
  <2> QED
      BY <1>1, <1>10, <2>1 DEF TypeOK
<1>12. v \in Executing =>
         /\ v.run \notin DOMAIN runs
         /\ v.run \in DOMAIN runs' /\ runs'[v.run].plan \in DOMAIN plans'
         /\ FrameIn(v, runs'[v.run], plans'[runs'[v.run].plan], facts', place')
  <2>1. FrameIn(e, now, plan, facts, place)
    <3>1. \A i \in chosen : PhaseAt(e, i) = "not_run"
        BY <1>9 DEF PhaseAt, Early
    <3>2. \A x \in Range(t) : x.phase # "blocked"
        BY <1>5
    <3> HIDE DEF plan
    <3> QED
        BY <1>5, <1>7, <1>9, <3>1, <3>2 DEF FrameIn, Early, WithItem
  <2>2. /\ e.run \notin DOMAIN runs
        /\ e.run \in DOMAIN runs' /\ runs'[e.run].plan \in DOMAIN plans'
        /\ FrameIn(e, runs'[e.run], plans'[runs'[e.run].plan], facts', place')
      BY <1>1, <1>7, <1>9, <1>10, <2>1
  <2>3. v = Idle \/ v = e
      OBVIOUS
  <2> HIDE DEF v
  <2> QED
      BY <2>2, <2>3, IdleIsNone
<1>13. LocksSound' /\ SharedSound' /\ CallersSound' /\ FramesSound'
  <2>1. Keeps(facts, facts') /\ LockedIn(v) = {}
      BY <1>1, <1>9 DEF Keeps, LockedIn
  <2> HIDE DEF v
  <2> QED
      BY <1>1, <1>3, <1>10, <1>12, <2>1, CleanerStep_Others
<1>14. PlansSound' /\ ProtectedIsNotRetired' /\ RetirementsAccepted' /\ PlacedOrRetired'
       /\ IsFiniteSet(facts.installed)'
    BY <1>1 DEF IInv, PlansSound, ProtectedIsNotRetired, RetirementsAccepted, PlacedOrRetired,
                Candidates
<1>15. SurveysSound'
  <2> SUFFICES ASSUME NEW m \in Cleaners, cleaners'[m] \in Surveyed
               PROVE  PlanSound(cleaners'[m].plan)
    <3>1. Surveyed' = Surveyed
        BY DEF Surveyed, Plan, Facts
    <3> QED
        BY <3>1 DEF SurveysSound
  <2>1. cleaners'[m] = IF m = k THEN v ELSE cleaners[m]
      BY <1>1, <1>3 DEF TypeOK
  <2>2. v \notin Surveyed
      BY <1>8, IdleIsNone DEF Executing, Surveyed
  <2> QED
      BY <2>1, <2>2 DEF IInv, SurveysSound
<1>16. RunsSound'
  <2> SUFFICES ASSUME NEW n \in DOMAIN runs'
               PROVE  runs'[n].plan \in DOMAIN plans /\ RunIn(runs'[n], plans[runs'[n].plan], facts)
      BY <1>1 DEF RunsSound
  <2>1. CASE n = r
      BY <1>5, <1>7, <1>10, <2>1
  <2>2. CASE n \in DOMAIN runs
      BY <1>10, <2>2 DEF IInv, RunsSound
  <2> QED
      BY <1>10, <2>1, <2>2
<1>17. CompletedSound'
  <2>1. CompletedInstalls' \subseteq CompletedInstalls
      BY <1>5, <1>7, <1>10 DEF CompletedInstalls
  <2> QED
      BY <1>1, <2>1 DEF IInv, CompletedSound
<1> QED
    BY <1>11, <1>13, <1>14, <1>15, <1>16, <1>17 DEF IInv

-------------------------------------------------------------------------------
(* The invariant *)

LEMMA InitSound ==
  ASSUME Init
  PROVE  IInv
<1>1. /\ \A c \in Callers : callers[c] = Idle /\ children[c] = NoInstall
      /\ \A k \in Cleaners : cleaners[k] = Idle
      /\ plans = <<>> /\ runs = <<>>
      /\ \A i \in Installs : facts.retired[i] = 0
      /\ facts.installed = {} /\ facts.checks = <<>> /\ facts.activations = <<>>
    BY DEF Init
<1>2. TypeOK
  <2>1. /\ Whole \in Nat /\ MaxPlans \in Nat /\ MaxRuns \in Nat /\ MaxFaults \in Nat
      BY NumberAssumption
  <2>2. facts \in Facts
      BY <2>1 DEF Init, Facts
  <2> QED
      BY <2>1, <2>2 DEF Init, TypeOK, Places
<1>3. /\ \A i \in Installs : ~Shared(i) /\ ~Exclusive(i)
      /\ \A k \in Cleaners : LockedBy(k) = {}
    BY <1>1, NullAssumption DEF Shared, Exclusive, LockedBy
<1>4. LocksSound /\ SharedSound
    BY <1>3 DEF LocksSound, SharedSound
<1>5. CallersSound /\ SurveysSound /\ FramesSound
    BY <1>1, IdleIsNone DEF CallersSound, CallerSound, SurveysSound, FramesSound
<1>6. PlansSound /\ RunsSound
    BY <1>1 DEF PlansSound, RunsSound
<1>7. Retired(facts) = {} /\ CompletedInstalls = {}
    BY <1>1 DEF Retired, CompletedInstalls
<1>8. /\ ProtectedIsNotRetired /\ RetirementsAccepted /\ PlacedOrRetired /\ CompletedSound
    BY <1>1, <1>7 DEF ProtectedIsNotRetired, RetirementsAccepted, PlacedOrRetired, CompletedSound
<1>9. IsFiniteSet(facts.installed)
    BY <1>1, FS_EmptySet
<1> QED
    BY <1>2, <1>4, <1>5, <1>6, <1>8, <1>9 DEF IInv

LEMMA UnchangedSound ==
  ASSUME IInv, UNCHANGED vars
  PROVE  IInv'
<1>1. UNCHANGED <<facts, plans, runs, place, pieces, intents, callers, children, cleaners, faults>>
    BY DEF vars
<1>2. pieces' \in [Installs -> 0..Whole] /\ faults' \in 0..MaxFaults
    BY <1>1 DEF IInv, TypeOK
<1> QED
    BY <1>1, <1>2, PiecesSound

\* Each action keeps the invariant.
LEMMA NextSound ==
  ASSUME IInv, Next
  PROVE  IInv'
<1>1. ASSUME NEW c \in Users, UserStep(c)
      PROVE  IInv'
    BY <1>1, UseSelectedSound, ActivateSound, VerifySound, AcquireSound, EndUseSound,
       RecordCheckSound, CommitActivationSound DEF UserStep
<1>2. ASSUME NEW c \in Publishers, PublisherStep(c)
      PROVE  IInv'
    BY <1>2, BuildSound, EnterPublicationSound, ReadIntentSound, PublishTreeSound,
       CommitInstallSound, ForgetIntentSound DEF PublisherStep
<1>3. ASSUME NEW c \in Callers, Spawn(c) \/ ChildExits(c) \/ Kill(c)
      PROVE  IInv'
    BY <1>3, SpawnSound, ChildExitsSound, KillSound
<1>4. ASSUME NEW k \in Cleaners, CleanerStep(k)
      PROVE  IInv'
    BY <1>4, SurveyInstallsSound, SavePlanSound, BeginRunSound, CompareFactsSound,
       LockExclusiveSound, RecheckSound, RetireSound, MoveToTrashSound, RecordMovedSound,
       BeginDeleteSound, DeletePieceSound, DeleteFailsSound, RecordCompletedSound,
       KillCleanerSound DEF CleanerStep
<1>5. ASSUME NEW i \in Installs, Damage(i)
      PROVE  IInv'
    BY <1>5, DamageSound
<1> QED
    BY <1>1, <1>2, <1>3, <1>4, <1>5 DEF Next

\* The invariant holds in every reachable state.
THEOREM Invariant == Spec => []IInv
<1>1. Init => IInv
    BY InitSound
<1>2. IInv /\ [Next]_vars => IInv'
    BY NextSound, UnchangedSound
<1> QED
    BY <1>1, <1>2, PTL DEF Spec

\* Every variable has its type, under every interleaving of callers and cleaners.
THEOREM InstallsTypeCorrect == Spec => []TypeOK
<1>1. IInv => TypeOK
    BY DEF IInv
<1> QED
    BY <1>1, Invariant, PTL

\* A held installation is in place and not retired: a handle or an inherited lock
\* is shared, and what a cleanup moves or retires it has locked exclusively.
THEOREM HeldIsInPlace == Spec => []HeldStaysInPlace
<1>1. ASSUME IInv
      PROVE  HeldStaysInPlace
  <2> SUFFICES ASSUME NEW i \in facts.installed, HoldersOf(i) # {}
               PROVE  place[i] = "placed" /\ i \notin Retired(facts)
      BY DEF HeldStaysInPlace
  <2>1. Shared(i) /\ i \in Installs
      BY <1>1 DEF HoldersOf, Shared, LockStates, IInv, TypeOK, Facts
  <2> QED
      BY <1>1, <2>1 DEF IInv, SharedSound
<1> QED
    BY <1>1, Invariant, PTL

\* No installation of the retention window and no latest check is retired: a plan
\* saw it unprotected, and the facts it was retired with are the plan's.
THEOREM ProtectedStays == Spec => []ProtectedIsNotRetired
<1>1. IInv => ProtectedIsNotRetired
    BY DEF IInv
<1> QED
    BY <1>1, Invariant, PTL

\* Whatever was killed or failed, read_state accepts the plans and executions.
THEOREM HistoryAccepted == Spec => []HistoryIsAccepted
<1>1. ASSUME IInv
      PROVE  HistoryIsAccepted
  <2>1. \A r \in DOMAIN runs : RunAccepted(r)
      BY <1>1, RunsAccepted DEF IInv
  <2>2. \A p \in DOMAIN plans : PlanAccepted(p)
      BY <1>1 DEF IInv, PlansSound, PlanSound, PlanAccepted
  <2> QED
      BY <1>1, <2>1, <2>2 DEF HistoryIsAccepted, IInv
<1> QED
    BY <1>1, Invariant, PTL

\* A completed deletion left nothing, and what is not in place was retired before.
THEOREM DeletionAccounted == Spec => []DeletionIsAccounted
<1>1. IInv => DeletionIsAccounted
    BY DEF IInv, CompletedSound, PlacedOrRetired, DeletionIsAccounted
<1> QED
    BY <1>1, Invariant, PTL

-------------------------------------------------------------------------------
(* The life of an installation *)

\* What a step of the detailed system does to one installation.
LifeStep(i) ==
  \/ Stage(i)' = Stage(i) /\ HoldersOf(i)' \subseteq HoldersOf(i)
  \/ /\ Stage(i)' = Stage(i) /\ Stage(i) \in {"unknown", "available"}
     /\ HoldersOf(i) \subseteq HoldersOf(i)'
  \/ /\ Stage(i) = "unknown" /\ Stage(i)' = "available"
     /\ HoldersOf(i)' \subseteq HoldersOf(i)
  \/ /\ Stage(i) = "available" /\ Stage(i)' = "retired"
     /\ HoldersOf(i) = {} /\ HoldersOf(i)' = {}
  \/ Stage(i) = "retired" /\ Stage(i)' = "gone" /\ HoldersOf(i)' = HoldersOf(i)

LEMMA LifeStepsImplement ==
  ASSUME \A i \in Installs : LifeStep(i)
  PROVE  Lifecycle!Next
BY DEF LifeStep, Lifecycle!Next, Lifecycle!Register, Lifecycle!Hold, Lifecycle!Leave,
       Lifecycle!Retire, Lifecycle!Delete

LEMMA HoldersAreShared ==
  ASSUME NEW i
  PROVE  HoldersOf(i) # {} <=> Shared(i)
BY DEF HoldersOf, Shared, LockStates

\* A caller that takes a lock, and one that takes none.
LEMMA HoldersChange ==
  ASSUME TypeOK, NEW c \in Callers, NEW v, callers' = [callers EXCEPT ![c] = v],
         \/ children' = children
         \/ v = Idle /\ children' = [children EXCEPT ![c] = NoInstall],
         NEW i \in Installs
  PROVE  /\ HoldersOf(i)' \subseteq HoldersOf(i) \/ HoldersOf(i) \subseteq HoldersOf(i)'
         /\ (v = Idle \/ v.at \notin LockStates) => HoldersOf(i)' \subseteq HoldersOf(i)
<1>1. /\ \A d \in Callers : d # c => callers'[d] = callers[d]
      /\ callers'[c] = v
    BY DEF TypeOK
<1>2. \A d \in Callers : children'[d] = i => children[d] = i
    BY NullAssumption DEF TypeOK
<1> DEFINE takes == v # Idle /\ v.at \in LockStates /\ v.install = i
<1>3. CASE ~takes
  <2>1. HoldersOf(i)' \subseteq HoldersOf(i)
      BY <1>1, <1>2, <1>3 DEF HoldersOf, Idle, LockStates
  <2> QED
      BY <2>1
<1>4. CASE takes
  <2>1. children' = children
      BY <1>4
  <2>2. HoldersOf(i) \subseteq HoldersOf(i)'
      BY <1>1, <1>4, <2>1 DEF HoldersOf, Idle, LockStates
  <2> QED
      BY <1>4, <2>2
<1> QED
    BY <1>3, <1>4

\* A step that changes holders only, and one that changes none.
LEMMA HoldingStep ==
  ASSUME IInv, IInv', NEW i \in Installs, UNCHANGED <<facts, place>>,
         HoldersOf(i)' \subseteq HoldersOf(i) \/ HoldersOf(i) \subseteq HoldersOf(i)'
  PROVE  LifeStep(i)
<1>1. Stage(i)' = Stage(i)
    BY DEF Stage
<1>2. CASE HoldersOf(i)' \subseteq HoldersOf(i)
    BY <1>1, <1>2 DEF LifeStep
<1>3. CASE HoldersOf(i) \subseteq HoldersOf(i)' /\ HoldersOf(i)' # {}
  <2>1. Shared(i)'
      BY <1>3 DEF HoldersOf, Shared, LockStates, Idle
  <2>2. i \notin Retired(facts)
      BY <2>1 DEF IInv, SharedSound
  <2> QED
      BY <1>1, <1>3, <2>2 DEF LifeStep, Stage
<1> QED
    BY <1>2, <1>3

LEMMA SameHolders ==
  ASSUME UNCHANGED <<callers, children>>, NEW i
  PROVE  HoldersOf(i)' = HoldersOf(i)
BY DEF HoldersOf, Idle

LEMMA UserLife ==
  ASSUME IInv, IInv', NEW c \in Users, UserStep(c), NEW i \in Installs
  PROVE  LifeStep(i)
<1>1. c \in Callers /\ TypeOK /\ facts \in Facts
    BY DEF Callers, IInv, TypeOK
<1>2. ASSUME UNCHANGED <<facts, place>>,
             NEW v, callers' = [callers EXCEPT ![c] = v],
             \/ children' = children
             \/ v = Idle /\ children' = [children EXCEPT ![c] = NoInstall]
      PROVE  LifeStep(i)
    BY <1>1, <1>2, HoldersChange, HoldingStep
<1>3. ASSUME UseSelected(c) \/ Activate(c) \/ (\E j \in Installs : Verify(c, j)) \/ Acquire(c)
      PROVE  LifeStep(i)
  <2>1. UNCHANGED <<facts, place, children>>
      BY <1>3 DEF UseSelected, Activate, Verify, Acquire, database, trees
  <2>2. \E v : callers' = [callers EXCEPT ![c] = v]
    <3>1. CASE UseSelected(c) \/ Activate(c) \/ \E j \in Installs : Verify(c, j)
        BY <3>1 DEF UseSelected, Activate, Verify, Takes
    <3>2. CASE Acquire(c)
      <4>1. callers[c] \in Caller /\ callers[c].op \in {"use", "activate", "verify"}
          BY <1>1, <3>2, BusyCaller DEF Acquire, IInv, CallersSound, CallerSound
      <4> QED
          BY <3>2, <4>1 DEF Acquire, Refused, Proceeds, Stops, Takes
    <3> QED
        BY <1>3, <3>1, <3>2
  <2> QED
      BY <1>2, <2>1, <2>2
<1>4. CASE EndUse(c)
    BY <1>2, <1>4 DEF EndUse, Stops, database, trees
<1>5. CASE RecordCheck(c) \/ CommitActivation(c)
  <2>1. /\ callers' = [callers EXCEPT ![c] = Idle] /\ UNCHANGED <<place, children>>
        /\ facts'.installed = facts.installed /\ facts'.retired = facts.retired
    <3>1. CASE RecordCheck(c)
      <4>1. PICK x : facts' = [facts EXCEPT !.checks = x]
          BY <3>1 DEF RecordCheck
      <4> QED
          BY <1>1, <3>1, <4>1, FactsWith DEF RecordCheck, Stops, trees
    <3>2. CASE CommitActivation(c)
      <4>1. PICK x : facts' = [facts EXCEPT !.activations = x]
          BY <3>2 DEF CommitActivation
      <4> QED
          BY <1>1, <3>2, <4>1, FactsWith DEF CommitActivation, Stops, trees
    <3> QED
        BY <1>5, <3>1, <3>2
  <2>2. Stage(i)' = Stage(i)
      BY <2>1 DEF Stage, Retired
  <2>3. HoldersOf(i)' \subseteq HoldersOf(i)
      BY <1>1, <2>1, HoldersChange
  <2> QED
      BY <2>2, <2>3 DEF LifeStep
<1> QED
    BY <1>3, <1>4, <1>5 DEF UserStep

LEMMA PublisherLife ==
  ASSUME IInv, IInv', NEW c \in Publishers, PublisherStep(c), NEW i \in Installs
  PROVE  LifeStep(i)
<1>1. c \in Callers /\ TypeOK /\ facts \in Facts
    BY DEF Callers, IInv, TypeOK
<1>2. ASSUME (\E op \in {"prepare", "rebuild"} : Build(c, op)) \/ EnterPublication(c)
             \/ ReadIntent(c) \/ ForgetIntent(c)
      PROVE  LifeStep(i)
  <2>1. UNCHANGED <<facts, place, children>>
      BY <1>2 DEF Build, EnterPublication, ReadIntent, ForgetIntent, database, trees
  <2>2. \E v : callers' = [callers EXCEPT ![c] = v]
      BY <1>2 DEF Build, EnterPublication, ReadIntent, ForgetIntent, Stops, Proceeds
  <2> QED
      BY <1>1, <2>1, <2>2, HoldersChange, HoldingStep
<1>3. CASE PublishTree(c)
  <2>1. UNCHANGED <<facts, children>> /\ \E v : callers' = [callers EXCEPT ![c] = v]
      BY <1>3 DEF PublishTree, Stops, Proceeds, database
  <2>2. HoldersOf(i)' \subseteq HoldersOf(i) \/ HoldersOf(i) \subseteq HoldersOf(i)'
      BY <1>1, <2>1, HoldersChange
  <2>3. CASE UNCHANGED place
      BY <2>1, <2>2, <2>3, HoldingStep
  <2>4. CASE /\ MayPublish(callers[c].install) /\ place[callers[c].install] = "absent"
             /\ place' = [place EXCEPT ![callers[c].install] = "placed"]
    <3> DEFINE j == callers[c].install
    <3>1. j \in facts.installed => place[j] = "placed"
        BY <2>4 DEF MayPublish, Registered, IInv, PlacedOrRetired
    <3>2. j \notin facts.installed
        BY <2>4, <3>1
    <3>3. Stage(i)' = Stage(i)
        BY <1>1, <2>1, <2>4, <3>2 DEF Stage, TypeOK
    <3>4. CASE HoldersOf(i)' \subseteq HoldersOf(i)
        BY <3>3, <3>4 DEF LifeStep
    <3>5. CASE HoldersOf(i) \subseteq HoldersOf(i)' /\ HoldersOf(i)' # {}
      <4>1. Shared(i)'
          BY <3>5 DEF HoldersOf, Shared, LockStates, Idle
      <4>2. i \notin Retired(facts)
          BY <2>1, <4>1 DEF IInv, SharedSound
      <4> QED
          BY <3>3, <3>5, <4>2 DEF LifeStep, Stage
    <3> QED
        BY <2>2, <3>4, <3>5
  <2> QED
      BY <1>3, <2>3, <2>4 DEF PublishTree
<1>4. CASE CommitInstall(c)
  <2> DEFINE r == callers[c]
             j == r.install
  <2>1. /\ r \in Caller /\ r.at = "placed" /\ j \in Installs
        /\ UNCHANGED <<place, children>>
      BY <1>1, <1>4, BusyCaller DEF CommitInstall, trees, IInv, CallersSound, CallerSound
  <2>2. \E v : callers' = [callers EXCEPT ![c] = v] /\ (v = Idle \/ v.at \notin LockStates)
    <3>1. \/ Stops(c) \/ Proceeds(c, "released")
        BY <1>4 DEF CommitInstall
    <3>2. [r EXCEPT !.at = "released"].at \notin LockStates
        BY <2>1, ProceedsTo DEF LockStates
    <3> QED
        BY <3>1, <3>2 DEF Stops, Proceeds
  <2>3. HoldersOf(i)' \subseteq HoldersOf(i)
      BY <1>1, <2>1, <2>2, HoldersChange
  <2>4. CASE UNCHANGED facts
      BY <2>1, <2>3, <2>4, HoldingStep
  <2>5. CASE /\ j \notin facts.installed
             /\ facts' = [facts EXCEPT !.installed = @ \cup {j},
                          !.checks = Append(@, [install |-> j, passed |-> TRUE])]
    <3>1. facts'.installed = facts.installed \cup {j} /\ facts'.retired = facts.retired
        BY <1>1, <2>5, FactsInstalling
    <3>2. Retired(facts') = Retired(facts)
        BY <3>1 DEF Retired
    <3>3. CASE i = j
      <4>1. i \notin Retired(facts)
          BY <2>5, <3>3, RetiredIsInstalled
      <4>2. Stage(i) = "unknown" /\ Stage(i)' = "available"
          BY <2>1, <2>5, <3>1, <3>2, <3>3, <4>1 DEF Stage
      <4> QED
          BY <2>3, <4>2 DEF LifeStep
    <3>4. CASE i # j
      <4>1. Stage(i)' = Stage(i)
          BY <2>1, <3>1, <3>2, <3>4 DEF Stage
      <4> QED
          BY <2>3, <4>1 DEF LifeStep
    <3> QED
        BY <3>3, <3>4
  <2> QED
      BY <1>4, <2>4, <2>5 DEF CommitInstall
<1> QED
    BY <1>2, <1>3, <1>4 DEF PublisherStep

LEMMA ProcessLife ==
  ASSUME IInv, IInv', NEW c \in Callers, Spawn(c) \/ ChildExits(c) \/ Kill(c), NEW i \in Installs
  PROVE  LifeStep(i)
<1>1. TypeOK
    BY DEF IInv
<1>2. UNCHANGED <<facts, place>>
    BY DEF Spawn, ChildExits, Kill, database, trees
<1>3. CASE Spawn(c)
  <2>1. /\ children[c] = NoInstall /\ UNCHANGED callers
        /\ \A d \in Callers : d # c => children'[d] = children[d]
      BY <1>1, <1>3 DEF Spawn, TypeOK
  <2>2. HoldersOf(i) \subseteq HoldersOf(i)'
      BY <2>1, NullAssumption DEF HoldersOf, Idle
  <2> QED
      BY <1>2, <2>2, HoldingStep
<1>4. CASE ChildExits(c)
  <2>1. /\ UNCHANGED callers
        /\ \A d \in Callers : children'[d] = i => children[d] = i
      BY <1>1, <1>4, NullAssumption DEF ChildExits, TypeOK
  <2>2. HoldersOf(i)' \subseteq HoldersOf(i)
      BY <2>1 DEF HoldersOf, Idle
  <2> QED
      BY <1>2, <2>2, HoldingStep
<1>5. CASE Kill(c)
  <2>1. callers' = [callers EXCEPT ![c] = Idle] /\ children' = children
      BY <1>5 DEF Kill, Stops
  <2>2. HoldersOf(i)' \subseteq HoldersOf(i)
      BY <1>1, <2>1, HoldersChange
  <2> QED
      BY <1>2, <2>2, HoldingStep
<1> QED
    BY <1>3, <1>4, <1>5

LEMMA CleanerLife ==
  ASSUME IInv, IInv', NEW k \in Cleaners, CleanerStep(k), NEW i \in Installs
  PROVE  LifeStep(i)
<1> DEFINE e == cleaners[k]
<1>1. TypeOK /\ facts \in Facts
    BY DEF IInv, TypeOK
<1>2. UNCHANGED <<callers, children>>
    BY DEF CleanerStep, SurveyInstalls, SavePlan, BeginRun, CompareFacts, LockExclusive, Recheck,
           Retire, MoveToTrash, RecordMoved, BeginDelete, DeletePiece, DeleteFails,
           RecordCompleted, KillCleaner
<1>3. HoldersOf(i)' = HoldersOf(i)
    BY <1>2, SameHolders
<1>4. CASE UNCHANGED <<facts, place>>
    BY <1>3, <1>4, HoldingStep
<1>5. CASE Retire(k) /\ facts' # facts
  <2> DEFINE p == PlanOf(k)
             marks == [j \in Installs |->
               IF j \in Candidates(p) /\ facts.retired[j] = 0 THEN p ELSE facts.retired[j]]
  <2>1. e \in Executing /\ e.at = "checked"
      BY <1>5, ExecutesIs DEF Retire
  <2>2. facts' = [facts EXCEPT !.retired = marks] /\ UNCHANGED place
      BY <1>5 DEF Retire, trees
  <2>3. facts'.installed = facts.installed /\ facts'.retired = marks
      BY <1>1, <2>2, FactsWith
  <2>4. /\ Candidates(p) = Chosen(k) /\ Chosen(k) = LockedBy(k) /\ p \in 1..MaxPlans
        /\ Chosen(k) \subseteq facts.installed
      BY <2>1, ExecutingFacts DEF Chosen
  <2>5. marks[i] = IF i \in LockedBy(k) /\ facts.retired[i] = 0 THEN p ELSE facts.retired[i]
      BY <2>4
  <2> HIDE DEF marks
  <2>6. CASE i \in LockedBy(k) /\ facts.retired[i] = 0
    <3>1. i \in facts.installed /\ i \notin Retired(facts) /\ i \in Retired(facts')
        BY <2>3, <2>4, <2>5, <2>6 DEF Retired
    <3>2. place[i] = "placed"
        BY <3>1 DEF IInv, PlacedOrRetired
    <3>3. ~Shared(i)
        BY <2>6 DEF IInv, LocksSound, Exclusive
    <3>4. HoldersOf(i) = {}
        BY <3>3, HoldersAreShared
    <3>5. Stage(i) = "available" /\ Stage(i)' = "retired"
        BY <2>2, <2>3, <3>1, <3>2 DEF Stage
    <3> QED
        BY <1>3, <3>4, <3>5 DEF LifeStep
  <2>7. CASE ~(i \in LockedBy(k) /\ facts.retired[i] = 0)
    <3>1. Stage(i)' = Stage(i)
        BY <2>2, <2>3, <2>5, <2>7 DEF Stage, Retired
    <3> QED
        BY <1>3, <3>1 DEF LifeStep
  <2> QED
      BY <2>6, <2>7
<1>6. CASE MoveToTrash(k) /\ place' # place
  <2>1. e \in Executing /\ e.at = "retired" /\ UNCHANGED facts
      BY <1>6, ExecutesIs DEF MoveToTrash
  <2>2. PICK j \in Chosen(k) : AsPlanned(k, j) /\ place' = [place EXCEPT ![j] = "trash"]
      BY <1>6 DEF MoveToTrash
  <2>3. /\ j \in Installs /\ PlanOf(k) \in DOMAIN plans
        /\ j \in CandidatesIn(plans[PlanOf(k)])
        /\ FrameIn(e, runs[e.run], plans[PlanOf(k)], facts, place)
      BY <2>1, ExecutingFacts
  <2>4. j \in Retired(facts)
      BY <2>1, <2>3 DEF FrameIn, Early, RetiredBy, Retired
  <2>5. place[j] # "absent"
    <3>1. PlanSound(plans[PlanOf(k)]) /\ j \in plans[PlanOf(k)].facts.installed
        BY <2>3, CandidateFacts DEF IInv, PlansSound
    <3>2. plans[PlanOf(k)].items[j].place # "absent"
        BY <2>3, <3>1 DEF PlanSound, CandidatesIn
    <3> QED
        BY <2>2, <3>2 DEF AsPlanned
  <2>6. Stage(i)' = Stage(i)
      BY <1>1, <2>1, <2>2, <2>3, <2>4, <2>5 DEF Stage, TypeOK
  <2> QED
      BY <1>3, <2>6 DEF LifeStep
<1>7. CASE DeletePiece(k) /\ place' # place
  <2>1. e \in Executing /\ e.at = "deleting" /\ UNCHANGED facts
        /\ place' = [place EXCEPT ![e.item] = "absent"]
      BY <1>7, ExecutesIs DEF DeletePiece, database
  <2>2. /\ e.item \in Installs
        /\ e.item \in CandidatesIn(plans[PlanOf(k)])
        /\ FrameIn(e, runs[e.run], plans[PlanOf(k)], facts, place)
      BY <2>1, ExecutingFacts DEF FrameIn, WithItem
  <2>3. e.item \in Retired(facts)
      BY <2>1, <2>2 DEF FrameIn, Early, RetiredBy, Retired
  <2>4. e.item \in facts.installed
      BY <2>3, RetiredIsInstalled
  <2>5. CASE i = e.item
    <3>1. Stage(i)' = "gone" /\ Stage(i) \in {"retired", "gone"}
        BY <1>1, <2>1, <2>2, <2>3, <2>4, <2>5 DEF Stage, TypeOK
    <3> QED
        BY <1>3, <3>1 DEF LifeStep
  <2>6. CASE i # e.item
    <3>1. Stage(i)' = Stage(i)
        BY <1>1, <2>1, <2>6 DEF Stage, TypeOK
    <3> QED
        BY <1>3, <3>1 DEF LifeStep
  <2> QED
      BY <2>5, <2>6
<1>8. UNCHANGED <<facts, place>> \/ (Retire(k) /\ facts' # facts)
      \/ (MoveToTrash(k) /\ place' # place) \/ (DeletePiece(k) /\ place' # place)
    BY DEF CleanerStep, SurveyInstalls, SavePlan, BeginRun, CompareFacts, LockExclusive, Recheck,
           Retire, MoveToTrash, RecordMoved, BeginDelete, DeletePiece, DeleteFails,
           RecordCompleted, KillCleaner, database, trees
<1> QED
    BY <1>4, <1>5, <1>6, <1>7, <1>8

LEMMA QuietLife ==
  ASSUME UNCHANGED <<facts, place, callers, children>>, NEW i \in Installs
  PROVE  LifeStep(i)
<1>1. Stage(i)' = Stage(i) /\ HoldersOf(i)' = HoldersOf(i)
    BY SameHolders DEF Stage
<1> QED
    BY <1>1 DEF LifeStep

\* The installations under their locks, plans and crashes implement the life an
\* installation is promised: held only while available, retired when nobody holds it.
THEOREM LifecycleImplemented == Spec => ImplementsLifecycle
<1>1. Init => Lifecycle!Init
  <2> SUFFICES ASSUME Init
               PROVE  Lifecycle!Init
      OBVIOUS
  <2>1. \A i \in Installs : Stage(i) = "unknown"
      BY DEF Init, Stage
  <2>2. \A i \in Installs : HoldersOf(i) = {}
      BY NullAssumption DEF Init, HoldersOf
  <2> QED
      BY <2>1, <2>2 DEF Lifecycle!Init
<1>2. IInv /\ IInv' /\ [Next]_vars => [Lifecycle!Next]_(Lifecycle!vars)
  <2> SUFFICES ASSUME IInv, IInv', [Next]_vars
               PROVE  Lifecycle!Next
      OBVIOUS
  <2>1. CASE Next
    <3> SUFFICES ASSUME NEW i \in Installs
                 PROVE  LifeStep(i)
        BY LifeStepsImplement
    <3>1. CASE \E j \in Installs : Damage(j)
        BY <3>1, QuietLife DEF Damage, database
    <3> QED
        BY <2>1, <3>1, UserLife, PublisherLife, ProcessLife, CleanerLife DEF Next
  <2>2. CASE UNCHANGED vars
      BY <2>2, QuietLife, LifeStepsImplement DEF vars
  <2> QED
      BY <2>1, <2>2
<1> QED
    BY <1>1, <1>2, Invariant, PTL DEF Spec, ImplementsLifecycle, Lifecycle!Spec
================================================================================
