-------------------------- MODULE PiExecutionProofs --------------------------
(***************************************************************************)
(* Proofs about the executions of Pi, for any readers, screeners,          *)
(* installations and evidence: which installation a process of Pi runs in  *)
(* rests on the order of admission, hold and comparison; what an attempt   *)
(* was told, on the budget that has one open attempt, its last.            *)
(***************************************************************************)
EXTENDS PiExecution, SequenceTheorems, TLAPS

-------------------------------------------------------------------------------
(* Types *)

Kinds == {"read", "screening"}
States == {"idle", "waiting", "prepare", "admitted", "using", "token", "prepared", "bound",
           "claimed", "running", "answered", "releasing"}
Installs == ExecutionInstalls \cup {"none"}
AttemptRow == [outcome : {"in_flight", "accepted", "rejected", "failed", "unknown"},
               install : Installs]
ExecutorFrame ==
  [at : States, binding : Installs, use : Installs, session : {"none", "token", "session"},
   dir : BOOLEAN, ordinal : Nat, told : BOOLEAN, result : {"none", "candidate", "failed"}]
GroupRow == [kind : {"token", "session"}, install : Installs]

ExecutionTypeOK ==
  /\ inPlace \subseteq ExecutionInstalls
  /\ selected \in ExecutionInstalls
  /\ budgets \in [Kinds -> Seq(AttemptRow)]
  /\ executors \in [Executors -> ExecutorFrame]
  /\ orphans \subseteq GroupRow

-------------------------------------------------------------------------------
(* The inductive invariant *)

\* What Pi runs in has to stay: from the hold on, and as long as a session lasts.
Holding(e) ==
  e.at \in {"using", "token", "prepared", "bound", "claimed", "running", "answered"}
  \/ e.session # "none"

\* Attempt n of a task followed a rejected candidate.
ToldOf(attempts, n) == n > 1 /\ attempts[n - 1].outcome = "rejected"

\* What the frame of an executor knows of its task and of the installations.
FrameSound(e, attempts, placed) ==
  /\ Holding(e) => e.use \in placed
  /\ e.at \in {"admitted", "using", "token", "prepared"} => e.binding \in Evidenced
  /\ e.at \in {"bound", "claimed", "running", "answered"} => e.use \in Evidenced
  /\ e.session # "none" => e.at \in {"token", "running", "answered", "releasing"}
  /\ e.session = "session" => e.at # "token" /\ e.use \in Evidenced /\ e.dir
  /\ e.session = "token" => e.at = "token"
  /\ e.result = "candidate" =>
       e.session = "none" /\ ~e.dir /\ e.at \in {"answered", "releasing"}
  /\ e.at \in {"claimed", "running", "answered"} => e.ordinal # 0
  /\ e.ordinal # 0 =>
       e.ordinal \in DOMAIN attempts /\ e.told = ToldOf(attempts, e.ordinal)
FramesSound == \A c \in Executors : FrameSound(executors[c], budgets[KindOf(c)], inPlace)

\* A group that nobody waits for runs where it was started.
GroupSound(g, placed) ==
  g.install \in placed /\ (g.kind = "session" => g.install \in Evidenced)
OrphansSound == \A g \in orphans : GroupSound(g, inPlace)

\* An accepted answer has its installation, and only the last attempt is open.
AttemptsSound(attempts) ==
  \A n \in DOMAIN attempts :
    /\ attempts[n].outcome = "accepted" => attempts[n].install \in Evidenced
    /\ attempts[n].outcome = "in_flight" => n = Len(attempts)
BudgetsSound == \A kind \in Kinds : AttemptsSound(budgets[kind])

\* A reading that is past the root lock holds it.
RootSound ==
  \A c \in Readers : executors[c].at \notin {"idle", "waiting"} => rootHolder = c

IInv ==
  /\ ExecutionTypeOK
  /\ FramesSound
  /\ OrphansSound
  /\ BudgetsSound
  /\ RootSound

-------------------------------------------------------------------------------
(* Lemmas about budgets *)

\* Whether an attempt was told is read off the row before it.
LEMMA FollowsIsTold ==
  ASSUME NEW s \in Seq(AttemptRow), NEW n \in 1..(Len(s) + 1)
  PROVE  FollowsRejection(SubSeq(s, 1, n - 1)) = ToldOf(s, n)
<1>1. n - 1 \in 0..Len(s)
  OBVIOUS
<1>2. CASE n = 1
  <2>1. SubSeq(s, 1, n - 1) = <<>>
    BY <1>2, SubSeqProperties
  <2> QED
    BY <2>1, <1>2 DEF FollowsRejection, ToldOf
<1>3. CASE n # 1
  <2> DEFINE pre == SubSeq(s, 1, n - 1)
  <2>1. pre \in Seq(AttemptRow) /\ Len(pre) = n - 1 /\ \A i \in 1..(n - 1) : pre[i] = s[i]
    BY <1>1, <1>3, SubSeqProperties
  <2>2. pre # <<>> /\ Last(pre) = s[n - 1]
    BY <2>1, <1>3 DEF Last
  <2> QED
    BY <2>2, <1>3 DEF FollowsRejection, ToldOf
<1> QED
  BY <1>2, <1>3

\* A new attempt changes nothing before it.
LEMMA AttemptAppended ==
  ASSUME NEW s \in Seq(AttemptRow), NEW row \in AttemptRow, AttemptsSound(s),
         \A n \in DOMAIN s : s[n].outcome # "in_flight",
         row.outcome # "accepted"
  PROVE  /\ Append(s, row) \in Seq(AttemptRow)
         /\ AttemptsSound(Append(s, row))
         /\ DOMAIN s \subseteq DOMAIN Append(s, row)
         /\ Len(s) + 1 \in DOMAIN Append(s, row)
         /\ \A n \in 1..(Len(s) + 1) : ToldOf(Append(s, row), n) = ToldOf(s, n)
<1> DEFINE t == Append(s, row)
<1>1. /\ t \in Seq(AttemptRow) /\ Len(t) = Len(s) + 1
      /\ \A i \in 1..Len(s) : t[i] = s[i]
      /\ t[Len(s) + 1] = row
  BY AppendProperties
<1>2. DOMAIN t = 1..(Len(s) + 1) /\ DOMAIN s = 1..Len(s) /\ Len(s) \in Nat
  BY <1>1, LenProperties
<1>3. AttemptsSound(t)
  BY <1>1, <1>2 DEF AttemptsSound
<1>4. \A n \in 1..(Len(s) + 1) : ToldOf(t, n) = ToldOf(s, n)
  BY <1>1, <1>2 DEF ToldOf
<1> QED
  BY <1>1, <1>2, <1>3, <1>4

\* The end of an open attempt, which is the last, changes nothing before it.
LEMMA AttemptSettled ==
  ASSUME NEW s \in Seq(AttemptRow), NEW row \in AttemptRow, AttemptsSound(s),
         NEW m \in DOMAIN s, s[m].outcome = "in_flight",
         row.outcome # "in_flight", row.outcome = "accepted" => row.install \in Evidenced
  PROVE  /\ [s EXCEPT ![m] = row] \in Seq(AttemptRow)
         /\ AttemptsSound([s EXCEPT ![m] = row])
         /\ DOMAIN [s EXCEPT ![m] = row] = DOMAIN s
         /\ \A n \in DOMAIN s : ToldOf([s EXCEPT ![m] = row], n) = ToldOf(s, n)
<1> DEFINE t == [s EXCEPT ![m] = row]
<1>1. m \in 1..Len(s) /\ Len(s) \in Nat /\ DOMAIN s = 1..Len(s) /\ m = Len(s)
  BY LenProperties DEF AttemptsSound
<1>2. t \in Seq(AttemptRow) /\ Len(t) = Len(s) /\ DOMAIN t = 1..Len(s)
  BY <1>1, ExceptSeq
<1>3. \A n \in 1..Len(s) : t[n] = IF n = m THEN row ELSE s[n]
  BY <1>1
<1>4. AttemptsSound(t)
  BY <1>1, <1>2, <1>3 DEF AttemptsSound
<1>5. \A n \in DOMAIN s : ToldOf(t, n) = ToldOf(s, n)
  BY <1>1, <1>3 DEF ToldOf
<1> QED
  BY <1>1, <1>2, <1>4, <1>5

\* What is told of the attempts that exist is kept: so are the frames.
FrameKept(s, t) ==
  /\ DOMAIN s \subseteq DOMAIN t
  /\ \A n \in DOMAIN s : ToldOf(t, n) = ToldOf(s, n)

\* An executor that does not move keeps a sound frame.
LEMMA FrameStays ==
  ASSUME NEW e, NEW s, NEW t, NEW P, NEW Q, FrameKept(s, t), FrameSound(e, s, P),
         Holding(e) => e.use \in Q
  PROVE  FrameSound(e, t, Q)
BY DEF FrameKept, FrameSound

-------------------------------------------------------------------------------
(* Families of steps *)

\* An executor moves to the frame v, and no budget changes.
LEMMA ExecutorMoves ==
  ASSUME IInv, NEW c \in Executors, NEW v \in ExecutorFrame,
         executors' = [executors EXCEPT ![c] = v],
         FrameSound(v, budgets[KindOf(c)], inPlace),
         UNCHANGED <<selected, inPlace, budgets>>,
         orphans' \subseteq GroupRow, \A g \in orphans' : GroupSound(g, inPlace),
         c \in Readers /\ v.at \notin {"idle", "waiting"} => rootHolder' = c,
         \A d \in Readers \ {c} : rootHolder = d => rootHolder' = d
  PROVE  IInv'
<1>1. executors' \in [Executors -> ExecutorFrame]
  BY DEF IInv, ExecutionTypeOK
<1>2. \A d \in Executors : executors'[d] = IF d = c THEN v ELSE executors[d]
  BY DEF IInv, ExecutionTypeOK
<1>3. ExecutionTypeOK'
  BY <1>1 DEF IInv, ExecutionTypeOK
<1>4. FramesSound'
  <2> SUFFICES ASSUME NEW d \in Executors
               PROVE  FrameSound(executors'[d], budgets'[KindOf(d)], inPlace')
    BY DEF FramesSound, KindOf
  <2>1. FrameSound(executors'[d], budgets[KindOf(d)], inPlace)
    BY <1>2 DEF IInv, FramesSound
  <2> QED
    BY <2>1
<1>5. OrphansSound' /\ BudgetsSound'
  BY DEF IInv, OrphansSound, BudgetsSound, Kinds
<1>6. RootSound'
  <2> SUFFICES ASSUME NEW d \in Readers, executors'[d].at \notin {"idle", "waiting"}
               PROVE  rootHolder' = d
    BY DEF RootSound
  <2>1. d \in Executors
    BY DEF Executors
  <2> QED
    BY <1>2, <2>1 DEF IInv, RootSound
<1> QED
  BY <1>3, <1>4, <1>5, <1>6 DEF IInv

\* The attempts of a task change and every frame stays sound, but for the one of
\* an executor that moves to v.
LEMMA BudgetMoves ==
  ASSUME IInv, NEW kind \in Kinds, NEW t \in Seq(AttemptRow),
         budgets' = [budgets EXCEPT ![kind] = t],
         AttemptsSound(t), FrameKept(budgets[kind], t),
         executors' \in [Executors -> ExecutorFrame],
         \A d \in Executors :
           \/ executors'[d] = executors[d]
           \/ /\ FrameSound(executors'[d], budgets'[KindOf(d)], inPlace)
              /\ executors[d].at \notin {"idle", "waiting"},
         UNCHANGED <<rootHolder, selected, inPlace, orphans>>
  PROVE  IInv'
<1>1. \A k \in Kinds : budgets'[k] = IF k = kind THEN t ELSE budgets[k]
  BY DEF IInv, ExecutionTypeOK
<1>2. ExecutionTypeOK'
  BY DEF IInv, ExecutionTypeOK
<1>3. FramesSound'
  <2> SUFFICES ASSUME NEW d \in Executors
               PROVE  FrameSound(executors'[d], budgets'[KindOf(d)], inPlace)
    BY DEF FramesSound, KindOf
  <2>1. CASE executors'[d] = executors[d]
    <3>1. KindOf(d) \in Kinds
      BY DEF KindOf, Kinds
    <3>2. FrameKept(budgets[KindOf(d)], budgets'[KindOf(d)])
      BY <1>1, <3>1 DEF FrameKept
    <3>3. FrameSound(executors[d], budgets[KindOf(d)], inPlace)
      BY DEF IInv, FramesSound
    <3>4. Holding(executors[d]) => executors[d].use \in inPlace
      BY <3>3 DEF FrameSound
    <3>5. FrameSound(executors[d], budgets'[KindOf(d)], inPlace)
      BY <3>2, <3>3, <3>4, FrameStays
    <3> QED
      BY <2>1, <3>5
  <2> QED
    BY <2>1
<1>4. OrphansSound'
  BY DEF IInv, OrphansSound
<1>5. BudgetsSound'
  BY <1>1 DEF IInv, BudgetsSound
<1>6. RootSound'
  <2> SUFFICES ASSUME NEW d \in Readers, executors'[d].at \notin {"idle", "waiting"}
               PROVE  rootHolder = d
    BY DEF RootSound
  <2>1. d \in Executors
    BY DEF Executors
  <2> QED
    BY <2>1 DEF IInv, RootSound
<1> QED
  BY <1>2, <1>3, <1>4, <1>5, <1>6 DEF IInv

-------------------------------------------------------------------------------
(* The steps of an executor *)

\* When an executor may go on to another state with nothing else in its frame.
MayGo(e, to) ==
  /\ e.at # "idle" /\ to \notin {"using", "token", "running"}
  /\ to \in {"prepared", "bound", "claimed", "answered"} => e.use \in inPlace
  /\ to \in {"admitted", "prepared"} => e.binding \in Evidenced
  /\ to \in {"bound", "claimed", "answered"} => e.use \in Evidenced
  /\ e.session # "none" => to \in {"answered", "releasing"}
  /\ e.session # "token"
  /\ e.result = "candidate" => to \in {"answered", "releasing"}
  /\ to \in {"claimed", "answered"} => e.ordinal # 0

\* An executor that only goes on to another state keeps what it knows.
LEMMA GoesTo ==
  ASSUME IInv, NEW c \in Executors, NEW to \in States,
         executors' = [executors EXCEPT ![c].at = to],
         MayGo(executors[c], to)
  PROVE  \E v \in ExecutorFrame :
           /\ v.at = to
           /\ executors' = [executors EXCEPT ![c] = v]
           /\ FrameSound(v, budgets[KindOf(c)], inPlace)
<1> DEFINE e == executors[c]
           v == [e EXCEPT !.at = to]
<1>1. e \in ExecutorFrame
  BY DEF IInv, ExecutionTypeOK
<1>2. /\ v \in ExecutorFrame /\ v.at = to /\ v.binding = e.binding /\ v.use = e.use
      /\ v.session = e.session /\ v.dir = e.dir /\ v.ordinal = e.ordinal
      /\ v.told = e.told /\ v.result = e.result
  BY <1>1 DEF ExecutorFrame
<1>3. FrameSound(e, budgets[KindOf(c)], inPlace)
  BY DEF IInv, FramesSound
<1> HIDE DEF v
<1>4. FrameSound(v, budgets[KindOf(c)], inPlace)
  BY <1>2, <1>3 DEF FrameSound, Holding, MayGo
<1>5. executors' = [executors EXCEPT ![c] = v]
  BY DEF v
<1> QED
  BY <1>2, <1>4, <1>5

\* An execution begins.
LEMMA EnterExecutionSound ==
  ASSUME IInv, NEW c \in Executors, EnterExecution(c)
  PROVE  IInv'
<1> DEFINE e == executors[c]
           v == [e EXCEPT !.at = IF c \in Readers THEN "waiting" ELSE "prepare"]
<1>1. e \in ExecutorFrame /\ e.at = "idle"
  BY DEF IInv, ExecutionTypeOK, EnterExecution
<1>2. /\ v \in ExecutorFrame /\ v.at = (IF c \in Readers THEN "waiting" ELSE "prepare")
      /\ v.binding = e.binding /\ v.use = e.use
      /\ v.session = e.session /\ v.dir = e.dir /\ v.ordinal = e.ordinal
      /\ v.told = e.told /\ v.result = e.result
  BY <1>1 DEF ExecutorFrame, States
<1>3. FrameSound(e, budgets[KindOf(c)], inPlace)
  BY DEF IInv, FramesSound
<1>4. executors' = [executors EXCEPT ![c] = v]
  BY DEF EnterExecution, Goes
<1> HIDE DEF v
<1>5. FrameSound(v, budgets[KindOf(c)], inPlace)
  BY <1>1, <1>2, <1>3 DEF FrameSound, Holding
<1> QED
  BY <1>2, <1>4, <1>5, ExecutorMoves
  DEF EnterExecution, IInv, ExecutionTypeOK, OrphansSound

\* The root lock is taken, or refused.
LEMMA TakeRootSound ==
  ASSUME IInv, NEW c \in Executors, TakeRoot(c)
  PROVE  IInv'
<1>1. executors[c].at = "waiting" /\ executors' = [executors EXCEPT ![c].at = "prepare"]
  BY DEF TakeRoot, Goes
<1>2. FrameSound(executors[c], budgets[KindOf(c)], inPlace)
  BY DEF IInv, FramesSound
<1>may. MayGo(executors[c], "prepare") /\ "prepare" \in States
  BY <1>1, <1>2 DEF States, FrameSound, MayGo
<1>3. PICK v \in ExecutorFrame :
        /\ v.at = "prepare"
        /\ executors' = [executors EXCEPT ![c] = v]
        /\ FrameSound(v, budgets[KindOf(c)], inPlace)
  BY <1>1, <1>2, <1>may, GoesTo
<1>4. \A d \in Readers \ {c} : rootHolder # d
  BY NobodyAssumption DEF TakeRoot, Executors
<1> QED
  BY <1>3, <1>4, ExecutorMoves DEF TakeRoot, IInv, ExecutionTypeOK, OrphansSound

\* The attempt is admitted.
LEMMA AdmitSound ==
  ASSUME IInv, NEW c \in Executors, Admit(c)
  PROVE  IInv'
<1> DEFINE e == executors[c]
<1>1. e \in ExecutorFrame /\ e.at = "prepare" /\ FrameSound(e, budgets[KindOf(c)], inPlace)
  BY DEF Admit, IInv, ExecutionTypeOK, FramesSound
<1>2. c \in Readers => rootHolder = c
  BY <1>1 DEF IInv, RootSound
<1>3. CASE selected \in Evidenced
  <2> DEFINE v == [e EXCEPT !.at = "admitted", !.binding = selected]
  <2>1. /\ v \in ExecutorFrame /\ v.at = "admitted" /\ v.binding = selected /\ v.use = e.use
        /\ v.session = e.session /\ v.dir = e.dir /\ v.ordinal = e.ordinal
        /\ v.told = e.told /\ v.result = e.result
    BY <1>1 DEF ExecutorFrame, States, IInv, ExecutionTypeOK, Installs
  <2>2. executors' = [executors EXCEPT ![c] = v]
    BY <1>1, <1>3 DEF Admit, IInv, ExecutionTypeOK
  <2> HIDE DEF v
  <2>3. FrameSound(v, budgets[KindOf(c)], inPlace)
    BY <1>1, <1>3, <2>1 DEF FrameSound, Holding
  <2> QED
    BY <1>2, <2>1, <2>2, <2>3, ExecutorMoves
    DEF Admit, IInv, ExecutionTypeOK, OrphansSound
<1>4. CASE selected \notin Evidenced
  <2>1. executors' = [executors EXCEPT ![c].at = "releasing"]
    BY <1>4 DEF Admit
  <2>may. MayGo(executors[c], "releasing") /\ "releasing" \in States
    BY <1>1, <2>1 DEF States, FrameSound, MayGo
  <2>2. PICK v \in ExecutorFrame :
        /\ v.at = "releasing"
        /\ executors' = [executors EXCEPT ![c] = v]
        /\ FrameSound(v, budgets[KindOf(c)], inPlace)
    BY <1>1, <2>1, <2>may, GoesTo
  <2> QED
    BY <1>2, <2>2, ExecutorMoves DEF Admit, IInv, ExecutionTypeOK, OrphansSound
<1> QED
  BY <1>3, <1>4

\* An executor that gives up leaves with what it has.
LEMMA GivesUp ==
  ASSUME IInv, NEW c \in Executors, executors' = [executors EXCEPT ![c].at = "releasing"],
         executors[c].at \notin {"idle", "waiting", "token"},
         UNCHANGED <<rootHolder, selected, inPlace, budgets, orphans>>
  PROVE  IInv'
<1>1. FrameSound(executors[c], budgets[KindOf(c)], inPlace)
  BY DEF IInv, FramesSound
<1>may. MayGo(executors[c], "releasing") /\ "releasing" \in States
  BY <1>1 DEF States, FrameSound, MayGo
<1>2. PICK v \in ExecutorFrame :
        /\ v.at = "releasing"
        /\ executors' = [executors EXCEPT ![c] = v]
        /\ FrameSound(v, budgets[KindOf(c)], inPlace)
  BY <1>1, <1>may, GoesTo
<1>3. c \in Readers => rootHolder = c
  BY DEF IInv, RootSound
<1> QED
  BY <1>2, <1>3, ExecutorMoves DEF IInv, ExecutionTypeOK, OrphansSound

\* The installation is put to use.
LEMMA UseInstallSound ==
  ASSUME IInv, NEW c \in Executors, UseInstall(c)
  PROVE  IInv'
<1> DEFINE e == executors[c]
<1>1. e \in ExecutorFrame /\ e.at = "admitted" /\ FrameSound(e, budgets[KindOf(c)], inPlace)
  BY DEF UseInstall, IInv, ExecutionTypeOK, FramesSound
<1>2. c \in Readers => rootHolder = c
  BY <1>1 DEF IInv, RootSound
<1>3. ASSUME selected \in inPlace,
             executors' = [executors EXCEPT ![c].at = "using", ![c].use = selected]
      PROVE  IInv'
  <2> DEFINE v == [e EXCEPT !.at = "using", !.use = selected]
  <2>1. /\ v \in ExecutorFrame /\ v.at = "using" /\ v.binding = e.binding /\ v.use = selected
        /\ v.session = e.session /\ v.dir = e.dir /\ v.ordinal = e.ordinal
        /\ v.told = e.told /\ v.result = e.result
    BY <1>1 DEF ExecutorFrame, States, IInv, ExecutionTypeOK, Installs
  <2>2. executors' = [executors EXCEPT ![c] = v]
    BY <1>1, <1>3 DEF IInv, ExecutionTypeOK
  <2> HIDE DEF v
  <2>3. FrameSound(v, budgets[KindOf(c)], inPlace)
    BY <1>1, <1>3, <2>1 DEF FrameSound, Holding
  <2> QED
    BY <1>2, <2>1, <2>2, <2>3, ExecutorMoves
    DEF UseInstall, IInv, ExecutionTypeOK, OrphansSound
<1>4. ASSUME executors' = [executors EXCEPT ![c].at = "releasing"]
      PROVE  IInv'
  BY <1>1, <1>4, GivesUp DEF UseInstall
<1> QED
  BY <1>3, <1>4 DEF UseInstall, Goes

\* The process that fetches the credential starts.
LEMMA StartTokenSound ==
  ASSUME IInv, NEW c \in Executors, StartToken(c)
  PROVE  IInv'
<1> DEFINE e == executors[c]
<1>1. e \in ExecutorFrame /\ e.at = "using" /\ FrameSound(e, budgets[KindOf(c)], inPlace)
  BY DEF StartToken, IInv, ExecutionTypeOK, FramesSound
<1>2. c \in Readers => rootHolder = c
  BY <1>1 DEF IInv, RootSound
<1> DEFINE v == [e EXCEPT !.at = "token", !.session = "token"]
<1>3. /\ v \in ExecutorFrame /\ v.at = "token" /\ v.binding = e.binding /\ v.use = e.use
      /\ v.session = "token" /\ v.dir = e.dir /\ v.ordinal = e.ordinal
      /\ v.told = e.told /\ v.result = e.result
  BY <1>1 DEF ExecutorFrame, States
<1>4. executors' = [executors EXCEPT ![c] = v]
  BY DEF StartToken, IInv, ExecutionTypeOK
<1> HIDE DEF v
<1>5. FrameSound(v, budgets[KindOf(c)], inPlace)
  BY <1>1, <1>3 DEF FrameSound, Holding
<1> QED
  BY <1>2, <1>3, <1>4, <1>5, ExecutorMoves
  DEF StartToken, IInv, ExecutionTypeOK, OrphansSound

\* The process that fetches the credential ends.
LEMMA TokenEndsSound ==
  ASSUME IInv, NEW c \in Executors, TokenEnds(c)
  PROVE  IInv'
<1> DEFINE e == executors[c]
<1>1. e \in ExecutorFrame /\ e.at = "token" /\ FrameSound(e, budgets[KindOf(c)], inPlace)
  BY DEF TokenEnds, IInv, ExecutionTypeOK, FramesSound
<1>2. c \in Readers => rootHolder = c
  BY <1>1 DEF IInv, RootSound
<1>3. PICK to \in {"prepared", "releasing"} :
        executors' = [executors EXCEPT ![c].at = to, ![c].session = "none"]
  BY DEF TokenEnds
<1> DEFINE v == [e EXCEPT !.at = to, !.session = "none"]
<1>4. /\ v \in ExecutorFrame /\ v.at = to /\ v.binding = e.binding /\ v.use = e.use
      /\ v.session = "none" /\ v.dir = e.dir /\ v.ordinal = e.ordinal
      /\ v.told = e.told /\ v.result = e.result
  BY <1>1 DEF ExecutorFrame, States
<1>5. executors' = [executors EXCEPT ![c] = v]
  BY <1>3 DEF IInv, ExecutionTypeOK
<1> HIDE DEF v
<1>6. FrameSound(v, budgets[KindOf(c)], inPlace)
  BY <1>1, <1>4 DEF FrameSound, Holding
<1>7. /\ Group("token", e.use) \in GroupRow
      /\ GroupSound(Group("token", e.use), inPlace)
  BY <1>1 DEF Group, GroupRow, GroupSound, FrameSound, Holding, ExecutorFrame
<1>8. orphans' \subseteq orphans \cup {Group("token", e.use)}
  BY DEF TokenEnds
<1> QED
  BY <1>2, <1>4, <1>5, <1>6, <1>7, <1>8, ExecutorMoves
  DEF TokenEnds, IInv, ExecutionTypeOK, OrphansSound

\* The installation is compared with the selected one again.
LEMMA CheckBindingSound ==
  ASSUME IInv, NEW c \in Executors, CheckBinding(c)
  PROVE  IInv'
<1> DEFINE e == executors[c]
<1>1. e.at = "prepared" /\ FrameSound(e, budgets[KindOf(c)], inPlace)
  BY DEF CheckBinding, IInv, FramesSound
<1>2. c \in Readers => rootHolder = c
  BY <1>1 DEF IInv, RootSound
<1>3. CASE e.use = e.binding
  <2>1. executors' = [executors EXCEPT ![c].at = "bound"]
    BY <1>3 DEF CheckBinding, Goes
  <2>may. MayGo(executors[c], "bound") /\ "bound" \in States
    BY <1>1, <1>3, <2>1 DEF States, FrameSound, Holding, MayGo
  <2>2. PICK v \in ExecutorFrame :
        /\ v.at = "bound"
        /\ executors' = [executors EXCEPT ![c] = v]
        /\ FrameSound(v, budgets[KindOf(c)], inPlace)
    BY <1>1, <1>3, <2>1, <2>may, GoesTo
  <2> QED
    BY <1>2, <2>2, ExecutorMoves DEF CheckBinding, IInv, ExecutionTypeOK, OrphansSound
<1>4. CASE e.use # e.binding
  BY <1>1, <1>4, GivesUp DEF CheckBinding, Goes
<1> QED
  BY <1>3, <1>4

\* The attempt is claimed from the budget.
LEMMA ClaimSound ==
  ASSUME IInv, NEW c \in Executors, Claim(c)
  PROVE  IInv'
<1> DEFINE e == executors[c]
           kind == KindOf(c)
           s == budgets[kind]
<1>1. /\ e \in ExecutorFrame /\ e.at = "bound" /\ FrameSound(e, s, inPlace)
      /\ UNCHANGED <<rootHolder, selected, inPlace, orphans>>
  BY DEF Claim, IInv, ExecutionTypeOK, FramesSound
<1>2. kind \in Kinds /\ s \in Seq(AttemptRow) /\ AttemptsSound(s)
  BY DEF KindOf, Kinds, IInv, ExecutionTypeOK, BudgetsSound
<1>3. ASSUME executors' = [executors EXCEPT ![c].at = "releasing"], UNCHANGED budgets
      PROVE  IInv'
  BY <1>1, <1>3, GivesUp
<1>4. ASSUME Claimable(s),
             budgets' = [budgets EXCEPT ![kind] =
                           Append(s, [outcome |-> "in_flight", install |-> "none"])],
             executors' = [executors EXCEPT ![c].at = "claimed",
                             ![c].ordinal = Len(s) + 1, ![c].told = FollowsRejection(s)]
      PROVE  IInv'
  <2> DEFINE row == [outcome |-> "in_flight", install |-> "none"]
             t == Append(s, row)
             n == Len(s) + 1
             b == FollowsRejection(s)
             v == [e EXCEPT !.at = "claimed", !.ordinal = n, !.told = b]
  <2>1. row \in AttemptRow /\ row.outcome # "accepted"
    BY DEF AttemptRow, Installs
  <2>2. \A i \in DOMAIN s : s[i].outcome # "in_flight"
    BY <1>4 DEF Claimable
  <2> HIDE DEF row
  <2>3. /\ t \in Seq(AttemptRow) /\ AttemptsSound(t) /\ DOMAIN s \subseteq DOMAIN t
        /\ Len(s) + 1 \in DOMAIN t
        /\ \A i \in 1..(Len(s) + 1) : ToldOf(t, i) = ToldOf(s, i)
    BY <1>2, <2>1, <2>2, AttemptAppended
  <2>4. Len(s) \in Nat /\ DOMAIN s = 1..Len(s)
    BY <1>2, LenProperties
  <2>5. FollowsRejection(s) = ToldOf(t, Len(s) + 1) /\ FollowsRejection(s) \in BOOLEAN
    <3>1. SubSeq(s, 1, Len(s)) = s
      BY <1>2, SubSeqProperties, SeqEqual
    <3>2. FollowsRejection(SubSeq(s, 1, (Len(s) + 1) - 1)) = ToldOf(s, Len(s) + 1)
      BY <1>2, <2>4, FollowsIsTold
    <3>3. (Len(s) + 1) - 1 = Len(s)
      BY <2>4
    <3>4. FollowsRejection(s) = ToldOf(s, Len(s) + 1)
      BY <3>1, <3>2, <3>3, Zenon
    <3> QED
      BY <2>3, <2>4, <3>4 DEF FollowsRejection
  <2>6. /\ v \in ExecutorFrame /\ v.at = "claimed" /\ v.binding = e.binding /\ v.use = e.use
        /\ v.session = e.session /\ v.dir = e.dir /\ v.ordinal = n
        /\ v.told = b /\ v.result = e.result
    <3>1. e \in ExecutorFrame /\ n \in Nat /\ b \in BOOLEAN
      BY <1>1, <2>4, <2>5
    <3> HIDE DEF e, n, b
    <3> QED
      BY <3>1 DEF ExecutorFrame, States
  <2>7. executors' = [executors EXCEPT ![c] = v]
    BY <1>4 DEF IInv, ExecutionTypeOK
  <2>8. FrameKept(s, t)
    BY <2>3, <2>4 DEF FrameKept
  <2> HIDE DEF v, t
  <2>9. FrameSound(v, t, inPlace)
    BY <1>1, <2>3, <2>4, <2>5, <2>6 DEF FrameSound, Holding
  <2>10. budgets'[kind] = t
    BY <1>2, <1>4 DEF IInv, ExecutionTypeOK, t, row
  <2>11. budgets' = [budgets EXCEPT ![kind] = t]
    BY <1>4 DEF t, row
  <2>12. executors' \in [Executors -> ExecutorFrame]
    BY <2>6, <2>7 DEF IInv, ExecutionTypeOK
  <2>13. \A d \in Executors :
           \/ executors'[d] = executors[d]
           \/ /\ FrameSound(executors'[d], budgets'[KindOf(d)], inPlace)
              /\ executors[d].at \notin {"idle", "waiting"}
    BY <1>1, <2>7, <2>9, <2>10 DEF IInv, ExecutionTypeOK
  <2> QED
    BY <1>1, <1>2, <2>3, <2>8, <2>11, <2>12, <2>13, BudgetMoves
<1> QED
  BY <1>3, <1>4 DEF Claim, Goes

\* Pi is launched.
LEMMA LaunchSound ==
  ASSUME IInv, NEW c \in Executors, Launch(c)
  PROVE  IInv'
<1> DEFINE e == executors[c]
<1>1. /\ e \in ExecutorFrame /\ e.at = "claimed" /\ FrameSound(e, budgets[KindOf(c)], inPlace)
      /\ UNCHANGED <<rootHolder, selected, inPlace, budgets, orphans>>
  BY DEF Launch, IInv, ExecutionTypeOK, FramesSound
<1>2. c \in Readers => rootHolder = c
  BY <1>1 DEF IInv, RootSound
<1>3. ASSUME executors' = [executors EXCEPT ![c].at = "running", ![c].session = "session",
                                            ![c].dir = TRUE]
      PROVE  IInv'
  <2> DEFINE v == [e EXCEPT !.at = "running", !.session = "session", !.dir = TRUE]
  <2>1. /\ v \in ExecutorFrame /\ v.at = "running" /\ v.binding = e.binding /\ v.use = e.use
        /\ v.session = "session" /\ v.dir = TRUE /\ v.ordinal = e.ordinal
        /\ v.told = e.told /\ v.result = e.result
    BY <1>1 DEF ExecutorFrame, States
  <2>2. executors' = [executors EXCEPT ![c] = v]
    BY <1>3 DEF IInv, ExecutionTypeOK
  <2> HIDE DEF v
  <2>3. FrameSound(v, budgets[KindOf(c)], inPlace)
    BY <1>1, <2>1 DEF FrameSound, Holding
  <2> QED
    BY <1>1, <1>2, <2>1, <2>2, <2>3, ExecutorMoves DEF IInv, ExecutionTypeOK, OrphansSound
<1>4. ASSUME executors' = [executors EXCEPT ![c].at = "answered", ![c].result = "failed"]
      PROVE  IInv'
  <2> DEFINE v == [e EXCEPT !.at = "answered", !.result = "failed"]
  <2>1. /\ v \in ExecutorFrame /\ v.at = "answered" /\ v.binding = e.binding /\ v.use = e.use
        /\ v.session = e.session /\ v.dir = e.dir /\ v.ordinal = e.ordinal
        /\ v.told = e.told /\ v.result = "failed"
    BY <1>1 DEF ExecutorFrame, States
  <2>2. executors' = [executors EXCEPT ![c] = v]
    BY <1>4 DEF IInv, ExecutionTypeOK
  <2> HIDE DEF v
  <2>3. FrameSound(v, budgets[KindOf(c)], inPlace)
    BY <1>1, <2>1 DEF FrameSound, Holding
  <2> QED
    BY <1>1, <1>2, <2>1, <2>2, <2>3, ExecutorMoves DEF IInv, ExecutionTypeOK, OrphansSound
<1> QED
  BY <1>3, <1>4 DEF Launch

\* A call leaves its frame in one of four shapes; what they share.
LEMMA AnswerSound ==
  ASSUME IInv, NEW c \in Executors, executors[c].at = "running",
         NEW v \in ExecutorFrame, executors' = [executors EXCEPT ![c] = v],
         v.at \in {"answered", "releasing"},
         v.use = executors[c].use, v.ordinal = executors[c].ordinal,
         v.told = executors[c].told,
         \/ v.session = "none"
         \/ v.session = executors[c].session /\ v.dir = executors[c].dir,
         v.result = "candidate" => v.session = "none" /\ ~v.dir,
         UNCHANGED <<rootHolder, selected, inPlace, budgets, orphans>>
  PROVE  IInv'
<1>1. FrameSound(executors[c], budgets[KindOf(c)], inPlace)
  BY DEF IInv, FramesSound
<1>2. FrameSound(v, budgets[KindOf(c)], inPlace)
  BY <1>1 DEF FrameSound, Holding
<1>3. c \in Readers => rootHolder = c
  BY DEF IInv, RootSound
<1> QED
  BY <1>2, <1>3, ExecutorMoves DEF IInv, ExecutionTypeOK, OrphansSound

\* The call of Pi ends.
LEMMA CallEndsSound ==
  ASSUME IInv, NEW c \in Executors, CallEnds(c)
  PROVE  IInv'
<1> DEFINE e == executors[c]
<1>1. /\ e \in ExecutorFrame /\ e.at = "running"
      /\ UNCHANGED <<rootHolder, selected, inPlace, budgets, orphans>>
  BY DEF CallEnds, IInv, ExecutionTypeOK
<1>2. executors \in [Executors -> ExecutorFrame]
  BY DEF IInv, ExecutionTypeOK
<1>3. ASSUME NEW result \in {"candidate", "failed"},
             executors' = [executors EXCEPT ![c].at = "answered", ![c].result = result,
                                            ![c].session = "none", ![c].dir = FALSE]
      PROVE  IInv'
  <2> DEFINE v == [e EXCEPT !.at = "answered", !.result = result,
                            !.session = "none", !.dir = FALSE]
  <2>1. /\ v \in ExecutorFrame /\ v.at = "answered" /\ v.use = e.use /\ v.session = "none"
        /\ ~v.dir /\ v.ordinal = e.ordinal /\ v.told = e.told
    BY <1>1 DEF ExecutorFrame, States
  <2>2. executors' = [executors EXCEPT ![c] = v]
    BY <1>2, <1>3
  <2> HIDE DEF v
  <2> QED
    BY <1>1, <2>1, <2>2, AnswerSound
<1>4. ASSUME executors' = [executors EXCEPT ![c].at = "answered", ![c].result = "failed",
                                            ![c].session = "none"]
      PROVE  IInv'
  <2> DEFINE v == [e EXCEPT !.at = "answered", !.result = "failed", !.session = "none"]
  <2>1. /\ v \in ExecutorFrame /\ v.at = "answered" /\ v.use = e.use /\ v.session = "none"
        /\ v.result = "failed" /\ v.ordinal = e.ordinal /\ v.told = e.told
    BY <1>1 DEF ExecutorFrame, States
  <2>2. executors' = [executors EXCEPT ![c] = v]
    BY <1>2, <1>4
  <2> HIDE DEF v
  <2> QED
    BY <1>1, <2>1, <2>2, AnswerSound
<1>5. ASSUME executors' = [executors EXCEPT ![c].at = "answered", ![c].result = "failed"]
      PROVE  IInv'
  <2> DEFINE v == [e EXCEPT !.at = "answered", !.result = "failed"]
  <2>1. /\ v \in ExecutorFrame /\ v.at = "answered" /\ v.use = e.use /\ v.session = e.session
        /\ v.dir = e.dir /\ v.result = "failed" /\ v.ordinal = e.ordinal /\ v.told = e.told
    BY <1>1 DEF ExecutorFrame, States
  <2>2. executors' = [executors EXCEPT ![c] = v]
    BY <1>2, <1>5
  <2> HIDE DEF v
  <2> QED
    BY <1>1, <2>1, <2>2, AnswerSound
<1>6. ASSUME executors' = [executors EXCEPT ![c].at = "releasing", ![c].session = "none",
                                            ![c].dir = FALSE]
      PROVE  IInv'
  <2> DEFINE v == [e EXCEPT !.at = "releasing", !.session = "none", !.dir = FALSE]
  <2>1. /\ v \in ExecutorFrame /\ v.at = "releasing" /\ v.use = e.use /\ v.session = "none"
        /\ ~v.dir /\ v.ordinal = e.ordinal /\ v.told = e.told
    BY <1>1 DEF ExecutorFrame, States
  <2>2. executors' = [executors EXCEPT ![c] = v]
    BY <1>2, <1>6
  <2> HIDE DEF v
  <2> QED
    BY <1>1, <2>1, <2>2, AnswerSound
<1> QED
  BY <1>3, <1>4, <1>5, <1>6 DEF CallEnds

\* The end of the open attempt of a task, by its holder or by anyone else.
LEMMA SettlementSound ==
  ASSUME IInv, NEW kind \in Kinds, NEW m \in DOMAIN budgets[kind], NEW row \in AttemptRow,
         budgets[kind][m].outcome = "in_flight", row.outcome # "in_flight",
         row.outcome = "accepted" => row.install \in Evidenced,
         budgets' = [budgets EXCEPT ![kind][m] = row],
         executors' \in [Executors -> ExecutorFrame],
         \A d \in Executors :
           \/ executors'[d] = executors[d]
           \/ /\ FrameSound(executors'[d], budgets[KindOf(d)], inPlace)
              /\ executors[d].at \notin {"idle", "waiting"},
         UNCHANGED <<rootHolder, selected, inPlace, orphans>>
  PROVE  IInv'
<1> DEFINE s == budgets[kind]
           t == [s EXCEPT ![m] = row]
<1>1. s \in Seq(AttemptRow) /\ AttemptsSound(s)
  BY DEF IInv, ExecutionTypeOK, BudgetsSound
<1>2. /\ t \in Seq(AttemptRow) /\ AttemptsSound(t) /\ DOMAIN t = DOMAIN s
      /\ \A n \in DOMAIN s : ToldOf(t, n) = ToldOf(s, n)
  BY <1>1, AttemptSettled
<1>3. FrameKept(s, t)
  BY <1>2 DEF FrameKept
<1>4. budgets' = [budgets EXCEPT ![kind] = t]
  OBVIOUS
<1> HIDE DEF t
<1>5. \A k \in Kinds : FrameKept(budgets[k], budgets'[k])
  BY <1>3, <1>4 DEF IInv, ExecutionTypeOK, FrameKept
<1>6. \A d \in Executors :
        FrameSound(executors'[d], budgets[KindOf(d)], inPlace)
          => FrameSound(executors'[d], budgets'[KindOf(d)], inPlace)
  <2> SUFFICES ASSUME NEW d \in Executors,
                      FrameSound(executors'[d], budgets[KindOf(d)], inPlace)
               PROVE  FrameSound(executors'[d], budgets'[KindOf(d)], inPlace)
    OBVIOUS
  <2>1. KindOf(d) \in Kinds
    BY DEF KindOf, Kinds
  <2>2. Holding(executors'[d]) => executors'[d].use \in inPlace
    BY DEF FrameSound
  <2> QED
    BY <1>5, <2>1, <2>2, FrameStays
<1> QED
  BY <1>2, <1>3, <1>4, <1>6, BudgetMoves

\* The attempt is settled.
LEMMA SettleCallSound ==
  ASSUME IInv, NEW c \in Executors, SettleCall(c)
  PROVE  IInv'
<1> DEFINE e == executors[c]
           kind == KindOf(c)
           m == e.ordinal
<1>1. /\ e \in ExecutorFrame /\ e.at = "answered" /\ FrameSound(e, budgets[kind], inPlace)
      /\ executors' = [executors EXCEPT ![c].at = "releasing"]
      /\ UNCHANGED <<rootHolder, selected, inPlace, orphans>>
  BY DEF SettleCall, Goes, IInv, ExecutionTypeOK, FramesSound
<1>2. CASE UNCHANGED budgets
  BY <1>1, <1>2, GivesUp
<1>3. ASSUME NEW row \in AttemptRow, budgets[kind][m].outcome = "in_flight",
             row.outcome # "in_flight", row.outcome = "accepted" => row.install \in Evidenced,
             budgets' = [budgets EXCEPT ![kind][m] = row]
      PROVE  IInv'
  <2>1. MayGo(executors[c], "releasing") /\ "releasing" \in States
    BY <1>1 DEF States, FrameSound, MayGo
  <2>2. PICK v \in ExecutorFrame :
          /\ v.at = "releasing"
          /\ executors' = [executors EXCEPT ![c] = v]
          /\ FrameSound(v, budgets[KindOf(c)], inPlace)
    BY <1>1, <2>1, GoesTo
  <2>3. executors' \in [Executors -> ExecutorFrame]
    BY <2>2 DEF IInv, ExecutionTypeOK
  <2>4. \A d \in Executors :
           \/ executors'[d] = executors[d]
           \/ /\ FrameSound(executors'[d], budgets[KindOf(d)], inPlace)
              /\ executors[d].at \notin {"idle", "waiting"}
    BY <1>1, <2>2 DEF IInv, ExecutionTypeOK
  <2>5. kind \in Kinds
    BY DEF KindOf, Kinds
  <2>6. m \in DOMAIN budgets[kind]
    BY <1>1 DEF FrameSound
  <2> QED
    BY <1>1, <1>3, <2>3, <2>4, <2>5, <2>6, SettlementSound
<1>4. e.use \in Evidenced /\ e.use \in Installs
  BY <1>1 DEF FrameSound, ExecutorFrame
<1>5. CASE ~UNCHANGED budgets
  <2>1. budgets[kind][m].outcome = "in_flight"
    BY <1>5 DEF SettleCall
  <2>2. PICK outcome \in {"accepted", "failed", "rejected"}, install \in Installs :
          /\ budgets' = [budgets EXCEPT ![kind][m] =
                           [outcome |-> outcome, install |-> install]]
          /\ outcome = "accepted" => install \in Evidenced
    BY <1>4, <1>5 DEF SettleCall, Installs
  <2> DEFINE row == [outcome |-> outcome, install |-> install]
  <2>3. row \in AttemptRow /\ row.outcome = outcome /\ row.install = install
    BY DEF AttemptRow
  <2>4. budgets' = [budgets EXCEPT ![kind][m] = row]
    BY <2>2
  <2> HIDE DEF row
  <2> QED
    BY <1>3, <2>1, <2>2, <2>3, <2>4
<1> QED
  BY <1>2, <1>5

\* The end of an executor, by itself or by a kill: what it leaves runs on where
\* it was started, and its root is free.
LEMMA LeavesSound ==
  ASSUME IInv, NEW c \in Executors,
         executors' = [executors EXCEPT ![c] = AtRestNow],
         orphans' = IF executors[c].session = "none" THEN orphans
                    ELSE orphans \cup {Group(executors[c].session, executors[c].use)},
         rootHolder' = IF rootHolder = c THEN NoExecutor ELSE rootHolder,
         UNCHANGED <<selected, inPlace, budgets>>
  PROVE  IInv'
<1>1. /\ executors[c] \in ExecutorFrame
      /\ FrameSound(executors[c], budgets[KindOf(c)], inPlace)
  BY DEF IInv, ExecutionTypeOK, FramesSound
<1>2. AtRestNow \in ExecutorFrame
  BY DEF AtRestNow, ExecutorFrame, States, Installs
<1>3. FrameSound(AtRestNow, budgets[KindOf(c)], inPlace)
  BY DEF AtRestNow, FrameSound, Holding
<1>4. ASSUME executors[c].session # "none"
      PROVE  LET g == Group(executors[c].session, executors[c].use) IN
               g \in GroupRow /\ GroupSound(g, inPlace)
  BY <1>1, <1>4 DEF Group, GroupRow, GroupSound, FrameSound, Holding, ExecutorFrame
<1>5. orphans' \subseteq GroupRow /\ \A g \in orphans' : GroupSound(g, inPlace)
  BY <1>4 DEF IInv, ExecutionTypeOK, OrphansSound
<1>6. \A d \in Readers \ {c} : rootHolder = d => rootHolder' = d
  OBVIOUS
<1>7. AtRestNow.at = "idle"
  BY DEF AtRestNow
<1> QED
  BY <1>2, <1>3, <1>5, <1>6, <1>7, ExecutorMoves

-------------------------------------------------------------------------------
(* The steps of others *)

\* A Pi left behind ends.
LEMMA OrphanEndsSound ==
  ASSUME IInv, NEW g, OrphanEnds(g)
  PROVE  IInv'
BY DEF OrphanEnds, IInv, ExecutionTypeOK, FramesSound, OrphansSound, BudgetsSound, RootSound,
       KindOf

\* An attempt whose lease is over is settled by anyone.
LEMMA ReclaimAttemptSound ==
  ASSUME IInv, NEW kind \in Kinds, ReclaimAttempt(kind)
  PROVE  IInv'
<1> DEFINE s == budgets[kind]
           row == [outcome |-> "unknown", install |-> "none"]
<1>1. s \in Seq(AttemptRow) /\ s # <<>> /\ Last(s).outcome = "in_flight"
  BY DEF ReclaimAttempt, IInv, ExecutionTypeOK
<1>2. Len(s) \in DOMAIN s /\ s[Len(s)].outcome = "in_flight"
  BY <1>1, LenProperties, EmptySeq DEF Last
<1>3. row \in AttemptRow /\ row.outcome = "unknown"
  BY DEF AttemptRow, Installs
<1>4. executors' \in [Executors -> ExecutorFrame] /\ \A d \in Executors : executors'[d] = executors[d]
  BY DEF ReclaimAttempt, IInv, ExecutionTypeOK
<1>5. budgets' = [budgets EXCEPT ![kind][Len(s)] = row]
  BY DEF ReclaimAttempt
<1>6. UNCHANGED <<rootHolder, selected, inPlace, orphans>>
  BY DEF ReclaimAttempt
<1> HIDE DEF row
<1> QED
  BY <1>2, <1>3, <1>4, <1>5, <1>6, SettlementSound

\* Another installation becomes the active one.
LEMMA ActivateSound ==
  ASSUME IInv, NEW i \in ExecutionInstalls, Activate(i)
  PROVE  IInv'
BY DEF Activate, IInv, ExecutionTypeOK, FramesSound, OrphansSound, BudgetsSound, RootSound,
       KindOf

\* What anyone holds, or runs in, is not retired.
LEMMA RetireInstallSound ==
  ASSUME IInv, NEW i \in ExecutionInstalls, RetireInstall(i)
  PROVE  IInv'
<1>1. ExecutionTypeOK'
  BY DEF RetireInstall, IInv, ExecutionTypeOK
<1>2. FramesSound'
  <2> SUFFICES ASSUME NEW c \in Executors
               PROVE  FrameSound(executors[c], budgets[KindOf(c)], inPlace')
    BY DEF FramesSound, KindOf, RetireInstall
  <2>1. FrameSound(executors[c], budgets[KindOf(c)], inPlace)
    BY DEF IInv, FramesSound
  <2>2. Holding(executors[c]) => executors[c].use \in inPlace'
    BY <2>1 DEF FrameSound, RetireInstall, InUse
  <2>3. FrameKept(budgets[KindOf(c)], budgets[KindOf(c)])
    BY DEF FrameKept
  <2> QED
    BY <2>1, <2>2, <2>3, FrameStays
<1>3. OrphansSound'
  BY DEF RetireInstall, InUse, IInv, OrphansSound, GroupSound
<1>4. BudgetsSound' /\ RootSound'
  BY DEF RetireInstall, IInv, BudgetsSound, RootSound
<1> QED
  BY <1>1, <1>2, <1>3, <1>4 DEF IInv

-------------------------------------------------------------------------------
(* Theorems *)

\* The invariant holds at the start.
LEMMA InitInv == ExecutionInit => IInv
<1> SUFFICES ASSUME ExecutionInit
             PROVE  IInv
  OBVIOUS
<1>1. \A c \in Executors : executors[c] = AtRestNow
  BY DEF ExecutionInit
<1>2. AtRestNow \in ExecutorFrame
  BY DEF AtRestNow, ExecutorFrame, States, Installs
<1>3. ExecutionTypeOK
  <2>1. budgets \in [Kinds -> Seq(AttemptRow)]
    <3>1. <<>> \in Seq(AttemptRow)
      BY EmptySeq
    <3> QED
      BY <3>1 DEF ExecutionInit, Kinds
  <2> QED
    BY <1>2, <2>1 DEF ExecutionInit, ExecutionTypeOK
<1>4. FramesSound
  BY <1>1 DEF FramesSound, FrameSound, Holding, AtRestNow
<1>5. OrphansSound
  BY DEF ExecutionInit, OrphansSound
<1>6. BudgetsSound
  BY DEF ExecutionInit, BudgetsSound, AttemptsSound, Kinds
<1>7. RootSound
  BY <1>1 DEF RootSound, AtRestNow, Executors
<1> QED
  BY <1>3, <1>4, <1>5, <1>6, <1>7 DEF IInv

\* Every step keeps it.
LEMMA StepInv == IInv /\ [ExecutionNext]_executionVars => IInv'
<1> SUFFICES ASSUME IInv, [ExecutionNext]_executionVars
             PROVE  IInv'
  OBVIOUS
<1>1. CASE UNCHANGED executionVars
  BY <1>1 DEF executionVars, IInv, ExecutionTypeOK, FramesSound, OrphansSound, BudgetsSound,
              RootSound, KindOf
<1>2. ASSUME NEW c \in Executors,
             \/ EnterExecution(c) \/ TakeRoot(c) \/ Admit(c) \/ UseInstall(c)
             \/ StartToken(c) \/ TokenEnds(c) \/ CheckBinding(c) \/ Claim(c) \/ Launch(c)
             \/ CallEnds(c) \/ SettleCall(c)
      PROVE  IInv'
  BY <1>2, EnterExecutionSound, TakeRootSound, AdmitSound, UseInstallSound, StartTokenSound,
     TokenEndsSound, CheckBindingSound, ClaimSound, LaunchSound, CallEndsSound, SettleCallSound
<1>3. ASSUME NEW c \in Executors, LetGo(c) \/ KillExecutor(c)
      PROVE  IInv'
  BY <1>3, LeavesSound DEF LetGo, KillExecutor
<1>4. ASSUME NEW g \in orphans, OrphanEnds(g)
      PROVE  IInv'
  BY <1>4, OrphanEndsSound
<1>5. ASSUME NEW kind \in Kinds, ReclaimAttempt(kind)
      PROVE  IInv'
  BY <1>5, ReclaimAttemptSound
<1>6. ASSUME NEW i \in ExecutionInstalls, Activate(i) \/ RetireInstall(i)
      PROVE  IInv'
  BY <1>6, ActivateSound, RetireInstallSound
<1> QED
  BY <1>1, <1>2, <1>3, <1>4, <1>5, <1>6 DEF ExecutionNext, Kinds

\* The invariant gives what an execution promises.
LEMMA SoundFromInv == IInv => ExecutionIsSound
<1> SUFFICES ASSUME IInv
             PROVE  ExecutionIsSound
  OBVIOUS
<1>1. \A c \in Executors :
        /\ executors[c] \in ExecutorFrame
        /\ FrameSound(executors[c], budgets[KindOf(c)], inPlace)
  BY DEF IInv, ExecutionTypeOK, FramesSound
<1>2. ASSUME NEW g \in Attended \cup orphans
      PROVE  g.install \in inPlace /\ (g.kind = "session" => g.install \in Evidenced)
  <2>1. CASE g \in orphans
    BY <2>1 DEF IInv, OrphansSound, GroupSound
  <2>2. ASSUME NEW c \in Executors, executors[c].session # "none",
               g = Group(executors[c].session, executors[c].use)
        PROVE  g.install \in inPlace /\ (g.kind = "session" => g.install \in Evidenced)
    BY <1>1, <2>2 DEF Group, FrameSound, Holding
  <2> QED
    BY <2>1, <2>2 DEF Attended
<1>3. ASSUME NEW c \in Readers, NEW d \in Readers,
             {executors[c].at, executors[d].at} \cap {"idle", "waiting"} = {}
      PROVE  c = d
  <2>1. /\ executors[c].at \notin {"idle", "waiting"}
        /\ executors[d].at \notin {"idle", "waiting"}
    BY <1>3
  <2> QED
    BY <2>1 DEF IInv, RootSound
<1>4. ASSUME NEW c \in Executors
      PROVE  /\ executors[c].result = "candidate" =>
                  executors[c].session = "none" /\ ~executors[c].dir
             /\ executors[c].session = "session" => executors[c].dir
             /\ executors[c].ordinal # 0 =>
                  executors[c].told =
                    FollowsRejection(SubSeq(budgets[KindOf(c)], 1, executors[c].ordinal - 1))
  <2> DEFINE s == budgets[KindOf(c)]
             n == executors[c].ordinal
  <2>1. s \in Seq(AttemptRow)
    BY DEF KindOf, Kinds, IInv, ExecutionTypeOK
  <2>2. ASSUME n # 0
        PROVE  executors[c].told = FollowsRejection(SubSeq(s, 1, n - 1))
    <3>1. n \in DOMAIN s /\ executors[c].told = ToldOf(s, n)
      BY <1>1, <2>2 DEF FrameSound
    <3>2. n \in 1..(Len(s) + 1)
      BY <2>1, <3>1, LenProperties
    <3> QED
      BY <2>1, <3>1, <3>2, FollowsIsTold
  <2> QED
    BY <1>1, <2>2 DEF FrameSound
<1>5. ASSUME NEW kind \in DOMAIN budgets, NEW n \in DOMAIN budgets[kind],
             budgets[kind][n].outcome = "accepted"
      PROVE  budgets[kind][n].install \in Evidenced
  BY <1>5 DEF IInv, ExecutionTypeOK, BudgetsSound, AttemptsSound
<1> QED
  BY <1>2, <1>3, <1>4, <1>5 DEF ExecutionIsSound

\* Every reachable state meets the invariant.
THEOREM ExecutionInvariant == ExecutionSpec => []IInv
BY InitInv, StepInv, PTL DEF ExecutionSpec

\* The frames, budgets and groups keep their types.
THEOREM ExecutionTypeCorrect == ExecutionSpec => []ExecutionTypeOK
<1>1. IInv => ExecutionTypeOK
  BY DEF IInv
<1> QED
  BY <1>1, ExecutionInvariant, PTL

\* Whatever is activated, retired, reclaimed or killed in between: every process of
\* Pi runs in an installation in place, a session and an accepted answer under an
\* admitted one, one reading at a time, told of the attempt before it.
THEOREM ExecutionsAreSound == ExecutionSpec => []ExecutionIsSound
BY SoundFromInv, ExecutionInvariant, PTL
================================================================================
