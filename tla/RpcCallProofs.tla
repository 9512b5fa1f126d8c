---------------------------- MODULE RpcCallProofs ----------------------------
(***************************************************************************)
(* Proofs about one call of Pi, for any number of commands, any length of  *)
(* the prompt, any capacity of the pipes and any number of notifications.  *)
(*                                                                         *)
(* A candidate is clean, and nobody waits for ever, because nothing gets   *)
(* lost between the two ends: what Pi has said is still on its way or has  *)
(* been acted upon, and what it was sent, it has read or is about to read. *)
(***************************************************************************)
EXTENDS RpcCall, SequenceTheorems, TLAPS

-------------------------------------------------------------------------------
(* Types *)

Live == {"start", "before", "send", "read", "run", "closing"}
Handshake == {"clear_queue", "abort"}
Ending == {"cleanup", "waiting", "returned"}
Phases == Live \cup Handshake \cup Ending
Reasons == {"none", "candidate", "cancelled", "timeout", "protocol", "environment", "interrupted"}
Exits == {"none", "ok", "error"}
Members == {"leader", "child"}
Said == {Level, Update, Junk} \cup {Event(n) : n \in 1..4} \cup {Reply(k) : k \in 1..(Prompt + 2)}
PartRow == [frame : 1..(Prompt + 2), last : BOOLEAN]

CallFrame ==
  [at : Phases, command : 0..Prompt, pending : Nat, writePending : BOOLEAN,
   awaiting : 0..Prompt, records : Seq(Said), tail : BOOLEAN, eof : BOOLEAN, exit : Exits,
   position : 0..4, settled : BOOLEAN, result : Reasons]
PipesState == [stdin : Seq(PartRow), stdout : Seq(Said \cup {Opening}), open : BOOLEAN]
PiState ==
  [group : SUBSET Members, doomed : SUBSET Members, exit : Exits, got : Seq(1..(Prompt + 2)),
   partial : 0..(Prompt + 2), torn : BOOLEAN, due : Seq(Said \cup {Opening}), ack : BOOLEAN,
   events : 0..5, notices : Nat, silent : BOOLEAN, odd : BOOLEAN]

RpcTypeOK ==
  /\ call \in CallFrame
  /\ pipes \in PipesState
  /\ pi \in PiState
  /\ expired \subseteq Limits \cup {"cancelled"}

-------------------------------------------------------------------------------
(* The phases of a call *)

PhaseSound(c) ==
  /\ c.at \in Live => c.result = "none"
  /\ c.at \in Handshake => c.result = "cancelled"
  /\ c.at = "start" => c.command = 0
  /\ c.at \in {"start", "before"} => c.command <= InitCommands /\ c.awaiting = 0
  /\ c.at \in {"send", "read"} => c.awaiting = c.command /\ c.command >= 1
  /\ c.at = "read" => c.command <= InitCommands
  /\ c.at \in {"run", "closing"} => c.command = Prompt
  /\ c.at = "send" => c.pending > 0 /\ c.writePending
  /\ c.at \in Live \ {"send"} => c.pending = 0 /\ ~c.writePending
  /\ c.at \in {"start", "before", "send", "read"} => c.position = 0
  /\ c.at = "run" => c.awaiting \in {0, Prompt} /\ ~(c.position = 4 /\ c.awaiting = 0)
  /\ c.at = "closing" => c.position = 4 /\ c.awaiting = 0

\* Pi's input stays open until its run has settled.
OpenSound(c, open) ==
  /\ c.at \in {"run", "closing"} /\ c.position = 4 => ~open

-------------------------------------------------------------------------------
(* What Pi is sent *)

In(x, s) == \E i \in DOMAIN s : s[i] = x

\* The frame that has been begun, and not ended, at the end of the input; or 0.
EndOpen(stdin, partial) ==
  IF stdin = <<>> THEN partial
  ELSE IF stdin[Len(stdin)].last THEN 0 ELSE stdin[Len(stdin)].frame

\* The parts of a frame follow each other; below the handshake, frames are numbered
\* as they are read.
StreamSound(stdin, got, partial) ==
  /\ Len(stdin) <= InputSize
  /\ \A i \in 1..(Len(stdin) - 1) : ~stdin[i].last => stdin[i + 1].frame = stdin[i].frame
  /\ partial # 0 /\ stdin # <<>> => stdin[1].frame = partial
  /\ \A i \in DOMAIN got : got[i] = i \/ got[i] > Prompt
  /\ \A i \in DOMAIN stdin : stdin[i].frame = Len(got) + 1 \/ stdin[i].frame > Prompt
  /\ \A i, j \in DOMAIN stdin : i < j /\ stdin[i].last => stdin[j].frame > Prompt

\* A frame is on its way whole, or has been read.
Delivered(frame, stdin, got) ==
  In(frame, got) \/ (stdin # <<>> /\ stdin[Len(stdin)] = [frame |-> frame, last |-> TRUE])

Frame(at, command) ==
  IF at = "clear_queue" THEN Prompt + 1 ELSE IF at = "abort" THEN Prompt + 2 ELSE command

SendSound(at, command, pending, stdin, got, partial) ==
  /\ at \in Live \cup Handshake =>
       EndOpen(stdin, partial) = 0
         \/ (pending > 0 /\ EndOpen(stdin, partial) = Frame(at, command))
  /\ at \in Live =>
       /\ \A i \in DOMAIN got : got[i] = i
       /\ \A i \in DOMAIN stdin : stdin[i].frame = command
  /\ at \in {"start", "before"} => Len(got) = command /\ stdin = <<>>
  /\ at = "send" => Len(got) = command - 1 /\ \A i \in DOMAIN stdin : ~stdin[i].last
  /\ at \in {"read", "run", "closing"} =>
       \/ Len(got) = command
       \/ Len(got) = command - 1 /\ Delivered(command, stdin, got)
  /\ at = "clear_queue" =>
       /\ ~In(Prompt + 2, got) /\ \A i \in DOMAIN stdin : stdin[i].frame # Prompt + 2
       /\ pending > 0 => ~In(Prompt + 1, got) /\ \A i \in DOMAIN stdin : stdin[i].frame # Prompt + 1
  /\ at = "abort" /\ pending > 0 =>
       ~In(Prompt + 2, got) /\ \A i \in DOMAIN stdin : stdin[i].frame # Prompt + 2
  /\ at \in Handshake => pending <= 1 /\ (pending = 0 => Delivered(Frame(at, command), stdin, got))

-------------------------------------------------------------------------------
(* What Pi says *)

\* A record has two parts, so every other part begins one.
Alternates(s) ==
  \A i \in DOMAIN s : (s[i] = Opening) <=> ((i % 2 = 1) <=> (s[1] = Opening))

\* What Pi has begun to write, it ends next.
PartsSound(stdout, due) ==
  /\ Alternates(stdout)
  /\ \/ due = <<>>
     \/ Len(due) = 1 /\ due[1] \in Said
     \/ Len(due) = 2 /\ due[1] = Opening /\ due[2] \in Said
  /\ stdout # <<>> => ((stdout[Len(stdout)] = Opening) <=> Len(due) = 1)

\* What Pi is about to say fits the state of its run.
DueSound(q) ==
  /\ \A n \in 1..4 : In(Event(n), q.due) => q.events = n + 1
  /\ In(Level, q.due) => q.events = 0
  /\ In(Update, q.due) => q.events = 3
  /\ \A k \in 1..InitCommands : In(Reply(k), q.due) => q.events = 0
  /\ In(Prompt, q.got) <=> q.events # 0
  /\ q.ack => q.events # 0 /\ ~In(Reply(Prompt), q.due)
  /\ In(Junk, q.due) => q.odd /\ q.exit # "ok"

\* What has left Pi: in its pipe or with the call.
Left(x, c, stdout) == In(x, stdout) \/ In(x, c.records)
OnItsWay(x, c, stdout, due) == In(x, due) \/ Left(x, c, stdout)

\* What has been said once is not said again.
ArrivedSound(c, stdout, q) ==
  /\ \A k \in 1..(Prompt + 2) : OnItsWay(Reply(k), c, stdout, q.due) => In(k, q.got)
  /\ \A n \in 1..4 : Left(Event(n), c, stdout) \/ (c.at \in Live /\ n <= c.position) =>
       n < q.events /\ ~In(Event(n), q.due)
  /\ Left(Reply(Prompt), c, stdout) \/ (c.at \in {"run", "closing"} /\ c.awaiting = 0) =>
       In(Prompt, q.got) /\ ~q.ack /\ ~In(Reply(Prompt), q.due)

\* What has been said is not lost before it is acted upon.
NothingLost(c, stdout, q) ==
  /\ c.at = "read" /\ In(c.command, q.got) => OnItsWay(Reply(c.command), c, stdout, q.due)
  /\ c.at = "run" =>
       /\ In(Prompt, q.got) /\ c.awaiting # 0 /\ ~q.ack =>
            OnItsWay(Reply(Prompt), c, stdout, q.due)
       /\ \A n \in 1..4 : c.position < n /\ n < q.events => OnItsWay(Event(n), c, stdout, q.due)
  /\ c.at \in Handshake =>
       LET frame == Frame(c.at, c.command) IN
       In(frame, q.got) => OnItsWay(Reply(frame), c, stdout, q.due)

-------------------------------------------------------------------------------
(* The process and its faults *)

Finished(q) == q.due = <<>> /\ ~q.ack /\ q.events = 5

ProcessSound(c, stdout, q) ==
  /\ q.exit = "none" <=> "leader" \in q.group
  /\ c.at \notin {"waiting", "returned"} => q.doomed = {}
  /\ c.at \in {"waiting", "returned"} => q.group \subseteq q.doomed
  /\ c.eof => q.group = {} /\ stdout = <<>>
  /\ c.exit # "none" => c.exit = q.exit
  /\ ~q.odd /\ q.exit = "ok" => q.due = <<>> /\ ~q.ack /\ q.events \in {0, 5}

\* A fault shows: Pi is silent, a process stays, it did not end well or not with
\* everything said, or its record is still on its way.
FaultShows(c, stdout, q) ==
  q.odd /\ c.at \in Live =>
    \/ q.silent /\ "leader" \in q.group
    \/ "child" \in q.group
    \/ q.exit = "error"
    \/ q.exit = "ok" /\ ~Finished(q)
    \/ OnItsWay(Junk, c, stdout, q.due)

\* A candidate is taken only after the process has ended well.
CandidateSound(c, q) ==
  c.result = "candidate" =>
    /\ c.at \in Ending /\ q.group = {}
    /\ ~q.odd /\ q.got = [i \in 1..Prompt |-> i] /\ q.exit = "ok" /\ q.events = 5

ReturnSound(c, q, x) == c.at = "returned" => q.group = {} \/ "terminate" \in x

Sound(c, p, q, x) ==
  /\ c \in CallFrame /\ p \in PipesState /\ q \in PiState /\ x \subseteq Limits \cup {"cancelled"}
  /\ PhaseSound(c)
  /\ OpenSound(c, p.open)
  /\ StreamSound(p.stdin, q.got, q.partial)
  /\ SendSound(c.at, c.command, c.pending, p.stdin, q.got, q.partial)
  /\ PartsSound(p.stdout, q.due)
  /\ DueSound(q)
  /\ ArrivedSound(c, p.stdout, q)
  /\ NothingLost(c, p.stdout, q)
  /\ ProcessSound(c, p.stdout, q)
  /\ FaultShows(c, p.stdout, q)
  /\ CandidateSound(c, q)
  /\ ReturnSound(c, q, x)
  /\ ~q.torn

IInv == Sound(call, pipes, pi, expired)

-------------------------------------------------------------------------------
(* Lemmas about records and sequences *)

\* The prompt comes after the commands of the initialisation.
LEMMA PromptFact ==
  InitCommands \in Nat /\ Prompt \in Nat /\ Prompt >= 1 /\ InitCommands = Prompt - 1
BY CallAssumption DEF Prompt

\* What Pi says is told apart by its type.
LEMMA SaidTypes ==
  /\ Opening.type = "head" /\ Level.type = "level" /\ Update.type = "update"
  /\ Junk.type = "junk"
  /\ \A n : Event(n).type = "event" /\ Event(n).n = n
  /\ \A k : Reply(k).type = "response" /\ Reply(k).id = k
BY DEF Opening, Level, Update, Junk, Event, Reply

\* What is said differs in its type, its number or its id.
LEMMA SaidDiffers ==
  /\ Level # Update /\ Level # Junk /\ Update # Junk
  /\ Opening # Level /\ Opening # Update /\ Opening # Junk
  /\ \A n : Event(n) \notin {Opening, Level, Update, Junk}
  /\ \A k : Reply(k) \notin {Opening, Level, Update, Junk}
  /\ \A n, k : Event(n) # Reply(k)
  /\ \A m, n : Event(m) = Event(n) => m = n
  /\ \A k, m : Reply(k) = Reply(m) => k = m
BY SaidTypes

\* Everything Pi can say, and what only begins it.
LEMMA SaidMembers ==
  /\ {Level, Update, Junk} \subseteq Said
  /\ \A n \in 1..4 : Event(n) \in Said
  /\ \A k \in 1..(Prompt + 2) : Reply(k) \in Said
  /\ Opening \notin Said
BY SaidDiffers DEF Said

\* One element more.
LEMMA InAppend ==
  ASSUME NEW S, NEW s \in Seq(S), NEW y \in S, NEW x
  PROVE  In(x, Append(s, y)) <=> In(x, s) \/ x = y
<1>1. /\ Len(Append(s, y)) = Len(s) + 1 /\ Len(s) \in Nat /\ Append(s, y) \in Seq(S)
      /\ \A i \in 1..Len(s) : Append(s, y)[i] = s[i]
      /\ Append(s, y)[Len(s) + 1] = y
  BY AppendProperties
<1>2. DOMAIN s = 1..Len(s) /\ DOMAIN Append(s, y) = 1..(Len(s) + 1)
  BY <1>1, LenProperties
<1> QED
  BY <1>1, <1>2 DEF In

\* Two sequences after each other.
LEMMA InConcat ==
  ASSUME NEW S, NEW s \in Seq(S), NEW t \in Seq(S), NEW x
  PROVE  In(x, s \o t) <=> In(x, s) \/ In(x, t)
<1>1. /\ s \o t \in Seq(S) /\ Len(s \o t) = Len(s) + Len(t)
      /\ \A i \in 1..Len(s) + Len(t) :
           (s \o t)[i] = IF i <= Len(s) THEN s[i] ELSE t[i - Len(s)]
  BY ConcatProperties
<1>2. /\ DOMAIN s = 1..Len(s) /\ DOMAIN t = 1..Len(t) /\ Len(s) \in Nat /\ Len(t) \in Nat
      /\ DOMAIN (s \o t) = 1..(Len(s) + Len(t))
  BY <1>1, LenProperties
<1>3. ASSUME NEW i \in DOMAIN s
      PROVE  i \in DOMAIN (s \o t) /\ (s \o t)[i] = s[i]
  BY <1>1, <1>2
<1>4. ASSUME NEW i \in DOMAIN t
      PROVE  Len(s) + i \in DOMAIN (s \o t) /\ (s \o t)[Len(s) + i] = t[i]
  BY <1>1, <1>2
<1>5. ASSUME NEW i \in DOMAIN (s \o t)
      PROVE  \/ i \in DOMAIN s /\ (s \o t)[i] = s[i]
             \/ i - Len(s) \in DOMAIN t /\ (s \o t)[i] = t[i - Len(s)]
  BY <1>1, <1>2
<1> QED
  BY <1>3, <1>4, <1>5 DEF In

\* The first element and the rest.
LEMMA InTail ==
  ASSUME NEW S, NEW s \in Seq(S), s # <<>>, NEW x
  PROVE  In(x, s) <=> x = s[1] \/ In(x, Tail(s))
<1>1. /\ Tail(s) \in Seq(S) /\ Len(Tail(s)) = Len(s) - 1 /\ Len(s) \in Nat /\ Len(s) >= 1
      /\ \A i \in 1..(Len(s) - 1) : Tail(s)[i] = s[i + 1]
  BY HeadTailProperties, LenProperties, EmptySeq
<1>2. DOMAIN s = 1..Len(s) /\ DOMAIN Tail(s) = 1..(Len(s) - 1)
  BY <1>1, LenProperties
<1>3. ASSUME NEW i \in DOMAIN s, i # 1
      PROVE  i - 1 \in DOMAIN Tail(s) /\ Tail(s)[i - 1] = s[i]
  BY <1>1, <1>2, <1>3
<1>4. ASSUME NEW i \in DOMAIN Tail(s)
      PROVE  i + 1 \in DOMAIN s /\ s[i + 1] = Tail(s)[i]
  BY <1>1, <1>2
<1>5. In(x, s) => x = s[1] \/ In(x, Tail(s))
  BY <1>3 DEF In
<1>6. 1 \in DOMAIN s
  BY <1>1, <1>2
<1>7. x = s[1] \/ In(x, Tail(s)) => In(x, s)
  BY <1>4, <1>6 DEF In
<1> QED
  BY <1>5, <1>7

\* Nothing is in the empty sequence.
LEMMA InEmpty == \A x : ~In(x, <<>>)
BY EmptySeq DEF In

\* Half of a number, rounded down.
LEMMA Halves ==
  ASSUME NEW n \in Nat
  PROVE  n \div 2 \in Nat /\ 2 * (n \div 2) <= n /\ n <= 2 * (n \div 2) + 1
OBVIOUS

\* What is taken gives up the records that end in it.
LEMMA RecordsTaken ==
  ASSUME NEW s \in Seq(Said \cup {Opening}), Alternates(s)
  PROVE  /\ Records(s) \in Seq(Said)
         /\ \A x \in Said : In(x, Records(s)) <=> In(x, s)
<1> DEFINE b == IF s # <<>> /\ s[1] # Opening THEN 1 ELSE 0
           m == (Len(s) + b) \div 2
<1>1. Len(s) \in Nat /\ DOMAIN s = 1..Len(s) /\ b \in {0, 1}
  BY LenProperties
<1>2. m \in Nat /\ 2 * m <= Len(s) + b /\ Len(s) + b <= 2 * m + 1
  <2>1. Len(s) + b \in Nat
    BY <1>1
  <2> HIDE DEF b
  <2> QED
    BY <2>1, Halves
<1>3. Records(s) = [k \in 1..m |-> s[2 * k - b]]
  BY DEF Records
<1>b. b = 1 <=> (s # <<>> /\ s[1] # Opening)
  OBVIOUS
<1> HIDE DEF b, m
<1>4. ASSUME NEW k \in 1..m
      PROVE  2 * k - b \in DOMAIN s /\ s[2 * k - b] \in Said
  <2>1. 2 * k - b \in DOMAIN s
    BY <1>1, <1>2
  <2>2. ((2 * k - b) % 2 = 1) <=> (b = 1)
    BY <1>1, <1>2
  <2>3. s # <<>>
    BY <2>1, EmptySeq
  <2>4. s[2 * k - b] # Opening
    BY <2>1, <2>2, <2>3, <1>b DEF Alternates
  <2> QED
    BY <2>1, <2>4, ElementOfSeq
<1>5. Records(s) \in Seq(Said)
  BY <1>2, <1>3, <1>4, IsASeq
<1>6. ASSUME NEW i \in DOMAIN s, s[i] # Opening
      PROVE  \E k \in 1..m : i = 2 * k - b
  <2>1. (i % 2 = 1) <=> (b = 1)
    <3>1. s # <<>>
      BY EmptySeq
    <3> QED
      BY <1>1, <1>6, <1>b, <3>1 DEF Alternates
  <2>2. i \in Nat /\ i >= 1 /\ i <= Len(s)
    BY <1>1
  <2> DEFINE k == (i + b) \div 2
  <2>3. k \in Nat /\ i + b = 2 * k
    BY <1>1, <2>1, <2>2
  <2>4. k \in 1..m
    <3> HIDE DEF k
    <3> QED
      BY <1>1, <1>2, <2>2, <2>3
  <2> HIDE DEF k
  <2>5. i = 2 * k - b
    BY <1>1, <2>2, <2>3
  <2> QED
    BY <2>4, <2>5
<1>7. ASSUME NEW x \in Said
      PROVE  In(x, Records(s)) <=> In(x, s)
  <2>1. x # Opening
    BY SaidMembers
  <2>2. DOMAIN Records(s) = 1..m
    BY <1>3
  <2>3. In(x, Records(s)) => In(x, s)
    BY <1>3, <1>4, <2>2 DEF In
  <2>4. In(x, s) => In(x, Records(s))
    BY <1>3, <1>6, <2>1, <2>2 DEF In
  <2> QED
    BY <2>3, <2>4
<1> QED
  BY <1>5, <1>7

-------------------------------------------------------------------------------
(* The fields of a frame *)

\* The fields of a call, one by one.
LEMMA FrameFields ==
  ASSUME NEW c \in CallFrame
  PROVE  /\ c.at \in Phases /\ c.command \in 0..Prompt /\ c.pending \in Nat
         /\ c.writePending \in BOOLEAN /\ c.awaiting \in 0..Prompt /\ c.records \in Seq(Said)
         /\ c.tail \in BOOLEAN /\ c.eof \in BOOLEAN /\ c.exit \in Exits
         /\ c.position \in 0..4 /\ c.settled \in BOOLEAN /\ c.result \in Reasons
BY DEF CallFrame

\* The two pipes and whether Pi's input is open.
LEMMA PipeFields ==
  ASSUME NEW p \in PipesState
  PROVE  p.stdin \in Seq(PartRow) /\ p.stdout \in Seq(Said \cup {Opening}) /\ p.open \in BOOLEAN
BY DEF PipesState

\* The fields of Pi, one by one.
LEMMA PiFields ==
  ASSUME NEW q \in PiState
  PROVE  /\ q.group \subseteq Members /\ q.doomed \subseteq Members /\ q.exit \in Exits
         /\ q.got \in Seq(1..(Prompt + 2)) /\ q.partial \in 0..(Prompt + 2)
         /\ q.torn \in BOOLEAN /\ q.due \in Seq(Said \cup {Opening}) /\ q.ack \in BOOLEAN
         /\ q.events \in 0..5 /\ q.notices \in Nat /\ q.silent \in BOOLEAN /\ q.odd \in BOOLEAN
BY DEF PiState

\* A frame with another phase, or without its records.
LEMMA FailedFrame ==
  ASSUME NEW c \in CallFrame, NEW reason \in Reasons \ {"candidate"}
  PROVE  /\ Failed(c, reason) \in CallFrame
         /\ Failed(c, reason).result = reason
         /\ Failed(c, reason).at =
              IF reason = "cancelled" /\ MayShake(c) THEN "clear_queue" ELSE "cleanup"
         /\ reason = "cancelled" => Failed(c, reason).pending = 1
         /\ Failed(c, reason).records = c.records \/ Failed(c, reason).records = <<>>
         /\ reason = "cancelled" => Failed(c, reason).records = c.records
         /\ Failed(c, reason).eof = c.eof /\ Failed(c, reason).exit = c.exit
         /\ Failed(c, reason).command = c.command /\ Failed(c, reason).position = c.position
         /\ Failed(c, reason).awaiting = c.awaiting
<1> DEFINE n == IF reason = "cancelled" /\ MayShake(c) THEN "clear_queue" ELSE "cleanup"
           k == IF reason = "cancelled" THEN 1 ELSE 0
           r == IF reason = "cancelled" THEN c.records ELSE <<>>
<1>1. n \in Phases /\ k \in Nat /\ r \in Seq(Said)
  BY FrameFields, EmptySeq DEF Phases, Handshake, Ending
<1>2. Failed(c, reason) = [c EXCEPT !.result = reason, !.at = n, !.pending = k, !.records = r]
  BY DEF Failed
<1>3. (r = c.records \/ r = <<>>) /\ (reason = "cancelled" => k = 1 /\ r = c.records)
  OBVIOUS
<1> DEFINE d == [c EXCEPT !.result = reason, !.at = n, !.pending = k, !.records = r]
<1> HIDE DEF k, r
<1>4. n = IF reason = "cancelled" /\ MayShake(c) THEN "clear_queue" ELSE "cleanup"
  OBVIOUS
<1> HIDE DEF n
<1>5. /\ d \in CallFrame /\ d.result = reason /\ d.at = n /\ d.pending = k /\ d.records = r
      /\ d.eof = c.eof /\ d.exit = c.exit /\ d.command = c.command /\ d.position = c.position
      /\ d.awaiting = c.awaiting
  BY <1>1 DEF CallFrame
<1> QED
  BY <1>2, <1>3, <1>4, <1>5

\* A call that gives up goes to the cleanup without records.
LEMMA StoppedFrame ==
  ASSUME NEW c \in CallFrame
  PROVE  /\ Stopped(c) \in CallFrame /\ Stopped(c).at = "cleanup" /\ Stopped(c).records = <<>>
         /\ Stopped(c).result = c.result /\ Stopped(c).eof = c.eof /\ Stopped(c).exit = c.exit
BY EmptySeq DEF Stopped, CallFrame, Phases, Ending

\* A call after one of its records.
LEMMA TailFrame ==
  ASSUME NEW c \in CallFrame, NEW r \in Seq(Said)
  PROVE  LET d == [c EXCEPT !.records = r] IN
         /\ d \in CallFrame /\ d.at = c.at /\ d.command = c.command /\ d.pending = c.pending
         /\ d.writePending = c.writePending /\ d.awaiting = c.awaiting /\ d.records = r
         /\ d.tail = c.tail /\ d.eof = c.eof /\ d.exit = c.exit /\ d.position = c.position
         /\ d.settled = c.settled /\ d.result = c.result
BY DEF CallFrame

\* What comes out of a pump: what was taken adds its records, the rest is news.
LEMMA ReceivedFrame ==
  ASSUME NEW c \in CallFrame, pipes \in PipesState, pi \in PiState,
         Alternates(pipes.stdout),
         NEW w \in 0..c.pending, w = PartsWritten(c)
  PROVE  /\ Received(c) \in CallFrame
         /\ Received(c).at = c.at /\ Received(c).command = c.command
         /\ Received(c).pending = c.pending - w
         /\ Received(c).writePending = (w < c.pending)
         /\ Received(c).awaiting = c.awaiting /\ Received(c).position = c.position
         /\ Received(c).settled = c.settled /\ Received(c).result = c.result
         /\ Received(c).eof = (c.eof \/ (pi.group = {} /\ pipes.stdout = <<>>))
         /\ Received(c).exit = (IF "leader" \in pi.group THEN c.exit ELSE pi.exit)
         /\ \A y \in Said : In(y, Received(c).records) <=> Left(y, c, pipes.stdout)
<1> DEFINE k == c.pending - w
           b == (w < c.pending)
           r == c.records \o Records(pipes.stdout)
           t == IF pipes.stdout = <<>> THEN c.tail ELSE Last(pipes.stdout) = Opening
           e == (c.eof \/ (pi.group = {} /\ pipes.stdout = <<>>))
           g == IF "leader" \in pi.group THEN c.exit ELSE pi.exit
<1>1. /\ pipes.stdout \in Seq(Said \cup {Opening}) /\ c.records \in Seq(Said)
      /\ Records(pipes.stdout) \in Seq(Said)
      /\ \A x \in Said : In(x, Records(pipes.stdout)) <=> In(x, pipes.stdout)
  BY FrameFields, PipeFields, RecordsTaken
<1>2. r \in Seq(Said) /\ \A y \in Said : In(y, r) <=> Left(y, c, pipes.stdout)
  <2> HIDE DEF r
  <2>1. r = c.records \o Records(pipes.stdout)
    BY DEF r
  <2>2. r \in Seq(Said)
    BY <1>1, <2>1, ConcatProperties
  <2>3. ASSUME NEW y \in Said
        PROVE  In(y, r) <=> Left(y, c, pipes.stdout)
    BY <1>1, <2>1, InConcat DEF Left
  <2> QED
    BY <2>2, <2>3
<1>3. k \in Nat /\ b \in BOOLEAN /\ t \in BOOLEAN /\ e \in BOOLEAN /\ g \in Exits
  <2>1. k \in Nat
    BY FrameFields
  <2>2. c.eof \in BOOLEAN /\ c.tail \in BOOLEAN
    BY FrameFields
  <2>3. t \in BOOLEAN
    BY <2>2, Zenon
  <2>4. e \in BOOLEAN /\ b \in BOOLEAN
    OBVIOUS
  <2>5. g \in Exits
    BY FrameFields, PiFields
  <2> QED
    BY <2>1, <2>3, <2>4, <2>5
<1>4. Received(c) = [c EXCEPT !.pending = k, !.writePending = b, !.records = r, !.tail = t,
                              !.eof = e, !.exit = g]
  BY DEF Received, Taken, EndOfFile
<1> DEFINE d == [c EXCEPT !.pending = k, !.writePending = b, !.records = r, !.tail = t,
                          !.eof = e, !.exit = g]
<1>5. k = c.pending - w /\ b = (w < c.pending)
      /\ e = (c.eof \/ (pi.group = {} /\ pipes.stdout = <<>>))
      /\ g = (IF "leader" \in pi.group THEN c.exit ELSE pi.exit)
  OBVIOUS
<1> HIDE DEF k, b, r, t, e, g
<1>6. /\ d \in CallFrame /\ d.at = c.at /\ d.command = c.command /\ d.pending = k
      /\ d.writePending = b /\ d.awaiting = c.awaiting /\ d.position = c.position
      /\ d.settled = c.settled /\ d.result = c.result /\ d.eof = e /\ d.exit = g /\ d.records = r
  BY <1>2, <1>3 DEF CallFrame
<1> QED
  BY <1>2, <1>4, <1>5, <1>6

\* A call that is cancelled in the middle of a pump has written, but not taken anything in.
LEMMA DroppedFrame ==
  ASSUME NEW c \in CallFrame, NEW w \in 0..c.pending, w = PartsWritten(c)
  PROVE  /\ Dropped(c) \in CallFrame
         /\ Dropped(c).at = c.at /\ Dropped(c).command = c.command
         /\ Dropped(c).pending = c.pending - w /\ Dropped(c).writePending = (w < c.pending)
         /\ Dropped(c).awaiting = c.awaiting /\ Dropped(c).position = c.position
         /\ Dropped(c).eof = c.eof /\ Dropped(c).exit = c.exit
         /\ Dropped(c).records = c.records
<1> DEFINE k == c.pending - w
           b == (w < c.pending)
           d == [c EXCEPT !.pending = k, !.writePending = b]
<1>1. k \in Nat /\ b \in BOOLEAN
  BY FrameFields
<1>2. Dropped(c) = d
  BY DEF Dropped
<1>3. k = c.pending - w /\ b = (w < c.pending)
  OBVIOUS
<1> HIDE DEF k, b
<1>4. /\ d \in CallFrame /\ d.at = c.at /\ d.command = c.command /\ d.pending = k
      /\ d.writePending = b /\ d.awaiting = c.awaiting /\ d.position = c.position
      /\ d.eof = c.eof /\ d.exit = c.exit /\ d.records = c.records
  BY <1>1 DEF CallFrame
<1> QED
  BY <1>2, <1>3, <1>4

-------------------------------------------------------------------------------
(* What a pump writes *)

PartsSent(frame, pending, w) == [i \in 1..w |-> Part(frame, pending - i + 1)]

\* The input after parts of a frame, with the last of them or without.
Filled(new, stdin, got, partial, frame, all) ==
  /\ new \in Seq(PartRow) /\ StreamSound(new, got, partial) /\ new # <<>>
  /\ EndOpen(new, partial) = IF all THEN 0 ELSE frame
  /\ \A i \in DOMAIN new :
       \/ i \in DOMAIN stdin /\ new[i] = stdin[i]
       \/ new[i].frame = frame /\ (new[i].last => all)
  /\ all => new[Len(new)] = [frame |-> frame, last |-> TRUE]

\* A pump fills the pipe with the next parts of the frame, in their order.
LEMMA PumpStream ==
  ASSUME NEW stdin \in Seq(PartRow), NEW got \in Seq(1..(Prompt + 2)),
         NEW partial \in 0..(Prompt + 2), NEW frame \in 1..(Prompt + 2),
         NEW pending \in Nat, NEW w \in 1..pending, Len(stdin) + w <= InputSize,
         StreamSound(stdin, got, partial),
         EndOpen(stdin, partial) \in {0, frame},
         frame = Len(got) + 1 \/ frame > Prompt,
         frame <= Prompt => \A i \in DOMAIN stdin : ~stdin[i].last,
         NEW new, new = stdin \o PartsSent(frame, pending, w)
  PROVE  Filled(new, stdin, got, partial, frame, w = pending)
<1> DEFINE n == Len(stdin)
           sent == PartsSent(frame, pending, w)
<1>0. w \in Nat /\ w >= 1 /\ w <= pending
  OBVIOUS
<1>1. /\ n \in Nat /\ DOMAIN stdin = 1..n /\ \A i \in 1..n : stdin[i] \in PartRow
  BY LenProperties, ElementOfSeq
<1>2. ASSUME NEW i \in 1..w
      PROVE  /\ sent[i] \in PartRow /\ sent[i].frame = frame
             /\ sent[i].last <=> (i = pending)
             /\ i = pending => sent[i] = [frame |-> frame, last |-> TRUE]
  BY DEF PartsSent, Part, PartRow
<1>3. sent \in Seq(PartRow) /\ Len(sent) = w
  <2>1. \A i \in 1..w : sent[i] \in PartRow
    BY <1>2
  <2>2. DOMAIN sent = 1..w /\ sent = [i \in 1..w |-> sent[i]]
    BY DEF PartsSent
  <2> HIDE DEF sent
  <2>3. [i \in 1..w |-> sent[i]] \in Seq(PartRow)
    BY <1>0, <2>1, IsASeq
  <2>4. sent \in Seq(PartRow)
    BY <2>2, <2>3
  <2> QED
    BY <1>0, <2>2, <2>4, LenProperties
<1>n. n = Len(stdin)
  OBVIOUS
<1> HIDE DEF sent, n
<1>s. new = stdin \o sent
  BY DEF sent
<1>4. /\ new \in Seq(PartRow) /\ Len(new) = n + w
      /\ \A i \in 1..(n + w) : new[i] = IF i <= n THEN stdin[i] ELSE sent[i - n]
  <2>1. /\ stdin \o sent \in Seq(PartRow) /\ Len(stdin \o sent) = Len(stdin) + Len(sent)
        /\ \A i \in 1..(Len(stdin) + Len(sent)) :
             (stdin \o sent)[i] = IF i <= Len(stdin) THEN stdin[i] ELSE sent[i - Len(stdin)]
    BY <1>3, ConcatProperties
  <2> QED
    BY <1>3, <1>n, <1>s, <2>1
<1>5. DOMAIN new = 1..(n + w)
  BY <1>4, LenProperties
<1>6. /\ \A i \in 1..n : new[i] = stdin[i]
      /\ \A i \in (n + 1)..(n + w) :
           /\ new[i].frame = frame
           /\ new[i].last <=> (i = n + pending)
           /\ i = n + pending => new[i] = [frame |-> frame, last |-> TRUE]
  <2>1. ASSUME NEW i \in 1..n
        PROVE  new[i] = stdin[i]
    BY <1>1, <1>4
  <2>2. ASSUME NEW i \in (n + 1)..(n + w)
        PROVE  /\ new[i].frame = frame
               /\ new[i].last <=> (i = n + pending)
               /\ i = n + pending => new[i] = [frame |-> frame, last |-> TRUE]
    <3>0. i \in 1..(n + w) /\ ~(i <= n) /\ i - n \in 1..w
      BY <1>0, <1>1
    <3>1. i - n \in 1..w /\ new[i] = sent[i - n]
      BY <1>4, <3>0
    <3>2. i - n = pending <=> i = n + pending
      BY <1>1
    <3> QED
      BY <1>2, <3>1, <3>2
  <2> QED
    BY <2>1, <2>2
<1>7. new # <<>> /\ new[Len(new)].frame = frame
      /\ (new[Len(new)].last <=> w = pending)
      /\ (w = pending => new[Len(new)] = [frame |-> frame, last |-> TRUE])
  <2>1. n + w \in (n + 1)..(n + w) /\ (n + w = n + pending <=> w = pending) /\ n + w > 0
    BY <1>0, <1>1
  <2>2. new # <<>>
    BY <1>4, <2>1, EmptySeq
  <2> QED
    BY <1>4, <1>6, <2>1, <2>2
<1>8. EndOpen(new, partial) = IF w = pending THEN 0 ELSE frame
  BY <1>7 DEF EndOpen
<1>9. ASSUME NEW i \in DOMAIN new
      PROVE  \/ i \in DOMAIN stdin /\ new[i] = stdin[i]
             \/ new[i].frame = frame /\ (new[i].last => w = pending)
  <2>1. CASE i <= n
    BY <1>1, <1>5, <1>6, <2>1
  <2>2. CASE i > n
    <3>1. i \in (n + 1)..(n + w)
      BY <1>1, <1>5, <2>2
    <3>2. i = n + pending => w = pending
      BY <1>1, <3>1
    <3> QED
      BY <1>6, <3>1, <3>2
  <2> QED
    BY <1>1, <1>5, <2>1, <2>2
<1>10. StreamSound(new, got, partial)
  <2>1. Len(new) <= InputSize
    BY <1>4, <1>n
  <2>2. ASSUME NEW i \in 1..(Len(new) - 1), ~new[i].last
        PROVE  new[i + 1].frame = new[i].frame
    <3>0. n \in Nat /\ w \in Nat /\ i \in 1..((n + w) - 1)
      BY <1>0, <1>1, <1>4
    <3>1. CASE i < n
      <4>1. i \in 1..(n - 1) /\ i \in 1..n /\ i + 1 \in 1..n
        BY <3>0, <3>1
      <4> QED
        BY <1>n, <1>6, <2>2, <4>1 DEF StreamSound
    <3>2. CASE i = n
      <4>1. n \in 1..n /\ n + 1 \in (n + 1)..(n + w) /\ stdin # <<>> /\ stdin[n] = new[n]
        BY <1>n, <1>1, <1>4, <1>6, <2>2, <3>2, EmptySeq
      <4>2. EndOpen(stdin, partial) = stdin[n].frame
        BY <1>n, <2>2, <3>2, <4>1 DEF EndOpen
      <4>3. stdin[n].frame # 0
        BY <1>1, <4>1 DEF PartRow
      <4> QED
        BY <1>6, <3>2, <4>1, <4>2, <4>3
    <3>3. CASE i > n
      <4>1. i \in (n + 1)..(n + w) /\ i + 1 \in (n + 1)..(n + w)
        BY <3>0, <3>3
      <4> QED
        BY <1>6, <4>1
    <3>4. i < n \/ i = n \/ i > n
      BY <3>0
    <3> QED
      BY <3>1, <3>2, <3>3, <3>4
  <2>3. partial # 0 /\ new # <<>> => new[1].frame = partial
    <3>1. CASE stdin = <<>>
      <4>1. EndOpen(stdin, partial) = partial /\ n = 0
        BY <3>1, <1>n, EmptySeq DEF EndOpen
      <4>2. 1 \in (n + 1)..(n + w)
        BY <4>1
      <4> QED
        BY <1>6, <4>1, <4>2
    <3>2. CASE stdin # <<>>
      <4>1. 1 \in 1..n
        BY <1>n, <1>1, <3>2, EmptySeq
      <4> QED
        BY <1>6, <3>2, <4>1 DEF StreamSound
    <3> QED
      BY <3>1, <3>2
  <2>4. \A i \in DOMAIN got : got[i] = i \/ got[i] > Prompt
    BY DEF StreamSound
  <2>5. \A i \in DOMAIN new : new[i].frame = Len(got) + 1 \/ new[i].frame > Prompt
    BY <1>9 DEF StreamSound
  <2>6. ASSUME NEW i \in DOMAIN new, NEW j \in DOMAIN new, i < j, new[i].last
        PROVE  new[j].frame > Prompt
    <3>1. CASE j <= n
      <4>1. i \in DOMAIN stdin /\ j \in DOMAIN stdin /\ new[i] = stdin[i] /\ new[j] = stdin[j]
        BY <1>1, <1>5, <1>6, <2>6, <3>1
      <4> QED
        BY <2>6, <4>1 DEF StreamSound
    <3>2. CASE j > n
      <4>0. j \in (n + 1)..(n + w)
        BY <1>0, <1>1, <1>5, <3>2
      <4>1. j \in (n + 1)..(n + w) /\ new[j].frame = frame
        BY <1>6, <4>0
      <4>2. i # n + pending
        BY <1>1, <2>6, <4>1
      <4>3. i \in 1..n
        <5>1. i \notin (n + 1)..(n + w)
          BY <1>6, <2>6, <4>2
        <5> QED
          BY <1>1, <1>5, <5>1
      <4>4. i \in DOMAIN stdin /\ stdin[i].last
        BY <1>1, <1>6, <2>6, <4>3
      <4>5. ~(frame <= Prompt)
        BY <4>4
      <4>6. frame > Prompt
        BY <4>5, PromptFact
      <4> QED
        BY <4>1, <4>6
    <3> QED
      BY <1>1, <1>5, <3>1, <3>2
  <2> QED
    BY <2>1, <2>2, <2>3, <2>4, <2>5, <2>6 DEF StreamSound
<1> QED
  BY <1>4, <1>7, <1>8, <1>9, <1>10 DEF Filled

-------------------------------------------------------------------------------
(* Calls that end *)

\* A call may go to its cleanup from everywhere: what it promises then is only
\* that nothing is said twice.
LEMMA EndsSound ==
  ASSUME NEW c, NEW p, NEW q, NEW x, Sound(c, p, q, x),
         NEW d \in CallFrame, NEW r \in PipesState, NEW y \in SUBSET (Limits \cup {"cancelled"}),
         c.at \notin {"waiting", "returned"}, d.at = "cleanup", d.result # "candidate",
         StreamSound(r.stdin, q.got, q.partial), r.stdout \in {p.stdout, <<>>},
         \A z \in Said : Left(z, d, r.stdout) => Left(z, c, p.stdout),
         d.eof => q.group = {} /\ r.stdout = <<>>,
         d.exit # "none" => d.exit = q.exit
  PROVE  Sound(d, r, q, y)
<1>1. /\ c \in CallFrame /\ q \in PiState /\ PartsSound(p.stdout, q.due) /\ DueSound(q)
      /\ ArrivedSound(c, p.stdout, q) /\ ProcessSound(c, p.stdout, q) /\ ~q.torn
  BY DEF Sound
<1>2. d.at \notin Live \cup Handshake
  BY DEF Live, Handshake
<1>3. PhaseSound(d) /\ OpenSound(d, r.open) /\ NothingLost(d, r.stdout, q)
      /\ FaultShows(d, r.stdout, q) /\ CandidateSound(d, q) /\ ReturnSound(d, q, y)
      /\ SendSound(d.at, d.command, d.pending, r.stdin, q.got, q.partial)
  BY <1>2 DEF PhaseSound, OpenSound, NothingLost, FaultShows, CandidateSound, ReturnSound,
              SendSound, Live, Handshake
<1>4. PartsSound(r.stdout, q.due)
  BY <1>1, EmptySeq DEF PartsSound, Alternates
<1>5. ProcessSound(d, r.stdout, q)
  BY <1>1 DEF ProcessSound
<1>6. ArrivedSound(d, r.stdout, q)
  <2>1. ASSUME NEW k \in 1..(Prompt + 2), OnItsWay(Reply(k), d, r.stdout, q.due)
        PROVE  In(k, q.got)
    <3>1. OnItsWay(Reply(k), c, p.stdout, q.due)
      BY <2>1, SaidMembers DEF OnItsWay
    <3> QED
      BY <1>1, <3>1 DEF ArrivedSound
  <2>2. ASSUME NEW n \in 1..4, Left(Event(n), d, r.stdout)
        PROVE  n < q.events /\ ~In(Event(n), q.due)
    <3>1. Left(Event(n), c, p.stdout)
      BY <2>2, SaidMembers
    <3> QED
      BY <1>1, <3>1 DEF ArrivedSound
  <2>3. ASSUME Left(Reply(Prompt), d, r.stdout)
        PROVE  In(Prompt, q.got) /\ ~q.ack /\ ~In(Reply(Prompt), q.due)
    <3>1. Prompt \in 1..(Prompt + 2)
      BY PromptFact
    <3>2. Left(Reply(Prompt), c, p.stdout)
      BY <2>3, <3>1, SaidMembers
    <3> QED
      BY <1>1, <3>2 DEF ArrivedSound
  <2>4. d.at \notin Live /\ d.at \notin {"run", "closing"}
    BY <1>2
  <2> QED
    BY <2>1, <2>2, <2>3, <2>4 DEF ArrivedSound
<1> QED
  BY <1>1, <1>3, <1>4, <1>5, <1>6 DEF Sound

\* A cancelled call shakes hands with a Pi that expects the next frame.
LEMMA ShakesSound ==
  ASSUME NEW c, NEW p, NEW q, NEW x, Sound(c, p, q, x),
         NEW d \in CallFrame, NEW r \in PipesState, NEW y \in SUBSET (Limits \cup {"cancelled"}),
         c.at \in Live, d.at = "clear_queue", d.result = "cancelled", d.pending = 1,
         StreamSound(r.stdin, q.got, q.partial), r.stdout \in {p.stdout, <<>>},
         EndOpen(r.stdin, q.partial) = 0, \A i \in DOMAIN r.stdin : r.stdin[i].frame = c.command,
         \A z \in Said : Left(z, d, r.stdout) => Left(z, c, p.stdout),
         d.eof => q.group = {} /\ r.stdout = <<>>,
         d.exit # "none" => d.exit = q.exit
  PROVE  Sound(d, r, q, y)
<1>1. /\ c \in CallFrame /\ q \in PiState /\ PartsSound(p.stdout, q.due) /\ DueSound(q)
      /\ ArrivedSound(c, p.stdout, q) /\ ProcessSound(c, p.stdout, q) /\ ~q.torn
      /\ SendSound(c.at, c.command, c.pending, p.stdin, q.got, q.partial)
  BY DEF Sound
<1>2. d.at \notin Live /\ d.at \in Handshake
  BY DEF Live, Handshake
<1>3. PhaseSound(d) /\ OpenSound(d, r.open)
      /\ FaultShows(d, r.stdout, q) /\ CandidateSound(d, q) /\ ReturnSound(d, q, y)
  BY <1>2 DEF PhaseSound, OpenSound, FaultShows, CandidateSound, ReturnSound, Live, Handshake
<1>4. PartsSound(r.stdout, q.due)
  BY <1>1, EmptySeq DEF PartsSound, Alternates
<1>5. ProcessSound(d, r.stdout, q)
  <2>1. q.doomed = {} /\ d.at \notin {"waiting", "returned"}
    BY <1>1 DEF ProcessSound, Live
  <2> QED
    BY <1>1, <2>1 DEF ProcessSound
<1>6. ArrivedSound(d, r.stdout, q)
  <2>1. ASSUME NEW k \in 1..(Prompt + 2), OnItsWay(Reply(k), d, r.stdout, q.due)
        PROVE  In(k, q.got)
    <3>1. OnItsWay(Reply(k), c, p.stdout, q.due)
      BY <2>1, SaidMembers DEF OnItsWay
    <3> QED
      BY <1>1, <3>1 DEF ArrivedSound
  <2>2. ASSUME NEW n \in 1..4, Left(Event(n), d, r.stdout)
        PROVE  n < q.events /\ ~In(Event(n), q.due)
    <3>1. Left(Event(n), c, p.stdout)
      BY <2>2, SaidMembers
    <3> QED
      BY <1>1, <3>1 DEF ArrivedSound
  <2>3. ASSUME Left(Reply(Prompt), d, r.stdout)
        PROVE  In(Prompt, q.got) /\ ~q.ack /\ ~In(Reply(Prompt), q.due)
    <3>1. Prompt \in 1..(Prompt + 2)
      BY PromptFact
    <3>2. Left(Reply(Prompt), c, p.stdout)
      BY <2>3, <3>1, SaidMembers
    <3> QED
      BY <1>1, <3>2 DEF ArrivedSound
  <2>4. d.at \notin Live /\ d.at \notin {"run", "closing"}
    BY <1>2
  <2> QED
    BY <2>1, <2>2, <2>3, <2>4 DEF ArrivedSound
<1>7. \A k \in (Prompt + 1)..(Prompt + 2) :
        ~In(k, q.got) /\ \A i \in DOMAIN r.stdin : r.stdin[i].frame # k
  <2>1. c.command \in 0..Prompt
    BY <1>1, FrameFields
  <2>2. /\ \A i \in DOMAIN q.got : q.got[i] = i
        /\ c.command >= Len(q.got)
    <3>1. \A i \in DOMAIN q.got : q.got[i] = i
      BY <1>1 DEF SendSound
    <3>2. Len(q.got) \in {c.command, c.command - 1}
      BY <1>1 DEF SendSound, Live
    <3> QED
      BY <2>1, <3>1, <3>2
  <2>3. DOMAIN q.got = 1..Len(q.got) /\ Len(q.got) \in Nat
    BY <1>1, PiFields, LenProperties
  <2> QED
    BY <2>1, <2>2, <2>3, PromptFact DEF In
<1>8. SendSound(d.at, d.command, d.pending, r.stdin, q.got, q.partial)
  <2>1. Prompt + 1 \in (Prompt + 1)..(Prompt + 2) /\ Prompt + 2 \in (Prompt + 1)..(Prompt + 2)
    BY PromptFact
  <2> QED
    BY <1>2, <1>7, <2>1 DEF SendSound, Live, Handshake
<1>9. NothingLost(d, r.stdout, q)
  <2>1. Prompt + 1 \in (Prompt + 1)..(Prompt + 2)
    BY PromptFact
  <2>2. Frame(d.at, d.command) = Prompt + 1
    BY DEF Frame
  <2>3. ~In(Frame(d.at, d.command), q.got)
    BY <1>7, <2>1, <2>2
  <2>4. d.at # "read" /\ d.at # "run"
    OBVIOUS
  <2> QED
    BY <2>3, <2>4 DEF NothingLost
<1> QED
  BY <1>1, <1>3, <1>4, <1>5, <1>6, <1>8, <1>9 DEF Sound

\* A call that fails between two pumps.
LEMMA FailsSound ==
  ASSUME IInv, call.at \in Live, NEW reason \in Reasons \ {"none", "candidate"}, Fails(reason)
  PROVE  IInv'
<1> DEFINE d == Failed(call, reason)
<1>1. call' = d /\ pipes' = pipes /\ pi' = pi /\ expired' = expired
  BY DEF Fails
<1>2. /\ call \in CallFrame /\ pipes \in PipesState /\ expired \subseteq Limits \cup {"cancelled"}
      /\ PhaseSound(call) /\ StreamSound(pipes.stdin, pi.got, pi.partial)
      /\ SendSound(call.at, call.command, call.pending, pipes.stdin, pi.got, pi.partial)
      /\ ProcessSound(call, pipes.stdout, pi)
      /\ Sound(call, pipes, pi, expired)
  BY DEF IInv, Sound
<1>3. /\ d \in CallFrame /\ d.result = reason
      /\ d.at = IF reason = "cancelled" /\ MayShake(call) THEN "clear_queue" ELSE "cleanup"
      /\ reason = "cancelled" => d.pending = 1
      /\ d.records = call.records \/ d.records = <<>>
      /\ d.eof = call.eof /\ d.exit = call.exit
  BY <1>2, FailedFrame
<1> HIDE DEF d
<1>4. \A z \in Said : Left(z, d, pipes.stdout) => Left(z, call, pipes.stdout)
  BY <1>3, InEmpty DEF Left
<1>5. call.at \notin {"waiting", "returned"}
  BY DEF Live
<1>6. (d.eof => pi.group = {} /\ pipes.stdout = <<>>) /\ (d.exit # "none" => d.exit = pi.exit)
  BY <1>2, <1>3 DEF ProcessSound
<1>7. CASE d.at = "cleanup"
  <2>1. Sound(d, pipes, pi, expired)
    BY <1>2, <1>3, <1>4, <1>5, <1>6, <1>7, EndsSound
  <2> QED
    BY <1>1, <2>1 DEF IInv
<1>8. CASE d.at = "clear_queue"
  <2>1. reason = "cancelled" /\ ~call.writePending
    BY <1>3, <1>8 DEF MayShake
  <2>2. call.pending = 0
    BY <1>2, <2>1 DEF PhaseSound
  <2>3. /\ EndOpen(pipes.stdin, pi.partial) = 0
        /\ \A i \in DOMAIN pipes.stdin : pipes.stdin[i].frame = call.command
    BY <1>2, <2>2 DEF SendSound
  <2>4. Sound(d, pipes, pi, expired)
    BY <1>2, <1>3, <1>4, <1>6, <1>8, <2>1, <2>3, ShakesSound
  <2> QED
    BY <1>1, <2>4 DEF IInv
<1> QED
  BY <1>3, <1>7, <1>8

-------------------------------------------------------------------------------
(* Pumps *)

\* What a pump leaves in the input of Pi.
Pushed(c) == pipes.stdin \o SentParts(c)
AfterPump(c) == [pipes EXCEPT !.stdin = Pushed(c), !.stdout = <<>>]

\* The frame of a sound phase has a number the pipe can carry.
LEMMA FrameFits ==
  ASSUME NEW c \in CallFrame, c.at \in Live \cup Handshake
  PROVE  /\ FrameOf(c) = Frame(c.at, c.command)
         /\ Frame(c.at, c.command) \in 0..(Prompt + 2)
         /\ c.at \in Live => Frame(c.at, c.command) = c.command
         /\ c.at \in Handshake => Frame(c.at, c.command) \in (Prompt + 1)..(Prompt + 2)
<1>1. c.command \in 0..Prompt
  BY FrameFields
<1> QED
  BY <1>1, PromptFact DEF FrameOf, Frame, Live, Handshake

\* A pump appends parts of the frame under way and keeps the stream in order.
LEMMA PumpWrites ==
  ASSUME NEW c, Sound(c, pipes, pi, expired), c.at \in Live \cup Handshake
  PROVE  /\ PartsWritten(c) \in 0..c.pending
         /\ Pushed(c) \in Seq(PartRow) /\ StreamSound(Pushed(c), pi.got, pi.partial)
         /\ PartsWritten(c) = 0 => Pushed(c) = pipes.stdin
         /\ PartsWritten(c) > 0 =>
              Filled(Pushed(c), pipes.stdin, pi.got, pi.partial, Frame(c.at, c.command),
                     PartsWritten(c) = c.pending)
<1>1. /\ c \in CallFrame /\ pipes \in PipesState /\ pi \in PiState
      /\ StreamSound(pipes.stdin, pi.got, pi.partial) /\ PhaseSound(c)
      /\ SendSound(c.at, c.command, c.pending, pipes.stdin, pi.got, pi.partial)
  BY DEF Sound
<1>2. /\ c.pending \in Nat /\ pipes.stdin \in Seq(PartRow) /\ pi.got \in Seq(1..(Prompt + 2))
      /\ pi.partial \in 0..(Prompt + 2) /\ c.command \in 0..Prompt
  BY <1>1, FrameFields, PipeFields, PiFields
<1>3. Len(pipes.stdin) \in Nat /\ Len(pipes.stdin) <= InputSize /\ InputSize \in Nat
      /\ Len(pi.got) \in Nat
  BY <1>1, <1>2, LenProperties, CallAssumption DEF StreamSound
<1> DEFINE w == PartsWritten(c)
           frame == Frame(c.at, c.command)
<1>4. w \in 0..c.pending /\ Len(pipes.stdin) + w <= InputSize
  BY <1>2, <1>3 DEF PartsWritten, Least
<1>5. FrameOf(c) = frame
  BY <1>1, FrameFits
<1>6. Pushed(c) = pipes.stdin \o PartsSent(frame, c.pending, w)
  BY <1>5 DEF Pushed, SentParts, PartsSent
<1> HIDE DEF w
<1>7. CASE w = 0
  <2>1. PartsSent(frame, c.pending, w) = <<>>
    BY <1>7 DEF PartsSent
  <2>2. Pushed(c) = pipes.stdin
    BY <1>2, <1>6, <2>1, ConcatEmptySeq
  <2> QED
    BY <1>1, <1>2, <1>4, <1>7, <2>2 DEF w
<1>8. CASE w > 0
  <2>1. c.pending > 0 /\ w \in 1..c.pending
    BY <1>2, <1>4, <1>8
  <2>2. c.at = "send" \/ c.at \in Handshake
    BY <1>1, <2>1 DEF PhaseSound
  <2>3. /\ frame \in 1..(Prompt + 2)
        /\ frame = Len(pi.got) + 1 \/ frame > Prompt
        /\ frame <= Prompt => c.at = "send"
    <3>1. CASE c.at = "send"
      <4>1. c.command >= 1 /\ Len(pi.got) = c.command - 1 /\ frame = c.command
        BY <1>1, <3>1, FrameFits DEF PhaseSound, SendSound, Live
      <4> QED
        BY <1>2, <1>3, <3>1, <4>1, PromptFact
    <3>2. CASE c.at \in Handshake
      <4>1. frame \in (Prompt + 1)..(Prompt + 2)
        BY <1>1, <3>2, FrameFits
      <4> QED
        BY <4>1, PromptFact
    <3> QED
      BY <2>2, <3>1, <3>2
  <2>4. EndOpen(pipes.stdin, pi.partial) \in {0, frame}
    BY <1>1 DEF SendSound
  <2>5. frame <= Prompt => \A i \in DOMAIN pipes.stdin : ~pipes.stdin[i].last
    BY <1>1, <2>3 DEF SendSound
  <2> HIDE DEF frame
  <2> DEFINE new == Pushed(c)
  <2>6. new = pipes.stdin \o PartsSent(frame, c.pending, w)
    BY <1>6
  <2> HIDE DEF new
  <2>7. Filled(new, pipes.stdin, pi.got, pi.partial, frame, w = c.pending)
    <3>1. /\ pipes.stdin \in Seq(PartRow) /\ pi.got \in Seq(1..(Prompt + 2))
          /\ pi.partial \in 0..(Prompt + 2) /\ frame \in 1..(Prompt + 2)
          /\ c.pending \in Nat /\ w \in 1..c.pending /\ Len(pipes.stdin) + w <= InputSize
          /\ StreamSound(pipes.stdin, pi.got, pi.partial)
          /\ EndOpen(pipes.stdin, pi.partial) \in {0, frame}
          /\ frame = Len(pi.got) + 1 \/ frame > Prompt
          /\ frame <= Prompt => \A i \in DOMAIN pipes.stdin : ~pipes.stdin[i].last
      BY <1>1, <1>2, <1>4, <2>1, <2>3, <2>4, <2>5
    <3> QED
      BY <2>6, <3>1, PumpStream
  <2> QED
    <3>1. new \in Seq(PartRow) /\ StreamSound(new, pi.got, pi.partial)
      BY <2>7 DEF Filled
    <3> QED
      BY <1>4, <1>8, <2>7, <3>1 DEF new, w, frame
<1>9. w = 0 \/ w > 0
  BY <1>2, <1>4
<1> QED
  BY <1>7, <1>8, <1>9

\* The pipes after a pump.
LEMMA PumpedPipes ==
  ASSUME NEW c, Sound(c, pipes, pi, expired), c.at \in Live \cup Handshake
  PROVE  /\ AfterPump(c) \in PipesState /\ AfterPump(c).stdin = Pushed(c)
         /\ AfterPump(c).stdout = <<>> /\ AfterPump(c).open = pipes.open
<1> DEFINE s == Pushed(c)
<1>1. pipes \in PipesState /\ s \in Seq(PartRow)
  BY PumpWrites DEF Sound
<1> HIDE DEF s
<1> DEFINE r == [pipes EXCEPT !.stdin = s, !.stdout = <<>>]
<1>2. r \in PipesState /\ r.stdin = s /\ r.stdout = <<>> /\ r.open = pipes.open
  BY <1>1, EmptySeq DEF PipesState
<1> QED
  BY <1>2 DEF AfterPump, s

\* What a pump has sent of the frame of a running call.
LEMMA PushedLive ==
  ASSUME NEW c, Sound(c, pipes, pi, expired), c.at \in Live
  PROVE  /\ \A i \in DOMAIN Pushed(c) : Pushed(c)[i].frame = c.command
         /\ PartsWritten(c) = c.pending => EndOpen(Pushed(c), pi.partial) = 0
<1>1. /\ c \in CallFrame
      /\ SendSound(c.at, c.command, c.pending, pipes.stdin, pi.got, pi.partial)
  BY DEF Sound
<1>2. /\ \A i \in DOMAIN pipes.stdin : pipes.stdin[i].frame = c.command
      /\ EndOpen(pipes.stdin, pi.partial) = 0 \/ c.pending > 0
  BY <1>1 DEF SendSound
<1>3. Frame(c.at, c.command) = c.command /\ PartsWritten(c) \in 0..c.pending /\ c.pending \in Nat
  BY <1>1, FrameFits, PumpWrites, FrameFields
<1>4. CASE PartsWritten(c) = 0
  <2>1. Pushed(c) = pipes.stdin
    BY <1>4, PumpWrites
  <2> QED
    BY <1>2, <1>3, <1>4, <2>1
<1>5. CASE PartsWritten(c) > 0
  <2>1. Filled(Pushed(c), pipes.stdin, pi.got, pi.partial, c.command, PartsWritten(c) = c.pending)
    BY <1>3, <1>5, PumpWrites
  <2> QED
    BY <1>2, <2>1 DEF Filled
<1> QED
  BY <1>3, <1>4, <1>5

\* A pump that leaves the phase as it is.
LEMMA ReceivedSend ==
  ASSUME NEW c, Sound(c, pipes, pi, expired), c.at \in Live \cup Handshake,
         c.at = "send" => PartsWritten(c) # c.pending
  PROVE  SendSound(c.at, c.command, c.pending - PartsWritten(c), Pushed(c), pi.got, pi.partial)
<1> DEFINE w == PartsWritten(c)
<1>1. /\ c \in CallFrame /\ PhaseSound(c)
      /\ SendSound(c.at, c.command, c.pending, pipes.stdin, pi.got, pi.partial)
  BY DEF Sound
<1>2. w \in 0..c.pending /\ c.pending \in Nat /\ c.command \in 0..Prompt
  BY <1>1, PumpWrites, FrameFields
<1>3. CASE w = 0
  <2>1. Pushed(c) = pipes.stdin /\ c.pending - w = c.pending
    BY <1>2, <1>3, PumpWrites
  <2> QED
    BY <1>1, <2>1
<1>4. CASE w > 0
  <2>1. Filled(Pushed(c), pipes.stdin, pi.got, pi.partial, Frame(c.at, c.command), w = c.pending)
    BY <1>4, PumpWrites
  <2>2. c.at = "send" \/ c.at \in Handshake
    BY <1>1, <1>2, <1>4 DEF PhaseSound
  <2>3. CASE c.at = "send"
    <3>1. Frame(c.at, c.command) = c.command /\ c.pending - w > 0 /\ w # c.pending
      BY <1>1, <1>2, <2>3, FrameFits DEF Live
    <3>2. /\ EndOpen(Pushed(c), pi.partial) = Frame(c.at, c.command)
          /\ \A i \in DOMAIN Pushed(c) :
               \/ i \in DOMAIN pipes.stdin /\ Pushed(c)[i] = pipes.stdin[i]
               \/ Pushed(c)[i].frame = c.command /\ ~Pushed(c)[i].last
      BY <2>1, <3>1 DEF Filled
    <3>3. /\ \A i \in DOMAIN pi.got : pi.got[i] = i
          /\ \A i \in DOMAIN pipes.stdin : pipes.stdin[i].frame = c.command
          /\ Len(pi.got) = c.command - 1 /\ \A i \in DOMAIN pipes.stdin : ~pipes.stdin[i].last
      BY <1>1, <2>3 DEF SendSound, Live
    <3>4. /\ \A i \in DOMAIN Pushed(c) : Pushed(c)[i].frame = c.command
          /\ \A i \in DOMAIN Pushed(c) : ~Pushed(c)[i].last
      BY <3>2, <3>3
    <3> QED
      BY <2>3, <3>1, <3>2, <3>3, <3>4 DEF SendSound, Live, Handshake
  <2>4. CASE c.at \in Handshake
    <3>1. c.pending = 1 /\ w = 1 /\ c.pending - w = 0
      BY <1>1, <1>2, <1>4, <2>4 DEF SendSound
    <3>2. /\ EndOpen(Pushed(c), pi.partial) = 0
          /\ \A i \in DOMAIN Pushed(c) :
               \/ i \in DOMAIN pipes.stdin /\ Pushed(c)[i] = pipes.stdin[i]
               \/ Pushed(c)[i].frame = Frame(c.at, c.command)
          /\ Delivered(Frame(c.at, c.command), Pushed(c), pi.got)
      BY <2>1, <3>1 DEF Filled, Delivered
    <3>3. c.at = "clear_queue" =>
            /\ ~In(Prompt + 2, pi.got) /\ Frame(c.at, c.command) = Prompt + 1
            /\ \A i \in DOMAIN pipes.stdin : pipes.stdin[i].frame # Prompt + 2
      BY <1>1 DEF SendSound, Frame
    <3>4. c.at = "clear_queue" => \A i \in DOMAIN Pushed(c) : Pushed(c)[i].frame # Prompt + 2
      BY <3>2, <3>3, PromptFact
    <3> QED
      BY <2>4, <3>1, <3>2, <3>3, <3>4 DEF SendSound, Live, Handshake
  <2> QED
    BY <2>2, <2>3, <2>4
<1> QED
  BY <1>2, <1>3, <1>4

\* What a call knows does not change by a pump, for as long as its phase does not.
LEMMA SameNews ==
  ASSUME NEW c \in CallFrame, NEW d \in CallFrame, NEW s, NEW q, NEW t,
         PhaseSound(c), ArrivedSound(c, s, q), NothingLost(c, s, q), FaultShows(c, s, q),
         d.at = c.at, d.command = c.command, d.awaiting = c.awaiting, d.position = c.position,
         \A z \in Said : Left(z, d, t) <=> Left(z, c, s)
  PROVE  ArrivedSound(d, t, q) /\ NothingLost(d, t, q) /\ FaultShows(d, t, q)
<1>1. \A k \in 1..(Prompt + 2) :
        /\ Left(Reply(k), d, t) <=> Left(Reply(k), c, s)
        /\ OnItsWay(Reply(k), d, t, q.due) <=> OnItsWay(Reply(k), c, s, q.due)
  BY SaidMembers DEF OnItsWay
<1>2. \A n \in 1..4 :
        /\ Left(Event(n), d, t) <=> Left(Event(n), c, s)
        /\ OnItsWay(Event(n), d, t, q.due) <=> OnItsWay(Event(n), c, s, q.due)
  BY SaidMembers DEF OnItsWay
<1>3. OnItsWay(Junk, d, t, q.due) <=> OnItsWay(Junk, c, s, q.due)
  BY SaidMembers DEF OnItsWay
<1>4. Prompt \in 1..(Prompt + 2) /\ c.command \in 0..Prompt
  BY PromptFact, FrameFields
<1>5. ArrivedSound(d, t, q)
  BY <1>1, <1>2, <1>4 DEF ArrivedSound
<1>6. FaultShows(d, t, q)
  BY <1>3 DEF FaultShows
<1>7. NothingLost(d, t, q)
  <2>1. c.at = "read" /\ In(c.command, q.got) => OnItsWay(Reply(c.command), d, t, q.due)
    <3>1. SUFFICES ASSUME c.at = "read", In(c.command, q.got)
                   PROVE  OnItsWay(Reply(c.command), d, t, q.due)
      OBVIOUS
    <3>2. OnItsWay(Reply(c.command), c, s, q.due)
      BY <3>1 DEF NothingLost
    <3>3. c.command \in 1..(Prompt + 2)
      BY <1>4, <3>1, PromptFact DEF PhaseSound
    <3> QED
      BY <1>1, <3>2, <3>3
  <2>2. c.at = "run" =>
          /\ In(Prompt, q.got) /\ c.awaiting # 0 /\ ~q.ack => OnItsWay(Reply(Prompt), d, t, q.due)
          /\ \A n \in 1..4 : c.position < n /\ n < q.events => OnItsWay(Event(n), d, t, q.due)
    BY <1>1, <1>2, <1>4 DEF NothingLost
  <2>3. ASSUME c.at \in Handshake, In(Frame(c.at, c.command), q.got)
        PROVE  OnItsWay(Reply(Frame(c.at, c.command)), d, t, q.due)
    <3>1. Frame(c.at, c.command) \in 1..(Prompt + 2)
      BY <2>3, PromptFact DEF Frame, Handshake
    <3> QED
      BY <1>1, <2>3, <3>1 DEF NothingLost
  <2> QED
    BY <2>1, <2>2, <2>3 DEF NothingLost
<1> QED
  BY <1>5, <1>6, <1>7

\* What a pump takes from Pi is with the call afterwards.
LEMMA ReceivedFacts ==
  ASSUME NEW c, Sound(c, pipes, pi, expired), c.at \in Live \cup Handshake
  PROVE  LET d == Received(c) IN
         /\ d \in CallFrame
         /\ d.at = c.at /\ d.command = c.command /\ d.pending = c.pending - PartsWritten(c)
         /\ d.writePending = (PartsWritten(c) < c.pending)
         /\ d.awaiting = c.awaiting /\ d.position = c.position /\ d.settled = c.settled
         /\ d.result = c.result
         /\ d.eof => pi.group = {}
         /\ d.exit # "none" => d.exit = pi.exit
         /\ \A y \in Said : In(y, d.records) <=> Left(y, c, pipes.stdout)
         /\ \A y \in Said : Left(y, d, <<>>) <=> Left(y, c, pipes.stdout)
<1> DEFINE w == PartsWritten(c)
           d == Received(c)
<1>1. /\ c \in CallFrame /\ pipes \in PipesState /\ pi \in PiState
      /\ PartsSound(pipes.stdout, pi.due) /\ ProcessSound(c, pipes.stdout, pi)
  BY DEF Sound
<1>2. w \in 0..c.pending /\ w = PartsWritten(c) /\ Alternates(pipes.stdout)
  BY <1>1, PumpWrites DEF PartsSound
<1> HIDE DEF w, d
<1>3. /\ d \in CallFrame /\ d.at = c.at /\ d.command = c.command /\ d.pending = c.pending - w
      /\ d.writePending = (w < c.pending)
      /\ d.awaiting = c.awaiting /\ d.position = c.position /\ d.settled = c.settled
      /\ d.result = c.result
      /\ d.eof = (c.eof \/ (pi.group = {} /\ pipes.stdout = <<>>))
      /\ d.exit = (IF "leader" \in pi.group THEN c.exit ELSE pi.exit)
      /\ \A y \in Said : In(y, d.records) <=> Left(y, c, pipes.stdout)
  BY <1>1, <1>2, ReceivedFrame DEF d
<1>4. d.eof => pi.group = {}
  BY <1>1, <1>3 DEF ProcessSound
<1>5. d.exit # "none" => d.exit = pi.exit
  BY <1>1, <1>3 DEF ProcessSound
<1>6. \A y \in Said : Left(y, d, <<>>) <=> Left(y, c, pipes.stdout)
  BY <1>3, InEmpty DEF Left
<1> QED
  BY <1>3, <1>4, <1>5, <1>6 DEF d, w

\* What a pump leaves as it was.
LEMMA PumpKeeps ==
  ASSUME NEW c, Sound(c, pipes, pi, expired), c.at \in Live \cup Handshake,
         NEW d \in CallFrame, d.at \in Live \cup Handshake,
         d.eof => pi.group = {}, d.exit # "none" => d.exit = pi.exit,
         d.result = c.result
  PROVE  /\ PartsSound(<<>>, pi.due) /\ ProcessSound(d, <<>>, pi) /\ CandidateSound(d, pi)
         /\ ReturnSound(d, pi, expired)
         /\ AfterPump(c) \in PipesState /\ AfterPump(c).stdin = Pushed(c)
         /\ AfterPump(c).stdout = <<>> /\ AfterPump(c).open = pipes.open
         /\ StreamSound(Pushed(c), pi.got, pi.partial)
<1>1. /\ c \in CallFrame /\ PartsSound(pipes.stdout, pi.due) /\ ProcessSound(c, pipes.stdout, pi)
      /\ CandidateSound(c, pi) /\ ReturnSound(c, pi, expired)
  BY DEF Sound
<1>2. PartsSound(<<>>, pi.due)
  BY <1>1, EmptySeq DEF PartsSound, Alternates
<1>3. /\ c.at \notin {"waiting", "returned"} /\ d.at \notin {"waiting", "returned"}
      /\ c.at \notin Ending
  BY DEF Live, Handshake, Ending
<1>4. ProcessSound(d, <<>>, pi)
  BY <1>1, <1>3 DEF ProcessSound
<1>5. CandidateSound(d, pi) /\ ReturnSound(d, pi, expired)
  BY <1>1, <1>3 DEF CandidateSound, ReturnSound
<1> QED
  BY <1>2, <1>4, <1>5, PumpedPipes, PumpWrites

\* A call that goes on in its phase.
LEMMA ReceivedSound ==
  ASSUME NEW c, Sound(c, pipes, pi, expired), c.at \in Live \cup Handshake,
         c.at = "send" => PartsWritten(c) # c.pending
  PROVE  Sound(Received(c), AfterPump(c), pi, expired)
<1> DEFINE d == Received(c)
           w == PartsWritten(c)
<1>1. /\ c \in CallFrame /\ pi \in PiState /\ expired \subseteq Limits \cup {"cancelled"}
      /\ PhaseSound(c) /\ OpenSound(c, pipes.open) /\ DueSound(pi)
      /\ ArrivedSound(c, pipes.stdout, pi) /\ NothingLost(c, pipes.stdout, pi)
      /\ FaultShows(c, pipes.stdout, pi) /\ ~pi.torn
  BY DEF Sound
<1>2. /\ d \in CallFrame /\ d.at = c.at /\ d.command = c.command /\ d.pending = c.pending - w
      /\ d.writePending = (w < c.pending)
      /\ d.awaiting = c.awaiting /\ d.position = c.position /\ d.settled = c.settled
      /\ d.result = c.result /\ (d.eof => pi.group = {}) /\ (d.exit # "none" => d.exit = pi.exit)
      /\ \A y \in Said : Left(y, d, <<>>) <=> Left(y, c, pipes.stdout)
  BY ReceivedFacts
<1>3. w \in 0..c.pending /\ c.pending \in Nat
  BY <1>1, PumpWrites, FrameFields
<1>4. SendSound(c.at, c.command, c.pending - w, Pushed(c), pi.got, pi.partial)
  BY ReceivedSend
<1>w. c.at = "send" => w # c.pending
  OBVIOUS
<1> HIDE DEF d, w
<1>5. SendSound(d.at, d.command, d.pending, Pushed(c), pi.got, pi.partial)
  BY <1>2, <1>4
<1>6. ArrivedSound(d, <<>>, pi) /\ NothingLost(d, <<>>, pi) /\ FaultShows(d, <<>>, pi)
  BY <1>1, <1>2, SameNews
<1>7. PhaseSound(d)
  <2>1. ASSUME c.at \in Live \ {"send"}
        PROVE  d.pending = 0 /\ ~d.writePending
    <3>1. c.pending = 0
      BY <1>1, <2>1 DEF PhaseSound
    <3>0. w = 0
      BY <1>3, <3>1
    <3>2. c.pending - w = 0 /\ ~(w < c.pending)
      BY <3>0, <3>1
    <3> QED
      BY <1>2, <3>2, Zenon
  <2>2. ASSUME c.at = "send"
        PROVE  d.pending > 0 /\ d.writePending
    <3>1. c.pending - w > 0 /\ w < c.pending
      BY <1>3, <1>w, <2>2
    <3> QED
      BY <1>2, <3>1, Zenon
  <2> QED
    BY <1>1, <1>2, <2>1, <2>2 DEF PhaseSound
<1>8. OpenSound(d, pipes.open)
  BY <1>1, <1>2 DEF OpenSound
<1>9. /\ PartsSound(<<>>, pi.due) /\ ProcessSound(d, <<>>, pi) /\ CandidateSound(d, pi)
      /\ ReturnSound(d, pi, expired)
      /\ AfterPump(c) \in PipesState /\ AfterPump(c).stdin = Pushed(c)
      /\ AfterPump(c).stdout = <<>> /\ AfterPump(c).open = pipes.open
      /\ StreamSound(Pushed(c), pi.got, pi.partial)
  BY <1>2, PumpKeeps
<1>10. Sound(d, AfterPump(c), pi, expired)
  BY <1>1, <1>2, <1>5, <1>6, <1>7, <1>8, <1>9 DEF Sound
<1> QED
  BY <1>10 DEF d

\* A call whose frame is written waits for the answer.
LEMMA SentSound ==
  ASSUME NEW c, Sound(c, pipes, pi, expired), c.at = "send", PartsWritten(c) = c.pending,
         NEW d \in CallFrame,
         d.at = IF c.command = Prompt THEN "run" ELSE "read",
         d.command = c.command, d.pending = 0, ~d.writePending, d.awaiting = c.awaiting,
         d.position = c.position, d.result = c.result,
         d.eof => pi.group = {}, d.exit # "none" => d.exit = pi.exit,
         \A y \in Said : Left(y, d, <<>>) <=> Left(y, c, pipes.stdout)
  PROVE  Sound(d, AfterPump(c), pi, expired)
<1>1. /\ c \in CallFrame /\ pi \in PiState /\ expired \subseteq Limits \cup {"cancelled"}
      /\ PhaseSound(c) /\ DueSound(pi)
      /\ SendSound(c.at, c.command, c.pending, pipes.stdin, pi.got, pi.partial)
      /\ ArrivedSound(c, pipes.stdout, pi)
      /\ FaultShows(c, pipes.stdout, pi) /\ ~pi.torn
  BY DEF Sound
<1>2. c.at \in Live /\ d.at \in Live /\ d.at \in {"run", "read"}
  BY DEF Live
<1>3. /\ c.command \in 1..Prompt /\ c.position = 0 /\ c.awaiting = c.command
      /\ c.result = "none" /\ c.pending \in Nat /\ c.pending > 0
  BY <1>1, <1>2, FrameFields DEF PhaseSound
<1>4. /\ PartsSound(<<>>, pi.due) /\ ProcessSound(d, <<>>, pi) /\ CandidateSound(d, pi)
      /\ ReturnSound(d, pi, expired)
      /\ AfterPump(c) \in PipesState /\ AfterPump(c).stdin = Pushed(c)
      /\ AfterPump(c).stdout = <<>> /\ AfterPump(c).open = pipes.open
      /\ StreamSound(Pushed(c), pi.got, pi.partial)
  BY <1>2, PumpKeeps
<1>5. PhaseSound(d)
  BY <1>2, <1>3, PromptFact DEF PhaseSound, Live, Handshake
<1>6. OpenSound(d, pipes.open)
  BY <1>3 DEF OpenSound
<1>7. /\ \A i \in DOMAIN pi.got : pi.got[i] = i
      /\ Len(pi.got) = c.command - 1
  BY <1>1, <1>2 DEF SendSound
<1>8. SendSound(d.at, d.command, d.pending, Pushed(c), pi.got, pi.partial)
  <2>1. /\ \A i \in DOMAIN Pushed(c) : Pushed(c)[i].frame = c.command
        /\ EndOpen(Pushed(c), pi.partial) = 0
    BY <1>2, PushedLive
  <2>2. Delivered(c.command, Pushed(c), pi.got)
    <3>1. Frame(c.at, c.command) = c.command
      BY <1>1, <1>2, FrameFits
    <3>2. Filled(Pushed(c), pipes.stdin, pi.got, pi.partial, c.command, TRUE)
      BY <1>2, <1>3, <3>1, PumpWrites
    <3> QED
      BY <3>2 DEF Filled, Delivered
  <2> QED
    BY <1>2, <1>7, <2>1, <2>2 DEF SendSound, Live, Handshake
<1>9. ~In(c.command, pi.got)
  <2>1. DOMAIN pi.got = 1..Len(pi.got)
    BY <1>1, PiFields, LenProperties
  <2> QED
    BY <1>3, <1>7, <2>1 DEF In
<1>10. NothingLost(d, <<>>, pi)
  <2>1. CASE c.command = Prompt
    <3>1. pi.events = 0
      BY <1>1, <1>9, <2>1 DEF DueSound
    <3> QED
      BY <1>9, <2>1, <3>1 DEF NothingLost, Handshake
  <2>2. CASE c.command # Prompt
    BY <1>9, <2>2 DEF NothingLost, Handshake
  <2> QED
    BY <2>1, <2>2
<1>11. FaultShows(d, <<>>, pi)
  <2>1. OnItsWay(Junk, d, <<>>, pi.due) <=> OnItsWay(Junk, c, pipes.stdout, pi.due)
    BY SaidMembers DEF OnItsWay
  <2> QED
    BY <1>1, <1>2, <2>1 DEF FaultShows
<1>12. ArrivedSound(d, <<>>, pi)
  <2>1. \A k \in 1..(Prompt + 2) :
          /\ Left(Reply(k), d, <<>>) <=> Left(Reply(k), c, pipes.stdout)
          /\ OnItsWay(Reply(k), d, <<>>, pi.due) <=> OnItsWay(Reply(k), c, pipes.stdout, pi.due)
    BY SaidMembers DEF OnItsWay
  <2>2. \A n \in 1..4 : Left(Event(n), d, <<>>) <=> Left(Event(n), c, pipes.stdout)
    BY SaidMembers
  <2>3. Prompt \in 1..(Prompt + 2)
    BY PromptFact
  <2>4. \A n \in 1..4 : ~(n <= d.position)
    BY <1>3
  <2>5. d.awaiting # 0
    BY <1>3
  <2> QED
    BY <1>1, <2>1, <2>2, <2>3, <2>4, <2>5 DEF ArrivedSound
<1> QED
  BY <1>1, <1>4, <1>5, <1>6, <1>8, <1>10, <1>11, <1>12 DEF Sound

\* A call that is cancelled within a pump has written its parts.
LEMMA CancelledPump ==
  ASSUME NEW c, Sound(c, pipes, pi, expired), c.at \in Live
  PROVE  Sound(Failed(Dropped(c), "cancelled"), AfterPump(c), pi, expired \cup {"cancelled"})
<1> DEFINE e == Dropped(c)
           f == Failed(e, "cancelled")
           w == PartsWritten(c)
           x == expired \cup {"cancelled"}
<1>1. /\ c \in CallFrame /\ ProcessSound(c, pipes.stdout, pi)
      /\ expired \subseteq Limits \cup {"cancelled"}
  BY DEF Sound
<1>2. w \in 0..c.pending /\ w = PartsWritten(c) /\ c.pending \in Nat
  BY <1>1, PumpWrites, FrameFields
<1>p. /\ AfterPump(c) \in PipesState /\ AfterPump(c).stdin = Pushed(c)
      /\ AfterPump(c).stdout = <<>>
      /\ StreamSound(Pushed(c), pi.got, pi.partial)
  BY PumpedPipes, PumpWrites
<1>v. /\ \A i \in DOMAIN Pushed(c) : Pushed(c)[i].frame = c.command
      /\ w = c.pending => EndOpen(Pushed(c), pi.partial) = 0
  BY PushedLive
<1>x. x \in SUBSET (Limits \cup {"cancelled"})
  BY <1>1
<1> HIDE DEF e, w, x
<1>3. /\ e \in CallFrame /\ e.writePending = (w < c.pending) /\ e.eof = c.eof
      /\ e.exit = c.exit /\ e.records = c.records
  BY <1>1, <1>2, DroppedFrame DEF e
<1>r. "cancelled" \in Reasons \ {"candidate"}
  BY DEF Reasons
<1>4. /\ f \in CallFrame /\ f.result = "cancelled"
      /\ f.at = IF MayShake(e) THEN "clear_queue" ELSE "cleanup"
      /\ f.pending = 1 /\ f.records = e.records /\ f.eof = e.eof /\ f.exit = e.exit
  BY <1>3, <1>r, FailedFrame
<1> HIDE DEF f
<1>5. \A z \in Said : Left(z, f, <<>>) => Left(z, c, pipes.stdout)
  BY <1>3, <1>4, InEmpty DEF Left
<1>6. (f.eof => pi.group = {}) /\ (f.exit # "none" => f.exit = pi.exit)
  BY <1>1, <1>3, <1>4 DEF ProcessSound
<1>7. c.at \notin {"waiting", "returned"}
  BY DEF Live
<1>8. CASE f.at = "cleanup"
  <2>1. Sound(f, AfterPump(c), pi, x)
    BY <1>4, <1>5, <1>6, <1>7, <1>8, <1>p, <1>x, EndsSound
  <2> QED
    BY <2>1 DEF f, e, x
<1>9. CASE f.at = "clear_queue"
  <2>1. ~e.writePending
    BY <1>4, <1>9 DEF MayShake
  <2>2. ~(w < c.pending)
    BY <1>3, <2>1, Zenon
  <2>3. w = c.pending
    BY <1>2, <2>2
  <2>4. EndOpen(Pushed(c), pi.partial) = 0
    BY <1>v, <2>3
  <2>5. Sound(f, AfterPump(c), pi, x)
    BY <1>4, <1>5, <1>6, <1>9, <1>p, <1>v, <1>x, <2>4, ShakesSound
  <2> QED
    BY <2>5 DEF f, e, x
<1> QED
  BY <1>4, <1>8, <1>9

\* Whatever comes out of a pump is sound, if going on is.
LEMMA PumpSound ==
  ASSUME NEW c, Sound(c, pipes, pi, expired), c.at \in Live \cup Handshake,
         NEW d, Sound(d, AfterPump(c), pi, expired),
         d.at \in Live \cup Handshake \cup {"cleanup"}, d.result # "candidate",
         Pumped(c, d)
  PROVE  IInv'
<1>1. pipes' = AfterPump(c) /\ pi' = pi
  <2>1. pipes.stdout \in Seq(Said \cup {Opening})
    BY PipeFields DEF Sound
  <2>2. SubSeq(pipes.stdout, Len(pipes.stdout) + 1, Len(pipes.stdout)) = <<>>
    BY <2>1, SubSeqEmpty, LenProperties
  <2> QED
    BY <2>2 DEF Pumped, AfterPump, Pushed, Taken
<1>2. /\ d \in CallFrame /\ AfterPump(c) \in PipesState
      /\ expired \in SUBSET (Limits \cup {"cancelled"})
      /\ StreamSound(AfterPump(c).stdin, pi.got, pi.partial)
      /\ ProcessSound(d, AfterPump(c).stdout, pi) /\ CandidateSound(d, pi)
  BY DEF Sound
<1>3. ASSUME NEW e \in CallFrame, e.at = "cleanup", e.result # "candidate",
             e.records = d.records \/ e.records = <<>>, e.eof = d.eof, e.exit = d.exit
      PROVE  Sound(e, AfterPump(c), pi, expired)
  <2>1. \A z \in Said : Left(z, e, AfterPump(c).stdout) => Left(z, d, AfterPump(c).stdout)
    BY <1>3, InEmpty DEF Left
  <2>2. (e.eof => pi.group = {} /\ AfterPump(c).stdout = <<>>) /\ (e.exit # "none" => e.exit = pi.exit)
    BY <1>2, <1>3 DEF ProcessSound
  <2>3. d.at \notin {"waiting", "returned"}
    BY DEF Live, Handshake
  <2> QED
    BY <1>2, <1>3, <2>1, <2>2, <2>3, EndsSound
<1>4. CASE call' = d /\ expired' = expired
  BY <1>1, <1>4 DEF IInv
<1>5. ASSUME NEW err \in {"environment", "protocol"}, call' = Failed(d, err), expired' = expired
      PROVE  IInv'
  <2> DEFINE e == Failed(d, err)
  <2>1. err \in Reasons \ {"candidate"} /\ err # "cancelled"
    BY DEF Reasons
  <2>2. /\ e \in CallFrame /\ e.at = "cleanup" /\ e.result # "candidate"
        /\ e.records = d.records \/ e.records = <<>>
        /\ e.eof = d.eof /\ e.exit = d.exit
    BY <1>2, <2>1, FailedFrame
  <2> HIDE DEF e
  <2>3. Sound(e, AfterPump(c), pi, expired)
    BY <1>3, <2>2
  <2> QED
    BY <1>1, <1>5, <2>3 DEF IInv, e
<1>6. CASE call' = Stopped(d) /\ expired' = expired
  <2> DEFINE e == Stopped(d)
  <2>2. /\ e \in CallFrame /\ e.at = "cleanup" /\ e.result # "candidate"
        /\ e.records = <<>> /\ e.eof = d.eof /\ e.exit = d.exit
    BY <1>2, StoppedFrame
  <2> HIDE DEF e
  <2>3. Sound(e, AfterPump(c), pi, expired)
    BY <1>3, <2>2
  <2> QED
    BY <1>1, <1>6, <2>3 DEF IInv, e
<1>7. CASE call' = Failed(Dropped(c), "cancelled") /\ c.result = "none"
           /\ expired' = expired \cup {"cancelled"}
  <2>1. c.at \in Live
    BY <1>7 DEF Sound, PhaseSound
  <2>2. Sound(Failed(Dropped(c), "cancelled"), AfterPump(c), pi, expired \cup {"cancelled"})
    BY <2>1, CancelledPump
  <2> QED
    BY <1>1, <1>7, <2>2 DEF IInv
<1>8. PumpError(c, d) \in {"none", "environment", "protocol"}
  BY DEF PumpError
<1> QED
  BY <1>4, <1>5, <1>6, <1>7, <1>8 DEF Pumped

-------------------------------------------------------------------------------
(* Commands *)

\* A check that fails ends the call.
LEMMA StopCallStep == IInv /\ StopCall => IInv'
<1> SUFFICES ASSUME IInv, StopCall PROVE IInv'
  OBVIOUS
<1>1. call.at \in Live /\ Fails(Checked)
  BY DEF StopCall, Running, Live
<1>2. Checked \in Reasons \ {"none", "candidate"}
  BY DEF StopCall, Checked, Reasons
<1> QED
  BY <1>1, <1>2, FailsSound

\* Between commands nothing is under way.
LEMMA BetweenSound ==
  ASSUME NEW c, NEW p, NEW q, NEW x, Sound(c, p, q, x), c.at \in {"start", "before"},
         NEW d \in CallFrame, d.at \in {"before", "send"},
         d.at = "before" => d.command = c.command /\ d.pending = 0 /\ ~d.writePending /\ d.awaiting = 0,
         d.at = "send" => /\ d.command = c.command + 1 /\ d.awaiting = c.command + 1
                          /\ d.pending > 0 /\ d.writePending,
         d.position = c.position, d.result = c.result, d.eof => c.eof, d.exit = c.exit,
         \A z \in Said \ {Level} : Left(z, d, p.stdout) <=> Left(z, c, p.stdout)
  PROVE  Sound(d, p, q, x)
<1>1. /\ c \in CallFrame /\ p \in PipesState /\ q \in PiState
      /\ x \subseteq Limits \cup {"cancelled"}
      /\ PhaseSound(c) /\ StreamSound(p.stdin, q.got, q.partial)
      /\ SendSound(c.at, c.command, c.pending, p.stdin, q.got, q.partial)
      /\ PartsSound(p.stdout, q.due) /\ DueSound(q) /\ ArrivedSound(c, p.stdout, q)
      /\ ProcessSound(c, p.stdout, q) /\ FaultShows(c, p.stdout, q) /\ CandidateSound(c, q)
      /\ ~q.torn
  BY DEF Sound
<1>2. c.at \in Live /\ d.at \in Live /\ d.at \notin Ending /\ d.at \notin Handshake
  BY DEF Live, Ending, Handshake
<1>3. /\ c.position = 0 /\ c.result = "none" /\ c.command \in 0..InitCommands
      /\ c.pending = 0
  BY <1>1, <1>2, FrameFields, PromptFact DEF PhaseSound, Live
<1>4. PhaseSound(d)
  BY <1>2, <1>3, PromptFact DEF PhaseSound
<1>5. OpenSound(d, p.open) /\ CandidateSound(d, q) /\ ReturnSound(d, q, x)
      /\ NothingLost(d, p.stdout, q)
  BY <1>2, <1>3 DEF OpenSound, CandidateSound, ReturnSound, NothingLost
<1>6. /\ EndOpen(p.stdin, q.partial) = 0 /\ p.stdin = <<>> /\ Len(q.got) = c.command
      /\ \A i \in DOMAIN q.got : q.got[i] = i
  BY <1>1, <1>2, <1>3 DEF SendSound
<1>7. SendSound(d.at, d.command, d.pending, p.stdin, q.got, q.partial)
  <2>1. DOMAIN p.stdin = {}
    BY <1>6
  <2>2. d.at = "send" => Len(q.got) = d.command - 1
    BY <1>3, <1>6, PromptFact
  <2> QED
    BY <1>2, <1>6, <2>1, <2>2 DEF SendSound
<1>8. ProcessSound(d, p.stdout, q)
  BY <1>1 DEF ProcessSound
<1>9. FaultShows(d, p.stdout, q)
  <2>1. OnItsWay(Junk, d, p.stdout, q.due) <=> OnItsWay(Junk, c, p.stdout, q.due)
    BY SaidMembers, SaidDiffers DEF OnItsWay
  <2> QED
    BY <1>1, <1>2, <2>1 DEF FaultShows
<1>10. ArrivedSound(d, p.stdout, q)
  <2>1. \A k \in 1..(Prompt + 2) :
          /\ Left(Reply(k), d, p.stdout) <=> Left(Reply(k), c, p.stdout)
          /\ OnItsWay(Reply(k), d, p.stdout, q.due) <=> OnItsWay(Reply(k), c, p.stdout, q.due)
    BY SaidMembers, SaidDiffers DEF OnItsWay
  <2>2. \A n \in 1..4 : Left(Event(n), d, p.stdout) <=> Left(Event(n), c, p.stdout)
    BY SaidMembers, SaidDiffers
  <2>3. Prompt \in 1..(Prompt + 2)
    BY PromptFact
  <2>4. \A n \in 1..4 : ~(n <= d.position)
    BY <1>3
  <2> QED
    BY <1>1, <2>1, <2>2, <2>3, <2>4 DEF ArrivedSound
<1> QED
  BY <1>1, <1>4, <1>5, <1>7, <1>8, <1>9, <1>10 DEF Sound

\* The first look at a session.
LEMMA StartSessionStep == IInv /\ StartSession => IInv'
<1> SUFFICES ASSUME IInv, StartSession PROVE IInv'
  OBVIOUS
<1> DEFINE d == Received(call)
           b == [d EXCEPT !.at = "before"]
<1>1. call.at = "start" /\ call.at \in Live /\ Sound(call, pipes, pi, expired)
  BY DEF StartSession, IInv, Live
<1>2. CASE Fails("protocol")
  <2>1. "protocol" \in Reasons \ {"none", "candidate"}
    BY DEF Reasons
  <2> QED
    BY <1>1, <1>2, <2>1, FailsSound
<1>3. CASE Pumped(call, b)
  <2>1. Sound(d, AfterPump(call), pi, expired)
    BY <1>1, ReceivedSound
  <2>2. d \in CallFrame /\ d.at = "start"
    BY <1>1, ReceivedFacts
  <2>p. Pumped(call, b)
    BY <1>3
  <2> HIDE DEF d
  <2>3. /\ b \in CallFrame /\ b.at = "before" /\ b.command = d.command /\ b.pending = d.pending
        /\ b.writePending = d.writePending /\ b.awaiting = d.awaiting /\ b.position = d.position
        /\ b.result = d.result /\ b.eof = d.eof /\ b.exit = d.exit /\ b.records = d.records
    BY <2>2 DEF CallFrame, Phases, Live
  <2> HIDE DEF b
  <2>4. d.pending = 0 /\ ~d.writePending /\ d.awaiting = 0 /\ d.result = "none"
    BY <2>1, <2>2 DEF Sound, PhaseSound, Live
  <2>5. Sound(b, AfterPump(call), pi, expired)
    <3>1. \A z \in Said : Left(z, b, AfterPump(call).stdout) <=> Left(z, d, AfterPump(call).stdout)
      BY <2>3 DEF Left
    <3> QED
      BY <2>1, <2>2, <2>3, <2>4, <3>1, BetweenSound
  <2>6. b.at \in Live \cup Handshake \cup {"cleanup"} /\ b.result # "candidate"
    BY <2>3, <2>4 DEF Live
  <2> QED
    BY <1>1, <2>p, <2>5, <2>6, PumpSound
<1> QED
  BY <1>2, <1>3 DEF StartSession

\* A session is drained before each command.
LEMMA BeforeCommandStep == IInv /\ BeforeCommand => IInv'
<1> SUFFICES ASSUME IInv, BeforeCommand PROVE IInv'
  OBVIOUS
<1> DEFINE c == [call EXCEPT !.records = <<>>]
           d == Received(c)
           f == Failed(d, "environment")
           n == [d EXCEPT !.at = "send", !.command = @ + 1, !.awaiting = c.command + 1,
                          !.pending = PartsOf(c.command + 1), !.writePending = TRUE]
           g == IF d.eof \/ d.exit # "none" THEN f
                ELSE IF d.records = <<>> /\ ~d.tail /\ Taken(c) = <<>> THEN n ELSE d
<1>1. /\ call.at = "before" /\ call.at \in Live /\ Sound(call, pipes, pi, expired)
      /\ call \in CallFrame
  BY DEF BeforeCommand, IInv, Live, Sound
<1>2. CASE Fails("protocol")
  <2>1. "protocol" \in Reasons \ {"none", "candidate"}
    BY DEF Reasons
  <2> QED
    BY <1>1, <1>2, <2>1, FailsSound
<1>3. CASE Leftover(call) = {} /\ Pumped(c, g)
  <2>p. Pumped(c, g)
    BY <1>3
  <2>1. \A z \in Said \ {Level} : ~In(z, call.records)
    BY <1>3 DEF Leftover, In
  <2>2. /\ c \in CallFrame /\ c.at = call.at /\ c.command = call.command /\ c.pending = call.pending
        /\ c.writePending = call.writePending /\ c.awaiting = call.awaiting /\ c.records = <<>>
        /\ c.position = call.position /\ c.result = call.result /\ c.eof = call.eof
        /\ c.exit = call.exit
    BY <1>1, EmptySeq DEF CallFrame
  <2> HIDE DEF c
  <2>3. Sound(c, pipes, pi, expired)
    <3>1. \A z \in Said \ {Level} : Left(z, c, pipes.stdout) <=> Left(z, call, pipes.stdout)
      BY <2>1, <2>2, InEmpty DEF Left
    <3>2. call.pending = 0 /\ ~call.writePending /\ call.awaiting = 0
      BY <1>1 DEF Sound, PhaseSound
    <3> QED
      BY <1>1, <2>2, <3>1, <3>2, BetweenSound
  <2>4. c.at \in Live
    BY <1>1, <2>2
  <2>5. Sound(d, AfterPump(c), pi, expired) /\ d \in CallFrame /\ d.at = "before"
    BY <1>1, <2>2, <2>3, <2>4, ReceivedSound, ReceivedFacts
  <2>6. d.result = "none" /\ d.command \in 0..InitCommands /\ d.pending = 0 /\ ~d.writePending
    BY <2>5, FrameFields, PromptFact DEF Sound, PhaseSound, Live
  <2>7. AfterPump(c) \in PipesState /\ expired \in SUBSET (Limits \cup {"cancelled"})
        /\ StreamSound(AfterPump(c).stdin, pi.got, pi.partial) /\ AfterPump(c).stdout = <<>>
        /\ ProcessSound(d, AfterPump(c).stdout, pi)
    BY <2>3, <2>4, <2>5, PumpedPipes DEF Sound
  <2>k. c.command = d.command
    BY <2>3, <2>4, ReceivedFacts
  <2> HIDE DEF d
  <2>8. CASE g = f
    <3>1. "environment" \in Reasons \ {"candidate"} /\ "environment" # "cancelled"
      BY DEF Reasons
    <3>2. /\ f \in CallFrame /\ f.at = "cleanup" /\ f.result # "candidate"
          /\ f.records = d.records \/ f.records = <<>>
          /\ f.eof = d.eof /\ f.exit = d.exit
      BY <2>5, <3>1, FailedFrame
    <3> HIDE DEF f
    <3>3. \A z \in Said : Left(z, f, AfterPump(c).stdout) => Left(z, d, AfterPump(c).stdout)
      BY <3>2, InEmpty DEF Left
    <3>4. (f.eof => pi.group = {} /\ AfterPump(c).stdout = <<>>)
          /\ (f.exit # "none" => f.exit = pi.exit)
      BY <2>7, <3>2 DEF ProcessSound
    <3>5. Sound(f, AfterPump(c), pi, expired)
      BY <2>5, <2>7, <3>2, <3>3, <3>4, EndsSound
    <3>6. Pumped(c, f)
      BY <2>p, <2>8
    <3> QED
      BY <2>3, <2>4, <3>2, <3>5, <3>6, PumpSound
  <2>9. CASE g = n
    <3> DEFINE k == d.command + 1
               m == PartsOf(c.command + 1)
    <3>1. k \in 1..Prompt /\ k = c.command + 1 /\ m \in Nat /\ m > 0
      BY <2>6, <2>k, PromptFact, CallAssumption DEF PartsOf
    <3>2. n = [d EXCEPT !.at = "send", !.command = k, !.awaiting = k, !.pending = m,
                        !.writePending = TRUE]
      BY <2>k
    <3>3. k = d.command + 1
      OBVIOUS
    <3> HIDE DEF k, m, n
    <3>a. "send" \in Phases /\ k \in 0..Prompt
      BY <3>1 DEF Phases, Live
    <3>4. /\ n \in CallFrame /\ n.at = "send" /\ n.command = k /\ n.awaiting = k
          /\ n.pending = m /\ n.writePending = TRUE /\ n.position = d.position /\ n.result = d.result
          /\ n.eof = d.eof /\ n.exit = d.exit /\ n.records = d.records
      BY <2>5, <3>1, <3>2, <3>a DEF CallFrame
    <3>5. \A z \in Said \ {Level} : Left(z, n, AfterPump(c).stdout) <=> Left(z, d, AfterPump(c).stdout)
      BY <3>4 DEF Left
    <3>6. Sound(n, AfterPump(c), pi, expired)
      <4>1. n.writePending
        BY <3>4
      <4> QED
        BY <2>5, <3>1, <3>3, <3>4, <3>5, <4>1, BetweenSound
    <3>7. n.at \in Live \cup Handshake \cup {"cleanup"} /\ n.result # "candidate"
      BY <2>6, <3>4 DEF Live
    <3>8. Pumped(c, n)
      BY <2>p, <2>9
    <3> QED
      BY <2>3, <2>4, <3>6, <3>7, <3>8, PumpSound
  <2>10. CASE g = d
    <3>1. d.at \in Live \cup Handshake \cup {"cleanup"} /\ d.result # "candidate"
      BY <2>5, <2>6 DEF Live
    <3>2. Pumped(c, d)
      BY <2>p, <2>10
    <3> QED
      BY <2>3, <2>4, <2>5, <3>1, <3>2, PumpSound
  <2>11. g = f \/ g = n \/ g = d
    OBVIOUS
  <2> QED
    BY <2>8, <2>9, <2>10, <2>11
<1>4. Fails("protocol") \/ (Leftover(call) = {} /\ Pumped(c, g))
  BY DEF BeforeCommand
<1> QED
  BY <1>2, <1>3, <1>4

\* A frame is written part by part.
LEMMA SendStep == IInv /\ Send => IInv'
<1> SUFFICES ASSUME IInv, Send PROVE IInv'
  OBVIOUS
<1> DEFINE d == Received(call)
           after == IF call.command = Prompt THEN "run" ELSE "read"
           n == [d EXCEPT !.at = after]
<1>1. call.at = "send" /\ call.at \in Live /\ Sound(call, pipes, pi, expired) /\ call \in CallFrame
  BY DEF Send, IInv, Live, Sound
<1>2. /\ d \in CallFrame /\ d.at = "send" /\ d.command = call.command
      /\ d.pending = call.pending - PartsWritten(call)
      /\ d.writePending = (PartsWritten(call) < call.pending)
      /\ d.awaiting = call.awaiting /\ d.position = call.position /\ d.result = call.result
      /\ d.eof => pi.group = {}
      /\ d.exit # "none" => d.exit = pi.exit
      /\ \A y \in Said : Left(y, d, <<>>) <=> Left(y, call, pipes.stdout)
  BY <1>1, ReceivedFacts
<1>3. PartsWritten(call) \in 0..call.pending /\ call.pending \in Nat /\ call.result = "none"
  BY <1>1, PumpWrites, FrameFields DEF Sound, PhaseSound
<1>p. Pumped(call, IF d.pending = 0 THEN n ELSE d)
  BY DEF Send
<1>q. d.pending = 0 \/ d.pending # 0
  OBVIOUS
<1>4. CASE d.pending = 0
  <2>1. PartsWritten(call) = call.pending
    BY <1>2, <1>3, <1>4
  <2>2. ~(PartsWritten(call) < call.pending)
    BY <1>3, <2>1
  <2>3. ~d.writePending
    BY <1>2, <2>2, Zenon
  <2>4. after \in Phases /\ after \in Live /\ after = IF call.command = Prompt THEN "run" ELSE "read"
    BY DEF Phases, Live
  <2>5. Pumped(call, n)
    BY <1>p, <1>4
  <2> HIDE DEF d, after
  <2>6. /\ n \in CallFrame /\ n.at = after /\ n.command = d.command /\ n.pending = d.pending
        /\ n.writePending = d.writePending /\ n.awaiting = d.awaiting /\ n.position = d.position
        /\ n.result = d.result /\ n.eof = d.eof /\ n.exit = d.exit /\ n.records = d.records
    BY <1>2, <2>4 DEF CallFrame
  <2> HIDE DEF n
  <2>7. \A y \in Said : Left(y, n, <<>>) <=> Left(y, call, pipes.stdout)
    BY <1>2, <2>6 DEF Left
  <2>8. Sound(n, AfterPump(call), pi, expired)
    BY <1>1, <1>2, <1>4, <2>1, <2>3, <2>4, <2>6, <2>7, SentSound
  <2>9. n.at \in Live \cup Handshake \cup {"cleanup"} /\ n.result # "candidate"
    BY <1>2, <1>3, <2>4, <2>6
  <2> QED
    BY <1>1, <2>5, <2>8, <2>9, PumpSound
<1>5. CASE d.pending # 0
  <2>1. PartsWritten(call) # call.pending
    BY <1>2, <1>3, <1>5
  <2>2. Sound(d, AfterPump(call), pi, expired)
    BY <1>1, <2>1, ReceivedSound
  <2>3. d.at \in Live \cup Handshake \cup {"cleanup"} /\ d.result # "candidate"
    BY <1>2, <1>3 DEF Live
  <2>4. Pumped(call, d)
    BY <1>p, <1>5
  <2> QED
    BY <1>1, <2>2, <2>3, <2>4, PumpSound
<1> QED
  BY <1>4, <1>5, <1>q

\* A record that has come is acted upon, and what is left behind it stays.
LEMMA RecordTaken ==
  ASSUME NEW c \in CallFrame, c.records # <<>>
  PROVE  /\ c.records[1] \in Said /\ Tail(c.records) \in Seq(Said)
         /\ In(c.records[1], c.records)
         /\ \A z, s : Left(z, c, s) <=> z = c.records[1] \/ In(z, s) \/ In(z, Tail(c.records))
<1>1. c.records \in Seq(Said)
  BY FrameFields
<1>2. Tail(c.records) \in Seq(Said) /\ 1 \in DOMAIN c.records /\ c.records[1] \in Said
  <2>1. Len(c.records) \in Nat /\ Len(c.records) # 0 /\ DOMAIN c.records = 1..Len(c.records)
    BY <1>1, LenProperties, EmptySeq
  <2>2. 1 \in DOMAIN c.records
    BY <2>1
  <2> QED
    BY <1>1, <2>2, HeadTailProperties, ElementOfSeq
<1>3. \A z : In(z, c.records) <=> z = c.records[1] \/ In(z, Tail(c.records))
  BY <1>1, InTail
<1> QED
  BY <1>2, <1>3 DEF Left, In

\* A record that does not fit ends the call.
LEMMA RecordRefused ==
  ASSUME IInv, call.at \in Live \cup Handshake, NEW c \in CallFrame,
         \A z \in Said : In(z, c.records) => Left(z, call, pipes.stdout),
         c.result \in Reasons \ {"candidate"}, c.eof = call.eof, c.exit = call.exit,
         call' = Failed(c, "protocol") \/ call' = Stopped(c),
         UNCHANGED <<pipes, pi, expired>>
  PROVE  IInv'
<1>1. Sound(call, pipes, pi, expired) /\ ProcessSound(call, pipes.stdout, pi)
      /\ pipes \in PipesState /\ expired \in SUBSET (Limits \cup {"cancelled"})
      /\ StreamSound(pipes.stdin, pi.got, pi.partial)
  BY DEF IInv, Sound
<1>2. call.at \notin {"waiting", "returned"}
  BY DEF Live, Handshake
<1>3. ASSUME NEW e \in CallFrame, e.at = "cleanup", e.result # "candidate",
             e.records = c.records \/ e.records = <<>>, e.eof = c.eof, e.exit = c.exit,
             call' = e
      PROVE  IInv'
  <2>1. \A z \in Said : Left(z, e, pipes.stdout) => Left(z, call, pipes.stdout)
    BY <1>3, InEmpty DEF Left
  <2>2. (e.eof => pi.group = {} /\ pipes.stdout = <<>>) /\ (e.exit # "none" => e.exit = pi.exit)
    BY <1>1, <1>3 DEF ProcessSound
  <2>3. Sound(e, pipes, pi, expired)
    BY <1>1, <1>2, <1>3, <2>1, <2>2, EndsSound
  <2> QED
    BY <1>3, <2>3 DEF IInv
<1>4. CASE call' = Failed(c, "protocol")
  <2>1. "protocol" \in Reasons \ {"candidate"} /\ "protocol" # "cancelled"
    BY DEF Reasons
  <2> DEFINE e == Failed(c, "protocol")
  <2>2. /\ e \in CallFrame /\ e.at = "cleanup" /\ e.result # "candidate"
        /\ e.records = c.records \/ e.records = <<>>
        /\ e.eof = c.eof /\ e.exit = c.exit
    BY <2>1, FailedFrame
  <2>3. call' = e
    BY <1>4
  <2> HIDE DEF e
  <2> QED
    BY <1>3, <2>2, <2>3
<1>5. CASE call' = Stopped(c)
  <2> DEFINE e == Stopped(c)
  <2>2. /\ e \in CallFrame /\ e.at = "cleanup" /\ e.result # "candidate"
        /\ e.records = c.records \/ e.records = <<>>
        /\ e.eof = c.eof /\ e.exit = c.exit
    BY StoppedFrame
  <2>3. call' = e
    BY <1>5
  <2> HIDE DEF e
  <2> QED
    BY <1>3, <2>2, <2>3
<1> QED
  BY <1>4, <1>5

\* The call does not wait in vain for the answer of a command.
LEMMA ReadTakes ==
  ASSUME NEW c, NEW p, NEW q, NEW x, Sound(c, p, q, x), c.at = "read",
         NEW d \in CallFrame, d.command = c.command, d.pending = c.pending,
         d.writePending = c.writePending, d.position = c.position, d.result = c.result,
         d.eof = c.eof, d.exit = c.exit,
         NEW record, record \in Said, In(record, c.records),
         \A z \in Said : Left(z, d, p.stdout) => Left(z, c, p.stdout),
         \A z \in Said : Left(z, c, p.stdout) => z = record \/ Left(z, d, p.stdout),
         \/ record = Level /\ d.at = "read" /\ d.awaiting = c.awaiting
         \/ record = Reply(c.command) /\ d.at = "before" /\ d.awaiting = 0
  PROVE  Sound(d, p, q, x)
<1>1. /\ c \in CallFrame /\ p \in PipesState /\ q \in PiState
      /\ x \subseteq Limits \cup {"cancelled"}
      /\ PhaseSound(c) /\ StreamSound(p.stdin, q.got, q.partial)
      /\ SendSound(c.at, c.command, c.pending, p.stdin, q.got, q.partial)
      /\ PartsSound(p.stdout, q.due) /\ DueSound(q) /\ ArrivedSound(c, p.stdout, q)
      /\ NothingLost(c, p.stdout, q)
      /\ ProcessSound(c, p.stdout, q) /\ FaultShows(c, p.stdout, q) /\ CandidateSound(c, q)
      /\ ~q.torn
  BY DEF Sound
<1>2. c.at \in Live /\ d.at \in Live /\ d.at \notin Ending /\ d.at \notin Handshake
      /\ d.at \in {"read", "before"}
  BY DEF Live, Ending, Handshake
<1>3. /\ c.position = 0 /\ c.result = "none" /\ c.command \in 1..InitCommands
      /\ c.pending = 0 /\ ~c.writePending
  BY <1>1, <1>2, FrameFields, PromptFact DEF PhaseSound, Live
<1>4. PhaseSound(d)
  BY <1>1, <1>2, <1>3, PromptFact DEF PhaseSound
<1>5. OpenSound(d, p.open) /\ CandidateSound(d, q) /\ ReturnSound(d, q, x)
  BY <1>2, <1>3 DEF OpenSound, CandidateSound, ReturnSound
<1>6. ProcessSound(d, p.stdout, q)
  BY <1>1, <1>2 DEF ProcessSound, Live
<1>7. record # Junk /\ \A n \in 1..4 : record # Event(n)
  BY SaidDiffers
<1>8. FaultShows(d, p.stdout, q)
  <2>1. OnItsWay(Junk, d, p.stdout, q.due) <=> OnItsWay(Junk, c, p.stdout, q.due)
    BY <1>7, SaidMembers DEF OnItsWay
  <2> QED
    BY <1>1, <1>2, <2>1 DEF FaultShows
<1>9. ArrivedSound(d, p.stdout, q)
  <2>1. \A k \in 1..(Prompt + 2) :
          /\ Left(Reply(k), d, p.stdout) => Left(Reply(k), c, p.stdout)
          /\ OnItsWay(Reply(k), d, p.stdout, q.due) => OnItsWay(Reply(k), c, p.stdout, q.due)
    BY SaidMembers DEF OnItsWay
  <2>2. \A n \in 1..4 : Left(Event(n), d, p.stdout) => Left(Event(n), c, p.stdout)
    BY SaidMembers
  <2>3. Prompt \in 1..(Prompt + 2)
    BY PromptFact
  <2>4. \A n \in 1..4 : ~(n <= d.position)
    BY <1>3
  <2> QED
    BY <1>1, <1>2, <2>1, <2>2, <2>3, <2>4 DEF ArrivedSound
<1>10. SendSound(d.at, d.command, d.pending, p.stdin, q.got, q.partial) /\ NothingLost(d, p.stdout, q)
  <2>1. CASE record = Level
    <3>1. \A k \in 1..(Prompt + 2) :
            OnItsWay(Reply(k), c, p.stdout, q.due) => OnItsWay(Reply(k), d, p.stdout, q.due)
      BY <2>1, SaidMembers, SaidDiffers DEF OnItsWay
    <3>2. c.command \in 1..(Prompt + 2)
      BY <1>3, PromptFact
    <3>3. d.at = "read"
      BY <2>1, SaidDiffers
    <3> QED
      BY <1>1, <1>2, <3>1, <3>2, <3>3 DEF SendSound, NothingLost
  <2>2. CASE record = Reply(c.command)
    <3>1. d.at = "before"
      BY <2>2, SaidDiffers
    <3>2. In(c.command, q.got)
      <4>1. OnItsWay(Reply(c.command), c, p.stdout, q.due)
        BY <2>2 DEF OnItsWay, Left
      <4>2. c.command \in 1..(Prompt + 2)
        BY <1>3, PromptFact
      <4> QED
        BY <1>1, <4>1, <4>2 DEF ArrivedSound
    <3>3. /\ \A i \in DOMAIN q.got : q.got[i] = i
          /\ \A i \in DOMAIN p.stdin : p.stdin[i].frame = c.command
          /\ Len(q.got) = c.command \/ Len(q.got) = c.command - 1
          /\ EndOpen(p.stdin, q.partial) = 0
      BY <1>1, <1>2, <1>3 DEF SendSound
    <3>4. DOMAIN q.got = 1..Len(q.got) /\ Len(q.got) \in Nat
      BY <1>1, PiFields, LenProperties
    <3>5. Len(q.got) = c.command
      BY <1>3, <3>2, <3>3, <3>4, PromptFact DEF In
    <3>6. p.stdin = <<>>
      <4>1. \A i \in DOMAIN p.stdin : FALSE
        BY <1>1, <1>3, <3>3, <3>5, PromptFact DEF StreamSound
      <4>2. p.stdin \in Seq(PartRow)
        BY <1>1, PipeFields
      <4>3. Len(p.stdin) = 0
        <5>1. Len(p.stdin) \in Nat /\ DOMAIN p.stdin = 1..Len(p.stdin)
          BY <4>2, LenProperties
        <5>2. 1 \notin 1..Len(p.stdin)
          BY <4>1, <5>1
        <5> QED
          BY <5>1, <5>2
      <4> QED
        BY <4>2, <4>3, EmptySeq
    <3>7. DOMAIN p.stdin = {}
      BY <3>6
    <3> QED
      BY <1>2, <3>1, <3>3, <3>5, <3>6, <3>7 DEF SendSound, NothingLost
  <2> QED
    BY <2>1, <2>2
<1> QED
  BY <1>1, <1>4, <1>5, <1>6, <1>8, <1>9, <1>10 DEF Sound

\* A command's answer is waited for.
LEMMA ReadStep == IInv /\ Read => IInv'
<1> SUFFICES ASSUME IInv, Read PROVE IInv'
  OBVIOUS
<1> DEFINE record == call.records[1]
           tail == Tail(call.records)
           rest == [call EXCEPT !.records = tail]
           answered == [rest EXCEPT !.awaiting = 0, !.at = "before"]
<1>1. call.at = "read" /\ call.at \in Live /\ Sound(call, pipes, pi, expired)
      /\ call \in CallFrame /\ PhaseSound(call)
  BY DEF Read, IInv, Live, Sound
<1>2. CASE Fails("environment")
  <2>1. "environment" \in Reasons \ {"none", "candidate"}
    BY DEF Reasons
  <2> QED
    BY <1>1, <1>2, <2>1, FailsSound
<1>3. CASE Pumped(call, Received(call))
  <2>1. Sound(Received(call), AfterPump(call), pi, expired)
    BY <1>1, ReceivedSound
  <2>2. Received(call).at \in Live /\ Received(call).result # "candidate"
    BY <1>1, ReceivedFacts DEF PhaseSound
  <2> QED
    BY <1>1, <1>3, <2>1, <2>2, PumpSound
<1>4. CASE /\ call.records # <<>> /\ UNCHANGED <<pipes, pi, expired>>
           /\ call' = IF record = Level THEN rest
                      ELSE IF record # Reply(call.command) THEN Failed(rest, "protocol")
                      ELSE IF call.command = InitCommands /\ rest.records # <<>>
                      THEN Failed(rest, "protocol")
                      ELSE answered
  <2>1. /\ record \in Said /\ tail \in Seq(Said) /\ In(record, call.records)
        /\ \A z : Left(z, call, pipes.stdout) <=>
                    z = record \/ In(z, pipes.stdout) \/ In(z, tail)
    BY <1>1, <1>4, RecordTaken
  <2>c. \/ record = Level /\ call' = rest
        \/ call' = Failed(rest, "protocol")
        \/ record = Reply(call.command) /\ call' = answered
    BY <1>4
  <2>u. pipes' = pipes /\ pi' = pi /\ expired' = expired
    BY <1>4
  <2> HIDE DEF record, tail
  <2>2. /\ rest \in CallFrame /\ rest.at = call.at /\ rest.command = call.command
        /\ rest.pending = call.pending /\ rest.writePending = call.writePending
        /\ rest.awaiting = call.awaiting /\ rest.records = tail /\ rest.eof = call.eof
        /\ rest.exit = call.exit /\ rest.position = call.position /\ rest.result = call.result
    BY <1>1, <2>1, TailFrame
  <2> HIDE DEF rest
  <2>3. /\ \A z \in Said : Left(z, rest, pipes.stdout) => Left(z, call, pipes.stdout)
        /\ \A z \in Said : Left(z, call, pipes.stdout) => z = record \/ Left(z, rest, pipes.stdout)
    BY <2>1, <2>2 DEF Left
  <2>4. call.result = "none"
    BY <1>1 DEF PhaseSound
  <2>5. CASE record = Level /\ call' = rest
    <3>1. Sound(rest, pipes, pi, expired)
      BY <1>1, <2>1, <2>2, <2>3, <2>5, ReadTakes
    <3> QED
      BY <2>u, <2>5, <3>1 DEF IInv
  <2>6. CASE call' = Failed(rest, "protocol")
    <3>1. \A z \in Said : In(z, rest.records) => Left(z, call, pipes.stdout)
      BY <2>3 DEF Left
    <3>2. rest.result \in Reasons \ {"candidate"}
      BY <2>2, <2>4 DEF Reasons
    <3> QED
      BY <1>1, <2>2, <2>6, <2>u, <3>1, <3>2, RecordRefused
  <2>7. CASE record = Reply(call.command) /\ call' = answered
    <3>1. /\ answered \in CallFrame /\ answered.at = "before" /\ answered.command = rest.command
          /\ answered.pending = rest.pending /\ answered.writePending = rest.writePending
          /\ answered.awaiting = 0 /\ answered.records = tail /\ answered.eof = rest.eof
          /\ answered.exit = rest.exit /\ answered.position = rest.position
          /\ answered.result = rest.result
      <4>1. "before" \in Phases /\ 0 \in 0..Prompt
        BY PromptFact DEF Phases, Live
      <4> QED
        BY <2>2, <4>1 DEF CallFrame
    <3>2. call' = answered
      BY <2>7
    <3> HIDE DEF answered
    <3>3. /\ \A z \in Said : Left(z, answered, pipes.stdout) => Left(z, call, pipes.stdout)
          /\ \A z \in Said : Left(z, call, pipes.stdout) => z = record \/ Left(z, answered, pipes.stdout)
      BY <2>2, <2>3, <3>1 DEF Left
    <3>4. Sound(answered, pipes, pi, expired)
      BY <1>1, <2>1, <2>2, <2>7, <3>1, <3>3, ReadTakes
    <3> QED
      BY <2>u, <3>2, <3>4 DEF IInv
  <2> QED
    BY <2>c, <2>5, <2>6, <2>7
<1> QED
  BY <1>2, <1>3, <1>4 DEF Read

-------------------------------------------------------------------------------
(* The run of the prompt *)

\* A run takes an event after the other, and its answer, until both have come.
LEMMA RunTakes ==
  ASSUME NEW c, NEW p, NEW q, NEW x, Sound(c, p, q, x), c.at = "run",
         NEW d \in CallFrame, d.command = c.command, d.pending = c.pending,
         d.writePending = c.writePending, d.result = c.result,
         d.eof = c.eof, d.exit = c.exit,
         NEW record, record \in Said, In(record, c.records),
         \A z \in Said : Left(z, d, p.stdout) => Left(z, c, p.stdout),
         \A z \in Said : Left(z, c, p.stdout) => z = record \/ Left(z, d, p.stdout),
         \/ record = Reply(Prompt) /\ d.awaiting = 0 /\ d.position = c.position
         \/ record = Update /\ d.awaiting = c.awaiting /\ d.position = c.position
         \/ /\ c.position < 4 /\ record = Event(c.position + 1)
            /\ d.awaiting = c.awaiting /\ d.position = c.position + 1,
         d.at = IF d.position = 4 /\ d.awaiting = 0 THEN "closing" ELSE "run",
         NEW r \in PipesState, r.stdin = p.stdin, r.stdout = p.stdout,
         r.open => p.open /\ d.position # 4
  PROVE  Sound(d, r, q, x)
<1>1. /\ c \in CallFrame /\ p \in PipesState /\ q \in PiState
      /\ x \subseteq Limits \cup {"cancelled"}
      /\ PhaseSound(c) /\ StreamSound(p.stdin, q.got, q.partial)
      /\ SendSound(c.at, c.command, c.pending, p.stdin, q.got, q.partial)
      /\ PartsSound(p.stdout, q.due) /\ DueSound(q) /\ ArrivedSound(c, p.stdout, q)
      /\ NothingLost(c, p.stdout, q)
      /\ ProcessSound(c, p.stdout, q) /\ FaultShows(c, p.stdout, q) /\ CandidateSound(c, q)
      /\ ~q.torn
  BY DEF Sound
<1>2. c.at \in Live /\ d.at \in Live /\ d.at \notin Ending /\ d.at \notin Handshake
      /\ d.at \in {"run", "closing"}
  BY DEF Live, Ending, Handshake
<1>3. /\ c.position \in 0..4 /\ c.result = "none" /\ c.command = Prompt
      /\ c.pending = 0 /\ ~c.writePending /\ c.awaiting \in {0, Prompt}
  BY <1>1, <1>2, FrameFields DEF PhaseSound, Live
<1>4. PhaseSound(d)
  BY <1>1, <1>2, <1>3, PromptFact DEF PhaseSound
<1>5. OpenSound(d, r.open) /\ CandidateSound(d, q) /\ ReturnSound(d, q, x)
  BY <1>2, <1>3 DEF OpenSound, CandidateSound, ReturnSound
<1>6. ProcessSound(d, r.stdout, q)
  BY <1>1, <1>2 DEF ProcessSound, Live
<1>7. record # Junk
  BY SaidDiffers
<1>8. FaultShows(d, r.stdout, q)
  <2>1. OnItsWay(Junk, d, p.stdout, q.due) <=> OnItsWay(Junk, c, p.stdout, q.due)
    BY <1>7, SaidMembers DEF OnItsWay
  <2> QED
    BY <1>1, <1>2, <2>1 DEF FaultShows
<1>9. SendSound(d.at, d.command, d.pending, r.stdin, q.got, q.partial)
  <2>1. /\ EndOpen(p.stdin, q.partial) = 0
        /\ \A i \in DOMAIN q.got : q.got[i] = i
        /\ \A i \in DOMAIN p.stdin : p.stdin[i].frame = c.command
        /\ \/ Len(q.got) = c.command
           \/ Len(q.got) = c.command - 1 /\ Delivered(c.command, p.stdin, q.got)
    BY <1>1, <1>2, <1>3 DEF SendSound
  <2>2. d.at \notin {"start", "before", "send", "clear_queue", "abort"}
    BY <1>2
  <2> QED
    BY <1>2, <2>1, <2>2 DEF SendSound
<1>10. Left(record, c, p.stdout)
  BY DEF Left
<1>11. ArrivedSound(d, r.stdout, q)
  <2>1. \A k \in 1..(Prompt + 2) :
          /\ Left(Reply(k), d, p.stdout) => Left(Reply(k), c, p.stdout)
          /\ OnItsWay(Reply(k), d, p.stdout, q.due) => OnItsWay(Reply(k), c, p.stdout, q.due)
    BY SaidMembers DEF OnItsWay
  <2>2. \A n \in 1..4 : Left(Event(n), d, p.stdout) => Left(Event(n), c, p.stdout)
    BY SaidMembers
  <2>3. Prompt \in 1..(Prompt + 2)
    BY PromptFact
  <2>4. ASSUME NEW n \in 1..4, Left(Event(n), d, p.stdout) \/ n <= d.position
        PROVE  n < q.events /\ ~In(Event(n), q.due)
    <3>1. Left(Event(n), c, p.stdout) \/ n <= c.position
      BY <1>3, <1>10, <2>2, <2>4
    <3> QED
      BY <1>1, <1>2, <3>1 DEF ArrivedSound
  <2>5. ASSUME Left(Reply(Prompt), d, p.stdout) \/ d.awaiting = 0
        PROVE  In(Prompt, q.got) /\ ~q.ack /\ ~In(Reply(Prompt), q.due)
    <3>1. Left(Reply(Prompt), c, p.stdout) \/ c.awaiting = 0
      BY <1>10, <2>1, <2>3, <2>5
    <3> QED
      BY <1>1, <3>1 DEF ArrivedSound
  <2>6. \A k \in 1..(Prompt + 2) : OnItsWay(Reply(k), d, p.stdout, q.due) => In(k, q.got)
    BY <1>1, <2>1 DEF ArrivedSound
  <2> QED
    BY <2>4, <2>5, <2>6 DEF ArrivedSound
<1>12. NothingLost(d, r.stdout, q)
  <2>1. ASSUME In(Prompt, q.got), d.awaiting # 0, ~q.ack
        PROVE  OnItsWay(Reply(Prompt), d, p.stdout, q.due)
    <3>1. OnItsWay(Reply(Prompt), c, p.stdout, q.due)
      BY <1>1, <2>1 DEF NothingLost
    <3>2. record # Reply(Prompt)
      BY <2>1, SaidDiffers
    <3> QED
      BY <3>1, <3>2, SaidMembers, PromptFact DEF OnItsWay
  <2>2. ASSUME NEW n \in 1..4, d.position < n, n < q.events
        PROVE  OnItsWay(Event(n), d, p.stdout, q.due)
    <3>1. c.position < n /\ (record = Event(n) => FALSE)
      BY <1>3, <2>2, SaidDiffers
    <3>2. OnItsWay(Event(n), c, p.stdout, q.due)
      BY <1>1, <2>2, <3>1 DEF NothingLost
    <3> QED
      BY <3>1, <3>2, SaidMembers DEF OnItsWay
  <2> QED
    BY <1>2, <2>1, <2>2 DEF NothingLost
<1> QED
  BY <1>1, <1>4, <1>5, <1>6, <1>8, <1>9, <1>11, <1>12 DEF Sound

\* The acknowledgement and the events of a run are taken in order.
LEMMA RunStep == IInv /\ Run => IInv'
<1> SUFFICES ASSUME IInv, Run PROVE IInv'
  OBVIOUS
<1> DEFINE record == call.records[1]
           tail == Tail(call.records)
           rest == [call EXCEPT !.records = tail]
           mine == record = Reply(Prompt) /\ call.awaiting = Prompt
           next == IF mine THEN [rest EXCEPT !.awaiting = 0] ELSE Advanced(rest, record)
           done == RunSettled(next) /\ next.awaiting = 0
           after == IF done THEN "closing" ELSE "run"
           settled == RunSettled(next)
           d == [next EXCEPT !.settled = settled, !.at = after]
           open == pipes.open /\ ~settled
           r == [pipes EXCEPT !.open = open]
<1>1. call.at = "run" /\ call.at \in Live /\ Sound(call, pipes, pi, expired)
      /\ call \in CallFrame /\ PhaseSound(call) /\ pipes \in PipesState
  BY DEF Run, IInv, Live, Sound
<1>2. CASE Fails("environment")
  <2>1. "environment" \in Reasons \ {"none", "candidate"}
    BY DEF Reasons
  <2> QED
    BY <1>1, <1>2, <2>1, FailsSound
<1>3. CASE Pumped(call, Received(call))
  <2>1. Sound(Received(call), AfterPump(call), pi, expired)
    BY <1>1, ReceivedSound
  <2>2. Received(call).at \in Live /\ Received(call).result # "candidate"
    BY <1>1, ReceivedFacts DEF PhaseSound
  <2> QED
    BY <1>1, <1>3, <2>1, <2>2, PumpSound
<1>4. CASE call.records # <<>> /\ pi' = pi /\ expired' = expired
           /\ \/ (mine \/ Accepts(rest, record)) /\ call' = d /\ pipes' = r
              \/ call' = Failed(rest, "protocol") /\ pipes' = pipes
  <2>1. /\ record \in Said /\ tail \in Seq(Said) /\ In(record, call.records)
        /\ \A z : Left(z, call, pipes.stdout) <=>
                    z = record \/ In(z, pipes.stdout) \/ In(z, tail)
    BY <1>1, <1>4, RecordTaken
  <2>c. \/ (mine \/ Accepts(rest, record)) /\ call' = d /\ pipes' = r
        \/ call' = Failed(rest, "protocol") /\ pipes' = pipes
    BY <1>4
  <2>u. pi' = pi /\ expired' = expired
    BY <1>4
  <2>m. mine <=> record = Reply(Prompt) /\ call.awaiting = Prompt
    OBVIOUS
  <2> HIDE DEF record, tail
  <2>2. /\ rest \in CallFrame /\ rest.at = call.at /\ rest.command = call.command
        /\ rest.pending = call.pending /\ rest.writePending = call.writePending
        /\ rest.awaiting = call.awaiting /\ rest.records = tail /\ rest.eof = call.eof
        /\ rest.exit = call.exit /\ rest.position = call.position /\ rest.result = call.result
    BY <1>1, <2>1, TailFrame
  <2> HIDE DEF rest, mine
  <2>3. /\ \A z \in Said : Left(z, rest, pipes.stdout) => Left(z, call, pipes.stdout)
        /\ \A z \in Said : Left(z, call, pipes.stdout) => z = record \/ Left(z, rest, pipes.stdout)
    BY <2>1, <2>2 DEF Left
  <2>4. call.result = "none"
    BY <1>1 DEF PhaseSound
  <2>6. CASE call' = Failed(rest, "protocol") /\ pipes' = pipes
    <3>1. \A z \in Said : In(z, rest.records) => Left(z, call, pipes.stdout)
      BY <2>3 DEF Left
    <3>2. rest.result \in Reasons \ {"candidate"}
      BY <2>2, <2>4 DEF Reasons
    <3> QED
      BY <1>1, <2>2, <2>6, <2>u, <3>1, <3>2, RecordRefused
  <2>7. CASE (mine \/ Accepts(rest, record)) /\ call' = d /\ pipes' = r
    <3>s. Len(RunEvents) = 4
      BY DEF RunEvents
    <3>1. /\ next \in CallFrame /\ next.command = rest.command /\ next.pending = rest.pending
          /\ next.writePending = rest.writePending /\ next.records = tail /\ next.eof = rest.eof
          /\ next.exit = rest.exit /\ next.result = rest.result
          /\ \/ record = Reply(Prompt) /\ next.awaiting = 0 /\ next.position = rest.position
             \/ record = Update /\ next.awaiting = rest.awaiting /\ next.position = rest.position
             \/ /\ rest.position < 4 /\ record = Event(rest.position + 1)
                /\ next.awaiting = rest.awaiting /\ next.position = rest.position + 1
      <4>1. CASE mine
        <5>1. next = [rest EXCEPT !.awaiting = 0]
          BY <4>1
        <5>2. 0 \in 0..Prompt
          BY PromptFact
        <5> HIDE DEF next
        <5> QED
          BY <2>2, <2>m, <4>1, <5>1, <5>2 DEF CallFrame
      <4>2. CASE ~mine /\ record = Update
        <5>1. next = rest
          BY <4>2 DEF Advanced
        <5> HIDE DEF next
        <5> QED
          BY <2>2, <4>2, <5>1
      <4>3. CASE ~mine /\ record # Update
        <5> DEFINE k == rest.position + 1
        <5>1. next = [rest EXCEPT !.position = k]
          BY <4>3 DEF Advanced
        <5>2. rest.position \in 0..4 /\ rest.position # 4 /\ record = Event(k)
          BY <2>2, <2>7, <4>3, <3>s, FrameFields DEF Accepts, RunSettled
        <5>3. k \in 0..4 /\ k = rest.position + 1 /\ rest.position < 4
          BY <5>2
        <5> HIDE DEF next, k
        <5>4. /\ next \in CallFrame /\ next.command = rest.command /\ next.pending = rest.pending
              /\ next.writePending = rest.writePending /\ next.records = tail
              /\ next.eof = rest.eof /\ next.exit = rest.exit /\ next.result = rest.result
              /\ next.awaiting = rest.awaiting /\ next.position = k
          BY <2>2, <5>1, <5>3 DEF CallFrame
        <5> QED
          BY <5>2, <5>3, <5>4
      <4> QED
        BY <4>1, <4>2, <4>3
    <3>2. settled <=> next.position = 4
      BY <3>s DEF RunSettled
    <3>3. done <=> next.position = 4 /\ next.awaiting = 0
      BY <3>s DEF RunSettled
    <3>4. after = IF next.position = 4 /\ next.awaiting = 0 THEN "closing" ELSE "run"
      BY <3>3
    <3>5. settled \in BOOLEAN
      BY DEF RunSettled
    <3>6. open \in BOOLEAN
      OBVIOUS
    <3>7. open => pipes.open /\ next.position # 4
      BY <3>2
    <3> HIDE DEF settled, done, next
    <3>8. after \in Phases
      BY DEF Phases, Live
    <3> HIDE DEF after, open
    <3>9. /\ d \in CallFrame /\ d.at = after /\ d.command = next.command /\ d.pending = next.pending
          /\ d.writePending = next.writePending /\ d.records = tail /\ d.eof = next.eof
          /\ d.exit = next.exit /\ d.result = next.result /\ d.awaiting = next.awaiting
          /\ d.position = next.position
      BY <3>1, <3>5, <3>8 DEF CallFrame
    <3>10. /\ r \in PipesState /\ r.stdin = pipes.stdin /\ r.stdout = pipes.stdout
           /\ r.open = open
      BY <1>1, <3>6 DEF PipesState
    <3>11. call' = d /\ pipes' = r
      BY <2>7
    <3> HIDE DEF d, r
    <3>12. /\ \A z \in Said : Left(z, d, pipes.stdout) => Left(z, call, pipes.stdout)
           /\ \A z \in Said : Left(z, call, pipes.stdout) => z = record \/ Left(z, d, pipes.stdout)
      BY <2>2, <2>3, <3>9 DEF Left
    <3>13. /\ d.command = call.command /\ d.pending = call.pending
           /\ d.writePending = call.writePending /\ d.result = call.result
           /\ d.eof = call.eof /\ d.exit = call.exit
           /\ d.at = IF d.position = 4 /\ d.awaiting = 0 THEN "closing" ELSE "run"
           /\ r.open => pipes.open /\ d.position # 4
      BY <2>2, <3>1, <3>4, <3>7, <3>9, <3>10
    <3>14. \/ record = Reply(Prompt) /\ d.awaiting = 0 /\ d.position = call.position
           \/ record = Update /\ d.awaiting = call.awaiting /\ d.position = call.position
           \/ /\ call.position < 4 /\ record = Event(call.position + 1)
              /\ d.awaiting = call.awaiting /\ d.position = call.position + 1
      BY <2>2, <3>1, <3>9
    <3>15. Sound(d, r, pi, expired)
      BY <1>1, <2>1, <3>9, <3>10, <3>12, <3>13, <3>14, RunTakes
    <3> QED
      BY <2>u, <3>11, <3>15 DEF IInv
  <2> QED
    BY <2>c, <2>6, <2>7
<1>5. \/ Fails("environment") \/ Pumped(call, Received(call))
      \/ /\ call.records # <<>> /\ pi' = pi /\ expired' = expired
         /\ \/ (mine \/ Accepts(rest, record)) /\ call' = d /\ pipes' = r
            \/ call' = Failed(rest, "protocol") /\ pipes' = pipes
  BY DEF Run
<1> QED
  BY <1>2, <1>3, <1>4, <1>5

-------------------------------------------------------------------------------
(* The end of a call *)

\* A call that is ending, when its process and its result are sound.
LEMMA EndingSound ==
  ASSUME NEW c, NEW p, NEW q, NEW x, Sound(c, p, q, x),
         NEW d \in CallFrame, NEW r \in PipesState, NEW o \in PiState,
         d.at \in Ending, r.stdin = p.stdin, r.stdout = p.stdout,
         o.got = q.got, o.partial = q.partial, o.due = q.due, o.ack = q.ack,
         o.events = q.events, o.odd = q.odd, o.exit = q.exit, o.torn = q.torn,
         \A z \in Said : Left(z, d, p.stdout) => Left(z, c, p.stdout),
         ProcessSound(d, p.stdout, o), CandidateSound(d, o), ReturnSound(d, o, x)
  PROVE  Sound(d, r, o, x)
<1>1. /\ q \in PiState /\ x \subseteq Limits \cup {"cancelled"}
      /\ StreamSound(p.stdin, q.got, q.partial) /\ PartsSound(p.stdout, q.due) /\ DueSound(q)
      /\ ArrivedSound(c, p.stdout, q) /\ ~q.torn
  BY DEF Sound
<1>2. d.at \notin Live \cup Handshake
  BY DEF Live, Handshake, Ending
<1>3. PhaseSound(d) /\ OpenSound(d, r.open) /\ NothingLost(d, r.stdout, o)
      /\ FaultShows(d, r.stdout, o)
      /\ SendSound(d.at, d.command, d.pending, r.stdin, o.got, o.partial)
  BY <1>2 DEF PhaseSound, OpenSound, NothingLost, FaultShows, SendSound, Live, Handshake
<1>4. DueSound(o)
  BY <1>1 DEF DueSound
<1>6. ArrivedSound(d, r.stdout, o)
  <2>1. ASSUME NEW k \in 1..(Prompt + 2), OnItsWay(Reply(k), d, p.stdout, q.due)
        PROVE  In(k, q.got)
    <3>1. OnItsWay(Reply(k), c, p.stdout, q.due)
      BY <2>1, SaidMembers DEF OnItsWay
    <3> QED
      BY <1>1, <3>1 DEF ArrivedSound
  <2>2. ASSUME NEW n \in 1..4, Left(Event(n), d, p.stdout)
        PROVE  n < q.events /\ ~In(Event(n), q.due)
    <3>1. Left(Event(n), c, p.stdout)
      BY <2>2, SaidMembers
    <3> QED
      BY <1>1, <3>1 DEF ArrivedSound
  <2>3. ASSUME Left(Reply(Prompt), d, p.stdout)
        PROVE  In(Prompt, q.got) /\ ~q.ack /\ ~In(Reply(Prompt), q.due)
    <3>1. Prompt \in 1..(Prompt + 2)
      BY PromptFact
    <3>2. Left(Reply(Prompt), c, p.stdout)
      BY <2>3, <3>1, SaidMembers
    <3> QED
      BY <1>1, <3>2 DEF ArrivedSound
  <2>4. d.at \notin Live /\ d.at \notin {"run", "closing"}
    BY <1>2 DEF Live
  <2> QED
    BY <2>1, <2>2, <2>3, <2>4 DEF ArrivedSound
<1> QED
  BY <1>1, <1>3, <1>4, <1>6 DEF Sound

\* The end of the streams and of the process show that nothing has gone wrong.
LEMMA CloseShows ==
  ASSUME NEW c, NEW p, NEW q, NEW x, Sound(c, p, q, x),
         c.at = "closing", c.records = <<>>, c.eof, c.exit = "ok"
  PROVE  /\ q.group = {} /\ ~q.odd /\ q.got = [i \in 1..Prompt |-> i]
         /\ q.exit = "ok" /\ q.events = 5
<1>1. /\ c \in CallFrame /\ p \in PipesState /\ q \in PiState /\ PhaseSound(c)
      /\ SendSound(c.at, c.command, c.pending, p.stdin, q.got, q.partial)
      /\ PartsSound(p.stdout, q.due) /\ DueSound(q) /\ ArrivedSound(c, p.stdout, q)
      /\ ProcessSound(c, p.stdout, q) /\ FaultShows(c, p.stdout, q)
  BY DEF Sound
<1>2. q.group = {} /\ p.stdout = <<>> /\ q.exit = "ok"
  BY <1>1 DEF ProcessSound
<1>3. c.at \in Live /\ c.position = 4 /\ c.awaiting = 0 /\ c.command = Prompt
  BY <1>1 DEF PhaseSound, Live
<1>4. /\ \A n \in 1..4 : n < q.events /\ ~In(Event(n), q.due)
      /\ In(Prompt, q.got) /\ ~q.ack /\ ~In(Reply(Prompt), q.due)
  BY <1>1, <1>3 DEF ArrivedSound
<1>5. q.events = 5
  <2>1. 4 < q.events
    BY <1>4
  <2> QED
    BY <1>1, <2>1, PiFields
<1>6. /\ \A i \in DOMAIN q.got : q.got[i] = i
      /\ Len(q.got) = Prompt \/ Len(q.got) = Prompt - 1
      /\ DOMAIN q.got = 1..Len(q.got) /\ Len(q.got) \in Nat
  BY <1>1, <1>3, PiFields, LenProperties DEF SendSound
<1>7. Len(q.got) = Prompt
  BY <1>4, <1>6, PromptFact DEF In
<1>8. q.got = [i \in 1..Prompt |-> i]
  <2>1. q.got = [i \in DOMAIN q.got |-> q.got[i]]
    BY <1>1, PiFields, SeqDef
  <2> QED
    BY <1>6, <1>7, <2>1
<1>9. q.due = <<>>
  <2>1. ASSUME NEW z \in Said, In(z, q.due)
        PROVE  FALSE
    <3>1. z # Level /\ z # Update /\ z # Junk
      BY <1>1, <1>2, <1>5, <2>1 DEF DueSound
    <3>2. \A n \in 1..4 : z # Event(n)
      BY <1>4, <2>1
    <3>3. PICK k \in 1..(Prompt + 2) : z = Reply(k)
      BY <3>1, <3>2 DEF Said
    <3>4. In(k, q.got)
      BY <1>1, <2>1, <3>3 DEF ArrivedSound, OnItsWay
    <3>5. k <= Prompt
      BY <1>6, <1>7, <3>4 DEF In
    <3>6. k # Prompt
      BY <1>4, <2>1, <3>3
    <3>7. k \in 1..InitCommands
      BY <3>5, <3>6, PromptFact
    <3> QED
      BY <1>1, <1>5, <2>1, <3>3, <3>7 DEF DueSound
  <2>2. q.due # <<>> => \E z \in Said : In(z, q.due)
    <3>1. q.due \in Seq(Said \cup {Opening})
      BY <1>1, PiFields
    <3>2. DOMAIN q.due = 1..Len(q.due)
      BY <3>1, LenProperties
    <3>3. \/ q.due = <<>>
          \/ Len(q.due) = 1 /\ q.due[1] \in Said
          \/ Len(q.due) = 2 /\ q.due[2] \in Said
      BY <1>1 DEF PartsSound
    <3> QED
      BY <3>2, <3>3 DEF In
  <2> QED
    BY <2>1, <2>2
<1>10. ~q.odd
  <2>1. ~OnItsWay(Junk, c, p.stdout, q.due)
    BY <1>2, <1>9, InEmpty DEF OnItsWay, Left
  <2>2. Finished(q)
    BY <1>4, <1>5, <1>9 DEF Finished
  <2> QED
    BY <1>1, <1>2, <1>3, <2>1, <2>2 DEF FaultShows
<1> QED
  BY <1>2, <1>5, <1>8, <1>10

\* The end of the streams and of the process.
LEMMA AwaitExitStep == IInv /\ AwaitExit => IInv'
<1> SUFFICES ASSUME IInv, AwaitExit PROVE IInv'
  OBVIOUS
<1> DEFINE d == [call EXCEPT !.at = "cleanup", !.result = "candidate"]
<1>1. /\ call.at = "closing" /\ call.at \in Live /\ Sound(call, pipes, pi, expired)
      /\ call \in CallFrame /\ pipes \in PipesState /\ pi \in PiState
      /\ PhaseSound(call) /\ ProcessSound(call, pipes.stdout, pi)
  BY DEF AwaitExit, IInv, Live, Sound
<1>2. CASE Fails("protocol")
  <2>1. "protocol" \in Reasons \ {"none", "candidate"}
    BY DEF Reasons
  <2> QED
    BY <1>1, <1>2, <2>1, FailsSound
<1>3. CASE Pumped(call, Received(call))
  <2>1. Sound(Received(call), AfterPump(call), pi, expired)
    BY <1>1, ReceivedSound
  <2>2. Received(call).at \in Live /\ Received(call).result # "candidate"
    BY <1>1, ReceivedFacts DEF PhaseSound
  <2> QED
    BY <1>1, <1>3, <2>1, <2>2, PumpSound
<1>4. CASE call.records = <<>> /\ Ended(call) /\ call' = d /\ UNCHANGED <<pipes, pi, expired>>
  <2>1. call.eof /\ call.exit = "ok"
    BY <1>4 DEF Ended
  <2>2. /\ pi.group = {} /\ ~pi.odd /\ pi.got = [i \in 1..Prompt |-> i]
        /\ pi.exit = "ok" /\ pi.events = 5
    BY <1>1, <1>4, <2>1, CloseShows
  <2>3. "cleanup" \in Phases /\ "cleanup" \in Ending /\ "candidate" \in Reasons
    BY DEF Phases, Ending, Reasons
  <2>4. call' = d /\ pipes' = pipes /\ pi' = pi /\ expired' = expired
    BY <1>4
  <2>5. /\ d \in CallFrame /\ d.at = "cleanup" /\ d.result = "candidate" /\ d.eof = call.eof
        /\ d.exit = call.exit /\ d.records = call.records
    BY <1>1, <2>3 DEF CallFrame
  <2> HIDE DEF d
  <2>6. \A z \in Said : Left(z, d, pipes.stdout) => Left(z, call, pipes.stdout)
    BY <2>5 DEF Left
  <2>7. ProcessSound(d, pipes.stdout, pi)
    BY <1>1, <2>5 DEF ProcessSound, Live
  <2>8. CandidateSound(d, pi) /\ ReturnSound(d, pi, expired)
    BY <2>2, <2>3, <2>5 DEF CandidateSound, ReturnSound
  <2>9. Sound(d, pipes, pi, expired)
    BY <1>1, <2>3, <2>5, <2>6, <2>7, <2>8, EndingSound
  <2> QED
    BY <2>4, <2>9 DEF IInv
<1> QED
  BY <1>2, <1>3, <1>4 DEF AwaitExit

-------------------------------------------------------------------------------
(* Cancellation *)

\* A call in the handshake has been cancelled.
LEMMA HandshakeFacts ==
  ASSUME IInv, Shaking
  PROVE  /\ call.at \in Handshake /\ call \in CallFrame /\ Sound(call, pipes, pi, expired)
         /\ PhaseSound(call) /\ call.result = "cancelled"
         /\ "cancelled" \in Reasons \ {"candidate"}
BY DEF IInv, Sound, PhaseSound, Shaking, Handshake, Reasons

\* A handshake can be given up at any time.
LEMMA HandshakeStops ==
  ASSUME IInv, Shaking, call' = Stopped(call), UNCHANGED <<pipes, pi, expired>>
  PROVE  IInv'
<1>1. \A z \in Said : In(z, call.records) => Left(z, call, pipes.stdout)
  BY DEF Left
<1> QED
  BY <1>1, HandshakeFacts, RecordRefused

\* The handshake writes and reads.
LEMMA HandshakePumpStep == IInv /\ HandshakePump => IInv'
<1> SUFFICES ASSUME IInv, HandshakePump PROVE IInv'
  OBVIOUS
<1>1. Shaking
  BY DEF HandshakePump
<1>2. CASE call' = Stopped(call) /\ UNCHANGED <<pipes, pi, expired>>
  BY <1>1, <1>2, HandshakeStops
<1>3. CASE Pumped(call, Received(call))
  <2>1. /\ call.at \in Handshake /\ Sound(call, pipes, pi, expired) /\ call.result = "cancelled"
    BY <1>1, HandshakeFacts
  <2>2. Sound(Received(call), AfterPump(call), pi, expired)
    <3>1. call.at # "send"
      BY <2>1 DEF Handshake
    <3> QED
      BY <2>1, <3>1, ReceivedSound
  <2>3. Received(call).at \in Handshake /\ Received(call).result # "candidate"
    BY <2>1, ReceivedFacts
  <2> QED
    BY <1>3, <2>1, <2>2, <2>3, PumpSound
<1> QED
  BY <1>2, <1>3 DEF HandshakePump

\* What comes before the answer passes; with the first answer comes the second command.
LEMMA ShakingTakes ==
  ASSUME NEW c, NEW p, NEW q, NEW x, Sound(c, p, q, x), c.at \in Handshake, c.pending = 0,
         NEW d \in CallFrame, d.command = c.command, d.result = c.result,
         d.eof = c.eof, d.exit = c.exit,
         NEW record, record \in Said,
         \A z \in Said : Left(z, d, p.stdout) => Left(z, c, p.stdout),
         \A z \in Said : Left(z, c, p.stdout) => z = record \/ Left(z, d, p.stdout),
         \/ d.at = c.at /\ d.pending = 0 /\ record # Reply(Frame(c.at, c.command))
         \/ c.at = "clear_queue" /\ d.at = "abort" /\ d.pending = 1
  PROVE  Sound(d, p, q, x)
<1>1. /\ c \in CallFrame /\ p \in PipesState /\ q \in PiState
      /\ x \subseteq Limits \cup {"cancelled"}
      /\ PhaseSound(c) /\ StreamSound(p.stdin, q.got, q.partial)
      /\ SendSound(c.at, c.command, c.pending, p.stdin, q.got, q.partial)
      /\ PartsSound(p.stdout, q.due) /\ DueSound(q) /\ ArrivedSound(c, p.stdout, q)
      /\ NothingLost(c, p.stdout, q)
      /\ ProcessSound(c, p.stdout, q) /\ ~q.torn
  BY DEF Sound
<1>2. d.at \in Handshake /\ d.at \notin Live /\ d.at \notin Ending /\ c.result = "cancelled"
      /\ d.at \in {"clear_queue", "abort"}
  BY <1>1 DEF Live, Ending, Handshake, PhaseSound
<1>4. PhaseSound(d)
  BY <1>2 DEF PhaseSound, Live
<1>5. OpenSound(d, p.open) /\ CandidateSound(d, q) /\ ReturnSound(d, q, x)
      /\ FaultShows(d, p.stdout, q)
  BY <1>2 DEF OpenSound, CandidateSound, ReturnSound, FaultShows
<1>6. ProcessSound(d, p.stdout, q)
  BY <1>1, <1>2 DEF ProcessSound, Handshake
<1>7. ArrivedSound(d, p.stdout, q)
  <2>1. \A k \in 1..(Prompt + 2) :
          /\ Left(Reply(k), d, p.stdout) => Left(Reply(k), c, p.stdout)
          /\ OnItsWay(Reply(k), d, p.stdout, q.due) => OnItsWay(Reply(k), c, p.stdout, q.due)
    BY SaidMembers DEF OnItsWay
  <2>2. \A n \in 1..4 : Left(Event(n), d, p.stdout) => Left(Event(n), c, p.stdout)
    BY SaidMembers
  <2>3. Prompt \in 1..(Prompt + 2) /\ d.at \notin {"run", "closing"}
    BY <1>2, PromptFact
  <2> QED
    BY <1>1, <1>2, <2>1, <2>2, <2>3 DEF ArrivedSound
<1>8. /\ EndOpen(p.stdin, q.partial) = 0
      /\ c.at = "clear_queue" =>
           ~In(Prompt + 2, q.got) /\ \A i \in DOMAIN p.stdin : p.stdin[i].frame # Prompt + 2
      /\ Delivered(Frame(c.at, c.command), p.stdin, q.got)
  BY <1>1 DEF SendSound
<1>9. CASE d.at = c.at /\ d.pending = 0 /\ record # Reply(Frame(c.at, c.command))
  <2>1. SendSound(d.at, d.command, d.pending, p.stdin, q.got, q.partial)
    BY <1>1, <1>9
  <2>2. Frame(c.at, c.command) \in 1..(Prompt + 2)
    BY PromptFact DEF Frame, Handshake
  <2>3. In(Frame(d.at, d.command), q.got) =>
          OnItsWay(Reply(Frame(d.at, d.command)), d, p.stdout, q.due)
    BY <1>1, <1>9, <2>2, SaidMembers DEF NothingLost, OnItsWay
  <2>4. NothingLost(d, p.stdout, q)
    BY <1>2, <2>3 DEF NothingLost
  <2> QED
    BY <1>1, <1>4, <1>5, <1>6, <1>7, <2>1, <2>4 DEF Sound
<1>10. CASE c.at = "clear_queue" /\ d.at = "abort" /\ d.pending = 1
  <2>1. SendSound(d.at, d.command, d.pending, p.stdin, q.got, q.partial)
    BY <1>2, <1>8, <1>10 DEF SendSound
  <2>2. ~In(Frame(d.at, d.command), q.got)
    BY <1>8, <1>10 DEF Frame
  <2>3. NothingLost(d, p.stdout, q)
    BY <1>10, <2>2 DEF NothingLost
  <2> QED
    BY <1>1, <1>4, <1>5, <1>6, <1>7, <2>1, <2>3 DEF Sound
<1> QED
  BY <1>9, <1>10

\* The handshake takes one record.
LEMMA HandshakeReadStep == IInv /\ HandshakeRead => IInv'
<1> SUFFICES ASSUME IInv, HandshakeRead PROVE IInv'
  OBVIOUS
<1> DEFINE record == call.records[1]
           tail == Tail(call.records)
           rest == [call EXCEPT !.records = tail]
           known == [rest EXCEPT !.awaiting = 0]
           next == [rest EXCEPT !.at = "abort", !.pending = 1, !.writePending = TRUE]
<1>1. /\ call.at \in Handshake /\ call \in CallFrame /\ Sound(call, pipes, pi, expired)
      /\ PhaseSound(call) /\ call.result = "cancelled" /\ "cancelled" \in Reasons \ {"candidate"}
      /\ call.records # <<>> /\ call.pending = 0
  BY HandshakeFacts DEF HandshakeRead
<1>2. /\ record \in Said /\ tail \in Seq(Said) /\ In(record, call.records)
      /\ \A z : Left(z, call, pipes.stdout) <=>
                  z = record \/ In(z, pipes.stdout) \/ In(z, tail)
  BY <1>1, RecordTaken
<1>u. pipes' = pipes /\ pi' = pi /\ expired' = expired
  BY DEF HandshakeRead
<1>f. FrameOf(call) = Frame(call.at, call.command)
      /\ Frame(call.at, call.command) \in (Prompt + 1)..(Prompt + 2)
  BY <1>1, FrameFits
<1>c. \/ record.type # "response" /\ call' = rest
      \/ call.awaiting # 0 /\ record.id = call.awaiting /\ call' = known
      \/ call' = Stopped(rest)
      \/ call.at # "abort" /\ call' = next
  BY DEF HandshakeRead
<1> HIDE DEF record, tail
<1>3. /\ rest \in CallFrame /\ rest.at = call.at /\ rest.command = call.command
      /\ rest.pending = call.pending /\ rest.awaiting = call.awaiting /\ rest.records = tail
      /\ rest.eof = call.eof /\ rest.exit = call.exit /\ rest.result = call.result
  BY <1>1, <1>2, TailFrame
<1> HIDE DEF rest
<1>4. /\ \A z \in Said : Left(z, rest, pipes.stdout) => Left(z, call, pipes.stdout)
      /\ \A z \in Said : Left(z, call, pipes.stdout) => z = record \/ Left(z, rest, pipes.stdout)
  BY <1>2, <1>3 DEF Left
<1>5. CASE record.type # "response" /\ call' = rest
  <2>1. record # Reply(Frame(call.at, call.command))
    BY <1>5, SaidTypes
  <2>2. Sound(rest, pipes, pi, expired)
    BY <1>1, <1>2, <1>3, <1>4, <2>1, ShakingTakes
  <2> QED
    BY <1>5, <1>u, <2>2 DEF IInv
<1>6. CASE call.awaiting # 0 /\ record.id = call.awaiting /\ call' = known
  <2>1. record # Reply(Frame(call.at, call.command))
    <3>1. Reply(Frame(call.at, call.command)).id = Frame(call.at, call.command)
      BY SaidTypes
    <3>2. call.awaiting \in 0..Prompt
      BY <1>1, FrameFields
    <3>3. call.awaiting # Frame(call.at, call.command)
      BY <1>f, <3>2, PromptFact
    <3> QED
      BY <1>6, <3>1, <3>3
  <2>2. 0 \in 0..Prompt
    BY PromptFact
  <2>3. /\ known \in CallFrame /\ known.at = rest.at /\ known.command = rest.command
        /\ known.pending = rest.pending /\ known.records = rest.records
        /\ known.eof = rest.eof /\ known.exit = rest.exit /\ known.result = rest.result
    BY <1>3, <2>2 DEF CallFrame
  <2>c. call' = known
    BY <1>6
  <2> HIDE DEF known
  <2>4. /\ \A z \in Said : Left(z, known, pipes.stdout) => Left(z, call, pipes.stdout)
        /\ \A z \in Said : Left(z, call, pipes.stdout) => z = record \/ Left(z, known, pipes.stdout)
    BY <1>4, <2>3 DEF Left
  <2>5. Sound(known, pipes, pi, expired)
    BY <1>1, <1>2, <1>3, <2>1, <2>3, <2>4, ShakingTakes
  <2> QED
    BY <1>u, <2>c, <2>5 DEF IInv
<1>7. CASE call' = Stopped(rest)
  <2>1. \A z \in Said : In(z, rest.records) => Left(z, call, pipes.stdout)
    BY <1>4 DEF Left
  <2> QED
    BY <1>1, <1>3, <1>7, <1>u, <2>1, RecordRefused
<1>8. CASE call.at # "abort" /\ call' = next
  <2>1. call.at = "clear_queue"
    BY <1>1, <1>8 DEF Handshake
  <2>2. "abort" \in Phases
    BY DEF Phases, Handshake
  <2>3. /\ next \in CallFrame /\ next.at = "abort" /\ next.command = rest.command
        /\ next.pending = 1 /\ next.records = rest.records
        /\ next.eof = rest.eof /\ next.exit = rest.exit /\ next.result = rest.result
    BY <1>3, <2>2 DEF CallFrame
  <2>c. call' = next
    BY <1>8
  <2> HIDE DEF next
  <2>4. /\ \A z \in Said : Left(z, next, pipes.stdout) => Left(z, call, pipes.stdout)
        /\ \A z \in Said : Left(z, call, pipes.stdout) => z = record \/ Left(z, next, pipes.stdout)
    BY <1>4, <2>3 DEF Left
  <2>5. Sound(next, pipes, pi, expired)
    BY <1>1, <1>2, <1>3, <2>1, <2>3, <2>4, ShakingTakes
  <2> QED
    BY <1>u, <2>c, <2>5 DEF IInv
<1> QED
  BY <1>c, <1>5, <1>6, <1>7, <1>8

\* The handshake runs out of time.
LEMMA HandshakeFailsStep == IInv /\ HandshakeFails => IInv'
BY HandshakeStops DEF HandshakeFails

-------------------------------------------------------------------------------
(* Cleanup, interrupts and deadlines *)

\* The group is killed.
LEMMA CleanupStep == IInv /\ Cleanup => IInv'
<1> SUFFICES ASSUME IInv, Cleanup PROVE IInv'
  OBVIOUS
<1> DEFINE d == [call EXCEPT !.at = "waiting"]
           r == [pipes EXCEPT !.open = FALSE]
           o == [pi EXCEPT !.doomed = pi.group]
<1>1. /\ call.at = "cleanup" /\ call \in CallFrame /\ pipes \in PipesState /\ pi \in PiState
      /\ Sound(call, pipes, pi, expired)
      /\ ProcessSound(call, pipes.stdout, pi) /\ CandidateSound(call, pi)
  BY DEF Cleanup, IInv, Sound
<1>2. call' = d /\ pipes' = r /\ pi' = o /\ expired' = expired
  BY DEF Cleanup
<1>3. "waiting" \in Phases /\ "waiting" \in Ending /\ pi.group \subseteq Members
  BY <1>1, PiFields DEF Phases, Ending
<1>4. /\ d \in CallFrame /\ d.at = "waiting" /\ d.records = call.records /\ d.eof = call.eof
      /\ d.exit = call.exit /\ d.result = call.result
  BY <1>1, <1>3 DEF CallFrame
<1>5. r \in PipesState /\ r.stdin = pipes.stdin /\ r.stdout = pipes.stdout
  BY <1>1 DEF PipesState
<1>6. /\ o \in PiState /\ o.doomed = pi.group /\ o.group = pi.group
      /\ o.got = pi.got /\ o.partial = pi.partial /\ o.due = pi.due /\ o.ack = pi.ack
      /\ o.events = pi.events /\ o.odd = pi.odd /\ o.exit = pi.exit /\ o.torn = pi.torn
  BY <1>1, <1>3 DEF PiState
<1> HIDE DEF d, r, o
<1>7. \A z \in Said : Left(z, d, pipes.stdout) => Left(z, call, pipes.stdout)
  BY <1>4 DEF Left
<1>8. ProcessSound(d, pipes.stdout, o)
  BY <1>1, <1>4, <1>6 DEF ProcessSound
<1>9. CandidateSound(d, o) /\ ReturnSound(d, o, expired)
  BY <1>1, <1>3, <1>4, <1>6 DEF CandidateSound, ReturnSound
<1>10. Sound(d, r, o, expired)
  BY <1>1, <1>3, <1>4, <1>5, <1>6, <1>7, <1>8, <1>9, EndingSound
<1> QED
  BY <1>2, <1>10 DEF IInv

\* The call returns.
LEMMA ReturnStep == IInv /\ Return => IInv'
<1> SUFFICES ASSUME IInv, Return PROVE IInv'
  OBVIOUS
<1> DEFINE v == IF call.result # "candidate" THEN call.result
                ELSE IF pi.group # {} THEN "timeout"
                ELSE IF "cancelled" \in expired THEN "cancelled"
                ELSE IF "total" \in expired THEN "timeout" ELSE "candidate"
           d == [call EXCEPT !.at = "returned", !.result = v]
<1>1. /\ call.at = "waiting" /\ call \in CallFrame /\ pipes \in PipesState /\ pi \in PiState
      /\ Sound(call, pipes, pi, expired)
      /\ ProcessSound(call, pipes.stdout, pi) /\ CandidateSound(call, pi)
      /\ pi.group = {} \/ "terminate" \in expired
  BY DEF Return, IInv, Sound
<1>2. call' = d /\ pipes' = pipes /\ pi' = pi /\ expired' = expired
  BY DEF Return
<1>3. "returned" \in Phases /\ "returned" \in Ending /\ v \in Reasons
  BY <1>1, FrameFields DEF Phases, Ending, Reasons
<1>v. v = "candidate" => call.result = "candidate"
  OBVIOUS
<1> HIDE DEF v
<1>4. /\ d \in CallFrame /\ d.at = "returned" /\ d.records = call.records /\ d.eof = call.eof
      /\ d.exit = call.exit /\ d.result = v
  BY <1>1, <1>3 DEF CallFrame
<1> HIDE DEF d
<1>7. \A z \in Said : Left(z, d, pipes.stdout) => Left(z, call, pipes.stdout)
  BY <1>4 DEF Left
<1>8. ProcessSound(d, pipes.stdout, pi)
  BY <1>1, <1>4 DEF ProcessSound
<1>9. CandidateSound(d, pi) /\ ReturnSound(d, pi, expired)
  BY <1>1, <1>3, <1>4, <1>v DEF CandidateSound, ReturnSound
<1>10. Sound(d, pipes, pi, expired)
  BY <1>1, <1>3, <1>4, <1>7, <1>8, <1>9, EndingSound
<1> QED
  BY <1>2, <1>10 DEF IInv

\* An interrupt leads to the cleanup.
LEMMA InterruptStep == IInv /\ Interrupt => IInv'
<1> SUFFICES ASSUME IInv, Interrupt PROVE IInv'
  OBVIOUS
<1> DEFINE v == IF call.at = "waiting" THEN call.at ELSE "cleanup"
           d == [call EXCEPT !.result = "interrupted", !.records = <<>>, !.pending = 0, !.at = v]
<1>1. /\ call.at # "returned" /\ call \in CallFrame /\ pipes \in PipesState /\ pi \in PiState
      /\ Sound(call, pipes, pi, expired)
      /\ ProcessSound(call, pipes.stdout, pi)
  BY DEF Interrupt, IInv, Sound
<1>2. call' = d /\ pipes' = pipes /\ pi' = pi /\ expired' = expired
  BY DEF Interrupt
<1>3. v \in Phases /\ v \in Ending /\ "interrupted" \in Reasons /\ v # "returned"
      /\ (v = "waiting" <=> call.at = "waiting")
  BY DEF Phases, Ending, Reasons
<1> HIDE DEF v
<1>4. /\ d \in CallFrame /\ d.at = v /\ d.records = <<>> /\ d.eof = call.eof
      /\ d.exit = call.exit /\ d.result = "interrupted"
  BY <1>1, <1>3, EmptySeq DEF CallFrame
<1> HIDE DEF d
<1>7. \A z \in Said : Left(z, d, pipes.stdout) => Left(z, call, pipes.stdout)
  BY <1>4, InEmpty DEF Left
<1>8. ProcessSound(d, pipes.stdout, pi)
  BY <1>1, <1>3, <1>4 DEF ProcessSound
<1>9. CandidateSound(d, pi) /\ ReturnSound(d, pi, expired)
  BY <1>3, <1>4 DEF CandidateSound, ReturnSound
<1>10. Sound(d, pipes, pi, expired)
  BY <1>1, <1>3, <1>4, <1>7, <1>8, <1>9, EndingSound
<1> QED
  BY <1>2, <1>10 DEF IInv

\* A deadline passes.
LEMMA ExpireStep == IInv /\ Expire => IInv'
<1> SUFFICES ASSUME IInv, Expire PROVE IInv'
  OBVIOUS
<1>1. PICK limit \in Armed \ expired : expired' = expired \cup {limit}
  BY DEF Expire
<1>2. call' = call /\ pipes' = pipes /\ pi' = pi
  BY DEF Expire
<1>3. Armed \subseteq Limits \cup {"cancelled"}
  BY DEF Armed, Limits
<1>4. expired' \subseteq Limits \cup {"cancelled"}
  BY <1>1, <1>3 DEF IInv, Sound
<1>5. ReturnSound(call, pi, expired')
  BY <1>1 DEF IInv, Sound, ReturnSound
<1> QED
  BY <1>2, <1>4, <1>5 DEF IInv, Sound

-------------------------------------------------------------------------------
(* Pi *)

\* A Pi that has not been killed yet is not at the end of its streams.
LEMMA AliveFacts ==
  ASSUME IInv, Alive
  PROVE  /\ call \in CallFrame /\ pipes \in PipesState /\ pi \in PiState
         /\ Sound(call, pipes, pi, expired)
         /\ pi.exit = "none" /\ call.exit = "none" /\ ~call.eof /\ "leader" \in pi.group
         /\ call.at \notin {"waiting", "returned"} /\ pi.doomed = {}
         /\ call.result # "candidate"
<1>1. /\ call \in CallFrame /\ pipes \in PipesState /\ pi \in PiState
      /\ Sound(call, pipes, pi, expired)
      /\ ProcessSound(call, pipes.stdout, pi) /\ CandidateSound(call, pi)
  BY DEF IInv, Sound
<1>2. "leader" \in pi.group /\ "leader" \notin pi.doomed
  BY DEF Alive
<1> QED
  BY <1>1, <1>2, FrameFields DEF ProcessSound, CandidateSound

\* A step of a living Pi keeps what only the call and the clock know.
LEMMA AliveSound ==
  ASSUME IInv, Alive, call' = call, expired' = expired,
         pi' \in PiState, pipes' \in PipesState,
         "leader" \in pi'.group, pi'.doomed = pi.doomed, pi'.exit = pi.exit, ~pi'.torn,
         pipes'.open = pipes.open,
         StreamSound(pipes'.stdin, pi'.got, pi'.partial),
         SendSound(call.at, call.command, call.pending, pipes'.stdin, pi'.got, pi'.partial),
         PartsSound(pipes'.stdout, pi'.due), DueSound(pi'),
         ArrivedSound(call, pipes'.stdout, pi'), NothingLost(call, pipes'.stdout, pi'),
         FaultShows(call, pipes'.stdout, pi')
  PROVE  IInv'
<1>1. /\ PhaseSound(call) /\ OpenSound(call, pipes.open) /\ expired \subseteq Limits \cup {"cancelled"}
      /\ ProcessSound(call, pipes.stdout, pi)
  BY DEF IInv, Sound
<1>2. /\ call \in CallFrame /\ pi.exit = "none" /\ call.exit = "none" /\ ~call.eof
      /\ call.at \notin {"waiting", "returned"} /\ pi.doomed = {} /\ call.result # "candidate"
  BY AliveFacts
<1>3. ProcessSound(call, pipes'.stdout, pi')
  BY <1>2 DEF ProcessSound
<1>4. CandidateSound(call, pi') /\ ReturnSound(call, pi', expired)
  BY <1>2 DEF CandidateSound, ReturnSound
<1>5. OpenSound(call, pipes'.open)
  BY <1>1
<1> QED
  BY <1>1, <1>2, <1>3, <1>4, <1>5 DEF IInv, Sound

\* A record that Pi is about to write.
LEMMA DuePair ==
  ASSUME NEW y \in Said
  PROVE  /\ <<Opening, y>> \in Seq(Said \cup {Opening}) /\ <<Opening, y>> # <<>>
         /\ Len(<<Opening, y>>) = 2 /\ <<Opening, y>>[1] = Opening /\ <<Opening, y>>[2] = y
         /\ \A z \in Said : In(z, <<Opening, y>>) <=> z = y
<1>1. /\ <<Opening, y>> \in Seq(Said \cup {Opening}) /\ Len(<<Opening, y>>) = 2
      /\ <<Opening, y>>[1] = Opening /\ <<Opening, y>>[2] = y /\ DOMAIN <<Opening, y>> = 1..2
  OBVIOUS
<1>2. <<Opening, y>> # <<>>
  BY <1>1, EmptySeq
<1>3. \A z \in Said : In(z, <<Opening, y>>) <=> z = y
  BY <1>1, SaidMembers DEF In
<1> QED
  BY <1>1, <1>2, <1>3

\* Pi begins to say something, when it has nothing else to say.
LEMMA SaysSound ==
  ASSUME IInv, Alive, pi.due = <<>>, call' = call, pipes' = pipes, expired' = expired,
         NEW y \in Said, pi' \in PiState, pi'.due = <<Opening, y>>,
         pi'.group = pi.group, pi'.doomed = pi.doomed, pi'.exit = pi.exit, pi'.torn = pi.torn,
         pi'.got = pi.got, pi'.partial = pi.partial, pi'.silent = pi.silent,
         pi'.odd <=> pi.odd \/ y = Junk, y = Junk => ~pi.odd,
         pi'.ack => pi.ack,
         \/ y = Reply(Prompt) /\ pi.ack /\ ~pi'.ack /\ pi'.events = pi.events
         \/ /\ \E n \in 1..4 : y = Event(n) /\ pi.events = n /\ pi'.events = n + 1
            /\ pi'.ack = pi.ack
         \/ y = Level /\ pi.events = 0 /\ pi'.events = pi.events /\ pi'.ack = pi.ack
         \/ y = Update /\ pi.events = 3 /\ pi'.events = pi.events /\ pi'.ack = pi.ack
         \/ y = Junk /\ pi'.events = pi.events /\ pi'.ack = pi.ack
  PROVE  IInv'
<1>1. /\ call \in CallFrame /\ pipes \in PipesState /\ pi \in PiState
      /\ PhaseSound(call)
      /\ StreamSound(pipes.stdin, pi.got, pi.partial)
      /\ SendSound(call.at, call.command, call.pending, pipes.stdin, pi.got, pi.partial)
      /\ PartsSound(pipes.stdout, pi.due) /\ DueSound(pi) /\ ArrivedSound(call, pipes.stdout, pi)
      /\ NothingLost(call, pipes.stdout, pi) /\ FaultShows(call, pipes.stdout, pi) /\ ~pi.torn
  BY DEF IInv, Sound
<1>2. /\ pi.exit = "none" /\ "leader" \in pi.group
  BY AliveFacts
<1>3. /\ pi'.due # <<>> /\ Len(pi'.due) = 2 /\ pi'.due[1] = Opening /\ pi'.due[2] = y
      /\ \A z \in Said : In(z, pi'.due) <=> z = y
      /\ \A z : ~In(z, pi.due)
  BY DuePair, InEmpty
<1>4. /\ \A n \in 1..4 : Event(n) \in Said /\ (Event(n) = y <=> In(Event(n), pi'.due))
      /\ \A k \in 1..(Prompt + 2) : Reply(k) \in Said /\ (Reply(k) = y <=> In(Reply(k), pi'.due))
      /\ Level \in Said /\ Update \in Said /\ Junk \in Said
  BY <1>3, SaidMembers
<1>5. Prompt \in 1..(Prompt + 2) /\ InitCommands = Prompt - 1 /\ Prompt \in Nat
  BY PromptFact
<1>6. PartsSound(pipes'.stdout, pi'.due)
  <2>1. pipes.stdout # <<>> => pipes.stdout[Len(pipes.stdout)] # Opening
    BY <1>1, EmptySeq DEF PartsSound
  <2> QED
    BY <1>1, <1>3, <2>1 DEF PartsSound
<1>7. DueSound(pi')
  <2>1. ASSUME NEW n \in 1..4, In(Event(n), pi'.due)
        PROVE  pi'.events = n + 1
    <3>1. y = Event(n)
      BY <1>4, <2>1
    <3> QED
      BY <3>1, SaidDiffers
  <2>2. (In(Level, pi'.due) => pi'.events = 0) /\ (In(Update, pi'.due) => pi'.events = 3)
    BY <1>3, <1>4, SaidDiffers
  <2>3. ASSUME NEW k \in 1..InitCommands, In(Reply(k), pi'.due)
        PROVE  pi'.events = 0
    <3>1. k \in 1..(Prompt + 2) /\ k # Prompt
      BY <1>5
    <3>2. y = Reply(k)
      BY <1>4, <2>3, <3>1
    <3> QED
      BY <3>1, <3>2, SaidDiffers
  <2>4. In(Prompt, pi'.got) <=> pi'.events # 0
    <3>1. pi'.events # 0 <=> pi.events # 0
      BY <1>1 DEF DueSound
    <3> QED
      BY <1>1, <3>1 DEF DueSound
  <2>5. pi'.ack => pi'.events # 0 /\ ~In(Reply(Prompt), pi'.due)
    <3>1. SUFFICES ASSUME pi'.ack PROVE pi'.events # 0 /\ ~In(Reply(Prompt), pi'.due)
      OBVIOUS
    <3>2. y # Reply(Prompt)
      BY <3>1, SaidDiffers
    <3>3. pi.events # 0
      BY <1>1, <3>1 DEF DueSound
    <3>4. pi'.events # 0
      BY <3>3
    <3> QED
      BY <1>4, <1>5, <3>2, <3>4
  <2>6. In(Junk, pi'.due) => pi'.odd /\ pi'.exit # "ok"
    BY <1>2, <1>3, <1>4
  <2> QED
    BY <2>1, <2>2, <2>3, <2>4, <2>5, <2>6 DEF DueSound
<1>8. ArrivedSound(call, pipes'.stdout, pi')
  <2>1. ASSUME NEW k \in 1..(Prompt + 2), OnItsWay(Reply(k), call, pipes.stdout, pi'.due)
        PROVE  In(k, pi'.got)
    <3>1. CASE Left(Reply(k), call, pipes.stdout)
      BY <1>1, <3>1 DEF ArrivedSound, OnItsWay
    <3>2. CASE In(Reply(k), pi'.due)
      <4>1. y = Reply(k)
        BY <1>4, <3>2
      <4>2. k = Prompt /\ pi.ack
        BY <4>1, SaidDiffers
      <4> QED
        BY <1>1, <4>2 DEF DueSound
    <3> QED
      BY <2>1, <3>1, <3>2 DEF OnItsWay
  <2>2. ASSUME NEW n \in 1..4,
               Left(Event(n), call, pipes.stdout) \/ (call.at \in Live /\ n <= call.position)
        PROVE  n < pi'.events /\ ~In(Event(n), pi'.due)
    <3>1. n < pi.events
      BY <1>1, <2>2 DEF ArrivedSound
    <3>2. pi.events \in 0..5
      BY <1>1, PiFields
    <3>3. n < pi'.events
      BY <3>1, <3>2
    <3>4. y # Event(n)
      BY <3>1, <3>2, SaidDiffers
    <3> QED
      BY <1>4, <3>3, <3>4
  <2>3. ASSUME Left(Reply(Prompt), call, pipes.stdout)
                 \/ (call.at \in {"run", "closing"} /\ call.awaiting = 0)
        PROVE  In(Prompt, pi'.got) /\ ~pi'.ack /\ ~In(Reply(Prompt), pi'.due)
    <3>1. In(Prompt, pi.got) /\ ~pi.ack
      BY <1>1, <2>3 DEF ArrivedSound
    <3>2. y # Reply(Prompt)
      BY <3>1, SaidDiffers
    <3> QED
      BY <1>4, <1>5, <3>1, <3>2
  <2> QED
    BY <2>1, <2>2, <2>3 DEF ArrivedSound
<1>9. NothingLost(call, pipes'.stdout, pi')
  <2>1. \A z : OnItsWay(z, call, pipes.stdout, pi.due) => OnItsWay(z, call, pipes.stdout, pi'.due)
    BY <1>3 DEF OnItsWay
  <2>2. ASSUME call.at = "run", In(Prompt, pi'.got), call.awaiting # 0, ~pi'.ack
        PROVE  OnItsWay(Reply(Prompt), call, pipes.stdout, pi'.due)
    <3>1. CASE y = Reply(Prompt)
      BY <1>4, <1>5, <3>1 DEF OnItsWay
    <3>2. CASE y # Reply(Prompt)
      <4>1. ~pi.ack
        BY <2>2, <3>2
      <4>2. OnItsWay(Reply(Prompt), call, pipes.stdout, pi.due)
        BY <1>1, <2>2, <4>1 DEF NothingLost
      <4> QED
        BY <2>1, <4>2
    <3> QED
      BY <3>1, <3>2
  <2>3. ASSUME call.at = "run", NEW n \in 1..4, call.position < n, n < pi'.events
        PROVE  OnItsWay(Event(n), call, pipes.stdout, pi'.due)
    <3>1. CASE n < pi.events
      BY <1>1, <2>1, <2>3, <3>1 DEF NothingLost
    <3>2. CASE ~(n < pi.events)
      <4>1. y = Event(n)
        BY <1>1, <2>3, <3>2, PiFields
      <4> QED
        BY <1>4, <4>1 DEF OnItsWay
    <3> QED
      BY <3>1, <3>2
  <2>4. call.at = "read" /\ In(call.command, pi'.got) =>
          OnItsWay(Reply(call.command), call, pipes.stdout, pi'.due)
    BY <1>1, <2>1 DEF NothingLost
  <2>5. call.at \in Handshake /\ In(Frame(call.at, call.command), pi'.got) =>
          OnItsWay(Reply(Frame(call.at, call.command)), call, pipes.stdout, pi'.due)
    BY <1>1, <2>1 DEF NothingLost
  <2> QED
    BY <2>2, <2>3, <2>4, <2>5 DEF NothingLost
<1>10. FaultShows(call, pipes'.stdout, pi')
  <2>1. CASE y = Junk
    BY <1>3, <2>1 DEF FaultShows, OnItsWay
  <2>2. CASE y # Junk
    <3>1. pi'.odd <=> pi.odd
      BY <2>2
    <3>2. OnItsWay(Junk, call, pipes.stdout, pi.due) => OnItsWay(Junk, call, pipes.stdout, pi'.due)
      BY <1>3 DEF OnItsWay
    <3> QED
      BY <1>1, <1>2, <3>1, <3>2 DEF FaultShows
  <2> QED
    BY <2>1, <2>2
<1> QED
  BY <1>1, <1>2, <1>6, <1>7, <1>8, <1>9, <1>10, AliveSound

\* Pi begins a record.
LEMMA PiSaysStep == IInv /\ PiSays => IInv'
<1> SUFFICES ASSUME IInv, PiSays PROVE IInv'
  OBVIOUS
<1>1. /\ Alive /\ pi.due = <<>> /\ call' = call /\ pipes' = pipes /\ expired' = expired
      /\ pi \in PiState
  BY DEF PiSays, IInv, Sound
<1>2. Prompt \in 1..(Prompt + 2)
  BY PromptFact
<1>3. CASE pi.ack /\ pi' = [pi EXCEPT !.due = <<Opening, Reply(Prompt)>>, !.ack = FALSE]
  <2>1. Reply(Prompt) \in Said /\ Reply(Prompt) # Junk
    BY <1>2, SaidMembers, SaidDiffers
  <2>2. <<Opening, Reply(Prompt)>> \in Seq(Said \cup {Opening})
    BY <2>1, DuePair
  <2>3. /\ pi' \in PiState /\ pi'.due = <<Opening, Reply(Prompt)>> /\ pi'.ack = FALSE
        /\ pi'.group = pi.group /\ pi'.doomed = pi.doomed /\ pi'.exit = pi.exit
        /\ pi'.torn = pi.torn /\ pi'.got = pi.got /\ pi'.partial = pi.partial
        /\ pi'.silent = pi.silent /\ pi'.odd = pi.odd /\ pi'.events = pi.events
    BY <1>1, <1>3, <2>2 DEF PiState
  <2> QED
    BY <1>1, <1>3, <2>1, <2>3, SaysSound
<1>4. CASE /\ pi.events \in DOMAIN RunEvents
           /\ pi' = [pi EXCEPT !.due = <<Opening, Event(pi.events)>>, !.events = @ + 1]
  <2> DEFINE n == pi.events
             m == n + 1
  <2>0. n \in 1..4
    BY <1>4 DEF RunEvents
  <2>1. Event(n) \in Said /\ Event(n) # Junk
    BY <2>0, SaidMembers, SaidDiffers
  <2>2. <<Opening, Event(n)>> \in Seq(Said \cup {Opening})
    BY <2>1, DuePair
  <2>m. m \in 0..5 /\ m = n + 1 /\ n = pi.events
    BY <2>0
  <2>p. pi' = [pi EXCEPT !.due = <<Opening, Event(n)>>, !.events = m]
    BY <1>4
  <2> HIDE DEF n, m
  <2>3. /\ pi' \in PiState /\ pi'.due = <<Opening, Event(n)>> /\ pi'.ack = pi.ack
        /\ pi'.group = pi.group /\ pi'.doomed = pi.doomed /\ pi'.exit = pi.exit
        /\ pi'.torn = pi.torn /\ pi'.got = pi.got /\ pi'.partial = pi.partial
        /\ pi'.silent = pi.silent /\ pi'.odd = pi.odd /\ pi'.events = m
    BY <1>1, <2>p, <2>m, <2>2 DEF PiState
  <2> QED
    BY <1>1, <2>0, <2>1, <2>m, <2>3, SaysSound
<1>5. CASE /\ pi.events \in {0, 3}
           /\ pi' = [pi EXCEPT !.due = <<Opening, IF pi.events = 0 THEN Level ELSE Update>>,
                               !.notices = @ + 1]
  <2> DEFINE y == IF pi.events = 0 THEN Level ELSE Update
             m == pi.notices + 1
  <2>1. y \in Said /\ y # Junk
        /\ ((y = Level /\ pi.events = 0) \/ (y = Update /\ pi.events = 3))
    BY <1>5, SaidMembers, SaidDiffers
  <2>2. <<Opening, y>> \in Seq(Said \cup {Opening})
    BY <2>1, DuePair
  <2>m. m \in Nat
    BY <1>1, PiFields
  <2>p. pi' = [pi EXCEPT !.due = <<Opening, y>>, !.notices = m]
    BY <1>5
  <2> HIDE DEF y, m
  <2>3. /\ pi' \in PiState /\ pi'.due = <<Opening, y>> /\ pi'.ack = pi.ack
        /\ pi'.group = pi.group /\ pi'.doomed = pi.doomed /\ pi'.exit = pi.exit
        /\ pi'.torn = pi.torn /\ pi'.got = pi.got /\ pi'.partial = pi.partial
        /\ pi'.silent = pi.silent /\ pi'.odd = pi.odd /\ pi'.events = pi.events
    BY <1>1, <2>p, <2>m, <2>2 DEF PiState
  <2> QED
    BY <1>1, <2>1, <2>3, SaysSound
<1> QED
  BY <1>3, <1>4, <1>5 DEF PiSays

\* The process goes: the call has not noticed it yet.
LEMMA LeavesSound ==
  ASSUME IInv, Alive, call' = call, pipes' = pipes, expired' = expired,
         NEW code \in {"ok", "error"}, NEW odd \in BOOLEAN, pi.odd => odd,
         pi' = [pi EXCEPT !.odd = odd, !.group = @ \ {"leader"}, !.exit = code],
         code = "ok" => \/ odd /\ ~pi.odd /\ ~SaidAll
                        \/ /\ odd = pi.odd /\ ~pi.silent /\ pi.due = <<>> /\ ~pi.ack
                           /\ pi.events \notin 1..4,
         code = "error" => odd
  PROVE  IInv'
<1> DEFINE g == pi.group \ {"leader"}
<1>1. /\ call \in CallFrame /\ pipes \in PipesState /\ pi \in PiState
      /\ expired \subseteq Limits \cup {"cancelled"}
      /\ PhaseSound(call) /\ OpenSound(call, pipes.open)
      /\ StreamSound(pipes.stdin, pi.got, pi.partial)
      /\ SendSound(call.at, call.command, call.pending, pipes.stdin, pi.got, pi.partial)
      /\ PartsSound(pipes.stdout, pi.due) /\ DueSound(pi) /\ ArrivedSound(call, pipes.stdout, pi)
      /\ NothingLost(call, pipes.stdout, pi) /\ FaultShows(call, pipes.stdout, pi) /\ ~pi.torn
      /\ ProcessSound(call, pipes.stdout, pi)
  BY DEF IInv, Sound
<1>2. /\ pi.exit = "none" /\ call.exit = "none" /\ ~call.eof /\ "leader" \in pi.group
      /\ call.at \notin {"waiting", "returned"} /\ pi.doomed = {} /\ call.result # "candidate"
  BY AliveFacts
<1>3. g \subseteq Members /\ code \in Exits
  BY <1>1, PiFields DEF Exits
<1> HIDE DEF g
<1>4. pi' = [pi EXCEPT !.odd = odd, !.group = g, !.exit = code]
  BY DEF g
<1>5. /\ pi' \in PiState /\ pi'.odd = odd /\ pi'.group = g /\ pi'.exit = code
      /\ pi'.due = pi.due /\ pi'.ack = pi.ack /\ pi'.doomed = pi.doomed
      /\ pi'.torn = pi.torn /\ pi'.got = pi.got /\ pi'.partial = pi.partial
      /\ pi'.silent = pi.silent /\ pi'.events = pi.events
  BY <1>1, <1>3, <1>4 DEF PiState
<1>6. DueSound(pi')
  <2>1. In(Junk, pi.due) => odd /\ code # "ok"
    BY <1>1, InEmpty DEF DueSound
  <2> QED
    BY <1>1, <1>5, <2>1 DEF DueSound
<1>7. ArrivedSound(call, pipes'.stdout, pi') /\ NothingLost(call, pipes'.stdout, pi')
  BY <1>1, <1>5 DEF ArrivedSound, NothingLost
<1>8. ProcessSound(call, pipes'.stdout, pi')
  <2>1. "leader" \notin g /\ code # "none"
    BY DEF g
  <2>2. ~odd /\ code = "ok" => pi.due = <<>> /\ ~pi.ack /\ pi.events \in {0, 5}
    BY <1>1, PiFields
  <2> QED
    BY <1>2, <1>5, <2>1, <2>2 DEF ProcessSound
<1>9. FaultShows(call, pipes'.stdout, pi')
  <2>1. "child" \in pi.group => "child" \in g
    BY DEF g
  <2>2. CASE code = "error"
    BY <1>5, <2>2 DEF FaultShows
  <2>3. CASE odd /\ ~pi.odd /\ ~SaidAll /\ code = "ok"
    <3>1. ~Finished(pi')
      BY <1>1, <1>5, <2>3, PiFields DEF Finished, SaidAll, RunEvents
    <3> QED
      BY <1>5, <2>3, <3>1 DEF FaultShows
  <2>4. CASE odd = pi.odd /\ ~pi.silent
    BY <1>1, <1>2, <1>5, <2>1, <2>4 DEF FaultShows
  <2> QED
    BY <2>2, <2>3, <2>4
<1>10. CandidateSound(call, pi') /\ ReturnSound(call, pi', expired)
  BY <1>2 DEF CandidateSound, ReturnSound
<1> QED
  BY <1>1, <1>5, <1>6, <1>7, <1>8, <1>9, <1>10 DEF IInv, Sound

\* Pi ends by itself.
LEMMA PiExitsStep == IInv /\ PiExits => IInv'
<1> SUFFICES ASSUME IInv, PiExits PROVE IInv'
  OBVIOUS
<1>1. pi \in PiState /\ pi.odd \in BOOLEAN
  BY PiFields DEF IInv, Sound
<1> DEFINE odd == pi.odd
<1>2. /\ Alive /\ ~pi.silent /\ pi.due = <<>> /\ ~pi.ack /\ pi.events \notin 1..4
      /\ call' = call /\ pipes' = pipes /\ expired' = expired
  BY DEF PiExits, RunEvents
<1>3. pi' = [pi EXCEPT !.odd = odd, !.group = @ \ {"leader"}, !.exit = "ok"]
  <2>1. pi = [pi EXCEPT !.odd = odd]
    BY <1>1 DEF PiState
  <2>2. pi' = [pi EXCEPT !.group = @ \ {"leader"}, !.exit = "ok"]
    BY DEF PiExits
  <2> QED
    BY <1>1, <2>2 DEF PiState
<1>4. odd \in BOOLEAN /\ odd = pi.odd
  BY <1>1
<1> HIDE DEF odd
<1> QED
  BY <1>2, <1>3, <1>4, LeavesSound

\* Pi fails.
LEMMA PiFailsStep == IInv /\ PiFails => IInv'
<1> SUFFICES ASSUME IInv, PiFails PROVE IInv'
  OBVIOUS
<1>1. /\ Alive /\ ~pi.odd /\ call' = call /\ pipes' = pipes /\ expired' = expired
      /\ call \in CallFrame /\ pipes \in PipesState /\ pi \in PiState
      /\ StreamSound(pipes.stdin, pi.got, pi.partial)
      /\ SendSound(call.at, call.command, call.pending, pipes.stdin, pi.got, pi.partial)
      /\ PartsSound(pipes.stdout, pi.due) /\ DueSound(pi) /\ ArrivedSound(call, pipes.stdout, pi)
      /\ NothingLost(call, pipes.stdout, pi) /\ FaultShows(call, pipes.stdout, pi) /\ ~pi.torn
  BY DEF PiFails, IInv, Sound
<1>a. /\ pi.exit = "none" /\ "leader" \in pi.group
  BY <1>1, AliveFacts
<1>2. CASE pi.due = <<>> /\ pi' = [pi EXCEPT !.odd = TRUE, !.due = <<Opening, Junk>>]
  <2>1. Junk \in Said
    BY SaidMembers
  <2>2. <<Opening, Junk>> \in Seq(Said \cup {Opening})
    BY <2>1, DuePair
  <2>3. /\ pi' \in PiState /\ pi'.due = <<Opening, Junk>> /\ pi'.ack = pi.ack
        /\ pi'.group = pi.group /\ pi'.doomed = pi.doomed /\ pi'.exit = pi.exit
        /\ pi'.torn = pi.torn /\ pi'.got = pi.got /\ pi'.partial = pi.partial
        /\ pi'.silent = pi.silent /\ pi'.odd = TRUE /\ pi'.events = pi.events
    BY <1>1, <1>2, <2>2 DEF PiState
  <2>4. pi'.odd
    BY <2>3
  <2> QED
    BY <1>1, <1>2, <2>1, <2>3, <2>4, SaysSound
<1>3. CASE pi' = [pi EXCEPT !.odd = TRUE, !.silent = TRUE]
  <2>1. /\ pi' \in PiState /\ pi'.due = pi.due /\ pi'.ack = pi.ack
        /\ pi'.group = pi.group /\ pi'.doomed = pi.doomed /\ pi'.exit = pi.exit
        /\ pi'.torn = pi.torn /\ pi'.got = pi.got /\ pi'.partial = pi.partial
        /\ pi'.silent = TRUE /\ pi'.odd = TRUE /\ pi'.events = pi.events
    BY <1>1, <1>3 DEF PiState
  <2>2. pi'.silent /\ pi'.odd /\ "leader" \in pi'.group
    BY <1>a, <2>1
  <2>3. FaultShows(call, pipes'.stdout, pi')
    BY <2>2 DEF FaultShows
  <2>4. DueSound(pi') /\ ArrivedSound(call, pipes'.stdout, pi')
        /\ NothingLost(call, pipes'.stdout, pi')
    BY <1>1, <2>1, <2>2 DEF DueSound, ArrivedSound, NothingLost
  <2> QED
    BY <1>1, <2>1, <2>2, <2>3, <2>4, AliveSound
<1>4. ASSUME NEW code \in {"ok", "error"}, code = "ok" => ~SaidAll,
             pi' = [pi EXCEPT !.odd = TRUE, !.group = @ \ {"leader"}, !.exit = code]
      PROVE  IInv'
  BY <1>1, <1>4, LeavesSound
<1>5. CASE pi' = [pi EXCEPT !.odd = TRUE, !.group = @ \cup {"child"}]
  <2> DEFINE g == pi.group \cup {"child"}
  <2>1. g \subseteq Members /\ "leader" \in g /\ "child" \in g
    BY <1>1, <1>a, PiFields DEF Members
  <2>p. pi' = [pi EXCEPT !.odd = TRUE, !.group = g]
    BY <1>5
  <2> HIDE DEF g
  <2>2. /\ pi' \in PiState /\ pi'.due = pi.due /\ pi'.ack = pi.ack
        /\ pi'.group = g /\ pi'.doomed = pi.doomed /\ pi'.exit = pi.exit
        /\ pi'.torn = pi.torn /\ pi'.got = pi.got /\ pi'.partial = pi.partial
        /\ pi'.silent = pi.silent /\ pi'.odd = TRUE /\ pi'.events = pi.events
    BY <1>1, <2>1, <2>p DEF PiState
  <2>3. pi'.odd /\ "leader" \in pi'.group /\ "child" \in pi'.group
    BY <2>1, <2>2
  <2>4. FaultShows(call, pipes'.stdout, pi')
    BY <2>3 DEF FaultShows
  <2>5. DueSound(pi') /\ ArrivedSound(call, pipes'.stdout, pi')
        /\ NothingLost(call, pipes'.stdout, pi')
    BY <1>1, <2>2, <2>3 DEF DueSound, ArrivedSound, NothingLost
  <2> QED
    BY <1>1, <2>2, <2>3, <2>4, <2>5, AliveSound
<1> QED
  BY <1>2, <1>3, <1>4, <1>5 DEF PiFails

\* A process of a killed group dies.
LEMMA DiesStep == IInv /\ Dies => IInv'
<1> SUFFICES ASSUME IInv, Dies PROVE IInv'
  OBVIOUS
<1>1. PICK p \in pi.doomed \cap pi.group :
        pi' = [pi EXCEPT !.group = @ \ {p},
                         !.exit = IF p = "leader" /\ @ = "none" THEN "error" ELSE @]
  BY DEF Dies
<1>2. /\ call \in CallFrame /\ pipes \in PipesState /\ pi \in PiState
      /\ expired \subseteq Limits \cup {"cancelled"}
      /\ PhaseSound(call) /\ OpenSound(call, pipes.open)
      /\ StreamSound(pipes.stdin, pi.got, pi.partial)
      /\ SendSound(call.at, call.command, call.pending, pipes.stdin, pi.got, pi.partial)
      /\ PartsSound(pipes.stdout, pi.due) /\ DueSound(pi) /\ ArrivedSound(call, pipes.stdout, pi)
      /\ NothingLost(call, pipes.stdout, pi) /\ ~pi.torn
      /\ ProcessSound(call, pipes.stdout, pi) /\ CandidateSound(call, pi)
      /\ ReturnSound(call, pi, expired)
  BY DEF IInv, Sound
<1>u. call' = call /\ pipes' = pipes /\ expired' = expired
  BY DEF Dies
<1> DEFINE g == pi.group \ {p}
           e == IF p = "leader" /\ pi.exit = "none" THEN "error" ELSE pi.exit
<1>3. g \subseteq Members /\ e \in Exits
  BY <1>2, PiFields DEF Exits
<1>4. pi' = [pi EXCEPT !.group = g, !.exit = e]
  BY <1>1
<1>g. g = pi.group \ {p} /\ e = IF p = "leader" /\ pi.exit = "none" THEN "error" ELSE pi.exit
  OBVIOUS
<1> HIDE DEF g, e
<1>5. /\ pi' \in PiState /\ pi'.odd = pi.odd /\ pi'.group = g /\ pi'.exit = e
      /\ pi'.due = pi.due /\ pi'.ack = pi.ack /\ pi'.doomed = pi.doomed
      /\ pi'.torn = pi.torn /\ pi'.got = pi.got /\ pi'.partial = pi.partial
      /\ pi'.silent = pi.silent /\ pi'.events = pi.events
  BY <1>2, <1>3, <1>4 DEF PiState
<1>6. call.at \in {"waiting", "returned"}
  BY <1>1, <1>2 DEF ProcessSound
<1>7. call.at \notin Live /\ pi.group # {}
  BY <1>1, <1>6 DEF Live
<1>8. ProcessSound(call, pipes'.stdout, pi')
  <2>1. pi.exit = "none" <=> "leader" \in pi.group
    BY <1>2 DEF ProcessSound
  <2>2. e = "none" <=> "leader" \in g
    BY <1>1, <1>g, <2>1
  <2>3. ~call.eof
    BY <1>2, <1>7 DEF ProcessSound
  <2>4. call.exit # "none" => call.exit = e
    BY <1>1, <1>2, <1>g, <2>1 DEF ProcessSound
  <2>5. g \subseteq pi.doomed
    BY <1>2, <1>6, <1>g DEF ProcessSound
  <2>6. ~pi.odd /\ e = "ok" => pi.due = <<>> /\ ~pi.ack /\ pi.events \in {0, 5}
    BY <1>2, <1>g DEF ProcessSound
  <2> QED
    BY <1>5, <1>6, <2>2, <2>3, <2>4, <2>5, <2>6 DEF ProcessSound
<1>9. DueSound(pi')
  BY <1>2, <1>5, <1>g DEF DueSound
<1>10. ArrivedSound(call, pipes'.stdout, pi') /\ NothingLost(call, pipes'.stdout, pi')
  BY <1>2, <1>5, <1>u DEF ArrivedSound, NothingLost
<1>11. FaultShows(call, pipes'.stdout, pi') /\ CandidateSound(call, pi')
       /\ ReturnSound(call, pi', expired)
  <2>1. call.result # "candidate"
    BY <1>2, <1>7 DEF CandidateSound
  <2>2. call.at = "returned" => "terminate" \in expired
    BY <1>2, <1>7 DEF ReturnSound
  <2> QED
    BY <1>7, <2>1, <2>2 DEF FaultShows, CandidateSound, ReturnSound
<1> QED
  BY <1>2, <1>5, <1>8, <1>9, <1>10, <1>11, <1>u DEF IInv, Sound

\* Heads and ends keep alternating.
LEMMA AlternatesOn ==
  ASSUME NEW S, NEW s \in Seq(S), NEW y \in S, Alternates(s),
         s # <<>> => ((y = Opening) <=> s[Len(s)] # Opening)
  PROVE  Alternates(Append(s, y))
<1> DEFINE t == Append(s, y)
           n == Len(s)
<1>1. /\ n \in Nat /\ DOMAIN s = 1..n /\ t \in Seq(S) /\ Len(t) = n + 1
      /\ DOMAIN t = 1..(n + 1) /\ t[n + 1] = y /\ \A i \in 1..n : t[i] = s[i]
  BY AppendProperties, LenProperties
<1>n. n = Len(s)
  OBVIOUS
<1> HIDE DEF t, n
<1>2. ASSUME NEW i \in 1..(n + 1)
      PROVE  (t[i] = Opening) <=> ((i % 2 = 1) <=> (t[1] = Opening))
  <2>1. CASE i \in 1..n
    <3>1. 1 \in 1..n
      BY <1>1, <2>1
    <3> QED
      BY <1>1, <2>1, <3>1 DEF Alternates
  <2>2. CASE i = n + 1 /\ n = 0
    BY <1>1, <2>2
  <2>3. CASE i = n + 1 /\ n > 0
    <3>1. 1 \in 1..n /\ n \in 1..n /\ s # <<>>
      BY <1>1, <1>n, <2>3, EmptySeq
    <3>2. (s[n] = Opening) <=> ((n % 2 = 1) <=> (s[1] = Opening))
      BY <1>1, <3>1 DEF Alternates
    <3>3. (i % 2 = 1) <=> ~(n % 2 = 1)
      BY <1>1, <2>3
    <3>4. (y = Opening) <=> s[n] # Opening
      BY <1>n, <3>1
    <3>5. t[i] = y /\ t[1] = s[1]
      BY <1>1, <2>3, <3>1
    <3> QED
      BY <3>2, <3>3, <3>4, <3>5
  <2> QED
    BY <1>1, <2>1, <2>2, <2>3
<1> QED
  BY <1>1, <1>2 DEF Alternates, t

\* Pi writes a part.
LEMMA PiWritesStep == IInv /\ PiWrites => IInv'
<1> SUFFICES ASSUME IInv, PiWrites PROVE IInv'
  OBVIOUS
<1>1. /\ Alive /\ pi.due # <<>> /\ call' = call /\ expired' = expired
      /\ call \in CallFrame /\ pipes \in PipesState /\ pi \in PiState
      /\ StreamSound(pipes.stdin, pi.got, pi.partial)
      /\ SendSound(call.at, call.command, call.pending, pipes.stdin, pi.got, pi.partial)
      /\ PartsSound(pipes.stdout, pi.due) /\ DueSound(pi) /\ ArrivedSound(call, pipes.stdout, pi)
      /\ NothingLost(call, pipes.stdout, pi) /\ FaultShows(call, pipes.stdout, pi) /\ ~pi.torn
  BY DEF PiWrites, IInv, Sound
<1> DEFINE y == pi.due[1]
           rest == Tail(pi.due)
           s == Append(pipes.stdout, y)
<1>2. /\ pi.due \in Seq(Said \cup {Opening}) /\ pipes.stdout \in Seq(Said \cup {Opening})
      /\ DOMAIN pi.due = 1..Len(pi.due) /\ Len(pi.due) \in Nat
  BY <1>1, PiFields, PipeFields, LenProperties
<1>3. y \in Said \cup {Opening} /\ rest \in Seq(Said \cup {Opening})
      /\ Len(rest) = Len(pi.due) - 1 /\ \A i \in 1..Len(rest) : rest[i] = pi.due[i + 1]
  <2>1. 1 \in DOMAIN pi.due
    BY <1>1, <1>2, EmptySeq
  <2> QED
    BY <1>1, <1>2, <2>1, HeadTailProperties, ElementOfSeq
<1>4. s \in Seq(Said \cup {Opening}) /\ s # <<>> /\ s[Len(s)] = y
  BY <1>2, <1>3, AppendProperties, EmptySeq
<1>5. /\ \A z : In(z, s) <=> In(z, pipes.stdout) \/ z = y
      /\ \A z : In(z, pi.due) <=> z = y \/ In(z, rest)
  BY <1>1, <1>2, <1>3, InAppend, InTail
<1>6. \/ Len(pi.due) = 1 /\ y \in Said
      \/ Len(pi.due) = 2 /\ y = Opening /\ pi.due[2] \in Said
  BY <1>1 DEF PartsSound
<1>p. pipes' = [pipes EXCEPT !.stdout = s] /\ pi' = [pi EXCEPT !.due = rest]
  BY DEF PiWrites
<1>s. s = Append(pipes.stdout, y)
  OBVIOUS
<1> HIDE DEF y, rest, s
<1>7. PartsSound(s, rest)
  <2>1. Alternates(s)
    <3>1. pipes.stdout # <<>> => ((y = Opening) <=> pipes.stdout[Len(pipes.stdout)] # Opening)
      BY <1>1, <1>6, SaidMembers DEF PartsSound
    <3> QED
      BY <1>1, <1>2, <1>3, <1>s, <3>1, AlternatesOn DEF PartsSound
  <2>2. CASE Len(pi.due) = 1 /\ y \in Said
    <3>1. Len(rest) = 0
      BY <1>3, <2>2
    <3>2. rest = <<>> /\ y # Opening
      BY <1>3, <2>2, <3>1, EmptySeq, SaidMembers
    <3>3. (s[Len(s)] = Opening) <=> Len(rest) = 1
      BY <1>4, <3>1, <3>2
    <3> QED
      BY <2>1, <3>2, <3>3 DEF PartsSound
  <2>3. CASE Len(pi.due) = 2 /\ y = Opening /\ pi.due[2] \in Said
    <3>1. Len(rest) = 1
      BY <1>3, <2>3
    <3>2. rest[1] \in Said
      BY <1>3, <2>3, <3>1
    <3> QED
      BY <1>4, <2>1, <2>3, <3>1, <3>2 DEF PartsSound
  <2> QED
    BY <1>6, <2>2, <2>3
<1>8. y \in Said => rest = <<>>
  <2>1. y \in Said => Len(rest) = 0
    BY <1>3, <1>6, SaidMembers
  <2> QED
    BY <1>3, <2>1, EmptySeq
<1>9. /\ pipes' \in PipesState /\ pipes'.stdin = pipes.stdin /\ pipes'.stdout = s
      /\ pipes'.open = pipes.open
  BY <1>1, <1>4, <1>p DEF PipesState
<1>10. /\ pi' \in PiState /\ pi'.odd = pi.odd /\ pi'.group = pi.group /\ pi'.exit = pi.exit
       /\ pi'.due = rest /\ pi'.ack = pi.ack /\ pi'.doomed = pi.doomed
       /\ pi'.torn = pi.torn /\ pi'.got = pi.got /\ pi'.partial = pi.partial
       /\ pi'.silent = pi.silent /\ pi'.events = pi.events
  BY <1>1, <1>3, <1>p DEF PiState
<1>11. \A z : In(z, rest) => In(z, pi.due)
  BY <1>5
<1>12. DueSound(pi')
  BY <1>1, <1>10, <1>11 DEF DueSound
<1>13. \A z : OnItsWay(z, call, s, rest) <=> OnItsWay(z, call, pipes.stdout, pi.due)
  BY <1>5 DEF OnItsWay, Left
<1>14. \A z : Left(z, call, s) <=> Left(z, call, pipes.stdout) \/ z = y
  BY <1>5 DEF Left
<1>15. FaultShows(call, s, pi') /\ NothingLost(call, s, pi')
  <2>1. Finished(pi') => pi'.exit = "none"
    BY <1>1, <1>10, AliveFacts
  <2>2. pi.exit = "none"
    BY <1>1, AliveFacts
  <2>3. FaultShows(call, s, pi')
    BY <1>1, <1>10, <1>13, <2>2 DEF FaultShows
  <2>4. NothingLost(call, s, pi')
    BY <1>1, <1>10, <1>13 DEF NothingLost
  <2> QED
    BY <2>3, <2>4
<1>16. ArrivedSound(call, s, pi')
  <2>0. Prompt \in 1..(Prompt + 2)
    BY PromptFact
  <2>1. \A k \in 1..(Prompt + 2) : OnItsWay(Reply(k), call, s, rest) => In(k, pi.got)
    BY <1>1, <1>13 DEF ArrivedSound
  <2>2. ASSUME NEW n \in 1..4,
               Left(Event(n), call, s) \/ (call.at \in Live /\ n <= call.position)
        PROVE  n < pi.events /\ ~In(Event(n), rest)
    <3>1. CASE Left(Event(n), call, pipes.stdout) \/ (call.at \in Live /\ n <= call.position)
      BY <1>1, <1>11, <3>1 DEF ArrivedSound
    <3>2. CASE y = Event(n)
      <4>1. rest = <<>>
        BY <1>8, <3>2, SaidMembers
      <4>2. pi.events = n + 1
        BY <1>1, <1>5, <3>2 DEF DueSound
      <4> QED
        BY <4>1, <4>2, InEmpty
    <3> QED
      BY <1>14, <2>2, <3>1, <3>2
  <2>3. ASSUME Left(Reply(Prompt), call, s)
                 \/ (call.at \in {"run", "closing"} /\ call.awaiting = 0)
        PROVE  In(Prompt, pi.got) /\ ~pi.ack /\ ~In(Reply(Prompt), rest)
    <3>1. CASE Left(Reply(Prompt), call, pipes.stdout)
                 \/ (call.at \in {"run", "closing"} /\ call.awaiting = 0)
      BY <1>1, <1>11, <3>1 DEF ArrivedSound
    <3>2. CASE y = Reply(Prompt)
      <4>1. rest = <<>>
        BY <1>8, <2>0, <3>2, SaidMembers
      <4>2. In(Reply(Prompt), pi.due)
        BY <1>5, <3>2
      <4>3. ~pi.ack
        BY <1>1, <4>2 DEF DueSound
      <4>4. In(Prompt, pi.got)
        BY <1>1, <2>0, <4>2 DEF ArrivedSound, OnItsWay
      <4> QED
        BY <4>1, <4>3, <4>4, InEmpty
    <3> QED
      BY <1>14, <2>3, <3>1, <3>2
  <2> QED
    BY <1>10, <2>1, <2>2, <2>3 DEF ArrivedSound
<1>17. "leader" \in pi.group
  BY <1>1, AliveFacts
<1> QED
  BY <1>1, <1>7, <1>9, <1>10, <1>12, <1>15, <1>16, <1>17, AliveSound

\* What Pi has got after it has read a part.
GotWith(got, part) == IF part.last THEN Append(got, part.frame) ELSE got
PartialAfter(part) == IF part.last THEN 0 ELSE part.frame

\* A part that is read leaves a stream in order, and what was delivered stays so.
LEMMA ReadsStream ==
  ASSUME NEW stdin \in Seq(PartRow), NEW got \in Seq(1..(Prompt + 2)),
         NEW partial \in 0..(Prompt + 2), stdin # <<>>, StreamSound(stdin, got, partial)
  PROVE  /\ StreamSound(Tail(stdin), GotWith(got, stdin[1]), PartialAfter(stdin[1]))
         /\ EndOpen(Tail(stdin), PartialAfter(stdin[1])) = EndOpen(stdin, partial)
         /\ \A x : In(x, GotWith(got, stdin[1]))
                     <=> In(x, got) \/ (stdin[1].last /\ x = stdin[1].frame)
         /\ \A f : Delivered(f, stdin, got)
                     => Delivered(f, Tail(stdin), GotWith(got, stdin[1]))
         /\ GotWith(got, stdin[1]) \in Seq(1..(Prompt + 2))
         /\ PartialAfter(stdin[1]) \in 0..(Prompt + 2)
         /\ Len(GotWith(got, stdin[1])) = IF stdin[1].last THEN Len(got) + 1 ELSE Len(got)
<1> DEFINE p == stdin[1]
           rest == Tail(stdin)
           new == GotWith(got, p)
           open == PartialAfter(p)
           n == Len(stdin)
           g == Len(got)
<1>0. Prompt \in Nat /\ InputSize \in Nat
  BY PromptFact, CallAssumption
<1>1. /\ n \in Nat /\ n >= 1 /\ DOMAIN stdin = 1..n /\ rest \in Seq(PartRow)
      /\ Len(rest) = n - 1 /\ DOMAIN rest = 1..(n - 1)
      /\ \A i \in 1..(n - 1) : rest[i] = stdin[i + 1]
  BY HeadTailProperties, LenProperties, EmptySeq
<1>2. 1 \in 1..n /\ p \in PartRow /\ p.frame \in 1..(Prompt + 2) /\ p.last \in BOOLEAN
  <2>1. 1 \in 1..n
    BY <1>1
  <2>2. p \in PartRow
    BY <1>1, <2>1, ElementOfSeq
  <2> QED
    BY <2>1, <2>2 DEF PartRow
<1>3. g \in Nat /\ DOMAIN got = 1..g
  BY LenProperties
<1>4. /\ p.last => /\ new \in Seq(1..(Prompt + 2)) /\ Len(new) = g + 1 /\ DOMAIN new = 1..(g + 1)
                   /\ new[g + 1] = p.frame /\ \A i \in 1..g : new[i] = got[i]
      /\ ~p.last => new = got
  <2>1. CASE p.last
    <3>1. new = Append(got, p.frame)
      BY <2>1 DEF GotWith
    <3>2. Append(got, p.frame) \in Seq(1..(Prompt + 2))
      BY <1>2, AppendProperties
    <3> QED
      BY <1>2, <1>3, <2>1, <3>1, <3>2, AppendProperties, LenProperties
  <2>2. CASE ~p.last
    BY <2>2 DEF GotWith
  <2> QED
    BY <2>1, <2>2
<1>5. (p.last => open = 0) /\ (~p.last => open = p.frame)
  BY DEF PartialAfter
<1>6. /\ n <= InputSize
      /\ \A i \in 1..(n - 1) : ~stdin[i].last => stdin[i + 1].frame = stdin[i].frame
      /\ \A i \in 1..g : got[i] = i \/ got[i] > Prompt
      /\ \A i \in 1..n : stdin[i].frame = g + 1 \/ stdin[i].frame > Prompt
      /\ \A i, j \in 1..n : i < j /\ stdin[i].last => stdin[j].frame > Prompt
  BY <1>1, <1>3 DEF StreamSound
<1>e. (rest = <<>> <=> n = 1) /\ (n > 1 => rest[n - 1] = stdin[n])
  <2>1. rest = <<>> <=> n - 1 = 0
    BY <1>1, EmptySeq
  <2>2. n > 1 => n - 1 \in 1..(n - 1) /\ (n - 1) + 1 = n
    BY <1>1
  <2> QED
    BY <1>1, <2>1, <2>2
<1>n. n = Len(stdin) /\ g = Len(got) /\ p = stdin[1] /\ rest = Tail(stdin)
      /\ new = GotWith(got, p) /\ open = PartialAfter(p)
  OBVIOUS
<1> HIDE DEF p, rest, new, open, n, g
<1>7. StreamSound(rest, new, open)
  <2>1. Len(rest) <= InputSize
    BY <1>0, <1>1, <1>6
  <2>2. ASSUME NEW i \in 1..(Len(rest) - 1), ~rest[i].last
        PROVE  rest[i + 1].frame = rest[i].frame
    <3>1. i \in 1..(n - 1) /\ i + 1 \in 1..(n - 1)
      BY <1>1, <2>2
    <3> QED
      BY <1>1, <1>6, <2>2, <3>1
  <2>3. open # 0 /\ rest # <<>> => rest[1].frame = open
    <3>1. SUFFICES ASSUME open # 0, rest # <<>> PROVE rest[1].frame = open
      OBVIOUS
    <3>2. ~p.last
      BY <1>5, <3>1
    <3>3. n > 1
      BY <1>1, <1>e, <3>1
    <3>4. 1 \in 1..(n - 1)
      BY <1>1, <3>3
    <3>5. stdin[1 + 1].frame = stdin[1].frame
      BY <1>6, <1>n, <3>2, <3>4
    <3> QED
      BY <1>1, <1>5, <1>n, <3>2, <3>4, <3>5
  <2>4. \A i \in DOMAIN new : new[i] = i \/ new[i] > Prompt
    <3>1. CASE p.last
      <4>1. p.frame = g + 1 \/ p.frame > Prompt
        BY <1>2, <1>6, <1>n
      <4>2. ASSUME NEW i \in 1..(g + 1) PROVE new[i] = i \/ new[i] > Prompt
        <5>1. CASE i \in 1..g
          BY <1>4, <1>6, <3>1, <5>1
        <5>2. CASE i = g + 1
          BY <1>4, <3>1, <4>1, <5>2
        <5> QED
          BY <1>3, <5>1, <5>2
      <4> QED
        BY <1>4, <3>1, <4>2
    <3>2. CASE ~p.last
      BY <1>3, <1>4, <1>6, <3>2
    <3> QED
      BY <3>1, <3>2
  <2>5. \A i \in DOMAIN rest : rest[i].frame = Len(new) + 1 \/ rest[i].frame > Prompt
    <3>1. SUFFICES ASSUME NEW i \in 1..(n - 1)
                   PROVE  rest[i].frame = Len(new) + 1 \/ rest[i].frame > Prompt
      BY <1>1
    <3>2. i + 1 \in 1..n /\ 1 < i + 1 /\ rest[i] = stdin[i + 1]
      BY <1>1
    <3>3. CASE p.last
      BY <1>2, <1>6, <1>n, <3>2, <3>3
    <3>4. CASE ~p.last
      BY <1>4, <1>6, <1>n, <3>2, <3>4
    <3> QED
      BY <3>3, <3>4
  <2>6. \A i, j \in DOMAIN rest : i < j /\ rest[i].last => rest[j].frame > Prompt
    <3>1. SUFFICES ASSUME NEW i \in 1..(n - 1), NEW j \in 1..(n - 1), i < j, rest[i].last
                   PROVE  rest[j].frame > Prompt
      BY <1>1
    <3>2. i + 1 \in 1..n /\ j + 1 \in 1..n /\ i + 1 < j + 1
      BY <1>1, <3>1
    <3>3. stdin[i + 1].last
      BY <1>1, <3>1
    <3>4. stdin[j + 1].frame > Prompt
      BY <1>6, <3>2, <3>3
    <3> QED
      BY <1>1, <3>4
  <2> QED
    BY <2>1, <2>2, <2>3, <2>4, <2>5, <2>6 DEF StreamSound
<1>8. EndOpen(rest, open) = EndOpen(stdin, partial)
  <2>1. EndOpen(stdin, partial) = IF stdin[n].last THEN 0 ELSE stdin[n].frame
    BY <1>n DEF EndOpen
  <2>2. CASE n = 1
    BY <1>5, <1>e, <1>n, <2>1, <2>2 DEF EndOpen
  <2>3. CASE n > 1
    <3>1. rest # <<>> /\ rest[Len(rest)] = stdin[n]
      BY <1>1, <1>e, <2>3
    <3> QED
      BY <2>1, <3>1 DEF EndOpen
  <2> QED
    BY <1>1, <2>2, <2>3
<1>9. \A x : In(x, new) <=> In(x, got) \/ (p.last /\ x = p.frame)
  <2>1. CASE p.last
    <3>1. new = Append(got, p.frame)
      BY <1>n, <2>1 DEF GotWith
    <3>2. \A x : In(x, Append(got, p.frame)) <=> In(x, got) \/ x = p.frame
      <4> DEFINE F == 1..(Prompt + 2)
                 y == p.frame
      <4>1. got \in Seq(F) /\ y \in F
        BY <1>2
      <4> HIDE DEF F, y
      <4>2. \A x : In(x, Append(got, y)) <=> In(x, got) \/ x = y
        BY <4>1, InAppend
      <4> QED
        BY <4>2 DEF y
    <3> QED
      BY <2>1, <3>1, <3>2
  <2>2. CASE ~p.last
    BY <1>4, <2>2
  <2> QED
    BY <2>1, <2>2
<1>10. ASSUME NEW f, Delivered(f, stdin, got)
       PROVE  Delivered(f, rest, new)
  <2>1. CASE In(f, got)
    BY <1>9, <2>1 DEF Delivered
  <2>2. CASE stdin[n] = [frame |-> f, last |-> TRUE]
    <3>1. CASE n = 1
      <4>1. p.last /\ f = p.frame
        BY <1>n, <2>2, <3>1
      <4>2. In(f, new)
        BY <1>9, <4>1
      <4> QED
        BY <4>2 DEF Delivered
    <3>2. CASE n > 1
      <4>1. rest # <<>> /\ rest[Len(rest)] = stdin[n]
        BY <1>1, <1>e, <3>2
      <4> QED
        BY <2>2, <4>1 DEF Delivered
    <3> QED
      BY <1>1, <3>1, <3>2
  <2> QED
    BY <1>10, <1>n, <2>1, <2>2 DEF Delivered
<1>11. new \in Seq(1..(Prompt + 2)) /\ open \in 0..(Prompt + 2)
       /\ Len(new) = IF p.last THEN g + 1 ELSE g
  BY <1>0, <1>2, <1>4, <1>5, <1>n
<1> QED
  BY <1>7, <1>8, <1>9, <1>10, <1>11, <1>n

\* What has been sent is sound after a part of it is read.
LEMMA ReadsSend ==
  ASSUME NEW at \in Phases, NEW command \in 0..Prompt, NEW pending \in Nat,
         NEW stdin \in Seq(PartRow), NEW got \in Seq(1..(Prompt + 2)),
         NEW partial \in 0..(Prompt + 2), stdin # <<>>, StreamSound(stdin, got, partial),
         SendSound(at, command, pending, stdin, got, partial)
  PROVE  SendSound(at, command, pending, Tail(stdin), GotWith(got, stdin[1]),
                   PartialAfter(stdin[1]))
<1> DEFINE p == stdin[1]
           rest == Tail(stdin)
           new == GotWith(got, p)
           open == PartialAfter(p)
           n == Len(stdin)
           g == Len(got)
<1>1. /\ EndOpen(rest, open) = EndOpen(stdin, partial)
      /\ \A x : In(x, new) <=> In(x, got) \/ (p.last /\ x = p.frame)
      /\ \A f : Delivered(f, stdin, got) => Delivered(f, rest, new)
      /\ new \in Seq(1..(Prompt + 2)) /\ Len(new) = IF p.last THEN g + 1 ELSE g
  BY ReadsStream
<1>2. /\ n \in Nat /\ n >= 1 /\ DOMAIN stdin = 1..n /\ DOMAIN rest = 1..(n - 1)
      /\ \A i \in 1..(n - 1) : rest[i] = stdin[i + 1]
      /\ g \in Nat /\ DOMAIN got = 1..g
  BY HeadTailProperties, LenProperties, EmptySeq
<1>3. 1 \in 1..n /\ p.frame \in 1..(Prompt + 2) /\ p.last \in BOOLEAN
  <2>1. 1 \in 1..n
    BY <1>2
  <2>2. p \in PartRow
    BY <1>2, <2>1, ElementOfSeq
  <2> QED
    BY <2>1, <2>2 DEF PartRow
<1>4. (~p.last => new = got) /\ (p.last => new = Append(got, p.frame))
  BY DEF GotWith
<1>5. p.frame = g + 1 \/ p.frame > Prompt
  BY <1>2, <1>3 DEF StreamSound
<1>6. \A i \in DOMAIN rest : \E j \in DOMAIN stdin : rest[i] = stdin[j]
  <2>1. ASSUME NEW i \in 1..(n - 1) PROVE i + 1 \in 1..n /\ rest[i] = stdin[i + 1]
    BY <1>2
  <2> QED
    BY <1>2, <2>1
<1>0. Prompt \in Nat
  BY PromptFact
<1>n. g = Len(got) /\ rest = Tail(stdin) /\ new = GotWith(got, p) /\ open = PartialAfter(p)
      /\ p = stdin[1]
  OBVIOUS
<1> HIDE DEF p, rest, new, open, n, g
<1>7. at \in Live =>
        /\ p.frame = command /\ command = g + 1
        /\ \A i \in DOMAIN new : new[i] = i
        /\ \A i \in DOMAIN rest : rest[i].frame = command
  <2>1. SUFFICES ASSUME at \in Live
                 PROVE  /\ p.frame = command /\ command = g + 1
                        /\ \A i \in DOMAIN new : new[i] = i
                        /\ \A i \in DOMAIN rest : rest[i].frame = command
    OBVIOUS
  <2>2. (\A i \in DOMAIN got : got[i] = i) /\ \A i \in DOMAIN stdin : stdin[i].frame = command
    BY <2>1 DEF SendSound
  <2>3. p.frame = command
    BY <1>2, <1>3, <1>n, <2>2
  <2>4. command = g + 1
    BY <1>0, <1>5, <2>3
  <2>5. \A i \in DOMAIN new : new[i] = i
    <3>1. CASE p.last
      <4> DEFINE y == p.frame
      <4>1. y \in 1..(Prompt + 2) /\ y = g + 1 /\ new = Append(got, y)
        BY <1>3, <1>4, <2>3, <2>4, <3>1
      <4> HIDE DEF y
      <4>2. /\ DOMAIN new = 1..(g + 1) /\ new[g + 1] = y /\ \A i \in 1..g : new[i] = got[i]
        BY <4>1, <1>1, <1>n, <3>1, AppendProperties, LenProperties
      <4> QED
        BY <1>2, <2>2, <4>1, <4>2
    <3>2. CASE ~p.last
      BY <1>4, <2>2, <3>2
    <3> QED
      BY <3>1, <3>2
  <2> QED
    BY <1>6, <2>2, <2>3, <2>4, <2>5
<1>8. at \in Live \cup Handshake =>
        EndOpen(rest, open) = 0 \/ (pending > 0 /\ EndOpen(rest, open) = Frame(at, command))
  BY <1>1 DEF SendSound
<1>9. at \notin {"start", "before"}
  BY DEF SendSound
<1>10. at = "send" => Len(new) = command - 1 /\ \A i \in DOMAIN rest : ~rest[i].last
  <2>1. SUFFICES ASSUME at = "send"
                 PROVE  Len(new) = command - 1 /\ \A i \in DOMAIN rest : ~rest[i].last
    OBVIOUS
  <2>2. Len(got) = command - 1 /\ \A i \in DOMAIN stdin : ~stdin[i].last
    BY <2>1 DEF SendSound
  <2>3. ~p.last
    BY <1>2, <1>3, <1>n, <2>2
  <2> QED
    BY <1>4, <1>6, <2>2, <2>3
<1>11. at \in {"read", "run", "closing"} =>
         \/ Len(new) = command
         \/ Len(new) = command - 1 /\ Delivered(command, rest, new)
  <2>1. SUFFICES ASSUME at \in {"read", "run", "closing"}
                 PROVE  \/ Len(new) = command
                        \/ Len(new) = command - 1 /\ Delivered(command, rest, new)
    OBVIOUS
  <2>2. command = g + 1
    BY <1>7, <2>1 DEF Live
  <2>3. Delivered(command, stdin, got)
    <3>1. \/ Len(got) = command
          \/ Len(got) = command - 1 /\ Delivered(command, stdin, got)
      BY <2>1 DEF SendSound
    <3>2. g # command
      BY <1>2, <2>2
    <3>3. Len(got) # command
      BY <1>n, <3>2
    <3> QED
      BY <3>1, <3>3
  <2> QED
    BY <1>1, <1>2, <2>2, <2>3
<1>12. at = "clear_queue" =>
         /\ ~In(Prompt + 2, new) /\ \A i \in DOMAIN rest : rest[i].frame # Prompt + 2
         /\ pending > 0 =>
              ~In(Prompt + 1, new) /\ \A i \in DOMAIN rest : rest[i].frame # Prompt + 1
  <2>1. SUFFICES ASSUME at = "clear_queue"
                 PROVE  /\ ~In(Prompt + 2, new) /\ \A i \in DOMAIN rest : rest[i].frame # Prompt + 2
                        /\ pending > 0 => /\ ~In(Prompt + 1, new)
                                          /\ \A i \in DOMAIN rest : rest[i].frame # Prompt + 1
    OBVIOUS
  <2>2. /\ ~In(Prompt + 2, got) /\ \A i \in DOMAIN stdin : stdin[i].frame # Prompt + 2
        /\ pending > 0 => /\ ~In(Prompt + 1, got)
                          /\ \A i \in DOMAIN stdin : stdin[i].frame # Prompt + 1
    BY <2>1 DEF SendSound
  <2>3. p.frame # Prompt + 2 /\ (pending > 0 => p.frame # Prompt + 1)
    BY <1>2, <1>3, <1>n, <2>2
  <2> QED
    BY <1>1, <1>6, <2>2, <2>3
<1>13. at = "abort" /\ pending > 0 =>
         ~In(Prompt + 2, new) /\ \A i \in DOMAIN rest : rest[i].frame # Prompt + 2
  <2>1. SUFFICES ASSUME at = "abort" /\ pending > 0
                 PROVE  ~In(Prompt + 2, new) /\ \A i \in DOMAIN rest : rest[i].frame # Prompt + 2
    OBVIOUS
  <2>2. ~In(Prompt + 2, got) /\ \A i \in DOMAIN stdin : stdin[i].frame # Prompt + 2
    BY <2>1 DEF SendSound
  <2>3. p.frame # Prompt + 2
    BY <1>2, <1>3, <1>n, <2>2
  <2> QED
    BY <1>1, <1>6, <2>2, <2>3
<1>14. at \in Handshake =>
         pending <= 1 /\ (pending = 0 => Delivered(Frame(at, command), rest, new))
  BY <1>1 DEF SendSound
<1>15. SendSound(at, command, pending, rest, new, open)
  BY <1>7, <1>8, <1>9, <1>10, <1>11, <1>12, <1>13, <1>14 DEF SendSound
<1> QED
  BY <1>15, <1>n

\* Pi reads a part.
LEMMA PiReadsStep == IInv /\ PiReads => IInv'
<1> SUFFICES ASSUME IInv, PiReads PROVE IInv'
  OBVIOUS
<1>1. /\ Alive /\ pi.due = <<>> /\ pipes.stdin # <<>> /\ call' = call /\ expired' = expired
      /\ call \in CallFrame /\ pipes \in PipesState /\ pi \in PiState
      /\ PhaseSound(call)
      /\ StreamSound(pipes.stdin, pi.got, pi.partial)
      /\ SendSound(call.at, call.command, call.pending, pipes.stdin, pi.got, pi.partial)
      /\ PartsSound(pipes.stdout, pi.due) /\ DueSound(pi) /\ ArrivedSound(call, pipes.stdout, pi)
      /\ NothingLost(call, pipes.stdout, pi) /\ FaultShows(call, pipes.stdout, pi) /\ ~pi.torn
  BY DEF PiReads, IInv, Sound
<1> DEFINE p == pipes.stdin[1]
           rest == Tail(pipes.stdin)
           f == p.frame
           got == GotWith(pi.got, p)
           open == PartialAfter(p)
           torn == pi.torn \/ (pi.partial # 0 /\ f # pi.partial)
           due == IF p.last /\ f # Prompt THEN <<Opening, Reply(f)>> ELSE pi.due
           ack == pi.ack \/ (p.last /\ f = Prompt)
           events == IF p.last /\ f = Prompt THEN 1 ELSE pi.events
<1>2. /\ pipes.stdin \in Seq(PartRow) /\ pi.got \in Seq(1..(Prompt + 2))
      /\ pi.partial \in 0..(Prompt + 2) /\ pi.events \in 0..5 /\ pi.ack \in BOOLEAN
      /\ call.at \in Phases /\ call.command \in 0..Prompt /\ call.pending \in Nat
  BY <1>1, PiFields, PipeFields, FrameFields
<1>3. /\ StreamSound(rest, got, open)
      /\ \A x : In(x, got) <=> In(x, pi.got) \/ (p.last /\ x = f)
      /\ got \in Seq(1..(Prompt + 2)) /\ open \in 0..(Prompt + 2)
  BY <1>1, <1>2, ReadsStream
<1>4. SendSound(call.at, call.command, call.pending, rest, got, open)
  BY <1>1, <1>2, ReadsSend
<1>5. p \in PartRow /\ f \in 1..(Prompt + 2) /\ p.last \in BOOLEAN /\ 1 \in DOMAIN pipes.stdin
      /\ rest \in Seq(PartRow)
  <2>1. 1 \in DOMAIN pipes.stdin /\ DOMAIN pipes.stdin = 1..Len(pipes.stdin) /\ rest \in Seq(PartRow)
    BY <1>1, <1>2, EmptySeq, LenProperties, HeadTailProperties
  <2>2. p \in PartRow
    BY <1>2, <2>1, ElementOfSeq
  <2> QED
    BY <2>1, <2>2 DEF PartRow
<1>6. torn = FALSE
  BY <1>1 DEF StreamSound
<1>7. f <= Prompt => Len(pi.got) = f - 1
  <2>1. f = Len(pi.got) + 1 \/ f > Prompt
    BY <1>1, <1>5 DEF StreamSound
  <2> QED
    BY <1>2, <1>5, <2>1, PromptFact, LenProperties
<1>8. f <= Prompt => ~In(Prompt, pi.got) /\ pi.events = 0
  <2>1. SUFFICES ASSUME f <= Prompt, In(Prompt, pi.got) PROVE FALSE
    BY <1>1 DEF DueSound
  <2>2. PICK i \in DOMAIN pi.got : pi.got[i] = Prompt
    BY <2>1 DEF In
  <2>3. i \in 1..Len(pi.got) /\ Len(pi.got) \in Nat
    BY <1>2, <2>2, LenProperties
  <2>4. pi.got[i] = i \/ pi.got[i] > Prompt
    BY <1>1, <2>2 DEF StreamSound
  <2> QED
    BY <1>5, <1>7, <2>1, <2>2, <2>3, <2>4, PromptFact
<1>9. Reply(f) \in Said /\ due \in Seq(Said \cup {Opening})
  <2>1. Reply(f) \in Said
    BY <1>5, SaidMembers
  <2> QED
    BY <1>1, <1>2, <2>1, DuePair, PiFields
<1>10. /\ p.last /\ f # Prompt => \A z \in Said : In(z, due) <=> z = Reply(f)
       /\ ~(p.last /\ f # Prompt) => due = <<>> /\ \A z \in Said : ~In(z, due)
  BY <1>1, <1>9, DuePair, InEmpty
<1>11. PartsSound(pipes.stdout, due)
  <2>1. CASE p.last /\ f # Prompt
    <3>1. due = <<Opening, Reply(f)>>
      BY <2>1
    <3>2. Len(due) = 2 /\ due[1] = Opening /\ due[2] \in Said
      BY <1>9, <3>1, DuePair
    <3>3. pipes.stdout # <<>> => pipes.stdout[Len(pipes.stdout)] # Opening
      BY <1>1, EmptySeq DEF PartsSound
    <3> QED
      BY <1>1, <3>2, <3>3 DEF PartsSound
  <2>2. CASE ~(p.last /\ f # Prompt)
    BY <1>1, <2>2
  <2> QED
    BY <2>1, <2>2
<1>q. pi' = [pi EXCEPT !.torn = torn, !.partial = open, !.got = got, !.due = due,
                       !.ack = ack, !.events = events]
  BY DEF PiReads, GotWith, PartialAfter
<1>p. pipes' = [pipes EXCEPT !.stdin = rest]
  BY DEF PiReads
<1>12. ack \in BOOLEAN /\ events \in 0..5 /\ (p.last /\ f = Prompt => ack = TRUE /\ events = 1)
       /\ (~(p.last /\ f = Prompt) => ack = pi.ack /\ events = pi.events)
  BY <1>2
<1> HIDE DEF p, rest, f, got, open, torn, due, ack, events
<1>13. /\ pi' \in PiState /\ pi'.torn = torn /\ pi'.partial = open /\ pi'.got = got
       /\ pi'.due = due /\ pi'.ack = ack /\ pi'.events = events
       /\ pi'.group = pi.group /\ pi'.doomed = pi.doomed /\ pi'.exit = pi.exit
       /\ pi'.silent = pi.silent /\ pi'.odd = pi.odd /\ pi'.notices = pi.notices
  BY <1>1, <1>3, <1>6, <1>9, <1>12, <1>q DEF PiState
<1>14. /\ pipes' \in PipesState /\ pipes'.stdin = rest /\ pipes'.stdout = pipes.stdout
       /\ pipes'.open = pipes.open
  BY <1>1, <1>5, <1>p DEF PipesState
<1>15. /\ \A n \in 1..4 : Event(n) \in Said /\ ~In(Event(n), due)
       /\ Level \in Said /\ Update \in Said /\ Junk \in Said
       /\ ~In(Level, due) /\ ~In(Update, due) /\ ~In(Junk, due)
       /\ \A k \in 1..(Prompt + 2) : In(Reply(k), due) <=> p.last /\ f # Prompt /\ k = f
  <2>1. /\ \A n \in 1..4 : Event(n) \in Said
        /\ \A k \in 1..(Prompt + 2) : Reply(k) \in Said
        /\ Level \in Said /\ Update \in Said /\ Junk \in Said
    BY SaidMembers
  <2>2. /\ \A n : Event(n) # Reply(f)
        /\ \A k : Reply(k) = Reply(f) => k = f
        /\ Level # Reply(f) /\ Update # Reply(f) /\ Junk # Reply(f)
    BY SaidDiffers
  <2> QED
    BY <1>10, <2>1, <2>2
<1>16. Prompt \in 1..(Prompt + 2) /\ InitCommands = Prompt - 1 /\ Prompt \in Nat
  BY PromptFact
<1>17. DueSound(pi')
  <2>1. ASSUME NEW k \in 1..InitCommands, In(Reply(k), due)
        PROVE  events = 0
    <3>1. k \in 1..(Prompt + 2) /\ k < Prompt
      BY <1>16
    <3>2. p.last /\ f # Prompt /\ k = f
      BY <1>15, <2>1, <3>1
    <3>3. f <= Prompt
      BY <1>16, <3>1, <3>2
    <3> QED
      BY <1>8, <1>12, <3>2, <3>3
  <2>2. In(Prompt, got) <=> events # 0
    <3>1. CASE p.last /\ f = Prompt
      BY <1>3, <1>12, <3>1
    <3>2. CASE ~(p.last /\ f = Prompt)
      BY <1>1, <1>3, <1>12, <3>2 DEF DueSound
    <3> QED
      BY <3>1, <3>2
  <2>3. ack => events # 0 /\ ~In(Reply(Prompt), due)
    <3>1. CASE p.last /\ f = Prompt
      BY <1>12, <1>15, <1>16, <3>1
    <3>2. CASE ~(p.last /\ f = Prompt)
      BY <1>1, <1>12, <1>15, <1>16, <3>2 DEF DueSound
    <3> QED
      BY <3>1, <3>2
  <2> QED
    BY <1>13, <1>15, <2>1, <2>2, <2>3 DEF DueSound
<1>18. ArrivedSound(call, pipes.stdout, pi')
  <2>0. \A z : OnItsWay(z, call, pipes.stdout, pi.due) <=> Left(z, call, pipes.stdout)
    BY <1>1, InEmpty DEF OnItsWay
  <2>1. ASSUME NEW k \in 1..(Prompt + 2), OnItsWay(Reply(k), call, pipes.stdout, due)
        PROVE  In(k, got)
    <3>1. CASE In(Reply(k), due)
      BY <1>3, <1>15, <3>1
    <3>2. CASE Left(Reply(k), call, pipes.stdout)
      BY <1>1, <1>3, <2>0, <3>2 DEF ArrivedSound
    <3> QED
      BY <2>1, <3>1, <3>2 DEF OnItsWay
  <2>2. ASSUME NEW n \in 1..4,
               Left(Event(n), call, pipes.stdout) \/ (call.at \in Live /\ n <= call.position)
        PROVE  n < events /\ ~In(Event(n), due)
    <3>1. n < pi.events
      BY <1>1, <2>2 DEF ArrivedSound
    <3>2. ~(p.last /\ f = Prompt)
      BY <1>8, <1>16, <3>1
    <3> QED
      BY <1>12, <1>15, <3>1, <3>2
  <2>3. ASSUME Left(Reply(Prompt), call, pipes.stdout)
                 \/ (call.at \in {"run", "closing"} /\ call.awaiting = 0)
        PROVE  In(Prompt, got) /\ ~ack /\ ~In(Reply(Prompt), due)
    <3>1. In(Prompt, pi.got) /\ ~pi.ack
      BY <1>1, <2>3 DEF ArrivedSound
    <3>2. ~(p.last /\ f = Prompt)
      BY <1>8, <1>16, <3>1
    <3> QED
      BY <1>3, <1>12, <1>15, <1>16, <3>1, <3>2
  <2> QED
    BY <1>13, <2>1, <2>2, <2>3 DEF ArrivedSound
<1>19. ASSUME NEW z, OnItsWay(z, call, pipes.stdout, pi.due)
       PROVE  OnItsWay(z, call, pipes.stdout, due)
  BY <1>1, <1>19, InEmpty DEF OnItsWay
<1>20. ASSUME NEW k \in 1..(Prompt + 2), k # Prompt, In(k, got),
              In(k, pi.got) => OnItsWay(Reply(k), call, pipes.stdout, pi.due)
       PROVE  OnItsWay(Reply(k), call, pipes.stdout, due)
  <2>1. CASE In(k, pi.got)
    BY <1>19, <1>20, <2>1
  <2>2. CASE p.last /\ k = f
    BY <1>15, <1>20, <2>2 DEF OnItsWay
  <2> QED
    BY <1>3, <1>20, <2>1, <2>2
<1>21. NothingLost(call, pipes.stdout, pi')
  <2>1. ASSUME call.at = "read", In(call.command, got)
        PROVE  OnItsWay(Reply(call.command), call, pipes.stdout, due)
    <3>1. call.command <= InitCommands /\ call.command >= 1
      BY <1>1, <2>1 DEF PhaseSound
    <3>2. call.command \in 1..(Prompt + 2) /\ call.command # Prompt
      BY <1>2, <1>16, <3>1
    <3>3. In(call.command, pi.got) =>
            OnItsWay(Reply(call.command), call, pipes.stdout, pi.due)
      BY <1>1, <2>1 DEF NothingLost
    <3> QED
      BY <1>20, <2>1, <3>2, <3>3
  <2>2. ASSUME call.at = "run", In(Prompt, got), call.awaiting # 0, ~ack
        PROVE  OnItsWay(Reply(Prompt), call, pipes.stdout, due)
    <3>1. ~(p.last /\ f = Prompt)
      BY <1>12, <2>2
    <3>2. In(Prompt, pi.got) /\ ~pi.ack
      BY <1>3, <1>12, <2>2, <3>1
    <3> QED
      BY <1>1, <1>19, <2>2, <3>2 DEF NothingLost
  <2>3. ASSUME call.at = "run", NEW n \in 1..4, call.position < n, n < events
        PROVE  OnItsWay(Event(n), call, pipes.stdout, due)
    <3>1. ~(p.last /\ f = Prompt)
      BY <1>12, <2>3
    <3>2. n < pi.events
      BY <1>12, <2>3, <3>1
    <3> QED
      BY <1>1, <1>19, <2>3, <3>2 DEF NothingLost
  <2>4. ASSUME call.at \in Handshake, In(Frame(call.at, call.command), got)
        PROVE  OnItsWay(Reply(Frame(call.at, call.command)), call, pipes.stdout, due)
    <3>1. Frame(call.at, call.command) \in {Prompt + 1, Prompt + 2}
      BY <2>4 DEF Frame, Handshake
    <3>2. /\ Frame(call.at, call.command) \in 1..(Prompt + 2)
          /\ Frame(call.at, call.command) # Prompt
      BY <1>16, <3>1
    <3>3. In(Frame(call.at, call.command), pi.got) =>
            OnItsWay(Reply(Frame(call.at, call.command)), call, pipes.stdout, pi.due)
      BY <1>1, <2>4 DEF NothingLost
    <3> QED
      BY <1>20, <2>4, <3>2, <3>3
  <2> QED
    BY <1>13, <2>1, <2>2, <2>3, <2>4 DEF NothingLost
<1>22. FaultShows(call, pipes.stdout, pi')
  <2>1. pi.exit = "none"
    BY <1>1, AliveFacts
  <2> QED
    BY <1>1, <1>13, <1>19, <2>1 DEF FaultShows
<1>23. "leader" \in pi.group
  BY <1>1, AliveFacts
<1>24. ~pi'.torn
  BY <1>6, <1>13 DEF torn
<1> QED
  BY <1>1, <1>3, <1>4, <1>11, <1>13, <1>14, <1>17, <1>18, <1>21, <1>22, <1>23, <1>24, AliveSound

-------------------------------------------------------------------------------
(* The invariant *)

\* The invariant holds at the start.
LEMMA InitSound == RpcInit => IInv
<1> SUFFICES ASSUME RpcInit PROVE IInv
  OBVIOUS
<1>0. Prompt \in Nat /\ Prompt >= 1 /\ InitCommands = Prompt - 1 /\ InputSize \in Nat
  BY PromptFact, CallAssumption
<1>1. /\ call.at = "start" /\ call.command = 0 /\ call.pending = 0 /\ call.writePending = FALSE
      /\ call.awaiting = 0 /\ call.records = <<>> /\ call.eof = FALSE /\ call.exit = "none"
      /\ call.position = 0 /\ call.result = "none"
  BY DEF RpcInit
<1>2. pipes.stdin = <<>> /\ pipes.stdout = <<>> /\ pipes.open = TRUE
  BY DEF RpcInit
<1>3. /\ pi.group = {"leader"} /\ pi.doomed = {} /\ pi.exit = "none" /\ pi.got = <<>>
      /\ pi.partial = 0 /\ pi.torn = FALSE /\ pi.due = <<>> /\ pi.ack = FALSE /\ pi.events = 0
      /\ pi.odd = FALSE
  BY DEF RpcInit
<1>4. call \in CallFrame
  <2>1. <<>> \in Seq(Said) /\ 0 \in 0..Prompt /\ 0 \in 0..4 /\ 0 \in Nat
    BY <1>0, EmptySeq
  <2> QED
    BY <2>1 DEF RpcInit, CallFrame, Phases, Live, Exits, Reasons
<1>5. pipes \in PipesState
  <2>1. <<>> \in Seq(PartRow) /\ <<>> \in Seq(Said \cup {Opening})
    BY EmptySeq
  <2> QED
    BY <2>1 DEF RpcInit, PipesState
<1>6. pi \in PiState
  <2>1. <<>> \in Seq(1..(Prompt + 2)) /\ <<>> \in Seq(Said \cup {Opening})
        /\ 0 \in 0..(Prompt + 2) /\ 0 \in 0..5 /\ 0 \in Nat
    BY <1>0, EmptySeq
  <2> QED
    BY <2>1 DEF RpcInit, PiState, Members, Exits
<1>7. Len(<<>>) = 0 /\ DOMAIN <<>> = {}
  BY EmptySeq
<1>8. PhaseSound(call) /\ OpenSound(call, pipes.open)
  BY <1>0, <1>1 DEF PhaseSound, OpenSound, Live, Handshake
<1>9. StreamSound(pipes.stdin, pi.got, pi.partial)
  BY <1>0, <1>2, <1>3, <1>7 DEF StreamSound
<1>10. SendSound(call.at, call.command, call.pending, pipes.stdin, pi.got, pi.partial)
  BY <1>1, <1>2, <1>3, <1>7 DEF SendSound, EndOpen, Live, Handshake
<1>11. PartsSound(pipes.stdout, pi.due)
  BY <1>2, <1>3, <1>7 DEF PartsSound, Alternates
<1>12. DueSound(pi)
  BY <1>3, <1>7, InEmpty DEF DueSound
<1>13. ArrivedSound(call, pipes.stdout, pi)
  BY <1>1, <1>2, <1>3, InEmpty DEF ArrivedSound, OnItsWay, Left
<1>14. NothingLost(call, pipes.stdout, pi)
  BY <1>1 DEF NothingLost, Handshake
<1>15. ProcessSound(call, pipes.stdout, pi) /\ FaultShows(call, pipes.stdout, pi)
  BY <1>1, <1>2, <1>3 DEF ProcessSound, FaultShows
<1>16. CandidateSound(call, pi) /\ ReturnSound(call, pi, expired)
  BY <1>1 DEF CandidateSound, ReturnSound
<1>17. expired \subseteq Limits \cup {"cancelled"}
  BY DEF RpcInit
<1> QED
  BY <1>3, <1>4, <1>5, <1>6, <1>8, <1>9, <1>10, <1>11, <1>12, <1>13, <1>14, <1>15, <1>16, <1>17
     DEF IInv, Sound

\* Every step keeps it.
LEMMA StepSound == IInv /\ [RpcNext]_rpcVars => IInv'
<1> SUFFICES ASSUME IInv, [RpcNext]_rpcVars PROVE IInv'
  OBVIOUS
<1>1. CASE UNCHANGED rpcVars
  BY <1>1 DEF rpcVars, IInv
<1>2. CASE StopCall \/ StartSession \/ BeforeCommand \/ Send \/ Read \/ Run \/ AwaitExit
  BY <1>2, StopCallStep, StartSessionStep, BeforeCommandStep, SendStep, ReadStep, RunStep,
     AwaitExitStep
<1>3. CASE \/ HandshakeFails \/ HandshakePump \/ HandshakeRead \/ Cleanup \/ Return \/ Interrupt
           \/ Expire
  BY <1>3, HandshakeFailsStep, HandshakePumpStep, HandshakeReadStep, CleanupStep, ReturnStep,
     InterruptStep, ExpireStep
<1>4. CASE PiReads \/ PiWrites \/ PiSays \/ PiExits \/ PiFails \/ Dies
  BY <1>4, PiReadsStep, PiWritesStep, PiSaysStep, PiExitsStep, PiFailsStep, DiesStep
<1> QED
  BY <1>1, <1>2, <1>3, <1>4 DEF RpcNext

\* The invariant: every step of the call, of Pi and of the clock keeps the two ends
\* in agreement about what has been sent, said, read and acted upon.
THEOREM RpcInvariant == RpcSpec => []IInv
<1>1. RpcInit => IInv
  BY InitSound
<1>2. IInv /\ [RpcNext]_rpcVars => IInv'
  BY StepSound
<1> QED
  BY <1>1, <1>2, PTL DEF RpcSpec

\* The frame of run_call, the pipes and the state of Pi keep their types.
THEOREM RpcTypeCorrect == RpcSpec => []RpcTypeOK
<1>1. IInv => RpcTypeOK
  BY DEF IInv, Sound, RpcTypeOK
<1> QED
  BY <1>1, RpcInvariant, PTL

-------------------------------------------------------------------------------
(* What a candidate means *)

\* The invariant gives what a returned call promises.
LEMMA SoundCall == IInv => CallIsSound
<1> SUFFICES ASSUME IInv PROVE CallIsSound
  OBVIOUS
<1>1. /\ pi \in PiState /\ StreamSound(pipes.stdin, pi.got, pi.partial)
      /\ CandidateSound(call, pi) /\ ReturnSound(call, pi, expired) /\ ~pi.torn
  BY DEF IInv, Sound
<1>2. CandidateIsClean
  BY <1>1 DEF CandidateIsClean, CandidateSound, RunEvents
<1>3. ASSUME NEW i \in DOMAIN pi.got, pi.got[i] = Prompt
      PROVE  i = Prompt
  BY <1>1, <1>3, PromptFact DEF StreamSound
<1> QED
  BY <1>1, <1>2, <1>3 DEF CallIsSound, ReturnSound

\* A candidate is given out only after a clean session; no process of the group
\* outlives the call unless it could not be killed in time; Pi never gets a torn
\* frame, nor the prompt twice (llm/rpc.py:385-388, llm/rpc_pipes.py:122).
THEOREM CallsAreSound == RpcSpec => []CallIsSound
BY RpcInvariant, SoundCall, PTL

-------------------------------------------------------------------------------
(* Nobody waits for ever *)

\* When all that could be read or written has been, nothing is on its way.
LEMMA AllQuiet ==
  ASSUME IInv, Alive, CallWaits, PiWaits
  PROVE  /\ call.pending = 0 /\ pipes.stdin = <<>> /\ pipes.open /\ ~pi.ack
         /\ pi.events \in {0, 5}
         /\ \A z : ~OnItsWay(z, call, pipes.stdout, pi.due)
<1>1. call \in CallFrame /\ pipes \in PipesState /\ pi \in PiState
  BY AliveFacts
<1>2. call.pending \in Nat /\ pi.events \in 0..5
  BY <1>1, FrameFields, PiFields
<1>3. pipes.stdout = <<>> /\ ~(PartsWritten(call) > 0)
  BY DEF CallWaits, Ready, Taken
<1>4. InputSize \in Nat \ {0} /\ OutputSize \in Nat \ {0} /\ Len(<<>>) = 0
  BY CallAssumption, EmptySeq
<1>5. pi.due = <<>>
  BY <1>3, <1>4 DEF PiWaits
<1>6. pipes.stdin = <<>> /\ pipes.open /\ ~pi.ack /\ pi.events \notin 1..4
  BY <1>5 DEF PiWaits, RunEvents
<1>7. call.pending = 0
  <2>1. PartsWritten(call) = Least(call.pending, InputSize - 0)
    BY <1>4, <1>6 DEF PartsWritten
  <2> QED
    BY <1>2, <1>3, <1>4, <2>1 DEF Least
<1>8. call.records = <<>>
  BY <1>7 DEF CallWaits
<1>9. \A z : ~OnItsWay(z, call, pipes.stdout, pi.due)
  BY <1>3, <1>5, <1>8, InEmpty DEF OnItsWay, Left
<1> QED
  BY <1>2, <1>6, <1>7, <1>9

\* The invariant excludes that the two ends wait on each other.
LEMMA SoundWaiting == IInv => NobodyWaits
<1> SUFFICES ASSUME IInv, Alive, CallWaits, PiWaits PROVE FALSE
  BY DEF NobodyWaits
<1>1. /\ call.pending = 0 /\ pipes.stdin = <<>> /\ pipes.open /\ ~pi.ack
      /\ pi.events \in {0, 5}
      /\ \A z : ~OnItsWay(z, call, pipes.stdout, pi.due)
  BY AllQuiet
<1>2. /\ call \in CallFrame /\ pi \in PiState
      /\ PhaseSound(call) /\ OpenSound(call, pipes.open)
      /\ SendSound(call.at, call.command, call.pending, pipes.stdin, pi.got, pi.partial)
      /\ DueSound(pi) /\ NothingLost(call, pipes.stdout, pi)
  BY DEF IInv, Sound
<1>3. /\ call.command \in 0..Prompt /\ call.position \in 0..4 /\ call.awaiting \in 0..Prompt
      /\ pi.got \in Seq(1..(Prompt + 2)) /\ Prompt \in Nat /\ Prompt >= 1
  BY <1>2, FrameFields, PiFields, PromptFact
<1>4. \A f : Delivered(f, pipes.stdin, pi.got) => In(f, pi.got)
  BY <1>1 DEF Delivered
<1>5. call.at \in {"read", "run", "closing"} /\ call.command >= 1 => In(call.command, pi.got)
  <2>1. SUFFICES ASSUME call.at \in {"read", "run", "closing"}, call.command >= 1
                 PROVE  In(call.command, pi.got)
    OBVIOUS
  <2>2. CASE Len(pi.got) = call.command
    <3>1. call.command \in DOMAIN pi.got
      BY <1>3, <2>1, <2>2, LenProperties
    <3>2. pi.got[call.command] = call.command
      BY <1>2, <2>1, <3>1 DEF SendSound, Live
    <3> QED
      BY <3>1, <3>2 DEF In
  <2>3. CASE Delivered(call.command, pipes.stdin, pi.got)
    BY <1>4, <2>3
  <2> QED
    BY <1>2, <2>1, <2>2, <2>3 DEF SendSound
<1>6. CASE call.at = "send"
  BY <1>1, <1>2, <1>6 DEF PhaseSound
<1>7. CASE call.at = "read"
  <2>1. call.command >= 1
    BY <1>2, <1>7 DEF PhaseSound
  <2> QED
    BY <1>1, <1>2, <1>5, <1>7, <2>1 DEF NothingLost
<1>8. CASE call.at = "run"
  <2>1. call.command = Prompt /\ ~(call.position = 4 /\ call.awaiting = 0)
    BY <1>2, <1>8 DEF PhaseSound
  <2>2. In(Prompt, pi.got)
    BY <1>3, <1>5, <1>8, <2>1
  <2>3. pi.events = 5
    BY <1>1, <1>2, <2>2 DEF DueSound
  <2>4. CASE call.awaiting # 0
    BY <1>1, <1>2, <1>8, <2>2, <2>4 DEF NothingLost
  <2>5. CASE call.position # 4
    <3>1. call.position + 1 \in 1..4 /\ call.position < call.position + 1
          /\ call.position + 1 < pi.events
      BY <1>3, <2>3, <2>5
    <3> QED
      BY <1>1, <1>2, <1>8, <3>1 DEF NothingLost
  <2> QED
    BY <2>1, <2>4, <2>5
<1>9. CASE call.at = "closing"
  BY <1>1, <1>2, <1>9 DEF PhaseSound, OpenSound
<1>10. CASE call.at \in Handshake
  <2>1. Delivered(Frame(call.at, call.command), pipes.stdin, pi.got)
    BY <1>1, <1>2, <1>10 DEF SendSound
  <2> QED
    BY <1>1, <1>2, <1>4, <1>10, <2>1 DEF NothingLost
<1> QED
  BY <1>6, <1>7, <1>8, <1>9, <1>10 DEF CallWaits, Handshake

\* While nothing has gone wrong, a call that waits for a pipe has a Pi that can
\* read, write or speak, whatever the capacity of the two pipes
\* (llm/rpc_pipes.py:68).
THEOREM NeverBothWaiting == RpcSpec => []NobodyWaits
BY RpcInvariant, SoundWaiting, PTL
================================================================================
