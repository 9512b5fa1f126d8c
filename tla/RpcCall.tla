-------------------------------- MODULE RpcCall --------------------------------
(***************************************************************************)
(* One call of a Pi process over its pipes (src/paper_radar/llm/rpc*.py):   *)
(* the commands that initialise a session, one prompt, the events of its    *)
(* run, the cancellation handshake and the end of the process group. The    *)
(* pipes hold parts of frames; Pi and the clock are the environment.        *)
(***************************************************************************)
EXTENDS Integers, SequencesExt

CONSTANTS
  InitCommands,      \* commands before the prompt (eight in the code)
  PromptParts,       \* parts of the prompt frame; other frames have one
  InputSize, OutputSize,   \* what the pipes to and from Pi hold, in parts
  MaxNotices         \* notifications Pi sends unasked

ASSUME CallAssumption ==
  /\ InitCommands \in Nat /\ MaxNotices \in Nat
  /\ PromptParts \in Nat \ {0} /\ InputSize \in Nat \ {0} /\ OutputSize \in Nat \ {0}

Prompt == InitCommands + 1
Limits == {"initialization", "total", "close", "terminate"}
RunEvents == <<"agent_start", "assistant_start", "assistant_end", "agent_settled">>
\* A part that starts a frame; the part that ends it is the record itself.
Opening == [type |-> "head"]
Level == [type |-> "level"]
Update == [type |-> "update"]
Junk == [type |-> "junk"]
Event(n) == [type |-> "event", n |-> n]
Reply(id) == [type |-> "response", id |-> id]

VARIABLES
  call,      \* the frame of run_call, with its _Connection
  pipes,     \* stdin and stdout of Pi
  pi,        \* the Pi process and its group
  expired    \* deadlines that have passed, and "cancelled"

rpcVars == <<call, pipes, pi, expired>>

-------------------------------------------------------------------------------
(* The end of a call *)

\* The phases in which the deadline of the initialisation holds.
Initialising == call.at \in {"start", "before", "send", "read"} /\ call.command <= InitCommands
Running == call.at \in {"start", "before", "send", "read", "run", "closing"}
Late ==
  \/ "total" \in expired
  \/ Initialising /\ "initialization" \in expired
  \/ call.at = "closing" /\ "close" \in expired
\* _Connection.check: "none" when the call may go on.
Checked ==
  IF "cancelled" \in expired THEN "cancelled"
  ELSE IF Late THEN "timeout" ELSE "none"

\* A wrong variant: the handshake starts in the middle of a frame.
MayShakeAnyhow(c) == ~c.eof /\ c.exit = "none" /\ ~c.settled
\* The first failure stands; a cancelled call may still shake hands.
MayShake(c) == ~c.writePending /\ ~c.eof /\ c.exit = "none" /\ ~c.settled
Failed(c, reason) ==
  [c EXCEPT !.result = reason,
            !.at = IF reason = "cancelled" /\ MayShake(c) THEN "clear_queue" ELSE "cleanup",
            !.pending = IF reason = "cancelled" THEN 1 ELSE 0,
            !.records = IF reason = "cancelled" THEN @ ELSE <<>>]
Stopped(c) == [c EXCEPT !.at = "cleanup", !.records = <<>>, !.pending = 0]

-------------------------------------------------------------------------------
(* One pump *)

Least(m, n) == IF m < n THEN m ELSE n
\* The frame that is sent. The two commands of a cancellation take the next
\* numbers in the code; here they have numbers of their own.
FrameOf(c) ==
  CASE c.at = "clear_queue" -> Prompt + 1
    [] c.at = "abort" -> Prompt + 2
    [] OTHER -> c.command
PartsOf(frame) == IF frame = Prompt THEN PromptParts ELSE 1
Part(frame, left) ==
  IF left = 1 THEN [frame |-> frame, last |-> TRUE] ELSE [frame |-> frame, last |-> FALSE]
PartsWritten(c) == Least(c.pending, InputSize - Len(pipes.stdin))
SentParts(c) == [i \in 1..PartsWritten(c) |-> Part(FrameOf(c), c.pending - i + 1)]
\* A wrong variant: nothing is read before the frame is written.
TakenWhenWritten(c) == IF c.pending = 0 THEN pipes.stdout ELSE <<>>
\* What a pump takes from Pi, also while it is writing.
Taken(c) == pipes.stdout
EndOfFile(c) == pi.group = {} /\ Taken(c) = <<>>
\* The records that end in what is taken: every other part ends one.
Records(parts) ==
  LET begun == IF parts # <<>> /\ parts[1] # Opening THEN 1 ELSE 0
  IN [k \in 1..((Len(parts) + begun) \div 2) |-> parts[2 * k - begun]]
\* The connection after a pump, before its errors.
Received(c) ==
  [c EXCEPT !.pending = @ - PartsWritten(c), !.writePending = PartsWritten(c) < c.pending,
            !.records = @ \o Records(Taken(c)),
            !.tail = IF Taken(c) = <<>> THEN @ ELSE Last(Taken(c)) = Opening,
            !.eof = @ \/ EndOfFile(c),
            !.exit = IF "leader" \in pi.group THEN @ ELSE pi.exit]
\* Nobody is left to read what is written.
Broken(c) == pi.group = {} /\ c.pending > 0
\* Cancellation and deadlines are looked at again before the bytes are taken in.
PumpError(c, d) ==
  IF Broken(c) THEN "environment"
  ELSE IF EndOfFile(c) /\ c.tail THEN "protocol"
  ELSE IF d.exit = "error" THEN "environment" ELSE "none"

\* A call that is cancelled in between drops what it has read.
Dropped(c) ==
  [c EXCEPT !.pending = @ - PartsWritten(c), !.writePending = PartsWritten(c) < c.pending]
Pumped(c, d) ==
  /\ pipes' = [pipes EXCEPT !.stdin = @ \o SentParts(c),
                            !.stdout = SubSeq(@, Len(Taken(c)) + 1, Len(@))]
  /\ \/ /\ call' = IF PumpError(c, d) = "none" THEN d
                   ELSE IF c.result = "none" THEN Failed(d, PumpError(c, d)) ELSE Stopped(d)
        /\ UNCHANGED expired
     \/ /\ c.result = "none" /\ ~Broken(c)
        /\ expired' = expired \cup {"cancelled"}
        /\ call' = Failed(Dropped(c), "cancelled")
  /\ UNCHANGED pi
\* Something to write or to read, or news of the process.
Ready(c) == PartsWritten(c) > 0 \/ Broken(c) \/ Taken(c) # <<>> \/ Received(c) # c

Fails(reason) ==
  /\ call' = Failed(call, reason)
  /\ UNCHANGED <<pipes, pi, expired>>
Ended(c) == c.eof /\ c.exit = "ok"
Leftover(c) == {i \in DOMAIN c.records : c.records[i] # Level}
\* What is found out before the next check.
Decided ==
  \/ call.at = "closing" /\ (call.records # <<>> \/ Ended(call))
  \/ call.at = "before" /\ Leftover(call) # {}
\* Every other step of a running call starts with a check.
StopCall == Running /\ Checked # "none" /\ ~Decided /\ Fails(Checked)
GoesOn == Running /\ Checked = "none"

-------------------------------------------------------------------------------
(* Commands *)

\* The first look at a session, before any command.
StartSession ==
  /\ call.at = "start" /\ GoesOn
  /\ LET d == Received(call)
     IN IF d.records # <<>> \/ d.tail
        THEN Fails("protocol")
        ELSE Pumped(call, [d EXCEPT !.at = "before"])

\* before_command: drain what is left, and go on when nothing more has come.
BeforeCommand ==
  /\ call.at = "before" /\ (GoesOn \/ Decided)
  /\ IF Leftover(call) # {} \/ (call.command = 0 /\ (call.records # <<>> \/ call.tail))
     THEN Fails("protocol")
     ELSE LET c == [call EXCEPT !.records = <<>>]
              d == Received(c)
              next == [d EXCEPT !.at = "send", !.command = @ + 1, !.awaiting = c.command + 1,
                                !.pending = PartsOf(c.command + 1), !.writePending = TRUE]
          IN Pumped(c, IF d.eof \/ d.exit # "none" THEN Failed(d, "environment")
                       ELSE IF d.records = <<>> /\ ~d.tail /\ Taken(c) = <<>> THEN next
                       ELSE d)

Send ==
  /\ call.at = "send" /\ GoesOn /\ Ready(call)
  /\ LET d == Received(call)
         after == IF call.command = Prompt THEN "run" ELSE "read"
     IN Pumped(call, IF d.pending = 0 THEN [d EXCEPT !.at = after] ELSE d)

\* exchange: notifications pass, the next other record must be the response.
Read ==
  /\ call.at = "read" /\ GoesOn
  /\ \/ /\ call.records = <<>> /\ call.eof /\ Fails("environment")
     \/ /\ call.records = <<>> /\ ~call.eof /\ Ready(call) /\ Pumped(call, Received(call))
     \/ /\ call.records # <<>>
        /\ LET rest == [call EXCEPT !.records = Tail(@)]
               record == call.records[1]
               answered == [rest EXCEPT !.awaiting = 0, !.at = "before"]
           IN call' = IF record = Level THEN rest
                      ELSE IF record # Reply(call.command) THEN Failed(rest, "protocol")
                      ELSE IF call.command = InitCommands /\ rest.records # <<>>
                      THEN Failed(rest, "protocol")
                      ELSE answered
        /\ UNCHANGED <<pipes, pi, expired>>

-------------------------------------------------------------------------------
(* The run of the prompt *)

RunSettled(c) == c.position = Len(RunEvents)
\* RunEvents.accept
Accepts(c, record) ==
  \/ record = Update /\ c.position = 2
  \/ ~RunSettled(c) /\ record = Event(c.position + 1)
Advanced(c, record) == IF record = Update THEN c ELSE [c EXCEPT !.position = @ + 1]
Run ==
  /\ call.at = "run" /\ GoesOn
  /\ \/ /\ call.records = <<>> /\ call.eof /\ Fails("environment")
     \/ /\ call.records = <<>> /\ ~call.eof /\ Ready(call) /\ Pumped(call, Received(call))
     \/ /\ call.records # <<>>
        /\ LET rest == [call EXCEPT !.records = Tail(@)]
               record == call.records[1]
               next == IF record = Reply(Prompt) /\ call.awaiting = Prompt
                       THEN [rest EXCEPT !.awaiting = 0] ELSE Advanced(rest, record)
               done == RunSettled(next) /\ next.awaiting = 0
           IN IF (record = Reply(Prompt) /\ call.awaiting = Prompt) \/ Accepts(rest, record)
              THEN /\ call' = [next EXCEPT !.settled = RunSettled(next),
                                           !.at = IF done THEN "closing" ELSE "run"]
                   /\ pipes' = [pipes EXCEPT !.open = @ /\ ~RunSettled(next)]
              ELSE /\ call' = Failed(rest, "protocol")
                   /\ UNCHANGED pipes
        /\ UNCHANGED <<pi, expired>>

\* The end of the streams and of the process, within the deadline of the close.
AwaitExit ==
  /\ call.at = "closing" /\ (GoesOn \/ Decided)
  /\ IF call.records # <<>> THEN Fails("protocol")
     ELSE IF Ended(call)
     THEN /\ call' = [call EXCEPT !.at = "cleanup", !.result = "candidate"]
          /\ UNCHANGED <<pipes, pi, expired>>
     ELSE Ready(call) /\ Pumped(call, Received(call))

-------------------------------------------------------------------------------
(* Cancellation *)

\* _cancel: clear_queue and abort, each answered within the close deadline; the
\* answer to the command that was under way may come first.
Shaking == call.at \in {"clear_queue", "abort"}
HandshakeFails == /\ Shaking /\ "close" \in expired
                  /\ call' = Stopped(call) /\ UNCHANGED <<pipes, pi, expired>>
HandshakePump ==
  /\ Shaking /\ "close" \notin expired
  /\ call.pending > 0 \/ call.records = <<>>
  /\ IF call.eof THEN call' = Stopped(call) /\ UNCHANGED <<pipes, pi, expired>>
     ELSE Ready(call) /\ Pumped(call, Received(call))
HandshakeRead ==
  /\ Shaking /\ "close" \notin expired /\ call.pending = 0 /\ call.records # <<>>
  /\ LET rest == [call EXCEPT !.records = Tail(@)]
         record == call.records[1]
     IN call' =
          IF record.type # "response" THEN rest
          ELSE IF call.awaiting # 0 /\ record.id = call.awaiting
          THEN [rest EXCEPT !.awaiting = 0]
          ELSE IF record # Reply(FrameOf(call)) \/ call.at = "abort" THEN Stopped(rest)
          ELSE [rest EXCEPT !.at = "abort", !.pending = 1, !.writePending = TRUE]
  /\ UNCHANGED <<pipes, pi, expired>>

-------------------------------------------------------------------------------
(* Cleanup *)

\* close_stdin, then the whole group is killed, whether its leader lives or not.
Cleanup ==
  /\ call.at = "cleanup"
  /\ call' = [call EXCEPT !.at = "waiting"]
  /\ pipes' = [pipes EXCEPT !.open = FALSE]
  /\ pi' = [pi EXCEPT !.doomed = pi.group]
  /\ UNCHANGED expired
\* A candidate is given out only if the group is gone, and after another check.
Return ==
  /\ call.at = "waiting" /\ (pi.group = {} \/ "terminate" \in expired)
  /\ call' = [call EXCEPT !.at = "returned",
       !.result = IF @ # "candidate" THEN @
                  ELSE IF pi.group # {} THEN "timeout"
                  ELSE IF "cancelled" \in expired THEN "cancelled"
                  ELSE IF "total" \in expired THEN "timeout" ELSE "candidate"]
  /\ UNCHANGED <<pipes, pi, expired>>

\* A KeyboardInterrupt or SystemExit: outside the cleanup it leads there, inside
\* it is raised when the cleanup is done.
Interrupt ==
  /\ call.at # "returned" /\ call.result # "interrupted"
  /\ call' = [call EXCEPT !.result = "interrupted", !.records = <<>>, !.pending = 0,
                          !.at = IF @ = "waiting" THEN @ ELSE "cleanup"]
  /\ UNCHANGED <<pipes, pi, expired>>

-------------------------------------------------------------------------------
(* Pi, its group and the clock *)

Alive == "leader" \in pi.group \ pi.doomed
\* A write blocks Pi until the pipe has room.
PiReads ==
  /\ Alive /\ ~pi.silent /\ pi.due = <<>> /\ pipes.stdin # <<>>
  /\ pipes' = [pipes EXCEPT !.stdin = Tail(@)]
  /\ LET p == pipes.stdin[1]
     IN pi' = [pi EXCEPT
          !.torn = @ \/ (pi.partial # 0 /\ p.frame # pi.partial),
          !.partial = IF p.last THEN 0 ELSE p.frame,
          !.got = IF p.last THEN Append(@, p.frame) ELSE @,
          !.due = IF p.last /\ p.frame # Prompt THEN <<Opening, Reply(p.frame)>> ELSE @,
          !.ack = @ \/ (p.last /\ p.frame = Prompt),
          !.events = IF p.last /\ p.frame = Prompt THEN 1 ELSE @]
  /\ UNCHANGED <<call, expired>>
PiWrites ==
  /\ Alive /\ ~pi.silent /\ pi.due # <<>> /\ Len(pipes.stdout) < OutputSize
  /\ pipes' = [pipes EXCEPT !.stdout = Append(@, pi.due[1])]
  /\ pi' = [pi EXCEPT !.due = Tail(@)]
  /\ UNCHANGED <<call, expired>>
\* The acknowledgement and the events of a run, in any order; notifications.
PiSays ==
  /\ Alive /\ ~pi.silent /\ pi.due = <<>>
  /\ \/ pi.ack /\ pi' = [pi EXCEPT !.due = <<Opening, Reply(Prompt)>>, !.ack = FALSE]
     \/ /\ pi.events \in DOMAIN RunEvents
        /\ pi' = [pi EXCEPT !.due = <<Opening, Event(pi.events)>>, !.events = @ + 1]
     \/ /\ pi.notices < MaxNotices /\ pi.events \in {0, 3}
        /\ pi' = [pi EXCEPT !.due = <<Opening, IF pi.events = 0 THEN Level ELSE Update>>,
                            !.notices = @ + 1]
  /\ UNCHANGED <<call, pipes, expired>>
\* The end of its input ends it, when it has nothing left to say.
SaidAll == pi.due = <<>> /\ ~pi.ack /\ pi.events > Len(RunEvents)
PiExits ==
  /\ Alive /\ ~pi.silent /\ pi.due = <<>> /\ ~pi.ack /\ pi.events \notin DOMAIN RunEvents
  /\ ~pipes.open /\ pipes.stdin = <<>>
  /\ pi' = [pi EXCEPT !.group = @ \ {"leader"}, !.exit = "ok"]
  /\ UNCHANGED <<call, pipes, expired>>
\* One fault: a record of its own, silence, an early end, a child left behind.
PiFails ==
  /\ Alive /\ ~pi.odd
  /\ \/ pi.due = <<>> /\ pi' = [pi EXCEPT !.odd = TRUE, !.due = <<Opening, Junk>>]
     \/ pi' = [pi EXCEPT !.odd = TRUE, !.silent = TRUE]
     \/ \E code \in {"ok", "error"} :
          /\ code = "ok" => ~SaidAll
          /\ pi' = [pi EXCEPT !.odd = TRUE, !.group = @ \ {"leader"}, !.exit = code]
     \/ pi' = [pi EXCEPT !.odd = TRUE, !.group = @ \cup {"child"}]
  /\ UNCHANGED <<call, pipes, expired>>
Dies ==
  /\ \E p \in pi.doomed \cap pi.group :
       pi' = [pi EXCEPT !.group = @ \ {p},
                        !.exit = IF p = "leader" /\ @ = "none" THEN "error" ELSE @]
  /\ UNCHANGED <<call, pipes, expired>>

Armed ==
  (IF Running THEN {"total", "cancelled"} ELSE {}) \cup
  (IF Initialising THEN {"initialization"} ELSE {}) \cup
  (IF call.at = "closing" \/ Shaking THEN {"close"} ELSE {}) \cup
  (IF call.at = "waiting" THEN {"total", "cancelled", "terminate"} ELSE {})
Expire ==
  /\ \E limit \in Armed \ expired : expired' = expired \cup {limit}
  /\ UNCHANGED <<call, pipes, pi>>

RpcInit ==
  /\ call = [at |-> "start", command |-> 0, pending |-> 0, writePending |-> FALSE,
             awaiting |-> 0, records |-> <<>>, tail |-> FALSE, eof |-> FALSE, exit |-> "none",
             position |-> 0, settled |-> FALSE, result |-> "none"]
  /\ pipes = [stdin |-> <<>>, stdout |-> <<>>, open |-> TRUE]
  /\ pi = [group |-> {"leader"}, doomed |-> {}, exit |-> "none", got |-> <<>>, partial |-> 0,
           torn |-> FALSE, due |-> <<>>, ack |-> FALSE, events |-> 0, notices |-> 0,
           silent |-> FALSE, odd |-> FALSE]
  /\ expired = {}

RpcNext ==
  \/ StopCall \/ StartSession \/ BeforeCommand \/ Send \/ Read \/ Run \/ AwaitExit
  \/ HandshakeFails \/ HandshakePump \/ HandshakeRead \/ Cleanup \/ Return \/ Interrupt
  \/ PiReads \/ PiWrites \/ PiSays \/ PiExits \/ PiFails \/ Dies \/ Expire

RpcSpec == RpcInit /\ [][RpcNext]_rpcVars

-------------------------------------------------------------------------------
(* What must hold *)

\* A candidate means a session without a fault: every command once and in order,
\* whole, nothing else said, the process gone by itself (llm/rpc.py:385-388).
CandidateIsClean ==
  call.at = "returned" /\ call.result = "candidate" =>
    ~pi.odd /\ pi.got = [i \in 1..Prompt |-> i] /\ pi.exit = "ok" /\ pi.events > Len(RunEvents)
\* Whatever ended the call, no process of the group outlives it unless it could
\* not be killed in time; and Pi never gets a frame after a part of another one
\* (llm/rpc_pipes.py:122, llm/rpc.py:352).
CallIsSound ==
  /\ CandidateIsClean
  /\ call.at = "returned" => pi.group = {} \/ "terminate" \in expired
  /\ ~pi.torn
  /\ \A m, n \in DOMAIN pi.got : pi.got[m] = Prompt /\ pi.got[n] = Prompt => m = n

\* The two ends never wait on each other while nothing has gone wrong: a call
\* that waits for a pipe has a Pi that can read, write or speak, also when both
\* pipes are full (llm/rpc_pipes.py:68).
CallWaits ==
  /\ call.at \in {"send", "read", "run", "closing", "clear_queue", "abort"}
  /\ call.pending > 0 \/ call.records = <<>>
  /\ ~Ready(call)
PiWaits ==
  IF pi.due # <<>> THEN Len(pipes.stdout) = OutputSize
  ELSE pipes.stdin = <<>> /\ pipes.open /\ ~pi.ack /\ pi.events \notin DOMAIN RunEvents
NobodyWaits == ~(~pi.odd /\ Alive /\ CallWaits /\ PiWaits)
=============================================================================
