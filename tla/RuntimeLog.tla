------------------------------ MODULE RuntimeLog -------------------------------
(***************************************************************************)
(* The log of a root, src/paper_radar/runtime_logging/files.py: processes   *)
(* append events under one flock and rotate the files by renames; any of    *)
(* them may be killed between two system calls. A file is the sequence of    *)
(* the parts of its events; an event of size n has n parts.                 *)
(***************************************************************************)
EXTENDS Integers, FiniteSets, SequencesExt

CONSTANTS
  LogWriters,    \* processes with a sink on this root
  EventSizes,    \* sizes of an event
  MaxBytes,      \* of a file
  MaxFiles,      \* the active file and the rotated ones
  MaxEmitted     \* bound: events that reach the lock

ASSUME LogAssumption ==
  /\ MaxFiles \in Nat \ {0} /\ MaxBytes \in Nat \ {0} /\ EventSizes \subseteq 1..MaxBytes

VARIABLES
  logFiles,    \* logFiles[1] is runtime.jsonl, logFiles[n + 1] is runtime.jsonl.n
  logWriters,  \* the Python frame of each emit
  logged       \* the events that reached the lock, in order: size and what became of it:
               \* "none" yet, "written", "error", or the place where it was cut off

logVars == <<logFiles, logWriters, logged>>

NoFile == <<0>>
NotEmitting == [at |-> "idle"]
LogFree == \A w \in LogWriters : logWriters[w].at \in {"idle", "waiting"}
FileOf(n) == IF logFiles[n] = NoFile THEN <<>> ELSE logFiles[n]
Becomes(w, frame) == logWriters' = [logWriters EXCEPT ![w] = frame]

Emit(w, size) ==
  /\ logWriters[w] = NotEmitting
  /\ Becomes(w, [at |-> "waiting", size |-> size])
  /\ UNCHANGED <<logFiles, logged>>

\* Under the lock: the file is created, and rotated first if it would grow too long.
TakeLog(w) ==
  LET size == logWriters[w].size
      frame(at) == [at |-> at, size |-> size, event |-> Len(logged) + 1, original |-> 0,
                    from |-> MaxFiles - 1]
      full == FileOf(1) # <<>> /\ Len(FileOf(1)) + size > MaxBytes
  IN /\ logWriters[w].at = "waiting" /\ LogFree /\ Len(logged) < MaxEmitted
     /\ logged' = Append(logged, [size |-> size, answer |-> "none"])
     /\ logFiles' = [logFiles EXCEPT ![1] = IF full /\ MaxFiles = 1 THEN <<>> ELSE FileOf(1)]
     /\ Becomes(w, frame(IF full /\ MaxFiles > 1 THEN "unlink" ELSE "open"))

UnlinkOldest(w) ==
  /\ logWriters[w].at = "unlink"
  /\ logFiles' = [logFiles EXCEPT ![MaxFiles] = NoFile]
  /\ Becomes(w, [logWriters[w] EXCEPT !.at = "rename"])
  /\ UNCHANGED logged

\* The file that is renamed to the next number, unless it is not there.
Renamed(n) ==
  IF logFiles[n] = NoFile THEN logFiles
  ELSE [logFiles EXCEPT ![n + 1] = logFiles[n], ![n] = NoFile]
\* A wrong variant: from the newest on.
RenameForward(w) ==
  LET n == MaxFiles - logWriters[w].from
  IN /\ logWriters[w].at = "rename"
     /\ logFiles' = Renamed(n)
     /\ Becomes(w, [logWriters[w] EXCEPT !.from = @ - 1,
                                         !.at = IF n = MaxFiles - 1 THEN "open" ELSE @])
     /\ UNCHANGED logged
\* From the oldest on.
RenameNext(w) ==
  LET n == logWriters[w].from
  IN /\ logWriters[w].at = "rename"
     /\ logFiles' = Renamed(n)
     /\ Becomes(w, [logWriters[w] EXCEPT !.from = @ - 1, !.at = IF n = 1 THEN "open" ELSE @])
     /\ UNCHANGED logged

OpenActive(w) ==
  /\ logWriters[w].at = "open"
  /\ logFiles' = [logFiles EXCEPT ![1] = FileOf(1)]
  /\ Becomes(w, [logWriters[w] EXCEPT !.at = "write", !.original = Len(FileOf(1))])
  /\ UNCHANGED logged
\* One os.write may take less than what remains.
WritePart(w) ==
  LET f == logWriters[w]
      done == Len(logFiles[1]) + 1 = f.original + f.size
  IN /\ f.at = "write"
     /\ logFiles' = [logFiles EXCEPT ![1] = Append(@, f.event)]
     /\ IF done
        THEN /\ Becomes(w, NotEmitting)
             /\ logged' = [logged EXCEPT ![f.event].answer = "written"]
        ELSE UNCHANGED <<logWriters, logged>>
\* An error takes the half line back, unless that fails too and it stays.
WriteFails(w) ==
  LET f == logWriters[w]
  IN /\ f.at = "write"
     /\ \/ /\ logFiles' = [logFiles EXCEPT ![1] = SubSeq(@, 1, f.original)]
           /\ logged' = [logged EXCEPT ![f.event].answer = "error"]
        \/ /\ logged' = [logged EXCEPT ![f.event].answer = f.at]
           /\ UNCHANGED logFiles
     /\ Becomes(w, NotEmitting)
KillWriter(w) ==
  LET f == logWriters[w]
  IN /\ f.at \notin {"idle", "waiting"}
     /\ logged' = [logged EXCEPT ![f.event].answer = f.at]
     /\ Becomes(w, NotEmitting)
     /\ UNCHANGED logFiles

LogInit ==
  /\ logFiles = [n \in 1..MaxFiles |-> NoFile]
  /\ logWriters = [w \in LogWriters |-> NotEmitting]
  /\ logged = <<>>
LogNext ==
  \E w \in LogWriters :
    \/ \E size \in EventSizes : Emit(w, size)
    \/ TakeLog(w) \/ UnlinkOldest(w) \/ RenameNext(w) \/ OpenActive(w)
    \/ WritePart(w) \/ WriteFails(w) \/ KillWriter(w)

LogSpec == LogInit /\ [][LogNext]_logVars

-------------------------------------------------------------------------------
(* What must hold *)

\* What the files have, a file that is not there being empty.
Kept == [n \in 1..MaxFiles |-> FileOf(n)]
\* The parts stand in the order of their events: from the last file to the active
\* one, and in a file from its start.
InOrder(files) ==
  \A n, m \in 1..MaxFiles : \A i \in DOMAIN files[n], j \in DOMAIN files[m] :
    (n > m \/ (n = m /\ i < j)) => files[n][i] <= files[m][j]
IsKept(e) == \E n \in 1..MaxFiles : e \in ToSet(Kept[n])
\* All parts of the event stand in file n, right behind position start.
StandsBehind(files, e, size, n, start) ==
  /\ start + size <= Len(files[n])
  /\ \A m \in 1..MaxFiles : \A i \in DOMAIN files[m] :
       files[m][i] = e <=> m = n /\ i \in (start + 1)..(start + size)
\* The part at position i is the last one of its event, the newline.
EndsLine(file, i) ==
  LET size == logged[file[i]].size
  IN i >= size /\ file[i - size + 1] = file[i]
\* A write of the event was cut off, by a kill or an error that left its half line.
IsTorn(e) == logged[e].answer = "write"
\* The event ends with its newline and begins a line; or it is glued to a half line.
IsLine(files, e) ==
  \E n \in 1..MaxFiles, start \in 0..MaxBytes :
    /\ StandsBehind(files, e, logged[e].size, n, start)
    /\ start = 0 \/ EndsLine(files[n], start) \/ IsTorn(files[n][start])
IsPast(files, e) == \A n \in 1..MaxFiles : \A i \in DOMAIN files[n] : files[n][i] > e

\* No file grows too long, and the files stay in the order of their numbers. An
\* event whose emit has returned is a line of its own, glued to what stands before
\* it only where that is the half line of a write that was cut off; unless it and
\* every older one is gone. Of the other events only such half lines remain, and
\* what is being written: one that failed and was taken back leaves nothing.
LogIsOrdered ==
  /\ \A n \in 1..MaxFiles : Len(Kept[n]) <= MaxBytes
  /\ InOrder(Kept)
  /\ \A e \in DOMAIN logged : logged[e].answer = "written" => IsLine(Kept, e) \/ IsPast(Kept, e)
  /\ \A e \in DOMAIN logged : IsKept(e) =>
       \/ logged[e].answer = "written" \/ IsTorn(e)
       \/ \E w \in LogWriters : logWriters[w].at = "write" /\ logWriters[w].event = e

\* The numbers without a file, and the events whose rotation was killed in between.
FreeNumbers == {n \in 1..MaxFiles : logFiles[n] = NoFile}
CutRotations == {e \in DOMAIN logged : logged[e].answer = "rename"}
\* A step takes returned events away from the last file only, and only when no more
\* numbers are free than rotations were killed: if none was, when every file is there.
OldestGoesFirst ==
  LET lost == {e \in DOMAIN logged : logged[e].answer = "written" /\ IsKept(e) /\ ~IsKept(e)'}
  IN lost # {} => /\ lost \subseteq ToSet(Kept[MaxFiles])
                  /\ Cardinality(FreeNumbers) <= Cardinality(CutRotations)
\* Whatever rotations and writes were cut off by errors and kills: what has returned
\* stands in order, a kill tears at most the event it stops and the start of the
\* next line, and only the oldest file ever goes, a killed rotation giving up the
\* place of at most one file (runtime_logging/files.py:84, :95).
NewestAreKept == []LogIsOrdered /\ [][OldestGoesFirst]_logVars
=============================================================================
