------------------------------ MODULE LogStore ------------------------------
(***************************************************************************)
(* One source of diag.LogStore: the bounded queue in front of the writer   *)
(* goroutine, the log file with its rotation into numbered archives, and   *)
(* Tail, the incremental reader of the Logs page, with its cursor.  The    *)
(* sources share nothing, so one stands for both.                          *)
(*                                                                         *)
(* A line is a number, in the order of the calls of Append, with a length  *)
(* in bytes; 0 is the marker "dropped N bytes" the writer puts in.  The    *)
(* file is the sequence of its lines; an offset counts bytes.  A write     *)
(* takes a whole line or nothing; redaction and the cutting of long lines  *)
(* are left out.                                                           *)
(*                                                                         *)
(* sendMu orders what enters the queue: Append, the barrier of a Tail and  *)
(* the close command.  A Tail keeps it until the writer has reached its    *)
(* barrier, a close until its command is queued.                           *)
(*                                                                         *)
(* The specification's own names carry the module's, for CaddyAndLogProofs *)
(* extends this module together with CaddySupervisor.                      *)
(***************************************************************************)
EXTENDS Naturals, Sequences, FiniteSets

CONSTANTS
    LineBytes,      \* length of each line and of the marker, newline included
    QueueBytes,     \* limits.queueBytes
    QueueCommands,  \* capacity of the channel of commands
    FileBytes,      \* limits.fileBytes
    Archives,       \* limits.archives
    TailBytes,      \* limits.tailBytes
    TailLines,      \* limits.tailLines
    MaxLines,       \* bound on the calls of Append
    MaxPolls        \* bound on the calls of Tail

ASSUME LogStoreAssumption ==
    /\ {QueueBytes, FileBytes, TailBytes, TailLines, QueueCommands} \subseteq Nat \ {0}
    /\ Archives \in Nat /\ MaxLines \in Nat /\ MaxPolls \in Nat
    /\ LineBytes \in [0 .. MaxLines -> Nat \ {0}]

VARIABLES
    appended,   \* how many lines Append was called with
    queue,      \* commands: lines, a Tail's barrier, the close command
    queued,     \* bytes of the queued lines
    dropped,    \* bytes refused since the last marker
    unreported, \* droppedSinceTail: bytes refused since the last Tail
    sendMu,     \* who holds it: "free", "tail", "close"
    writer,     \* the writer goroutine and what it has still to write
    file,       \* lines of the current file
    ends,       \* offset of the end of each of them; the last one is size
    archive,    \* archive[i]: lines of the file with suffix .i
    generation,
    fileOpen,   \* whether the handle of the current file is usable
    poll,       \* the Tail call of the Logs page: "none", "lock", "send", "barrier", "read"
    cursor,     \* the cursor the page will send next
    view,       \* the lines on the page (mergeLogTail)
    polls,      \* how many Tail calls began
    closing,    \* the close call: "no", "lock", "queuing", "waiting", "ended"
    closed,
    lost,       \* history: all bytes refused
    reported,   \* history: all bytes reported as refused by Tail
    marked,     \* history: all bytes whose marker was written to the file
    unmarked    \* history: all bytes whose marker's write failed

logVars == << appended, queue, queued, dropped, unreported, sendMu, writer, file, ends, archive, generation,
           fileOpen, poll, cursor, view, polls, closing, closed, lost, reported, marked, unmarked >>
markers == << marked, unmarked >>
entry == << appended, queued, unreported, lost >>
disk == << file, ends, archive, generation, fileOpen >>
reader == << poll, cursor, view, polls, reported >>

Waiting == [at |-> "idle"]
NoCursor == [generation |-> 0, offset |-> 0]
Line(n) == [what |-> "line", line |-> n]
Barrier == [what |-> "barrier"]
Close == [what |-> "close"]

\* Offset of the end of the i-th line of the file, and of the file.
End(i) == IF i = 0 THEN 0 ELSE ends[i]
Size == End(Len(file))

-----------------------------------------------------------------------------
(* Append                                                                  *)

Refuse(line) ==
    /\ dropped' = dropped + LineBytes[line]
    /\ unreported' = unreported + LineBytes[line]
    /\ lost' = lost + LineBytes[line]
    /\ UNCHANGED << queue, queued >>

\* A line never waits for the disk: what does not fit is counted and forgotten.
\* While the source is being closed this is a call that had got it before.
AppendLine ==
    /\ sendMu = "free" /\ appended < MaxLines
    /\ appended' = appended + 1
    /\ IF closed \/ queued + LineBytes[appended'] > QueueBytes \/ Len(queue) = QueueCommands
       THEN Refuse(appended')
       ELSE /\ queue' = Append(queue, Line(appended'))
            /\ queued' = queued + LineBytes[appended']
            /\ UNCHANGED << dropped, unreported, lost >>
    /\ UNCHANGED << sendMu, writer, disk, reader, closing, closed, markers >>

\* Close takes the source out of the store first, and from then on Append
\* returns without a trace.
AppendIgnored ==
    /\ closing # "no" /\ appended < MaxLines
    /\ appended' = appended + 1
    /\ UNCHANGED << queue, queued, dropped, unreported, lost, sendMu, writer, disk, reader, closing, closed, markers >>

-----------------------------------------------------------------------------
(* The writer goroutine                                                    *)

\* What it took off the queue, and the bytes it owes a marker for.
Owes(bytes, then) == [at |-> "marker", bytes |-> bytes, then |-> then]

\* Mutant: the bytes of a line that left the queue are not given back.
TakeKeepsBytes ==
    /\ writer = Waiting /\ queue # << >>
    /\ queue' = Tail(queue)
    /\ writer' = Owes(dropped, Head(queue))
    /\ dropped' = 0
    /\ UNCHANGED << appended, queued, unreported, sendMu, disk, reader, closing, closed, lost, markers >>

Take ==
    /\ writer = Waiting /\ queue # << >>
    /\ queue' = Tail(queue)
    /\ queued' = queued - (IF Head(queue).what = "line" THEN LineBytes[Head(queue).line] ELSE 0)
    /\ writer' = Owes(dropped, Head(queue))
    /\ dropped' = 0
    /\ UNCHANGED << appended, unreported, sendMu, disk, reader, closing, closed, lost, markers >>

\* rotateLocked up to suffix i: the archives from i on have moved up by one.
Shifted(i) == [k \in 1 .. Archives |->
                 IF k < i THEN archive[k] ELSE IF k = i THEN << >> ELSE archive[k - 1]]
\* Mutant: the suffixes are used in turn, and no archive is renamed.
RotatedInTurn == [archive EXCEPT ![((generation - 1) % Archives) + 1] = file]

Rotated == [k \in 1 .. Archives |-> IF k = 1 THEN file ELSE archive[k - 1]]

\* rotateLocked, up to the new file and its handle.
NewFile(lines, offsets) ==
    /\ file' = lines /\ ends' = offsets
    /\ archive' = Rotated /\ generation' = generation + 1
    /\ UNCHANGED fileOpen

\* A rotation that fails, at the first step, at a rename, or when the new file is
\* opened, leaves the handle closed.
RotationFails ==
    /\ fileOpen' = FALSE /\ UNCHANGED generation
    /\ \/ UNCHANGED << file, ends, archive >>
       \/ (\E i \in 1 .. Archives : archive' = Shifted(i)) /\ UNCHANGED << file, ends >>
       \/ Archives > 0 /\ archive' = Rotated /\ file' = << >> /\ ends' = << >>

\* writeLine: the line goes to the file, rotated first when it would grow past
\* its limit.
Fits(line) == file = << >> \/ Size + LineBytes[line] <= FileBytes
Write(line) ==
    /\ fileOpen
    /\ \/ /\ Fits(line)
          /\ file' = Append(file, line) /\ ends' = Append(ends, Size + LineBytes[line])
          /\ UNCHANGED << archive, generation, fileOpen >>
       \/ ~Fits(line) /\ NewFile(<< line >>, << LineBytes[line] >>)

\* Its error is thrown away: on a closed handle every write fails, on an open one
\* the disk may take nothing, and so may the file it has just rotated to.
WriteLoses(line) ==
    \/ (~fileOpen \/ Fits(line)) /\ UNCHANGED disk
    \/ fileOpen /\ ~Fits(line) /\ (RotationFails \/ NewFile(<< >>, << >>))

WriteMarker ==
    /\ writer.at = "marker"
    /\ \/ writer.bytes = 0 /\ UNCHANGED << disk, markers >>
       \/ writer.bytes > 0 /\ Write(0) /\ marked' = marked + writer.bytes /\ UNCHANGED unmarked
       \/ writer.bytes > 0 /\ WriteLoses(0) /\ unmarked' = unmarked + writer.bytes /\ UNCHANGED marked
    /\ writer' = [at |-> "command", then |-> writer.then]
    /\ UNCHANGED << entry, queue, dropped, sendMu, reader, closing, closed >>

WriteCommand ==
    /\ writer.at = "command"
    /\ \/ /\ writer.then.what = "line" /\ (Write(writer.then.line) \/ WriteLoses(writer.then.line))
          /\ writer' = Waiting /\ UNCHANGED << poll, sendMu >>
       \/ /\ writer.then = Barrier
          /\ poll' = "read" /\ sendMu' = "free"
          /\ writer' = Waiting /\ UNCHANGED disk
       \/ /\ writer.then = Close
          /\ fileOpen' = FALSE /\ writer' = [at |-> "stopped"]
          /\ UNCHANGED << file, ends, archive, generation, poll, sendMu >>
    /\ UNCHANGED << entry, queue, dropped, cursor, view, polls, reported, closing, closed, markers >>

-----------------------------------------------------------------------------
(* Tail                                                                    *)

\* Of a source that is not being closed.
BeginTail ==
    /\ closing = "no" /\ poll = "none" /\ polls < MaxPolls
    /\ poll' = "lock" /\ polls' = polls + 1
    /\ UNCHANGED << entry, queue, dropped, sendMu, writer, disk, cursor, view, reported, closing, closed, markers >>

\* Mutant: the barrier may be queued behind the close command.
LockForTailUnchecked ==
    /\ poll = "lock" /\ sendMu = "free"
    /\ poll' = "send" /\ sendMu' = "tail"
    /\ UNCHANGED << entry, queue, dropped, writer, disk, cursor, view, polls, reported, closing, closed, markers >>

\* sync, up to its barrier: a closed source is not waited for.
LockForTail ==
    /\ poll = "lock" /\ sendMu = "free"
    /\ IF closed THEN poll' = "none" /\ UNCHANGED sendMu ELSE poll' = "send" /\ sendMu' = "tail"
    /\ UNCHANGED << entry, queue, dropped, writer, disk, cursor, view, polls, reported, closing, closed, markers >>

SendBarrier ==
    /\ poll = "send" /\ Len(queue) < QueueCommands
    /\ queue' = Append(queue, Barrier)
    /\ poll' = "barrier"
    /\ UNCHANGED << entry, dropped, sendMu, writer, disk, cursor, view, polls, reported, closing, closed, markers >>

\* tail: the window starts at the cursor, or TailBytes before the end, and after
\* the first newline from there unless it starts with the file.
WasRotated == cursor # NoCursor /\ (cursor.generation # generation \/ cursor.offset > Size)
Latest == cursor = NoCursor \/ WasRotated
Base == IF Latest THEN 0 ELSE cursor.offset
\* Mutant: the budget is compared with the file and not with the backlog.
OverBudgetOfFile == Size > TailBytes

OverBudget == Size - Base > TailBytes
Start == IF OverBudget THEN Size - TailBytes ELSE Base
LinesBefore(offset) == Cardinality({i \in DOMAIN file : End(i) <= offset})
FirstLine == IF Start = 0 THEN 1 ELSE LinesBefore(Start) + 2
Window == SubSeq(file, FirstLine, Len(file))
Surplus == IF Len(Window) > TailLines THEN Len(Window) - TailLines ELSE 0

Returned == SubSeq(Window, Surplus + 1, Len(Window))
Truncated == OverBudget \/ Surplus > 0 \/ (Start > 0 /\ Start = Size)
SkippedBytes ==
    IF ~Truncated THEN 0
    ELSE IF Start > 0 /\ Start = Size THEN Size
    ELSE IF Window = << >> THEN 0
    ELSE End(FirstLine - 1 + Surplus) - Base

\* Mutant: the count is taken before the read that fails.
ReadTailForgets ==
    /\ poll = "read"
    /\ poll' = "none"
    /\ unreported' = 0
    /\ IF fileOpen
       THEN /\ cursor' = [generation |-> generation, offset |-> Size]
            /\ view' = (IF WasRotated THEN << >> ELSE view) \o Returned
            /\ reported' = reported + unreported
       ELSE UNCHANGED << cursor, view, reported >>
    /\ UNCHANGED << appended, queued, lost, queue, dropped, sendMu, writer, disk, polls, closing, closed, markers >>

\* The page gets lines, the next cursor and what was skipped or refused; a
\* closed handle is an error, and the count of refused bytes stays.
ReadTail ==
    /\ poll = "read"
    /\ poll' = "none"
    /\ IF fileOpen
       THEN /\ cursor' = [generation |-> generation, offset |-> Size]
            /\ view' = (IF WasRotated THEN << >> ELSE view) \o Returned
            /\ reported' = reported + unreported
            /\ unreported' = 0
       ELSE UNCHANGED << cursor, view, reported, unreported >>
    /\ UNCHANGED << appended, queued, lost, queue, dropped, sendMu, writer, disk, polls, closing, closed, markers >>

-----------------------------------------------------------------------------
(* Close                                                                   *)

\* The store forgets the source.
BeginClose ==
    /\ closing = "no"
    /\ closing' = "lock"
    /\ UNCHANGED << entry, queue, dropped, sendMu, writer, disk, reader, closed, markers >>

LockForClose ==
    /\ closing = "lock" /\ sendMu = "free"
    /\ closing' = "queuing" /\ closed' = TRUE /\ sendMu' = "close"
    /\ UNCHANGED << entry, queue, dropped, writer, disk, reader, markers >>

\* The command is queued, or the deadline passes: then no one will ever end the
\* writer or close the file.
QueueClose ==
    /\ closing = "queuing"
    /\ sendMu' = "free"
    /\ \/ Len(queue) < QueueCommands /\ queue' = Append(queue, Close) /\ closing' = "waiting"
       \/ closing' = "ended" /\ UNCHANGED queue
    /\ UNCHANGED << entry, dropped, writer, disk, reader, closed, markers >>

\* The writer's answer or the second deadline.
EndClose ==
    /\ closing = "waiting"
    /\ closing' = "ended"
    /\ UNCHANGED << entry, queue, dropped, sendMu, writer, disk, reader, closed, markers >>

-----------------------------------------------------------------------------

\* openLogSource; what an earlier session left in the file is left out.
LogInit ==
    /\ appended = 0 /\ queue = << >> /\ queued = 0 /\ dropped = 0 /\ unreported = 0
    /\ sendMu = "free" /\ writer = Waiting
    /\ file = << >> /\ ends = << >> /\ archive = [i \in 1 .. Archives |-> << >>] /\ generation = 1 /\ fileOpen = TRUE
    /\ poll = "none" /\ cursor = NoCursor /\ view = << >> /\ polls = 0
    /\ closing = "no" /\ closed = FALSE
    /\ lost = 0 /\ reported = 0 /\ marked = 0 /\ unmarked = 0

Writer == Take \/ WriteMarker \/ WriteCommand
Poll == LockForTail \/ SendBarrier \/ ReadTail
Closer == LockForClose \/ QueueClose \/ EndClose

LogNext == AppendLine \/ AppendIgnored \/ Writer \/ BeginTail \/ Poll \/ BeginClose \/ Closer

\* The disk answers, and a goroutine that can go on does; a lock that is asked
\* for again and again is got in the end.
Fairness == WF_logVars(Writer) /\ SF_logVars(LockForTail) /\ SF_logVars(LockForClose)
            /\ WF_logVars(SendBarrier \/ ReadTail) /\ WF_logVars(QueueClose \/ EndClose)

LogSpec == LogInit /\ [][LogNext]_logVars /\ Fairness

-----------------------------------------------------------------------------
(* Properties                                                              *)

\* Both counts of what a source refused are right, wherever its queue is full,
\* the writer takes the count, a Tail fails or the source is closed.  The page was
\* told of every refused byte, or its next Tail that succeeds will; and the file
\* has a marker for it, the writer owes one, or the write of the marker failed.
\* (append, run, flushDropped, logStore.Tail)
RefusalsAreCounted ==
    /\ lost = reported + unreported
    /\ lost = marked + unmarked + dropped + (IF writer.at = "marker" THEN writer.bytes ELSE 0)

\* What the writer owes a marker for it will come to: it has another command to
\* take.  Only a source that is closed may keep the count to itself.
MarkerIsComing == dropped > 0 => queue # << >> \/ closed

\* Nothing overtakes: from the oldest archive to the current file the lines are
\* in the order they were appended, through every rotation, a failed one too.
Increasing(lines) ==
    \A i, j \in DOMAIN lines : i < j /\ lines[i] # 0 /\ lines[j] # 0 => lines[i] < lines[j]
Before(lines, later) ==
    \A i \in DOMAIN lines, j \in DOMAIN later : lines[i] # 0 /\ later[j] # 0 => lines[i] < later[j]
LogKeepsOrder ==
    /\ Increasing(file)
    /\ \A k \in 1 .. Archives :
          /\ Increasing(archive[k]) /\ Before(archive[k], file)
          /\ \A i \in 1 .. k - 1 : Before(archive[k], archive[i])

\* However the polls fall among writes and rotations, the page shows no line twice.
PageNeverRepeats == Increasing(view)

\* A Tail and a Close that begin come to an end, whatever the order in which
\* they meet: no barrier is left behind the close command, where nobody takes it.
TailAndCloseReturn ==
    /\ poll # "none" ~> poll = "none"
    /\ closing = "lock" ~> closing = "ended"

\* decision-log:2069: with the generation unchanged and the backlog within the
\* budget, a Tail returns what follows the cursor.
TailContinuesAtCursor ==
    [][ poll = "read" /\ poll' = "none" /\ fileOpen /\ ~Latest /\ ~OverBudget /\ Surplus = 0
          => Returned = SubSeq(file, LinesBefore(cursor.offset) + 1, Len(file)) ]_logVars

=============================================================================
