------------------------------- MODULE LogFiles -------------------------------
(***************************************************************************)
(* The runtime log (src/server/logging.ts): each line goes to stdout and   *)
(* to the file of the day, one line after the other; the first line of a   *)
(* day rotates the file and cleans old ones up; any failure of a file ends *)
(* file logging.  A file is the sequence of the numbers of its lines.      *)
(***************************************************************************)
EXTENDS Naturals, Sequences, SequencesExt

CONSTANTS MaxLines, MaxDays         \* of a run: the bounds

VARIABLES
  today,
  line,                     \* how many lines were logged
  queue,                    \* those that wait in the RuntimeDestination
  writing,                  \* the line in writeLine, the outputs it waits for, its file
  stdout, stdoutFailed,     \* the lines on it, and those whose write failed
  file,                     \* of a day: its stream, and its lines
  enabled, activeDate, activeStream, lastCleanupDate,   \* 0 is undefined
  failureReported,
  closing                   \* "no", "lines", "streams" or "closed"

destination == <<enabled, activeDate, activeStream, lastCleanupDate, failureReported>>

vars == <<today, line, queue, writing, stdout, stdoutFailed, file, destination, closing>>

Days == 1..MaxDays

(* createLoggingRuntime: the directory is made and cleaned, or there are   *)
(* no files.                                                               *)
Init ==
  /\ today = 1 /\ line = 0
  /\ queue = <<>> /\ writing = [line |-> 0, outputs |-> {}, day |-> 0]
  /\ stdout = <<>> /\ stdoutFailed = {}
  /\ file = [d \in Days |-> [stream |-> "none", lines |-> <<>>]]
  /\ enabled \in BOOLEAN
  /\ activeDate = 0 /\ activeStream = 0
  /\ lastCleanupDate = IF enabled THEN today ELSE 0
  /\ failureReported = FALSE
  /\ closing = "no"

-----------------------------------------------------------------------------
(* writeLine: to stdout, and to the active file if there is one.           *)
Written(l, stream) ==
  [line |-> l, outputs |-> {"stdout"} \cup (IF stream = 0 THEN {} ELSE {"file"}), day |-> stream]

(* The next line is written when the outputs of the last one are done.     *)
Advance(lines, current, stream) ==
  IF current.outputs = {} /\ lines # <<>> THEN
    writing' = Written(Head(lines), stream) /\ queue' = Tail(lines)
  ELSE writing' = current /\ queue' = lines

Without(output) == [writing EXCEPT !.outputs = @ \ {output}]

Ended(d) == IF d = 0 THEN file ELSE [file EXCEPT ![d].stream = "ending"]

(* prepare, rotate: the last stream is ended, a new one opened, or file    *)
(* logging disabled; and old files are cleaned up.                         *)
Prepare(opened) ==
  IF enabled /\ today # activeDate THEN
    /\ activeDate' = today
    /\ lastCleanupDate' = today
    /\ enabled' = opened
    /\ failureReported' = (failureReported \/ ~opened)
    /\ activeStream' = IF opened THEN today ELSE 0
    /\ file' = IF opened THEN [Ended(activeStream) EXCEPT ![today].stream = "open"]
               ELSE Ended(activeStream)
  ELSE opened /\ UNCHANGED <<destination, file>>

(* A log file that could not be cleaned up is logged, before the line that *)
(* is; it does not rotate or clean up again.                               *)
Warnings == IF enabled /\ today # activeDate /\ lastCleanupDate # today THEN {0, 1} ELSE {0}

(* A line is logged; after close() it is not.                              *)
Log ==
  /\ line < MaxLines /\ closing = "no"
  /\ \E opened \in BOOLEAN, warnings \in Warnings :
       /\ Prepare(opened)
       /\ line' = line + 1 + warnings
       /\ Advance(queue \o [i \in 1..(1 + warnings) |-> line + i], writing, activeStream')
  /\ UNCHANGED <<today, stdout, stdoutFailed, closing>>

(* safeWriteAsync: a write to stdout that fails is done like any other,    *)
(* and nobody is told.                                                     *)
StdoutWritten ==
  /\ "stdout" \in writing.outputs
  /\ \/ stdout' = Append(stdout, writing.line) /\ UNCHANGED stdoutFailed
     \/ stdoutFailed' = stdoutFailed \cup {writing.line} /\ UNCHANGED stdout
  /\ Advance(queue, Without("stdout"), activeStream)
  /\ UNCHANGED <<today, line, file, destination, closing>>

FileWritten ==
  /\ "file" \in writing.outputs
  /\ file' = [file EXCEPT ![writing.day].lines = Append(@, writing.line)]
  /\ Advance(queue, Without("file"), activeStream)
  /\ UNCHANGED <<today, line, stdout, stdoutFailed, destination, closing>>

(* disable: the error of any stream, also of one that is being closed,     *)
(* destroys the active one.  The line that is being written may be in its  *)
(* file or not.                                                            *)
FileFails(d) ==
  LET destroyed == {d, activeStream} \ {0}
      cut == "file" \in writing.outputs /\ writing.day \in destroyed
      lost == [e \in Days |-> IF e \in destroyed THEN [file[e] EXCEPT !.stream = "destroyed"] ELSE file[e]]
  IN
  /\ file[d].stream \in {"open", "ending"}
  /\ enabled' = FALSE /\ activeStream' = 0 /\ failureReported' = TRUE
  /\ \/ file' = lost
     \/ cut /\ file' = [lost EXCEPT ![writing.day].lines = Append(@, writing.line)]
  /\ IF cut THEN Advance(queue, Without("file"), 0) ELSE UNCHANGED <<queue, writing>>
  /\ UNCHANGED <<today, line, stdout, stdoutFailed, activeDate, lastCleanupDate, closing>>

(* finishWritable: an ended stream finishes when its lines are written.    *)
StreamFinishes(d) ==
  /\ file[d].stream = "ending"
  /\ writing.day = d => "file" \notin writing.outputs
  /\ file' = [file EXCEPT ![d].stream = "finished"]
  /\ UNCHANGED <<today, line, queue, writing, stdout, stdoutFailed, destination, closing>>

Close ==
  /\ closing = "no" /\ closing' = "lines"
  /\ UNCHANGED <<today, line, queue, writing, stdout, stdoutFailed, file, destination>>

(* Faulty: close() does not wait for the lines that are queued.            *)
CloseStreams_Faulty ==
  /\ closing = "lines" /\ closing' = "streams"
  /\ enabled' = FALSE /\ activeStream' = 0 /\ file' = Ended(activeStream)
  /\ UNCHANGED <<today, line, queue, writing, stdout, stdoutFailed, activeDate, lastCleanupDate, failureReported>>

(* The destination has finished: the file is closed.                       *)
CloseStreams ==
  /\ closing = "lines" /\ closing' = "streams"
  /\ queue = <<>> /\ writing.outputs = {}
  /\ enabled' = FALSE /\ activeStream' = 0 /\ file' = Ended(activeStream)
  /\ UNCHANGED <<today, line, queue, writing, stdout, stdoutFailed, activeDate, lastCleanupDate, failureReported>>

Closed ==
  /\ closing = "streams" /\ closing' = "closed"
  /\ \A d \in Days : file[d].stream # "ending"
  /\ UNCHANGED <<today, line, queue, writing, stdout, stdoutFailed, file, destination>>

NextDay ==
  /\ today < MaxDays /\ today' = today + 1
  /\ UNCHANGED <<line, queue, writing, stdout, stdoutFailed, file, destination, closing>>

Next ==
  \/ Log \/ StdoutWritten \/ FileWritten \/ NextDay
  \/ \E d \in Days : FileFails(d) \/ StreamFinishes(d)
  \/ Close \/ CloseStreams \/ Closed

Spec == Init /\ [][Next]_vars

-----------------------------------------------------------------------------
FileLines == FlattenSeq([d \in Days |-> file[d].lines])

All == [i \in 1..line |-> i]

HadFiles == lastCleanupDate # 0

InOrder(lines) == \A i, j \in DOMAIN lines : i < j => lines[i] < lines[j]

(* When close() has ended, every line that was logged before it is on      *)
(* stdout, except those whose own write failed, whether or not stdout took *)
(* the lines around them; the files together have all lines, also those    *)
(* that stdout did not take, unless a file failed, which is told.  Whatever*)
(* fails, neither has a line twice or before an earlier one.               *)
LinesArrive ==
  /\ closing = "closed" =>
       /\ {stdout[i] : i \in DOMAIN stdout} = (1..line) \ stdoutFailed
       /\ HadFiles /\ ~failureReported => FileLines = All
  /\ HadFiles /\ ~enabled /\ closing = "no" => failureReported
  /\ InOrder(stdout) /\ InOrder(FileLines)
=============================================================================
