------------------------------ MODULE SoPopen ------------------------------
(***************************************************************************)
(* so_popen and so_pclose of both so_stdio.c: a caller, the pipes it opens *)
(* and the commands behind them.  On Linux a child inherits the pipe ends  *)
(* of every stream the caller has open when it forks, and nothing closes   *)
(* them in the child (they are not close-on-exec), so one stream's end of  *)
(* file can depend on the child of another.  On Windows the caller's end   *)
(* is made non-inheritable first.                                          *)
(*                                                                         *)
(* Streams are numbered in the order in which so_popen creates them.  The  *)
(* bytes in SO_FILE's buffer and in the pipe are counted, not named; the   *)
(* buffering itself is module SoStdio.                                     *)
(***************************************************************************)
EXTENDS Integers

CONSTANTS
  N,         \* bound: how many streams the caller opens, one after another
  PipeSize,  \* external: how many bytes a pipe holds
  MaxPut,    \* bound: how many bytes the caller puts in a stream
  Output,    \* how many bytes the command of a "r" stream writes
  CallsFail  \* may pipe, fork, malloc, exec and CreateProcess fail?

ASSUME PopenAssumption ==
  /\ N \in Nat /\ PipeSize \in Nat \ {0} /\ MaxPut \in Nat /\ Output \in Nat
  /\ CallsFail \in BOOLEAN

Streams == 1..N

VARIABLES
  os,       \* "linux" | "windows": chosen once
  caller,   \* "running" | "killed" | "looping" in so_fflush: the calling process
  stream,   \* per stream: "none" | "failed" | "open" | "putting" | "flushing" | "waiting" | "closed"
  type,     \* per stream: the type argument of so_popen
  kid,      \* per stream: "none" | "running" | "exited" | "reaped": _childPid
  patient,  \* per stream: does its command read its input to the end?
  inherits, \* per stream: the streams whose pipe ends its child inherited
  pend,     \* per stream: bytes put and not yet in the pipe
  pipe,     \* per stream: bytes in the pipe
  moved,    \* per stream: bytes the child took from, or gave to, the pipe
  put       \* per stream: bytes the caller put, or took

vars == <<os, caller, stream, type, kid, patient, inherits, pend, pipe, moved, put>>
data == <<pend, pipe, moved, put>>

Init ==
  /\ os \in {"linux", "windows"}
  /\ caller = "running"
  /\ stream = [s \in Streams |-> "none"]
  /\ type = [s \in Streams |-> "r"]
  /\ kid = [s \in Streams |-> "none"]
  /\ patient = [s \in Streams |-> TRUE]
  /\ inherits = [s \in Streams |-> {}]
  /\ pend = [s \in Streams |-> 0]
  /\ pipe = [s \in Streams |-> 0]
  /\ moved = [s \in Streams |-> 0]
  /\ put = [s \in Streams |-> 0]

Descriptors == {s \in Streams : stream[s] \in {"open", "putting", "flushing"}}

\* Is the caller's end of the pipe of s open somewhere, in the caller or in
\* a child forked while it was?
CallersEndOpen(s) ==
  \/ s \in Descriptors
  \/ \E t \in Streams : kid[t] = "running" /\ s \in inherits[t]

\* The caller is in one call at a time.
Free == /\ caller = "running"
        /\ \A s \in Streams : stream[s] \notin {"putting", "flushing", "waiting"}

NextStream(s) == stream[s] = "none" /\ \A t \in 1..(s - 1) : stream[t] # "none"

-----------------------------------------------------------------------------
\* Mutant of Inherited: the child does not close the caller's end of its
\* own pipe.
InheritedOwnEnd(s) == Descriptors \cup {s}

\* What the child of s keeps open of the caller's ends: on Linux all of them
\* but that of its own pipe; on Windows none.
Inherited(s) == IF os = "linux" THEN Descriptors ELSE {}

\* The child runs; in the caller the child's end is closed and the SO_FILE
\* is built.  If malloc fails, the stream's pointer is dereferenced and the
\* child is left behind.
ChildStarts(s) ==
  /\ inherits' = [inherits EXCEPT ![s] = Inherited(s)]
  /\ kid' = [kid EXCEPT ![s] = "running"]
  /\ \E p \in BOOLEAN : patient' = [patient EXCEPT ![s] = p]
  /\ \/ /\ stream' = [stream EXCEPT ![s] = "open"]
        /\ UNCHANGED caller
     \/ /\ CallsFail \* malloc
        /\ caller' = "killed"
        /\ UNCHANGED stream

\* The stream is opened, but its command does not run.
NoCommand(s, k) ==
  /\ CallsFail
  /\ stream' = [stream EXCEPT ![s] = "open"]
  /\ kid' = [kid EXCEPT ![s] = k]
  /\ patient' = [patient EXCEPT ![s] = FALSE]
  /\ UNCHANGED <<caller, inherits>>

\* so_popen: pipe, fork, and in the child dup2 and exec, or exit(1).
SoPopen(s, t) ==
  /\ os = "linux" /\ Free /\ NextStream(s)
  /\ type' = [type EXCEPT ![s] = t]
  /\ \/ /\ CallsFail \* pipe or fork
        /\ stream' = [stream EXCEPT ![s] = "failed"]
        /\ UNCHANGED <<caller, kid, patient, inherits>>
     \/ ChildStarts(s)
     \/ NoCommand(s, "exited")
  /\ UNCHANGED <<os, data>>

\* so_popen on Windows.  CreateProcess returns a BOOL, compared with -1: when
\* it fails the stream is opened with no process behind it.  (So it is when
\* CreatePipe fails, with handles that were never initialised: left out.)
SoPopenWindows(s, t) ==
  /\ os = "windows" /\ Free /\ NextStream(s)
  /\ type' = [type EXCEPT ![s] = t]
  /\ ChildStarts(s) \/ NoCommand(s, "none")
  /\ UNCHANGED <<os, data>>

\* The caller puts a byte in, or takes one out of, an open stream.
CallerMoves(s) ==
  /\ Free /\ stream[s] = "open"
  /\ \/ /\ type[s] = "w" /\ put[s] < MaxPut
        /\ pend' = [pend EXCEPT ![s] = @ + 1]
        /\ UNCHANGED pipe
     \/ /\ type[s] = "r" /\ pipe[s] > 0
        /\ pipe' = [pipe EXCEPT ![s] = @ - 1]
        /\ UNCHANGED pend
  /\ put' = [put EXCEPT ![s] = @ + 1]
  /\ UNCHANGED <<os, caller, stream, type, kid, patient, inherits, moved>>

\* so_pclose, entered: so_fclose starts by flushing what was put.
SoPclose(s) ==
  /\ Free /\ stream[s] = "open"
  /\ stream' = [stream EXCEPT ![s] = "flushing"]
  /\ UNCHANGED <<os, caller, type, kid, patient, inherits, data>>

\* The buffer is full in so_fputc, or the caller calls so_fflush.
SoFflush(s) ==
  /\ Free /\ stream[s] = "open" /\ pend[s] > 0
  /\ stream' = [stream EXCEPT ![s] = "putting"]
  /\ UNCHANGED <<os, caller, type, kid, patient, inherits, data>>

FflushReturns(s) ==
  /\ caller = "running" /\ stream[s] = "putting" /\ pend[s] = 0
  /\ stream' = [stream EXCEPT ![s] = "open"]
  /\ UNCHANGED <<os, caller, type, kid, patient, inherits, data>>

\* The write of so_fflush, byte by byte: it blocks while the pipe is full.
\* When the child has gone it raises SIGPIPE, which kills the caller; on
\* Windows it fails, and so_fflush tries again for ever.
WriteByte(s) ==
  IF kid[s] # "running"
  THEN /\ caller' = IF os = "linux" THEN "killed" ELSE "looping"
       /\ UNCHANGED <<pend, pipe>>
  ELSE /\ pipe[s] < PipeSize
       /\ pend' = [pend EXCEPT ![s] = @ - 1]
       /\ pipe' = [pipe EXCEPT ![s] = @ + 1]
       /\ UNCHANGED caller

FlushByte(s) ==
  /\ caller = "running" /\ stream[s] \in {"putting", "flushing"} /\ pend[s] > 0
  /\ WriteByte(s)
  /\ UNCHANGED <<os, stream, type, kid, patient, inherits, moved, put>>

\* close(stream->_fileDescriptor), the end of so_fclose.
CloseEnd(s) ==
  /\ caller = "running" /\ stream[s] = "flushing" /\ pend[s] = 0
  /\ stream' = [stream EXCEPT ![s] = "waiting"]
  /\ UNCHANGED <<os, caller, type, kid, patient, inherits, data>>

\* Mutant of WaitChild: the child is not waited for.
WaitChildNot(s) ==
  /\ caller = "running" /\ stream[s] = "waiting"
  /\ stream' = [stream EXCEPT ![s] = "closed"]
  /\ UNCHANGED <<os, caller, type, kid, patient, inherits, data>>

\* waitpid(pid, &status, 0), and the return of so_pclose.
WaitChild(s) ==
  /\ os = "linux" /\ caller = "running" /\ stream[s] = "waiting" /\ kid[s] = "exited"
  /\ stream' = [stream EXCEPT ![s] = "closed"]
  /\ kid' = [kid EXCEPT ![s] = "reaped"]
  /\ UNCHANGED <<os, caller, type, patient, inherits, data>>

\* WaitForSingleObject, which fails at once when there is no process.
WaitProcess(s) ==
  /\ os = "windows" /\ caller = "running" /\ stream[s] = "waiting"
  /\ kid[s] \in {"exited", "none"}
  /\ stream' = [stream EXCEPT ![s] = "closed"]
  /\ kid' = [kid EXCEPT ![s] = IF @ = "exited" THEN "reaped" ELSE @]
  /\ UNCHANGED <<os, caller, type, patient, inherits, data>>

-----------------------------------------------------------------------------
(* External: the commands.  That of a "w" stream reads until the end of    *)
(* file, that of a "r" stream writes Output bytes.                         *)

KidReads(s) ==
  /\ kid[s] = "running" /\ type[s] = "w" /\ pipe[s] > 0
  /\ pipe' = [pipe EXCEPT ![s] = @ - 1]
  /\ moved' = [moved EXCEPT ![s] = @ + 1]
  /\ UNCHANGED <<os, caller, stream, type, kid, patient, inherits, pend, put>>

KidWrites(s) ==
  /\ kid[s] = "running" /\ type[s] = "r" /\ moved[s] < Output
  /\ CallersEndOpen(s) /\ pipe[s] < PipeSize
  /\ pipe' = [pipe EXCEPT ![s] = @ + 1]
  /\ moved' = [moved EXCEPT ![s] = @ + 1]
  /\ UNCHANGED <<os, caller, stream, type, kid, patient, inherits, pend, put>>

\* The end of input, the end of output, or SIGPIPE.
KidEnds(s) ==
  /\ kid[s] = "running"
  /\ \/ type[s] = "w" /\ pipe[s] = 0 /\ ~CallersEndOpen(s)
     \/ type[s] = "r" /\ (moved[s] = Output \/ ~CallersEndOpen(s))
  /\ kid' = [kid EXCEPT ![s] = "exited"]
  /\ UNCHANGED <<os, caller, stream, type, patient, inherits, data>>

KidQuits(s) ==
  /\ kid[s] = "running" /\ type[s] = "w" /\ ~patient[s]
  /\ kid' = [kid EXCEPT ![s] = "exited"]
  /\ UNCHANGED <<os, caller, stream, type, patient, inherits, data>>

Next == \E s \in Streams :
  \/ \E t \in {"r", "w"} : SoPopen(s, t) \/ SoPopenWindows(s, t)
  \/ CallerMoves(s) \/ SoFflush(s) \/ FflushReturns(s) \/ SoPclose(s)
  \/ FlushByte(s) \/ CloseEnd(s) \/ WaitChild(s) \/ WaitProcess(s)
  \/ KidReads(s) \/ KidWrites(s) \/ KidEnds(s) \/ KidQuits(s)

Spec == Init /\ [][Next]_vars

\* The calls return when they can, and the commands run; nobody has to open
\* a stream, close one, or end early.
Fairness == \A s \in Streams :
  /\ WF_vars(FlushByte(s)) /\ WF_vars(FflushReturns(s))
  /\ WF_vars(CloseEnd(s)) /\ WF_vars(WaitChild(s)) /\ WF_vars(WaitProcess(s))
  /\ WF_vars(KidReads(s)) /\ WF_vars(KidWrites(s)) /\ WF_vars(KidEnds(s))

FairSpec == Spec /\ Fairness

-----------------------------------------------------------------------------
\* so_pclose leaves no child behind, and what so_pclose of a "w" stream
\* returned for was read to the last byte by its command, unless that
\* command chose to end early or was never started.
ClosedIsDelivered ==
  \A s \in Streams : stream[s] = "closed" =>
    /\ kid[s] \notin {"running", "exited"}
    /\ type[s] = "w" /\ patient[s] => moved[s] = put[s]

\* A command that waits for its input to end after so_pclose has closed the
\* stream waits only for the child of a stream opened later: streams opened
\* before it are never the cause.
HeldOnlyByLater ==
  \A s \in Streams :
    stream[s] \in {"waiting", "closed"} /\ kid[s] = "running" /\ CallersEndOpen(s) =>
      \E t \in Streams : t > s /\ s \in inherits[t] /\ kid[t] = "running"
                               /\ stream[t] # "closed"

\* On Windows every so_pclose returns, in whatever order streams are closed,
\* and on Linux one entered when no younger stream is open; unless the caller
\* is killed, or loops, writing to a command that has gone.  (On Linux with a
\* younger one open it can block for ever: the command waits for the younger
\* child to let go of the pipe, the younger child for a so_pclose that the
\* blocked caller cannot reach.)
PcloseReturns ==
  \A s \in Streams :
    stream[s] = "flushing"
      /\ (os = "linux" => \A t \in Streams : t > s => stream[t] # "open")
      ~> stream[s] = "closed" \/ caller # "running"
=============================================================================
