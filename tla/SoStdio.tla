------------------------------ MODULE SoStdio ------------------------------
(***************************************************************************)
(* The buffered stream of Tema2-Biblioteca-Stdio/tema_linux: one SO_FILE   *)
(* over one file, used by one thread in any order of calls.  Every call is *)
(* one action, except so_fread and so_fwrite, whose loops take one step    *)
(* per byte because each byte may make a system call of its own outcome.   *)
(*                                                                         *)
(* The kernel's file (its bytes and the descriptor's offset) is external:  *)
(* read, write, lseek and close are modelled by the outcomes POSIX gives   *)
(* them, including errors and, if ShortIO, short counts.                   *)
(***************************************************************************)
EXTENDS SoUtils

CONSTANTS
  BufSize,     \* BUFFER_SIZE
  Byte,        \* the bytes that files and callers use, a subset of 0..255
  Modes,       \* the opening modes the caller uses
  InitialFile, \* the contents of the file before the first so_fopen
  MaxFile,     \* bound: no byte is put that could make the file longer
  MaxTell,     \* bound: no byte is taken or put beyond this so_ftell
  MaxItems,    \* bound: nmemb of so_fread and so_fwrite
  Sizes,       \* the item sizes given to so_fread and so_fwrite
  SeekOffsets, \* the offsets given to so_fseek
  ShortIO,     \* may read and write transfer fewer bytes than asked for?
  Faults       \* the calls that may fail: "open", "malloc", "read", "write", "close"

Cell == Byte \cup {Junk}

ASSUME StdioAssumption ==
  /\ BufSize \in Nat \ {0}
  /\ Byte \subseteq 0..255 /\ 0 \in Byte
  /\ Modes \subseteq AllModes \cup {"other"}
  /\ InitialFile \in Seq(Byte)
  /\ MaxFile \in Nat /\ MaxTell \in Nat /\ MaxItems \in Nat
  /\ Sizes \subseteq Nat
  /\ SeekOffsets \subseteq Int
  /\ ShortIO \in BOOLEAN
  /\ Faults \subseteq {"open", "malloc", "read", "write", "close"}

VARIABLES
  status,  \* "none" | "open" | "closed" | "crashed": the caller's stream
  stream,  \* the fields of the SO_FILE
  kfile,   \* external: the file's bytes and the descriptor's offset
  call,    \* the so_fread or so_fwrite in progress
  ret      \* the last call to return, and the value it returned

vars == <<status, stream, kfile, call, ret>>

Index == 0..(BufSize - 1)

Stream == [mode: AllModes, eof: BOOLEAN, err: BOOLEAN,
           lastOp: {"", "read", "write"}, pos: 0..BufSize, tell: Int,
           nrRead: 0..BufSize, buf: [Index -> Cell]]

KFile == [data: Seq(Cell), off: Nat]

NoCall == [op |-> "none", size |-> 1, nmemb |-> 0, done |-> 0]

-----------------------------------------------------------------------------
(* The modes.                                                              *)

\* Mutant of OpenFlags: append streams without O_APPEND.
OpenFlagsNoAppend(mode) ==
  [read   |-> mode \in {"r", "r+", "w+", "a+"},
   write  |-> mode \in {"r+", "w", "w+", "a", "a+"},
   append |-> FALSE,
   trunc  |-> mode \in {"w", "w+"}]

OpenFlags(mode) ==
  [read   |-> mode \in {"r", "r+", "w+", "a+"},
   write  |-> mode \in {"r+", "w", "w+", "a", "a+"},
   append |-> mode \in {"a", "a+"},
   trunc  |-> mode \in {"w", "w+"}]

-----------------------------------------------------------------------------
(* External: the system calls.  Each operator is the set of outcomes the   *)
(* call may have on file k; n is the value it returns.                     *)

Failure(k) == [n |-> -1, k |-> k]

SysWrite(k, mode, bytes) ==
  LET at == IF OpenFlags(mode).append THEN Len(k.data) ELSE k.off
      counts == IF ShortIO THEN 0..Len(bytes) ELSE {Len(bytes)}
      wrote(n) == [n |-> n,
                   k |-> [data |-> Overlay(k.data, at, SubSeq(bytes, 1, n)),
                          off  |-> IF n = 0 THEN k.off ELSE at + n]]
  IN  (IF OpenFlags(mode).write THEN {wrote(n) : n \in counts} ELSE {})
      \cup (IF "write" \in Faults \/ ~OpenFlags(mode).write THEN {Failure(k)} ELSE {})

\* read(fd, buffer, BUFFER_SIZE): how many bytes the kernel may give.
SysReadCounts(k) ==
  LET left == Len(k.data) - k.off
      most == Smaller(BufSize, left)
  IN  IF left <= 0 THEN {0} ELSE IF ShortIO THEN 1..most ELSE {most}

SysRead(k, mode) ==
  (IF OpenFlags(mode).read
   THEN {[n |-> n, k |-> [k EXCEPT !.off = @ + n]] : n \in SysReadCounts(k)}
   ELSE {})
  \cup (IF "read" \in Faults \/ ~OpenFlags(mode).read THEN {Failure(k)} ELSE {})

SysLseek(k, offset, whence) ==
  LET base == CASE whence = "SEEK_SET" -> 0
                [] whence = "SEEK_CUR" -> k.off
                [] whence = "SEEK_END" -> Len(k.data)
  IN  IF base + offset < 0 THEN Failure(k)
      ELSE [n |-> base + offset, k |-> [k EXCEPT !.off = base + offset]]

-----------------------------------------------------------------------------
(* The calls, each as the set of its outcomes on stream s and file k.      *)

Outcome(s, k, v) == [s |-> s, k |-> k, ret |-> v]

\* strcpy(stream->_buffer, "") stores one NUL, at index 0.
Emptied(s) == [s EXCEPT !.pos = 0, !.buf[0] = 0]

\* The bytes so_fflush writes: the buffer from index 0 up to the position.
Pending(s) == [i \in 1..s.pos |-> s.buf[i - 1]]

Fflush(s, k) ==
  IF ~IsWriteOperation(s) THEN {Outcome(s, k, SO_EOF)}
  ELSE {IF w.n = -1 THEN Outcome([s EXCEPT !.err = TRUE], k, SO_EOF)
        ELSE Outcome(Emptied(s), w.k, 0) : w \in SysWrite(k, s.mode, Pending(s))}

NeedsRefill(s) == s.pos = 0 \/ s.pos = BufSize \/ IsWriteOperation(s)

\* The stream after read() has put the n bytes behind k's offset in _buffer.
Refilled(s, k, n) ==
  [s EXCEPT !.lastOp = "read", !.pos = 0, !.nrRead = n,
            !.buf = [i \in Index |-> IF i < n THEN k.data[k.off - n + i + 1] ELSE @[i]]]

TakeByte(s, k) ==
  IF s.pos = s.nrRead THEN Outcome([s EXCEPT !.eof = TRUE], k, SO_EOF)
  ELSE Outcome([s EXCEPT !.pos = @ + 1, !.tell = @ + 1], k, SignedChar(s.buf[s.pos]))

Fgetc(s, k) ==
  IF ~CanRead(s.mode) THEN {Outcome([s EXCEPT !.err = TRUE], k, SO_EOF)}
  ELSE IF ~NeedsRefill(s) THEN {TakeByte(s, k)}
  ELSE {CASE r.n = 0  -> Outcome([s EXCEPT !.eof = TRUE], r.k, SO_EOF)
          [] r.n = -1 -> Outcome([s EXCEPT !.err = TRUE], r.k, SO_EOF)
          [] r.n > 0  -> TakeByte(Refilled(s, r.k, r.n), r.k) : r \in SysRead(k, s.mode)}

PutByte(s, k, c) ==
  Outcome([s EXCEPT !.buf[s.pos] = c, !.pos = @ + 1, !.tell = @ + 1, !.lastOp = "write"], k, c)

\* Mutant of Fputc: the buffer is never found full.
FputcNeverFull(s, k, c) ==
  IF ~CanWrite(s.mode) THEN {Outcome([s EXCEPT !.err = TRUE], k, SO_EOF)}
  ELSE {PutByte(s, k, c)}

\* Mutant of Fputc: a full buffer is emptied without being written.
FputcForgetsFlush(s, k, c) ==
  IF ~CanWrite(s.mode) THEN {Outcome([s EXCEPT !.err = TRUE], k, SO_EOF)}
  ELSE {PutByte(IF s.pos = BufSize THEN Emptied(s) ELSE s, k, c)}

Fputc(s, k, c) ==
  IF ~CanWrite(s.mode) THEN {Outcome([s EXCEPT !.err = TRUE], k, SO_EOF)}
  ELSE IF s.pos < BufSize THEN {PutByte(s, k, c)}
  ELSE {IF f.ret = SO_EOF THEN Outcome([f.s EXCEPT !.err = TRUE], f.k, SO_EOF)
        ELSE PutByte(f.s, f.k, c) : f \in Fflush(s, k)}

\* Mutant of BeforeSeek: the bytes that were read ahead are kept.
BeforeSeekKeepsReadAhead(s, k) ==
  IF IsWriteOperation(s) THEN Fflush(s, k) ELSE {Outcome(s, k, 0)}

\* What so_fseek does before lseek: write the pending bytes, or drop the
\* bytes that were read ahead.
BeforeSeek(s, k) ==
  CASE IsWriteOperation(s) -> Fflush(s, k)
    [] IsReadOperation(s)  -> {Outcome(Emptied(s), k, 0)}
    [] OTHER               -> {Outcome(s, k, 0)}

\* Mutant of Fseek: so_ftell is not updated.
FseekKeepsTell(s, k, offset, whence) ==
  {IF b.ret = SO_EOF \/ SysLseek(b.k, offset, whence).n < 0 THEN Outcome(b.s, b.k, SO_EOF)
   ELSE Outcome(b.s, SysLseek(b.k, offset, whence).k, 0) : b \in BeforeSeek(s, k)}

\* The code keeps positions, and the totals of so_fread and so_fwrite, in int:
\* the files here are shorter than 2 GB, where that changes nothing.
Fseek(s, k, offset, whence) ==
  {LET l == SysLseek(b.k, offset, whence) IN
   IF b.ret = SO_EOF \/ l.n < 0 THEN Outcome(b.s, b.k, SO_EOF)
   ELSE Outcome([b.s EXCEPT !.tell = l.n], l.k, 0) : b \in BeforeSeek(s, k)}

-----------------------------------------------------------------------------
(* The actions.                                                            *)

NewStream(mode) ==
  [mode |-> mode, eof |-> FALSE, err |-> FALSE, lastOp |-> "", pos |-> 0, tell |-> 0,
   nrRead |-> 0, buf |-> [i \in Index |-> IF i = 0 THEN 0 ELSE Junk]]

Opened(mode) ==
  [data |-> IF OpenFlags(mode).trunc THEN <<>> ELSE kfile.data, off |-> 0]

Init ==
  /\ status = "none"
  /\ stream = NewStream("r")
  /\ kfile = [data |-> InitialFile, off |-> 0]
  /\ call = NoCall
  /\ ret = <<"none", 0>>

\* so_fopen: an unknown mode or a failed open returns NULL; if the first
\* malloc fails, f->_errorFile = 1 is a store through NULL; if the second
\* fails the result is NULL, but the file is open, and truncated by now.
SoFopen(mode) ==
  /\ status \in {"none", "closed"}
  /\ \/ /\ mode = "other" \/ "open" \in Faults
        /\ UNCHANGED <<status, stream, kfile>>
        /\ ret' = <<"so_fopen", 0>>
     \/ /\ mode \in AllModes /\ "malloc" \in Faults
        /\ kfile' = Opened(mode)
        /\ \/ status' = "crashed" /\ UNCHANGED ret
           \/ UNCHANGED status /\ ret' = <<"so_fopen", 0>>
        /\ UNCHANGED stream
     \/ /\ mode \in AllModes
        /\ status' = "open"
        /\ stream' = NewStream(mode)
        /\ kfile' = Opened(mode)
        /\ ret' = <<"so_fopen", 1>>
  /\ UNCHANGED call

Idle == status = "open" /\ call = NoCall

Returns(name, o) ==
  /\ stream' = o.s
  /\ kfile' = o.k
  /\ ret' = <<name, o.ret>>
  /\ UNCHANGED <<status, call>>

\* The bounds on taking and putting n bytes.
RoomToGet(n) == stream.tell + n <= MaxTell
RoomToPut(n) == /\ stream.tell + n <= MaxTell
                /\ Larger(Len(kfile.data), kfile.off) + stream.pos + n <= MaxFile

SoFgetc ==
  /\ Idle /\ RoomToGet(1)
  /\ \E o \in Fgetc(stream, kfile) : Returns("so_fgetc", o)

SoFputc(c) ==
  /\ Idle /\ RoomToPut(1)
  /\ \E o \in Fputc(stream, kfile, c) : Returns("so_fputc", o)

SoFflush ==
  /\ Idle
  /\ \E o \in Fflush(stream, kfile) : Returns("so_fflush", o)

SoFseek(offset, whence) ==
  /\ Idle
  /\ \E o \in Fseek(stream, kfile, offset, whence) :
       /\ o.k.off <= MaxFile
       /\ Returns("so_fseek", o)

\* Mutant of BeforeClose: the flush is not limited to streams that wrote.
BeforeCloseAlwaysFlush(s, k) == Fflush(s, k)

BeforeClose(s, k) == IF IsWriteOperation(s) THEN Fflush(s, k) ELSE {Outcome(s, k, 0)}

\* so_fclose: when the flush or close fails, the stream is freed, set to
\* NULL and then read.
SoFclose ==
  /\ Idle
  /\ \E o \in BeforeClose(stream, kfile) :
       /\ stream' = o.s
       /\ kfile' = o.k
       /\ \/ /\ o.ret # SO_EOF
             /\ status' = "closed" /\ ret' = <<"so_fclose", 0>>
          \/ /\ o.ret = SO_EOF \/ "close" \in Faults
             /\ status' = "crashed" /\ UNCHANGED ret
  /\ UNCHANGED call

\* so_fread(ptr, size, nmemb): the count of buffered bytes is cleared first.
\* When size is 0, isReading returns at once and reading / size traps.
SoFreadBegin(size, nmemb) ==
  /\ Idle /\ RoomToGet(size * nmemb)
  /\ stream' = [stream EXCEPT !.nrRead = 0]
  /\ call' = [op |-> "so_fread", size |-> size, nmemb |-> nmemb, done |-> 0]
  /\ status' = (IF size = 0 THEN "crashed" ELSE status)
  /\ UNCHANGED <<kfile, ret>>

SoFwriteBegin(size, nmemb) ==
  /\ Idle /\ RoomToPut(size * nmemb)
  /\ call' = [op |-> "so_fwrite", size |-> size, nmemb |-> nmemb, done |-> 0]
  /\ UNCHANGED <<status, stream, kfile, ret>>

Running(op) == status = "open" /\ call.op = op
Total == call.size * call.nmemb

\* The end of isReading or isWriting, and of the call: _lastOperation is set
\* whatever happened.
Finish(s, lastOp, op, v) ==
  /\ stream' = [s EXCEPT !.lastOp = lastOp]
  /\ call' = NoCall
  /\ ret' = <<op, v>>

\* isReading: only _errorFile ends the loop early, not the end of file.
SoFreadStep ==
  /\ Running("so_fread")
  /\ IF call.done = Total
     THEN /\ Finish(stream, "read", "so_fread", call.nmemb)
          /\ UNCHANGED kfile
     ELSE \E o \in Fgetc(stream, kfile) :
            /\ kfile' = o.k
            /\ IF o.s.err
               THEN Finish(o.s, "read", "so_fread", call.done \div call.size)
               ELSE /\ stream' = o.s
                    /\ call' = [call EXCEPT !.done = @ + 1]
                    /\ UNCHANGED ret
  /\ UNCHANGED status

\* isWriting: _errorFile or _endOfFile ends the loop; the result is nmemb.
SoFwriteStep(c) ==
  /\ Running("so_fwrite")
  /\ IF call.done = Total
     THEN /\ Finish(stream, "write", "so_fwrite", call.nmemb)
          /\ UNCHANGED kfile
     ELSE \E o \in Fputc(stream, kfile, c) :
            /\ kfile' = o.k
            /\ IF o.s.err \/ o.s.eof
               THEN Finish(o.s, "write", "so_fwrite", call.nmemb)
               ELSE /\ stream' = o.s
                    /\ call' = [call EXCEPT !.done = @ + 1]
                    /\ UNCHANGED ret
  /\ UNCHANGED status

Next ==
  \/ \E mode \in Modes : SoFopen(mode)
  \/ SoFgetc
  \/ \E c \in Byte : SoFputc(c)
  \/ SoFflush
  \/ \E offset \in SeekOffsets, whence \in Whence : SoFseek(offset, whence)
  \/ SoFclose
  \/ \E size \in Sizes, nmemb \in 0..MaxItems :
       SoFreadBegin(size, nmemb) \/ SoFwriteBegin(size, nmemb)
  \/ SoFreadStep
  \/ \E c \in Byte : SoFwriteStep(c)

Spec == Init /\ [][Next]_vars

-----------------------------------------------------------------------------
(* Properties.                                                             *)

\* Every field stays in its range.  In particular the position never passes
\* BUFFER_SIZE, so that no call indexes _buffer out of bounds, whatever the
\* order of the calls and the outcomes of the system calls.
TypeOK ==
  /\ status \in {"none", "open", "closed", "crashed"}
  /\ stream \in Stream
  /\ kfile \in KFile
  /\ call \in [op: {"none", "so_fread", "so_fwrite"}, size: Nat, nmemb: Nat, done: Nat]
  /\ ret \in {"none", "so_fopen", "so_fclose", "so_fgetc", "so_fputc", "so_fflush",
              "so_fseek", "so_fread", "so_fwrite"} \X Int

\* What is in the file when so_fopen returns it stays there, byte for byte,
\* as long as a stream of mode "r" is open, and stays a prefix of the file
\* as long as one of mode "a" or "a+" is, even when reads and seeks come
\* between the writes and flushes.
FilePreserved ==
  [][status = "open" =>
       /\ stream.mode = "r" => kfile'.data = kfile.data
       /\ stream.mode \in {"a", "a+"} =>
            /\ Len(kfile.data) <= Len(kfile'.data)
            /\ SubSeq(kfile'.data, 1, Len(kfile.data)) = kfile.data]_vars

\* A call ends the process in three ways only: so_fread of items of size 0
\* (line 205 divides by it); so_fclose when close fails; and so_fclose after
\* a write operation, when write fails, or on a stream of mode "r" that was
\* given to so_fwrite, which records a write operation that never happened.
CrashOnlyOnMisuse ==
  [][status = "open" /\ status' = "crashed" =>
       \/ call'.op = "so_fread" /\ call'.size = 0
       \/ "close" \in Faults
       \/ IsWriteOperation(stream) /\ ("write" \in Faults \/ stream.mode = "r")]_vars

\* so_stdio.h:28 says of SEEK_CUR "Seek from current position": a call that
\* succeeds moves so_ftell by the offset.
SeekCurIsRelative ==
  [][\A offset \in SeekOffsets :
       SoFseek(offset, "SEEK_CUR") /\ ret'[2] = 0 =>
         stream'.tell = stream.tell + offset]_vars
=============================================================================
