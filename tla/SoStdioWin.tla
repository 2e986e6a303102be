----------------------------- MODULE SoStdioWin -----------------------------
(***************************************************************************)
(* The buffered stream of Tema2-Biblioteca-Stdio/tema_windows: the calls   *)
(* of module SoStdio over a HANDLE.  Here so_fgetc writes what is pending  *)
(* by itself, and so_fputc moves the file pointer back over what was read  *)
(* ahead, so that reads and writes may follow each other.                  *)
(*                                                                         *)
(* ReadFile, WriteFile and CloseHandle return a BOOL, which the code       *)
(* compares with -1: none of their failures is seen.                       *)
(***************************************************************************)
EXTENDS SoUtils

CONSTANTS
  BufSize,     \* BUFFER_SIZE
  Byte,        \* the bytes that files and callers use, a subset of 0..255
  Modes,       \* the opening modes the caller uses
  InitialFile, \* the contents of the file before the first so_fopen
  MaxFile,     \* bound: no byte is put that could make the file longer
  MaxTell,     \* bound: no byte is taken or put beyond this so_ftell
  MaxItems,    \* bound: nmemb of so_fread and so_fwrite
  SeekOffsets, \* the offsets given to so_fseek
  JunkSeek,    \* may so_fputc find 1 in its uninitialised variable seek?
  Faults       \* the calls that may fail: "open", "malloc", "read", "write"

Cell == Byte \cup {Junk}

ASSUME StdioWinAssumption ==
  /\ BufSize \in Nat \ {0}
  /\ Byte \subseteq 0..255 /\ 0 \in Byte
  /\ Modes \subseteq AllModes \cup {"other"}
  /\ InitialFile \in Seq(Byte)
  /\ MaxFile \in Nat /\ MaxTell \in Nat /\ MaxItems \in Nat
  /\ SeekOffsets \subseteq Int
  /\ JunkSeek \in BOOLEAN
  /\ Faults \subseteq {"open", "malloc", "read", "write"}

VARIABLES
  status,  \* "none" | "open" | "closed" | "crashed" | "hung": the caller's stream
  stream,  \* the fields of the SO_FILE; size is _actualBufferSize
  kfile,   \* external: the file's bytes and the file pointer of the HANDLE
  call,    \* the so_fread in progress
  ret      \* the last call to return, and the value it returned

vars == <<status, stream, kfile, call, ret>>

Index == 0..(BufSize - 1)
NoCall == [op |-> "none", nmemb |-> 0, done |-> 0]

-----------------------------------------------------------------------------
(* The calls, each as the set of its outcomes on stream s and file k.      *)

Outcome(s, k, v) == [s |-> s, k |-> k, ret |-> v, hangs |-> FALSE]
Hung(s, k) == [s |-> s, k |-> k, ret |-> 0, hangs |-> TRUE]

\* next(b.s, b.k) after every outcome b of a call that returned.
Then(outcomes, next(_, _)) ==
  UNION {IF b.hangs THEN {b} ELSE next(b.s, b.k) : b \in outcomes}

\* External: n bytes of the buffer are written at the file pointer.
Wrote(s, k, n) ==
  [data |-> Overlay(k.data, k.off, [i \in 1..n |-> s.buf[i - 1]]), off |-> k.off + n]

\* so_fflush goes on until WriteFile has written everything.  A WriteFile
\* that fails, perhaps after others that were short, is tried again for ever.
Fflush(s, k) ==
  IF ~IsWriteOperation(s) THEN {Outcome(s, k, SO_EOF)}
  ELSE {Outcome([s EXCEPT !.pos = 0, !.size = 0], Wrote(s, k, s.size), 0)}
       \cup IF "write" \in Faults
            THEN {Hung([s EXCEPT !.pos = n, !.size = @ - n], Wrote(s, k, n))
                    : n \in 0..(s.size - 1)}
            ELSE {}

\* External: the byte counts ReadFile may give; a failure gives 0 too.
ReadFileCounts(k) ==
  {IF k.off >= Len(k.data) THEN 0 ELSE Smaller(BufSize, Len(k.data) - k.off)}
  \cup (IF "read" \in Faults THEN {0} ELSE {})

TakeByte(s, k) ==
  Outcome([s EXCEPT !.size = @ - 1, !.tell = @ + 1, !.lastOp = "read", !.pos = @ + 1],
          k, SignedChar(s.buf[s.pos]))

Refilled(s, k, n) ==
  [s EXCEPT !.pos = 0, !.size = n,
            !.buf = [i \in Index |-> IF i < n THEN k.data[k.off + i + 1] ELSE @[i]]]

FetchByte(s, k) ==
  IF s.size > 0 THEN {TakeByte(s, k)}
  ELSE {IF n = 0 THEN Outcome([s EXCEPT !.pos = 0, !.eof = TRUE], k, SO_EOF)
        ELSE TakeByte(Refilled(s, k, n), [k EXCEPT !.off = @ + n]) : n \in ReadFileCounts(k)}

\* Mutant of Fgetc: what is pending is not written first.
FgetcNoFlush(s, k) ==
  IF ~CanRead(s.mode) THEN {Outcome([s EXCEPT !.err = TRUE], k, SO_EOF)}
  ELSE FetchByte(s, k)

Fgetc(s, k) ==
  IF ~CanRead(s.mode) THEN {Outcome([s EXCEPT !.err = TRUE], k, SO_EOF)}
  ELSE IF IsWriteOperation(s) THEN Then(Fflush(s, k), FetchByte)
  ELSE FetchByte(s, k)

\* SetFilePointer, and the end of so_fseek.  SEEK_CUR starts from so_ftell.
SetPointer(s, k, offset, whence) ==
  LET at == offset + CASE whence = "SEEK_SET" -> 0
                       [] whence = "SEEK_CUR" -> s.tell
                       [] whence = "SEEK_END" -> Len(k.data)
  IN  IF at < 0 THEN Outcome([s EXCEPT !.err = TRUE, !.lastOp = ""], k, SO_EOF)
      ELSE Outcome([s EXCEPT !.tell = at, !.lastOp = ""], [k EXCEPT !.off = at], 0)

\* Mutant of Dropped: the bytes that were read ahead are kept.
DroppedNot(s) == s

\* What was read ahead is dropped, the '\0' of strcpy is stored.
Dropped(s) == IF IsReadOperation(s) THEN [s EXCEPT !.pos = 0, !.size = 0, !.buf[0] = 0] ELSE s

Fseek(s, k, offset, whence) ==
  LET Move(t, j) == {SetPointer(t, j, offset, whence)} IN
  IF IsWriteOperation(s) THEN Then(Fflush(s, k), Move) ELSE Move(Dropped(s), k)

\* Mutant of Targets: "a+" is taken for any other mode.
TargetsNoAppend(s) ==
  IF IsReadOperation(s) THEN {<<s.tell, "SEEK_SET">>} ELSE {}

\* Where so_fputc moves the file pointer first, as <<offset, whence>>: to
\* where the caller stands after a read, to the end for "a+".
Targets(s) ==
  IF s.mode = "a+" /\ ~IsWriteOperation(s) THEN {<<0, "SEEK_END">>}
  ELSE IF IsReadOperation(s) THEN {<<s.tell, "SEEK_SET">>}
  ELSE {}

PutByte(s, k, c) ==
  Outcome([s EXCEPT !.buf[s.pos] = c, !.pos = @ + 1, !.size = @ + 1, !.tell = @ + 1,
                    !.lastOp = "write"], k, c)

\* Mutant of StoreByte: the buffer is never found full.
StoreByteNeverFull(s, k, c) == {PutByte(s, k, c)}

StoreByte(s, k, c) ==
  IF s.pos < BufSize THEN {PutByte(s, k, c)}
  ELSE {IF f.hangs THEN f
        ELSE IF f.ret = SO_EOF THEN Outcome([f.s EXCEPT !.err = TRUE], f.k, SO_EOF)
        ELSE PutByte(f.s, f.k, c) : f \in Fflush(s, k)}

\* For "a" the file pointer is at the end whenever a byte is stored.  When
\* there is nowhere to move to, seek is uninitialised, and if it holds 1 the
\* file pointer moves anywhere, because offset and whence are too.
Fputc(s, k, c) ==
  LET start == IF s.mode = "a" THEN [k EXCEPT !.off = Len(k.data)] ELSE k
      junk  == IF JunkSeek THEN SeekOffsets \X Whence ELSE {}
      stay  == IF Targets(s) = {} THEN {Outcome(s, start, 0)} ELSE {}
      moved == UNION {Fseek(s, start, t[1], t[2]) : t \in IF Targets(s) = {} THEN junk ELSE Targets(s)}
  IN  IF ~CanWrite(s.mode) THEN {Outcome([s EXCEPT !.err = TRUE], k, SO_EOF)}
      ELSE UNION {IF b.hangs THEN {b}
                  ELSE IF b.ret = SO_EOF THEN {Outcome([b.s EXCEPT !.err = TRUE], b.k, SO_EOF)}
                  ELSE StoreByte(b.s, b.k, c) : b \in stay \cup moved}

-----------------------------------------------------------------------------
(* The actions.                                                            *)

NewStream(mode) ==
  [mode |-> mode, eof |-> FALSE, err |-> FALSE, lastOp |-> "", pos |-> 0, tell |-> 0,
   size |-> 0, buf |-> [i \in Index |-> IF i = 0 THEN 0 ELSE Junk]]

\* CREATE_ALWAYS truncates.
Opened(mode) ==
  [data |-> IF mode \in {"w", "w+"} THEN <<>> ELSE kfile.data, off |-> 0]

Init ==
  /\ status = "none"
  /\ stream = NewStream("r")
  /\ kfile = [data |-> InitialFile, off |-> 0]
  /\ call = NoCall
  /\ ret = <<"none", 0>>

\* so_fopen: an unknown mode or a failed CreateFile returns NULL; a failed
\* malloc is a store through NULL, after the file was opened.
SoFopen(mode) ==
  /\ status \in {"none", "closed"}
  /\ \/ /\ mode = "other" \/ "open" \in Faults
        /\ ret' = <<"so_fopen", 0>>
        /\ UNCHANGED <<status, stream, kfile>>
     \/ /\ mode \in AllModes /\ "malloc" \in Faults
        /\ status' = "crashed"
        /\ kfile' = Opened(mode)
        /\ UNCHANGED <<stream, ret>>
     \/ /\ mode \in AllModes
        /\ status' = "open"
        /\ stream' = NewStream(mode)
        /\ kfile' = Opened(mode)
        /\ ret' = <<"so_fopen", 1>>
  /\ UNCHANGED call

Idle == status = "open" /\ call = NoCall

\* A call ends with outcome o and leaves the stream in status after; or it
\* never ends.
Ends(name, o, after) ==
  /\ stream' = o.s
  /\ kfile' = o.k
  /\ IF o.hangs THEN status' = "hung" /\ UNCHANGED ret
     ELSE status' = after /\ ret' = <<name, o.ret>>
  /\ UNCHANGED call

\* The bounds on taking and putting n bytes.
RoomToGet(n) == stream.tell + n <= MaxTell
RoomToPut(n) == /\ stream.tell + n <= MaxTell
                /\ Larger(Len(kfile.data), kfile.off) + stream.pos + n <= MaxFile

SoFgetc ==
  /\ Idle /\ RoomToGet(1)
  /\ \E o \in Fgetc(stream, kfile) : Ends("so_fgetc", o, "open")

SoFputc(c) ==
  /\ Idle /\ RoomToPut(1)
  /\ \E o \in Fputc(stream, kfile, c) : Ends("so_fputc", o, "open")

SoFflush ==
  /\ Idle
  /\ \E o \in Fflush(stream, kfile) : Ends("so_fflush", o, "open")

SoFseek(offset, whence) ==
  /\ Idle
  /\ \E o \in Fseek(stream, kfile, offset, whence) :
       /\ o.k.off <= MaxFile
       /\ Ends("so_fseek", o, "open")

\* so_fclose ignores what its so_fflush returns.
SoFclose ==
  /\ Idle
  /\ LET Close(s, k) == {Outcome(s, k, 0)} IN
     \E o \in IF IsWriteOperation(stream) THEN Then(Fflush(stream, kfile), Close)
              ELSE Close(stream, kfile) :
       Ends("so_fclose", o, "closed")

\* The caller may not do this: err is set and the result is SO_EOF.
Refused(name) ==
  /\ stream' = [stream EXCEPT !.err = TRUE]
  /\ ret' = <<name, SO_EOF>>
  /\ UNCHANGED <<status, call>>

\* so_fread: nmemb bytes, whatever their size.
SoFreadBegin(nmemb) ==
  /\ Idle /\ RoomToGet(nmemb)
  /\ IF CanRead(stream.mode)
     THEN /\ stream' = [stream EXCEPT !.lastOp = "read"]
          /\ call' = [op |-> "so_fread", nmemb |-> nmemb, done |-> 0]
          /\ UNCHANGED <<status, ret>>
     ELSE Refused("so_fread")
  /\ UNCHANGED kfile

\* One so_fgetc.  A byte 255 is -1 as an int, which ends the call too.
SoFreadStep ==
  /\ status = "open" /\ call.op = "so_fread"
  /\ IF call.done = call.nmemb
     THEN /\ call' = NoCall
          /\ ret' = <<"so_fread", call.nmemb>>
          /\ UNCHANGED <<stream, kfile>>
     ELSE \E o \in Fgetc(stream, kfile) :
            /\ kfile' = o.k
            /\ IF o.ret = SO_EOF
               THEN /\ stream' = [o.s EXCEPT !.err = TRUE]
                    /\ call' = NoCall
                    /\ ret' = <<"so_fread", SO_EOF>>
               ELSE /\ stream' = o.s
                    /\ call' = [call EXCEPT !.done = @ + 1]
                    /\ UNCHANGED ret
  /\ UNCHANGED status

\* so_fwrite: line 237 gives the byte itself to so_fgetc as its stream.
SoFwrite(nmemb) ==
  /\ Idle
  /\ IF ~CanWrite(stream.mode) THEN Refused("so_fwrite")
     ELSE /\ stream' = [stream EXCEPT !.lastOp = "write"]
          /\ IF nmemb > 0 THEN status' = "crashed" /\ UNCHANGED ret
             ELSE UNCHANGED status /\ ret' = <<"so_fwrite", 0>>
          /\ UNCHANGED call
  /\ UNCHANGED kfile
=============================================================================
