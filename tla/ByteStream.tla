---------------------------- MODULE ByteStream ----------------------------
(***************************************************************************)
(* What a caller of so_stdio relies on, with no buffer in sight: a file    *)
(* and a position.  A byte put is in the file at once, a byte taken is the *)
(* one at the position, the end of file is reported only at the end, and   *)
(* closing leaves the file as it is.                                       *)
(***************************************************************************)
EXTENDS Integers, Sequences

CONSTANTS
  Byte,        \* the bytes the caller may put
  File,        \* the contents a file may have
  InitialFile  \* its contents before the first Open

VARIABLES status, file, pos, eof, err, ret

vars == <<status, file, pos, eof, err, ret>>

Init ==
  /\ status = "none"
  /\ file = InitialFile
  /\ pos = 0 /\ eof = FALSE /\ err = FALSE
  /\ ret = <<"none", 0>>

\* The byte c at position pos; a gap before it reads as zeroes.
With(c) ==
  LET f == file
      len == IF pos < Len(f) THEN Len(f) ELSE pos + 1
  IN  [i \in 1..len |-> IF i = pos + 1 THEN c ELSE IF i <= Len(f) THEN f[i] ELSE 0]

Signed(b) == IF b \in 128..255 THEN b - 256 ELSE b

\* One byte is handled by call op, which returns v, or within the call
\* block, which may go on or return a count.
Answers(op, v, block) == ret' \in {<<op, v>>, ret} \/ ret'[1] = block

Open ==
  /\ status \in {"none", "closed"}
  /\ status' = "open"
  /\ file' \in {file, <<>>}
  /\ pos' = 0 /\ eof' = FALSE /\ err' = FALSE
  /\ ret' = <<"so_fopen", 1>>

OpenFails ==
  /\ status \in {"none", "closed"}
  /\ file' \in {file, <<>>}
  /\ ret' = <<"so_fopen", 0>>
  /\ UNCHANGED <<status, pos, eof, err>>

Get ==
  /\ status = "open" /\ pos < Len(file)
  /\ pos' = pos + 1
  /\ Answers("so_fgetc", Signed(file[pos + 1]), "so_fread")
  /\ UNCHANGED <<status, file, eof, err>>

\* so_fread may take the end of the file for an error.
AtEnd ==
  /\ status = "open" /\ pos >= Len(file)
  /\ eof' = TRUE
  /\ Answers("so_fgetc", -1, "so_fread")
  /\ err' = err \/ (err' = TRUE /\ ret'[1] = "so_fread")
  /\ UNCHANGED <<status, file, pos>>

Put ==
  /\ status = "open"
  /\ \E c \in Byte :
       /\ file' = With(c)
       /\ Answers("so_fputc", c, "so_fwrite")
  /\ pos' = pos + 1
  /\ UNCHANGED <<status, eof, err>>

\* A call that fails changes neither the file nor the position.
Fail ==
  /\ status = "open"
  /\ err' = TRUE
  /\ \/ ret'[1] \in {"so_fread", "so_fwrite"}
     \/ ret' \in {"so_fgetc", "so_fputc", "so_fflush", "so_fseek"} \X {-1}
  /\ UNCHANGED <<status, file, pos, eof>>

\* so_fflush of a stream that was not written, or a seek before the start.
Refuse ==
  /\ status = "open"
  /\ ret' \in {<<"so_fflush", -1>>, <<"so_fseek", -1>>}
  /\ UNCHANGED <<status, file, pos, eof, err>>

Flush ==
  /\ status = "open"
  /\ ret' = <<"so_fflush", 0>>
  /\ UNCHANGED <<status, file, pos, eof, err>>

Seek ==
  /\ status = "open"
  /\ pos' \in Nat
  /\ ret' = <<"so_fseek", 0>>
  /\ UNCHANGED <<status, file, eof, err>>

\* The end of so_fread or so_fwrite: the bytes were taken or put one by one.
Transferred ==
  /\ status = "open"
  /\ ret'[1] \in {"so_fread", "so_fwrite"}
  /\ UNCHANGED <<status, file, pos, eof, err>>

Close ==
  /\ status = "open"
  /\ status' = "closed"
  /\ ret' = <<"so_fclose", 0>>
  /\ UNCHANGED <<file, pos, eof, err>>

\* The process may die in a call; nothing is promised of the file then.
Crash ==
  /\ status' = "crashed"
  /\ file' \in File

Next == \/ Open \/ OpenFails \/ Get \/ AtEnd \/ Put \/ Fail \/ Refuse
        \/ Flush \/ Seek \/ Transferred \/ Close \/ Crash

Spec == Init /\ [][Next]_vars
=============================================================================
