-------------------------- MODULE SoStdioWinClient --------------------------
(***************************************************************************)
(* The Windows stream under a caller that may mix so_fgetc and so_fputc    *)
(* freely, which C's stdio does not allow.  It keeps three rules of this   *)
(* library's own: after a failed so_fseek the stream is only repositioned  *)
(* or closed; so_fread does not follow a byte put, because it would forget *)
(* that bytes are pending; so_fwrite of no items, which records a write    *)
(* operation all the same, does not follow a byte taken, because the bytes *)
(* read ahead would be written, and is not made on a stream of mode "a+",  *)
(* whose next byte would not go to the end of the file.                    *)
(***************************************************************************)
EXTENDS SoStdioWin

VARIABLE dir \* what the caller did since it last positioned the stream

cvars == <<vars, dir>>

CInit == Init /\ dir = "none"

Positioned == ret'[2] = 0

CNext ==
  \/ \E mode \in Modes : SoFopen(mode) /\ dir' = "none"
  \/ dir # "lost" /\ SoFgetc /\ dir' = "read"
  \/ dir # "lost" /\ (\E c \in Byte : SoFputc(c)) /\ dir' = "write"
  \/ dir # "lost" /\ SoFflush /\ dir' = (IF Positioned THEN "none" ELSE dir)
  \/ \E offset \in SeekOffsets, whence \in Whence :
       /\ dir = "lost" => whence # "SEEK_CUR"
       /\ SoFseek(offset, whence)
       /\ dir' = (IF Positioned THEN "none" ELSE "lost")
  \/ SoFclose /\ UNCHANGED dir
  \/ \E nmemb \in 0..MaxItems :
       \/ dir \in {"none", "read"} /\ SoFreadBegin(nmemb) /\ dir' = "read"
       \/ /\ dir # "lost"
          /\ nmemb = 0 => dir \in {"none", "write"} /\ stream.mode # "a+"
          /\ SoFwrite(nmemb) /\ dir' = "write"
  \/ SoFreadStep /\ UNCHANGED dir

CSpec == CInit /\ [][CNext]_cvars

-----------------------------------------------------------------------------
\* Every field stays in its range: no call indexes _buffer out of bounds, or
\* counts more bytes in it than it holds, however reads and writes alternate.
TypeOK ==
  /\ status \in {"none", "open", "closed", "crashed", "hung"}
  /\ stream \in [mode: AllModes, eof: BOOLEAN, err: BOOLEAN, lastOp: {"", "read", "write"},
                 pos: 0..BufSize, tell: Int, size: 0..BufSize, buf: [Index -> Cell]]
  /\ kfile \in [data: Seq(Cell), off: Nat]
  /\ call \in [op: {"none", "so_fread"}, nmemb: Nat, done: Nat]
  /\ ret \in {"none", "so_fopen", "so_fclose", "so_fgetc", "so_fputc", "so_fflush",
              "so_fseek", "so_fread", "so_fwrite"} \X Int

\* What is in the file when so_fopen returns it stays there, byte for byte,
\* as long as a stream of mode "r" is open, and stays a prefix of the file as
\* long as one of mode "a" or "a+" is.  Windows has no O_APPEND: this rests on
\* so_fputc moving the file pointer to the end in time, before the flush.
FilePreserved ==
  [][status = "open" =>
       /\ stream.mode = "r" => kfile'.data = kfile.data
       /\ stream.mode \in {"a", "a+"} =>
            /\ Len(kfile.data) <= Len(kfile'.data)
            /\ SubSeq(kfile'.data, 1, Len(kfile.data)) = kfile.data]_vars

\* so_ftell is where the next byte will be taken or put: the file pointer,
\* plus the bytes not yet written, or less the bytes read ahead.  (It counts
\* from 0 on a stream of mode "a", whose bytes go to the end.)
TellAgrees ==
  status = "open" /\ dir # "lost" /\ stream.mode # "a" =>
    stream.tell = kfile.off + (IF IsWriteOperation(stream) THEN stream.size ELSE -stream.size)

Unwritten ==
  IF status = "open" /\ IsWriteOperation(stream)
  THEN [i \in 1..stream.size |-> stream.buf[i - 1]] ELSE <<>>

B == INSTANCE ByteStream WITH
       File   <- Seq(Cell),
       status <- IF status = "hung" THEN "crashed" ELSE status,
       file   <- Overlay(kfile.data, kfile.off, Unwritten),
       pos    <- stream.tell,
       eof    <- stream.eof,
       err    <- stream.err

\* Buffering is invisible to the caller of a stream that does not append:
\* every step is a step of the unbuffered stream.  No byte is lost, doubled
\* or moved by bytes taken and put in any order, without a flush or seek in
\* between.  A call that hangs in so_fflush counts as the end of the process.
ImplementsByteStream ==
  B!Init /\ [][stream'.mode \notin {"a", "a+"} => [B!Next]_(B!vars)]_cvars
=============================================================================
