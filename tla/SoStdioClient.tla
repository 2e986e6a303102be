--------------------------- MODULE SoStdioClient ---------------------------
(***************************************************************************)
(* so_stdio under a caller that keeps the rules of C's stdio: between      *)
(* taking and putting bytes there is a so_fflush or so_fseek that          *)
(* succeeded; after a failed so_fseek the stream is only repositioned or   *)
(* closed.  Two more rules are this library's own: so_fread comes only     *)
(* first after repositioning, because it forgets how many bytes are        *)
(* buffered, and SEEK_CUR does not follow a read, because the descriptor   *)
(* is past the bytes read ahead.  Under these rules, and with writes that  *)
(* are never short, the stream is the unbuffered one of ByteStream.        *)
(***************************************************************************)
EXTENDS SoStdio

VARIABLE dir \* what the caller did since it last positioned the stream

cvars == <<vars, dir>>

CInit == Init /\ dir = "none"

Positioned == ret'[2] = 0

CNext ==
  \/ \E mode \in Modes : SoFopen(mode) /\ dir' = "none"
  \/ dir \in {"none", "read"} /\ SoFgetc /\ dir' = "read"
  \/ dir \in {"none", "write"} /\ \E c \in Byte : SoFputc(c) /\ dir' = "write"
  \/ dir # "lost" /\ SoFflush /\ dir' = (IF Positioned THEN "none" ELSE dir)
  \/ \E offset \in SeekOffsets, whence \in Whence :
       /\ dir \in {"read", "lost"} => whence # "SEEK_CUR"
       /\ SoFseek(offset, whence)
       /\ dir' = (IF Positioned THEN "none" ELSE "lost")
  \/ SoFclose /\ UNCHANGED dir
  \/ \E size \in Sizes, nmemb \in 0..MaxItems :
       \/ dir = "none" /\ SoFreadBegin(size, nmemb) /\ dir' = "read"
       \/ dir \in {"none", "write"} /\ SoFwriteBegin(size, nmemb) /\ dir' = "write"
  \/ SoFreadStep /\ UNCHANGED dir
  \/ (\E c \in Byte : SoFwriteStep(c)) /\ UNCHANGED dir

CSpec == CInit /\ [][CNext]_cvars

-----------------------------------------------------------------------------
Unwritten == IF status = "open" /\ IsWriteOperation(stream) THEN Pending(stream) ELSE <<>>

\* so_ftell is where the next byte will be taken or put: the descriptor's
\* offset, plus the bytes not yet written, or less the bytes read ahead.
TellAgrees ==
  status = "open" /\ dir # "lost" =>
    stream.tell = kfile.off + (IF IsWriteOperation(stream) THEN stream.pos
                               ELSE IF stream.pos = 0 THEN 0
                               ELSE stream.pos - stream.nrRead)

\* The bytes read ahead are those of the file just before the descriptor's
\* offset: so_fgetc can never return a stale byte or one nobody wrote.
ReadAheadIsFile ==
  status = "open" /\ IsReadOperation(stream) /\ stream.pos > 0 =>
    \A i \in stream.pos..(stream.nrRead - 1) :
      LET at == kfile.off - stream.nrRead + i + 1 IN
        at \in DOMAIN kfile.data /\ stream.buf[i] = kfile.data[at]

B == INSTANCE ByteStream WITH
       File <- Seq(Cell),
       file <- Overlay(kfile.data, kfile.off, Unwritten),
       pos  <- stream.tell,
       eof  <- stream.eof,
       err  <- stream.err

\* Buffering is invisible to the caller: every step of the stream is a step
\* of the unbuffered one.  In particular no byte put is lost, doubled or
\* moved, by any interleaving of puts, flushes, seeks and errors.
ImplementsByteStream == B!Spec
=============================================================================
