--------------------------- MODULE SoStdioProofs ---------------------------
(***************************************************************************)
(* Proofs about SoStdio and SoStdioClient, for every buffer size, file,    *)
(* set of bytes and set of calls that may fail, without the bounds of the  *)
(* runs.  The first part is about any caller (Spec), the second about one  *)
(* that keeps the rules (CSpec): it sees the unbuffered stream of          *)
(* ByteStream.  There, two things the code needs and does not provide are  *)
(* assumed (Supported): that write and read are not short, and that the    *)
(* caller opens no stream for appending, whose descriptor moves to the end *)
(* of the file at each write while so_ftell does not.                      *)
(***************************************************************************)
EXTENDS SoStdioClient, SequenceTheorems, TLAPS

-----------------------------------------------------------------------------
(* Files and bytes.                                                        *)

LEMMA BufFacts ==
  BufSize \in Nat /\ BufSize > 0 /\ 0 \in 0..BufSize
  BY StdioAssumption

LEMMA CellFacts ==
  /\ 0 \in Byte /\ 0 \in Cell /\ Junk \in Cell /\ Byte \subseteq Cell
  /\ \A c \in Cell : c \in Nat /\ SignedChar(c) \in Int
  /\ BufSize \in Nat /\ BufSize > 0
  BY StdioAssumption DEF Cell, Junk, SignedChar

\* A function on 1..n is a sequence of length n.
LEMMA SeqOfFunction ==
  ASSUME NEW S, NEW n \in Nat, NEW f \in [1..n -> S]
  PROVE  f \in Seq(S) /\ Len(f) = n
  BY SeqDef

\* What Overlay makes of a file, cell by cell.
OverlaidLen(data, at, bytes) ==
  IF bytes = <<>> THEN Len(data) ELSE Larger(Len(data), at + Len(bytes))

OverlaidCell(data, at, bytes, i) ==
  IF i \in (at + 1)..(at + Len(bytes)) THEN bytes[i - at]
  ELSE IF i <= Len(data) THEN data[i] ELSE 0

LEMMA OverlaySeq ==
  ASSUME NEW S, NEW data \in Seq(S), NEW at \in Nat, NEW bytes \in Seq(S), 0 \in S
  PROVE  /\ Overlay(data, at, bytes) \in Seq(S)
         /\ Len(Overlay(data, at, bytes)) = OverlaidLen(data, at, bytes)
         /\ \A i \in 1..OverlaidLen(data, at, bytes) :
              Overlay(data, at, bytes)[i] = OverlaidCell(data, at, bytes, i)
<1> DEFINE n == OverlaidLen(data, at, bytes)
           o == Overlay(data, at, bytes)
<1>1. n \in Nat
  BY DEF Larger, OverlaidLen
<1>2. \A i \in 1..n : OverlaidCell(data, at, bytes, i) \in S
  BY ElementOfSeq DEF OverlaidCell
<1>3. o = [i \in 1..n |-> OverlaidCell(data, at, bytes, i)]
  BY DEF Overlay, OverlaidCell, OverlaidLen
<1> HIDE DEF n, o
<1>4. o \in [1..n -> S]
  BY <1>2, <1>3
<1>5. o \in Seq(S) /\ Len(o) = n
  BY <1>1, <1>4, SeqOfFunction
<1> QED
  BY <1>3, <1>5 DEF n, o

-----------------------------------------------------------------------------
(* The system calls.                                                       *)

LEMMA SysWriteType ==
  ASSUME NEW k \in KFile, NEW mode, NEW bytes \in Seq(Cell), NEW w \in SysWrite(k, mode, bytes)
  PROVE  /\ w.k \in KFile
         /\ \/ w.n \in 0..Len(bytes) /\ OpenFlags(mode).write
            \/ /\ w.n = -1 /\ w.k = k
               /\ "write" \in Faults \/ ~OpenFlags(mode).write
<1> DEFINE at == IF OpenFlags(mode).append THEN Len(k.data) ELSE k.off
           counts == IF ShortIO THEN 0..Len(bytes) ELSE {Len(bytes)}
           wrote(n) == [n |-> n,
                        k |-> [data |-> Overlay(k.data, at, SubSeq(bytes, 1, n)),
                               off  |-> IF n = 0 THEN k.off ELSE at + n]]
<1>1. CASE OpenFlags(mode).write /\ \E n \in counts : w = wrote(n)
  <2>1. PICK n \in counts : w = wrote(n)
    BY <1>1
  <2>2. n \in 0..Len(bytes) /\ at \in Nat /\ k.data \in Seq(Cell) /\ k.off \in Nat
    BY StdioAssumption DEF KFile
  <2>3. SubSeq(bytes, 1, n) \in Seq(Cell)
    BY <2>2
  <2>4. Overlay(k.data, at, SubSeq(bytes, 1, n)) \in Seq(Cell)
    BY <2>2, <2>3, OverlaySeq, CellFacts
  <2> QED
    BY <1>1, <2>1, <2>2, <2>4 DEF KFile
<1>2. CASE w = Failure(k) /\ ("write" \in Faults \/ ~OpenFlags(mode).write)
  BY <1>2 DEF Failure
<1> QED
  BY <1>1, <1>2 DEF SysWrite

\* read puts the cursor behind the bytes it gave, which are in the file.
LEMMA SysReadType ==
  ASSUME NEW k \in KFile, NEW mode, NEW r \in SysRead(k, mode)
  PROVE  /\ r.k \in KFile /\ r.k.data = k.data
         /\ \/ r.n \in 0..BufSize /\ r.k.off = k.off + r.n
               /\ (r.n = 0 \/ r.k.off <= Len(k.data))
               /\ (r.n = 0 => k.off >= Len(k.data))
            \/ r.n = -1 /\ r.k = k
<1>1. CASE \E n \in SysReadCounts(k) : r = [n |-> n, k |-> [k EXCEPT !.off = @ + n]]
  <2>1. PICK n \in SysReadCounts(k) : r = [n |-> n, k |-> [k EXCEPT !.off = @ + n]]
    BY <1>1
  <2>2. k.off \in Nat /\ Len(k.data) \in Nat
    BY DEF KFile
  <2>3. /\ n \in 0..BufSize
        /\ n = 0 \/ k.off + n <= Len(k.data)
        /\ n = 0 => k.off >= Len(k.data)
    <3> DEFINE left == Len(k.data) - k.off
               most == Smaller(BufSize, left)
    <3>1. left \in Int /\ (left > 0 => most \in 1..BufSize /\ most <= left)
      BY <2>2, CellFacts DEF Smaller
    <3>2. n \in (IF left <= 0 THEN {0} ELSE IF ShortIO THEN 1..most ELSE {most})
      BY DEF SysReadCounts
    <3> HIDE DEF most
    <3>3. (n = 0 /\ left <= 0) \/ (left > 0 /\ n \in 1..most)
      <4>1. CASE left <= 0
        BY <3>2, <4>1
      <4>2. CASE ~(left <= 0) /\ ShortIO
        BY <3>1, <3>2, <4>2
      <4>3. CASE ~(left <= 0) /\ ~ShortIO
        BY <3>1, <3>2, <4>3
      <4> QED
        BY <4>1, <4>2, <4>3
    <3> QED
      BY <2>2, <3>1, <3>3, CellFacts
  <2> QED
    BY <2>1, <2>2, <2>3 DEF KFile
<1>2. CASE r = Failure(k)
  BY <1>2 DEF Failure
<1> QED
  BY <1>1, <1>2 DEF SysRead

LEMMA SysLseekType ==
  ASSUME NEW k \in KFile, NEW offset \in Int, NEW whence \in Whence
  PROVE  LET l == SysLseek(k, offset, whence) IN
         /\ l.k \in KFile /\ l.k.data = k.data
         /\ \/ l.n \in Nat /\ l.k.off = l.n
            \/ l.n = -1 /\ l.k = k
<1> DEFINE base == CASE whence = "SEEK_SET" -> 0
                     [] whence = "SEEK_CUR" -> k.off
                     [] whence = "SEEK_END" -> Len(k.data)
<1>1. base \in Nat
  BY DEF Whence, KFile
<1> HIDE DEF base
<1>2. SysLseek(k, offset, whence) =
        IF base + offset < 0 THEN Failure(k)
        ELSE [n |-> base + offset, k |-> [k EXCEPT !.off = base + offset]]
  BY DEF SysLseek, base
<1> QED
  BY <1>1, <1>2 DEF KFile, Failure

-----------------------------------------------------------------------------
(* The calls: what every outcome o of a call on stream s and file k is.    *)

\* What a stream of each mode leaves of a file.
Kept(mode, k, l) ==
  /\ mode = "r" => l.data = k.data
  /\ mode \in {"a", "a+"} =>
       /\ Len(k.data) <= Len(l.data)
       /\ SubSeq(l.data, 1, Len(k.data)) = k.data

Sound(s, k, o) ==
  /\ o.s \in Stream /\ o.k \in KFile /\ o.ret \in Int
  /\ o.s.mode = s.mode /\ Kept(s.mode, k, o.k)

LEMMA KeptSame ==
  ASSUME NEW mode, NEW k \in KFile, NEW l, l.data = k.data
  PROVE  Kept(mode, k, l)
  BY DEF Kept, KFile

LEMMA SoundOutcome ==
  ASSUME NEW s, NEW k, NEW t \in Stream, NEW l \in KFile, NEW v \in Int,
         t.mode = s.mode, Kept(s.mode, k, l)
  PROVE  LET o == Outcome(t, l, v) IN Sound(s, k, o) /\ o.s = t /\ o.k = l /\ o.ret = v
  BY DEF Sound, Outcome

\* A call that only records an error or the end of the file.
LEMMA MarkedSound ==
  ASSUME NEW s \in Stream, NEW k \in KFile, NEW r \in Stream, NEW l \in KFile,
         r.mode = s.mode, Kept(s.mode, k, l)
  PROVE  /\ LET x == Outcome([r EXCEPT !.err = TRUE], l, SO_EOF) IN
            Sound(s, k, x) /\ x.k = l /\ x.ret = SO_EOF
         /\ LET x == Outcome([r EXCEPT !.eof = TRUE], l, SO_EOF) IN
            Sound(s, k, x) /\ x.k = l /\ x.ret = SO_EOF
<1> DEFINE t == [r EXCEPT !.err = TRUE]
           u == [r EXCEPT !.eof = TRUE]
<1>1. t \in Stream /\ t.mode = s.mode /\ u \in Stream /\ u.mode = s.mode
  BY DEF Stream
<1>2. SO_EOF \in Int
  BY DEF SO_EOF
<1> HIDE DEF t, u
<1>3. LET x == Outcome(t, l, SO_EOF) IN Sound(s, k, x) /\ x.k = l /\ x.ret = SO_EOF
  BY <1>1, <1>2, SoundOutcome
<1>4. LET x == Outcome(u, l, SO_EOF) IN Sound(s, k, x) /\ x.k = l /\ x.ret = SO_EOF
  BY <1>1, <1>2, SoundOutcome
<1> QED
  BY <1>3, <1>4 DEF t, u

\* Appending leaves the file before the end alone.
LEMMA SysWriteKeeps ==
  ASSUME NEW k \in KFile, NEW mode \in AllModes, NEW bytes \in Seq(Cell),
         NEW w \in SysWrite(k, mode, bytes)
  PROVE  Kept(mode, k, w.k)
<1>1. CASE w.k = k
  BY <1>1, KeptSame
<1>2. CASE mode \in {"a", "a+"} /\ w.k # k
  <2> DEFINE n == w.n
             b == SubSeq(bytes, 1, n)
             new == Overlay(k.data, Len(k.data), b)
  <2>1. w.k.data = new /\ n \in 0..Len(bytes)
    BY <1>2 DEF SysWrite, Failure, OpenFlags
  <2>2. k.data \in Seq(Cell) /\ b \in Seq(Cell) /\ Len(k.data) \in Nat
    BY <2>1 DEF KFile
  <2> HIDE DEF b
  <2>3. /\ new \in Seq(Cell) /\ Len(new) >= Len(k.data)
        /\ \A i \in 1..Len(k.data) : new[i] = k.data[i]
    <3>1. /\ new \in Seq(Cell)
          /\ Len(new) = OverlaidLen(k.data, Len(k.data), b)
          /\ \A i \in 1..Len(new) : new[i] = OverlaidCell(k.data, Len(k.data), b, i)
      <4>1. 0 \in Cell
        BY CellFacts
      <4> QED
        BY <2>2, <4>1, OverlaySeq
    <3> HIDE DEF new
    <3>2. Len(b) \in Nat
      BY <2>2
    <3>3. Len(new) >= Len(k.data)
      BY <2>2, <3>1, <3>2 DEF Larger, OverlaidLen
    <3> QED
      BY <2>2, <3>1, <3>2, <3>3 DEF OverlaidCell
  <2> HIDE DEF new
  <2>4. SubSeq(new, 1, Len(k.data)) = k.data
    <3>1. /\ SubSeq(new, 1, Len(k.data)) \in Seq(Cell)
          /\ Len(SubSeq(new, 1, Len(k.data))) = Len(k.data)
          /\ \A i \in 1..Len(k.data) : SubSeq(new, 1, Len(k.data))[i] = k.data[i]
      BY <2>2, <2>3
    <3> QED
      BY <2>2, <3>1, SeqEqual
  <2> QED
    BY <1>2, <2>1, <2>3, <2>4 DEF Kept
<1>3. CASE mode \notin {"a", "a+"} /\ w.k # k
  <2>1. OpenFlags(mode).write
    BY <1>3, SysWriteType
  <2>2. mode # "r"
    BY <2>1 DEF OpenFlags
  <2> QED
    BY <1>3, <2>2 DEF Kept
<1> QED
  BY <1>1, <1>2, <1>3

LEMMA StreamFields ==
  \A s \in Stream :
    /\ s.pos \in 0..BufSize /\ s.nrRead \in 0..BufSize /\ s.tell \in Int
    /\ s.buf \in [Index -> Cell]
  BY DEF Stream

LEMMA StreamModes ==
  \A s \in Stream : s.mode \in AllModes /\ s.lastOp \in {"", "read", "write"}
  BY DEF Stream

LEMMA PendingType ==
  ASSUME NEW s \in Stream
  PROVE  Pending(s) \in Seq(Cell) /\ Len(Pending(s)) = s.pos
<1>1. s.pos \in Nat /\ s.pos <= BufSize /\ s.buf \in [Index -> Cell]
  BY StreamFields, BufFacts
<1>2. Pending(s) \in [1..s.pos -> Cell]
  BY <1>1, BufFacts DEF Pending, Index
<1> QED
  BY <1>1, <1>2, SeqOfFunction

\* The assignments to the fields of a stream that the calls make.
LEMMA SetTell == \A s \in Stream, t \in Int : [s EXCEPT !.tell = t] \in Stream
  BY DEF Stream

LEMMA SetPosTell ==
  \A s \in Stream, p \in 0..BufSize, t \in Int : [s EXCEPT !.pos = p, !.tell = t] \in Stream
  BY DEF Stream

LEMMA SetPosBuf ==
  \A s \in Stream, p \in 0..BufSize, b \in [Index -> Cell] :
    [s EXCEPT !.pos = p, !.buf = b] \in Stream
  BY DEF Stream

LEMMA SetRead ==
  \A s \in Stream, p, n \in 0..BufSize, b \in [Index -> Cell] :
    [s EXCEPT !.lastOp = "read", !.pos = p, !.nrRead = n, !.buf = b] \in Stream
  BY DEF Stream

LEMMA SetWrite ==
  \A s \in Stream, p \in 0..BufSize, t \in Int, b \in [Index -> Cell] :
    [s EXCEPT !.buf = b, !.pos = p, !.tell = t, !.lastOp = "write"] \in Stream
  BY DEF Stream

LEMMA EmptiedType ==
  ASSUME NEW s \in Stream
  PROVE  LET b == [s.buf EXCEPT ![0] = 0] IN
         /\ b \in [Index -> Cell]
         /\ Emptied(s) = [s EXCEPT !.pos = 0, !.buf = b]
         /\ Emptied(s) \in Stream
<1> DEFINE b == [s.buf EXCEPT ![0] = 0]
<1>1. b \in [Index -> Cell]
  BY StreamFields, CellFacts
<1>2. Emptied(s) = [s EXCEPT !.pos = 0, !.buf = b]
  BY DEF Emptied
<1> HIDE DEF b
<1>3. [s EXCEPT !.pos = 0, !.buf = b] \in Stream
  BY <1>1, BufFacts, SetPosBuf
<1> QED
  BY <1>1, <1>2, <1>3 DEF b

LEMMA FflushSound ==
  ASSUME NEW s \in Stream, NEW k \in KFile, NEW o \in Fflush(s, k)
  PROVE  /\ Sound(s, k, o)
         /\ \/ o.ret = 0 /\ o.s = Emptied(s)
            \/ o.ret = SO_EOF /\ o.k = k
         /\ IsWriteOperation(s) /\ o.ret = SO_EOF => "write" \in Faults \/ ~CanWrite(s.mode)
<1>1. CASE ~IsWriteOperation(s)
  BY <1>1, KeptSame DEF Fflush, Sound, Outcome, SO_EOF
<1>2. CASE IsWriteOperation(s)
  <2>1. PICK w \in SysWrite(k, s.mode, Pending(s)) :
          o = IF w.n = -1 THEN Outcome([s EXCEPT !.err = TRUE], k, SO_EOF)
              ELSE Outcome(Emptied(s), w.k, 0)
    BY <1>2 DEF Fflush
  <2>2. s.mode \in AllModes /\ Pending(s) \in Seq(Cell)
    BY PendingType, StreamModes
  <2>3. w.k \in KFile /\ Kept(s.mode, k, w.k)
    BY <2>2, SysWriteType, SysWriteKeeps
  <2>4. CASE w.n = -1
    <3>1. "write" \in Faults \/ ~OpenFlags(s.mode).write
      BY <2>2, <2>4, SysWriteType
    <3>2. CanWrite(s.mode) => OpenFlags(s.mode).write
      BY DEF OpenFlags, CanWrite
    <3>3. o = Outcome([s EXCEPT !.err = TRUE], k, SO_EOF)
      BY <2>1, <2>4
    <3>4. Sound(s, k, o) /\ o.k = k /\ o.ret = SO_EOF
      BY <3>3, KeptSame, MarkedSound
    <3> QED
      BY <3>1, <3>2, <3>4
  <2>5. CASE w.n # -1
    <3>1. Emptied(s) \in Stream
      BY EmptiedType
    <3>2. Emptied(s).mode = s.mode
      BY DEF Stream, Emptied
    <3>3. LET x == Outcome(Emptied(s), w.k, 0) IN
          Sound(s, k, x) /\ x.ret = 0 /\ x.s = Emptied(s)
      BY <2>3, <3>1, <3>2, SoundOutcome
    <3>4. o = Outcome(Emptied(s), w.k, 0)
      BY <2>1, <2>5
    <3> QED
      BY <3>3, <3>4 DEF SO_EOF
  <2> QED
    BY <2>4, <2>5
<1> QED
  BY <1>1, <1>2

\* Taking a byte needs room in front of the position.
LEMMA TakeByteSound ==
  ASSUME NEW s \in Stream, NEW k \in KFile, s.pos < BufSize
  PROVE  Sound(s, k, TakeByte(s, k)) /\ TakeByte(s, k).k = k
<1>1. s.pos \in Index /\ s.pos + 1 \in 0..BufSize /\ s.tell + 1 \in Int
  BY StreamFields, BufFacts DEF Index
<1>2. SignedChar(s.buf[s.pos]) \in Int
  BY <1>1, StreamFields, CellFacts
<1>3. CASE s.pos = s.nrRead
  <2>1. TakeByte(s, k) = Outcome([s EXCEPT !.eof = TRUE], k, SO_EOF)
    BY <1>3 DEF TakeByte
  <2>2. Kept(s.mode, k, k)
    BY KeptSame
  <2>3. LET x == Outcome([s EXCEPT !.eof = TRUE], k, SO_EOF) IN Sound(s, k, x) /\ x.k = k
    BY <2>2, MarkedSound
  <2> QED
    BY <2>1, <2>3
<1>4. CASE s.pos # s.nrRead
  <2> DEFINE t == [s EXCEPT !.pos = s.pos + 1, !.tell = s.tell + 1]
  <2>1. t \in Stream
    BY <1>1, SetPosTell
  <2>2. t.mode = s.mode
    BY DEF Stream
  <2>3. TakeByte(s, k) = Outcome(t, k, SignedChar(s.buf[s.pos]))
    BY <1>4 DEF TakeByte
  <2> HIDE DEF t
  <2> QED
    <3>1. LET x == Outcome(t, k, SignedChar(s.buf[s.pos])) IN Sound(s, k, x) /\ x.k = k
      BY <1>2, <2>1, <2>2, KeptSame, SoundOutcome
    <3> QED
      BY <2>3, <3>1
<1> QED
  BY <1>3, <1>4

\* What is read ahead fits in the buffer.
LEMMA RefilledType ==
  ASSUME NEW s \in Stream, NEW k \in KFile, NEW n \in 1..BufSize,
         n <= k.off, k.off <= Len(k.data)
  PROVE  LET b == [i \in Index |-> IF i < n THEN k.data[k.off - n + i + 1] ELSE s.buf[i]] IN
         /\ b \in [Index -> Cell]
         /\ Refilled(s, k, n) = [s EXCEPT !.lastOp = "read", !.pos = 0, !.nrRead = n, !.buf = b]
         /\ Refilled(s, k, n) \in Stream
<1> DEFINE b == [i \in Index |-> IF i < n THEN k.data[k.off - n + i + 1] ELSE s.buf[i]]
<1>1. ASSUME NEW i \in Index PROVE b[i] \in Cell
  <2>1. k.data \in Seq(Cell) /\ k.off \in Nat /\ i \in Nat
    BY DEF KFile, Index
  <2>2. i < n => k.off - n + i + 1 \in 1..Len(k.data)
    BY <2>1, BufFacts
  <2>3. i < n => k.data[k.off - n + i + 1] \in Cell
    BY <2>1, <2>2, ElementOfSeq
  <2> QED
    BY <2>3, StreamFields
<1>2. b \in [Index -> Cell]
  BY <1>1
<1>3. Refilled(s, k, n) = [s EXCEPT !.lastOp = "read", !.pos = 0, !.nrRead = n, !.buf = b]
  BY DEF Refilled
<1> HIDE DEF b
<1>4. n \in 0..BufSize
  BY BufFacts
<1>5. [s EXCEPT !.lastOp = "read", !.pos = 0, !.nrRead = n, !.buf = b] \in Stream
  BY <1>2, <1>4, BufFacts, SetRead
<1> QED
  BY <1>2, <1>3, <1>5 DEF b

LEMMA FgetcSound ==
  ASSUME NEW s \in Stream, NEW k \in KFile, NEW o \in Fgetc(s, k)
  PROVE  Sound(s, k, o) /\ o.k.data = k.data
<1>1. CASE ~CanRead(s.mode)
  <2>1. o = Outcome([s EXCEPT !.err = TRUE], k, SO_EOF)
    BY <1>1 DEF Fgetc
  <2> QED
    BY <2>1, KeptSame, MarkedSound
<1>2. CASE CanRead(s.mode) /\ ~NeedsRefill(s)
  <2>1. s.pos < BufSize
    BY <1>2, StreamFields, BufFacts DEF NeedsRefill
  <2>2. o = TakeByte(s, k)
    BY <1>2 DEF Fgetc
  <2> QED
    BY <2>1, <2>2, TakeByteSound
<1>3. CASE CanRead(s.mode) /\ NeedsRefill(s)
  <2>1. PICK r \in SysRead(k, s.mode) :
          o = CASE r.n = 0  -> Outcome([s EXCEPT !.eof = TRUE], r.k, SO_EOF)
                [] r.n = -1 -> Outcome([s EXCEPT !.err = TRUE], r.k, SO_EOF)
                [] r.n > 0  -> TakeByte(Refilled(s, r.k, r.n), r.k)
    BY <1>3 DEF Fgetc
  <2>2. r.k \in KFile /\ r.k.data = k.data /\ Kept(s.mode, k, r.k)
    BY SysReadType, KeptSame
  <2>3. CASE r.n = 0 \/ r.n = -1
    <3>1. \/ o = Outcome([s EXCEPT !.eof = TRUE], r.k, SO_EOF)
          \/ o = Outcome([s EXCEPT !.err = TRUE], r.k, SO_EOF)
      BY <2>1, <2>3
    <3> QED
      BY <2>2, <3>1, MarkedSound
  <2>4. CASE r.n # 0 /\ r.n # -1
    <3> DEFINE t == Refilled(s, r.k, r.n)
    <3>1. r.n \in 1..BufSize /\ r.n <= r.k.off /\ r.k.off <= Len(r.k.data)
      <4>1. k.off \in Nat
        BY DEF KFile
      <4> QED
        BY <2>4, <4>1, SysReadType, BufFacts
    <3>2. t \in Stream
      BY <2>2, <3>1, RefilledType
    <3>3. t.pos = 0 /\ t.mode = s.mode
      BY DEF Refilled, Stream
    <3>4. o = TakeByte(t, r.k)
      BY <2>1, <3>1
    <3> HIDE DEF t
    <3>5. Sound(t, r.k, TakeByte(t, r.k)) /\ TakeByte(t, r.k).k = r.k
      BY <2>2, <3>2, <3>3, BufFacts, TakeByteSound
    <3> QED
      BY <2>2, <3>3, <3>4, <3>5 DEF Sound
  <2> QED
    BY <2>3, <2>4
<1> QED
  BY <1>1, <1>2, <1>3

\* Putting a byte needs room at the position.
LEMMA PutByteSound ==
  ASSUME NEW s \in Stream, NEW k \in KFile, NEW c \in Byte, s.pos < BufSize
  PROVE  Sound(s, k, PutByte(s, k, c)) /\ PutByte(s, k, c).k = k
<1> DEFINE b == [s.buf EXCEPT ![s.pos] = c]
           t == [s EXCEPT !.buf = b, !.pos = s.pos + 1, !.tell = s.tell + 1, !.lastOp = "write"]
<1>1. s.pos \in Index /\ s.pos + 1 \in 0..BufSize /\ s.tell + 1 \in Int
  BY StreamFields, BufFacts DEF Index
<1>2. c \in Cell /\ c \in Int
  BY CellFacts
<1>3. b \in [Index -> Cell]
  BY <1>1, <1>2, StreamFields
<1>4. PutByte(s, k, c) = Outcome(t, k, c)
  BY DEF PutByte
<1>5. t.mode = s.mode
  BY DEF Stream
<1> HIDE DEF b
<1>6. t \in Stream
  BY <1>1, <1>3, SetWrite
<1> HIDE DEF t
<1>7. LET x == Outcome(t, k, c) IN Sound(s, k, x) /\ x.k = k
  <2>1. Kept(s.mode, k, k)
    BY KeptSame
  <2> QED
    BY <1>2, <1>5, <1>6, <2>1, SoundOutcome
<1> QED
  BY <1>4, <1>7

LEMMA FputcSound ==
  ASSUME NEW s \in Stream, NEW k \in KFile, NEW c \in Byte, NEW o \in Fputc(s, k, c)
  PROVE  Sound(s, k, o)
<1>1. CASE ~CanWrite(s.mode)
  <2>1. o = Outcome([s EXCEPT !.err = TRUE], k, SO_EOF)
    BY <1>1 DEF Fputc
  <2> QED
    BY <2>1, KeptSame, MarkedSound
<1>2. CASE CanWrite(s.mode) /\ s.pos < BufSize
  <2>1. o = PutByte(s, k, c)
    BY <1>2 DEF Fputc
  <2> QED
    BY <1>2, <2>1, PutByteSound
<1>3. CASE CanWrite(s.mode) /\ ~(s.pos < BufSize)
  <2>1. PICK f \in Fflush(s, k) :
          o = IF f.ret = SO_EOF THEN Outcome([f.s EXCEPT !.err = TRUE], f.k, SO_EOF)
              ELSE PutByte(f.s, f.k, c)
    BY <1>3 DEF Fputc
  <2>2. f.s \in Stream /\ f.k \in KFile /\ f.s.mode = s.mode /\ Kept(s.mode, k, f.k)
    BY FflushSound DEF Sound
  <2>3. CASE f.ret = SO_EOF
    <3>1. o = Outcome([f.s EXCEPT !.err = TRUE], f.k, SO_EOF)
      BY <2>1, <2>3
    <3> QED
      BY <2>2, <3>1, MarkedSound
  <2>4. CASE f.ret # SO_EOF
    <3>1. f.s = Emptied(s)
      BY <2>4, FflushSound
    <3>2. f.s.pos = 0
      BY <3>1 DEF Emptied, Stream
    <3>3. o = PutByte(f.s, f.k, c)
      BY <2>1, <2>4
    <3>4. Sound(f.s, f.k, PutByte(f.s, f.k, c)) /\ PutByte(f.s, f.k, c).k = f.k
      BY <2>2, <3>2, BufFacts, PutByteSound
    <3> QED
      BY <2>2, <3>3, <3>4 DEF Sound
  <2> QED
    BY <2>3, <2>4
<1> QED
  BY <1>1, <1>2, <1>3

LEMMA FseekSound ==
  ASSUME NEW s \in Stream, NEW k \in KFile, NEW offset \in Int, NEW whence \in Whence,
         NEW o \in Fseek(s, k, offset, whence)
  PROVE  Sound(s, k, o)
<1>1. PICK b \in BeforeSeek(s, k) :
        o = LET l == SysLseek(b.k, offset, whence) IN
            IF b.ret = SO_EOF \/ l.n < 0 THEN Outcome(b.s, b.k, SO_EOF)
            ELSE Outcome([b.s EXCEPT !.tell = l.n], l.k, 0)
  BY DEF Fseek
<1>2. Sound(s, k, b)
  <2>1. CASE b \in Fflush(s, k)
    BY <2>1, FflushSound
  <2>2. CASE b = Outcome(s, k, 0)
    BY <2>2, KeptSame, SoundOutcome
  <2>3. CASE b = Outcome(Emptied(s), k, 0)
    <3>1. Emptied(s) \in Stream /\ Kept(s.mode, k, k)
      BY EmptiedType, KeptSame
    <3>2. Emptied(s).mode = s.mode
      BY DEF Emptied, Stream
    <3>3. Sound(s, k, Outcome(Emptied(s), k, 0))
      BY <3>1, <3>2, SoundOutcome
    <3> QED
      BY <2>3, <3>3
  <2> QED
    BY <2>1, <2>2, <2>3 DEF BeforeSeek
<1> DEFINE l == SysLseek(b.k, offset, whence)
           t == [b.s EXCEPT !.tell = l.n]
<1>3. b.s \in Stream /\ b.k \in KFile /\ b.s.mode = s.mode /\ Kept(s.mode, k, b.k)
  BY <1>2 DEF Sound
<1>4. l.k \in KFile /\ l.k.data = b.k.data /\ (l.n \in Nat \/ l.n = -1)
  BY <1>3, SysLseekType
<1> HIDE DEF l
<1>5. Kept(s.mode, k, l.k)
  BY <1>3, <1>4 DEF Kept
<1>6. t \in Stream
  BY <1>3, <1>4, SetTell
<1>7. t.mode = s.mode
  BY <1>3 DEF Stream
<1> HIDE DEF t
<1>8. Sound(s, k, Outcome(b.s, b.k, SO_EOF))
  BY <1>3, SoundOutcome DEF SO_EOF
<1>9. Sound(s, k, Outcome(t, l.k, 0))
  BY <1>4, <1>5, <1>6, <1>7, SoundOutcome
<1> QED
  BY <1>1, <1>8, <1>9 DEF l, t

LEMMA BeforeCloseSound ==
  ASSUME NEW s \in Stream, NEW k \in KFile, NEW o \in BeforeClose(s, k)
  PROVE  /\ Sound(s, k, o)
         /\ o.ret = SO_EOF => IsWriteOperation(s) /\ ("write" \in Faults \/ s.mode = "r")
<1>1. CASE IsWriteOperation(s)
  <2>1. o \in Fflush(s, k)
    BY <1>1 DEF BeforeClose
  <2>2. Sound(s, k, o) /\ (o.ret = SO_EOF => "write" \in Faults \/ ~CanWrite(s.mode))
    BY <1>1, <2>1, FflushSound DEF SO_EOF
  <2>3. ~CanWrite(s.mode) => s.mode = "r"
    BY StreamModes DEF CanWrite, AllModes
  <2> QED
    BY <1>1, <2>2, <2>3
<1>2. CASE ~IsWriteOperation(s)
  <2>1. o = Outcome(s, k, 0)
    BY <1>2 DEF BeforeClose
  <2>2. Kept(s.mode, k, k)
    BY KeptSame
  <2>3. LET x == Outcome(s, k, 0) IN Sound(s, k, x) /\ x.ret = 0
    BY <2>2, SoundOutcome
  <2> QED
    BY <2>1, <2>3 DEF SO_EOF
<1> QED
  BY <1>1, <1>2

-----------------------------------------------------------------------------
(* The type invariant.  It needs to know that a so_fread that goes on has  *)
(* items of a size other than 0, which is what it divides by.              *)

DividesByItems == call.op = "so_fread" /\ call.size = 0 => status = "crashed"

IInv == TypeOK /\ DividesByItems

LEMMA FreshStream ==
  \A mode \in AllModes, p, n \in 0..BufSize, t \in Int, b \in [Index -> Cell] :
    [mode |-> mode, eof |-> FALSE, err |-> FALSE, lastOp |-> "", pos |-> p, tell |-> t,
     nrRead |-> n, buf |-> b] \in Stream
  BY DEF Stream

LEMMA NewStreamType ==
  ASSUME NEW mode \in AllModes
  PROVE  NewStream(mode) \in Stream
<1> DEFINE b == [i \in Index |-> IF i = 0 THEN 0 ELSE Junk]
<1>1. b \in [Index -> Cell] /\ 0 \in 0..BufSize /\ 0 \in Int
  BY CellFacts, BufFacts
<1>2. NewStream(mode) = [mode |-> mode, eof |-> FALSE, err |-> FALSE, lastOp |-> "", pos |-> 0,
                         tell |-> 0, nrRead |-> 0, buf |-> b]
  BY DEF NewStream
<1> HIDE DEF b
<1>3. [mode |-> mode, eof |-> FALSE, err |-> FALSE, lastOp |-> "", pos |-> 0,
       tell |-> 0, nrRead |-> 0, buf |-> b] \in Stream
  BY <1>1, FreshStream
<1> QED
  BY <1>2, <1>3

LEMMA InitInv == Init => IInv
<1> SUFFICES ASSUME Init PROVE IInv
  OBVIOUS
<1>1. stream \in Stream
  BY NewStreamType DEF Init, AllModes
<1>2. kfile \in KFile
  <2>1. InitialFile \in Seq(Cell)
    BY StdioAssumption DEF Cell
  <2> QED
    BY <2>1 DEF Init, KFile
<1> QED
  BY <1>1, <1>2 DEF Init, IInv, TypeOK, DividesByItems, NoCall

Calls == [op: {"none", "so_fread", "so_fwrite"}, size: Nat, nmemb: Nat, done: Nat]

Returned == {"none", "so_fopen", "so_fclose", "so_fgetc", "so_fputc", "so_fflush",
             "so_fseek", "so_fread", "so_fwrite"} \X Int

\* The calls that end in one step.
LEMMA ReturnsInv ==
  ASSUME IInv, NEW name \in {"so_fgetc", "so_fputc", "so_fflush", "so_fseek"},
         NEW o, Sound(stream, kfile, o), Returns(name, o)
  PROVE  IInv'
<1>1. <<name, o.ret>> \in Returned
  BY DEF Sound, Returned
<1>2. stream' \in Stream /\ kfile' \in KFile /\ ret' \in Returned
  BY <1>1 DEF Sound, Returns
<1>3. UNCHANGED <<status, call>>
  BY DEF Returns
<1> QED
  BY <1>2, <1>3 DEF IInv, TypeOK, DividesByItems, Returned

LEMMA SoFopenInv ==
  ASSUME IInv, NEW mode \in Modes, SoFopen(mode)
  PROVE  IInv'
<1>1. call' = call /\ DividesByItems'
  BY DEF SoFopen, IInv, DividesByItems
<1>2. status' \in {"none", "open", "closed", "crashed"}
  BY DEF SoFopen, IInv, TypeOK
<1>3. kfile' \in KFile
  <2>1. kfile \in KFile
    BY DEF IInv, TypeOK
  <2>2. Opened(mode) \in KFile
    BY <2>1 DEF Opened, KFile
  <2> QED
    BY <2>1, <2>2 DEF SoFopen
<1>4. stream' \in Stream
  BY NewStreamType DEF SoFopen, IInv, TypeOK
<1>5. ret' \in Returned
  <2>1. ret' \in {<<"so_fopen", 0>>, <<"so_fopen", 1>>, ret}
    BY DEF SoFopen
  <2> QED
    BY <2>1 DEF IInv, TypeOK, Returned
<1> QED
  BY <1>1, <1>2, <1>3, <1>4, <1>5 DEF IInv, TypeOK, Returned

LEMMA SoFcloseInv ==
  ASSUME IInv, SoFclose
  PROVE  IInv'
<1>1. PICK o \in BeforeClose(stream, kfile) : stream' = o.s /\ kfile' = o.k
  BY DEF SoFclose
<1>2. stream' \in Stream /\ kfile' \in KFile
  BY <1>1, BeforeCloseSound DEF Sound, IInv, TypeOK
<1>3. call' = call /\ call = NoCall /\ status' \in {"closed", "crashed"}
      /\ ret' \in {<<"so_fclose", 0>>, ret}
  BY DEF SoFclose, Idle
<1> QED
  BY <1>2, <1>3 DEF IInv, TypeOK, DividesByItems, NoCall

LEMMA BeginInv ==
  ASSUME IInv, NEW size \in Sizes, NEW nmemb \in 0..MaxItems,
         SoFreadBegin(size, nmemb) \/ SoFwriteBegin(size, nmemb)
  PROVE  IInv'
<1>1. size \in Nat /\ nmemb \in Nat
  BY StdioAssumption
<1>2. stream' \in Stream
  <2>1. stream \in Stream
    BY DEF IInv, TypeOK
  <2>2. [stream EXCEPT !.nrRead = 0] \in Stream
    BY <2>1, BufFacts DEF Stream
  <2> QED
    BY <2>1, <2>2 DEF SoFreadBegin, SoFwriteBegin
<1>3. \E op \in {"so_fread", "so_fwrite"} :
        /\ call' = [op |-> op, size |-> size, nmemb |-> nmemb, done |-> 0]
        /\ op = "so_fread" => status' = IF size = 0 THEN "crashed" ELSE status
        /\ op = "so_fwrite" => status' = status
  BY DEF SoFreadBegin, SoFwriteBegin
<1>4. kfile' = kfile /\ ret' = ret
  BY DEF SoFreadBegin, SoFwriteBegin
<1> QED
  BY <1>1, <1>2, <1>3, <1>4 DEF IInv, TypeOK, DividesByItems

\* A step of the loop of so_fread or so_fwrite, which goes on or finishes.
LEMMA LoopInv ==
  ASSUME IInv, NEW s \in Stream, kfile' \in KFile, status' = status, status # "crashed",
         NEW op \in {"so_fread", "so_fwrite"}, NEW lastOp \in {"read", "write"}, NEW v \in Int,
         \/ Finish(s, lastOp, op, v)
         \/ stream' = s /\ call' = [call EXCEPT !.done = @ + 1] /\ UNCHANGED ret
  PROVE  IInv'
<1>1. CASE Finish(s, lastOp, op, v)
  <2>1. [s EXCEPT !.lastOp = lastOp] \in Stream
    BY DEF Stream
  <2>2. <<op, v>> \in Returned
    BY DEF Returned
  <2> QED
    BY <1>1, <2>1, <2>2 DEF Finish, IInv, TypeOK, DividesByItems, NoCall, Returned
<1>2. CASE stream' = s /\ call' = [call EXCEPT !.done = @ + 1] /\ UNCHANGED ret
  <2>1. call \in Calls
    BY DEF IInv, TypeOK, Calls
  <2>2. call' \in Calls /\ call'.op = call.op /\ call'.size = call.size
    BY <1>2, <2>1 DEF Calls
  <2> QED
    BY <1>2, <2>2 DEF IInv, TypeOK, DividesByItems, Calls
<1> QED
  BY <1>1, <1>2

LEMMA SoFreadStepInv ==
  ASSUME IInv, SoFreadStep
  PROVE  IInv'
<1>1. /\ stream \in Stream /\ kfile \in KFile /\ call \in Calls
      /\ status = "open" /\ status' = status /\ call.op = "so_fread" /\ call.size # 0
  BY DEF IInv, TypeOK, DividesByItems, SoFreadStep, Running, Calls
<1>2. call.nmemb \in Int /\ call.done \div call.size \in Int
  BY <1>1 DEF Calls
<1>3. CASE call.done = Total
  <2>1. Finish(stream, "read", "so_fread", call.nmemb) /\ kfile' \in KFile
    BY <1>1, <1>3 DEF SoFreadStep
  <2> QED
    BY <1>1, <1>2, <2>1, LoopInv
<1>4. CASE call.done # Total
  <2>1. PICK o \in Fgetc(stream, kfile) :
          /\ kfile' = o.k
          /\ \/ Finish(o.s, "read", "so_fread", call.done \div call.size)
             \/ stream' = o.s /\ call' = [call EXCEPT !.done = @ + 1] /\ UNCHANGED ret
    BY <1>4 DEF SoFreadStep
  <2>2. o.s \in Stream /\ kfile' \in KFile
    BY <1>1, <2>1, FgetcSound DEF Sound
  <2> QED
    BY <1>1, <1>2, <2>1, <2>2, LoopInv
<1> QED
  BY <1>3, <1>4

LEMMA SoFwriteStepInv ==
  ASSUME IInv, NEW c \in Byte, SoFwriteStep(c)
  PROVE  IInv'
<1>1. /\ stream \in Stream /\ kfile \in KFile /\ call \in Calls
      /\ status = "open" /\ status' = status
  BY DEF IInv, TypeOK, SoFwriteStep, Running, Calls
<1>2. call.nmemb \in Int
  BY <1>1 DEF Calls
<1>3. CASE call.done = Total
  <2>1. Finish(stream, "write", "so_fwrite", call.nmemb) /\ kfile' \in KFile
    BY <1>1, <1>3 DEF SoFwriteStep
  <2> QED
    BY <1>1, <1>2, <2>1, LoopInv
<1>4. CASE call.done # Total
  <2>1. PICK o \in Fputc(stream, kfile, c) :
          /\ kfile' = o.k
          /\ \/ Finish(o.s, "write", "so_fwrite", call.nmemb)
             \/ stream' = o.s /\ call' = [call EXCEPT !.done = @ + 1] /\ UNCHANGED ret
    BY <1>4 DEF SoFwriteStep
  <2>2. o.s \in Stream /\ kfile' \in KFile
    BY <1>1, <2>1, FputcSound DEF Sound
  <2> QED
    BY <1>1, <1>2, <2>1, <2>2, LoopInv
<1> QED
  BY <1>3, <1>4

LEMMA NextInv ==
  ASSUME IInv, [Next]_vars
  PROVE  IInv'
<1>1. stream \in Stream /\ kfile \in KFile
  BY DEF IInv, TypeOK
<1>2. ASSUME NEW mode \in Modes, SoFopen(mode) PROVE IInv'
  BY <1>2, SoFopenInv
<1>3. CASE SoFgetc
  BY <1>1, <1>3, FgetcSound, ReturnsInv DEF SoFgetc
<1>4. ASSUME NEW c \in Byte, SoFputc(c) PROVE IInv'
  BY <1>1, <1>4, FputcSound, ReturnsInv DEF SoFputc
<1>5. CASE SoFflush
  BY <1>1, <1>5, FflushSound, ReturnsInv DEF SoFflush
<1>6. ASSUME NEW offset \in SeekOffsets, NEW whence \in Whence, SoFseek(offset, whence)
      PROVE  IInv'
  <2>1. offset \in Int
    BY StdioAssumption
  <2> QED
    BY <1>1, <1>6, <2>1, FseekSound, ReturnsInv DEF SoFseek
<1>7. CASE SoFclose
  BY <1>7, SoFcloseInv
<1>8. ASSUME NEW size \in Sizes, NEW nmemb \in 0..MaxItems,
             SoFreadBegin(size, nmemb) \/ SoFwriteBegin(size, nmemb)
      PROVE  IInv'
  BY <1>8, BeginInv
<1>9. CASE SoFreadStep
  BY <1>9, SoFreadStepInv
<1>10. ASSUME NEW c \in Byte, SoFwriteStep(c) PROVE IInv'
  BY <1>10, SoFwriteStepInv
<1>11. CASE UNCHANGED vars
  BY <1>11 DEF vars, IInv, TypeOK, DividesByItems
<1> QED
  BY <1>2, <1>3, <1>4, <1>5, <1>6, <1>7, <1>8, <1>9, <1>10, <1>11 DEF Next

\* Every field stays in its range, whatever the order of the calls and the
\* outcomes of the system calls; above all no call of so_stdio.c indexes
\* _buffer outside 0..BUFFER_SIZE - 1.
THEOREM TypeCorrect == Spec => []TypeOK
<1>1. Init => IInv
  BY InitInv
<1>2. IInv /\ [Next]_vars => IInv'
  BY NextInv
<1>3. IInv => TypeOK
  BY DEF IInv
<1> QED
  BY <1>1, <1>2, <1>3, PTL DEF Spec

-----------------------------------------------------------------------------
(* What the steps may do.                                                  *)

\* Of a file, a step on a stream leaves what the stream's mode promises.
LEMMA NextKeeps ==
  ASSUME IInv, Next, status = "open"
  PROVE  Kept(stream.mode, kfile, kfile')
<1>1. stream \in Stream /\ kfile \in KFile /\ Kept(stream.mode, kfile, kfile)
  BY KeptSame DEF IInv, TypeOK
<1>2. ASSUME NEW mode \in Modes, SoFopen(mode) PROVE FALSE
  BY <1>2 DEF SoFopen
<1>3. CASE SoFgetc
  BY <1>1, <1>3, FgetcSound DEF SoFgetc, Returns, Sound
<1>4. ASSUME NEW c \in Byte, SoFputc(c) PROVE Kept(stream.mode, kfile, kfile')
  BY <1>1, <1>4, FputcSound DEF SoFputc, Returns, Sound
<1>5. CASE SoFflush
  BY <1>1, <1>5, FflushSound DEF SoFflush, Returns, Sound
<1>6. ASSUME NEW offset \in SeekOffsets, NEW whence \in Whence, SoFseek(offset, whence)
      PROVE  Kept(stream.mode, kfile, kfile')
  <2>1. offset \in Int
    BY StdioAssumption
  <2> QED
    BY <1>1, <1>6, <2>1, FseekSound DEF SoFseek, Returns, Sound
<1>7. CASE SoFclose
  BY <1>1, <1>7, BeforeCloseSound DEF SoFclose, Sound
<1>8. ASSUME NEW size \in Sizes, NEW nmemb \in 0..MaxItems,
             SoFreadBegin(size, nmemb) \/ SoFwriteBegin(size, nmemb)
      PROVE  Kept(stream.mode, kfile, kfile')
  BY <1>1, <1>8 DEF SoFreadBegin, SoFwriteBegin
<1>9. CASE SoFreadStep
  BY <1>1, <1>9, FgetcSound DEF SoFreadStep, Sound
<1>10. ASSUME NEW c \in Byte, SoFwriteStep(c) PROVE Kept(stream.mode, kfile, kfile')
  BY <1>1, <1>10, FputcSound DEF SoFwriteStep, Sound
<1> QED
  BY <1>2, <1>3, <1>4, <1>5, <1>6, <1>7, <1>8, <1>9, <1>10 DEF Next

\* What a file held when a stream of mode "r" was opened on it stays, and a
\* stream of mode "a" or "a+" only adds to its end, for files of any length
\* and writes and reads of any outcome.
THEOREM AppendOnly == Spec => FilePreserved
<1> DEFINE A == status = "open" =>
                  /\ stream.mode = "r" => kfile'.data = kfile.data
                  /\ stream.mode \in {"a", "a+"} =>
                       /\ Len(kfile.data) <= Len(kfile'.data)
                       /\ SubSeq(kfile'.data, 1, Len(kfile.data)) = kfile.data
<1>1. Init => IInv
  BY InitInv
<1>2. IInv /\ [Next]_vars => IInv'
  BY NextInv
<1>3. IInv /\ [Next]_vars => [A]_vars
  BY NextKeeps DEF Kept
<1> QED
  BY <1>1, <1>2, <1>3, PTL DEF Spec, FilePreserved

\* The only calls that end the process are those CrashOnlyOnMisuse names.
LEMMA NextCrashes ==
  ASSUME IInv, Next, status = "open", status' = "crashed"
  PROVE  \/ call'.op = "so_fread" /\ call'.size = 0
         \/ "close" \in Faults
         \/ IsWriteOperation(stream) /\ ("write" \in Faults \/ stream.mode = "r")
<1>1. CASE SoFclose
  <2>1. stream \in Stream /\ kfile \in KFile
    BY DEF IInv, TypeOK
  <2>2. PICK o \in BeforeClose(stream, kfile) : o.ret = SO_EOF \/ "close" \in Faults
    BY <1>1 DEF SoFclose
  <2> QED
    BY <2>1, <2>2, BeforeCloseSound
<1>2. CASE \E size \in Sizes, nmemb \in 0..MaxItems : SoFreadBegin(size, nmemb)
  BY <1>2 DEF SoFreadBegin
<1>3. CASE \/ \E mode \in Modes : SoFopen(mode)
           \/ SoFgetc \/ SoFflush \/ SoFreadStep
           \/ \E c \in Byte : SoFputc(c) \/ SoFwriteStep(c)
           \/ \E offset \in SeekOffsets, whence \in Whence : SoFseek(offset, whence)
           \/ \E size \in Sizes, nmemb \in 0..MaxItems : SoFwriteBegin(size, nmemb)
  BY <1>3 DEF SoFopen, SoFgetc, SoFflush, SoFputc, SoFseek, Returns, SoFreadStep,
              SoFwriteStep, SoFwriteBegin
<1> QED
  BY <1>1, <1>2, <1>3 DEF Next

\* so_stdio.c ends the process in so_fread of items of size 0, and in
\* so_fclose when close fails or when pending bytes cannot be written; in no
\* other state and by no other call.
THEOREM CrashesOnlyOnMisuse == Spec => CrashOnlyOnMisuse
<1> DEFINE A == status = "open" /\ status' = "crashed" =>
                  \/ call'.op = "so_fread" /\ call'.size = 0
                  \/ "close" \in Faults
                  \/ IsWriteOperation(stream) /\ ("write" \in Faults \/ stream.mode = "r")
<1>1. Init => IInv
  BY InitInv
<1>2. IInv /\ [Next]_vars => IInv'
  BY NextInv
<1>3. IInv /\ [Next]_vars => [A]_vars
  BY NextCrashes
<1> QED
  BY <1>1, <1>2, <1>3, PTL DEF Spec, CrashOnlyOnMisuse

-----------------------------------------------------------------------------
(* A caller that keeps the rules.                                          *)

Supported == ~ShortIO /\ Modes \cap {"a", "a+"} = {}

-----------------------------------------------------------------------------
(* The invariant of a stream s on a file k whose caller did d.             *)

Dirs == {"none", "read", "write", "lost"}

\* The bytes that are in the buffer only, and the file with them in it.
Buffered(s) == IF IsWriteOperation(s) THEN Pending(s) ELSE <<>>
FileOf(s, k) == Overlay(k.data, k.off, Buffered(s))

\* Bytes are buffered in one direction at a time, that of the caller.
OneDirection(s, d) ==
  /\ s.lastOp = "" \/ d = "none" => s.pos = 0
  /\ d = "read" => s.pos = 0 \/ s.lastOp = "read"
  /\ d = "write" => s.pos = 0 \/ s.lastOp = "write"

\* What was read ahead is what lies before the offset, and less than a full
\* buffer of it only at the end of the file.
Ahead(s, k) ==
  s.lastOp = "read" /\ s.pos > 0 =>
    /\ s.pos <= s.nrRead /\ s.nrRead <= k.off /\ k.off <= Len(k.data)
    /\ s.nrRead < BufSize => k.off = Len(k.data)
    /\ \A i \in s.pos..(s.nrRead - 1) : s.buf[i] = k.data[k.off - s.nrRead + i + 1]

TellOf(s, k) ==
  k.off + (IF IsWriteOperation(s) THEN s.pos ELSE IF s.pos = 0 THEN 0 ELSE s.pos - s.nrRead)

Settled(s, k, d) ==
  /\ s.mode \notin {"a", "a+"}
  /\ OneDirection(s, d)
  /\ Ahead(s, k)
  /\ d # "lost" => s.tell = TellOf(s, k)

CInv ==
  /\ dir \in Dirs
  /\ status \in {"none", "closed"} => call.op = "none"
  /\ status = "open" =>
       /\ Settled(stream, kfile, dir)
       /\ call.op = "so_fread" => dir = "read"
       /\ call.op = "so_fwrite" => dir = "write"

-----------------------------------------------------------------------------
(* Files.                                                                  *)

LEMMA EmptyOverlay ==
  ASSUME NEW data \in Seq(Cell), NEW at \in Nat
  PROVE  Overlay(data, at, <<>>) = data
<1> DEFINE none == <<>>
<1>1. none \in Seq(Cell) /\ 0 \in Cell
  BY CellFacts
<1>2. none = <<>> /\ Len(none) = 0
  OBVIOUS
<1> HIDE DEF none
<1>3. /\ Overlay(data, at, none) \in Seq(Cell)
      /\ Len(Overlay(data, at, none)) = OverlaidLen(data, at, none)
      /\ \A i \in 1..OverlaidLen(data, at, none) :
           Overlay(data, at, none)[i] = OverlaidCell(data, at, none, i)
  BY <1>1, OverlaySeq
<1>4. OverlaidLen(data, at, none) = Len(data)
  BY <1>2 DEF OverlaidLen
<1>5. \A i \in 1..Len(data) : OverlaidCell(data, at, none, i) = data[i]
  BY <1>2 DEF OverlaidCell
<1>6. Overlay(data, at, none) = data
  BY <1>3, <1>4, <1>5, SeqEqual
<1> QED
  BY <1>6, <1>2

\* The file f after byte c is put at position p.
PutAt(f, p, c) ==
  [i \in 1..(IF p < Len(f) THEN Len(f) ELSE p + 1) |->
     IF i = p + 1 THEN c ELSE IF i <= Len(f) THEN f[i] ELSE 0]

\* Writing one more byte of a buffer puts that byte behind the others.
LEMMA OneMoreByte ==
  ASSUME NEW data \in Seq(Cell), NEW at \in Nat, NEW b \in Seq(Cell), NEW e \in Seq(Cell),
         NEW c \in Cell, Len(e) = Len(b) + 1, e[Len(e)] = c,
         \A i \in 1..Len(b) : e[i] = b[i]
  PROVE  Overlay(data, at, e) = PutAt(Overlay(data, at, b), at + Len(b), c)
<1> DEFINE f == Overlay(data, at, b)
           g == Overlay(data, at, e)
           p == at + Len(b)
           n == IF p < Len(f) THEN Len(f) ELSE p + 1
<1>1. 0 \in Cell /\ Len(b) \in Nat /\ Len(data) \in Nat /\ p \in Nat /\ e # <<>>
  BY CellFacts
<1>2. /\ f \in Seq(Cell) /\ Len(f) = OverlaidLen(data, at, b)
      /\ \A i \in 1..OverlaidLen(data, at, b) : f[i] = OverlaidCell(data, at, b, i)
  BY <1>1, OverlaySeq
<1>3. /\ Len(g) = OverlaidLen(data, at, e)
      /\ \A i \in 1..OverlaidLen(data, at, e) : g[i] = OverlaidCell(data, at, e, i)
  BY <1>1, OverlaySeq
<1>4. g = [i \in 1..OverlaidLen(data, at, e) |-> OverlaidCell(data, at, e, i)]
  BY DEF Overlay, OverlaidLen, OverlaidCell
<1> HIDE DEF f, g
<1>5. b = <<>> <=> Len(b) = 0
  BY EmptySeq
<1>6. OverlaidLen(data, at, e) = n
  BY <1>1, <1>2, <1>5 DEF OverlaidLen, Larger
<1>7. ASSUME NEW i \in 1..n
      PROVE  OverlaidCell(data, at, e, i) =
               IF i = p + 1 THEN c ELSE IF i <= Len(f) THEN f[i] ELSE 0
  <2>1. i \in Nat /\ i > 0
    BY <1>1, <1>2
  <2>2. CASE i = p + 1
    <3>1. i - at = Len(e) /\ i \in (at + 1)..(at + Len(e))
      BY <1>1, <2>2
    <3> QED
      BY <2>2, <3>1 DEF OverlaidCell
  <2>3. CASE i # p + 1 /\ i \in (at + 1)..(at + Len(e))
    <3>1. i \in (at + 1)..(at + Len(b)) /\ i - at \in 1..Len(b)
      BY <1>1, <2>1, <2>3
    <3>2. i <= Len(f) /\ i \in 1..OverlaidLen(data, at, b)
      BY <1>1, <1>2, <1>5, <2>1, <3>1 DEF OverlaidLen, Larger
    <3>3. f[i] = b[i - at]
      BY <1>2, <3>1, <3>2 DEF OverlaidCell
    <3>4. OverlaidCell(data, at, e, i) = e[i - at]
      BY <2>3 DEF OverlaidCell
    <3> QED
      BY <2>3, <3>1, <3>2, <3>3, <3>4
  <2>4. CASE i # p + 1 /\ i \notin (at + 1)..(at + Len(e))
    <3>1. i \notin (at + 1)..(at + Len(b))
      BY <1>1, <2>1, <2>4
    <3>2. OverlaidCell(data, at, e, i) = IF i <= Len(data) THEN data[i] ELSE 0
      BY <2>4 DEF OverlaidCell
    <3>3. i <= Len(f) => f[i] = IF i <= Len(data) THEN data[i] ELSE 0
      BY <1>2, <2>1, <3>1 DEF OverlaidCell
    <3>4. i <= Len(data) => i <= Len(f)
      BY <1>1, <1>2, <2>1 DEF OverlaidLen, Larger
    <3> QED
      BY <2>4, <3>2, <3>3, <3>4
  <2> QED
    BY <2>2, <2>3, <2>4
<1>8. g = PutAt(f, p, c)
  BY <1>4, <1>6, <1>7 DEF PutAt
<1> QED
  BY <1>8 DEF f, g

-----------------------------------------------------------------------------
(* System calls that are not short.                                        *)

LEMMA WriteAll ==
  ASSUME ~ShortIO, NEW k \in KFile, NEW mode, mode \notin {"a", "a+"}, NEW bytes \in Seq(Cell),
         NEW w \in SysWrite(k, mode, bytes)
  PROVE  \/ w.n = -1 /\ w.k = k
         \/ /\ w.n = Len(bytes) /\ w.k.data = Overlay(k.data, k.off, bytes)
            /\ w.k.off = k.off + Len(bytes)
<1>1. ~OpenFlags(mode).append
  BY DEF OpenFlags
<1>2. SubSeq(bytes, 1, Len(bytes)) = bytes
  OBVIOUS
<1> DEFINE written == SubSeq(bytes, 1, Len(bytes))
           new == Overlay(k.data, k.off, written)
           next == IF Len(bytes) = 0 THEN k.off ELSE k.off + Len(bytes)
<1>3. k.off \in Nat /\ Len(bytes) \in Nat
  BY DEF KFile
<1>4. CASE w = Failure(k)
  BY <1>4 DEF Failure
<1>5. CASE w # Failure(k)
  <2>1. w = [n |-> Len(bytes), k |-> [data |-> new, off |-> next]]
    BY <1>1, <1>5 DEF SysWrite
  <2>2. next = k.off + Len(bytes)
    BY <1>3
  <2>3. new = Overlay(k.data, k.off, bytes)
    BY <1>2
  <2> HIDE DEF new, next
  <2> QED
    BY <2>1, <2>2, <2>3
<1> QED
  BY <1>4, <1>5

LEMMA ReadMost ==
  ASSUME ~ShortIO, NEW k \in KFile, NEW mode, NEW r \in SysRead(k, mode), r.n # -1
  PROVE  r.n < BufSize => r.k.off >= Len(k.data)
<1>1. PICK n \in SysReadCounts(k) : r = [n |-> n, k |-> [k EXCEPT !.off = @ + n]]
  BY DEF SysRead, Failure
<1>2. k.off \in Nat /\ Len(k.data) \in Nat
  BY DEF KFile
<1>3. r.n = n /\ r.k.off = k.off + n
  BY <1>1 DEF KFile
<1> DEFINE left == Len(k.data) - k.off
<1>4. n = IF left <= 0 THEN 0 ELSE Smaller(BufSize, left)
  BY DEF SysReadCounts
<1> QED
  BY <1>2, <1>3, <1>4, BufFacts DEF Smaller

-----------------------------------------------------------------------------
(* The calls on a settled stream.                                          *)

LEMMA BufferedType ==
  ASSUME NEW s \in Stream, NEW k \in KFile
  PROVE  /\ Buffered(s) \in Seq(Cell) /\ FileOf(s, k) \in Seq(Cell)
         /\ Len(Buffered(s)) = IF IsWriteOperation(s) THEN s.pos ELSE 0
         /\ s.pos = 0 \/ ~IsWriteOperation(s) => FileOf(s, k) = k.data
<1>1. k.data \in Seq(Cell) /\ k.off \in Nat
  BY DEF KFile
<1>2. Pending(s) \in Seq(Cell) /\ Len(Pending(s)) = s.pos
  BY PendingType
<1> DEFINE none == <<>>
<1>3. none \in Seq(Cell) /\ Len(none) = 0
  OBVIOUS
<1>4. Buffered(s) = IF IsWriteOperation(s) THEN Pending(s) ELSE none
  BY DEF Buffered
<1>5. s.pos = 0 \/ ~IsWriteOperation(s) => Buffered(s) = <<>>
  BY <1>2, <1>4, EmptySeq
<1> HIDE DEF none
<1>6. Buffered(s) \in Seq(Cell) /\ Len(Buffered(s)) = IF IsWriteOperation(s) THEN s.pos ELSE 0
  BY <1>2, <1>3, <1>4
<1>7. Overlay(k.data, k.off, Buffered(s)) \in Seq(Cell)
  <2>1. 0 \in Cell
    BY CellFacts
  <2> QED
    BY <1>1, <1>6, <2>1, OverlaySeq
<1>8. s.pos = 0 \/ ~IsWriteOperation(s) => FileOf(s, k) = k.data
  BY <1>1, <1>5, EmptyOverlay DEF FileOf
<1> QED
  BY <1>6, <1>7, <1>8 DEF FileOf

\* A stream with nothing in its buffer.
LEMMA EmptyIsSettled ==
  ASSUME NEW s \in Stream, NEW k \in KFile, NEW d \in Dirs,
         s.mode \notin {"a", "a+"}, s.pos = 0, d # "lost" => s.tell = k.off
  PROVE  Settled(s, k, d) /\ FileOf(s, k) = k.data
<1>1. k.off \in Nat
  BY DEF KFile
<1>2. TellOf(s, k) = k.off
  BY <1>1 DEF TellOf
<1>3. OneDirection(s, d)
  BY DEF OneDirection
<1>4. Ahead(s, k)
  BY DEF Ahead
<1> QED
  BY <1>2, <1>3, <1>4, BufferedType DEF Settled

\* Marks of an error or the end of file change nothing that is settled.
SameBuffer(s, t) ==
  /\ t.mode = s.mode /\ t.lastOp = s.lastOp /\ t.pos = s.pos /\ t.tell = s.tell
  /\ t.nrRead = s.nrRead /\ t.buf = s.buf

LEMMA MarksAreSettled ==
  ASSUME NEW s \in Stream, NEW t \in Stream, NEW k \in KFile, NEW d \in Dirs,
         SameBuffer(s, t), Settled(s, k, d)
  PROVE  Settled(t, k, d) /\ FileOf(t, k) = FileOf(s, k)
<1>1. IsWriteOperation(t) <=> IsWriteOperation(s)
  BY DEF SameBuffer, IsWriteOperation
<1>2. FileOf(t, k) = FileOf(s, k)
  BY <1>1 DEF SameBuffer, FileOf, Buffered, Pending
<1>3. TellOf(t, k) = TellOf(s, k)
  BY <1>1 DEF SameBuffer, TellOf
<1>4. OneDirection(t, d) /\ Ahead(t, k)
  BY DEF SameBuffer, Settled, OneDirection, Ahead
<1> QED
  BY <1>2, <1>3, <1>4 DEF Settled, SameBuffer

LEMMA Marks ==
  ASSUME NEW s \in Stream
  PROVE  /\ LET t == [s EXCEPT !.err = TRUE] IN
            t \in Stream /\ SameBuffer(s, t) /\ t.err = TRUE /\ t.eof = s.eof
         /\ LET t == [s EXCEPT !.eof = TRUE] IN
            t \in Stream /\ SameBuffer(s, t) /\ t.eof = TRUE /\ t.err = s.err
  BY DEF Stream, SameBuffer

LEMMA EmptiedFields ==
  ASSUME NEW s \in Stream
  PROVE  LET t == Emptied(s) IN
         /\ t \in Stream /\ t.pos = 0 /\ t.mode = s.mode /\ t.lastOp = s.lastOp
         /\ t.tell = s.tell /\ t.eof = s.eof /\ t.err = s.err
<1>1. Emptied(s) \in Stream
  BY EmptiedType
<1>2. /\ Emptied(s).pos = 0 /\ Emptied(s).mode = s.mode /\ Emptied(s).lastOp = s.lastOp
      /\ Emptied(s).tell = s.tell /\ Emptied(s).eof = s.eof /\ Emptied(s).err = s.err
  BY DEF Emptied, Stream
<1> QED
  BY <1>1, <1>2

\* so_fflush puts in the file what FileOf has there already, or fails.
LEMMA FflushSettled ==
  ASSUME ~ShortIO, NEW s \in Stream, NEW k \in KFile, s.mode \notin {"a", "a+"},
         NEW o \in Fflush(s, k)
  PROVE  \/ /\ o.ret = 0 /\ IsWriteOperation(s) /\ o.s = Emptied(s)
            /\ o.k.data = FileOf(s, k) /\ o.k.off = k.off + s.pos
         \/ /\ o.ret = SO_EOF /\ o.k = k
            /\ (o.s = s /\ ~IsWriteOperation(s)) \/ o.s = [s EXCEPT !.err = TRUE]
<1>1. CASE ~IsWriteOperation(s)
  BY <1>1 DEF Fflush, Outcome
<1>2. CASE IsWriteOperation(s)
  <2>1. PICK w \in SysWrite(k, s.mode, Pending(s)) :
          o = IF w.n = -1 THEN Outcome([s EXCEPT !.err = TRUE], k, SO_EOF)
              ELSE Outcome(Emptied(s), w.k, 0)
    BY <1>2 DEF Fflush
  <2>2. Pending(s) \in Seq(Cell) /\ Len(Pending(s)) = s.pos
    BY PendingType
  <2>3. \/ w.n = -1 /\ w.k = k
        \/ /\ w.n = Len(Pending(s)) /\ w.k.data = Overlay(k.data, k.off, Pending(s))
           /\ w.k.off = k.off + Len(Pending(s))
    BY <2>2, WriteAll
  <2>4. FileOf(s, k) = Overlay(k.data, k.off, Pending(s))
    BY <1>2 DEF FileOf, Buffered
  <2>5. CASE w.n = -1
    BY <2>1, <2>5 DEF Outcome
  <2>6. CASE w.n # -1
    <3>1. w.k.data = FileOf(s, k) /\ w.k.off = k.off + s.pos
      BY <2>2, <2>3, <2>4, <2>6
    <3>2. o.ret = 0 /\ o.s = Emptied(s) /\ o.k = w.k
      BY <2>1, <2>6 DEF Outcome
    <3> QED
      BY <1>2, <3>1, <3>2
  <2> QED
    BY <2>5, <2>6
<1> QED
  BY <1>1, <1>2

\* A stream that was flushed, or whose bytes read ahead were dropped.
LEMMA EmptiedSettled ==
  ASSUME NEW s \in Stream, NEW k \in KFile, NEW d \in Dirs,
         s.mode \notin {"a", "a+"}, d # "lost" => s.tell = k.off
  PROVE  Settled(Emptied(s), k, d) /\ FileOf(Emptied(s), k) = k.data
<1> DEFINE t == Emptied(s)
<1>1. t \in Stream /\ t.pos = 0 /\ t.mode = s.mode /\ t.tell = s.tell
  BY EmptiedFields
<1> HIDE DEF t
<1>2. Settled(t, k, d) /\ FileOf(t, k) = k.data
  BY <1>1, EmptyIsSettled
<1> QED
  BY <1>2 DEF t

\* What a call that ends with outcome o may have done for its caller: take
\* the byte at the position, report the end of the file f, or fail.
Took(s, f, o) ==
  /\ s.tell < Len(f) /\ o.s.tell = s.tell + 1 /\ o.ret = SignedChar(f[s.tell + 1])
  /\ o.s.eof = s.eof /\ o.s.err = s.err

Ended(s, f, o) ==
  /\ s.tell >= Len(f) /\ o.s.tell = s.tell /\ o.ret = SO_EOF
  /\ o.s.eof = TRUE /\ o.s.err = s.err

Failed(s, o) ==
  /\ o.s.tell = s.tell /\ o.ret = SO_EOF
  /\ o.s.eof = s.eof /\ o.s.err = TRUE

\* Taking a byte from a buffer that holds what lies before the offset.
LEMMA TakeSettled ==
  ASSUME NEW s \in Stream, NEW k \in KFile, s.mode \notin {"a", "a+"},
         s.lastOp = "read", s.pos < BufSize, s.pos <= s.nrRead,
         s.nrRead <= k.off, k.off <= Len(k.data),
         s.nrRead < BufSize => k.off = Len(k.data),
         \A i \in s.pos..(s.nrRead - 1) : s.buf[i] = k.data[k.off - s.nrRead + i + 1],
         s.tell = k.off + (s.pos - s.nrRead),
         NEW o, o = TakeByte(s, k)
  PROVE  /\ o.k = k /\ Settled(o.s, k, "read") /\ FileOf(o.s, k) = k.data
         /\ Took(s, k.data, o) \/ Ended(s, k.data, o)
<1>1. /\ k.off \in Nat /\ Len(k.data) \in Nat /\ s.pos \in Nat /\ s.nrRead \in Nat
      /\ s.nrRead <= BufSize /\ s.tell \in Int /\ BufSize \in Nat
  BY StreamFields, BufFacts DEF KFile
<1>2. CASE s.pos = s.nrRead
  <2> DEFINE t == [s EXCEPT !.eof = TRUE]
  <2>1. t \in Stream /\ SameBuffer(s, t) /\ t.eof = TRUE /\ t.err = s.err
    BY Marks
  <2>2. o.s = t /\ o.k = k /\ o.ret = SO_EOF
    BY <1>2 DEF TakeByte, Outcome
  <2> HIDE DEF t
  <2>3. Settled(s, k, "read")
    <3>1. TellOf(s, k) = s.tell
      BY <1>1, <1>2 DEF TellOf, IsWriteOperation
    <3>2. OneDirection(s, "read")
      BY DEF OneDirection
    <3>3. Ahead(s, k)
      BY <1>1 DEF Ahead
    <3> QED
      BY <3>1, <3>2, <3>3 DEF Settled
  <2>4. FileOf(s, k) = k.data
    BY BufferedType DEF IsWriteOperation
  <2>5. Settled(t, k, "read") /\ FileOf(t, k) = k.data
    BY <2>1, <2>3, <2>4, MarksAreSettled DEF Dirs
  <2>6. s.tell >= Len(k.data)
    BY <1>1, <1>2
  <2> QED
    BY <2>1, <2>2, <2>5, <2>6 DEF Ended, SameBuffer
<1>3. CASE s.pos # s.nrRead
  <2> DEFINE p == s.pos + 1
             u == s.tell + 1
             t == [s EXCEPT !.pos = p, !.tell = u]
  <2>1. p \in 0..BufSize /\ u \in Int
    BY <1>1
  <2>2. t \in Stream
    BY <2>1, SetPosTell
  <2>3. /\ t.pos = p /\ t.tell = u /\ t.mode = s.mode /\ t.lastOp = s.lastOp
        /\ t.nrRead = s.nrRead /\ t.buf = s.buf /\ t.eof = s.eof /\ t.err = s.err
    BY DEF Stream
  <2>4. o.s = t /\ o.k = k /\ o.ret = SignedChar(s.buf[s.pos])
    BY <1>3 DEF TakeByte, Outcome
  <2> HIDE DEF t
  <2>5. TellOf(t, k) = t.tell
    <3>1. ~IsWriteOperation(t)
      BY <2>3 DEF IsWriteOperation
    <3>2. t.pos # 0 /\ t.tell = k.off + (t.pos - t.nrRead)
      <4>1. t.pos = s.pos + 1 /\ t.tell = s.tell + 1 /\ t.nrRead = s.nrRead
        BY <2>3
      <4> HIDE DEF p, u
      <4> QED
        BY <1>1, <4>1
    <3> QED
      BY <3>1, <3>2 DEF TellOf
  <2>6. OneDirection(t, "read")
    BY <2>3 DEF OneDirection
  <2>7. Ahead(t, k)
    BY <1>1, <1>3, <2>3 DEF Ahead
  <2>8. Settled(t, k, "read") /\ FileOf(t, k) = k.data
    BY <2>2, <2>3, <2>5, <2>6, <2>7, BufferedType DEF Settled, IsWriteOperation
  <2>9. s.tell < Len(k.data) /\ s.buf[s.pos] = k.data[s.tell + 1]
    <3>1. s.pos \in s.pos..(s.nrRead - 1) /\ k.off - s.nrRead + s.pos + 1 = s.tell + 1
      BY <1>1, <1>3
    <3>2. s.tell < Len(k.data)
      BY <1>1, <1>3
    <3> QED
      BY <3>1, <3>2
  <2> QED
    BY <2>3, <2>4, <2>8, <2>9 DEF Took
<1> QED
  BY <1>2, <1>3

\* A stream from which bytes are taken is at the offset when it is refilled.
LEMMA RefillAtTell ==
  ASSUME NEW s \in Stream, NEW k \in KFile, Settled(s, k, "read"), NeedsRefill(s)
  PROVE  s.tell = k.off
<1>1. k.off \in Nat /\ s.pos \in Nat /\ s.nrRead \in Nat /\ s.nrRead <= BufSize /\ BufSize > 0
      /\ BufSize \in Nat
  BY StreamFields, BufFacts DEF KFile
<1>2. s.tell = TellOf(s, k)
  BY DEF Settled
<1>3. CASE s.pos = 0
  BY <1>1, <1>2, <1>3 DEF TellOf
<1>4. CASE s.pos # 0
  <2>1. s.lastOp = "read" /\ s.pos = BufSize /\ s.pos <= s.nrRead
    BY <1>1, <1>4 DEF Settled, OneDirection, Ahead, NeedsRefill, IsWriteOperation
  <2> QED
    BY <1>1, <1>2, <2>1 DEF TellOf, IsWriteOperation
<1> QED
  BY <1>3, <1>4

LEMMA FgetcSettled ==
  ASSUME ~ShortIO, NEW s \in Stream, NEW k \in KFile, NEW d \in {"none", "read"},
         Settled(s, k, d), NEW o \in Fgetc(s, k)
  PROVE  /\ Settled(o.s, o.k, "read") /\ FileOf(o.s, o.k) = FileOf(s, k)
         /\ \/ Took(s, FileOf(s, k), o) \/ Ended(s, FileOf(s, k), o) \/ Failed(s, o)
<1>1. Settled(s, k, "read")
  BY DEF Settled, OneDirection
<1>2. FileOf(s, k) = k.data
  BY <1>1, BufferedType DEF Settled, OneDirection, IsWriteOperation
<1>3. s.mode \notin {"a", "a+"} /\ "read" \in Dirs
  BY <1>1 DEF Settled, Dirs
<1>4. s.pos \in Nat /\ s.pos <= BufSize /\ BufSize \in Nat /\ BufSize > 0 /\ k.off \in Nat
  BY StreamFields, BufFacts DEF KFile
<1>5. CASE o = Outcome([s EXCEPT !.err = TRUE], k, SO_EOF)
  <2> DEFINE t == [s EXCEPT !.err = TRUE]
  <2>1. t \in Stream /\ SameBuffer(s, t) /\ t.err = TRUE /\ t.eof = s.eof
    BY Marks
  <2>2. o.s = t /\ o.k = k /\ o.ret = SO_EOF
    BY <1>5 DEF Outcome
  <2> HIDE DEF t
  <2>3. Settled(t, k, "read") /\ FileOf(t, k) = FileOf(s, k)
    BY <1>1, <1>3, <2>1, MarksAreSettled
  <2> QED
    BY <2>1, <2>2, <2>3 DEF Failed, SameBuffer
<1>6. CASE CanRead(s.mode) /\ ~NeedsRefill(s)
  <2>1. o = TakeByte(s, k)
    BY <1>6 DEF Fgetc
  <2>2. s.pos > 0 /\ s.pos < BufSize /\ s.lastOp = "read" /\ ~IsWriteOperation(s)
    <3>1. s.pos # 0 /\ s.pos # BufSize /\ ~IsWriteOperation(s)
      BY <1>6 DEF NeedsRefill
    <3>2. s.lastOp = "read"
      BY <1>1, <3>1 DEF Settled, OneDirection
    <3> QED
      BY <1>4, <3>1, <3>2
  <2>3. s.tell = k.off + (s.pos - s.nrRead)
    BY <1>4, <1>1, <2>2 DEF Settled, TellOf
  <2>4. /\ s.pos <= s.nrRead /\ s.nrRead <= k.off /\ k.off <= Len(k.data)
        /\ s.nrRead < BufSize => k.off = Len(k.data)
        /\ \A i \in s.pos..(s.nrRead - 1) : s.buf[i] = k.data[k.off - s.nrRead + i + 1]
    BY <1>1, <2>2 DEF Settled, Ahead
  <2>5. /\ o.k = k /\ Settled(o.s, k, "read") /\ FileOf(o.s, k) = k.data
        /\ Took(s, k.data, o) \/ Ended(s, k.data, o)
    BY <1>3, <2>1, <2>2, <2>3, <2>4, TakeSettled
  <2> QED
    BY <1>2, <2>5
<1>7. CASE CanRead(s.mode) /\ NeedsRefill(s) /\ o # Outcome([s EXCEPT !.err = TRUE], k, SO_EOF)
  <2>1. PICK r \in SysRead(k, s.mode) :
          o = CASE r.n = 0  -> Outcome([s EXCEPT !.eof = TRUE], r.k, SO_EOF)
                [] r.n = -1 -> Outcome([s EXCEPT !.err = TRUE], r.k, SO_EOF)
                [] r.n > 0  -> TakeByte(Refilled(s, r.k, r.n), r.k)
    BY <1>7 DEF Fgetc
  <2>2. s.tell = k.off
    BY <1>1, <1>7, RefillAtTell
  <2>3. r.n # -1
    <3>1. r.n = -1 => r.k = k
      BY SysReadType
    <3> QED
      BY <1>7, <2>1, <3>1
  <2>4. /\ r.k \in KFile /\ r.k.data = k.data /\ r.n \in 0..BufSize /\ r.k.off = k.off + r.n
        /\ r.n = 0 => k.off >= Len(k.data)
        /\ r.n # 0 => r.k.off <= Len(k.data)
        /\ r.n < BufSize => r.k.off >= Len(k.data)
    BY <2>3, SysReadType, ReadMost
  <2>5. CASE r.n = 0
    <3> DEFINE t == [s EXCEPT !.eof = TRUE]
    <3>1. t \in Stream /\ SameBuffer(s, t) /\ t.eof = TRUE /\ t.err = s.err
      BY Marks
    <3>2. r.k = k
      BY <1>4, <2>4, <2>5 DEF KFile
    <3>3. o.s = t /\ o.k = k /\ o.ret = SO_EOF
      <4>1. o = Outcome(t, r.k, SO_EOF)
        BY <2>1, <2>5
      <4> QED
        BY <3>2, <4>1 DEF Outcome
    <3> HIDE DEF t
    <3>4. Settled(t, k, "read") /\ FileOf(t, k) = FileOf(s, k)
      BY <1>1, <1>3, <3>1, MarksAreSettled
    <3>5. Ended(s, k.data, o)
      BY <2>2, <2>4, <2>5, <3>1, <3>3 DEF Ended, SameBuffer
    <3> QED
      BY <1>2, <3>3, <3>4, <3>5
  <2>6. CASE r.n # 0
    <3> DEFINE t == Refilled(s, r.k, r.n)
               l == r.k
    <3>1. /\ r.n \in 1..BufSize /\ r.n <= l.off /\ l.off <= Len(l.data)
          /\ r.n < BufSize => l.off = Len(l.data)
          /\ l \in KFile
      BY <1>4, <2>4, <2>6 DEF KFile
    <3>2. t \in Stream
      BY <3>1, RefilledType
    <3>3. /\ t.pos = 0 /\ t.mode = s.mode /\ t.lastOp = "read" /\ t.nrRead = r.n
          /\ t.tell = s.tell /\ t.eof = s.eof /\ t.err = s.err
          /\ t.buf = [i \in Index |-> IF i < r.n THEN l.data[l.off - r.n + i + 1] ELSE s.buf[i]]
      BY DEF Refilled, Stream
    <3>4. \A i \in t.pos..(t.nrRead - 1) : t.buf[i] = l.data[l.off - t.nrRead + i + 1]
      <4> SUFFICES ASSUME NEW i \in 0..(r.n - 1)
                   PROVE  t.buf[i] = l.data[l.off - r.n + i + 1]
        BY <3>3
      <4>1. i \in Index /\ i < r.n
        BY <3>1, BufFacts DEF Index
      <4> QED
        BY <3>3, <4>1
    <3>5. o = TakeByte(t, l)
      BY <2>1, <2>6, <3>1
    <3>6. t.tell = l.off + (t.pos - t.nrRead)
      BY <1>4, <2>2, <2>4, <3>1, <3>3
    <3>7. /\ t.pos < BufSize /\ t.pos <= t.nrRead /\ t.nrRead <= l.off
          /\ t.nrRead < BufSize => l.off = Len(l.data)
      BY <3>1, <3>3, BufFacts
    <3>8. t.mode \notin {"a", "a+"} /\ t.lastOp = "read" /\ l.off <= Len(l.data) /\ l \in KFile
      BY <1>3, <3>1, <3>3
    <3> HIDE DEF t, l
    <3>9. /\ o.k = l /\ Settled(o.s, l, "read") /\ FileOf(o.s, l) = l.data
          /\ Took(t, l.data, o) \/ Ended(t, l.data, o)
      BY <3>2, <3>4, <3>5, <3>6, <3>7, <3>8, TakeSettled
    <3>10. Took(s, k.data, o) \/ Ended(s, k.data, o)
      BY <2>4, <3>3, <3>9 DEF Took, Ended, l
    <3> QED
      BY <1>2, <2>4, <3>9, <3>10 DEF l
  <2> QED
    BY <2>5, <2>6
<1> QED
  BY <1>5, <1>6, <1>7 DEF Fgetc

\* What a call that ends with outcome o may have done for its caller: put
\* byte c at the position of the file.
Placed(s, k, c, o) ==
  /\ FileOf(o.s, o.k) = PutAt(FileOf(s, k), s.tell, c)
  /\ o.s.tell = s.tell + 1 /\ o.ret = c
  /\ o.s.eof = s.eof /\ o.s.err = s.err

LEMMA PutPlaces ==
  ASSUME NEW s \in Stream, NEW t \in Stream, NEW k \in KFile, NEW c \in Cell,
         s.pos = 0 \/ IsWriteOperation(s), IsWriteOperation(t), s.pos < BufSize,
         t.pos = s.pos + 1, t.buf[s.pos] = c,
         \A i \in Index : i # s.pos => t.buf[i] = s.buf[i]
  PROVE  FileOf(t, k) = PutAt(FileOf(s, k), k.off + s.pos, c)
<1> DEFINE old == Buffered(s)
           new == Buffered(t)
<1>1. s.pos \in Nat /\ BufSize \in Nat /\ t.pos \in Nat
  BY StreamFields, BufFacts
<1>2. old \in Seq(Cell) /\ Len(old) = s.pos /\ new \in Seq(Cell) /\ Len(new) = s.pos + 1
  <2>1. old \in Seq(Cell) /\ Len(old) = IF IsWriteOperation(s) THEN s.pos ELSE 0
    BY BufferedType
  <2>2. new \in Seq(Cell) /\ Len(new) = IF IsWriteOperation(t) THEN t.pos ELSE 0
    BY BufferedType
  <2> QED
    BY <1>1, <2>1, <2>2
<1>3. new[s.pos + 1] = c
  BY <1>1 DEF Buffered, Pending
<1>4. ASSUME NEW i \in 1..Len(old) PROVE new[i] = old[i]
  <2>1. i \in 1..s.pos /\ i \in 1..t.pos /\ i - 1 \in Index /\ i - 1 # s.pos /\ s.pos # 0
    BY <1>1, <1>2 DEF Index
  <2>2. old[i] = s.buf[i - 1]
    BY <2>1 DEF Buffered, Pending
  <2>3. new[i] = t.buf[i - 1]
    BY <2>1 DEF Buffered, Pending
  <2> QED
    BY <2>1, <2>2, <2>3
<1>5. k.data \in Seq(Cell) /\ k.off \in Nat
  BY DEF KFile
<1> HIDE DEF old, new
<1>6. Len(new) = Len(old) + 1 /\ new[Len(new)] = c /\ \A i \in 1..Len(old) : new[i] = old[i]
  BY <1>2, <1>3, <1>4
<1>7. Overlay(k.data, k.off, new) = PutAt(Overlay(k.data, k.off, old), k.off + Len(old), c)
  BY <1>2, <1>5, <1>6, OneMoreByte
<1> QED
  BY <1>2, <1>7 DEF FileOf, old, new

LEMMA PutSettled ==
  ASSUME NEW s \in Stream, NEW k \in KFile, NEW c \in Byte, s.mode \notin {"a", "a+"},
         s.pos < BufSize, s.pos = 0 \/ IsWriteOperation(s), s.tell = k.off + s.pos,
         NEW o, o = PutByte(s, k, c)
  PROVE  o.k = k /\ Settled(o.s, k, "write") /\ Placed(s, k, c, o)
<1> DEFINE p == s.pos + 1
           u == s.tell + 1
           b == [s.buf EXCEPT ![s.pos] = c]
           t == [s EXCEPT !.buf = b, !.pos = p, !.tell = u, !.lastOp = "write"]
<1>1. /\ s.pos \in Nat /\ s.pos \in Index /\ p \in 0..BufSize /\ u \in Int /\ k.off \in Nat
      /\ s.buf \in [Index -> Cell] /\ BufSize \in Nat
  BY StreamFields, BufFacts DEF Index, KFile
<1>2. c \in Cell
  BY CellFacts
<1>3. b \in [Index -> Cell] /\ b[s.pos] = c /\ \A i \in Index : i # s.pos => b[i] = s.buf[i]
  BY <1>1, <1>2
<1>4. o.s = t /\ o.k = k /\ o.ret = c
  BY DEF PutByte, Outcome
<1>5. /\ t.pos = p /\ t.tell = u /\ t.mode = s.mode /\ t.lastOp = "write" /\ t.buf = b
      /\ t.eof = s.eof /\ t.err = s.err
  BY DEF Stream
<1> HIDE DEF b
<1>6. t \in Stream
  BY <1>1, <1>3, SetWrite
<1> HIDE DEF t
<1>7. IsWriteOperation(t)
  BY <1>5 DEF IsWriteOperation
<1>8. Settled(t, k, "write")
  <2>1. TellOf(t, k) = t.tell
    BY <1>1, <1>5, <1>7 DEF TellOf
  <2>2. OneDirection(t, "write")
    BY <1>1, <1>5 DEF OneDirection
  <2>3. Ahead(t, k)
    BY <1>5 DEF Ahead
  <2> QED
    BY <1>5, <2>1, <2>2, <2>3 DEF Settled
<1>9. FileOf(t, k) = PutAt(FileOf(s, k), s.tell, c)
  <2>1. FileOf(t, k) = PutAt(FileOf(s, k), k.off + s.pos, c)
    BY <1>1, <1>2, <1>3, <1>5, <1>6, <1>7, PutPlaces
  <2> QED
    BY <2>1
<1> QED
  BY <1>4, <1>5, <1>8, <1>9 DEF Placed

LEMMA FputcSettled ==
  ASSUME ~ShortIO, NEW s \in Stream, NEW k \in KFile, NEW c \in Byte, NEW d \in {"none", "write"},
         Settled(s, k, d), NEW o \in Fputc(s, k, c)
  PROVE  /\ Settled(o.s, o.k, "write")
         /\ Placed(s, k, c, o) \/ (Failed(s, o) /\ FileOf(o.s, o.k) = FileOf(s, k))
<1>1. s.mode \notin {"a", "a+"} /\ (s.pos = 0 \/ IsWriteOperation(s)) /\ Settled(s, k, "write")
  BY DEF Settled, OneDirection, IsWriteOperation
<1>2. s.pos \in Nat /\ s.pos <= BufSize /\ BufSize \in Nat /\ BufSize > 0 /\ k.off \in Nat
  BY StreamFields, BufFacts DEF KFile
<1>3. s.tell = k.off + s.pos
  <2>1. s.tell = TellOf(s, k)
    BY DEF Settled
  <2> QED
    BY <1>2, <1>1, <2>1 DEF TellOf
<1>4. ASSUME NEW r \in Stream, SameBuffer(s, r), r.eof = s.eof,
             o = Outcome([r EXCEPT !.err = TRUE], k, SO_EOF)
      PROVE  Settled(o.s, o.k, "write") /\ Failed(s, o) /\ FileOf(o.s, o.k) = FileOf(s, k)
  <2> DEFINE t == [r EXCEPT !.err = TRUE]
  <2>1. t \in Stream /\ SameBuffer(r, t) /\ t.err = TRUE /\ t.eof = s.eof
    BY <1>4, Marks
  <2>2. o.s = t /\ o.k = k /\ o.ret = SO_EOF
    BY <1>4 DEF Outcome
  <2> HIDE DEF t
  <2>3. SameBuffer(s, t)
    BY <1>4, <2>1 DEF SameBuffer
  <2>4. Settled(t, k, "write") /\ FileOf(t, k) = FileOf(s, k)
    BY <1>1, <2>1, <2>3, MarksAreSettled DEF Dirs
  <2> QED
    BY <2>1, <2>2, <2>3, <2>4 DEF Failed, SameBuffer
<1>5. CASE ~CanWrite(s.mode)
  <2>1. o = Outcome([s EXCEPT !.err = TRUE], k, SO_EOF) /\ SameBuffer(s, s)
    BY <1>5 DEF Fputc, SameBuffer
  <2> QED
    BY <1>4, <2>1
<1>6. CASE CanWrite(s.mode) /\ s.pos < BufSize
  <2>1. o = PutByte(s, k, c)
    BY <1>6 DEF Fputc
  <2> QED
    BY <1>1, <1>3, <1>6, <2>1, PutSettled
<1>7. CASE CanWrite(s.mode) /\ ~(s.pos < BufSize)
  <2>1. PICK f \in Fflush(s, k) :
          o = IF f.ret = SO_EOF THEN Outcome([f.s EXCEPT !.err = TRUE], f.k, SO_EOF)
              ELSE PutByte(f.s, f.k, c)
    BY <1>7 DEF Fputc
  <2>2. \/ /\ f.ret = 0 /\ f.s = Emptied(s)
           /\ f.k.data = FileOf(s, k) /\ f.k.off = k.off + s.pos
        \/ /\ f.ret = SO_EOF /\ f.k = k
           /\ f.s = s \/ f.s = [s EXCEPT !.err = TRUE]
    BY <1>1, FflushSettled
  <2>3. CASE f.ret = SO_EOF
    <3>1. f.k = k /\ f.s \in Stream /\ SameBuffer(s, f.s) /\ f.s.eof = s.eof
      <4>1. f.k = k /\ (f.s = s \/ f.s = [s EXCEPT !.err = TRUE])
        BY <2>2, <2>3 DEF SO_EOF
      <4>2. SameBuffer(s, s)
        BY DEF SameBuffer
      <4>3. LET t == [s EXCEPT !.err = TRUE] IN t \in Stream /\ SameBuffer(s, t) /\ t.eof = s.eof
        BY Marks
      <4> QED
        BY <4>1, <4>2, <4>3
    <3>2. o = Outcome([f.s EXCEPT !.err = TRUE], k, SO_EOF)
      BY <2>1, <2>3, <3>1
    <3> QED
      BY <1>4, <3>1, <3>2
  <2>4. CASE f.ret # SO_EOF
    <3>1. f.s = Emptied(s) /\ f.k.data = FileOf(s, k) /\ f.k.off = s.tell
      BY <1>3, <2>2, <2>4
    <3>2. o = PutByte(f.s, f.k, c)
      BY <2>1, <2>4
    <3>3. f.k \in KFile
      BY FflushSound DEF Sound
    <3>4. /\ f.s \in Stream /\ f.s.pos = 0 /\ f.s.mode = s.mode /\ f.s.tell = s.tell
          /\ f.s.eof = s.eof /\ f.s.err = s.err
      BY <3>1, EmptiedFields
    <3>5. f.s.tell = f.k.off + f.s.pos
      BY <1>2, <1>3, <3>1, <3>4
    <3>6. FileOf(f.s, f.k) = FileOf(s, k)
      BY <3>1, <3>3, <3>4, BufferedType
    <3>7. o.k = f.k /\ Settled(o.s, f.k, "write") /\ Placed(f.s, f.k, c, o)
      BY <1>2, <1>1, <3>2, <3>3, <3>4, <3>5, PutSettled
    <3> QED
      BY <3>4, <3>6, <3>7 DEF Placed
  <2> QED
    BY <2>3, <2>4
<1> QED
  BY <1>5, <1>6, <1>7

\* Before it moves the descriptor, so_fseek has emptied the buffer, or fails.
LEMMA BeforeSeekSettled ==
  ASSUME ~ShortIO, NEW s \in Stream, NEW k \in KFile, NEW d \in Dirs, Settled(s, k, d),
         NEW b \in BeforeSeek(s, k)
  PROVE  /\ b.s \in Stream /\ b.k \in KFile /\ b.s.mode \notin {"a", "a+"}
         /\ Settled(b.s, b.k, "lost") /\ FileOf(b.s, b.k) = FileOf(s, k)
         /\ b.s.tell = s.tell /\ b.s.eof = s.eof
         /\ \/ b.ret = 0 /\ b.s.pos = 0 /\ b.s.err = s.err
            \/ b.ret = SO_EOF /\ (b.s.err = s.err \/ b.s.err = TRUE)
<1>1. s.mode \notin {"a", "a+"} /\ Settled(s, k, "lost") /\ "lost" \in Dirs
  BY DEF Settled, OneDirection, Dirs
<1>2. LET t == [s EXCEPT !.err = TRUE] IN
      t \in Stream /\ SameBuffer(s, t) /\ t.err = TRUE /\ t.eof = s.eof
  BY Marks
<1>3. CASE b \in Fflush(s, k) /\ b.ret = SO_EOF
  <2>1. b.k = k /\ (b.s = s \/ b.s = [s EXCEPT !.err = TRUE])
    BY <1>1, <1>3, FflushSettled DEF SO_EOF
  <2>2. SameBuffer(s, s)
    BY DEF SameBuffer
  <2>3. b.s \in Stream /\ SameBuffer(s, b.s) /\ b.s.eof = s.eof /\ (b.s.err = s.err \/ b.s.err = TRUE)
    BY <1>2, <2>1, <2>2
  <2>4. Settled(b.s, k, "lost") /\ FileOf(b.s, k) = FileOf(s, k)
    BY <1>1, <2>3, MarksAreSettled
  <2> QED
    BY <1>1, <1>3, <2>1, <2>3, <2>4 DEF SameBuffer
<1>4. CASE /\ b.ret = 0 /\ b.s = Emptied(s) /\ b.k \in KFile
           /\ b.k.data = FileOf(s, k)
  <2>1. /\ b.s \in Stream /\ b.s.pos = 0 /\ b.s.mode = s.mode
        /\ b.s.tell = s.tell /\ b.s.eof = s.eof /\ b.s.err = s.err
    BY <1>4, EmptiedFields
  <2>2. Settled(b.s, b.k, "lost") /\ FileOf(b.s, b.k) = b.k.data
    BY <1>1, <1>4, EmptiedSettled
  <2> QED
    BY <1>1, <1>4, <2>1, <2>2
<1>5. CASE IsWriteOperation(s)
  <2>1. b \in Fflush(s, k)
    BY <1>5 DEF BeforeSeek, IsReadOperation, IsWriteOperation
  <2>2. b.k \in KFile
    BY <2>1, FflushSound DEF Sound
  <2>3. \/ /\ b.ret = 0 /\ b.s = Emptied(s)
           /\ b.k.data = FileOf(s, k) /\ b.k.off = k.off + s.pos
        \/ /\ b.ret = SO_EOF /\ b.k = k
           /\ b.s = s \/ b.s = [s EXCEPT !.err = TRUE]
    BY <1>1, <2>1, FflushSettled
  <2> QED
    BY <1>3, <1>4, <2>1, <2>2, <2>3
<1>6. CASE IsReadOperation(s)
  <2>1. b = Outcome(Emptied(s), k, 0) /\ ~IsWriteOperation(s)
    BY <1>6 DEF BeforeSeek, IsReadOperation, IsWriteOperation
  <2>2. FileOf(s, k) = k.data
    BY <2>1, BufferedType
  <2>3. b.ret = 0 /\ b.s = Emptied(s) /\ b.k = k
    BY <2>1 DEF Outcome
  <2> QED
    BY <1>4, <2>2, <2>3
<1>7. CASE ~IsWriteOperation(s) /\ ~IsReadOperation(s)
  <2>1. b = Outcome(s, k, 0)
    BY <1>7 DEF BeforeSeek
  <2>2. s.pos = 0
    BY <1>1, <1>7, StreamModes DEF Settled, OneDirection, IsReadOperation, IsWriteOperation
  <2>3. b.ret = 0 /\ b.s = s /\ b.k = k
    BY <2>1 DEF Outcome
  <2> QED
    BY <1>1, <2>2, <2>3
<1> QED
  BY <1>5, <1>6, <1>7

LEMMA FseekSettled ==
  ASSUME ~ShortIO, NEW s \in Stream, NEW k \in KFile, NEW d \in Dirs, Settled(s, k, d),
         NEW offset \in Int, NEW whence \in Whence, NEW o \in Fseek(s, k, offset, whence)
  PROVE  /\ Settled(o.s, o.k, IF o.ret = 0 THEN "none" ELSE "lost")
         /\ FileOf(o.s, o.k) = FileOf(s, k) /\ o.s.eof = s.eof
         /\ \/ o.ret = 0 /\ o.s.tell \in Nat /\ o.s.err = s.err
            \/ o.ret = SO_EOF /\ o.s.tell = s.tell /\ (o.s.err = s.err \/ o.s.err = TRUE)
<1>1. PICK b \in BeforeSeek(s, k) :
        o = LET l == SysLseek(b.k, offset, whence) IN
            IF b.ret = SO_EOF \/ l.n < 0 THEN Outcome(b.s, b.k, SO_EOF)
            ELSE Outcome([b.s EXCEPT !.tell = l.n], l.k, 0)
  BY DEF Fseek
<1> DEFINE l == SysLseek(b.k, offset, whence)
<1>2. /\ b.s \in Stream /\ b.k \in KFile /\ b.s.mode \notin {"a", "a+"}
      /\ Settled(b.s, b.k, "lost") /\ FileOf(b.s, b.k) = FileOf(s, k)
      /\ b.s.tell = s.tell /\ b.s.eof = s.eof
      /\ \/ b.ret = 0 /\ b.s.pos = 0 /\ b.s.err = s.err
         \/ b.ret = SO_EOF /\ (b.s.err = s.err \/ b.s.err = TRUE)
  BY BeforeSeekSettled
<1>3. /\ l.k \in KFile /\ l.k.data = b.k.data
      /\ (l.n \in Nat /\ l.k.off = l.n) \/ l.n = -1
  BY <1>2, SysLseekType
<1>4. CASE o = Outcome(b.s, b.k, SO_EOF)
  <2>1. o.s = b.s /\ o.k = b.k /\ o.ret = SO_EOF /\ SO_EOF # 0
    BY <1>4 DEF Outcome, SO_EOF
  <2> QED
    BY <1>2, <2>1
<1>5. CASE o # Outcome(b.s, b.k, SO_EOF)
  <2> DEFINE n == l.n
             t == [b.s EXCEPT !.tell = n]
  <2>1. o = Outcome(t, l.k, 0) /\ b.ret # SO_EOF /\ ~(l.n < 0)
    BY <1>1, <1>5
  <2>2. n \in Nat /\ l.k.off = n /\ n \in Int
    BY <1>3, <2>1
  <2>3. b.s.pos = 0 /\ b.s.err = s.err
    BY <1>2, <2>1
  <2>4. o.s = t /\ o.k = l.k /\ o.ret = 0
    BY <2>1 DEF Outcome
  <2> HIDE DEF l, n
  <2>5. t.tell = n /\ t.pos = b.s.pos /\ t.mode = b.s.mode /\ t.eof = b.s.eof /\ t.err = b.s.err
    BY <1>2 DEF Stream
  <2>6. t \in Stream
    BY <1>2, <2>2, SetTell
  <2> HIDE DEF t
  <2>7. Settled(t, l.k, "none") /\ FileOf(t, l.k) = l.k.data
    BY <1>2, <1>3, <2>2, <2>3, <2>5, <2>6, EmptyIsSettled DEF Dirs
  <2>8. FileOf(b.s, b.k) = b.k.data
    BY <1>2, <2>3, BufferedType
  <2> QED
    BY <1>2, <1>3, <2>2, <2>3, <2>4, <2>5, <2>7, <2>8
<1> QED
  BY <1>4, <1>5

\* so_fclose leaves the file as its caller sees it.
LEMMA BeforeCloseSettled ==
  ASSUME ~ShortIO, NEW s \in Stream, NEW k \in KFile, NEW d \in Dirs, Settled(s, k, d),
         NEW o \in BeforeClose(s, k), o.ret # SO_EOF
  PROVE  /\ o.k.data = FileOf(s, k)
         /\ o.s.tell = s.tell /\ o.s.eof = s.eof /\ o.s.err = s.err
<1>1. CASE IsWriteOperation(s)
  <2>1. o \in Fflush(s, k) /\ s.mode \notin {"a", "a+"}
    BY <1>1 DEF BeforeClose, Settled
  <2>2. \/ /\ o.ret = 0 /\ o.s = Emptied(s)
           /\ o.k.data = FileOf(s, k) /\ o.k.off = k.off + s.pos
        \/ /\ o.ret = SO_EOF /\ o.k = k
           /\ o.s = s \/ o.s = [s EXCEPT !.err = TRUE]
    BY <2>1, FflushSettled
  <2>3. o.s = Emptied(s) /\ o.k.data = FileOf(s, k)
    BY <2>2
  <2> QED
    BY <2>3, EmptiedFields
<1>2. CASE ~IsWriteOperation(s)
  <2>1. o = Outcome(s, k, 0)
    BY <1>2 DEF BeforeClose
  <2>2. FileOf(s, k) = k.data
    BY <1>2, BufferedType
  <2> QED
    BY <2>1, <2>2 DEF Outcome
<1> QED
  BY <1>1, <1>2

\* What so_fread and so_fwrite record when they end.
LEMMA FinishSettled ==
  ASSUME NEW s \in Stream, NEW k \in KFile, NEW d \in {"read", "write"}, Settled(s, k, d)
  PROVE  LET t == [s EXCEPT !.lastOp = d] IN
         /\ Settled(t, k, d) /\ FileOf(t, k) = FileOf(s, k)
         /\ t.tell = s.tell /\ t.eof = s.eof /\ t.err = s.err
<1> DEFINE t == [s EXCEPT !.lastOp = d]
<1>1. /\ t \in Stream /\ t.lastOp = d /\ t.mode = s.mode /\ t.pos = s.pos /\ t.tell = s.tell
      /\ t.nrRead = s.nrRead /\ t.buf = s.buf /\ t.eof = s.eof /\ t.err = s.err
  BY DEF Stream
<1> HIDE DEF t
<1>2. s.mode \notin {"a", "a+"} /\ (s.pos = 0 \/ s.lastOp = d) /\ d \in Dirs /\ d # "lost"
  BY DEF Settled, OneDirection, Dirs
<1>3. CASE s.pos = 0
  <2>1. s.tell = k.off
    <3>1. k.off \in Nat
      BY DEF KFile
    <3> QED
      BY <1>2, <1>3, <3>1 DEF Settled, TellOf
  <2>2. Settled(t, k, d) /\ FileOf(t, k) = k.data
    BY <1>1, <1>2, <1>3, <2>1, EmptyIsSettled
  <2>3. FileOf(s, k) = k.data
    BY <1>3, BufferedType
  <2> QED
    BY <1>1, <2>2, <2>3 DEF t
<1>4. CASE s.pos # 0
  <2>1. SameBuffer(s, t)
    BY <1>1, <1>2, <1>4 DEF SameBuffer
  <2>2. Settled(t, k, d) /\ FileOf(t, k) = FileOf(s, k)
    BY <1>1, <1>2, <2>1, MarksAreSettled
  <2> QED
    BY <1>1, <2>2 DEF t
<1> QED
  BY <1>3, <1>4

-----------------------------------------------------------------------------
(* The file that ByteStream's is mapped to.                                *)

AFile == Overlay(kfile.data, kfile.off, Unwritten)

LEMMA MappedFile ==
  ASSUME NEW st, NEW s \in Stream, NEW k \in KFile
  PROVE  Overlay(k.data, k.off, IF st = "open" /\ IsWriteOperation(s) THEN Pending(s) ELSE <<>>)
           = IF st = "open" THEN FileOf(s, k) ELSE k.data
<1>1. CASE st = "open"
  BY <1>1 DEF FileOf, Buffered
<1>2. CASE st # "open"
  <2>1. k.data \in Seq(Cell) /\ k.off \in Nat
    BY DEF KFile
  <2> QED
    BY <1>2, <2>1, EmptyOverlay
<1> QED
  BY <1>1, <1>2

LEMMA AFileIs ==
  ASSUME IInv, IInv'
  PROVE  /\ AFile = IF status = "open" THEN FileOf(stream, kfile) ELSE kfile.data
         /\ AFile' = IF status' = "open" THEN FileOf(stream', kfile') ELSE kfile'.data
         /\ AFile \in Seq(Cell) /\ AFile' \in Seq(Cell)
<1>1. stream \in Stream /\ kfile \in KFile /\ stream' \in Stream /\ kfile' \in KFile
  BY DEF IInv, TypeOK
<1>2. AFile = IF status = "open" THEN FileOf(stream, kfile) ELSE kfile.data
  BY <1>1, MappedFile DEF AFile, Unwritten
<1>3. AFile' = IF status' = "open" THEN FileOf(stream', kfile') ELSE kfile'.data
  BY <1>1, MappedFile DEF AFile, Unwritten
<1>4. kfile.data \in Seq(Cell) /\ kfile'.data \in Seq(Cell)
  BY <1>1 DEF KFile
<1>5. FileOf(stream, kfile) \in Seq(Cell) /\ FileOf(stream', kfile') \in Seq(Cell)
  BY <1>1, BufferedType
<1> QED
  BY <1>2, <1>3, <1>4, <1>5

\* A byte is handled by call op, or within the call block.
AnswersIn(op, v, block) == ret' \in {<<op, v>>, ret} \/ ret'[1] = block

LEMMA IsGet ==
  ASSUME status = "open", status' = status, stream.tell < Len(AFile), AFile' = AFile,
         stream'.tell = stream.tell + 1, stream'.eof = stream.eof, stream'.err = stream.err,
         AnswersIn("so_fgetc", SignedChar(AFile[stream.tell + 1]), "so_fread")
  PROVE  B!Get
  BY DEF B!Get, B!Answers, B!Signed, SignedChar, AnswersIn, AFile

LEMMA IsAtEnd ==
  ASSUME status = "open", status' = status, stream.tell >= Len(AFile), AFile' = AFile,
         stream'.tell = stream.tell, stream'.eof = TRUE, stream'.err = stream.err,
         AnswersIn("so_fgetc", SO_EOF, "so_fread")
  PROVE  B!AtEnd
  BY DEF B!AtEnd, B!Answers, AnswersIn, AFile, SO_EOF

LEMMA IsPut ==
  ASSUME status = "open", status' = status, NEW c \in Byte,
         AFile' = PutAt(AFile, stream.tell, c),
         stream'.tell = stream.tell + 1, stream'.eof = stream.eof, stream'.err = stream.err,
         AnswersIn("so_fputc", c, "so_fwrite")
  PROVE  B!Put
  BY DEF B!Put, B!With, B!Answers, AnswersIn, AFile, PutAt

LEMMA IsFail ==
  ASSUME status = "open", status' = status, AFile' = AFile,
         stream'.tell = stream.tell, stream'.eof = stream.eof, stream'.err = TRUE,
         \/ ret'[1] \in {"so_fread", "so_fwrite"}
         \/ ret' \in {"so_fgetc", "so_fputc", "so_fflush", "so_fseek"} \X {-1}
  PROVE  B!Fail
  BY DEF B!Fail, AFile

LEMMA IsRefuse ==
  ASSUME status = "open", status' = status, AFile' = AFile, stream'.tell = stream.tell,
         stream'.eof = stream.eof, stream'.err = stream.err,
         ret' \in {<<"so_fflush", -1>>, <<"so_fseek", -1>>}
  PROVE  B!Refuse
  BY DEF B!Refuse, AFile

LEMMA IsFlush ==
  ASSUME status = "open", status' = status, AFile' = AFile, stream'.tell = stream.tell,
         stream'.eof = stream.eof, stream'.err = stream.err, ret' = <<"so_fflush", 0>>
  PROVE  B!Flush
  BY DEF B!Flush, AFile

LEMMA IsSeek ==
  ASSUME status = "open", status' = status, AFile' = AFile, stream'.tell \in Nat,
         stream'.eof = stream.eof, stream'.err = stream.err, ret' = <<"so_fseek", 0>>
  PROVE  B!Seek
  BY DEF B!Seek, AFile

LEMMA IsTransferred ==
  ASSUME status = "open", status' = status, AFile' = AFile, stream'.tell = stream.tell,
         stream'.eof = stream.eof, stream'.err = stream.err,
         ret'[1] \in {"so_fread", "so_fwrite"}
  PROVE  B!Transferred
  BY DEF B!Transferred, AFile

LEMMA IsOpen ==
  ASSUME status \in {"none", "closed"}, status' = "open", AFile' \in {AFile, <<>>},
         stream'.tell = 0, stream'.eof = FALSE, stream'.err = FALSE, ret' = <<"so_fopen", 1>>
  PROVE  B!Open
  BY DEF B!Open, AFile

LEMMA IsOpenFails ==
  ASSUME status \in {"none", "closed"}, status' = status, AFile' \in {AFile, <<>>},
         stream' = stream, ret' = <<"so_fopen", 0>>
  PROVE  B!OpenFails
  BY DEF B!OpenFails, AFile

LEMMA IsClose ==
  ASSUME status = "open", status' = "closed", AFile' = AFile, stream'.tell = stream.tell,
         stream'.eof = stream.eof, stream'.err = stream.err, ret' = <<"so_fclose", 0>>
  PROVE  B!Close
  BY DEF B!Close, AFile

LEMMA IsCrash ==
  ASSUME status' = "crashed", AFile' \in Seq(Cell)
  PROVE  B!Crash
  BY DEF B!Crash, AFile

LEMMA IsStutter ==
  ASSUME status' = status, AFile' = AFile, stream'.tell = stream.tell,
         stream'.eof = stream.eof, stream'.err = stream.err, ret' = ret
  PROVE  UNCHANGED B!vars
  BY DEF B!vars, AFile

-----------------------------------------------------------------------------
(* Every action keeps the invariant and is a step of ByteStream.           *)

BStep == B!Next \/ UNCHANGED B!vars

Good == CInv' /\ BStep

LEMMA SoFopenGood ==
  ASSUME Supported, IInv, IInv', CInv, NEW mode \in Modes, SoFopen(mode), dir' = "none"
  PROVE  Good
<1>1. status \in {"none", "closed"} /\ call.op = "none" /\ call' = call /\ dir' \in Dirs
  BY DEF SoFopen, CInv, Dirs
<1>2. AFile = kfile.data /\ AFile' \in Seq(Cell)
  BY <1>1, AFileIs
<1>3. kfile'.data \in {kfile.data, <<>>}
  BY DEF SoFopen, Opened
<1>4. CASE status' = status
  <2>1. AFile' \in {AFile, <<>>}
    BY <1>1, <1>2, <1>3, <1>4, AFileIs
  <2>2. stream' = stream /\ ret' = <<"so_fopen", 0>>
    BY <1>1, <1>4 DEF SoFopen
  <2>3. B!OpenFails
    BY <1>1, <1>4, <2>1, <2>2, IsOpenFails
  <2>4. CInv'
    BY <1>1, <1>4 DEF CInv
  <2> QED
    BY <2>3, <2>4 DEF Good, BStep, B!Next
<1>5. CASE status' = "crashed"
  <2>1. B!Crash
    BY <1>2, <1>5, IsCrash
  <2>2. CInv'
    BY <1>1, <1>5 DEF CInv
  <2> QED
    BY <2>1, <2>2 DEF Good, BStep, B!Next
<1>6. CASE status' = "open"
  <2>1. mode \in AllModes /\ stream' = NewStream(mode) /\ kfile' = Opened(mode)
        /\ ret' = <<"so_fopen", 1>>
    BY <1>1, <1>6 DEF SoFopen
  <2>2. mode \notin {"a", "a+"}
    BY DEF Supported
  <2>3. /\ stream'.mode = mode /\ stream'.pos = 0 /\ stream'.tell = 0 /\ kfile'.off = 0
        /\ stream'.eof = FALSE /\ stream'.err = FALSE
    BY <2>1 DEF NewStream, Opened
  <2>4. stream' \in Stream /\ kfile' \in KFile
    BY DEF IInv, TypeOK
  <2>5. Settled(stream', kfile', "none") /\ FileOf(stream', kfile') = kfile'.data
    BY <2>2, <2>3, <2>4, EmptyIsSettled DEF Dirs
  <2>6. AFile' \in {AFile, <<>>}
    BY <1>2, <1>3, <1>6, <2>5, AFileIs
  <2>7. B!Open
    BY <1>1, <1>6, <2>1, <2>3, <2>6, IsOpen
  <2>8. CInv'
    BY <1>1, <1>6, <2>5 DEF CInv
  <2> QED
    BY <2>7, <2>8 DEF Good, BStep, B!Next
<1> QED
  BY <1>4, <1>5, <1>6 DEF SoFopen

\* The calls that end in one step leave the status and the loops alone.
LEMMA OneCall ==
  ASSUME IInv, IInv', CInv, Idle, NEW name, NEW o, Returns(name, o), NEW d \in Dirs,
         Settled(o.s, o.k, d), dir' = d
  PROVE  /\ CInv' /\ status = "open" /\ status' = status /\ ret' = <<name, o.ret>>
         /\ AFile = FileOf(stream, kfile) /\ AFile' = FileOf(o.s, o.k) /\ stream' = o.s
<1>1. /\ status = "open" /\ status' = status /\ call'.op = "none" /\ stream' = o.s
      /\ kfile' = o.k /\ ret' = <<name, o.ret>>
  BY DEF Idle, Returns, NoCall
<1>2. CInv'
  BY <1>1 DEF CInv
<1>3. AFile = FileOf(stream, kfile) /\ AFile' = FileOf(o.s, o.k)
  BY <1>1, AFileIs
<1> QED
  BY <1>1, <1>2, <1>3

LEMMA SoFgetcGood ==
  ASSUME Supported, IInv, IInv', CInv, dir \in {"none", "read"}, SoFgetc, dir' = "read"
  PROVE  Good
<1>1. PICK o \in Fgetc(stream, kfile) : Returns("so_fgetc", o) /\ Idle
  BY DEF SoFgetc
<1>2. /\ stream \in Stream /\ kfile \in KFile /\ ~ShortIO /\ status = "open"
      /\ Settled(stream, kfile, dir)
  BY <1>1 DEF IInv, TypeOK, CInv, Idle, Supported
<1>3. /\ Settled(o.s, o.k, "read") /\ FileOf(o.s, o.k) = FileOf(stream, kfile)
      /\ \/ Took(stream, FileOf(stream, kfile), o) \/ Ended(stream, FileOf(stream, kfile), o)
         \/ Failed(stream, o)
  BY <1>1, <1>2, FgetcSettled
<1>4. "read" \in Dirs
  BY DEF Dirs
<1>5. /\ CInv' /\ status = "open" /\ status' = status /\ ret' = <<"so_fgetc", o.ret>>
      /\ AFile = FileOf(stream, kfile) /\ AFile' = FileOf(o.s, o.k) /\ stream' = o.s
  BY <1>1, <1>3, <1>4, OneCall
<1>6. CASE Took(stream, AFile, o)
  <2>1. B!Get
    BY <1>3, <1>5, <1>6, IsGet DEF Took, AnswersIn
  <2> QED
    BY <1>5, <2>1 DEF Good, BStep, B!Next
<1>7. CASE Ended(stream, AFile, o)
  <2>1. B!AtEnd
    BY <1>3, <1>5, <1>7, IsAtEnd DEF Ended, AnswersIn
  <2> QED
    BY <1>5, <2>1 DEF Good, BStep, B!Next
<1>8. CASE Failed(stream, o)
  <2>1. ret' \in {"so_fgetc", "so_fputc", "so_fflush", "so_fseek"} \X {-1}
    BY <1>5, <1>8 DEF Failed, SO_EOF
  <2>2. B!Fail
    BY <1>3, <1>5, <1>8, <2>1, IsFail DEF Failed
  <2> QED
    BY <1>5, <2>2 DEF Good, BStep, B!Next
<1> QED
  BY <1>3, <1>5, <1>6, <1>7, <1>8

LEMMA SoFputcGood ==
  ASSUME Supported, IInv, IInv', CInv, dir \in {"none", "write"}, NEW c \in Byte, SoFputc(c),
         dir' = "write"
  PROVE  Good
<1>1. PICK o \in Fputc(stream, kfile, c) : Returns("so_fputc", o) /\ Idle
  BY DEF SoFputc
<1>2. /\ stream \in Stream /\ kfile \in KFile /\ ~ShortIO /\ status = "open"
      /\ Settled(stream, kfile, dir)
  BY <1>1 DEF IInv, TypeOK, CInv, Idle, Supported
<1>3. /\ Settled(o.s, o.k, "write")
      /\ \/ Placed(stream, kfile, c, o)
         \/ Failed(stream, o) /\ FileOf(o.s, o.k) = FileOf(stream, kfile)
  BY <1>1, <1>2, FputcSettled
<1>4. "write" \in Dirs
  BY DEF Dirs
<1>5. /\ CInv' /\ status = "open" /\ status' = status /\ ret' = <<"so_fputc", o.ret>>
      /\ AFile = FileOf(stream, kfile) /\ AFile' = FileOf(o.s, o.k) /\ stream' = o.s
  BY <1>1, <1>3, <1>4, OneCall
<1>6. CASE Placed(stream, kfile, c, o)
  <2>1. B!Put
    BY <1>5, <1>6, IsPut DEF Placed, AnswersIn
  <2> QED
    BY <1>5, <2>1 DEF Good, BStep, B!Next
<1>7. CASE Failed(stream, o) /\ FileOf(o.s, o.k) = FileOf(stream, kfile)
  <2>1. ret' \in {"so_fgetc", "so_fputc", "so_fflush", "so_fseek"} \X {-1}
    BY <1>5, <1>7 DEF Failed, SO_EOF
  <2>2. B!Fail
    BY <1>5, <1>7, <2>1, IsFail DEF Failed
  <2> QED
    BY <1>5, <2>2 DEF Good, BStep, B!Next
<1> QED
  BY <1>3, <1>6, <1>7

LEMMA SoFflushGood ==
  ASSUME Supported, IInv, IInv', CInv, dir # "lost", SoFflush,
         dir' = IF Positioned THEN "none" ELSE dir
  PROVE  Good
<1>1. PICK o \in Fflush(stream, kfile) : Returns("so_fflush", o) /\ Idle
  BY DEF SoFflush
<1>2. /\ stream \in Stream /\ kfile \in KFile /\ ~ShortIO /\ status = "open" /\ dir \in Dirs
      /\ Settled(stream, kfile, dir) /\ stream.mode \notin {"a", "a+"}
  BY <1>1 DEF IInv, TypeOK, CInv, Idle, Supported, Settled
<1>3. \/ /\ o.ret = 0 /\ IsWriteOperation(stream) /\ o.s = Emptied(stream)
         /\ o.k.data = FileOf(stream, kfile) /\ o.k.off = kfile.off + stream.pos
      \/ /\ o.ret = SO_EOF /\ o.k = kfile
         /\ (o.s = stream /\ ~IsWriteOperation(stream)) \/ o.s = [stream EXCEPT !.err = TRUE]
  BY <1>1, <1>2, FflushSettled
<1>4. ret' = <<"so_fflush", o.ret>> /\ (Positioned <=> o.ret = 0)
  BY <1>1 DEF Returns, Positioned
<1>5. CASE o.ret = 0
  <2>1. /\ IsWriteOperation(stream) /\ o.s = Emptied(stream) /\ o.k.data = FileOf(stream, kfile)
        /\ o.k.off = kfile.off + stream.pos /\ dir' = "none" /\ "none" \in Dirs
    BY <1>3, <1>4, <1>5 DEF SO_EOF, Dirs
  <2>2. stream.tell = o.k.off
    BY <1>2, <2>1 DEF Settled, TellOf
  <2>3. o.k \in KFile
    BY <1>1, <1>2, FflushSound DEF Sound
  <2>4. Settled(o.s, o.k, "none") /\ FileOf(o.s, o.k) = o.k.data
    BY <1>2, <2>1, <2>2, <2>3, EmptiedSettled
  <2>5. /\ CInv' /\ status = "open" /\ status' = status /\ ret' = <<"so_fflush", o.ret>>
        /\ AFile = FileOf(stream, kfile) /\ AFile' = FileOf(o.s, o.k) /\ stream' = o.s
    BY <1>1, <2>1, <2>4, OneCall
  <2>6. o.s.tell = stream.tell /\ o.s.eof = stream.eof /\ o.s.err = stream.err
    BY <1>2, <2>1, EmptiedFields
  <2>7. B!Flush
    BY <1>5, <2>1, <2>4, <2>5, <2>6, IsFlush
  <2> QED
    BY <2>5, <2>7 DEF Good, BStep, B!Next
<1>6. CASE o.ret # 0
  <2>1. /\ o.ret = SO_EOF /\ o.k = kfile /\ dir' = dir
        /\ o.s = stream \/ o.s = [stream EXCEPT !.err = TRUE]
    BY <1>3, <1>4, <1>6
  <2>2. /\ o.s \in Stream /\ SameBuffer(stream, o.s) /\ o.s.eof = stream.eof
        /\ o.s.err = stream.err \/ o.s.err = TRUE
    <3>1. SameBuffer(stream, stream)
      BY DEF SameBuffer
    <3>2. LET u == [stream EXCEPT !.err = TRUE] IN
          u \in Stream /\ SameBuffer(stream, u) /\ u.err = TRUE /\ u.eof = stream.eof
      BY <1>2, Marks
    <3> QED
      BY <1>2, <2>1, <3>1, <3>2
  <2>3. Settled(o.s, o.k, dir) /\ FileOf(o.s, o.k) = FileOf(stream, kfile)
    BY <1>2, <2>1, <2>2, MarksAreSettled
  <2>4. /\ CInv' /\ status = "open" /\ status' = status /\ ret' = <<"so_fflush", o.ret>>
        /\ AFile = FileOf(stream, kfile) /\ AFile' = FileOf(o.s, o.k) /\ stream' = o.s
    BY <1>1, <1>2, <2>1, <2>3, OneCall
  <2>5. ret' = <<"so_fflush", -1>>
    BY <2>1, <2>4 DEF SO_EOF
  <2>6. B!Refuse \/ B!Fail
    <3>1. ret' \in {"so_fgetc", "so_fputc", "so_fflush", "so_fseek"} \X {-1}
      BY <2>5
    <3>2. AFile' = AFile /\ stream'.tell = stream.tell /\ stream'.eof = stream.eof
      BY <2>2, <2>3, <2>4 DEF SameBuffer
    <3>3. CASE stream'.err = stream.err
      BY <2>4, <2>5, <3>2, <3>3, IsRefuse
    <3>4. CASE stream'.err = TRUE
      BY <2>4, <3>1, <3>2, <3>4, IsFail
    <3> QED
      BY <2>2, <2>4, <3>3, <3>4
  <2> QED
    BY <2>4, <2>6 DEF Good, BStep, B!Next
<1> QED
  BY <1>5, <1>6

LEMMA SoFseekGood ==
  ASSUME Supported, IInv, IInv', CInv, NEW offset \in SeekOffsets, NEW whence \in Whence,
         SoFseek(offset, whence), dir' = IF Positioned THEN "none" ELSE "lost"
  PROVE  Good
<1>1. PICK o \in Fseek(stream, kfile, offset, whence) : Returns("so_fseek", o) /\ Idle
  BY DEF SoFseek
<1>2. /\ stream \in Stream /\ kfile \in KFile /\ ~ShortIO /\ status = "open" /\ dir \in Dirs
      /\ Settled(stream, kfile, dir) /\ offset \in Int
  BY <1>1, StdioAssumption DEF IInv, TypeOK, CInv, Idle, Supported
<1>3. /\ Settled(o.s, o.k, IF o.ret = 0 THEN "none" ELSE "lost")
      /\ FileOf(o.s, o.k) = FileOf(stream, kfile) /\ o.s.eof = stream.eof
      /\ \/ o.ret = 0 /\ o.s.tell \in Nat /\ o.s.err = stream.err
         \/ o.ret = SO_EOF /\ o.s.tell = stream.tell /\ (o.s.err = stream.err \/ o.s.err = TRUE)
  BY <1>1, <1>2, FseekSettled
<1>4. dir' = (IF o.ret = 0 THEN "none" ELSE "lost") /\ dir' \in Dirs
  BY <1>1 DEF Returns, Positioned, Dirs
<1>5. /\ CInv' /\ status = "open" /\ status' = status /\ ret' = <<"so_fseek", o.ret>>
      /\ AFile = FileOf(stream, kfile) /\ AFile' = FileOf(o.s, o.k) /\ stream' = o.s
  BY <1>1, <1>3, <1>4, OneCall
<1>6. CASE o.ret = 0
  <2>1. B!Seek
    BY <1>3, <1>5, <1>6, IsSeek DEF SO_EOF
  <2> QED
    BY <1>5, <2>1 DEF Good, BStep, B!Next
<1>7. CASE o.ret # 0
  <2>1. ret' = <<"so_fseek", -1>>
    BY <1>3, <1>5, <1>7 DEF SO_EOF
  <2>2. B!Refuse \/ B!Fail
    <3>1. ret' \in {"so_fgetc", "so_fputc", "so_fflush", "so_fseek"} \X {-1}
      BY <2>1
    <3>2. AFile' = AFile /\ stream'.tell = stream.tell /\ stream'.eof = stream.eof
      BY <1>3, <1>5, <1>7
    <3>3. CASE stream'.err = stream.err
      BY <1>5, <2>1, <3>2, <3>3, IsRefuse
    <3>4. CASE stream'.err = TRUE
      BY <1>5, <3>1, <3>2, <3>4, IsFail
    <3> QED
      BY <1>3, <1>5, <1>7, <3>3, <3>4
  <2> QED
    BY <1>5, <2>2 DEF Good, BStep, B!Next
<1> QED
  BY <1>6, <1>7

LEMMA SoFcloseGood ==
  ASSUME Supported, IInv, IInv', CInv, SoFclose, dir' = dir
  PROVE  Good
<1>1. PICK o \in BeforeClose(stream, kfile) :
        /\ stream' = o.s /\ kfile' = o.k
        /\ \/ o.ret # SO_EOF /\ status' = "closed" /\ ret' = <<"so_fclose", 0>>
           \/ status' = "crashed"
  BY DEF SoFclose
<1>2. /\ stream \in Stream /\ kfile \in KFile /\ ~ShortIO /\ status = "open" /\ dir \in Dirs
      /\ Settled(stream, kfile, dir) /\ call' = call /\ call.op = "none"
  BY DEF SoFclose, IInv, TypeOK, CInv, Idle, Supported, NoCall
<1>3. CInv'
  BY <1>1, <1>2 DEF CInv
<1>4. CASE status' = "crashed"
  <2>1. B!Crash
    BY <1>4, AFileIs, IsCrash
  <2> QED
    BY <1>3, <2>1 DEF Good, BStep, B!Next
<1>5. CASE status' # "crashed"
  <2>1. o.ret # SO_EOF /\ status' = "closed" /\ ret' = <<"so_fclose", 0>>
    BY <1>1, <1>5
  <2>2. /\ o.k.data = FileOf(stream, kfile)
        /\ o.s.tell = stream.tell /\ o.s.eof = stream.eof /\ o.s.err = stream.err
    BY <1>2, <2>1, BeforeCloseSettled
  <2>3. AFile' = AFile
    BY <1>1, <1>2, <2>1, <2>2, AFileIs
  <2>4. B!Close
    BY <1>1, <1>2, <2>1, <2>2, <2>3, IsClose
  <2> QED
    BY <1>3, <2>4 DEF Good, BStep, B!Next
<1> QED
  BY <1>4, <1>5

\* so_fread and so_fwrite begin without a byte.
LEMMA BeginGood ==
  ASSUME Supported, IInv, IInv', CInv, NEW size \in Sizes, NEW nmemb \in 0..MaxItems,
         \/ dir = "none" /\ SoFreadBegin(size, nmemb) /\ dir' = "read"
         \/ dir \in {"none", "write"} /\ SoFwriteBegin(size, nmemb) /\ dir' = "write"
  PROVE  Good
<1>1. /\ stream \in Stream /\ stream' \in Stream /\ kfile \in KFile /\ ~ShortIO
      /\ status = "open" /\ Settled(stream, kfile, dir) /\ kfile' = kfile /\ ret' = ret
  BY DEF IInv, TypeOK, CInv, Idle, Supported, SoFreadBegin, SoFwriteBegin
<1>2. dir' \in Dirs
  BY DEF Dirs
<1>3. CASE dir = "none" /\ SoFreadBegin(size, nmemb) /\ dir' = "read"
  <2>1. stream' = [stream EXCEPT !.nrRead = 0] /\ call'.op = "so_fread"
    BY <1>3 DEF SoFreadBegin
  <2>2. /\ stream'.mode = stream.mode /\ stream'.pos = stream.pos /\ stream'.tell = stream.tell
        /\ stream'.eof = stream.eof /\ stream'.err = stream.err
    BY <1>1, <2>1 DEF Stream
  <2>3. stream.pos = 0 /\ stream.mode \notin {"a", "a+"} /\ stream.tell = TellOf(stream, kfile)
    BY <1>1, <1>3 DEF Settled, OneDirection
  <2>4. stream.tell = kfile.off
    <3>1. kfile.off \in Nat
      BY <1>1 DEF KFile
    <3> QED
      BY <2>3, <3>1 DEF TellOf
  <2>5. Settled(stream', kfile, "read") /\ FileOf(stream', kfile) = kfile.data
    BY <1>1, <2>2, <2>3, <2>4, EmptyIsSettled DEF Dirs
  <2>6. FileOf(stream, kfile) = kfile.data
    BY <1>1, <2>3, BufferedType
  <2>7. CASE size = 0
    <3>1. status' = "crashed"
      BY <1>3, <2>7 DEF SoFreadBegin
    <3>2. B!Crash
      BY <3>1, AFileIs, IsCrash
    <3>3. CInv'
      BY <1>2, <3>1 DEF CInv
    <3> QED
      BY <3>2, <3>3 DEF Good, BStep, B!Next
  <2>8. CASE size # 0
    <3>1. status' = status
      BY <1>3, <2>8 DEF SoFreadBegin
    <3>2. AFile' = AFile
      BY <1>1, <2>5, <2>6, <3>1, AFileIs
    <3>3. UNCHANGED B!vars
      BY <1>1, <2>2, <3>1, <3>2, IsStutter
    <3>4. CInv'
      BY <1>1, <1>2, <1>3, <2>1, <2>5, <3>1 DEF CInv
    <3> QED
      BY <3>3, <3>4 DEF Good, BStep
  <2> QED
    BY <2>7, <2>8
<1>4. CASE dir \in {"none", "write"} /\ SoFwriteBegin(size, nmemb) /\ dir' = "write"
  <2>1. stream' = stream /\ status' = status /\ call'.op = "so_fwrite"
    BY <1>4 DEF SoFwriteBegin
  <2>2. AFile' = AFile
    BY <1>1, <2>1, AFileIs
  <2>3. UNCHANGED B!vars
    BY <1>1, <2>1, <2>2, IsStutter
  <2>4. Settled(stream, kfile, "write")
    BY <1>1, <1>4 DEF Settled, OneDirection
  <2>5. CInv'
    BY <1>1, <1>2, <1>4, <2>1, <2>4 DEF CInv
  <2> QED
    BY <2>3, <2>5 DEF Good, BStep
<1> QED
  BY <1>3, <1>4

\* One step of the loop of so_fread or so_fwrite, on stream s, which goes on
\* or finishes.
LEMMA LoopStep ==
  ASSUME IInv, IInv', CInv, NEW d \in {"read", "write"}, dir = d, dir' = dir,
         status = "open", status' = status, NEW s \in Stream, kfile' \in KFile,
         Settled(s, kfile', d), call.op = "so_fread" <=> d = "read",
         NEW op \in {"so_fread", "so_fwrite"}, NEW v,
         \/ Finish(s, d, op, v)
         \/ stream' = s /\ call' = [call EXCEPT !.done = @ + 1] /\ UNCHANGED ret
  PROVE  /\ CInv' /\ AFile = FileOf(stream, kfile) /\ AFile' = FileOf(s, kfile')
         /\ stream'.tell = s.tell /\ stream'.eof = s.eof /\ stream'.err = s.err
         /\ ret' = ret \/ ret'[1] = op
<1>1. AFile = FileOf(stream, kfile) /\ AFile' = FileOf(stream', kfile') /\ dir' \in Dirs
  BY AFileIs DEF Dirs
<1>2. CASE Finish(s, d, op, v)
  <2>1. stream' = [s EXCEPT !.lastOp = d] /\ call'.op = "none" /\ ret'[1] = op
    BY <1>2 DEF Finish, NoCall
  <2>2. /\ Settled(stream', kfile', d) /\ FileOf(stream', kfile') = FileOf(s, kfile')
        /\ stream'.tell = s.tell /\ stream'.eof = s.eof /\ stream'.err = s.err
    BY <2>1, FinishSettled
  <2>3. CInv'
    BY <1>1, <2>1, <2>2 DEF CInv
  <2> QED
    BY <1>1, <2>1, <2>2, <2>3
<1>3. CASE stream' = s /\ call' = [call EXCEPT !.done = @ + 1] /\ UNCHANGED ret
  <2>1. call'.op = call.op
    BY <1>3 DEF IInv, TypeOK
  <2>2. call.op = "so_fwrite" => d = "write"
    BY DEF CInv
  <2>3. CInv'
    BY <1>1, <1>3, <2>1, <2>2 DEF CInv
  <2> QED
    BY <1>1, <1>3, <2>3
<1> QED
  BY <1>2, <1>3

LEMMA SoFreadStepGood ==
  ASSUME Supported, IInv, IInv', CInv, SoFreadStep, dir' = dir
  PROVE  Good
<1>1. /\ stream \in Stream /\ kfile \in KFile /\ kfile' \in KFile /\ ~ShortIO /\ dir = "read"
      /\ status = "open" /\ status' = status /\ call.op = "so_fread"
      /\ Settled(stream, kfile, "read")
  BY DEF SoFreadStep, Running, IInv, TypeOK, CInv, Supported
<1>2. CASE call.done = Total
  <2>1. Finish(stream, "read", "so_fread", call.nmemb) /\ kfile' = kfile
    BY <1>2 DEF SoFreadStep
  <2>2. /\ CInv' /\ AFile' = AFile
        /\ stream'.tell = stream.tell /\ stream'.eof = stream.eof /\ stream'.err = stream.err
    BY <1>1, <2>1, LoopStep
  <2>3. ret'[1] = "so_fread"
    BY <2>1 DEF Finish
  <2>4. B!Transferred
    BY <1>1, <2>2, <2>3, IsTransferred
  <2> QED
    BY <2>2, <2>4 DEF Good, BStep, B!Next
<1>3. CASE call.done # Total
  <2>1. PICK o \in Fgetc(stream, kfile) :
          /\ kfile' = o.k
          /\ \/ o.s.err /\ Finish(o.s, "read", "so_fread", call.done \div call.size)
             \/ /\ ~o.s.err
                /\ stream' = o.s /\ call' = [call EXCEPT !.done = @ + 1] /\ UNCHANGED ret
    BY <1>3 DEF SoFreadStep
  <2>2. /\ Settled(o.s, o.k, "read") /\ FileOf(o.s, o.k) = FileOf(stream, kfile)
        /\ \/ Took(stream, FileOf(stream, kfile), o) \/ Ended(stream, FileOf(stream, kfile), o)
           \/ Failed(stream, o)
    BY <1>1, FgetcSettled
  <2>3. o.s \in Stream
    BY <1>1, FgetcSound DEF Sound
  <2>4. /\ CInv' /\ AFile = FileOf(stream, kfile) /\ AFile' = FileOf(o.s, kfile')
        /\ stream'.tell = o.s.tell /\ stream'.eof = o.s.eof /\ stream'.err = o.s.err
        /\ ret' = ret \/ ret'[1] = "so_fread"
    BY <1>1, <2>1, <2>2, <2>3, LoopStep
  <2>5. AFile' = AFile
    BY <2>1, <2>2, <2>4
  <2>6. CASE Took(stream, AFile, o)
    <3>1. B!Get
      BY <1>1, <2>4, <2>5, <2>6, IsGet DEF Took, AnswersIn
    <3> QED
      BY <2>4, <3>1 DEF Good, BStep, B!Next
  <2>7. CASE Ended(stream, AFile, o)
    <3>1. B!AtEnd
      BY <1>1, <2>4, <2>5, <2>7, IsAtEnd DEF Ended, AnswersIn
    <3> QED
      BY <2>4, <3>1 DEF Good, BStep, B!Next
  <2>8. CASE Failed(stream, o)
    <3>1. ret'[1] = "so_fread"
      BY <2>1, <2>8 DEF Failed, Finish
    <3>2. B!Fail
      BY <1>1, <2>4, <2>5, <2>8, <3>1, IsFail DEF Failed
    <3> QED
      BY <2>4, <3>2 DEF Good, BStep, B!Next
  <2> QED
    BY <2>2, <2>4, <2>6, <2>7, <2>8
<1> QED
  BY <1>2, <1>3

LEMMA SoFwriteStepGood ==
  ASSUME Supported, IInv, IInv', CInv, NEW c \in Byte, SoFwriteStep(c), dir' = dir
  PROVE  Good
<1>1. /\ stream \in Stream /\ kfile \in KFile /\ kfile' \in KFile /\ ~ShortIO /\ dir = "write"
      /\ status = "open" /\ status' = status /\ call.op = "so_fwrite"
      /\ Settled(stream, kfile, "write")
  BY DEF SoFwriteStep, Running, IInv, TypeOK, CInv, Supported
<1>2. CASE call.done = Total
  <2>1. Finish(stream, "write", "so_fwrite", call.nmemb) /\ kfile' = kfile
    BY <1>2 DEF SoFwriteStep
  <2>2. /\ CInv' /\ AFile' = AFile
        /\ stream'.tell = stream.tell /\ stream'.eof = stream.eof /\ stream'.err = stream.err
    BY <1>1, <2>1, LoopStep
  <2>3. ret'[1] = "so_fwrite"
    BY <2>1 DEF Finish
  <2>4. B!Transferred
    BY <1>1, <2>2, <2>3, IsTransferred
  <2> QED
    BY <2>2, <2>4 DEF Good, BStep, B!Next
<1>3. CASE call.done # Total
  <2>1. PICK o \in Fputc(stream, kfile, c) :
          /\ kfile' = o.k
          /\ \/ (o.s.err \/ o.s.eof) /\ Finish(o.s, "write", "so_fwrite", call.nmemb)
             \/ /\ ~o.s.err
                /\ stream' = o.s /\ call' = [call EXCEPT !.done = @ + 1] /\ UNCHANGED ret
    BY <1>3 DEF SoFwriteStep
  <2>2. /\ Settled(o.s, o.k, "write")
        /\ \/ Placed(stream, kfile, c, o)
           \/ Failed(stream, o) /\ FileOf(o.s, o.k) = FileOf(stream, kfile)
    BY <1>1, FputcSettled
  <2>3. o.s \in Stream
    BY <1>1, FputcSound DEF Sound
  <2>4. /\ CInv' /\ AFile = FileOf(stream, kfile) /\ AFile' = FileOf(o.s, kfile')
        /\ stream'.tell = o.s.tell /\ stream'.eof = o.s.eof /\ stream'.err = o.s.err
        /\ ret' = ret \/ ret'[1] = "so_fwrite"
    BY <1>1, <2>1, <2>2, <2>3, LoopStep
  <2>5. CASE Placed(stream, kfile, c, o)
    <3>1. B!Put
      BY <1>1, <2>1, <2>4, <2>5, IsPut DEF Placed, AnswersIn
    <3> QED
      BY <2>4, <3>1 DEF Good, BStep, B!Next
  <2>6. CASE Failed(stream, o) /\ FileOf(o.s, o.k) = FileOf(stream, kfile)
    <3>1. ret'[1] = "so_fwrite"
      BY <2>1, <2>6 DEF Failed, Finish
    <3>2. B!Fail
      BY <1>1, <2>1, <2>4, <2>6, <3>1, IsFail DEF Failed
    <3> QED
      BY <2>4, <3>2 DEF Good, BStep, B!Next
  <2> QED
    BY <2>2, <2>5, <2>6
<1> QED
  BY <1>2, <1>3

LEMMA CNextIsNext == CNext => Next
  BY DEF CNext, Next

LEMMA CNextGood ==
  ASSUME Supported, IInv, IInv', CInv, CNext
  PROVE  Good
<1>1. ASSUME NEW mode \in Modes, SoFopen(mode), dir' = "none" PROVE Good
  BY <1>1, SoFopenGood
<1>2. CASE dir \in {"none", "read"} /\ SoFgetc /\ dir' = "read"
  BY <1>2, SoFgetcGood
<1>3. ASSUME dir \in {"none", "write"}, NEW c \in Byte, SoFputc(c), dir' = "write" PROVE Good
  BY <1>3, SoFputcGood
<1>4. CASE dir # "lost" /\ SoFflush /\ dir' = (IF Positioned THEN "none" ELSE dir)
  BY <1>4, SoFflushGood
<1>5. ASSUME NEW offset \in SeekOffsets, NEW whence \in Whence, SoFseek(offset, whence),
             dir' = IF Positioned THEN "none" ELSE "lost"
      PROVE  Good
  BY <1>5, SoFseekGood
<1>6. CASE SoFclose /\ UNCHANGED dir
  BY <1>6, SoFcloseGood
<1>7. ASSUME NEW size \in Sizes, NEW nmemb \in 0..MaxItems,
             \/ dir = "none" /\ SoFreadBegin(size, nmemb) /\ dir' = "read"
             \/ dir \in {"none", "write"} /\ SoFwriteBegin(size, nmemb) /\ dir' = "write"
      PROVE  Good
  BY <1>7, BeginGood
<1>8. CASE SoFreadStep /\ UNCHANGED dir
  BY <1>8, SoFreadStepGood
<1>9. ASSUME NEW c \in Byte, SoFwriteStep(c), UNCHANGED dir PROVE Good
  BY <1>9, SoFwriteStepGood
<1> QED
  BY <1>1, <1>2, <1>3, <1>4, <1>5, <1>6, <1>7, <1>8, <1>9 DEF CNext

LEMMA CInvInit == CInit => IInv /\ CInv /\ B!Init
<1> SUFFICES ASSUME CInit PROVE IInv /\ CInv /\ B!Init
  OBVIOUS
<1>1. IInv /\ status = "none" /\ call.op = "none" /\ dir = "none"
  BY InitInv DEF CInit, Init, NoCall
<1>2. CInv
  BY <1>1 DEF CInv, Dirs
<1>3. AFile = InitialFile
  <2>1. kfile = [data |-> InitialFile, off |-> 0]
    BY DEF CInit, Init
  <2>2. stream \in Stream /\ kfile \in KFile
    BY <1>1 DEF IInv, TypeOK
  <2>3. AFile = kfile.data
    BY <1>1, <2>2, MappedFile DEF AFile, Unwritten
  <2> QED
    BY <2>1, <2>3
<1>4. stream.tell = 0 /\ stream.eof = FALSE /\ stream.err = FALSE /\ ret = <<"none", 0>>
  BY DEF CInit, Init, NewStream
<1>5. B!Init
  BY <1>1, <1>3, <1>4 DEF B!Init, AFile
<1> QED
  BY <1>1, <1>2, <1>5

LEMMA CNextInv ==
  ASSUME Supported, IInv, CInv, [CNext]_cvars
  PROVE  IInv' /\ CInv' /\ [B!Next]_(B!vars)
<1>1. CASE CNext
  <2>1. IInv'
    BY <1>1, CNextIsNext, NextInv
  <2> QED
    BY <1>1, <2>1, CNextGood DEF Good, BStep
<1>2. CASE UNCHANGED cvars
  <2>1. UNCHANGED <<status, stream, kfile, call, ret, dir>>
    BY <1>2 DEF cvars, vars
  <2>2. IInv'
    BY <2>1, NextInv DEF vars
  <2>3. CInv'
    BY <2>1 DEF CInv
  <2>4. UNCHANGED B!vars
    BY <2>1 DEF B!vars, Unwritten
  <2> QED
    BY <2>2, <2>3, <2>4
<1> QED
  BY <1>1, <1>2

\* so_ftell is where the next byte will be taken or put, for every size of
\* the buffer.
THEOREM TellIsRight == ASSUME Supported PROVE CSpec => []TellAgrees
<1>1. CInit => IInv /\ CInv
  BY CInvInit
<1>2. IInv /\ CInv /\ [CNext]_cvars => (IInv /\ CInv)'
  BY CNextInv
<1>3. IInv /\ CInv => TellAgrees
  BY DEF CInv, Settled, TellOf, TellAgrees
<1> QED
  BY <1>1, <1>2, <1>3, PTL DEF CSpec

\* so_fgetc can never return a stale byte, or one nobody wrote.
THEOREM NoStaleBytes == ASSUME Supported PROVE CSpec => []ReadAheadIsFile
<1>1. CInit => IInv /\ CInv
  BY CInvInit
<1>2. IInv /\ CInv /\ [CNext]_cvars => (IInv /\ CInv)'
  BY CNextInv
<1>3. IInv /\ CInv => ReadAheadIsFile
  <2> SUFFICES ASSUME IInv, CInv, status = "open", IsReadOperation(stream), stream.pos > 0,
                      NEW i \in stream.pos..(stream.nrRead - 1)
               PROVE  LET at == kfile.off - stream.nrRead + i + 1 IN
                      at \in DOMAIN kfile.data /\ stream.buf[i] = kfile.data[at]
    BY DEF ReadAheadIsFile
  <2>1. /\ stream.nrRead <= kfile.off /\ kfile.off <= Len(kfile.data)
        /\ stream.buf[i] = kfile.data[kfile.off - stream.nrRead + i + 1]
    BY DEF CInv, Settled, Ahead, IsReadOperation
  <2>2. /\ kfile.data \in Seq(Cell) /\ kfile.off \in Nat /\ i \in Int
        /\ stream.pos \in Nat /\ stream.nrRead \in Nat
    BY StreamFields, BufFacts DEF IInv, TypeOK, KFile
  <2>3. DOMAIN kfile.data = 1..Len(kfile.data)
    BY <2>2
  <2> QED
    BY <2>1, <2>2, <2>3
<1> QED
  BY <1>1, <1>2, <1>3, PTL DEF CSpec

\* Buffering is invisible: every behaviour of the stream is one of the
\* unbuffered stream, for every size of the buffer, every file, every
\* sequence of calls within the rules and every set of calls that may fail.
THEOREM BufferingInvisible == ASSUME Supported PROVE CSpec => ImplementsByteStream
<1>1. CInit => IInv /\ CInv /\ B!Init
  BY CInvInit
<1>2. IInv /\ CInv /\ [CNext]_cvars => (IInv /\ CInv)' /\ [B!Next]_(B!vars)
  BY CNextInv
<1> QED
  BY <1>1, <1>2, PTL DEF CSpec, ImplementsByteStream, B!Spec
=============================================================================
