-------------------------- MODULE SoStdioWinProofs --------------------------
(***************************************************************************)
(* Proofs about SoStdioWin and SoStdioWinClient, for every buffer size,    *)
(* file, set of bytes, set of calls that may fail and every value of the   *)
(* bounds.  What a property needs beyond that is a hypothesis of its       *)
(* theorem.                                                                *)
(***************************************************************************)
EXTENDS SoStdioWinClient, SequenceTheorems, TLAPS

Stream ==
  [mode: AllModes, eof: BOOLEAN, err: BOOLEAN, lastOp: {"", "read", "write"},
   pos: 0..BufSize, tell: Int, size: 0..BufSize, buf: [Index -> Cell]]

KFile == [data: Seq(Cell), off: Nat]

-----------------------------------------------------------------------------
(* Files and bytes.                                                        *)

LEMMA CellFacts ==
  /\ 0 \in Byte /\ 0 \in Cell /\ Junk \in Cell /\ Byte \subseteq Cell
  /\ \A c \in Cell : c \in Nat /\ SignedChar(c) \in Int
  /\ BufSize \in Nat /\ BufSize > 0
  BY StdioWinAssumption DEF Cell, Junk, SignedChar

LEMMA EofIsInt == SO_EOF \in Int /\ SO_EOF # 0
  BY DEF SO_EOF

\* A function on 1..n is a sequence of length n.
LEMMA SeqOfFunction ==
  ASSUME NEW S, NEW n \in Nat, NEW f \in [1..n -> S]
  PROVE  f \in Seq(S) /\ Len(f) = n
  BY SeqDef

\* What Overlay makes of a file, cell by cell.
OverlaidLen(data, at, bytes) ==
  IF bytes = <<>> THEN Len(data) ELSE Larger(Len(data), at + Len(bytes))

OverlaidCell(data, at, bytes, i) ==
  IF i \in (at + 1)..(at + Len(bytes)) THEN bytes[i - at]
  ELSE IF i <= Len(data) THEN data[i] ELSE 0

LEMMA OverlaySeq ==
  ASSUME NEW data \in Seq(Cell), NEW at \in Nat, NEW bytes \in Seq(Cell)
  PROVE  /\ Overlay(data, at, bytes) \in Seq(Cell)
         /\ Len(Overlay(data, at, bytes)) = OverlaidLen(data, at, bytes)
         /\ \A i \in 1..OverlaidLen(data, at, bytes) :
              Overlay(data, at, bytes)[i] = OverlaidCell(data, at, bytes, i)
<1> DEFINE n == OverlaidLen(data, at, bytes)
           o == Overlay(data, at, bytes)
<1>1. n \in Nat
  BY DEF Larger, OverlaidLen
<1>2. \A i \in 1..n : OverlaidCell(data, at, bytes, i) \in Cell
  BY CellFacts, ElementOfSeq DEF OverlaidCell
<1>3. o = [i \in 1..n |-> OverlaidCell(data, at, bytes, i)]
  BY DEF Overlay, OverlaidCell, OverlaidLen
<1> HIDE DEF n, o
<1>4. o \in [1..n -> Cell]
  BY <1>2, <1>3
<1>5. o \in Seq(Cell) /\ Len(o) = n
  BY <1>1, <1>4, SeqOfFunction
<1> QED
  BY <1>3, <1>5 DEF n, o

LEMMA EmptyOverlay ==
  ASSUME NEW data \in Seq(Cell), NEW at \in Nat
  PROVE  Overlay(data, at, <<>>) = data
<1> DEFINE none == <<>>
<1>1. none \in Seq(Cell) /\ 0 \in Cell
  BY CellFacts
<1>2. none = <<>> /\ Len(none) = 0
  OBVIOUS
<1> HIDE DEF none
<1>3. /\ Overlay(data, at, none) \in Seq(Cell)
      /\ Len(Overlay(data, at, none)) = OverlaidLen(data, at, none)
      /\ \A i \in 1..OverlaidLen(data, at, none) :
           Overlay(data, at, none)[i] = OverlaidCell(data, at, none, i)
  BY <1>1, OverlaySeq
<1>4. OverlaidLen(data, at, none) = Len(data)
  BY <1>2 DEF OverlaidLen
<1>5. \A i \in 1..Len(data) : OverlaidCell(data, at, none, i) = data[i]
  BY <1>2 DEF OverlaidCell
<1>6. Overlay(data, at, none) = data
  BY <1>3, <1>4, <1>5, SeqEqual
<1> QED
  BY <1>6, <1>2

\* The file f after byte c is put at position p.
PutAt(f, p, c) ==
  [i \in 1..(IF p < Len(f) THEN Len(f) ELSE p + 1) |->
     IF i = p + 1 THEN c ELSE IF i <= Len(f) THEN f[i] ELSE 0]

\* Writing one more byte of a buffer puts that byte behind the others.
LEMMA OneMoreByte ==
  ASSUME NEW data \in Seq(Cell), NEW at \in Nat, NEW b \in Seq(Cell), NEW e \in Seq(Cell),
         NEW c \in Cell, Len(e) = Len(b) + 1, e[Len(e)] = c,
         \A i \in 1..Len(b) : e[i] = b[i]
  PROVE  Overlay(data, at, e) = PutAt(Overlay(data, at, b), at + Len(b), c)
<1> DEFINE f == Overlay(data, at, b)
           g == Overlay(data, at, e)
           p == at + Len(b)
           n == IF p < Len(f) THEN Len(f) ELSE p + 1
<1>1. 0 \in Cell /\ Len(b) \in Nat /\ Len(data) \in Nat /\ p \in Nat /\ e # <<>>
  BY CellFacts
<1>2. /\ f \in Seq(Cell) /\ Len(f) = OverlaidLen(data, at, b)
      /\ \A i \in 1..OverlaidLen(data, at, b) : f[i] = OverlaidCell(data, at, b, i)
  BY <1>1, OverlaySeq
<1>3. /\ Len(g) = OverlaidLen(data, at, e)
      /\ \A i \in 1..OverlaidLen(data, at, e) : g[i] = OverlaidCell(data, at, e, i)
  BY <1>1, OverlaySeq
<1>4. g = [i \in 1..OverlaidLen(data, at, e) |-> OverlaidCell(data, at, e, i)]
  BY DEF Overlay, OverlaidLen, OverlaidCell
<1> HIDE DEF f, g
<1>5. b = <<>> <=> Len(b) = 0
  BY EmptySeq
<1>6. OverlaidLen(data, at, e) = n
  BY <1>1, <1>2, <1>5 DEF OverlaidLen, Larger
<1>7. ASSUME NEW i \in 1..n
      PROVE  OverlaidCell(data, at, e, i) =
               IF i = p + 1 THEN c ELSE IF i <= Len(f) THEN f[i] ELSE 0
  <2>1. i \in Nat /\ i > 0
    BY <1>1, <1>2
  <2>2. CASE i = p + 1
    <3>1. i - at = Len(e) /\ i \in (at + 1)..(at + Len(e))
      BY <1>1, <2>2
    <3> QED
      BY <2>2, <3>1 DEF OverlaidCell
  <2>3. CASE i # p + 1 /\ i \in (at + 1)..(at + Len(e))
    <3>1. i \in (at + 1)..(at + Len(b)) /\ i - at \in 1..Len(b)
      BY <1>1, <2>1, <2>3
    <3>2. i <= Len(f) /\ i \in 1..OverlaidLen(data, at, b)
      BY <1>1, <1>2, <1>5, <2>1, <3>1 DEF OverlaidLen, Larger
    <3>3. f[i] = b[i - at]
      BY <1>2, <3>1, <3>2 DEF OverlaidCell
    <3>4. OverlaidCell(data, at, e, i) = e[i - at]
      BY <2>3 DEF OverlaidCell
    <3> QED
      BY <2>3, <3>1, <3>2, <3>3, <3>4
  <2>4. CASE i # p + 1 /\ i \notin (at + 1)..(at + Len(e))
    <3>1. i \notin (at + 1)..(at + Len(b))
      BY <1>1, <2>1, <2>4
    <3>2. OverlaidCell(data, at, e, i) = IF i <= Len(data) THEN data[i] ELSE 0
      BY <2>4 DEF OverlaidCell
    <3>3. i <= Len(f) => f[i] = IF i <= Len(data) THEN data[i] ELSE 0
      BY <1>2, <2>1, <3>1 DEF OverlaidCell
    <3>4. i <= Len(data) => i <= Len(f)
      BY <1>1, <1>2, <2>1 DEF OverlaidLen, Larger
    <3> QED
      BY <2>4, <3>2, <3>3, <3>4
  <2> QED
    BY <2>2, <2>3, <2>4
<1>8. g = PutAt(f, p, c)
  BY <1>4, <1>6, <1>7 DEF PutAt
<1> QED
  BY <1>8 DEF f, g

\* What a stream of each mode leaves of a file.
Kept(mode, k, l) ==
  /\ mode = "r" => l.data = k.data
  /\ mode \in {"a", "a+"} =>
       /\ Len(k.data) <= Len(l.data)
       /\ SubSeq(l.data, 1, Len(k.data)) = k.data

LEMMA KeptSame ==
  ASSUME NEW mode, NEW k \in KFile, NEW l, l.data = k.data
  PROVE  Kept(mode, k, l)
  BY DEF Kept, KFile

LEMMA KeptTwice ==
  ASSUME NEW mode, NEW k, NEW l, NEW m, Kept(mode, k, l), m.data = l.data
  PROVE  Kept(mode, k, m)
  BY DEF Kept

\* Appending leaves the file before the end alone.
LEMMA AppendKeeps ==
  ASSUME NEW data \in Seq(Cell), NEW b \in Seq(Cell)
  PROVE  LET new == Overlay(data, Len(data), b) IN
         /\ Len(new) = Len(data) + Len(b)
         /\ SubSeq(new, 1, Len(data)) = data
<1> DEFINE new == Overlay(data, Len(data), b)
<1>1. /\ new \in Seq(Cell)
      /\ Len(new) = OverlaidLen(data, Len(data), b)
      /\ \A i \in 1..OverlaidLen(data, Len(data), b) :
           new[i] = OverlaidCell(data, Len(data), b, i)
  BY OverlaySeq
<1> HIDE DEF new
<1>2. Len(b) \in Nat /\ Len(data) \in Nat /\ (b = <<>> => Len(b) = 0)
  OBVIOUS
<1>3. Len(new) = Len(data) + Len(b)
  BY <1>1, <1>2 DEF Larger, OverlaidLen
<1>4. \A i \in 1..Len(data) : new[i] = data[i]
  BY <1>1, <1>2, <1>3 DEF OverlaidCell
<1>5. /\ SubSeq(new, 1, Len(data)) \in Seq(Cell)
      /\ Len(SubSeq(new, 1, Len(data))) = Len(data)
      /\ \A i \in 1..Len(data) : SubSeq(new, 1, Len(data))[i] = data[i]
  BY <1>1, <1>2, <1>3, <1>4
<1>6. SubSeq(new, 1, Len(data)) = data
  BY <1>5, SeqEqual
<1> QED
  BY <1>3, <1>6 DEF new

-----------------------------------------------------------------------------
(* The assignments to the fields of a stream that the calls make.          *)

\* The stream s field by field.
Is(s, mode, eof, err, lastOp, pos, tell, size, buf) ==
  /\ s \in Stream
  /\ s.mode = mode /\ s.eof = eof /\ s.err = err /\ s.lastOp = lastOp
  /\ s.pos = pos /\ s.tell = tell /\ s.size = size /\ s.buf = buf

LEMMA StreamNumbers ==
  ASSUME NEW s \in Stream
  PROVE  /\ s.pos \in Nat /\ s.pos <= BufSize /\ s.size \in Nat /\ s.size <= BufSize
         /\ s.tell \in Int /\ BufSize \in Nat /\ BufSize > 0
<1>1. s.pos \in 0..BufSize /\ s.size \in 0..BufSize /\ s.tell \in Int
  BY DEF Stream
<1> QED
  BY <1>1, CellFacts

LEMMA StreamFields ==
  ASSUME NEW s \in Stream
  PROVE  /\ s.buf \in [Index -> Cell]
         /\ s.mode \in AllModes
         /\ s.eof \in BOOLEAN /\ s.err \in BOOLEAN
  BY DEF Stream

LEMMA FileFields ==
  ASSUME NEW k \in KFile
  PROVE  k.data \in Seq(Cell) /\ k.off \in Nat /\ Len(k.data) \in Nat
<1>1. k.data \in Seq(Cell) /\ k.off \in Nat
  BY DEF KFile
<1> QED
  BY <1>1

LEMMA SetErr ==
  \A s \in Stream :
    Is([s EXCEPT !.err = TRUE],
       s.mode, s.eof, TRUE, s.lastOp, s.pos, s.tell, s.size, s.buf)
  BY DEF Stream, Is

LEMMA SetEnd ==
  \A s \in Stream :
    0 \in 0..BufSize =>
      Is([s EXCEPT !.pos = 0, !.eof = TRUE],
         s.mode, TRUE, s.err, s.lastOp, 0, s.tell, s.size, s.buf)
  BY DEF Stream, Is

LEMMA SetCounts ==
  \A s \in Stream, p, n \in 0..BufSize :
    Is([s EXCEPT !.pos = p, !.size = n],
       s.mode, s.eof, s.err, s.lastOp, p, s.tell, n, s.buf)
  BY DEF Stream, Is

LEMMA SetBuffer ==
  ASSUME NEW s \in Stream, NEW p \in 0..BufSize, NEW n \in 0..BufSize, NEW b \in [Index -> Cell]
  PROVE  Is([s EXCEPT !.pos = p, !.size = n, !.buf = b],
            s.mode, s.eof, s.err, s.lastOp, p, s.tell, n, b)
<1> DEFINE r == [s EXCEPT !.pos = p, !.size = n, !.buf = b]
<1>1. r \in Stream
  BY DEF Stream
<1>2. /\ r.mode = s.mode /\ r.eof = s.eof /\ r.err = s.err /\ r.lastOp = s.lastOp
      /\ r.pos = p /\ r.tell = s.tell /\ r.size = n /\ r.buf = b
  BY DEF Stream
<1> QED
  BY <1>1, <1>2 DEF Is

LEMMA SetTaken ==
  ASSUME NEW s \in Stream, NEW p \in 0..BufSize, NEW n \in 0..BufSize, NEW t \in Int
  PROVE  Is([s EXCEPT !.size = n, !.tell = t, !.lastOp = "read", !.pos = p],
            s.mode, s.eof, s.err, "read", p, t, n, s.buf)
<1> DEFINE r == [s EXCEPT !.size = n, !.tell = t, !.lastOp = "read", !.pos = p]
<1>1. r \in Stream
  BY DEF Stream
<1>2. /\ r.mode = s.mode /\ r.eof = s.eof /\ r.err = s.err /\ r.lastOp = "read"
      /\ r.pos = p /\ r.tell = t /\ r.size = n /\ r.buf = s.buf
  BY DEF Stream
<1> QED
  BY <1>1, <1>2 DEF Is

LEMMA SetPut ==
  ASSUME NEW s \in Stream, NEW p \in 0..BufSize, NEW n \in 0..BufSize, NEW t \in Int,
         NEW b \in [Index -> Cell]
  PROVE  Is([s EXCEPT !.buf = b, !.pos = p, !.size = n, !.tell = t, !.lastOp = "write"],
            s.mode, s.eof, s.err, "write", p, t, n, b)
<1> DEFINE r == [s EXCEPT !.buf = b, !.pos = p, !.size = n, !.tell = t, !.lastOp = "write"]
<1>1. r \in Stream
  BY DEF Stream
<1>2. /\ r.mode = s.mode /\ r.eof = s.eof /\ r.err = s.err /\ r.lastOp = "write"
      /\ r.pos = p /\ r.tell = t /\ r.size = n /\ r.buf = b
  BY DEF Stream
<1> QED
  BY <1>1, <1>2 DEF Is

LEMMA SetMoved ==
  \A s \in Stream, t \in Int :
    /\ Is([s EXCEPT !.tell = t, !.lastOp = ""],
          s.mode, s.eof, s.err, "", s.pos, t, s.size, s.buf)
    /\ Is([s EXCEPT !.err = TRUE, !.lastOp = ""],
          s.mode, s.eof, TRUE, "", s.pos, s.tell, s.size, s.buf)
  BY DEF Stream, Is

LEMMA SetLastOp ==
  \A s \in Stream, l \in {"read", "write"} :
    Is([s EXCEPT !.lastOp = l],
       s.mode, s.eof, s.err, l, s.pos, s.tell, s.size, s.buf)
  BY DEF Stream, Is

-----------------------------------------------------------------------------
(* The invariant of an open stream s on a file k.                          *)

\* The first n bytes of the buffer; those that are in the buffer only; and
\* the file with them in it.
First(s, n) == [i \in 1..n |-> s.buf[i - 1]]
Buffered(s) == IF IsWriteOperation(s) THEN First(s, s.size) ELSE <<>>
FileOf(s, k) == Overlay(k.data, k.off, Buffered(s))

\* What was read ahead is what lies before the file pointer.
Ahead(s, k) ==
  s.lastOp = "read" =>
    /\ CanRead(s.mode)
    /\ s.pos + s.size <= BufSize
    /\ s.size <= k.off
    /\ s.size > 0 => k.off <= Len(k.data)
    /\ \A i \in 0..(s.size - 1) : s.buf[s.pos + i] = k.data[k.off - s.size + i + 1]

\* The buffer is filled from its start, up to the position when writing and
\* behind it when reading.
Settled(s, k) ==
  /\ s \in Stream /\ k \in KFile /\ s.tell \in Nat
  /\ s.lastOp \notin {"read", "write"} => s.pos = 0 /\ s.size = 0
  /\ s.lastOp = "write" => s.pos = s.size /\ CanWrite(s.mode)
  /\ Ahead(s, k)

AtTell(s, k) ==
  s.mode # "a" => s.tell = k.off + (IF IsWriteOperation(s) THEN s.size ELSE -s.size)

\* What waits in the buffer of an append stream will go to the end.
Appending(s, k) ==
  s.mode \in {"a", "a+"} /\ s.lastOp = "write" /\ (s.size > 0 \/ s.mode = "a+") =>
    k.off = Len(k.data)

LEMMA SettledFields ==
  ASSUME NEW s, NEW k, Settled(s, k)
  PROVE  /\ s \in Stream /\ k \in KFile /\ k.data \in Seq(Cell) /\ k.off \in Nat
         /\ Len(k.data) \in Nat /\ s.tell \in Nat
         /\ s.pos \in Nat /\ s.pos <= BufSize /\ s.size \in Nat /\ s.size <= BufSize
         /\ s.buf \in [Index -> Cell] /\ BufSize \in Nat /\ BufSize > 0
         /\ s.mode \in AllModes
<1>1. s \in Stream /\ k \in KFile /\ s.tell \in Nat
  BY DEF Settled
<1>2. k.data \in Seq(Cell) /\ k.off \in Nat /\ Len(k.data) \in Nat
  BY <1>1 DEF KFile
<1> QED
  BY <1>1, <1>2, StreamNumbers, StreamFields

LEMMA FirstType ==
  ASSUME NEW s \in Stream, NEW n \in 0..s.size
  PROVE  /\ First(s, n) \in Seq(Cell) /\ Len(First(s, n)) = n
         /\ n = 0 => First(s, n) = <<>>
<1>1. s.size \in Nat /\ s.size <= BufSize /\ BufSize \in Nat /\ s.buf \in [Index -> Cell]
  BY StreamNumbers, StreamFields
<1>2. n \in Nat /\ n <= BufSize /\ s.buf \in [Index -> Cell] /\ BufSize \in Nat
  BY <1>1
<1>3. First(s, n) \in [1..n -> Cell]
  BY <1>2 DEF First, Index
<1>4. First(s, n) \in Seq(Cell) /\ Len(First(s, n)) = n
  BY <1>2, <1>3, SeqOfFunction
<1> QED
  BY <1>4, EmptySeq

LEMMA BufferedType ==
  ASSUME NEW s \in Stream, NEW k \in KFile
  PROVE  /\ Buffered(s) \in Seq(Cell) /\ FileOf(s, k) \in Seq(Cell)
         /\ Len(Buffered(s)) = IF IsWriteOperation(s) THEN s.size ELSE 0
         /\ s.size = 0 \/ ~IsWriteOperation(s) => FileOf(s, k) = k.data
<1>1. k.data \in Seq(Cell) /\ k.off \in Nat /\ s.size \in 0..s.size
  BY StreamNumbers DEF KFile
<1>2. /\ First(s, s.size) \in Seq(Cell) /\ Len(First(s, s.size)) = s.size
      /\ s.size = 0 => First(s, s.size) = <<>>
  BY <1>1, FirstType
<1> DEFINE none == <<>>
<1>3. none \in Seq(Cell) /\ Len(none) = 0
  OBVIOUS
<1>4. Buffered(s) = IF IsWriteOperation(s) THEN First(s, s.size) ELSE none
  BY DEF Buffered
<1>5. s.size = 0 \/ ~IsWriteOperation(s) => Buffered(s) = <<>>
  BY <1>2, <1>4
<1> HIDE DEF none
<1>6. Buffered(s) \in Seq(Cell) /\ Len(Buffered(s)) = IF IsWriteOperation(s) THEN s.size ELSE 0
  BY <1>2, <1>3, <1>4
<1>7. Overlay(k.data, k.off, Buffered(s)) \in Seq(Cell)
  BY <1>1, <1>6, OverlaySeq
<1>8. s.size = 0 \/ ~IsWriteOperation(s) => FileOf(s, k) = k.data
  BY <1>1, <1>5, EmptyOverlay DEF FileOf
<1> QED
  BY <1>6, <1>7, <1>8 DEF FileOf

LEMMA TellCases ==
  ASSUME NEW s \in Stream, NEW k \in KFile
  PROVE  AtTell(s, k) <=>
           \/ s.mode = "a"
           \/ IsWriteOperation(s) /\ s.tell = k.off + s.size
           \/ ~IsWriteOperation(s) /\ s.tell = k.off - s.size
<1>1. k.off \in Nat /\ s.size \in Nat
  BY StreamNumbers DEF KFile
<1>2. k.off + (-s.size) = k.off - s.size
  BY <1>1
<1> QED
  BY <1>2 DEF AtTell

\* A stream with nothing in its buffer.
Empty(s) ==
  /\ s.size = 0
  /\ s.lastOp # "read" => s.pos = 0
  /\ s.lastOp = "read" => CanRead(s.mode)
  /\ s.lastOp = "write" => CanWrite(s.mode)

LEMMA EmptyIsSettled ==
  ASSUME NEW s \in Stream, NEW k \in KFile, s.tell \in Nat, Empty(s)
  PROVE  /\ Settled(s, k) /\ FileOf(s, k) = k.data
         /\ s.tell = k.off => AtTell(s, k)
<1>1. k.off \in Nat /\ s.pos \in Nat /\ s.pos <= BufSize /\ BufSize \in Nat
  BY StreamNumbers DEF KFile
<1>2. Ahead(s, k)
  BY <1>1 DEF Ahead, Empty
<1>3. s.tell = k.off => AtTell(s, k)
  <2>1. s.size \in Nat /\ s.size <= 0
    BY StreamNumbers DEF Empty
  <2>2. k.off + s.size = k.off /\ k.off - s.size = k.off
    BY <1>1, <2>1
  <2> QED
    BY <2>2, TellCases
<1>4. FileOf(s, k) = k.data
  BY BufferedType DEF Empty
<1> QED
  BY <1>2, <1>3, <1>4 DEF Settled, Empty

\* Marks of an error or the end of file change nothing that is settled.
SameBuffer(s, t) ==
  /\ t.mode = s.mode /\ t.lastOp = s.lastOp /\ t.pos = s.pos /\ t.tell = s.tell
  /\ t.size = s.size /\ t.buf = s.buf

LEMMA MarksAreSettled ==
  ASSUME NEW s, NEW t \in Stream, NEW k, SameBuffer(s, t), Settled(s, k)
  PROVE  /\ Settled(t, k) /\ FileOf(t, k) = FileOf(s, k)
         /\ AtTell(s, k) => AtTell(t, k)
         /\ Appending(s, k) => Appending(t, k)
<1>1. IsWriteOperation(t) <=> IsWriteOperation(s)
  BY DEF SameBuffer, IsWriteOperation
<1>2. FileOf(t, k) = FileOf(s, k)
  BY <1>1 DEF SameBuffer, FileOf, Buffered, First
<1>3. Ahead(t, k) /\ Settled(t, k)
  BY DEF SameBuffer, Settled, Ahead
<1>4. (AtTell(s, k) => AtTell(t, k)) /\ (Appending(s, k) => Appending(t, k))
  BY <1>1 DEF SameBuffer, AtTell, Appending
<1> QED
  BY <1>2, <1>3, <1>4

-----------------------------------------------------------------------------
(* The calls: what every outcome o of a call on a settled stream is.       *)

LEMMA WroteType ==
  ASSUME NEW s, NEW k, Settled(s, k), IsWriteOperation(s), NEW n \in 0..s.size
  PROVE  Wrote(s, k, n) \in KFile /\ (Appending(s, k) => Kept(s.mode, k, Wrote(s, k, n)))
<1> DEFINE b == First(s, n)
           new == Overlay(k.data, k.off, b)
           next == k.off + n
<1>1. /\ s \in Stream /\ k \in KFile /\ k.data \in Seq(Cell) /\ k.off \in Nat
      /\ s.size \in Nat
  BY SettledFields
<1>2. /\ s \in Stream /\ k \in KFile /\ k.data \in Seq(Cell) /\ k.off \in Nat
      /\ s.size \in Nat /\ n \in Nat /\ n <= s.size
  BY <1>1
<1>3. b \in Seq(Cell) /\ (n = 0 => b = <<>>)
  BY <1>2, FirstType
<1>4. Wrote(s, k, n) = [data |-> new, off |-> next]
  BY DEF Wrote, First
<1> HIDE DEF b
<1>5. new \in Seq(Cell)
  BY <1>2, <1>3, OverlaySeq
<1>6. next \in Nat
  BY <1>2
<1>7. n = 0 => new = k.data
  BY <1>2, <1>3, EmptyOverlay
<1>8. k.off = Len(k.data) => /\ Len(k.data) <= Len(new)
                             /\ SubSeq(new, 1, Len(k.data)) = k.data
  <2> SUFFICES ASSUME k.off = Len(k.data)
               PROVE  /\ Len(k.data) <= Len(new)
                      /\ SubSeq(new, 1, Len(k.data)) = k.data
    OBVIOUS
  <2>1. new = Overlay(k.data, Len(k.data), b)
    OBVIOUS
  <2>2. /\ Len(new) = Len(k.data) + Len(b)
        /\ SubSeq(new, 1, Len(k.data)) = k.data
    BY <1>2, <1>3, <2>1, AppendKeeps
  <2>3. Len(k.data) \in Nat /\ Len(b) \in Nat
    BY <1>2, <1>3
  <2> QED
    BY <2>2, <2>3
<1> HIDE DEF new, next
<1>9. Wrote(s, k, n) \in KFile /\ Wrote(s, k, n).data = new
  BY <1>4, <1>5, <1>6 DEF KFile
<1>10. ASSUME Appending(s, k) PROVE Kept(s.mode, k, Wrote(s, k, n))
  <2>1. s.mode # "r"
    BY DEF Settled, IsWriteOperation, CanWrite
  <2>2. CASE n = 0
    BY <1>2, <1>7, <1>9, <2>2, KeptSame
  <2>3. CASE n # 0
    <3>1. s.size > 0
      BY <1>2, <2>3
    <3>2. s.mode \in {"a", "a+"} => k.off = Len(k.data)
      BY <1>10, <3>1 DEF Appending, IsWriteOperation
    <3> QED
      BY <1>8, <1>9, <2>1, <3>2 DEF Kept
  <2> QED
    BY <2>2, <2>3
<1> QED
  BY <1>9, <1>10

\* Everything that was pending is in the file.
Flushed(s, k, t, l) ==
  /\ Is(t, s.mode, s.eof, s.err, "write", 0, s.tell, 0, s.buf)
  /\ l \in KFile /\ l.data = FileOf(s, k) /\ l.off = k.off + s.size

LEMMA FflushSettled ==
  ASSUME NEW s, NEW k, Settled(s, k), IsWriteOperation(s), NEW o \in Fflush(s, k)
  PROVE  /\ o.s \in Stream /\ o.k \in KFile /\ o.s.mode = s.mode /\ o.ret = 0
         /\ Appending(s, k) => Kept(s.mode, k, o.k)
         /\ ~o.hangs => Flushed(s, k, o.s, o.k)
<1>1. s \in Stream /\ s.size \in Nat /\ s.size <= BufSize /\ BufSize \in Nat /\ s.lastOp = "write"
  BY SettledFields DEF IsWriteOperation
<1>2. CASE o = Outcome([s EXCEPT !.pos = 0, !.size = 0], Wrote(s, k, s.size), 0)
  <2> DEFINE t == [s EXCEPT !.pos = 0, !.size = 0]
             n == s.size
  <2>1. Is(t, s.mode, s.eof, s.err, s.lastOp, 0, s.tell, 0, s.buf)
    <3>1. 0 \in 0..BufSize
      BY <1>1
    <3> QED
      BY <1>1, <3>1, SetCounts
  <2>2. o.s = t /\ o.k = Wrote(s, k, s.size) /\ o.ret = 0
    BY <1>2 DEF Outcome
  <2> HIDE DEF t
  <2>3. n \in 0..s.size
    BY <1>1
  <2>4. Wrote(s, k, n) \in KFile /\ (Appending(s, k) => Kept(s.mode, k, Wrote(s, k, n)))
    BY <2>3, WroteType
  <2>5. /\ Wrote(s, k, s.size).data = FileOf(s, k)
        /\ Wrote(s, k, s.size).off = k.off + s.size
    BY DEF Wrote, FileOf, Buffered, First
  <2> QED
    BY <1>1, <2>1, <2>2, <2>4, <2>5 DEF Flushed, Is
<1>3. CASE o # Outcome([s EXCEPT !.pos = 0, !.size = 0], Wrote(s, k, s.size), 0)
  <2>1. PICK n \in 0..(s.size - 1) :
          o = Hung([s EXCEPT !.pos = n, !.size = @ - n], Wrote(s, k, n))
    BY <1>3 DEF Fflush
  <2> DEFINE m == s.size - n
             t == [s EXCEPT !.pos = n, !.size = m]
  <2>2. n \in 0..BufSize /\ m \in 0..BufSize /\ n \in 0..s.size
    BY <1>1
  <2>3. o.s = t /\ o.k = Wrote(s, k, n) /\ o.ret = 0 /\ o.hangs = TRUE
    BY <2>1 DEF Hung
  <2> HIDE DEF m
  <2>4. Is(t, s.mode, s.eof, s.err, s.lastOp, n, s.tell, m, s.buf)
    BY <1>1, <2>2, SetCounts
  <2> HIDE DEF t
  <2>5. Wrote(s, k, n) \in KFile /\ (Appending(s, k) => Kept(s.mode, k, Wrote(s, k, n)))
    BY <2>2, WroteType
  <2> QED
    BY <2>3, <2>4, <2>5 DEF Is
<1> QED
  BY <1>2, <1>3

LEMMA FlushedSettled ==
  ASSUME NEW s, NEW k, NEW t, NEW l, Settled(s, k), IsWriteOperation(s), Flushed(s, k, t, l)
  PROVE  /\ Settled(t, l) /\ FileOf(t, l) = FileOf(s, k)
         /\ AtTell(s, k) => t.mode = "a" \/ t.tell = l.off
         /\ AtTell(s, k) => AtTell(t, l)
         /\ k.off = Len(k.data) => l.off = Len(l.data)
         /\ Appending(s, k) => Appending(t, l)
<1>1. /\ s \in Stream /\ k \in KFile /\ k.off \in Nat /\ k.data \in Seq(Cell) /\ s.tell \in Nat
      /\ s.size \in Nat /\ s.mode \in AllModes
  BY SettledFields
<1>2. /\ t \in Stream /\ t.mode = s.mode /\ t.lastOp = "write" /\ t.pos = 0 /\ t.size = 0
      /\ t.tell = s.tell /\ l \in KFile /\ l.data = FileOf(s, k) /\ l.off = k.off + s.size
  BY DEF Flushed, Is
<1>3. Empty(t)
  BY <1>2 DEF Empty, Settled, IsWriteOperation
<1>4. /\ Settled(t, l) /\ FileOf(t, l) = FileOf(s, k)
      /\ t.tell = l.off => AtTell(t, l)
  BY <1>1, <1>2, <1>3, EmptyIsSettled
<1>5. AtTell(s, k) => t.mode = "a" \/ t.tell = l.off
  BY <1>1, <1>2, TellCases
<1>6. ASSUME k.off = Len(k.data) PROVE l.off = Len(l.data)
  <2>1. k.off = Len(k.data)
    BY <1>6
  <2>2. Buffered(s) \in Seq(Cell) /\ Len(Buffered(s)) = s.size
    BY <1>1, BufferedType
  <2>3. l.data = Overlay(k.data, Len(k.data), Buffered(s))
    BY <1>2, <2>1 DEF FileOf
  <2>4. Len(l.data) = Len(k.data) + Len(Buffered(s))
    BY <1>1, <2>2, <2>3, AppendKeeps
  <2> QED
    BY <1>2, <2>1, <2>2, <2>4
<1>7. Appending(s, k) => Appending(t, l)
  BY <1>2, <1>6 DEF Appending, IsWriteOperation
<1>8. t.mode = "a" => AtTell(t, l)
  BY DEF AtTell
<1> QED
  BY <1>4, <1>5, <1>6, <1>7, <1>8

\* What a call that ends with outcome o may have done for its caller: take
\* the byte at the position, report the end of the file f, or fail.
Took(s, f, o) ==
  /\ s.tell < Len(f) /\ o.s.tell = s.tell + 1 /\ o.ret = SignedChar(f[s.tell + 1])
  /\ o.s.eof = s.eof /\ o.s.err = s.err

Ended(s, f, o) ==
  /\ "read" \notin Faults => s.tell >= Len(f)
  /\ o.s.tell = s.tell /\ o.ret = SO_EOF /\ o.s.eof = TRUE /\ o.s.err = s.err

Failed(s, o) ==
  o.s.tell = s.tell /\ o.ret = SO_EOF /\ o.s.eof = s.eof /\ o.s.err = TRUE

\* The buffer holds what lies before the file pointer.
Holding(s, k) ==
  /\ s.size > 0 /\ s.pos + s.size <= BufSize
  /\ s.size <= k.off /\ k.off <= Len(k.data)
  /\ \A i \in 0..(s.size - 1) : s.buf[s.pos + i] = k.data[k.off - s.size + i + 1]

LEMMA TakeSettled ==
  ASSUME NEW s \in Stream, NEW k \in KFile, s.tell \in Nat, CanRead(s.mode), Holding(s, k),
         NEW o, o = TakeByte(s, k)
  PROVE  /\ o.k = k /\ ~o.hangs /\ o.ret \in Int /\ Settled(o.s, k)
         /\ o.s.mode = s.mode /\ o.s.lastOp = "read"
         /\ s.tell = k.off - s.size => AtTell(o.s, k) /\ Took(s, k.data, o)
<1>1. /\ k.off \in Nat /\ Len(k.data) \in Nat /\ k.data \in Seq(Cell)
      /\ s.pos \in Nat /\ s.size \in Nat /\ BufSize \in Nat /\ s.tell \in Nat
      /\ s.buf \in [Index -> Cell]
  BY StreamNumbers, StreamFields, FileFields
<1>2. /\ s.size > 0 /\ s.pos + s.size <= BufSize /\ s.size <= k.off /\ k.off <= Len(k.data)
      /\ \A i \in 0..(s.size - 1) : s.buf[s.pos + i] = k.data[k.off - s.size + i + 1]
  BY DEF Holding
<1> DEFINE n == s.size - 1
           u == s.tell + 1
           p == s.pos + 1
           t == [s EXCEPT !.size = n, !.tell = u, !.lastOp = "read", !.pos = p]
<1>3. n \in 0..BufSize /\ p \in 0..BufSize /\ u \in Int /\ u \in Nat /\ s.pos \in Index
  BY <1>1, <1>2 DEF Index
<1>4. Is(t, s.mode, s.eof, s.err, "read", p, u, n, s.buf)
  BY <1>3, SetTaken
<1>5. o.s = t /\ o.k = k /\ o.ret = SignedChar(s.buf[s.pos]) /\ o.hangs = FALSE
  BY DEF TakeByte, Outcome
<1> HIDE DEF t
<1>6. /\ t \in Stream /\ t.mode = s.mode /\ t.eof = s.eof /\ t.err = s.err /\ t.lastOp = "read"
      /\ t.pos = p /\ t.tell = u /\ t.size = n /\ t.buf = s.buf
  BY <1>4 DEF Is
<1>7. Ahead(t, k)
  <2>1. p + n <= BufSize /\ n <= k.off
    BY <1>1, <1>2
  <2>2. ASSUME NEW i \in 0..(n - 1) PROVE s.buf[p + i] = k.data[k.off - n + i + 1]
    <3>1. i + 1 \in 0..(s.size - 1) /\ s.pos + (i + 1) = p + i
          /\ k.off - s.size + (i + 1) + 1 = k.off - n + i + 1
      <4>1. n = s.size - 1 /\ p = s.pos + 1 /\ n \in Int /\ p \in Int
        BY <1>1
      <4>2. i \in Int /\ 0 <= i /\ i <= n - 1
        BY <4>1
      <4>3. s.size \in Int /\ s.pos \in Int /\ k.off \in Int
        BY <1>1
      <4> HIDE DEF p, n
      <4>4. i + 1 \in 0..(s.size - 1)
        BY <4>1, <4>2, <4>3
      <4>5. s.pos + (i + 1) = p + i
        BY <4>1, <4>2, <4>3
      <4>6. k.off - s.size + (i + 1) + 1 = k.off - n + i + 1
        BY <4>1, <4>2, <4>3
      <4> QED
        BY <4>4, <4>5, <4>6
    <3> HIDE DEF p, n
    <3> QED
      BY <1>2, <3>1
  <2> HIDE DEF p, n
  <2> QED
    BY <1>2, <1>6, <2>1, <2>2 DEF Ahead
<1>8. Settled(t, k)
  BY <1>3, <1>6, <1>7 DEF Settled
<1>9. o.ret \in Int
  <2>1. s.buf[s.pos] \in Cell
    BY <1>1, <1>3
  <2> QED
    BY <1>5, <2>1, CellFacts
<1>10. ASSUME s.tell = k.off - s.size PROVE AtTell(t, k) /\ Took(s, k.data, o)
  <2>1. u = k.off - n
    BY <1>1, <1>10
  <2>2. ~IsWriteOperation(t) /\ t.tell = k.off - t.size
    BY <1>6, <2>1 DEF IsWriteOperation
  <2>3. AtTell(t, k)
    BY <1>6, <2>2, TellCases
  <2>4. s.tell < Len(k.data)
    BY <1>1, <1>2, <1>10
  <2>5. s.buf[s.pos] = k.data[s.tell + 1]
    <3>1. 0 \in 0..(s.size - 1) /\ s.pos + 0 = s.pos /\ k.off - s.size + 0 + 1 = s.tell + 1
      BY <1>1, <1>2, <1>10
    <3> QED
      BY <1>2, <3>1
  <2> QED
    BY <1>5, <1>6, <2>3, <2>4, <2>5 DEF Took
<1> QED
  BY <1>5, <1>6, <1>8, <1>9, <1>10

LEMMA RefilledType ==
  ASSUME NEW s \in Stream, NEW k \in KFile, NEW n \in 1..BufSize, k.off + n <= Len(k.data)
  PROVE  LET t == Refilled(s, k, n) IN
         /\ t \in Stream /\ t.pos = 0 /\ t.size = n /\ t.mode = s.mode /\ t.tell = s.tell
         /\ t.lastOp = s.lastOp /\ t.eof = s.eof /\ t.err = s.err
         /\ \A i \in 0..(n - 1) : t.buf[i] = k.data[k.off + i + 1]
<1> DEFINE b == [i \in Index |-> IF i < n THEN k.data[k.off + i + 1] ELSE s.buf[i]]
           t == Refilled(s, k, n)
<1>1. /\ k.off \in Nat /\ Len(k.data) \in Nat /\ k.data \in Seq(Cell)
      /\ s.buf \in [Index -> Cell] /\ BufSize \in Nat /\ n \in Nat /\ n <= BufSize
  <2>1. BufSize \in Nat
    BY CellFacts
  <2>2. n \in Nat /\ n <= BufSize
    BY <2>1
  <2>3. s.buf \in [Index -> Cell]
    BY StreamFields
  <2> QED
    BY <2>1, <2>2, <2>3, FileFields
<1>2. b \in [Index -> Cell]
  <2>1. ASSUME NEW i \in Index, i < n PROVE k.data[k.off + i + 1] \in Cell
    <3>1. k.off + i + 1 \in 1..Len(k.data)
      BY <1>1, <2>1 DEF Index
    <3> QED
      BY <1>1, <3>1, ElementOfSeq
  <2> QED
    BY <1>1, <2>1
<1>3. \A i \in 0..(n - 1) : b[i] = k.data[k.off + i + 1]
  BY <1>1 DEF Index
<1>4. t = [s EXCEPT !.pos = 0, !.size = n, !.buf = b]
  BY DEF Refilled
<1> HIDE DEF b, t
<1>5. 0 \in 0..BufSize /\ n \in 0..BufSize
  BY <1>1
<1>6. Is(t, s.mode, s.eof, s.err, s.lastOp, 0, s.tell, n, b)
  BY <1>2, <1>4, <1>5, SetBuffer
<1> QED
  BY <1>3, <1>6 DEF Is, t

\* What holds of every outcome, and of one that returns.
Typed(s, k, o) ==
  /\ o.s \in Stream /\ o.k \in KFile /\ o.ret \in Int /\ o.s.mode = s.mode
  /\ Appending(s, k) => Kept(s.mode, k, o.k)

Keeps(s, k, o) ==
  /\ Settled(o.s, o.k)
  /\ AtTell(s, k) => AtTell(o.s, o.k)
  /\ Appending(s, k) => Appending(o.s, o.k)

NonePending(s) == IsWriteOperation(s) => s.size = 0

LEMMA FetchSettled ==
  ASSUME NEW s, NEW k, Settled(s, k), CanRead(s.mode), NonePending(s),
         NEW o \in FetchByte(s, k)
  PROVE  /\ ~o.hangs /\ Typed(s, k, o) /\ Keeps(s, k, o) /\ o.k.data = k.data
         /\ o.s.lastOp = "read" \/ (o.s.lastOp = s.lastOp /\ o.s.size = 0)
         /\ AtTell(s, k) => Took(s, k.data, o) \/ Ended(s, k.data, o)
<1>1. /\ s \in Stream /\ k \in KFile /\ k.off \in Nat /\ Len(k.data) \in Nat
      /\ s.size \in Nat /\ s.pos \in Nat /\ BufSize \in Nat /\ BufSize > 0 /\ s.tell \in Nat
  BY SettledFields
<1>2. s.mode # "a"
  BY DEF CanRead
<1>3. ASSUME NEW r \in Stream, NEW l \in KFile, r.tell = s.tell, r.mode = s.mode,
             r.eof = s.eof, r.err = s.err, Holding(r, l), l.data = k.data,
             AtTell(s, k) => r.tell = l.off - r.size,
             o = TakeByte(r, l)
      PROVE  /\ ~o.hangs /\ Typed(s, k, o) /\ Keeps(s, k, o) /\ o.k.data = k.data
             /\ o.s.lastOp = "read"
             /\ AtTell(s, k) => Took(s, k.data, o)
  <2>1. r.tell \in Nat /\ CanRead(r.mode)
    BY <1>1, <1>3
  <2>2. /\ o.k = l /\ ~o.hangs /\ o.ret \in Int /\ Settled(o.s, l)
        /\ o.s.mode = r.mode /\ o.s.lastOp = "read"
        /\ r.tell = l.off - r.size => AtTell(o.s, l) /\ Took(r, l.data, o)
    BY <1>3, <2>1, TakeSettled
  <2>3. Kept(s.mode, k, l) /\ o.s \in Stream
    BY <1>1, <1>3, <2>2, KeptSame DEF Settled
  <2>4. Appending(o.s, l)
    BY <2>2 DEF Appending
  <2>5. AtTell(s, k) => AtTell(o.s, l) /\ Took(s, k.data, o)
    BY <1>3, <2>2 DEF Took
  <2>6. Typed(s, k, o)
    BY <1>3, <2>2, <2>3 DEF Typed
  <2>7. Keeps(s, k, o)
    BY <2>2, <2>4, <2>5 DEF Keeps
  <2> QED
    BY <1>3, <2>2, <2>5, <2>6, <2>7
<1>4. CASE s.size > 0
  <2>1. o = TakeByte(s, k)
    BY <1>4 DEF FetchByte
  <2>2. s.lastOp = "read"
    BY <1>1, <1>4 DEF Settled, IsWriteOperation, NonePending
  <2>3. Holding(s, k)
    BY <1>4, <2>2 DEF Settled, Ahead, Holding
  <2>4. AtTell(s, k) => s.tell = k.off - s.size
    BY <1>1, <1>2, <2>2, TellCases DEF IsWriteOperation
  <2> QED
    BY <1>1, <1>3, <2>1, <2>3, <2>4
<1>5. CASE ~(s.size > 0)
  <2>1. s.size = 0
    BY <1>1, <1>5
  <2>2. PICK n \in ReadFileCounts(k) :
          o = IF n = 0 THEN Outcome([s EXCEPT !.pos = 0, !.eof = TRUE], k, SO_EOF)
              ELSE TakeByte(Refilled(s, k, n), [k EXCEPT !.off = @ + n])
    BY <1>5 DEF FetchByte
  <2>3. /\ n \in 0..BufSize
        /\ n # 0 => n \in 1..BufSize /\ k.off + n <= Len(k.data)
        /\ n = 0 /\ "read" \notin Faults => k.off >= Len(k.data)
    BY <1>1 DEF ReadFileCounts, Smaller
  <2>4. AtTell(s, k) => s.tell = k.off
    <3>1. AtTell(s, k) => s.tell = k.off + s.size \/ s.tell = k.off - s.size
      BY <1>1, <1>2, TellCases
    <3>2. s.size \in Nat /\ s.size <= 0
      BY <1>1, <1>5
    <3>3. k.off + s.size = k.off /\ k.off - s.size = k.off
      BY <1>1, <3>2
    <3> QED
      BY <3>1, <3>3
  <2>5. CASE n = 0
    <3> DEFINE t == [s EXCEPT !.pos = 0, !.eof = TRUE]
    <3>1. 0 \in 0..BufSize
      BY <1>1
    <3>2. Is(t, s.mode, TRUE, s.err, s.lastOp, 0, s.tell, s.size, s.buf)
      BY <1>1, <3>1, SetEnd
    <3>3. o.s = t /\ o.k = k /\ o.ret = SO_EOF /\ o.hangs = FALSE
      BY <2>2, <2>5 DEF Outcome
    <3> HIDE DEF t
    <3>4. /\ t \in Stream /\ t.mode = s.mode /\ t.eof = TRUE /\ t.err = s.err
          /\ t.lastOp = s.lastOp /\ t.pos = 0 /\ t.tell = s.tell /\ t.size = 0
      BY <2>1, <3>2 DEF Is
    <3>5. Empty(t)
      BY <3>4 DEF Empty, Settled
    <3>6. Settled(t, k) /\ (t.tell = k.off => AtTell(t, k))
      BY <1>1, <3>4, <3>5, EmptyIsSettled
    <3>7. Appending(s, k) => Appending(t, k)
      BY <2>1, <3>4 DEF Appending
    <3>8. Typed(s, k, o)
      BY <1>1, <3>3, <3>4, KeptSame, EofIsInt DEF Typed
    <3>9. Keeps(s, k, o)
      BY <2>4, <3>3, <3>4, <3>6, <3>7 DEF Keeps
    <3>10. AtTell(s, k) => Ended(s, k.data, o)
      BY <2>3, <2>4, <2>5, <3>3, <3>4 DEF Ended
    <3> QED
      BY <3>3, <3>4, <3>8, <3>9, <3>10
  <2>6. CASE n # 0
    <3> DEFINE r == Refilled(s, k, n)
               at == k.off + n
               l == [k EXCEPT !.off = at]
    <3>1. n \in 1..BufSize /\ at <= Len(k.data) /\ n \in Nat /\ n > 0 /\ n <= BufSize /\ at \in Nat
      BY <1>1, <2>3, <2>6
    <3>2. /\ r \in Stream /\ r.pos = 0 /\ r.size = n /\ r.mode = s.mode /\ r.tell = s.tell
          /\ r.lastOp = s.lastOp /\ r.eof = s.eof /\ r.err = s.err
          /\ \A i \in 0..(n - 1) : r.buf[i] = k.data[k.off + i + 1]
      BY <1>1, <3>1, RefilledType
    <3>3. l \in KFile /\ l.data = k.data /\ l.off = at
      BY <1>1, <3>1 DEF KFile
    <3>4. o = TakeByte(r, l)
      BY <2>2, <2>6
    <3>5. at - n = k.off
      BY <1>1, <3>1
    <3> HIDE DEF r, l
    <3>6. ASSUME NEW i \in 0..(n - 1) PROVE r.buf[0 + i] = l.data[l.off - n + i + 1]
      <4>1. 0 + i = i /\ l.off - n + i + 1 = k.off + i + 1
        BY <3>1, <3>3, <3>5
      <4> QED
        BY <3>2, <3>3, <4>1
    <3>7. Holding(r, l)
      <4>1. 0 + n <= BufSize /\ n <= at
        BY <1>1, <3>1
      <4> QED
        BY <3>1, <3>2, <3>3, <3>6, <4>1 DEF Holding
    <3>8. AtTell(s, k) => r.tell = l.off - r.size
      BY <2>4, <3>2, <3>3, <3>5
    <3> QED
      BY <1>3, <3>2, <3>3, <3>4, <3>7, <3>8
  <2> QED
    BY <2>5, <2>6
<1> QED
  BY <1>4, <1>5

LEMMA RefusedSettled ==
  ASSUME NEW s, NEW k, Settled(s, k), NEW o, o = Outcome([s EXCEPT !.err = TRUE], k, SO_EOF)
  PROVE  /\ ~o.hangs /\ Typed(s, k, o) /\ Keeps(s, k, o) /\ SameBuffer(s, o.s)
         /\ o.k = k /\ FileOf(o.s, o.k) = FileOf(s, k) /\ Failed(s, o)
<1> DEFINE t == [s EXCEPT !.err = TRUE]
<1>1. s \in Stream /\ k \in KFile
  BY SettledFields
<1>2. Is(t, s.mode, s.eof, TRUE, s.lastOp, s.pos, s.tell, s.size, s.buf)
  BY <1>1, SetErr
<1>3. o.s = t /\ o.k = k /\ o.ret = SO_EOF /\ o.hangs = FALSE
  BY DEF Outcome
<1> HIDE DEF t
<1>4. t \in Stream /\ SameBuffer(s, t) /\ t.eof = s.eof /\ t.err = TRUE
  BY <1>2 DEF Is, SameBuffer
<1>5. /\ Settled(t, k) /\ FileOf(t, k) = FileOf(s, k)
      /\ AtTell(s, k) => AtTell(t, k)
      /\ Appending(s, k) => Appending(t, k)
  BY <1>4, MarksAreSettled
<1>6. Typed(s, k, o) /\ Keeps(s, k, o)
  BY <1>1, <1>3, <1>4, <1>5, KeptSame, EofIsInt DEF Typed, Keeps, SameBuffer
<1> QED
  BY <1>3, <1>4, <1>5, <1>6 DEF Failed, SameBuffer

\* so_fgetc: what is pending is written, and a byte is taken.
LEMMA FgetcSettled ==
  ASSUME NEW s, NEW k, Settled(s, k), NEW o \in Fgetc(s, k)
  PROVE  /\ Typed(s, k, o)
         /\ ~o.hangs => /\ Keeps(s, k, o) /\ FileOf(o.s, o.k) = FileOf(s, k)
                        /\ CanRead(s.mode) => NonePending(o.s)
                        /\ AtTell(s, k) =>
                             \/ Took(s, FileOf(s, k), o) \/ Ended(s, FileOf(s, k), o)
                             \/ Failed(s, o)
         /\ s.lastOp = "read" => ~o.hangs /\ o.s.lastOp = "read"
<1>1. s \in Stream /\ k \in KFile
  BY SettledFields
<1>2. CASE ~CanRead(s.mode)
  <2>1. o = Outcome([s EXCEPT !.err = TRUE], k, SO_EOF)
    BY <1>2 DEF Fgetc
  <2>2. /\ ~o.hangs /\ Typed(s, k, o) /\ Keeps(s, k, o) /\ SameBuffer(s, o.s)
        /\ o.k = k /\ FileOf(o.s, o.k) = FileOf(s, k) /\ Failed(s, o)
    BY <2>1, RefusedSettled
  <2> QED
    BY <1>2, <2>2 DEF SameBuffer
<1>3. ASSUME NEW r, NEW l, Settled(r, l), r.mode = s.mode, CanRead(s.mode), NonePending(r),
             r.tell = s.tell, r.eof = s.eof, r.err = s.err, FileOf(r, l) = FileOf(s, k),
             AtTell(s, k) => AtTell(r, l), Appending(s, k) => Appending(r, l),
             Appending(s, k) => Kept(s.mode, k, l),
             o \in FetchByte(r, l)
      PROVE  /\ Typed(s, k, o) /\ ~o.hangs
             /\ Keeps(s, k, o) /\ FileOf(o.s, o.k) = FileOf(s, k)
             /\ NonePending(o.s)
             /\ AtTell(s, k) => Took(s, FileOf(s, k), o) \/ Ended(s, FileOf(s, k), o)
             /\ r.lastOp = "read" => o.s.lastOp = "read"
  <2>1. r \in Stream /\ l \in KFile /\ CanRead(r.mode)
    BY <1>3, SettledFields
  <2>2. /\ ~o.hangs /\ Typed(r, l, o) /\ Keeps(r, l, o) /\ o.k.data = l.data
        /\ o.s.lastOp = "read" \/ (o.s.lastOp = r.lastOp /\ o.s.size = 0)
        /\ AtTell(r, l) => Took(r, l.data, o) \/ Ended(r, l.data, o)
    BY <1>3, <2>1, FetchSettled
  <2>3. FileOf(r, l) = l.data
    BY <1>3, <2>1, BufferedType DEF NonePending
  <2>4. NonePending(o.s)
    BY <2>2 DEF NonePending, IsWriteOperation
  <2>5. FileOf(o.s, o.k) = o.k.data
    BY <2>2, <2>4, BufferedType DEF NonePending, Typed
  <2>6. Appending(s, k) => Kept(s.mode, k, o.k)
    BY <1>3, <2>2, KeptTwice
  <2>7. Typed(s, k, o)
    BY <1>3, <2>2, <2>6 DEF Typed
  <2>8. Keeps(s, k, o)
    BY <1>3, <2>2 DEF Keeps
  <2>9. AtTell(s, k) => Took(s, FileOf(s, k), o) \/ Ended(s, FileOf(s, k), o)
    BY <1>3, <2>2, <2>3 DEF Took, Ended
  <2> QED
    BY <1>3, <2>2, <2>3, <2>4, <2>5, <2>7, <2>8, <2>9
<1>4. CASE CanRead(s.mode) /\ ~IsWriteOperation(s)
  <2>1. o \in FetchByte(s, k)
    BY <1>4 DEF Fgetc
  <2>2. NonePending(s) /\ (Appending(s, k) => Kept(s.mode, k, k))
    BY <1>1, <1>4, KeptSame DEF NonePending
  <2> QED
    BY <1>3, <1>4, <2>1, <2>2
<1>5. CASE CanRead(s.mode) /\ IsWriteOperation(s)
  <2>1. PICK b \in Fflush(s, k) : IF b.hangs THEN o = b ELSE o \in FetchByte(b.s, b.k)
    BY <1>5 DEF Fgetc, Then
  <2>2. /\ b.s \in Stream /\ b.k \in KFile /\ b.s.mode = s.mode /\ b.ret = 0
        /\ Appending(s, k) => Kept(s.mode, k, b.k)
        /\ ~b.hangs => Flushed(s, k, b.s, b.k)
    BY <1>5, FflushSettled
  <2>3. s.lastOp # "read"
    BY <1>5 DEF IsWriteOperation
  <2>4. CASE b.hangs
    BY <2>1, <2>2, <2>3, <2>4 DEF Typed
  <2>5. CASE ~b.hangs
    <3>1. /\ Settled(b.s, b.k) /\ FileOf(b.s, b.k) = FileOf(s, k)
          /\ AtTell(s, k) => AtTell(b.s, b.k)
          /\ Appending(s, k) => Appending(b.s, b.k)
      BY <1>5, <2>2, <2>5, FlushedSettled
    <3>2. /\ b.s.tell = s.tell /\ b.s.eof = s.eof /\ b.s.err = s.err /\ NonePending(b.s)
      BY <2>2, <2>5 DEF Flushed, Is, NonePending
    <3>3. o \in FetchByte(b.s, b.k)
      BY <2>1, <2>5
    <3> QED
      BY <1>3, <1>5, <2>2, <2>3, <3>1, <3>2, <3>3
  <2> QED
    BY <2>4, <2>5
<1> QED
  BY <1>2, <1>4, <1>5

Blank(s) == s.pos = 0 /\ s.size = 0
Repositioned(s) == s.lastOp \notin {"read", "write"}

LEMMA DroppedType ==
  ASSUME NEW s, NEW k, Settled(s, k), ~IsWriteOperation(s)
  PROVE  LET t == Dropped(s) IN
         /\ t \in Stream /\ Blank(t) /\ t.mode = s.mode /\ t.tell = s.tell
         /\ t.eof = s.eof /\ t.err = s.err
<1>1. s \in Stream /\ s.buf \in [Index -> Cell]
  BY SettledFields
<1>2. CASE IsReadOperation(s)
  <2> DEFINE b == [s.buf EXCEPT ![0] = 0]
             t == [s EXCEPT !.pos = 0, !.size = 0, !.buf = b]
  <2>1. Dropped(s) = t
    BY <1>2 DEF Dropped
  <2>2. b \in [Index -> Cell]
    <3>1. 0 \in Cell
      BY CellFacts
    <3> QED
      BY <1>1, <3>1
  <2> HIDE DEF b
  <2>3. 0 \in 0..BufSize
    BY CellFacts
  <2>4. Is(t, s.mode, s.eof, s.err, s.lastOp, 0, s.tell, 0, b)
    BY <1>1, <2>2, <2>3, SetBuffer
  <2> HIDE DEF t
  <2> QED
    BY <2>1, <2>4 DEF Is, Blank
<1>3. CASE ~IsReadOperation(s)
  <2>1. Dropped(s) = s
    BY <1>3 DEF Dropped
  <2>2. Blank(s)
    BY <1>3 DEF Settled, IsReadOperation, IsWriteOperation, Blank
  <2> QED
    BY <1>1, <2>1, <2>2
<1> QED
  BY <1>2, <1>3

\* The file pointer is where the caller asked for, or the call failed.
Pointed(t, k, offset, whence, o) ==
  /\ ~o.hangs /\ o.k \in KFile /\ o.k.data = k.data /\ o.ret \in Int
  /\ Settled(o.s, o.k) /\ Repositioned(o.s) /\ FileOf(o.s, o.k) = k.data
  /\ o.s.mode = t.mode /\ o.s.eof = t.eof
  /\ \/ o.ret = 0 /\ o.s.tell = o.k.off /\ o.s.err = t.err
     \/ o.ret = SO_EOF /\ o.s.tell = t.tell /\ o.s.err = TRUE
  /\ whence = "SEEK_SET" /\ offset \in Nat => o.ret = 0 /\ o.s.tell = offset
  /\ whence = "SEEK_END" /\ offset = 0 => o.ret = 0 /\ o.k.off = Len(k.data)

LEMMA SetPointerSettled ==
  ASSUME NEW t \in Stream, NEW k \in KFile, t.tell \in Nat, Blank(t),
         NEW offset \in Int, NEW whence \in Whence, NEW o, o = SetPointer(t, k, offset, whence)
  PROVE  Pointed(t, k, offset, whence, o) /\ (o.ret # 0 => o.k = k)
<1> DEFINE base == CASE whence = "SEEK_SET" -> 0
                     [] whence = "SEEK_CUR" -> t.tell
                     [] whence = "SEEK_END" -> Len(k.data)
           at == offset + base
           u == [t EXCEPT !.tell = at, !.lastOp = ""]
           v == [t EXCEPT !.err = TRUE, !.lastOp = ""]
<1>1. k.data \in Seq(Cell) /\ k.off \in Nat /\ Len(k.data) \in Nat
  BY FileFields
<1>2. base \in Nat
  BY <1>1 DEF Whence
<1>3. whence = "SEEK_SET" /\ offset \in Nat => at = offset
  OBVIOUS
<1>4. whence = "SEEK_END" /\ offset = 0 => at = Len(k.data)
  BY <1>1
<1>5. o = IF at < 0 THEN Outcome(v, k, SO_EOF) ELSE Outcome(u, [k EXCEPT !.off = at], 0)
  BY DEF SetPointer
<1> HIDE DEF base
<1>6. at \in Int
  BY <1>2
<1>7. /\ Is(u, t.mode, t.eof, t.err, "", t.pos, at, t.size, t.buf)
      /\ Is(v, t.mode, t.eof, TRUE, "", t.pos, t.tell, t.size, t.buf)
  BY <1>6, SetMoved
<1>8. /\ u \in Stream /\ u.mode = t.mode /\ u.eof = t.eof /\ u.err = t.err /\ u.tell = at
      /\ Repositioned(u) /\ Empty(u)
  BY <1>7 DEF Is, Blank, Empty, Repositioned
<1>9. /\ v \in Stream /\ v.mode = t.mode /\ v.eof = t.eof /\ v.err = TRUE /\ v.tell = t.tell
      /\ Repositioned(v) /\ Empty(v)
  BY <1>7 DEF Is, Blank, Empty, Repositioned
<1> HIDE DEF u, v
<1>10. CASE at < 0
  <2>1. o.s = v /\ o.k = k /\ o.ret = SO_EOF /\ o.hangs = FALSE
    BY <1>5, <1>10 DEF Outcome
  <2>2. Settled(v, k) /\ FileOf(v, k) = k.data
    BY <1>9, EmptyIsSettled
  <2>3. ~(whence = "SEEK_SET" /\ offset \in Nat) /\ ~(whence = "SEEK_END" /\ offset = 0)
    BY <1>1, <1>3, <1>4, <1>10
  <2> QED
    BY <1>9, <2>1, <2>2, <2>3, EofIsInt DEF Pointed
<1>11. CASE ~(at < 0)
  <2> DEFINE l == [k EXCEPT !.off = at]
  <2>1. at \in Nat
    BY <1>6, <1>11
  <2> HIDE DEF at
  <2>2. l \in KFile /\ l.data = k.data /\ l.off = at
    BY <2>1 DEF KFile
  <2>3. o.s = u /\ o.k = l /\ o.ret = 0 /\ o.hangs = FALSE
    BY <1>5, <1>11 DEF Outcome
  <2> HIDE DEF l
  <2>4. Settled(u, l) /\ FileOf(u, l) = l.data
    BY <1>8, <2>1, <2>2, EmptyIsSettled
  <2> QED
    BY <1>3, <1>4, <1>8, <2>2, <2>3, <2>4 DEF Pointed
<1> QED
  BY <1>10, <1>11

LEMMA RepositionedAtTell ==
  ASSUME NEW s, NEW k, Settled(s, k), Repositioned(s), s.mode = "a" \/ s.tell = k.off
  PROVE  AtTell(s, k)
<1>1. s \in Stream /\ k \in KFile /\ s.tell \in Nat
  BY SettledFields
<1>2. Empty(s)
  BY DEF Settled, Repositioned, Empty
<1>3. s.tell = k.off => AtTell(s, k)
  BY <1>1, <1>2, EmptyIsSettled
<1> QED
  BY <1>3 DEF AtTell

\* so_fseek: what is pending is written, what was read ahead dropped.
Sought(s, k, offset, whence, o) ==
  /\ Typed(s, k, o)
  /\ ~IsWriteOperation(s) => ~o.hangs /\ o.k.data = k.data
  /\ ~o.hangs =>
       /\ Settled(o.s, o.k) /\ Repositioned(o.s)
       /\ FileOf(o.s, o.k) = FileOf(s, k) /\ o.s.eof = s.eof
       /\ \/ o.ret = 0 /\ o.s.tell = o.k.off /\ o.s.err = s.err
          \/ o.ret = SO_EOF /\ o.s.tell = s.tell /\ o.s.err = TRUE
       /\ whence = "SEEK_SET" /\ offset \in Nat => o.ret = 0 /\ o.s.tell = offset
       /\ whence = "SEEK_END" /\ offset = 0 => o.ret = 0 /\ o.k.off = Len(o.k.data)
       /\ s.lastOp # "read" /\ AtTell(s, k) => AtTell(o.s, o.k)

LEMMA FseekSettled ==
  ASSUME NEW s, NEW k, Settled(s, k), NEW offset \in Int, NEW whence \in Whence,
         NEW o \in Fseek(s, k, offset, whence)
  PROVE  Sought(s, k, offset, whence, o)
<1>1. s \in Stream /\ k \in KFile /\ s.tell \in Nat /\ s.size \in Nat /\ k.off \in Nat
  BY SettledFields
<1>2. CASE ~IsWriteOperation(s)
  <2> DEFINE t == Dropped(s)
  <2>1. o = SetPointer(t, k, offset, whence)
    BY <1>2 DEF Fseek
  <2>2. /\ t \in Stream /\ Blank(t) /\ t.mode = s.mode /\ t.tell = s.tell
        /\ t.eof = s.eof /\ t.err = s.err
    BY <1>2, DroppedType
  <2> HIDE DEF t
  <2>3. t.tell \in Nat
    BY <1>1, <2>2
  <2>4. Pointed(t, k, offset, whence, o) /\ (o.ret # 0 => o.k = k)
    BY <1>1, <2>1, <2>2, <2>3, SetPointerSettled
  <2>5. /\ ~o.hangs /\ o.k \in KFile /\ o.k.data = k.data /\ o.ret \in Int
        /\ Settled(o.s, o.k) /\ Repositioned(o.s) /\ FileOf(o.s, o.k) = k.data
        /\ o.s.mode = t.mode /\ o.s.eof = t.eof
        /\ \/ o.ret = 0 /\ o.s.tell = o.k.off /\ o.s.err = t.err
           \/ o.ret = SO_EOF /\ o.k = k /\ o.s.tell = t.tell /\ o.s.err = TRUE
        /\ whence = "SEEK_SET" /\ offset \in Nat => o.ret = 0 /\ o.s.tell = offset
        /\ whence = "SEEK_END" /\ offset = 0 => o.ret = 0 /\ o.k.off = Len(k.data)
    BY <2>4, EofIsInt DEF Pointed
  <2>6. o.s \in Stream
    BY <2>5, SettledFields
  <2>7. FileOf(s, k) = k.data
    BY <1>1, <1>2, BufferedType
  <2>8. Kept(s.mode, k, o.k)
    BY <1>1, <2>5, KeptSame
  <2>9. Typed(s, k, o)
    BY <2>2, <2>5, <2>6, <2>8 DEF Typed
  <2>10. ASSUME s.lastOp # "read", AtTell(s, k) PROVE AtTell(o.s, o.k)
    <3>1. Blank(s)
      BY <1>2, <2>10 DEF Settled, IsWriteOperation, Blank
    <3>2. s.mode = "a" \/ s.tell = k.off - s.size
      BY <1>1, <1>2, <2>10, TellCases
    <3>3. k.off - s.size = k.off
      <4>1. s.size <= 0
        BY <1>1, <3>1 DEF Blank
      <4> QED
        BY <1>1, <4>1
    <3>4. o.s.mode = "a" \/ o.s.tell = o.k.off
      BY <2>2, <2>5, <3>2, <3>3
    <3>5. Repositioned(o.s) /\ Settled(o.s, o.k)
      BY <2>5
    <3> QED
      BY <3>4, <3>5, RepositionedAtTell
  <2> QED
    BY <1>2, <2>2, <2>5, <2>7, <2>9, <2>10 DEF Sought
<1>3. CASE IsWriteOperation(s)
  <2>1. PICK b \in Fflush(s, k) :
          o = IF b.hangs THEN b ELSE SetPointer(b.s, b.k, offset, whence)
    BY <1>3 DEF Fseek, Then
  <2>2. /\ b.s \in Stream /\ b.k \in KFile /\ b.s.mode = s.mode /\ b.ret = 0
        /\ Appending(s, k) => Kept(s.mode, k, b.k)
        /\ ~b.hangs => Flushed(s, k, b.s, b.k)
    BY <1>3, FflushSettled
  <2>3. CASE b.hangs
    BY <1>3, <2>1, <2>2, <2>3 DEF Typed, Sought
  <2>4. CASE ~b.hangs
    <3>1. /\ AtTell(s, k) => b.s.mode = "a" \/ b.s.tell = b.k.off
          /\ FileOf(b.s, b.k) = FileOf(s, k)
      BY <1>3, <2>2, <2>4, FlushedSettled
    <3>2. /\ b.s.tell = s.tell /\ b.s.eof = s.eof /\ b.s.err = s.err /\ Blank(b.s)
          /\ b.k.data = FileOf(s, k)
      BY <2>2, <2>4 DEF Flushed, Is, Blank
    <3>3. o = SetPointer(b.s, b.k, offset, whence) /\ b.s.tell \in Nat
      BY <1>1, <2>1, <2>4, <3>2
    <3>4. Pointed(b.s, b.k, offset, whence, o) /\ (o.ret # 0 => o.k = b.k)
      BY <2>2, <3>2, <3>3, SetPointerSettled
    <3>5. /\ ~o.hangs /\ o.k \in KFile /\ o.k.data = b.k.data /\ o.ret \in Int
          /\ Settled(o.s, o.k) /\ Repositioned(o.s) /\ FileOf(o.s, o.k) = b.k.data
          /\ o.s.mode = b.s.mode /\ o.s.eof = b.s.eof
          /\ \/ o.ret = 0 /\ o.s.tell = o.k.off /\ o.s.err = b.s.err
             \/ o.ret = SO_EOF /\ o.s.tell = b.s.tell /\ o.s.err = TRUE
          /\ whence = "SEEK_SET" /\ offset \in Nat => o.ret = 0 /\ o.s.tell = offset
          /\ whence = "SEEK_END" /\ offset = 0 => o.ret = 0 /\ o.k.off = Len(b.k.data)
      BY <3>4 DEF Pointed
    <3>6. o.s \in Stream
      BY <3>5, SettledFields
    <3>7. Appending(s, k) => Kept(s.mode, k, o.k)
      BY <2>2, <3>5, KeptTwice
    <3>8. Typed(s, k, o)
      BY <2>2, <3>5, <3>6, <3>7 DEF Typed
    <3>9. ASSUME AtTell(s, k) PROVE AtTell(o.s, o.k)
      <4>1. o.s.mode = "a" \/ o.s.tell = o.k.off
        BY <3>1, <3>5, <3>9, <3>4, EofIsInt
      <4>2. Settled(o.s, o.k) /\ Repositioned(o.s)
        BY <3>5
      <4> QED
        BY <4>1, <4>2, RepositionedAtTell
    <3> QED
      BY <1>3, <3>2, <3>5, <3>8, <3>9 DEF Sought
  <2> QED
    BY <2>3, <2>4
<1> QED
  BY <1>2, <1>3

\* The byte c is in the file, at the position of the caller.
Placed(s, k, c, o) ==
  /\ FileOf(o.s, o.k) = PutAt(FileOf(s, k), s.tell, c)
  /\ o.s.tell = s.tell + 1 /\ o.ret = c
  /\ o.s.eof = s.eof /\ o.s.err = s.err

LEMMA PutPlaces ==
  ASSUME NEW s \in Stream, NEW t \in Stream, NEW k \in KFile, NEW c \in Cell,
         s.size = 0 \/ IsWriteOperation(s), IsWriteOperation(t), s.size < BufSize,
         t.size = s.size + 1, t.buf[s.size] = c,
         \A i \in Index : i # s.size => t.buf[i] = s.buf[i]
  PROVE  FileOf(t, k) = PutAt(FileOf(s, k), k.off + s.size, c)
<1> DEFINE old == Buffered(s)
           new == Buffered(t)
<1>1. s.size \in Nat /\ BufSize \in Nat /\ t.size \in Nat
  BY StreamNumbers
<1>2. old \in Seq(Cell) /\ Len(old) = s.size /\ new \in Seq(Cell) /\ Len(new) = s.size + 1
  <2>1. old \in Seq(Cell) /\ Len(old) = IF IsWriteOperation(s) THEN s.size ELSE 0
    BY BufferedType
  <2>2. new \in Seq(Cell) /\ Len(new) = IF IsWriteOperation(t) THEN t.size ELSE 0
    BY BufferedType
  <2> QED
    BY <1>1, <2>1, <2>2
<1>3. new[s.size + 1] = c
  <2>1. s.size + 1 \in 1..t.size /\ (s.size + 1) - 1 = s.size
    BY <1>1
  <2> QED
    BY <2>1 DEF Buffered, First
<1>4. ASSUME NEW i \in 1..Len(old) PROVE new[i] = old[i]
  <2>1. i \in 1..s.size /\ i \in 1..t.size /\ i - 1 \in Index /\ i - 1 # s.size /\ s.size # 0
    BY <1>1, <1>2 DEF Index
  <2>2. old[i] = s.buf[i - 1]
    BY <2>1 DEF Buffered, First
  <2>3. new[i] = t.buf[i - 1]
    BY <2>1 DEF Buffered, First
  <2> QED
    BY <2>1, <2>2, <2>3
<1>5. k.data \in Seq(Cell) /\ k.off \in Nat
  BY FileFields
<1> HIDE DEF old, new
<1>6. Len(new) = Len(old) + 1 /\ new[Len(new)] = c /\ \A i \in 1..Len(old) : new[i] = old[i]
  BY <1>2, <1>3, <1>4
<1>7. Overlay(k.data, k.off, new) = PutAt(Overlay(k.data, k.off, old), k.off + Len(old), c)
  BY <1>2, <1>5, <1>6, OneMoreByte
<1> QED
  BY <1>2, <1>7 DEF FileOf, old, new

\* Where the next byte put goes in the file.
LEMMA PutTell ==
  ASSUME NEW s, NEW k, Settled(s, k), s.lastOp # "read"
  PROVE  /\ s.pos = s.size /\ (s.size = 0 \/ IsWriteOperation(s))
         /\ s.mode = "a" \/ (AtTell(s, k) <=> s.tell = k.off + s.size)
<1>1. s \in Stream /\ k \in KFile /\ s.size \in Nat /\ s.pos \in Nat /\ k.off \in Nat
  BY SettledFields
<1>2. CASE IsWriteOperation(s)
  <2>1. s.pos = s.size
    BY <1>2 DEF Settled, IsWriteOperation
  <2> QED
    BY <1>1, <1>2, <2>1, TellCases
<1>3. CASE ~IsWriteOperation(s)
  <2>1. Blank(s)
    BY <1>3 DEF Settled, IsWriteOperation, Blank
  <2>2. s.size <= 0
    BY <1>1, <2>1 DEF Blank
  <2>3. k.off - s.size = k.off + s.size
    BY <1>1, <2>2
  <2>4. s.mode = "a" \/ (AtTell(s, k) <=> s.tell = k.off - s.size)
    BY <1>1, <1>3, TellCases
  <2> QED
    BY <2>1, <2>3, <2>4 DEF Blank
<1> QED
  BY <1>2, <1>3

LEMMA PutSettled ==
  ASSUME NEW s, NEW k, Settled(s, k), s.lastOp # "read", CanWrite(s.mode), s.pos < BufSize,
         NEW c \in Byte, NEW o, o = PutByte(s, k, c)
  PROVE  /\ ~o.hangs /\ o.k = k /\ o.ret = c /\ o.s \in Stream /\ o.s.mode = s.mode
         /\ Settled(o.s, k) /\ o.s.lastOp = "write"
         /\ AtTell(s, k) => AtTell(o.s, k)
         /\ AtTell(s, k) /\ s.mode # "a" => Placed(s, k, c, o)
<1> DEFINE p == s.pos + 1
           n == s.size + 1
           u == s.tell + 1
           b == [s.buf EXCEPT ![s.pos] = c]
           t == [s EXCEPT !.buf = b, !.pos = p, !.size = n, !.tell = u, !.lastOp = "write"]
<1>1. /\ s \in Stream /\ k \in KFile /\ s.pos \in Nat /\ s.size \in Nat /\ k.off \in Nat
      /\ s.tell \in Nat /\ s.buf \in [Index -> Cell] /\ BufSize \in Nat
  BY SettledFields
<1>2. s.pos = s.size /\ (s.size = 0 \/ IsWriteOperation(s))
  BY PutTell
<1>3. p \in 0..BufSize /\ n \in 0..BufSize /\ u \in Int /\ u \in Nat /\ s.pos \in Index /\ p = n
  BY <1>1, <1>2 DEF Index
<1>4. c \in Cell
  BY CellFacts
<1>5. b \in [Index -> Cell] /\ b[s.pos] = c /\ \A i \in Index : i # s.pos => b[i] = s.buf[i]
  BY <1>1, <1>3, <1>4
<1>6. o.s = t /\ o.k = k /\ o.ret = c /\ o.hangs = FALSE
  BY DEF PutByte, Outcome
<1> HIDE DEF b
<1>7. Is(t, s.mode, s.eof, s.err, "write", p, u, n, b)
  BY <1>1, <1>3, <1>5, SetPut
<1> HIDE DEF t
<1>8. /\ t \in Stream /\ t.pos = p /\ t.tell = u /\ t.size = n /\ t.mode = s.mode
      /\ t.lastOp = "write" /\ t.buf = b /\ t.eof = s.eof /\ t.err = s.err
  BY <1>7 DEF Is
<1>9. IsWriteOperation(t)
  BY <1>8 DEF IsWriteOperation
<1>10. Settled(t, k)
  <2>1. Ahead(t, k)
    BY <1>8 DEF Ahead
  <2> QED
    BY <1>1, <1>3, <1>8, <2>1 DEF Settled
<1>11. ASSUME AtTell(s, k), s.mode # "a" PROVE AtTell(t, k) /\ Placed(s, k, c, o)
  <2>1. s.tell = k.off + s.size
    BY <1>11, PutTell
  <2>2. u = k.off + n
    BY <1>1, <2>1
  <2>3. AtTell(t, k)
    BY <1>1, <1>8, <1>9, <2>2, TellCases
  <2>4. s.size < BufSize /\ b[s.size] = c /\ \A i \in Index : i # s.size => b[i] = s.buf[i]
    BY <1>2, <1>5
  <2>5. FileOf(t, k) = PutAt(FileOf(s, k), k.off + s.size, c)
    BY <1>1, <1>2, <1>4, <1>8, <1>9, <2>4, PutPlaces
  <2> QED
    BY <1>6, <1>8, <2>1, <2>3, <2>5 DEF Placed
<1>12. s.mode = "a" => AtTell(t, k)
  BY <1>8 DEF AtTell
<1> QED
  BY <1>6, <1>8, <1>10, <1>11, <1>12

\* The part of so_fputc that stores the byte.
Stored(s, k, c, o) ==
  /\ Settled(o.s, o.k) /\ o.s.lastOp = "write"
  /\ AtTell(s, k) => AtTell(o.s, o.k)
  /\ AtTell(s, k) /\ s.mode # "a" => Placed(s, k, c, o)
  /\ k.off = Len(k.data) => Appending(o.s, o.k)

LEMMA StoreSettled ==
  ASSUME NEW s, NEW k, Settled(s, k), s.lastOp # "read", CanWrite(s.mode),
         NEW c \in Byte, NEW o \in StoreByte(s, k, c)
  PROVE  Typed(s, k, o) /\ (~o.hangs => Stored(s, k, c, o))
<1>1. /\ s \in Stream /\ k \in KFile /\ s.pos \in Nat /\ s.pos <= BufSize /\ BufSize \in Nat
      /\ BufSize > 0 /\ s.size \in Nat
  BY SettledFields
<1>2. c \in Int
  BY CellFacts
<1>3. CASE s.pos < BufSize
  <2>1. o = PutByte(s, k, c)
    BY <1>3 DEF StoreByte
  <2>2. /\ ~o.hangs /\ o.k = k /\ o.ret = c /\ o.s \in Stream /\ o.s.mode = s.mode
        /\ Settled(o.s, k) /\ o.s.lastOp = "write"
        /\ AtTell(s, k) => AtTell(o.s, k)
        /\ AtTell(s, k) /\ s.mode # "a" => Placed(s, k, c, o)
    BY <1>3, <2>1, PutSettled
  <2>3. Kept(s.mode, k, k)
    BY <1>1, KeptSame
  <2>4. k.off = Len(k.data) => Appending(o.s, k)
    BY DEF Appending
  <2>5. Typed(s, k, o)
    BY <1>1, <1>2, <2>2, <2>3 DEF Typed
  <2> QED
    BY <2>2, <2>4, <2>5 DEF Stored
<1>4. CASE ~(s.pos < BufSize)
  <2>1. s.pos = s.size /\ (s.size = 0 \/ IsWriteOperation(s))
    BY PutTell
  <2>2. IsWriteOperation(s)
    BY <1>1, <1>4, <2>1
  <2>3. PICK f \in Fflush(s, k) :
          o = IF f.hangs THEN f
              ELSE IF f.ret = SO_EOF THEN Outcome([f.s EXCEPT !.err = TRUE], f.k, SO_EOF)
              ELSE PutByte(f.s, f.k, c)
    BY <1>4 DEF StoreByte
  <2>4. /\ f.s \in Stream /\ f.k \in KFile /\ f.s.mode = s.mode /\ f.ret = 0
        /\ Appending(s, k) => Kept(s.mode, k, f.k)
        /\ ~f.hangs => Flushed(s, k, f.s, f.k)
    BY <2>2, FflushSettled
  <2>5. CASE f.hangs
    BY <2>3, <2>4, <2>5 DEF Typed
  <2>6. CASE ~f.hangs
    <3>1. o = PutByte(f.s, f.k, c)
      BY <2>3, <2>4, <2>6, EofIsInt
    <3>2. /\ Settled(f.s, f.k) /\ FileOf(f.s, f.k) = FileOf(s, k)
          /\ AtTell(s, k) => AtTell(f.s, f.k)
          /\ k.off = Len(k.data) => f.k.off = Len(f.k.data)
      BY <2>2, <2>4, <2>6, FlushedSettled
    <3>3. /\ f.s.lastOp # "read" /\ f.s.pos = 0 /\ f.s.tell = s.tell
          /\ f.s.eof = s.eof /\ f.s.err = s.err
      BY <2>4, <2>6 DEF Flushed, Is
    <3>4. f.s.pos < BufSize /\ CanWrite(f.s.mode)
      BY <1>1, <2>4, <3>3
    <3>5. /\ ~o.hangs /\ o.k = f.k /\ o.ret = c /\ o.s \in Stream /\ o.s.mode = f.s.mode
          /\ Settled(o.s, f.k) /\ o.s.lastOp = "write"
          /\ AtTell(f.s, f.k) => AtTell(o.s, f.k)
          /\ AtTell(f.s, f.k) /\ f.s.mode # "a" => Placed(f.s, f.k, c, o)
      BY <3>1, <3>2, <3>3, <3>4, PutSettled
    <3>6. k.off = Len(k.data) => Appending(o.s, o.k)
      BY <3>2, <3>5 DEF Appending
    <3>7. AtTell(s, k) /\ s.mode # "a" => Placed(s, k, c, o)
      BY <2>4, <3>2, <3>3, <3>5 DEF Placed
    <3>8. Typed(s, k, o)
      BY <1>2, <2>4, <3>5 DEF Typed
    <3> QED
      BY <3>2, <3>5, <3>6, <3>7, <3>8 DEF Stored
  <2> QED
    BY <2>5, <2>6
<1> QED
  BY <1>3, <1>4

\* The outcomes of so_fputc's moving the file pointer, if it does.
Start(s, k) == IF s.mode = "a" THEN [k EXCEPT !.off = Len(k.data)] ELSE k
Moves(s) ==
  IF Targets(s) = {} THEN (IF JunkSeek THEN SeekOffsets \X Whence ELSE {}) ELSE Targets(s)

BeforePut(s, k) ==
  (IF Targets(s) = {} THEN {Outcome(s, Start(s, k), 0)} ELSE {})
  \cup UNION {Fseek(s, Start(s, k), t[1], t[2]) : t \in Moves(s)}

LEMMA FputcIs ==
  ASSUME NEW s, NEW k, NEW c, CanWrite(s.mode), NEW o \in Fputc(s, k, c)
  PROVE  \E b \in BeforePut(s, k) :
           IF b.hangs THEN o = b
           ELSE IF b.ret = SO_EOF THEN o = Outcome([b.s EXCEPT !.err = TRUE], b.k, SO_EOF)
           ELSE o \in StoreByte(b.s, b.k, c)
<1> DEFINE after(b) ==
             IF b.hangs THEN {b}
             ELSE IF b.ret = SO_EOF THEN {Outcome([b.s EXCEPT !.err = TRUE], b.k, SO_EOF)}
             ELSE StoreByte(b.s, b.k, c)
<1>1. Fputc(s, k, c) = UNION {after(b) : b \in BeforePut(s, k)}
  BY DEF Fputc, BeforePut, Start, Moves
<1>2. PICK b \in BeforePut(s, k) : o \in after(b)
  BY <1>1
<1> QED
  BY <1>2

LEMMA StartSettled ==
  ASSUME NEW s, NEW k, Settled(s, k)
  PROVE  /\ Settled(s, Start(s, k)) /\ Start(s, k).data = k.data
         /\ s.mode # "a" => Start(s, k) = k
         /\ s.mode = "a" => Start(s, k).off = Len(k.data)
         /\ AtTell(s, k) => AtTell(s, Start(s, k))
<1>1. CASE s.mode = "a"
  <2> DEFINE l == [k EXCEPT !.off = Len(k.data)]
  <2>1. k \in KFile /\ Len(k.data) \in Nat
    BY SettledFields
  <2>2. l \in KFile /\ l.data = k.data /\ l.off = Len(k.data)
    BY <2>1 DEF KFile
  <2>3. Start(s, k) = l
    BY <1>1 DEF Start
  <2> HIDE DEF l
  <2>4. s.lastOp # "read"
    BY <1>1 DEF Settled, Ahead, CanRead
  <2>5. Settled(s, l)
    BY <2>2, <2>4 DEF Settled, Ahead
  <2> QED
    BY <1>1, <2>2, <2>3, <2>5 DEF AtTell
<1>2. CASE s.mode # "a"
  BY <1>2 DEF Start
<1> QED
  BY <1>1, <1>2

\* Where the stream stands when so_fputc stores its byte.
Ready(s, k, b) ==
  /\ Settled(b.s, b.k) /\ b.s.lastOp # "read"
  /\ AtTell(s, k) => AtTell(b.s, b.k)

InPlace(s, k, b) ==
  /\ ~b.hangs /\ b.ret = 0 /\ b.k.data = k.data
  /\ b.s.eof = s.eof /\ b.s.err = s.err
  /\ s.mode \notin {"a", "a+"} => FileOf(b.s, b.k) = FileOf(s, k) /\ b.s.tell = s.tell
  /\ s.mode \in {"a", "a+"} /\ Appending(s, k) => b.k.off = Len(b.k.data)

LEMMA BeforePutSettled ==
  ASSUME NEW s, NEW k, Settled(s, k), NEW b \in BeforePut(s, k)
  PROVE  /\ b.s \in Stream /\ b.k \in KFile /\ b.ret \in Int /\ b.s.mode = s.mode
         /\ ~b.hangs => Ready(s, k, b)
         /\ ~JunkSeek => InPlace(s, k, b)
<1> DEFINE l == Start(s, k)
<1>1. s \in Stream /\ k \in KFile /\ s.tell \in Nat /\ s.tell \in Int /\ s.mode \in AllModes
  BY SettledFields
<1>2. /\ Settled(s, l) /\ l.data = k.data
      /\ s.mode # "a" => l = k
      /\ s.mode = "a" => l.off = Len(k.data)
      /\ AtTell(s, k) => AtTell(s, l)
  BY StartSettled
<1>3. \A t \in Moves(s) : Targets(s) # {} /\ Moves(s) = {t} => b \in Fseek(s, l, t[1], t[2])
  BY DEF BeforePut
<1> HIDE DEF l
<1>4. s.lastOp = "read" => s.mode # "a"
  BY DEF Settled, Ahead, CanRead
<1>5. ASSUME NEW offset \in Int, NEW whence \in Whence, b \in Fseek(s, l, offset, whence),
             \/ s.lastOp # "read"
             \/ whence = "SEEK_SET" /\ offset \in Nat
             \/ whence = "SEEK_END" /\ offset = 0
      PROVE  /\ b.s \in Stream /\ b.k \in KFile /\ b.ret \in Int /\ b.s.mode = s.mode
             /\ ~b.hangs => Ready(s, k, b)
  <2>1. /\ Typed(s, l, b)
        /\ ~b.hangs =>
             /\ Settled(b.s, b.k) /\ Repositioned(b.s)
             /\ \/ b.ret = 0 /\ b.s.tell = b.k.off /\ b.s.err = s.err
                \/ b.ret = SO_EOF /\ b.s.tell = s.tell /\ b.s.err = TRUE
             /\ whence = "SEEK_SET" /\ offset \in Nat => b.ret = 0 /\ b.s.tell = offset
             /\ whence = "SEEK_END" /\ offset = 0 => b.ret = 0 /\ b.k.off = Len(b.k.data)
             /\ s.lastOp # "read" /\ AtTell(s, l) => AtTell(b.s, b.k)
    <3>1. Sought(s, l, offset, whence, b)
      BY <1>2, <1>5, FseekSettled
    <3> QED
      BY <3>1 DEF Sought
  <2>2. ASSUME ~b.hangs, AtTell(s, k) PROVE AtTell(b.s, b.k)
    <3>1. CASE s.lastOp # "read"
      BY <1>2, <2>1, <2>2, <3>1
    <3>2. CASE s.lastOp = "read"
      <4>1. b.ret = 0
        BY <1>5, <2>1, <2>2, <3>2
      <4>2. b.s.tell = b.k.off
        BY <2>1, <2>2, <4>1, EofIsInt
      <4> QED
        BY <2>1, <2>2, <4>2, RepositionedAtTell
    <3> QED
      BY <3>1, <3>2
  <2> QED
    BY <2>1, <2>2 DEF Typed, Ready, Repositioned
<1>6. CASE s.mode = "a+" /\ ~IsWriteOperation(s)
  <2> DEFINE offset == 0
             whence == "SEEK_END"
  <2>1. b \in Fseek(s, l, offset, whence)
    <3> DEFINE t == <<offset, whence>>
    <3>1. Targets(s) = {t}
      BY <1>6 DEF Targets
    <3>2. Moves(s) = {t}
      BY <3>1 DEF Moves
    <3> QED
      BY <1>3, <3>1, <3>2
  <2>2. offset \in Int /\ whence \in Whence /\ whence = "SEEK_END" /\ offset = 0
    BY DEF Whence
  <2> HIDE DEF offset, whence
  <2>3. /\ b.s \in Stream /\ b.k \in KFile /\ b.ret \in Int /\ b.s.mode = s.mode
        /\ ~b.hangs => Ready(s, k, b)
    BY <1>5, <2>1, <2>2
  <2>4. Sought(s, l, offset, whence, b)
    BY <1>2, <2>1, <2>2, FseekSettled
  <2>5. ~b.hangs /\ b.k.data = l.data
    BY <1>6, <2>4 DEF Sought
  <2>6. /\ b.ret = 0 /\ b.k.off = Len(b.k.data) /\ b.s.eof = s.eof
        /\ \/ b.ret = 0 /\ b.s.tell = b.k.off /\ b.s.err = s.err
           \/ b.ret = SO_EOF /\ b.s.tell = s.tell /\ b.s.err = TRUE
    BY <2>2, <2>5, <2>4 DEF Sought
  <2>7. InPlace(s, k, b)
    BY <1>2, <1>6, <2>5, <2>6, EofIsInt DEF InPlace
  <2> QED
    BY <2>3, <2>7
<1>7. CASE s.mode # "a+" /\ IsReadOperation(s)
  <2> DEFINE whence == "SEEK_SET"
  <2>1. b \in Fseek(s, l, s.tell, whence)
    <3> DEFINE t == <<s.tell, whence>>
    <3>1. Targets(s) = {t}
      BY <1>7 DEF Targets, IsReadOperation, IsWriteOperation
    <3>2. Moves(s) = {t}
      BY <3>1 DEF Moves
    <3> QED
      BY <1>3, <3>1, <3>2
  <2>2. whence \in Whence /\ whence = "SEEK_SET"
    BY DEF Whence
  <2> HIDE DEF whence
  <2>3. /\ b.s \in Stream /\ b.k \in KFile /\ b.ret \in Int /\ b.s.mode = s.mode
        /\ ~b.hangs => Ready(s, k, b)
    BY <1>1, <1>5, <2>1, <2>2
  <2>4. ~IsWriteOperation(s) /\ l = k
    BY <1>2, <1>4, <1>7 DEF IsReadOperation, IsWriteOperation
  <2>5. Sought(s, k, s.tell, whence, b)
    BY <1>1, <1>2, <2>1, <2>2, <2>4, FseekSettled
  <2>6. ~b.hangs /\ b.k.data = k.data
    BY <2>4, <2>5 DEF Sought
  <2>7. /\ b.ret = 0 /\ b.s.tell = s.tell /\ b.s.eof = s.eof /\ FileOf(b.s, b.k) = FileOf(s, k)
        /\ \/ b.ret = 0 /\ b.s.tell = b.k.off /\ b.s.err = s.err
           \/ b.ret = SO_EOF /\ b.s.tell = s.tell /\ b.s.err = TRUE
    BY <1>1, <2>2, <2>6, <2>5 DEF Sought
  <2>8. s.mode # "a"
    BY <1>4, <1>7 DEF IsReadOperation
  <2>9. InPlace(s, k, b)
    BY <1>7, <2>6, <2>7, <2>8, EofIsInt DEF InPlace
  <2> QED
    BY <2>3, <2>9
<1>8. CASE Targets(s) = {}
  <2>1. s.lastOp # "read" /\ (s.mode = "a+" => IsWriteOperation(s))
    BY <1>8 DEF Targets, IsReadOperation, IsWriteOperation
  <2>2. CASE b = Outcome(s, l, 0)
    <3>1. b.s = s /\ b.k = l /\ b.ret = 0 /\ b.hangs = FALSE
      BY <2>2 DEF Outcome
    <3>2. Ready(s, k, b) /\ l \in KFile
      BY <1>2, <2>1, <3>1, SettledFields DEF Ready
    <3>3. s.mode = "a+" /\ Appending(s, k) => k.off = Len(k.data)
      BY <2>1 DEF Appending, IsWriteOperation
    <3>4. InPlace(s, k, b)
      BY <1>2, <3>1, <3>3 DEF InPlace
    <3> QED
      BY <1>1, <3>1, <3>2, <3>4
  <2>3. CASE b # Outcome(s, l, 0)
    <3>1. JunkSeek /\ \E t \in SeekOffsets \X Whence : b \in Fseek(s, l, t[1], t[2])
      BY <1>8, <2>3 DEF BeforePut, Moves, l
    <3>2. PICK t \in SeekOffsets \X Whence : b \in Fseek(s, l, t[1], t[2])
      BY <3>1
    <3>3. t[1] \in Int /\ t[2] \in Whence
      BY StdioWinAssumption
    <3>4. /\ b.s \in Stream /\ b.k \in KFile /\ b.ret \in Int /\ b.s.mode = s.mode
          /\ ~b.hangs => Ready(s, k, b)
      BY <1>5, <2>1, <3>2, <3>3
    <3> QED
      BY <3>1, <3>4
  <2> QED
    BY <2>2, <2>3
<1>9. \/ s.mode = "a+" /\ ~IsWriteOperation(s)
      \/ s.mode # "a+" /\ IsReadOperation(s)
      \/ Targets(s) = {}
  BY DEF Targets, IsReadOperation, IsWriteOperation
<1> QED
  BY <1>6, <1>7, <1>8, <1>9

\* so_fputc.
LEMMA FputcSettled ==
  ASSUME NEW s, NEW k, Settled(s, k), NEW c \in Byte, NEW o \in Fputc(s, k, c)
  PROVE  /\ o.s \in Stream /\ o.k \in KFile /\ o.ret \in Int /\ o.s.mode = s.mode
         /\ ~o.hangs => /\ Settled(o.s, o.k) /\ (AtTell(s, k) => AtTell(o.s, o.k))
                        /\ CanWrite(s.mode) => o.s.lastOp # "read"
         /\ ~JunkSeek => /\ Appending(s, k) => Kept(s.mode, k, o.k)
                         /\ ~o.hangs /\ Appending(s, k) => Appending(o.s, o.k)
                         /\ ~o.hangs /\ AtTell(s, k) /\ s.mode \notin {"a", "a+"} =>
                              \/ Placed(s, k, c, o)
                              \/ Failed(s, o) /\ FileOf(o.s, o.k) = FileOf(s, k)
<1>1. CASE ~CanWrite(s.mode)
  <2>1. o = Outcome([s EXCEPT !.err = TRUE], k, SO_EOF)
    BY <1>1 DEF Fputc
  <2>2. /\ ~o.hangs /\ Typed(s, k, o) /\ Keeps(s, k, o)
        /\ FileOf(o.s, o.k) = FileOf(s, k) /\ Failed(s, o)
    BY <2>1, RefusedSettled
  <2> QED
    BY <1>1, <2>2 DEF Typed, Keeps
<1>2. CASE CanWrite(s.mode)
  <2>1. PICK b \in BeforePut(s, k) :
          IF b.hangs THEN o = b
          ELSE IF b.ret = SO_EOF THEN o = Outcome([b.s EXCEPT !.err = TRUE], b.k, SO_EOF)
          ELSE o \in StoreByte(b.s, b.k, c)
    BY <1>2, FputcIs
  <2>2. /\ b.s \in Stream /\ b.k \in KFile /\ b.ret \in Int /\ b.s.mode = s.mode
        /\ ~b.hangs => Ready(s, k, b)
        /\ ~JunkSeek => InPlace(s, k, b)
    BY BeforePutSettled
  <2>3. CASE b.hangs
    BY <2>1, <2>2, <2>3 DEF InPlace
  <2>4. CASE ~b.hangs /\ b.ret = SO_EOF
    <3>1. o = Outcome([b.s EXCEPT !.err = TRUE], b.k, SO_EOF)
      BY <2>1, <2>4
    <3>2. JunkSeek
      BY <2>2, <2>4, EofIsInt DEF InPlace
    <3>3. Settled(b.s, b.k) /\ b.s.lastOp # "read" /\ (AtTell(s, k) => AtTell(b.s, b.k))
      BY <2>2, <2>4 DEF Ready
    <3>4. Typed(b.s, b.k, o) /\ Keeps(b.s, b.k, o) /\ SameBuffer(b.s, o.s)
      BY <3>1, <3>3, RefusedSettled
    <3> QED
      BY <2>2, <3>2, <3>3, <3>4 DEF Typed, Keeps, SameBuffer
  <2>5. CASE ~b.hangs /\ b.ret # SO_EOF
    <3>1. o \in StoreByte(b.s, b.k, c)
      BY <2>1, <2>5
    <3>2. /\ Settled(b.s, b.k) /\ b.s.lastOp # "read" /\ CanWrite(b.s.mode)
          /\ AtTell(s, k) => AtTell(b.s, b.k)
      BY <1>2, <2>2, <2>5 DEF Ready
    <3>3. Typed(b.s, b.k, o) /\ (~o.hangs => Stored(b.s, b.k, c, o))
      BY <3>1, <3>2, StoreSettled
    <3>4. ASSUME ~JunkSeek, Appending(s, k) PROVE Kept(s.mode, k, o.k)
      <4>1. b.k.data = k.data /\ (s.mode \in {"a", "a+"} => b.k.off = Len(b.k.data))
        BY <2>2, <3>4 DEF InPlace
      <4>2. Appending(b.s, b.k)
        BY <2>2, <4>1 DEF Appending
      <4>3. Kept(s.mode, b.k, o.k)
        BY <2>2, <3>3, <4>2 DEF Typed
      <4> QED
        BY <4>1, <4>3 DEF Kept
    <3>5. ASSUME ~JunkSeek, ~o.hangs, Appending(s, k) PROVE Appending(o.s, o.k)
      <4>1. CASE s.mode \in {"a", "a+"}
        <5>1. b.k.off = Len(b.k.data)
          BY <2>2, <3>5, <4>1 DEF InPlace
        <5> QED
          BY <3>3, <3>5, <5>1 DEF Stored
      <4>2. CASE s.mode \notin {"a", "a+"}
        <5>1. o.s.mode \notin {"a", "a+"}
          BY <2>2, <3>3, <4>2 DEF Typed
        <5> QED
          BY <5>1 DEF Appending
      <4> QED
        BY <4>1, <4>2
    <3>6. ASSUME ~JunkSeek, ~o.hangs, AtTell(s, k), s.mode \notin {"a", "a+"}
          PROVE  Placed(s, k, c, o)
      <4>1. /\ b.s.eof = s.eof /\ b.s.err = s.err /\ b.s.tell = s.tell
            /\ FileOf(b.s, b.k) = FileOf(s, k)
        BY <2>2, <3>6 DEF InPlace
      <4>2. Placed(b.s, b.k, c, o)
        BY <2>2, <3>2, <3>3, <3>6 DEF Stored
      <4> QED
        BY <4>1, <4>2 DEF Placed
    <3> QED
      BY <2>2, <3>2, <3>3, <3>4, <3>5, <3>6 DEF Typed, Stored
  <2> QED
    BY <2>3, <2>4, <2>5
<1> QED
  BY <1>1, <1>2

-----------------------------------------------------------------------------
(* The inductive invariant.                                                *)

Dirs == {"none", "read", "write", "lost"}

\* How the stream stands after the caller went in direction d: nothing that
\* is pending is ever forgotten, and nothing read ahead ever written.
Standing(s, k, d) ==
  /\ Settled(s, k)
  /\ d # "lost" => AtTell(s, k)
  /\ ~JunkSeek => Appending(s, k)
  /\ d = "none" => Blank(s) /\ s.lastOp # "read"
  /\ d = "read" /\ CanRead(s.mode) => NonePending(s)
  /\ d = "write" /\ CanWrite(s.mode) => s.lastOp # "read"

\* so_fread is under way.
Reading(s, d) == s.lastOp = "read" /\ CanRead(s.mode) /\ d = "read"

WInv ==
  /\ TypeOK
  /\ dir \in Dirs
  /\ status = "open" => Standing(stream, kfile, dir)
  /\ status # "open" => call = NoCall
  /\ call.op = "so_fread" => Reading(stream, dir)

Statuses == {"none", "open", "closed", "crashed", "hung"}
Calls == [op: {"none", "so_fread"}, nmemb: Nat, done: Nat]
Names == {"none", "so_fopen", "so_fclose", "so_fgetc", "so_fputc", "so_fflush",
          "so_fseek", "so_fread", "so_fwrite"}

LEMMA Types ==
  TypeOK <=> /\ status \in Statuses /\ stream \in Stream /\ kfile \in KFile
             /\ call \in Calls /\ ret \in Names \X Int
  BY DEF TypeOK, Statuses, Stream, KFile, Calls, Names

LEMMA TypesNext ==
  TypeOK' <=> /\ status' \in Statuses /\ stream' \in Stream /\ kfile' \in KFile
              /\ call' \in Calls /\ ret' \in Names \X Int
  BY DEF TypeOK, Statuses, Stream, KFile, Calls, Names

LEMMA NoCallType == NoCall \in Calls /\ NoCall.op = "none"
<1> DEFINE zero == 0
<1>1. zero \in Nat
  OBVIOUS
<1> HIDE DEF zero
<1>2. [op |-> "none", nmemb |-> zero, done |-> zero] \in Calls
  BY <1>1 DEF Calls
<1> QED
  BY <1>2 DEF NoCall, zero

LEMMA NewStreamType ==
  ASSUME NEW mode \in AllModes
  PROVE  LET s == NewStream(mode) IN
         /\ s \in Stream /\ Blank(s) /\ Repositioned(s)
         /\ s.mode = mode /\ s.tell = 0 /\ s.eof = FALSE /\ s.err = FALSE
<1> DEFINE b == [i \in Index |-> IF i = 0 THEN 0 ELSE Junk]
           s == [mode |-> mode, eof |-> FALSE, err |-> FALSE, lastOp |-> "", pos |-> 0,
                 tell |-> 0, size |-> 0, buf |-> b]
<1>1. b \in [Index -> Cell]
  BY CellFacts
<1>2. 0 \in 0..BufSize /\ 0 \in Int
  BY CellFacts
<1>3. NewStream(mode) = s
  BY DEF NewStream
<1> HIDE DEF b
<1>4. s \in Stream
  BY <1>1, <1>2 DEF Stream
<1>5. Repositioned(s)
  BY DEF Repositioned
<1>6. Blank(s) /\ s.mode = mode /\ s.tell = 0 /\ s.eof = FALSE /\ s.err = FALSE
  BY DEF Blank
<1> HIDE DEF s
<1> QED
  BY <1>3, <1>4, <1>5, <1>6

LEMMA OpenedType ==
  ASSUME kfile \in KFile, NEW mode
  PROVE  Opened(mode) \in KFile /\ Opened(mode).off = 0 /\ Opened(mode).data \in {kfile.data, <<>>}
<1> DEFINE d == IF mode \in {"w", "w+"} THEN <<>> ELSE kfile.data
<1>1. d \in Seq(Cell) /\ d \in {kfile.data, <<>>} /\ 0 \in Nat
  BY FileFields
<1>2. Opened(mode) = [data |-> d, off |-> 0]
  BY DEF Opened
<1> HIDE DEF d
<1> QED
  BY <1>1, <1>2 DEF KFile

\* A stream that was just opened.
LEMMA NewStanding ==
  ASSUME NEW s \in Stream, NEW k \in KFile, Blank(s), Repositioned(s), s.tell = 0, k.off = 0
  PROVE  Standing(s, k, "none")
<1>1. Empty(s) /\ s.tell \in Nat /\ s.tell = k.off
  BY DEF Empty, Blank, Repositioned
<1>2. Settled(s, k) /\ AtTell(s, k)
  BY <1>1, EmptyIsSettled
<1> QED
  BY <1>2 DEF Standing, Appending, Repositioned

LEMMA WInvInit == CInit => WInv
<1> SUFFICES ASSUME CInit PROVE WInv
  OBVIOUS
<1>1. /\ status = "none" /\ stream = NewStream("r") /\ call = NoCall /\ ret = <<"none", 0>>
      /\ kfile = [data |-> InitialFile, off |-> 0] /\ dir = "none"
  BY DEF CInit, Init
<1>2. stream \in Stream
  <2>1. "r" \in AllModes
    BY DEF AllModes
  <2> QED
    BY <1>1, <2>1, NewStreamType
<1>3. kfile \in KFile
  <2>1. InitialFile \in Seq(Cell)
    BY StdioWinAssumption DEF Cell
  <2> QED
    BY <1>1, <2>1 DEF KFile
<1>4. TypeOK
  BY <1>1, <1>2, <1>3, Types, NoCallType DEF Statuses, Names
<1> QED
  BY <1>1, <1>4, NoCallType DEF WInv, Dirs

\* The calls that end in one step, with outcome o and the direction d.
LEMMA CallEnds ==
  ASSUME WInv, Idle, NEW name \in Names, NEW after \in {"open", "closed"}, NEW o,
         Ends(name, o, after), o.s \in Stream, o.k \in KFile, o.ret \in Int, dir' \in Dirs,
         ~o.hangs /\ after = "open" => Standing(o.s, o.k, dir')
  PROVE  WInv'
<1>1. call = NoCall /\ call' = NoCall /\ stream' = o.s /\ kfile' = o.k
  BY DEF Idle, Ends
<1>2. ret \in Names \X Int
  BY Types DEF WInv
<1>3. /\ o.hangs => status' = "hung" /\ ret' = ret
      /\ ~o.hangs => status' = after /\ ret' = <<name, o.ret>>
  BY DEF Ends
<1>4. ret' \in Names \X Int /\ status' \in Statuses
  BY <1>2, <1>3 DEF Statuses
<1>5. TypeOK'
  BY <1>1, <1>4, TypesNext, NoCallType
<1>6. status' = "open" => Standing(stream', kfile', dir')
  BY <1>1, <1>3
<1> QED
  BY <1>1, <1>5, <1>6, NoCallType DEF WInv

\* What a step leaves of the file that is open.
KeptHere == ~JunkSeek /\ status = "open" => Kept(stream.mode, kfile, kfile')

LEMMA OpenFacts ==
  ASSUME WInv, status = "open"
  PROVE  /\ stream \in Stream /\ kfile \in KFile /\ dir \in Dirs
         /\ Standing(stream, kfile, dir) /\ Settled(stream, kfile)
         /\ call \in Calls /\ ret \in Names \X Int
  BY Types DEF WInv, Standing

LEMMA SoFopenInv ==
  ASSUME WInv, NEW mode, SoFopen(mode), dir' = "none"
  PROVE  WInv' /\ KeptHere
<1>1. status \in {"none", "closed"} /\ call' = call /\ call = NoCall
  BY DEF SoFopen, WInv
<1>2. /\ stream \in Stream /\ kfile \in KFile /\ ret \in Names \X Int /\ status \in Statuses
      /\ call' \in Calls /\ call'.op = "none"
  BY <1>1, Types, NoCallType DEF WInv
<1>3. Opened(mode) \in KFile /\ Opened(mode).off = 0
  BY <1>2, OpenedType
<1>4. CASE status' = status
  <2>1. UNCHANGED <<stream, kfile>> /\ ret' = <<"so_fopen", 0>>
    BY <1>1, <1>4 DEF SoFopen
  <2>2. TypeOK'
    BY <1>2, <1>4, <2>1, TypesNext DEF Names
  <2> QED
    BY <1>1, <1>2, <1>4, <2>2 DEF WInv, Dirs, KeptHere
<1>5. CASE status' = "crashed"
  <2>1. UNCHANGED <<stream, ret>> /\ kfile' = Opened(mode)
    BY <1>1, <1>5 DEF SoFopen
  <2>2. TypeOK'
    BY <1>2, <1>3, <1>5, <2>1, TypesNext DEF Statuses
  <2> QED
    BY <1>1, <1>2, <1>5, <2>2 DEF WInv, Dirs, KeptHere
<1>6. CASE status' = "open"
  <2>1. /\ mode \in AllModes /\ stream' = NewStream(mode) /\ kfile' = Opened(mode)
        /\ ret' = <<"so_fopen", 1>>
    BY <1>1, <1>6 DEF SoFopen
  <2>2. stream' \in Stream /\ Blank(stream') /\ Repositioned(stream') /\ stream'.tell = 0
    BY <2>1, NewStreamType
  <2>3. Standing(stream', kfile', "none")
    BY <1>3, <2>1, <2>2, NewStanding
  <2>4. TypeOK'
    BY <1>2, <1>3, <1>6, <2>1, <2>2, TypesNext DEF Statuses, Names
  <2> QED
    BY <1>1, <1>2, <1>6, <2>3, <2>4 DEF WInv, Dirs, KeptHere
<1> QED
  BY <1>4, <1>5, <1>6 DEF SoFopen

LEMMA SoFgetcInv ==
  ASSUME WInv, dir # "lost", SoFgetc, dir' = "read"
  PROVE  WInv' /\ KeptHere
<1>1. PICK o \in Fgetc(stream, kfile) : Ends("so_fgetc", o, "open") /\ Idle
  BY DEF SoFgetc
<1>2. Standing(stream, kfile, dir) /\ Settled(stream, kfile) /\ status = "open"
  BY <1>1, OpenFacts DEF Idle
<1>3. /\ Typed(stream, kfile, o)
      /\ ~o.hangs => /\ Keeps(stream, kfile, o)
                     /\ CanRead(stream.mode) => NonePending(o.s)
  BY <1>1, <1>2, FgetcSettled
<1>4. ~o.hangs => Standing(o.s, o.k, "read")
  BY <1>2, <1>3 DEF Standing, Keeps, Typed
<1>5. "so_fgetc" \in Names /\ "read" \in Dirs /\ kfile' = o.k
  BY <1>1 DEF Names, Dirs, Ends
<1>6. WInv'
  BY <1>1, <1>3, <1>4, <1>5, CallEnds DEF Typed
<1> QED
  BY <1>2, <1>3, <1>5, <1>6 DEF KeptHere, Typed, Standing

LEMMA SoFputcInv ==
  ASSUME WInv, dir # "lost", NEW c \in Byte, SoFputc(c), dir' = "write"
  PROVE  WInv' /\ KeptHere
<1>1. PICK o \in Fputc(stream, kfile, c) : Ends("so_fputc", o, "open") /\ Idle
  BY DEF SoFputc
<1>2. Standing(stream, kfile, dir) /\ Settled(stream, kfile) /\ status = "open"
  BY <1>1, OpenFacts DEF Idle
<1>3. /\ o.s \in Stream /\ o.k \in KFile /\ o.ret \in Int /\ o.s.mode = stream.mode
      /\ ~o.hangs => /\ Settled(o.s, o.k) /\ (AtTell(stream, kfile) => AtTell(o.s, o.k))
                     /\ CanWrite(stream.mode) => o.s.lastOp # "read"
      /\ ~JunkSeek => /\ Appending(stream, kfile) => Kept(stream.mode, kfile, o.k)
                      /\ ~o.hangs /\ Appending(stream, kfile) => Appending(o.s, o.k)
  BY <1>1, <1>2, FputcSettled
<1>4. ~o.hangs => Standing(o.s, o.k, "write")
  BY <1>2, <1>3 DEF Standing
<1>5. "so_fputc" \in Names /\ "write" \in Dirs /\ kfile' = o.k
  BY <1>1 DEF Names, Dirs, Ends
<1>6. WInv'
  BY <1>1, <1>3, <1>4, <1>5, CallEnds
<1> QED
  BY <1>2, <1>3, <1>5, <1>6 DEF KeptHere, Standing

LEMMA SoFflushInv ==
  ASSUME WInv, dir # "lost", SoFflush, dir' = IF Positioned THEN "none" ELSE dir
  PROVE  WInv' /\ KeptHere
<1>1. PICK o \in Fflush(stream, kfile) : Ends("so_fflush", o, "open") /\ Idle
  BY DEF SoFflush
<1>2. /\ Standing(stream, kfile, dir) /\ Settled(stream, kfile) /\ status = "open"
      /\ stream \in Stream /\ kfile \in KFile /\ dir \in Dirs
  BY <1>1, OpenFacts DEF Idle
<1>3. /\ "so_fflush" \in Names /\ kfile' = o.k /\ dir' \in Dirs
      /\ ~o.hangs => dir' = IF o.ret = 0 THEN "none" ELSE dir
  BY <1>1, <1>2 DEF Names, Dirs, Ends, Positioned
<1>4. CASE ~IsWriteOperation(stream)
  <2>1. o.s = stream /\ o.k = kfile /\ o.ret = SO_EOF /\ o.hangs = FALSE
    BY <1>1, <1>4 DEF Fflush, Outcome
  <2>2. dir' = dir
    BY <1>3, <2>1, EofIsInt
  <2>3. WInv'
    BY <1>1, <1>2, <1>3, <2>1, <2>2, CallEnds, EofIsInt
  <2> QED
    BY <1>2, <1>3, <2>1, <2>3, KeptSame DEF KeptHere
<1>5. CASE IsWriteOperation(stream)
  <2>1. /\ o.s \in Stream /\ o.k \in KFile /\ o.s.mode = stream.mode /\ o.ret = 0
        /\ Appending(stream, kfile) => Kept(stream.mode, kfile, o.k)
        /\ ~o.hangs => Flushed(stream, kfile, o.s, o.k)
    BY <1>1, <1>2, <1>5, FflushSettled
  <2>2. ASSUME ~o.hangs PROVE Standing(o.s, o.k, dir')
    <3>1. /\ Settled(o.s, o.k)
          /\ AtTell(stream, kfile) => AtTell(o.s, o.k)
          /\ Appending(stream, kfile) => Appending(o.s, o.k)
      BY <1>2, <1>5, <2>1, <2>2, FlushedSettled
    <3>2. dir' = "none" /\ Blank(o.s) /\ o.s.lastOp # "read"
      BY <1>3, <2>1, <2>2 DEF Flushed, Is, Blank
    <3>3. AtTell(stream, kfile) /\ (~JunkSeek => Appending(stream, kfile))
      BY <1>2 DEF Standing
    <3> QED
      BY <3>1, <3>2, <3>3 DEF Standing
  <2>3. o.ret \in Int
    BY <2>1
  <2>4. WInv'
    BY <1>1, <1>3, <2>1, <2>2, <2>3, CallEnds
  <2> QED
    BY <1>2, <1>3, <2>1, <2>4 DEF KeptHere, Standing
<1> QED
  BY <1>4, <1>5

LEMMA SoFseekInv ==
  ASSUME WInv, NEW offset \in SeekOffsets, NEW whence \in Whence, SoFseek(offset, whence),
         dir' = IF Positioned THEN "none" ELSE "lost"
  PROVE  WInv' /\ KeptHere
<1>1. PICK o \in Fseek(stream, kfile, offset, whence) : Ends("so_fseek", o, "open") /\ Idle
  BY DEF SoFseek
<1>2. /\ Standing(stream, kfile, dir) /\ Settled(stream, kfile) /\ status = "open"
      /\ offset \in Int
  BY <1>1, OpenFacts, StdioWinAssumption DEF Idle
<1>3. /\ "so_fseek" \in Names /\ kfile' = o.k /\ dir' \in Dirs
      /\ ~o.hangs => dir' = IF o.ret = 0 THEN "none" ELSE "lost"
  BY <1>1 DEF Names, Dirs, Ends, Positioned
<1>4. Sought(stream, kfile, offset, whence, o)
  BY <1>1, <1>2, FseekSettled
<1>5. Typed(stream, kfile, o)
  BY <1>4 DEF Sought
<1>6. ASSUME ~o.hangs PROVE Standing(o.s, o.k, dir')
  <2>1. /\ Settled(o.s, o.k) /\ Repositioned(o.s)
        /\ o.ret = 0 => o.s.tell = o.k.off
    BY <1>4, <1>6, EofIsInt DEF Sought
  <2>2. o.ret = 0 => AtTell(o.s, o.k)
    BY <2>1, RepositionedAtTell
  <2>3. Blank(o.s)
    BY <2>1 DEF Settled, Repositioned, Blank
  <2>4. dir' = IF o.ret = 0 THEN "none" ELSE "lost"
    BY <1>3, <1>6
  <2> QED
    BY <2>1, <2>2, <2>3, <2>4 DEF Standing, Repositioned, Appending
<1>7. WInv'
  BY <1>1, <1>3, <1>5, <1>6, CallEnds DEF Typed
<1> QED
  BY <1>2, <1>3, <1>5, <1>7 DEF KeptHere, Typed, Standing

\* so_fclose writes what is pending.
Closings(s, k) ==
  LET Close(t, l) == {Outcome(t, l, 0)} IN
  IF IsWriteOperation(s) THEN Then(Fflush(s, k), Close) ELSE Close(s, k)

LEMMA FcloseSettled ==
  ASSUME NEW s, NEW k, Settled(s, k), NEW o \in Closings(s, k)
  PROVE  /\ Typed(s, k, o)
         /\ ~o.hangs => /\ o.k.data = FileOf(s, k) /\ o.ret = 0
                        /\ o.s.tell = s.tell /\ o.s.eof = s.eof /\ o.s.err = s.err
<1>1. s \in Stream /\ k \in KFile
  BY SettledFields
<1>2. CASE ~IsWriteOperation(s)
  <2>1. o = Outcome(s, k, 0)
    BY <1>2 DEF Closings
  <2>2. o.s = s /\ o.k = k /\ o.ret = 0 /\ o.hangs = FALSE
    BY <2>1 DEF Outcome
  <2>3. k.data = FileOf(s, k) /\ Kept(s.mode, k, k)
    BY <1>1, <1>2, BufferedType, KeptSame
  <2> QED
    BY <1>1, <2>2, <2>3 DEF Typed
<1>3. CASE IsWriteOperation(s)
  <2>1. PICK b \in Fflush(s, k) : o = IF b.hangs THEN b ELSE Outcome(b.s, b.k, 0)
    BY <1>3 DEF Closings, Then
  <2>2. /\ b.s \in Stream /\ b.k \in KFile /\ b.s.mode = s.mode /\ b.ret = 0
        /\ Appending(s, k) => Kept(s.mode, k, b.k)
        /\ ~b.hangs => Flushed(s, k, b.s, b.k)
    BY <1>3, FflushSettled
  <2>3. CASE b.hangs
    <3>1. o = b
      BY <2>1, <2>3
    <3> QED
      BY <2>2, <2>3, <3>1 DEF Typed
  <2>4. CASE ~b.hangs
    <3>1. o = Outcome(b.s, b.k, 0)
      BY <2>1, <2>4
    <3>2. o.s = b.s /\ o.k = b.k /\ o.ret = 0
      BY <3>1 DEF Outcome
    <3>3. o.ret \in Int
      BY <3>2
    <3>4. Typed(s, k, o)
      BY <2>2, <3>2, <3>3 DEF Typed
    <3> QED
      BY <2>2, <2>4, <3>2, <3>4 DEF Flushed, Is
  <2> QED
    BY <2>3, <2>4
<1> QED
  BY <1>2, <1>3

LEMMA SoFcloseInv ==
  ASSUME WInv, SoFclose, dir' = dir
  PROVE  WInv' /\ KeptHere
<1>1. PICK o \in Closings(stream, kfile) : Ends("so_fclose", o, "closed") /\ Idle
  BY DEF SoFclose, Closings
<1>2. /\ Standing(stream, kfile, dir) /\ Settled(stream, kfile) /\ status = "open"
      /\ dir' \in Dirs
  BY <1>1, OpenFacts DEF Idle
<1>3. Typed(stream, kfile, o)
  BY <1>1, <1>2, FcloseSettled
<1>4. "so_fclose" \in Names /\ kfile' = o.k
  BY <1>1 DEF Names, Ends
<1>5. WInv'
  BY <1>1, <1>2, <1>3, <1>4, CallEnds DEF Typed
<1> QED
  BY <1>2, <1>3, <1>4, <1>5 DEF KeptHere, Typed, Standing

\* A call the mode does not allow.
LEMMA RefusedInv ==
  ASSUME WInv, Idle, NEW name \in {"so_fread", "so_fwrite"}, Refused(name), kfile' = kfile,
         dir' = IF name = "so_fread" THEN "read" ELSE "write", dir # "lost",
         name = "so_fread" => ~CanRead(stream.mode),
         name = "so_fwrite" => ~CanWrite(stream.mode)
  PROVE  WInv' /\ KeptHere
<1>1. /\ Standing(stream, kfile, dir) /\ Settled(stream, kfile) /\ status = "open"
      /\ stream \in Stream /\ kfile \in KFile /\ call = NoCall
  BY OpenFacts DEF Idle
<1>2. /\ stream' = [stream EXCEPT !.err = TRUE] /\ ret' = <<name, SO_EOF>>
      /\ status' = status /\ call' = call
  BY DEF Refused
<1>3. stream' \in Stream /\ SameBuffer(stream, stream')
  BY <1>1, <1>2, SetErr DEF Is, SameBuffer
<1>4. /\ Settled(stream', kfile)
      /\ AtTell(stream, kfile) => AtTell(stream', kfile)
      /\ Appending(stream, kfile) => Appending(stream', kfile)
  BY <1>1, <1>3, MarksAreSettled
<1>5. Standing(stream', kfile, dir')
  BY <1>1, <1>3, <1>4 DEF Standing, SameBuffer
<1>6. TypeOK'
  BY <1>1, <1>2, <1>3, TypesNext, NoCallType, EofIsInt DEF Statuses, Names
<1>7. WInv'
  BY <1>1, <1>2, <1>5, <1>6, NoCallType DEF WInv, Dirs
<1> QED
  BY <1>1, <1>7, KeptSame DEF KeptHere

\* so_fread and so_fwrite record the operation before they handle a byte.
LEMMA RecordedStanding ==
  ASSUME NEW s, NEW k, NEW d, Standing(s, k, d), d # "lost",
         NEW l \in {"read", "write"}, NEW t, t = [s EXCEPT !.lastOp = l],
         l = "read" => d \in {"none", "read"} /\ CanRead(s.mode),
         l = "write" => d \in {"none", "write"} /\ CanWrite(s.mode) /\ s.mode # "a+"
  PROVE  /\ Standing(t, k, l) /\ t \in Stream /\ t.lastOp = l /\ t.mode = s.mode
         /\ FileOf(t, k) = FileOf(s, k)
         /\ t.tell = s.tell /\ t.eof = s.eof /\ t.err = s.err
<1>1. s \in Stream /\ k \in KFile /\ Settled(s, k) /\ AtTell(s, k) /\ s.tell \in Nat
  BY SettledFields DEF Standing
<1>2. Is(t, s.mode, s.eof, s.err, l, s.pos, s.tell, s.size, s.buf)
  BY <1>1, SetLastOp
<1>3. /\ t \in Stream /\ t.mode = s.mode /\ t.eof = s.eof /\ t.err = s.err /\ t.lastOp = l
      /\ t.pos = s.pos /\ t.tell = s.tell /\ t.size = s.size /\ t.buf = s.buf
  BY <1>2 DEF Is
<1>4. CASE s.lastOp = l
  <2>1. SameBuffer(s, t)
    BY <1>3, <1>4 DEF SameBuffer
  <2>2. /\ Settled(t, k) /\ FileOf(t, k) = FileOf(s, k)
        /\ AtTell(s, k) => AtTell(t, k)
        /\ Appending(s, k) => Appending(t, k)
    BY <1>1, <1>3, <2>1, MarksAreSettled
  <2>3. NonePending(t) \/ l = "write"
    BY <1>3 DEF NonePending, IsWriteOperation
  <2> QED
    BY <1>1, <1>3, <2>2, <2>3 DEF Standing
<1>5. CASE s.lastOp # l
  <2>1. Empty(t) /\ s.size = 0
    <3>1. CASE l = "read"
      <4>1. s.size = 0
        BY <1>5, <3>1 DEF Standing, Blank, NonePending, Settled, IsWriteOperation
      <4> QED
        BY <1>3, <3>1, <4>1 DEF Empty
    <3>2. CASE l = "write"
      <4>1. s.lastOp # "read" /\ s.lastOp # "write"
        BY <1>5, <3>2 DEF Standing
      <4>2. s.pos = 0 /\ s.size = 0
        BY <1>1, <4>1 DEF Settled
      <4> QED
        BY <1>3, <3>2, <4>2 DEF Empty
    <3> QED
      BY <3>1, <3>2
  <2>2. s.mode = "a" \/ s.tell = k.off
    <3>1. s.size \in Nat /\ k.off \in Nat /\ s.size <= 0
      BY <1>1, <2>1, SettledFields
    <3>2. k.off + s.size = k.off /\ k.off - s.size = k.off
      BY <3>1
    <3> QED
      BY <1>1, <3>2, TellCases
  <2>3. Settled(t, k) /\ FileOf(t, k) = k.data /\ (t.tell = k.off => AtTell(t, k))
    BY <1>1, <1>3, <2>1, EmptyIsSettled
  <2>4. FileOf(s, k) = k.data
    BY <1>1, <2>1, BufferedType
  <2>5. AtTell(t, k)
    BY <1>3, <2>2, <2>3 DEF AtTell
  <2>6. Appending(t, k)
    <3>1. ~(t.size > 0)
      BY <1>3, <2>1
    <3>2. t.lastOp = "write" => t.mode # "a+"
      BY <1>3
    <3> QED
      BY <3>1, <3>2 DEF Appending
  <2>7. NonePending(t)
    BY <1>3, <2>1 DEF NonePending
  <2> QED
    BY <1>3, <2>3, <2>4, <2>5, <2>6, <2>7 DEF Standing
<1> QED
  BY <1>4, <1>5

LEMMA SoFreadBeginInv ==
  ASSUME WInv, NEW nmemb \in 0..MaxItems, dir \in {"none", "read"}, SoFreadBegin(nmemb),
         dir' = "read"
  PROVE  WInv' /\ KeptHere
<1>1. /\ Idle /\ status = "open" /\ kfile' = kfile /\ stream \in Stream /\ kfile \in KFile
      /\ Standing(stream, kfile, dir) /\ ret \in Names \X Int
  BY OpenFacts DEF SoFreadBegin, Idle
<1>2. CASE ~CanRead(stream.mode)
  <2> DEFINE name == "so_fread"
  <2>1. Refused(name)
    BY <1>2 DEF SoFreadBegin
  <2>2. /\ name \in {"so_fread", "so_fwrite"} /\ dir # "lost" /\ name # "so_fwrite"
        /\ dir' = IF name = "so_fread" THEN "read" ELSE "write"
    OBVIOUS
  <2> HIDE DEF name
  <2> QED
    BY <1>1, <1>2, <2>1, <2>2, RefusedInv
<1>3. CASE CanRead(stream.mode)
  <2> DEFINE l == "read"
             zero == 0
  <2>1. /\ stream' = [stream EXCEPT !.lastOp = l] /\ status' = status /\ ret' = ret
        /\ call' = [op |-> "so_fread", nmemb |-> nmemb, done |-> zero]
    BY <1>3 DEF SoFreadBegin
  <2>2. /\ l \in {"read", "write"} /\ l # "write" /\ dir # "lost" /\ zero \in Nat /\ nmemb \in Nat
        /\ l = dir'
    BY StdioWinAssumption
  <2> HIDE DEF l, zero
  <2>3. Standing(stream', kfile, l) /\ stream' \in Stream /\ stream'.mode = stream.mode
        /\ stream'.lastOp = l
    BY <1>1, <1>3, <2>1, <2>2, RecordedStanding
  <2>4. call' \in Calls
    BY <2>1, <2>2 DEF Calls
  <2>5. TypeOK'
    BY <1>1, <2>1, <2>3, <2>4, TypesNext DEF Statuses
  <2>6. WInv'
    BY <1>1, <1>3, <2>1, <2>2, <2>3, <2>5 DEF WInv, Reading, Dirs
  <2> QED
    BY <1>1, <2>6, KeptSame DEF KeptHere
<1> QED
  BY <1>2, <1>3

\* One so_fgetc of so_fread, with outcome o, which leaves the stream as t.
Marked(r, t) == t = r \/ t = [r EXCEPT !.err = TRUE]

ReadOn(s, k, d, o, t) ==
  /\ Standing(t, o.k, d) /\ Reading(t, d) /\ ~o.hangs /\ Typed(s, k, o)
  /\ t \in Stream /\ t.mode = s.mode /\ t.tell = o.s.tell /\ t.eof = o.s.eof
  /\ t = o.s \/ t.err = TRUE
  /\ FileOf(t, o.k) = FileOf(s, k)
  /\ Took(s, FileOf(s, k), o) \/ Ended(s, FileOf(s, k), o) \/ Failed(s, o)

LEMMA ReadStanding ==
  ASSUME NEW s, NEW k, NEW d, Standing(s, k, d), Reading(s, d), NEW o \in Fgetc(s, k),
         NEW t, Marked(o.s, t)
  PROVE  ReadOn(s, k, d, o, t)
<1>1. Settled(s, k) /\ AtTell(s, k) /\ CanRead(s.mode) /\ s.lastOp = "read"
  BY DEF Standing, Reading
<1>2. /\ Typed(s, k, o) /\ ~o.hangs /\ o.s.lastOp = "read"
      /\ Keeps(s, k, o) /\ FileOf(o.s, o.k) = FileOf(s, k)
      /\ Took(s, FileOf(s, k), o) \/ Ended(s, FileOf(s, k), o) \/ Failed(s, o)
  BY <1>1, FgetcSettled
<1>3. o.s \in Stream /\ o.s.mode = s.mode /\ Settled(o.s, o.k) /\ AtTell(o.s, o.k)
  BY <1>1, <1>2 DEF Typed, Keeps
<1>4. t \in Stream /\ SameBuffer(o.s, t) /\ t.eof = o.s.eof /\ (t = o.s \/ t.err = TRUE)
  <2>1. CASE t = o.s
    BY <1>3, <2>1 DEF SameBuffer
  <2>2. CASE t = [o.s EXCEPT !.err = TRUE]
    BY <1>3, <2>2, SetErr DEF Is, SameBuffer
  <2> QED
    BY <2>1, <2>2 DEF Marked
<1>5. Settled(t, o.k) /\ AtTell(t, o.k) /\ FileOf(t, o.k) = FileOf(s, k)
  BY <1>2, <1>3, <1>4, MarksAreSettled
<1>6. /\ t.mode = s.mode /\ t.lastOp = "read" /\ t.tell = o.s.tell
  BY <1>2, <1>3, <1>4 DEF SameBuffer
<1>7. Reading(t, d) /\ Appending(t, o.k) /\ NonePending(t) /\ d = "read"
  BY <1>1, <1>6 DEF Reading, Appending, NonePending, IsWriteOperation
<1>8. Standing(t, o.k, d)
  BY <1>5, <1>7 DEF Standing
<1> QED
  BY <1>2, <1>4, <1>5, <1>6, <1>7, <1>8 DEF ReadOn

LEMMA SoFreadStepInv ==
  ASSUME WInv, SoFreadStep, dir' = dir
  PROVE  WInv' /\ KeptHere
<1>1. /\ status = "open" /\ status' = status /\ call.op = "so_fread" /\ call \in Calls
      /\ Standing(stream, kfile, dir) /\ Reading(stream, dir) /\ dir \in Dirs
      /\ stream \in Stream /\ kfile \in KFile /\ ret \in Names \X Int
  BY OpenFacts DEF SoFreadStep, WInv
<1>2. call.nmemb \in Nat /\ call.done \in Nat
  BY <1>1 DEF Calls
<1>3. CASE call.done = call.nmemb
  <2>1. /\ call' = NoCall /\ ret' = <<"so_fread", call.nmemb>>
        /\ stream' = stream /\ kfile' = kfile
    BY <1>3 DEF SoFreadStep
  <2>2. ret' \in Names \X Int
    BY <1>2, <2>1 DEF Names
  <2>3. TypeOK'
    BY <1>1, <2>1, <2>2, TypesNext, NoCallType DEF Statuses
  <2>4. WInv'
    BY <1>1, <2>1, <2>3, NoCallType DEF WInv
  <2> QED
    BY <1>1, <2>1, <2>4, KeptSame DEF KeptHere
<1>4. CASE call.done # call.nmemb
  <2>1. PICK o \in Fgetc(stream, kfile) :
          /\ kfile' = o.k
          /\ IF o.ret = SO_EOF
             THEN /\ stream' = [o.s EXCEPT !.err = TRUE]
                  /\ call' = NoCall
                  /\ ret' = <<"so_fread", SO_EOF>>
             ELSE /\ stream' = o.s
                  /\ call' = [call EXCEPT !.done = @ + 1]
                  /\ UNCHANGED ret
    BY <1>4 DEF SoFreadStep
  <2>2. Marked(o.s, stream')
    BY <2>1 DEF Marked
  <2>3. ReadOn(stream, kfile, dir, o, stream')
    BY <1>1, <2>2, ReadStanding
  <2>4. /\ Standing(stream', o.k, dir) /\ Reading(stream', dir)
        /\ Typed(stream, kfile, o) /\ stream' \in Stream
    BY <2>3 DEF ReadOn
  <2>5. o.k \in KFile /\ (Appending(stream, kfile) => Kept(stream.mode, kfile, o.k))
    BY <2>4 DEF Typed
  <2>6. call' \in Calls /\ ret' \in Names \X Int
    <3>1. CASE o.ret = SO_EOF
      BY <2>1, <3>1, NoCallType, EofIsInt DEF Names
    <3>2. CASE o.ret # SO_EOF
      <4> DEFINE n == call.done + 1
      <4>1. n \in Nat
        BY <1>2
      <4>2. call' = [call EXCEPT !.done = n]
        BY <2>1, <3>2
      <4> HIDE DEF n
      <4>3. call' \in Calls
        BY <1>1, <4>1, <4>2 DEF Calls
      <4> QED
        BY <1>1, <2>1, <3>2, <4>3
    <3> QED
      BY <3>1, <3>2
  <2>7. TypeOK'
    BY <1>1, <2>1, <2>4, <2>5, <2>6, TypesNext DEF Statuses
  <2>8. WInv'
    BY <1>1, <2>1, <2>4, <2>7 DEF WInv
  <2> QED
    BY <1>1, <2>1, <2>5, <2>8 DEF KeptHere, Standing
<1> QED
  BY <1>3, <1>4

LEMMA SoFwriteInv ==
  ASSUME WInv, NEW nmemb \in 0..MaxItems, dir # "lost",
         nmemb = 0 => dir \in {"none", "write"} /\ stream.mode # "a+",
         SoFwrite(nmemb), dir' = "write"
  PROVE  WInv' /\ KeptHere
<1>1. /\ Idle /\ status = "open" /\ kfile' = kfile /\ stream \in Stream /\ kfile \in KFile
      /\ Standing(stream, kfile, dir) /\ ret \in Names \X Int /\ call = NoCall
  BY OpenFacts DEF SoFwrite, Idle
<1>2. CASE ~CanWrite(stream.mode)
  <2> DEFINE name == "so_fwrite"
  <2>1. Refused(name)
    BY <1>2 DEF SoFwrite
  <2>2. /\ name \in {"so_fread", "so_fwrite"} /\ name # "so_fread"
        /\ dir' = IF name = "so_fread" THEN "read" ELSE "write"
    OBVIOUS
  <2> HIDE DEF name
  <2> QED
    BY <1>1, <1>2, <2>1, <2>2, RefusedInv
<1>3. CASE CanWrite(stream.mode)
  <2> DEFINE l == "write"
  <2>1. stream' = [stream EXCEPT !.lastOp = l] /\ call' = call
    BY <1>3 DEF SoFwrite
  <2>2. l \in {"read", "write"} /\ l # "read" /\ l = dir'
    OBVIOUS
  <2> HIDE DEF l
  <2>3. stream' \in Stream
    BY <1>1, <2>1, <2>2, SetLastOp DEF Is
  <2>4. CASE nmemb > 0
    <3>1. status' = "crashed" /\ ret' = ret
      BY <1>3, <2>4 DEF SoFwrite
    <3>2. TypeOK'
      BY <1>1, <2>1, <2>3, <3>1, TypesNext, NoCallType DEF Statuses
    <3>3. WInv'
      BY <1>1, <2>1, <3>1, <3>2, NoCallType DEF WInv, Dirs
    <3> QED
      BY <1>1, <3>3, KeptSame DEF KeptHere
  <2>5. CASE ~(nmemb > 0)
    <3>1. status' = status /\ ret' = <<"so_fwrite", 0>>
      BY <1>3, <2>5 DEF SoFwrite
    <3>2. nmemb = 0
      BY <2>5, StdioWinAssumption
    <3>3. Standing(stream', kfile, l)
      BY <1>1, <1>3, <2>1, <2>2, <3>2, RecordedStanding
    <3>4. TypeOK'
      BY <1>1, <2>1, <2>3, <3>1, TypesNext, NoCallType DEF Statuses, Names
    <3>5. WInv'
      BY <1>1, <2>1, <2>2, <3>1, <3>3, <3>4, NoCallType DEF WInv, Dirs
    <3> QED
      BY <1>1, <3>5, KeptSame DEF KeptHere
  <2> QED
    BY <2>4, <2>5
<1> QED
  BY <1>2, <1>3

LEMMA WInvNext == WInv /\ [CNext]_cvars => WInv' /\ KeptHere
<1> SUFFICES ASSUME WInv, [CNext]_cvars PROVE WInv' /\ KeptHere
  OBVIOUS
<1>1. ASSUME NEW mode \in Modes, SoFopen(mode), dir' = "none" PROVE WInv' /\ KeptHere
  BY <1>1, SoFopenInv
<1>2. CASE dir # "lost" /\ SoFgetc /\ dir' = "read"
  BY <1>2, SoFgetcInv
<1>3. ASSUME dir # "lost", NEW c \in Byte, SoFputc(c), dir' = "write" PROVE WInv' /\ KeptHere
  BY <1>3, SoFputcInv
<1>4. CASE dir # "lost" /\ SoFflush /\ dir' = (IF Positioned THEN "none" ELSE dir)
  BY <1>4, SoFflushInv
<1>5. ASSUME NEW offset \in SeekOffsets, NEW whence \in Whence, SoFseek(offset, whence),
             dir' = IF Positioned THEN "none" ELSE "lost"
      PROVE  WInv' /\ KeptHere
  BY <1>5, SoFseekInv
<1>6. CASE SoFclose /\ UNCHANGED dir
  BY <1>6, SoFcloseInv
<1>7. ASSUME NEW nmemb \in 0..MaxItems, dir \in {"none", "read"}, SoFreadBegin(nmemb),
             dir' = "read"
      PROVE  WInv' /\ KeptHere
  BY <1>7, SoFreadBeginInv
<1>8. ASSUME NEW nmemb \in 0..MaxItems, dir # "lost",
             nmemb = 0 => dir \in {"none", "write"} /\ stream.mode # "a+",
             SoFwrite(nmemb), dir' = "write"
      PROVE  WInv' /\ KeptHere
  BY <1>8, SoFwriteInv
<1>9. CASE SoFreadStep /\ UNCHANGED dir
  BY <1>9, SoFreadStepInv
<1>10. CASE UNCHANGED cvars
  <2>1. UNCHANGED <<status, stream, kfile, call, ret, dir>>
    BY <1>10 DEF cvars, vars
  <2>2. WInv'
    BY <2>1 DEF WInv, TypeOK, Standing, Reading
  <2>3. KeptHere
    <3>1. status = "open" => kfile \in KFile
      BY OpenFacts
    <3> QED
      BY <2>1, <3>1, KeptSame DEF KeptHere
  <2> QED
    BY <2>2, <2>3
<1> QED
  BY <1>1, <1>2, <1>3, <1>4, <1>5, <1>6, <1>7, <1>8, <1>9, <1>10 DEF CNext

LEMMA WInvAlways == CSpec => []WInv
<1>1. WInv /\ [CNext]_cvars => WInv'
  BY WInvNext
<1> QED
  BY WInvInit, <1>1, PTL DEF CSpec

\* Every field stays in its range, and no call indexes _buffer out of bounds,
\* whatever so_fputc finds in its uninitialised variable.
THEOREM WinTypeCorrect == CSpec => []TypeOK
<1>1. WInv => TypeOK
  BY DEF WInv
<1> QED
  BY <1>1, WInvAlways, PTL

\* so_ftell is where the next byte will be taken or put, also when reads and
\* writes follow each other without a seek.
THEOREM WinTellIsRight == CSpec => []TellAgrees
<1>1. WInv => TellAgrees
  BY DEF WInv, Standing, AtTell, TellAgrees
<1> QED
  BY <1>1, WInvAlways, PTL

\* A stream that appends never touches what is in the file, and one that is
\* only read never changes it, when the uninitialised variable of so_fputc
\* holds no 1: it is the order of the SetFilePointer and the flush in
\* so_fputc that keeps the old bytes, because Windows has no O_APPEND.
THEOREM AppendsKeepTheFile ==
  ASSUME ~JunkSeek
  PROVE  CSpec => FilePreserved
<1>1. WInv /\ [CNext]_cvars =>
        [status = "open" =>
           /\ stream.mode = "r" => kfile'.data = kfile.data
           /\ stream.mode \in {"a", "a+"} =>
                /\ Len(kfile.data) <= Len(kfile'.data)
                /\ SubSeq(kfile'.data, 1, Len(kfile.data)) = kfile.data]_vars
  BY WInvNext DEF KeptHere, Kept
<1> QED
  BY <1>1, WInvAlways, PTL DEF CSpec, FilePreserved

-----------------------------------------------------------------------------
(* The file that ByteStream's is mapped to.                                *)

AFile == Overlay(kfile.data, kfile.off, Unwritten)

LEMMA MappedFile ==
  ASSUME NEW st, NEW s \in Stream, NEW k \in KFile
  PROVE  Overlay(k.data, k.off,
                 IF st = "open" /\ IsWriteOperation(s)
                 THEN [i \in 1..s.size |-> s.buf[i - 1]] ELSE <<>>)
           = IF st = "open" THEN FileOf(s, k) ELSE k.data
<1>1. CASE st = "open"
  BY <1>1 DEF FileOf, Buffered, First
<1>2. CASE st # "open"
  <2>1. k.data \in Seq(Cell) /\ k.off \in Nat
    BY FileFields
  <2> QED
    BY <1>2, <2>1, EmptyOverlay
<1> QED
  BY <1>1, <1>2

LEMMA AFileIs ==
  ASSUME WInv, WInv'
  PROVE  /\ AFile = IF status = "open" THEN FileOf(stream, kfile) ELSE kfile.data
         /\ AFile' = IF status' = "open" THEN FileOf(stream', kfile') ELSE kfile'.data
         /\ AFile \in Seq(Cell) /\ AFile' \in Seq(Cell)
<1>1. stream \in Stream /\ kfile \in KFile /\ stream' \in Stream /\ kfile' \in KFile
  BY Types, TypesNext DEF WInv
<1>2. AFile = IF status = "open" THEN FileOf(stream, kfile) ELSE kfile.data
  BY <1>1, MappedFile DEF AFile, Unwritten
<1>3. AFile' = IF status' = "open" THEN FileOf(stream', kfile') ELSE kfile'.data
  BY <1>1, MappedFile DEF AFile, Unwritten
<1>4. kfile.data \in Seq(Cell) /\ kfile'.data \in Seq(Cell)
  BY <1>1, FileFields
<1>5. FileOf(stream, kfile) \in Seq(Cell) /\ FileOf(stream', kfile') \in Seq(Cell)
  BY <1>1, BufferedType
<1> QED
  BY <1>2, <1>3, <1>4, <1>5

\* A byte is handled by call op, or within the call block.
AnswersIn(op, v, block) == ret' \in {<<op, v>>, ret} \/ ret'[1] = block

LEMMA IsGet ==
  ASSUME status = "open", status' = status, stream.tell < Len(AFile), AFile' = AFile,
         stream'.tell = stream.tell + 1, stream'.eof = stream.eof, stream'.err = stream.err,
         AnswersIn("so_fgetc", SignedChar(AFile[stream.tell + 1]), "so_fread")
  PROVE  B!Get
  BY DEF B!Get, B!Answers, B!Signed, SignedChar, AnswersIn, AFile

LEMMA IsAtEnd ==
  ASSUME status = "open", status' = status, stream.tell >= Len(AFile), AFile' = AFile,
         stream'.tell = stream.tell, stream'.eof = TRUE, stream'.err = stream.err,
         AnswersIn("so_fgetc", SO_EOF, "so_fread")
  PROVE  B!AtEnd
  BY DEF B!AtEnd, B!Answers, AnswersIn, AFile, SO_EOF

LEMMA IsPut ==
  ASSUME status = "open", status' = status, NEW c \in Byte,
         AFile' = PutAt(AFile, stream.tell, c),
         stream'.tell = stream.tell + 1, stream'.eof = stream.eof, stream'.err = stream.err,
         AnswersIn("so_fputc", c, "so_fwrite")
  PROVE  B!Put
  BY DEF B!Put, B!With, B!Answers, AnswersIn, AFile, PutAt

LEMMA IsFail ==
  ASSUME status = "open", status' = status, AFile' = AFile,
         stream'.tell = stream.tell, stream'.eof = stream.eof, stream'.err = TRUE,
         \/ ret'[1] \in {"so_fread", "so_fwrite"}
         \/ ret' \in {"so_fgetc", "so_fputc", "so_fflush", "so_fseek"} \X {-1}
  PROVE  B!Fail
  BY DEF B!Fail, AFile

LEMMA IsRefuse ==
  ASSUME status = "open", status' = status, AFile' = AFile, stream'.tell = stream.tell,
         stream'.eof = stream.eof, stream'.err = stream.err,
         ret' \in {<<"so_fflush", -1>>, <<"so_fseek", -1>>}
  PROVE  B!Refuse
  BY DEF B!Refuse, AFile

LEMMA IsFlush ==
  ASSUME status = "open", status' = status, AFile' = AFile, stream'.tell = stream.tell,
         stream'.eof = stream.eof, stream'.err = stream.err, ret' = <<"so_fflush", 0>>
  PROVE  B!Flush
  BY DEF B!Flush, AFile

LEMMA IsSeek ==
  ASSUME status = "open", status' = status, AFile' = AFile, stream'.tell \in Nat,
         stream'.eof = stream.eof, stream'.err = stream.err, ret' = <<"so_fseek", 0>>
  PROVE  B!Seek
  BY DEF B!Seek, AFile

LEMMA IsTransferred ==
  ASSUME status = "open", status' = status, AFile' = AFile, stream'.tell = stream.tell,
         stream'.eof = stream.eof, stream'.err = stream.err,
         ret'[1] \in {"so_fread", "so_fwrite"}
  PROVE  B!Transferred
  BY DEF B!Transferred, AFile

LEMMA IsOpen ==
  ASSUME status \in {"none", "closed"}, status' = "open", AFile' \in {AFile, <<>>},
         stream'.tell = 0, stream'.eof = FALSE, stream'.err = FALSE, ret' = <<"so_fopen", 1>>
  PROVE  B!Open
  BY DEF B!Open, AFile

LEMMA IsOpenFails ==
  ASSUME status \in {"none", "closed"}, status' = status, AFile' \in {AFile, <<>>},
         stream' = stream, ret' = <<"so_fopen", 0>>
  PROVE  B!OpenFails
  BY DEF B!OpenFails, AFile

LEMMA IsClose ==
  ASSUME status = "open", status' = "closed", AFile' = AFile, stream'.tell = stream.tell,
         stream'.eof = stream.eof, stream'.err = stream.err, ret' = <<"so_fclose", 0>>
  PROVE  B!Close
  BY DEF B!Close, AFile

LEMMA IsCrash ==
  ASSUME status' \in {"crashed", "hung"}, AFile' \in Seq(Cell)
  PROVE  B!Crash
  BY DEF B!Crash, AFile

LEMMA IsStutter ==
  ASSUME status' = status, AFile' = AFile, stream'.tell = stream.tell,
         stream'.eof = stream.eof, stream'.err = stream.err, ret' = ret
  PROVE  UNCHANGED B!vars
  BY DEF B!vars, AFile

-----------------------------------------------------------------------------
(* Every action is a step of ByteStream.                                   *)

\* so_fputc finds no 1 in its uninitialised variable, ReadFile does not
\* fail, and no byte is the one that so_fread takes for SO_EOF.
Reliable == ~JunkSeek /\ "read" \notin Faults /\ 255 \notin Byte

BStep == stream'.mode \notin {"a", "a+"} => B!Next \/ UNCHANGED B!vars

LEMMA OneCall ==
  ASSUME WInv, WInv', Idle, NEW name, NEW o, Ends(name, o, "open")
  PROVE  /\ o.hangs => BStep
         /\ ~o.hangs =>
              /\ status = "open" /\ status' = status /\ ret' = <<name, o.ret>>
              /\ AFile = FileOf(stream, kfile) /\ AFile' = FileOf(o.s, o.k) /\ stream' = o.s
<1>1. /\ status = "open" /\ stream' = o.s /\ kfile' = o.k
      /\ o.hangs => status' = "hung"
      /\ ~o.hangs => status' = "open" /\ ret' = <<name, o.ret>>
  BY DEF Idle, Ends
<1>2. o.hangs => B!Crash
  BY <1>1, AFileIs, IsCrash
<1>3. ~o.hangs => AFile = FileOf(stream, kfile) /\ AFile' = FileOf(o.s, o.k)
  BY <1>1, AFileIs
<1> QED
  BY <1>1, <1>2, <1>3 DEF BStep, B!Next

LEMMA SoFopenStep ==
  ASSUME WInv, WInv', NEW mode, SoFopen(mode)
  PROVE  BStep
<1>1. status \in {"none", "closed"}
  BY DEF SoFopen
<1>2. AFile = kfile.data /\ AFile' \in Seq(Cell)
  BY <1>1, AFileIs
<1>3. kfile \in KFile
  BY Types DEF WInv
<1>4. CASE status' = status
  <2>1. stream' = stream /\ kfile' = kfile /\ ret' = <<"so_fopen", 0>>
    BY <1>1, <1>4 DEF SoFopen
  <2>2. AFile' \in {AFile, <<>>}
    BY <1>1, <1>2, <1>4, <2>1, AFileIs
  <2>3. B!OpenFails
    BY <1>1, <1>4, <2>1, <2>2, IsOpenFails
  <2> QED
    BY <2>3 DEF BStep, B!Next
<1>5. CASE status' = "crashed"
  <2>1. B!Crash
    BY <1>2, <1>5, IsCrash
  <2> QED
    BY <2>1 DEF BStep, B!Next
<1>6. CASE status' = "open"
  <2>1. /\ mode \in AllModes /\ stream' = NewStream(mode) /\ kfile' = Opened(mode)
        /\ ret' = <<"so_fopen", 1>>
    BY <1>1, <1>6 DEF SoFopen
  <2>2. /\ stream' \in Stream /\ Repositioned(stream') /\ stream'.tell = 0
        /\ stream'.eof = FALSE /\ stream'.err = FALSE
    BY <2>1, NewStreamType
  <2>3. kfile' \in KFile /\ kfile'.data \in {kfile.data, <<>>}
    BY <1>3, <2>1, OpenedType
  <2>4. FileOf(stream', kfile') = kfile'.data
    BY <2>2, <2>3, BufferedType DEF Repositioned, IsWriteOperation
  <2>5. AFile' \in {AFile, <<>>}
    BY <1>2, <1>6, <2>3, <2>4, AFileIs
  <2>6. B!Open
    BY <1>1, <1>6, <2>1, <2>2, <2>5, IsOpen
  <2> QED
    BY <2>6 DEF BStep, B!Next
<1> QED
  BY <1>4, <1>5, <1>6 DEF SoFopen

LEMMA SoFgetcStep ==
  ASSUME Reliable, WInv, WInv', dir # "lost", SoFgetc
  PROVE  BStep
<1>1. PICK o \in Fgetc(stream, kfile) : Ends("so_fgetc", o, "open") /\ Idle
  BY DEF SoFgetc
<1>2. Settled(stream, kfile) /\ AtTell(stream, kfile)
  BY <1>1, OpenFacts DEF Idle, Standing
<1>3. CASE o.hangs
  BY <1>1, <1>3, OneCall
<1>4. CASE ~o.hangs
  <2>1. /\ FileOf(o.s, o.k) = FileOf(stream, kfile)
        /\ \/ Took(stream, FileOf(stream, kfile), o) \/ Ended(stream, FileOf(stream, kfile), o)
           \/ Failed(stream, o)
    BY <1>1, <1>2, <1>4, FgetcSettled
  <2>2. /\ status = "open" /\ status' = status /\ ret' = <<"so_fgetc", o.ret>>
        /\ AFile = FileOf(stream, kfile) /\ AFile' = FileOf(o.s, o.k) /\ stream' = o.s
    BY <1>1, <1>4, OneCall
  <2>3. CASE Took(stream, FileOf(stream, kfile), o)
    <3>1. B!Get
      BY <2>1, <2>2, <2>3, IsGet DEF Took, AnswersIn
    <3> QED
      BY <3>1 DEF BStep, B!Next
  <2>4. CASE Ended(stream, FileOf(stream, kfile), o)
    <3>1. stream.tell >= Len(AFile)
      BY <2>2, <2>4 DEF Ended, Reliable
    <3>2. B!AtEnd
      BY <2>1, <2>2, <2>4, <3>1, IsAtEnd DEF Ended, AnswersIn
    <3> QED
      BY <3>2 DEF BStep, B!Next
  <2>5. CASE Failed(stream, o)
    <3>1. ret' \in {"so_fgetc", "so_fputc", "so_fflush", "so_fseek"} \X {-1}
      BY <2>2, <2>5 DEF Failed, SO_EOF
    <3>2. B!Fail
      BY <2>1, <2>2, <2>5, <3>1, IsFail DEF Failed
    <3> QED
      BY <3>2 DEF BStep, B!Next
  <2> QED
    BY <2>1, <2>3, <2>4, <2>5
<1> QED
  BY <1>3, <1>4

LEMMA SoFputcStep ==
  ASSUME Reliable, WInv, WInv', dir # "lost", NEW c \in Byte, SoFputc(c)
  PROVE  BStep
<1>1. PICK o \in Fputc(stream, kfile, c) : Ends("so_fputc", o, "open") /\ Idle
  BY DEF SoFputc
<1>2. Settled(stream, kfile) /\ AtTell(stream, kfile)
  BY <1>1, OpenFacts DEF Idle, Standing
<1>3. CASE o.hangs
  BY <1>1, <1>3, OneCall
<1>4. CASE ~o.hangs
  <2>1. /\ o.s.mode = stream.mode
        /\ stream.mode \notin {"a", "a+"} =>
             \/ Placed(stream, kfile, c, o)
             \/ Failed(stream, o) /\ FileOf(o.s, o.k) = FileOf(stream, kfile)
    BY <1>1, <1>2, <1>4, FputcSettled DEF Reliable
  <2>2. /\ status = "open" /\ status' = status /\ ret' = <<"so_fputc", o.ret>>
        /\ AFile = FileOf(stream, kfile) /\ AFile' = FileOf(o.s, o.k) /\ stream' = o.s
    BY <1>1, <1>4, OneCall
  <2>3. CASE stream.mode \in {"a", "a+"}
    BY <2>1, <2>2, <2>3 DEF BStep
  <2>4. CASE Placed(stream, kfile, c, o)
    <3>1. B!Put
      BY <2>2, <2>4, IsPut DEF Placed, AnswersIn
    <3> QED
      BY <3>1 DEF BStep, B!Next
  <2>5. CASE Failed(stream, o) /\ FileOf(o.s, o.k) = FileOf(stream, kfile)
    <3>1. ret' \in {"so_fgetc", "so_fputc", "so_fflush", "so_fseek"} \X {-1}
      BY <2>2, <2>5 DEF Failed, SO_EOF
    <3>2. B!Fail
      BY <2>2, <2>5, <3>1, IsFail DEF Failed
    <3> QED
      BY <3>2 DEF BStep, B!Next
  <2> QED
    BY <2>1, <2>3, <2>4, <2>5
<1> QED
  BY <1>3, <1>4

LEMMA SoFflushStep ==
  ASSUME WInv, WInv', SoFflush
  PROVE  BStep
<1>1. PICK o \in Fflush(stream, kfile) : Ends("so_fflush", o, "open") /\ Idle
  BY DEF SoFflush
<1>2. Settled(stream, kfile)
  BY <1>1, OpenFacts DEF Idle, Standing
<1>3. CASE o.hangs
  BY <1>1, <1>3, OneCall
<1>4. CASE ~o.hangs
  <2>1. /\ status = "open" /\ status' = status /\ ret' = <<"so_fflush", o.ret>>
        /\ AFile = FileOf(stream, kfile) /\ AFile' = FileOf(o.s, o.k) /\ stream' = o.s
    BY <1>1, <1>4, OneCall
  <2>2. CASE IsWriteOperation(stream)
    <3>1. o.ret = 0 /\ Flushed(stream, kfile, o.s, o.k)
      BY <1>1, <1>2, <1>4, <2>2, FflushSettled
    <3>2. FileOf(o.s, o.k) = FileOf(stream, kfile)
      BY <1>2, <2>2, <3>1, FlushedSettled
    <3>3. o.s.tell = stream.tell /\ o.s.eof = stream.eof /\ o.s.err = stream.err
      BY <3>1 DEF Flushed, Is
    <3>4. B!Flush
      BY <2>1, <3>1, <3>2, <3>3, IsFlush
    <3> QED
      BY <3>4 DEF BStep, B!Next
  <2>3. CASE ~IsWriteOperation(stream)
    <3>1. o.s = stream /\ o.k = kfile /\ o.ret = SO_EOF
      BY <1>1, <2>3 DEF Fflush, Outcome
    <3>2. ret' \in {<<"so_fflush", -1>>, <<"so_fseek", -1>>}
      BY <2>1, <3>1 DEF SO_EOF
    <3>3. B!Refuse
      BY <2>1, <3>1, <3>2, IsRefuse
    <3> QED
      BY <3>3 DEF BStep, B!Next
  <2> QED
    BY <2>2, <2>3
<1> QED
  BY <1>3, <1>4

LEMMA SoFseekStep ==
  ASSUME WInv, WInv', NEW offset \in SeekOffsets, NEW whence \in Whence, SoFseek(offset, whence)
  PROVE  BStep
<1>1. PICK o \in Fseek(stream, kfile, offset, whence) : Ends("so_fseek", o, "open") /\ Idle
  BY DEF SoFseek
<1>2. Settled(stream, kfile) /\ offset \in Int
  BY <1>1, OpenFacts, StdioWinAssumption DEF Idle
<1>3. Sought(stream, kfile, offset, whence, o)
  BY <1>1, <1>2, FseekSettled
<1>4. CASE o.hangs
  BY <1>1, <1>4, OneCall
<1>5. CASE ~o.hangs
  <2>1. /\ FileOf(o.s, o.k) = FileOf(stream, kfile) /\ o.s.eof = stream.eof
        /\ \/ o.ret = 0 /\ o.s.err = stream.err
           \/ o.ret = SO_EOF /\ o.s.tell = stream.tell /\ o.s.err = TRUE
    BY <1>3, <1>5 DEF Sought
  <2>2. o.s.tell \in Nat
    BY <1>3, <1>5 DEF Sought, Settled
  <2>3. /\ status = "open" /\ status' = status /\ ret' = <<"so_fseek", o.ret>>
        /\ AFile = FileOf(stream, kfile) /\ AFile' = FileOf(o.s, o.k) /\ stream' = o.s
    BY <1>1, <1>5, OneCall
  <2>4. CASE o.ret = 0 /\ o.s.err = stream.err
    <3>1. B!Seek
      BY <2>1, <2>2, <2>3, <2>4, IsSeek
    <3> QED
      BY <3>1 DEF BStep, B!Next
  <2>5. CASE o.ret = SO_EOF /\ o.s.tell = stream.tell /\ o.s.err = TRUE
    <3>1. ret' \in {"so_fgetc", "so_fputc", "so_fflush", "so_fseek"} \X {-1}
      BY <2>3, <2>5 DEF SO_EOF
    <3>2. B!Fail
      BY <2>1, <2>3, <2>5, <3>1, IsFail
    <3> QED
      BY <3>2 DEF BStep, B!Next
  <2> QED
    BY <2>1, <2>4, <2>5
<1> QED
  BY <1>4, <1>5

LEMMA SoFcloseStep ==
  ASSUME WInv, WInv', SoFclose
  PROVE  BStep
<1>1. PICK o \in Closings(stream, kfile) : Ends("so_fclose", o, "closed") /\ Idle
  BY DEF SoFclose, Closings
<1>2. Settled(stream, kfile) /\ status = "open"
  BY <1>1, OpenFacts DEF Idle
<1>3. CASE o.hangs
  <2>1. status' = "hung"
    BY <1>1, <1>3 DEF Ends
  <2>2. B!Crash
    BY <2>1, AFileIs, IsCrash
  <2> QED
    BY <2>2 DEF BStep, B!Next
<1>4. CASE ~o.hangs
  <2>1. /\ o.k.data = FileOf(stream, kfile) /\ o.ret = 0
        /\ o.s.tell = stream.tell /\ o.s.eof = stream.eof /\ o.s.err = stream.err
    BY <1>1, <1>2, <1>4, FcloseSettled
  <2>2. /\ status' = "closed" /\ ret' = <<"so_fclose", o.ret>> /\ stream' = o.s /\ kfile' = o.k
    BY <1>1, <1>4 DEF Ends
  <2>3. AFile' = AFile
    BY <1>2, <2>1, <2>2, AFileIs
  <2>4. B!Close
    BY <1>2, <2>1, <2>2, <2>3, IsClose
  <2> QED
    BY <2>4 DEF BStep, B!Next
<1> QED
  BY <1>3, <1>4

LEMMA RefusedStep ==
  ASSUME WInv, WInv', Idle, NEW name \in {"so_fread", "so_fwrite"}, Refused(name), kfile' = kfile
  PROVE  BStep
<1>1. /\ status = "open" /\ Settled(stream, kfile) /\ stream \in Stream
  BY OpenFacts DEF Idle
<1>2. /\ stream' = [stream EXCEPT !.err = TRUE] /\ ret' = <<name, SO_EOF>> /\ status' = status
  BY DEF Refused
<1>3. /\ stream' \in Stream /\ SameBuffer(stream, stream') /\ stream'.eof = stream.eof
      /\ stream'.err = TRUE /\ stream'.tell = stream.tell
  BY <1>1, <1>2, SetErr DEF Is, SameBuffer
<1>4. FileOf(stream', kfile) = FileOf(stream, kfile)
  BY <1>1, <1>3, MarksAreSettled
<1>5. AFile' = AFile
  BY <1>1, <1>2, <1>4, AFileIs
<1>6. ret'[1] \in {"so_fread", "so_fwrite"}
  BY <1>2
<1>7. B!Fail
  BY <1>1, <1>2, <1>3, <1>5, <1>6, IsFail
<1> QED
  BY <1>7 DEF BStep, B!Next

LEMMA SoFreadBeginStep ==
  ASSUME WInv, WInv', NEW nmemb, dir \in {"none", "read"}, SoFreadBegin(nmemb)
  PROVE  BStep
<1>1. /\ Idle /\ status = "open" /\ kfile' = kfile /\ Standing(stream, kfile, dir)
  BY OpenFacts DEF SoFreadBegin, Idle
<1>2. CASE ~CanRead(stream.mode)
  <2> DEFINE name == "so_fread"
  <2>1. Refused(name) /\ name \in {"so_fread", "so_fwrite"}
    BY <1>2 DEF SoFreadBegin
  <2> HIDE DEF name
  <2> QED
    BY <1>1, <2>1, RefusedStep
<1>3. CASE CanRead(stream.mode)
  <2> DEFINE l == "read"
  <2>1. stream' = [stream EXCEPT !.lastOp = l] /\ status' = status /\ ret' = ret
    BY <1>3 DEF SoFreadBegin
  <2>2. l \in {"read", "write"} /\ l # "write" /\ dir # "lost"
    OBVIOUS
  <2> HIDE DEF l
  <2>3. /\ FileOf(stream', kfile) = FileOf(stream, kfile)
        /\ stream'.tell = stream.tell /\ stream'.eof = stream.eof /\ stream'.err = stream.err
    BY <1>1, <1>3, <2>1, <2>2, RecordedStanding
  <2>4. AFile' = AFile
    BY <1>1, <2>1, <2>3, AFileIs
  <2>5. UNCHANGED B!vars
    BY <2>1, <2>3, <2>4, IsStutter
  <2> QED
    BY <2>5 DEF BStep
<1> QED
  BY <1>2, <1>3

\* No byte but 255 is SO_EOF as an int.
LEMMA NotEof ==
  ASSUME Reliable, NEW c \in Cell
  PROVE  SignedChar(c) # SO_EOF
<1>1. c \in 0..256 /\ c # 255
  BY StdioWinAssumption DEF Reliable, Cell, Junk
<1> QED
  BY <1>1 DEF SignedChar, SO_EOF

LEMMA SoFreadStepStep ==
  ASSUME Reliable, WInv, WInv', SoFreadStep
  PROVE  BStep
<1>1. /\ status = "open" /\ status' = status
      /\ Standing(stream, kfile, dir) /\ Reading(stream, dir)
      /\ stream \in Stream /\ kfile \in KFile
  BY OpenFacts DEF SoFreadStep, WInv
<1>2. CASE call.done = call.nmemb
  <2>1. ret'[1] = "so_fread" /\ stream' = stream /\ kfile' = kfile
    BY <1>2 DEF SoFreadStep
  <2>2. AFile' = AFile
    BY <1>1, <2>1, AFileIs
  <2>3. B!Transferred
    BY <1>1, <2>1, <2>2, IsTransferred
  <2> QED
    BY <2>3 DEF BStep, B!Next
<1>3. CASE call.done # call.nmemb
  <2>1. PICK o \in Fgetc(stream, kfile) :
          /\ kfile' = o.k
          /\ \/ o.ret = SO_EOF /\ stream' = [o.s EXCEPT !.err = TRUE] /\ ret' = <<"so_fread", SO_EOF>>
             \/ o.ret # SO_EOF /\ stream' = o.s /\ ret' = ret
    BY <1>3 DEF SoFreadStep
  <2>2. Marked(o.s, stream')
    BY <2>1 DEF Marked
  <2>3. ReadOn(stream, kfile, dir, o, stream')
    BY <1>1, <2>2, ReadStanding
  <2>4. /\ FileOf(stream', kfile') = FileOf(stream, kfile)
        /\ stream'.tell = o.s.tell /\ stream'.eof = o.s.eof
        /\ \/ Took(stream, FileOf(stream, kfile), o) \/ Ended(stream, FileOf(stream, kfile), o)
           \/ Failed(stream, o)
    BY <2>1, <2>3 DEF ReadOn
  <2>5. AFile = FileOf(stream, kfile) /\ AFile' = AFile /\ AFile \in Seq(Cell)
    BY <1>1, <2>4, AFileIs
  <2>6. o.ret = SO_EOF => stream'.err = TRUE /\ ret'[1] = "so_fread"
    <3>1. o.s \in Stream
      BY <2>3 DEF ReadOn, Typed
    <3> DEFINE t == [o.s EXCEPT !.err = TRUE]
    <3>2. t.err = TRUE
      BY <3>1, SetErr DEF Is
    <3>3. o.ret = SO_EOF => stream' = t /\ ret' = <<"so_fread", SO_EOF>>
      BY <2>1
    <3> HIDE DEF t
    <3> QED
      BY <3>2, <3>3
  <2>7. CASE Took(stream, AFile, o)
    <3>1. o.ret = SignedChar(AFile[stream.tell + 1]) /\ stream.tell < Len(AFile)
          /\ o.s.tell = stream.tell + 1 /\ o.s.eof = stream.eof /\ o.s.err = stream.err
      BY <2>7 DEF Took
    <3>2. AFile[stream.tell + 1] \in Cell
      <4>1. stream.tell \in Nat
        BY <1>1 DEF Standing, Settled
      <4>2. stream.tell + 1 \in 1..Len(AFile)
        BY <2>5, <3>1, <4>1
      <4> QED
        BY <2>5, <4>2, ElementOfSeq
    <3>3. o.ret # SO_EOF
      BY <3>1, <3>2, NotEof
    <3>4. stream' = o.s /\ ret' = ret
      BY <2>1, <3>3
    <3>5. B!Get
      BY <1>1, <2>5, <3>1, <3>4, IsGet DEF AnswersIn
    <3> QED
      BY <3>5 DEF BStep, B!Next
  <2>8. CASE Ended(stream, AFile, o)
    <3>1. /\ stream.tell >= Len(AFile) /\ stream'.tell = stream.tell /\ stream'.eof = TRUE
          /\ stream'.err = TRUE /\ ret'[1] = "so_fread"
      BY <2>4, <2>6, <2>8 DEF Ended, Reliable
    <3>2. B!AtEnd
      BY <1>1, <2>5, <3>1 DEF B!AtEnd, B!Answers, AFile
    <3> QED
      BY <3>2 DEF BStep, B!Next
  <2>9. CASE Failed(stream, o)
    <3>1. /\ stream'.tell = stream.tell /\ stream'.eof = stream.eof
          /\ stream'.err = TRUE /\ ret'[1] \in {"so_fread", "so_fwrite"}
      BY <2>4, <2>6, <2>9 DEF Failed
    <3>2. B!Fail
      BY <1>1, <2>5, <3>1, IsFail
    <3> QED
      BY <3>2 DEF BStep, B!Next
  <2> QED
    BY <2>4, <2>5, <2>7, <2>8, <2>9
<1> QED
  BY <1>2, <1>3

LEMMA SoFwriteStep ==
  ASSUME WInv, WInv', NEW nmemb \in 0..MaxItems, dir # "lost",
         nmemb = 0 => dir \in {"none", "write"} /\ stream.mode # "a+",
         SoFwrite(nmemb)
  PROVE  BStep
<1>1. /\ Idle /\ status = "open" /\ kfile' = kfile /\ Standing(stream, kfile, dir)
  BY OpenFacts DEF SoFwrite, Idle
<1>2. CASE ~CanWrite(stream.mode)
  <2> DEFINE name == "so_fwrite"
  <2>1. Refused(name) /\ name \in {"so_fread", "so_fwrite"}
    BY <1>2 DEF SoFwrite
  <2> HIDE DEF name
  <2> QED
    BY <1>1, <2>1, RefusedStep
<1>3. CASE CanWrite(stream.mode) /\ nmemb > 0
  <2>1. status' = "crashed"
    BY <1>3 DEF SoFwrite
  <2>2. B!Crash
    BY <2>1, AFileIs, IsCrash
  <2> QED
    BY <2>2 DEF BStep, B!Next
<1>4. CASE CanWrite(stream.mode) /\ ~(nmemb > 0)
  <2> DEFINE l == "write"
  <2>1. stream' = [stream EXCEPT !.lastOp = l] /\ status' = status /\ ret' = <<"so_fwrite", 0>>
    BY <1>4 DEF SoFwrite
  <2>2. nmemb = 0
    BY <1>4, StdioWinAssumption
  <2>3. l \in {"read", "write"} /\ l # "read"
    OBVIOUS
  <2> HIDE DEF l
  <2>4. /\ FileOf(stream', kfile) = FileOf(stream, kfile)
        /\ stream'.tell = stream.tell /\ stream'.eof = stream.eof /\ stream'.err = stream.err
    BY <1>1, <1>4, <2>1, <2>2, <2>3, RecordedStanding
  <2>5. AFile' = AFile
    BY <1>1, <2>1, <2>4, AFileIs
  <2>6. ret'[1] \in {"so_fread", "so_fwrite"}
    BY <2>1
  <2>7. B!Transferred
    BY <1>1, <2>1, <2>4, <2>5, <2>6, IsTransferred
  <2> QED
    BY <2>7 DEF BStep, B!Next
<1> QED
  BY <1>2, <1>3, <1>4

LEMMA CNextStep ==
  ASSUME Reliable, WInv, WInv', [CNext]_cvars
  PROVE  BStep
<1>1. ASSUME NEW mode \in Modes, SoFopen(mode) PROVE BStep
  BY <1>1, SoFopenStep
<1>2. CASE dir # "lost" /\ SoFgetc
  BY <1>2, SoFgetcStep
<1>3. ASSUME dir # "lost", NEW c \in Byte, SoFputc(c) PROVE BStep
  BY <1>3, SoFputcStep
<1>4. CASE SoFflush
  BY <1>4, SoFflushStep
<1>5. ASSUME NEW offset \in SeekOffsets, NEW whence \in Whence, SoFseek(offset, whence) PROVE BStep
  BY <1>5, SoFseekStep
<1>6. CASE SoFclose
  BY <1>6, SoFcloseStep
<1>7. ASSUME NEW nmemb \in 0..MaxItems, dir \in {"none", "read"}, SoFreadBegin(nmemb) PROVE BStep
  BY <1>7, SoFreadBeginStep
<1>8. ASSUME NEW nmemb \in 0..MaxItems, dir # "lost",
             nmemb = 0 => dir \in {"none", "write"} /\ stream.mode # "a+",
             SoFwrite(nmemb)
      PROVE  BStep
  BY <1>8, SoFwriteStep
<1>9. CASE SoFreadStep
  BY <1>9, SoFreadStepStep
<1>10. CASE UNCHANGED cvars
  <2>1. UNCHANGED <<status, stream, kfile, ret>>
    BY <1>10 DEF cvars, vars
  <2>2. UNCHANGED B!vars
    BY <2>1 DEF B!vars, Unwritten
  <2> QED
    BY <2>2 DEF BStep
<1> QED
  BY <1>1, <1>2, <1>3, <1>4, <1>5, <1>6, <1>7, <1>8, <1>9, <1>10 DEF CNext

LEMMA BInit == CInit => B!Init
<1> SUFFICES ASSUME CInit PROVE B!Init
  OBVIOUS
<1>1. /\ status = "none" /\ ret = <<"none", 0>> /\ stream = NewStream("r")
      /\ kfile = [data |-> InitialFile, off |-> 0]
  BY DEF CInit, Init
<1>2. stream.tell = 0 /\ stream.eof = FALSE /\ stream.err = FALSE
  BY <1>1 DEF NewStream
<1>3. AFile = InitialFile
  <2>1. stream \in Stream /\ kfile \in KFile
    BY WInvInit, Types DEF WInv
  <2>2. AFile = IF status = "open" THEN FileOf(stream, kfile) ELSE kfile.data
    BY <2>1, MappedFile DEF AFile, Unwritten
  <2> QED
    BY <1>1, <2>2
<1> QED
  BY <1>1, <1>2, <1>3 DEF B!Init, AFile

\* Buffering is invisible to the caller of a stream that does not append:
\* whatever the size of the buffer and the order in which bytes are taken
\* and put, each call does what it would do to an unbuffered file.
THEOREM WinBufferingInvisible ==
  ASSUME Reliable
  PROVE  CSpec => ImplementsByteStream
<1>1. WInv /\ [CNext]_cvars => WInv'
  BY WInvNext
<1>2. WInv /\ WInv' /\ [CNext]_cvars =>
        [stream'.mode \notin {"a", "a+"} => [B!Next]_(B!vars)]_cvars
  BY CNextStep DEF BStep
<1> QED
  BY BInit, <1>1, <1>2, WInvAlways, PTL DEF CSpec, ImplementsByteStream
=============================================================================
