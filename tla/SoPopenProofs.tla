--------------------------- MODULE SoPopenProofs ---------------------------
(***************************************************************************)
(* Proofs about so_popen and so_pclose, for any number of streams, any     *)
(* size of the pipes and any amount of data.                               *)
(***************************************************************************)
EXTENDS SoPopen, TLAPS

Types ==
  /\ os \in {"linux", "windows"}
  /\ caller \in {"running", "killed", "looping"}
  /\ stream \in [Streams -> {"none", "failed", "open", "putting", "flushing",
                             "waiting", "closed"}]
  /\ type \in [Streams -> {"r", "w"}]
  /\ kid \in [Streams -> {"none", "running", "exited", "reaped"}]
  /\ patient \in [Streams -> BOOLEAN]
  /\ inherits \in [Streams -> SUBSET Streams]

Counts ==
  /\ pend \in [Streams -> Nat] /\ pipe \in [Streams -> Nat]
  /\ moved \in [Streams -> Nat] /\ put \in [Streams -> Nat]

\* Streams are opened one after another.
InOrder == \A s, t \in Streams : s < t /\ stream[t] # "none" => stream[s] # "none"

\* A stream that is not open yet has no child, unless so_popen was killed
\* after it started one, and nothing has gone through it.
Untouched ==
  \A s \in Streams : stream[s] = "none" =>
    /\ caller = "running" => kid[s] = "none"
    /\ kid[s] = "none" => pend[s] = 0 /\ pipe[s] = 0 /\ moved[s] = 0 /\ put[s] = 0

\* A child inherits only from streams that are older than its own.
FromOlder == \A t \in Streams : \A s \in inherits[t] : s < t

\* Every byte the caller put is in the buffer, in the pipe or at the child.
BytesKept ==
  \A s \in Streams : type[s] = "w" => put[s] = pend[s] + pipe[s] + moved[s]

\* so_pclose closes the caller's end after it has flushed the buffer.
FlushedFirst ==
  \A s \in Streams : stream[s] \in {"waiting", "closed"} => pend[s] = 0

\* A command that reads its input to the end leaves none in the pipe.
ReadToTheEnd ==
  \A s \in Streams :
    kid[s] \in {"exited", "reaped"} /\ type[s] = "w" /\ patient[s] => pipe[s] = 0

\* Only a stream whose command was never started has no child.
NoneNotStarted ==
  \A s \in Streams :
    stream[s] \notin {"none", "failed"} /\ kid[s] = "none" => ~patient[s]

\* so_pclose returns when the child is gone.
ClosedLast == \A s \in Streams : stream[s] = "closed" => kid[s] \in {"reaped", "none"}

IInv ==
  /\ Types /\ Counts /\ InOrder /\ Untouched /\ FromOlder
  /\ BytesKept /\ FlushedFirst /\ ReadToTheEnd /\ NoneNotStarted /\ ClosedLast

LEMMA InitIInv == Init => IInv
  <1> SUFFICES ASSUME Init PROVE IInv
    OBVIOUS
  <1>1. Types /\ Counts
    BY DEF Init, Types, Counts
  <1>2. InOrder /\ Untouched /\ FromOlder
    BY DEF Init, InOrder, Untouched, FromOlder
  <1>3. BytesKept /\ FlushedFirst /\ ReadToTheEnd /\ NoneNotStarted /\ ClosedLast
    BY DEF Init, BytesKept, FlushedFirst, ReadToTheEnd, NoneNotStarted, ClosedLast
  <1> QED BY <1>1, <1>2, <1>3 DEF IInv

\* A byte put goes to the buffer; a byte taken leaves the pipe.
LEMMA CallerMovesIInv == ASSUME NEW s \in Streams PROVE IInv /\ CallerMoves(s) => IInv'
  <1> SUFFICES ASSUME IInv, CallerMoves(s) PROVE IInv'
    OBVIOUS
  <1> USE DEF IInv, Types
  <1>1. Types' /\ InOrder' /\ FromOlder'
    BY DEF InOrder, FromOlder, CallerMoves, data, Streams
  <1>2. Counts' /\ Untouched' /\ BytesKept'
    BY DEF Counts, Untouched, BytesKept, CallerMoves, data
  <1>3. FlushedFirst' /\ ReadToTheEnd'
    BY DEF Counts, FlushedFirst, ReadToTheEnd, CallerMoves, data
  <1>4. NoneNotStarted' /\ ClosedLast'
    BY DEF NoneNotStarted, ClosedLast, CallerMoves, data
  <1> QED BY <1>1, <1>2, <1>3, <1>4

\* A flush begins.
LEMMA SoFflushIInv == ASSUME NEW s \in Streams PROVE IInv /\ SoFflush(s) => IInv'
  <1> SUFFICES ASSUME IInv, SoFflush(s) PROVE IInv'
    OBVIOUS
  <1> USE DEF IInv, Types
  <1>1. Types' /\ InOrder' /\ FromOlder'
    BY DEF InOrder, FromOlder, SoFflush, data, Streams
  <1>2. Counts' /\ Untouched' /\ BytesKept'
    BY DEF Counts, Untouched, BytesKept, SoFflush, data
  <1>3. FlushedFirst' /\ ReadToTheEnd'
    BY DEF Counts, FlushedFirst, ReadToTheEnd, SoFflush, data
  <1>4. NoneNotStarted' /\ ClosedLast'
    BY DEF NoneNotStarted, ClosedLast, SoFflush, data
  <1> QED BY <1>1, <1>2, <1>3, <1>4

\* A flush has written all there is.
LEMMA FflushReturnsIInv == ASSUME NEW s \in Streams PROVE IInv /\ FflushReturns(s) => IInv'
  <1> SUFFICES ASSUME IInv, FflushReturns(s) PROVE IInv'
    OBVIOUS
  <1> USE DEF IInv, Types
  <1>1. Types' /\ InOrder' /\ FromOlder'
    BY DEF InOrder, FromOlder, FflushReturns, data, Streams
  <1>2. Counts' /\ Untouched' /\ BytesKept'
    BY DEF Counts, Untouched, BytesKept, FflushReturns, data
  <1>3. FlushedFirst' /\ ReadToTheEnd'
    BY DEF Counts, FlushedFirst, ReadToTheEnd, FflushReturns, data
  <1>4. NoneNotStarted' /\ ClosedLast'
    BY DEF NoneNotStarted, ClosedLast, FflushReturns, data
  <1> QED BY <1>1, <1>2, <1>3, <1>4

\* so_pclose begins.
LEMMA SoPcloseIInv == ASSUME NEW s \in Streams PROVE IInv /\ SoPclose(s) => IInv'
  <1> SUFFICES ASSUME IInv, SoPclose(s) PROVE IInv'
    OBVIOUS
  <1> USE DEF IInv, Types
  <1>1. Types' /\ InOrder' /\ FromOlder'
    BY DEF InOrder, FromOlder, SoPclose, data, Streams
  <1>2. Counts' /\ Untouched' /\ BytesKept'
    BY DEF Counts, Untouched, BytesKept, SoPclose, data
  <1>3. FlushedFirst' /\ ReadToTheEnd'
    BY DEF Counts, FlushedFirst, ReadToTheEnd, SoPclose, data
  <1>4. NoneNotStarted' /\ ClosedLast'
    BY DEF NoneNotStarted, ClosedLast, SoPclose, data
  <1> QED BY <1>1, <1>2, <1>3, <1>4

\* A byte of the buffer goes into the pipe, or the write fails.
LEMMA FlushByteIInv == ASSUME NEW s \in Streams PROVE IInv /\ FlushByte(s) => IInv'
  <1> SUFFICES ASSUME IInv, FlushByte(s) PROVE IInv'
    OBVIOUS
  <1> USE DEF IInv, Types
  <1>1. Types' /\ InOrder' /\ FromOlder'
    BY DEF InOrder, FromOlder, FlushByte, WriteByte, data, Streams
  <1>2. Counts'
    BY DEF Counts, FlushByte, WriteByte, data
  <1>3. Untouched'
    BY DEF Counts, Untouched, FlushByte, WriteByte, data
  <1>4. BytesKept'
    BY DEF Counts, BytesKept, FlushByte, WriteByte, data
  <1>5. FlushedFirst' /\ ReadToTheEnd'
    BY DEF Counts, FlushedFirst, ReadToTheEnd, FlushByte, WriteByte, data
  <1>6. NoneNotStarted' /\ ClosedLast'
    BY DEF NoneNotStarted, ClosedLast, FlushByte, WriteByte, data
  <1> QED BY <1>1, <1>2, <1>3, <1>4, <1>5, <1>6

\* The descriptor is closed once the buffer is empty.
LEMMA CloseEndIInv == ASSUME NEW s \in Streams PROVE IInv /\ CloseEnd(s) => IInv'
  <1> SUFFICES ASSUME IInv, CloseEnd(s) PROVE IInv'
    OBVIOUS
  <1> USE DEF IInv, Types
  <1>1. Types' /\ InOrder' /\ FromOlder'
    BY DEF InOrder, FromOlder, CloseEnd, data, Streams
  <1>2. Counts' /\ Untouched' /\ BytesKept'
    BY DEF Counts, Untouched, BytesKept, CloseEnd, data
  <1>3. FlushedFirst' /\ ReadToTheEnd'
    BY DEF Counts, FlushedFirst, ReadToTheEnd, CloseEnd, data
  <1>4. NoneNotStarted' /\ ClosedLast'
    BY DEF NoneNotStarted, ClosedLast, CloseEnd, data
  <1> QED BY <1>1, <1>2, <1>3, <1>4

\* so_pclose has reaped the child.
LEMMA WaitChildIInv == ASSUME NEW s \in Streams PROVE IInv /\ WaitChild(s) => IInv'
  <1> SUFFICES ASSUME IInv, WaitChild(s) PROVE IInv'
    OBVIOUS
  <1> USE DEF IInv, Types
  <1>1. Types' /\ InOrder' /\ FromOlder'
    BY DEF InOrder, FromOlder, WaitChild, data, Streams
  <1>2. Counts' /\ Untouched' /\ BytesKept'
    BY DEF Counts, Untouched, BytesKept, WaitChild, data
  <1>3. FlushedFirst' /\ ReadToTheEnd'
    BY DEF Counts, FlushedFirst, ReadToTheEnd, WaitChild, data
  <1>4. NoneNotStarted' /\ ClosedLast'
    BY DEF NoneNotStarted, ClosedLast, WaitChild, data
  <1> QED BY <1>1, <1>2, <1>3, <1>4

\* so_pclose has waited for the process, if there is one.
LEMMA WaitProcessIInv == ASSUME NEW s \in Streams PROVE IInv /\ WaitProcess(s) => IInv'
  <1> SUFFICES ASSUME IInv, WaitProcess(s) PROVE IInv'
    OBVIOUS
  <1> USE DEF IInv, Types
  <1>1. Types' /\ InOrder' /\ FromOlder'
    BY DEF InOrder, FromOlder, WaitProcess, data, Streams
  <1>2. Counts' /\ Untouched' /\ BytesKept'
    BY DEF Counts, Untouched, BytesKept, WaitProcess, data
  <1>3. FlushedFirst' /\ ReadToTheEnd'
    BY DEF Counts, FlushedFirst, ReadToTheEnd, WaitProcess, data
  <1>4. NoneNotStarted' /\ ClosedLast'
    BY DEF NoneNotStarted, ClosedLast, WaitProcess, data
  <1> QED BY <1>1, <1>2, <1>3, <1>4

\* The command takes a byte.
LEMMA KidReadsIInv == ASSUME NEW s \in Streams PROVE IInv /\ KidReads(s) => IInv'
  <1> SUFFICES ASSUME IInv, KidReads(s) PROVE IInv'
    OBVIOUS
  <1> USE DEF IInv, Types
  <1>1. Types' /\ InOrder' /\ FromOlder'
    BY DEF InOrder, FromOlder, KidReads, data, Streams
  <1>2. Counts'
    BY DEF Counts, KidReads, data
  <1>3. Untouched'
    BY DEF Counts, Untouched, KidReads, data
  <1>4. BytesKept'
    BY DEF Counts, BytesKept, KidReads, data
  <1>5. FlushedFirst' /\ ReadToTheEnd'
    BY DEF Counts, FlushedFirst, ReadToTheEnd, KidReads, data
  <1>6. NoneNotStarted' /\ ClosedLast'
    BY DEF NoneNotStarted, ClosedLast, KidReads, data
  <1> QED BY <1>1, <1>2, <1>3, <1>4, <1>5, <1>6

\* The command of a "r" stream gives a byte.
LEMMA KidWritesIInv == ASSUME NEW s \in Streams PROVE IInv /\ KidWrites(s) => IInv'
  <1> SUFFICES ASSUME IInv, KidWrites(s) PROVE IInv'
    OBVIOUS
  <1> USE DEF IInv, Types
  <1>1. Types' /\ InOrder' /\ FromOlder'
    BY DEF InOrder, FromOlder, KidWrites, data, Streams
  <1>2. Counts' /\ Untouched' /\ BytesKept'
    BY DEF Counts, Untouched, BytesKept, KidWrites, data
  <1>3. FlushedFirst' /\ ReadToTheEnd'
    BY DEF Counts, FlushedFirst, ReadToTheEnd, KidWrites, data
  <1>4. NoneNotStarted' /\ ClosedLast'
    BY DEF NoneNotStarted, ClosedLast, KidWrites, data
  <1> QED BY <1>1, <1>2, <1>3, <1>4

\* A command ends at the end of its input.
LEMMA KidEndsIInv == ASSUME NEW s \in Streams PROVE IInv /\ KidEnds(s) => IInv'
  <1> SUFFICES ASSUME IInv, KidEnds(s) PROVE IInv'
    OBVIOUS
  <1> USE DEF IInv, Types
  <1>1. Types' /\ InOrder' /\ FromOlder'
    BY DEF InOrder, FromOlder, KidEnds, data, Streams
  <1>2. Counts' /\ Untouched' /\ BytesKept'
    BY DEF Counts, Untouched, BytesKept, KidEnds, data
  <1>3. FlushedFirst' /\ ReadToTheEnd'
    BY DEF Counts, FlushedFirst, ReadToTheEnd, KidEnds, data
  <1>4. NoneNotStarted' /\ ClosedLast'
    BY DEF NoneNotStarted, ClosedLast, KidEnds, data
  <1> QED BY <1>1, <1>2, <1>3, <1>4

\* A command that does not read to the end ends.
LEMMA KidQuitsIInv == ASSUME NEW s \in Streams PROVE IInv /\ KidQuits(s) => IInv'
  <1> SUFFICES ASSUME IInv, KidQuits(s) PROVE IInv'
    OBVIOUS
  <1> USE DEF IInv, Types
  <1>1. Types' /\ InOrder' /\ FromOlder'
    BY DEF InOrder, FromOlder, KidQuits, data, Streams
  <1>2. Counts' /\ Untouched' /\ BytesKept'
    BY DEF Counts, Untouched, BytesKept, KidQuits, data
  <1>3. FlushedFirst' /\ ReadToTheEnd'
    BY DEF Counts, FlushedFirst, ReadToTheEnd, KidQuits, data
  <1>4. NoneNotStarted' /\ ClosedLast'
    BY DEF NoneNotStarted, ClosedLast, KidQuits, data
  <1> QED BY <1>1, <1>2, <1>3, <1>4

-----------------------------------------------------------------------------
(* so_popen.                                                               *)

\* The streams that are open when s is created are older than s.
LEMMA OpenAreOlder ==
  ASSUME IInv, NEW s \in Streams, NextStream(s)
  PROVE  \A t \in Descriptors : t \in Streams /\ t < s
  <1> SUFFICES ASSUME NEW t \in Streams, stream[t] # "none"
               PROVE  t < s
    BY DEF Descriptors
  <1>1. ~(s < t) /\ s # t
    BY DEF NextStream, IInv, InOrder
  <1> QED BY <1>1 DEF Streams

\* What so_popen, on either system, does to the stream it creates.
Opens(s) ==
  /\ caller = "running" /\ stream[s] = "none"
  /\ \E t \in {"r", "w"} : type' = [type EXCEPT ![s] = t]
  /\ UNCHANGED <<os, data>>
  /\ \/ /\ stream' = [stream EXCEPT ![s] = "failed"]
        /\ UNCHANGED <<caller, kid, patient, inherits>>
     \/ ChildStarts(s)
     \/ NoCommand(s, "exited")
     \/ NoCommand(s, "none")

LEMMA OpensIInv ==
  ASSUME NEW s \in Streams, IInv, Opens(s), NextStream(s)
  PROVE  IInv'
  <1>1. \A t \in Descriptors : t \in Streams /\ t < s
    BY OpenAreOlder
  <1>2. kid[s] = "none" /\ pend[s] = 0 /\ pipe[s] = 0 /\ moved[s] = 0 /\ put[s] = 0
    BY DEF Opens, IInv, Untouched
  <1>3. Inherited(s) \in SUBSET Streams /\ \A t \in Inherited(s) : t < s
    BY <1>1 DEF Inherited
  <1>4. /\ UNCHANGED <<os, pend, pipe, moved, put>> /\ caller' \in {"running", "killed"}
        /\ \E v \in {"r", "w"} : type' = [type EXCEPT ![s] = v]
        /\ stream' = stream \/ \E v \in {"failed", "open"} : stream' = [stream EXCEPT ![s] = v]
        /\ \/ kid' = kid
           \/ \E v \in {"running", "exited", "none"} : kid' = [kid EXCEPT ![s] = v]
        /\ patient' = patient \/ \E v \in BOOLEAN : patient' = [patient EXCEPT ![s] = v]
        /\ inherits' = inherits \/ inherits' = [inherits EXCEPT ![s] = Inherited(s)]
    BY DEF Opens, data, ChildStarts, NoCommand
  <1>5. Types'
    BY <1>3, <1>4 DEF IInv, Types
  <1>6. FromOlder'
    BY <1>3, <1>4 DEF IInv, Types, FromOlder
  <1>7. InOrder'
    <2>1. \A t \in Streams : t < s => stream[t] # "none"
      BY DEF NextStream, Streams
    <2>2. \A t \in Streams : stream[t] # "none" => stream'[t] # "none"
      BY <1>4 DEF IInv, Types
    <2>3. \A t \in Streams : t # s => stream'[t] = stream[t]
      BY <1>4 DEF IInv, Types
    <2> QED BY <2>1, <2>2, <2>3 DEF IInv, InOrder, Streams
  <1>8. Counts' /\ BytesKept'
    BY <1>2, <1>4 DEF IInv, Types, Counts, BytesKept
  <1>9. Untouched' /\ FlushedFirst'
    BY <1>2 DEF IInv, Types, Opens, data, ChildStarts, NoCommand, Untouched, FlushedFirst
  <1>10. ReadToTheEnd' /\ NoneNotStarted' /\ ClosedLast'
    BY <1>2 DEF IInv, Types, Opens, data, ChildStarts, NoCommand,
                ReadToTheEnd, NoneNotStarted, ClosedLast
  <1> QED BY <1>5, <1>6, <1>7, <1>8, <1>9, <1>10 DEF IInv

LEMMA PopenIInv ==
  ASSUME NEW s \in Streams, NEW t \in {"r", "w"},
         IInv, SoPopen(s, t) \/ SoPopenWindows(s, t)
  PROVE  IInv'
  <1>1. NextStream(s) /\ Opens(s)
    BY DEF SoPopen, SoPopenWindows, NextStream, Free, Opens
  <1> QED BY <1>1, OpensIInv

LEMMA NextIInv == IInv /\ [Next]_vars => IInv'
  <1> SUFFICES ASSUME IInv, [Next]_vars PROVE IInv'
    OBVIOUS
  <1>1. CASE UNCHANGED vars
    BY <1>1 DEF vars, IInv, Types, Counts, InOrder, Untouched, FromOlder, BytesKept,
                FlushedFirst, ReadToTheEnd, NoneNotStarted, ClosedLast
  <1>2. ASSUME NEW s \in Streams, NEW t \in {"r", "w"},
               SoPopen(s, t) \/ SoPopenWindows(s, t)
        PROVE  IInv'
    BY <1>2, PopenIInv
  <1>3. ASSUME NEW s \in Streams,
               \/ CallerMoves(s) \/ SoFflush(s) \/ FflushReturns(s) \/ SoPclose(s)
               \/ FlushByte(s) \/ CloseEnd(s) \/ WaitChild(s) \/ WaitProcess(s)
        PROVE  IInv'
    BY <1>3, CallerMovesIInv, SoFflushIInv, FflushReturnsIInv, SoPcloseIInv,
       FlushByteIInv, CloseEndIInv, WaitChildIInv, WaitProcessIInv
  <1>4. ASSUME NEW s \in Streams,
               KidReads(s) \/ KidWrites(s) \/ KidEnds(s) \/ KidQuits(s)
        PROVE  IInv'
    BY <1>4, KidReadsIInv, KidWritesIInv, KidEndsIInv, KidQuitsIInv
  <1> QED BY <1>1, <1>2, <1>3, <1>4 DEF Next

LEMMA Invariance == Spec => []IInv
  BY InitIInv, NextIInv, PTL DEF Spec

-----------------------------------------------------------------------------
\* so_pclose leaves no child behind, and a "w" stream it returned for was read
\* to its last byte, for every amount of data and size of the pipe.
THEOREM Delivered == Spec => []ClosedIsDelivered
  <1>1. IInv => ClosedIsDelivered
    <2> SUFFICES ASSUME IInv, NEW s \in Streams, stream[s] = "closed"
                 PROVE  /\ kid[s] \notin {"running", "exited"}
                        /\ type[s] = "w" /\ patient[s] => moved[s] = put[s]
      BY DEF ClosedIsDelivered
    <2>1. kid[s] \in {"reaped", "none"}
      BY DEF IInv, ClosedLast
    <2>2. ASSUME type[s] = "w", patient[s]
          PROVE  moved[s] = put[s]
      <3>1. kid[s] = "reaped"
        BY <2>1, <2>2 DEF IInv, NoneNotStarted
      <3>2. pipe[s] = 0 /\ pend[s] = 0
        BY <2>2, <3>1 DEF IInv, ReadToTheEnd, FlushedFirst
      <3>3. put[s] = pend[s] + pipe[s] + moved[s]
        BY <2>2 DEF IInv, BytesKept
      <3> QED BY <3>2, <3>3 DEF IInv, Counts
    <2> QED BY <2>1, <2>2
  <1> QED BY <1>1, Invariance, PTL

\* However many streams are open, a command whose stream so_pclose has closed
\* waits only for the child of a younger stream that is not closed yet.
THEOREM OnlyYoungerHold == Spec => []HeldOnlyByLater
  <1>1. IInv => HeldOnlyByLater
    <2> SUFFICES ASSUME IInv, NEW s \in Streams, stream[s] \in {"waiting", "closed"},
                        kid[s] = "running", CallersEndOpen(s)
                 PROVE  \E t \in Streams : t > s /\ s \in inherits[t]
                          /\ kid[t] = "running" /\ stream[t] # "closed"
      BY DEF HeldOnlyByLater
    <2>1. PICK t \in Streams : kid[t] = "running" /\ s \in inherits[t]
      BY DEF CallersEndOpen, Descriptors
    <2>2. s < t
      BY <2>1 DEF IInv, FromOlder
    <2>3. stream[t] # "closed"
      BY <2>1 DEF IInv, ClosedLast
    <2> QED BY <2>1, <2>2, <2>3 DEF Streams
  <1> QED BY <1>1, Invariance, PTL
=============================================================================
