-------------------------- MODULE EpollServerProofs --------------------------
(***************************************************************************)
(* Proofs about EpollServer for any number of clients and any width of the *)
(* eventfd counter.                                                        *)
(***************************************************************************)
EXTENDS EpollServer, FiniteSetTheorems, TLAPS

\* The inductive invariant.
IInv == TypeOK /\ ExitsNeverMerge /\ ExitsAccounted /\ CountIsClosed

LEMMA ClientsFinite == IsFiniteSet(Clients) /\ Cardinality(Clients) = CLIENT_COUNT
<1>1. CLIENT_COUNT - 1 \in Int /\ 0 \in Int /\ CLIENT_COUNT - 1 - 0 + 1 = CLIENT_COUNT
  BY EpollAssumption
<1>2. CLIENT_COUNT - 1 >= 0
  BY EpollAssumption
<1> QED
  BY <1>1, <1>2, FS_Interval, EpollAssumption DEF Clients

\* The events of two clients differ, and two never fit in the counter.
LEMMA Events ==
  ASSUME NEW c \in Clients, NEW d \in Clients
  PROVE  /\ set_event(c) \in Nat /\ set_event(c) >= Half /\ set_event(c) > 0
         /\ set_event(c) <= 2 * Half - 2
         /\ get_index(set_event(c)) = c
         /\ set_event(c) = set_event(d) => c = d
         /\ ~(set_event(c) + set_event(d) <= 2 * Half - 2)
<1>1. c \in Nat /\ d \in Nat /\ c < CLIENT_COUNT /\ Half \in Nat /\ CLIENT_COUNT < Half
      /\ CLIENT_COUNT \in Nat
  BY EpollAssumption DEF Clients
<1>2. get_index(set_event(c)) = c
  BY EpollAssumption DEF Clients, get_index, set_event
<1> QED
  BY <1>1, <1>2 DEF set_event

LEMMA InitInv == Init => IInv
<1> SUFFICES ASSUME Init PROVE IInv
  OBVIOUS
<1>1. TypeOK
  BY EpollAssumption DEF Init, TypeOK
<1>2. ExitsNeverMerge
  BY DEF Init, ExitsNeverMerge
<1>3. ExitsAccounted
  BY Events DEF Init, ExitsAccounted, Announced
<1>4. CountIsClosed
  <2>1. Clients \ readers = {}
    BY DEF Init
  <2> QED
    BY <2>1, FS_EmptySet DEF Init, CountIsClosed
<1> QED
  BY <1>1, <1>2, <1>3, <1>4 DEF IInv

\* A client's event finds the counter empty.
LEMMA WriteEventInv ==
  ASSUME IInv, NEW c \in Clients, WriteEvent(c)
  PROVE  IInv'
<1>1. counter = 0
  BY Events DEF IInv, ExitsNeverMerge, WriteEvent
<1>2. counter' = set_event(c) /\ readers' = readers /\ pc' = [pc EXCEPT ![c] = "close"]
      /\ c \in readers
  <2>1. set_event(c) \in Nat /\ counter' = 0 + set_event(c)
    BY <1>1, Events DEF WriteEvent
  <2>2. ~Announced(c)
    BY DEF WriteEvent, Announced
  <2> QED
    BY <2>1, <2>2 DEF WriteEvent, IInv, ExitsAccounted
<1>3. TypeOK'
  BY <1>2, Events DEF IInv, TypeOK, WriteEvent
<1>4. \A d \in Clients : Announced(d)' <=> d = c \/ Announced(d)
  BY <1>2 DEF IInv, TypeOK, Announced
<1>5. ExitsNeverMerge'
  BY <1>2, <1>4 DEF ExitsNeverMerge, set_event
<1>6. ExitsAccounted'
  <2> SUFFICES ASSUME NEW d \in Clients
               PROVE  Announced(d)' <=> d \notin readers' \/ counter' = set_event(d)'
    BY DEF ExitsAccounted
  <2>1. counter # set_event(d)
    BY <1>1, Events
  <2>2. set_event(d)' = set_event(d)
    BY DEF set_event
  <2>3. counter' = set_event(d) <=> d = c
    BY <1>2, Events
  <2> QED
    BY <1>2, <1>4, <2>1, <2>2, <2>3 DEF IInv, ExitsAccounted
<1>7. CountIsClosed'
  BY <1>2 DEF IInv, CountIsClosed, WriteEvent
<1> QED
  BY <1>3, <1>5, <1>6, <1>7 DEF IInv

\* The server closes the pipe of the client whose event it read.
LEMMA ReadEventInv ==
  ASSUME IInv, ReadEvent
  PROVE  IInv'
<1>1. PICK c \in Clients : counter = set_event(c) /\ Announced(c) /\ c \in readers
  BY DEF IInv, ExitsNeverMerge, ReadEvent, TypeOK
<1>2. /\ counter' = 0 /\ pc' = pc /\ server' = server /\ server = "serving"
      /\ readers' = readers \ {c} /\ recv_msgs' = recv_msgs + 1 /\ recv_msgs < CLIENT_COUNT
  BY <1>1, Events DEF ReadEvent
<1>3. TypeOK'
  BY <1>2, EpollAssumption DEF IInv, TypeOK, ReadEvent
<1>4. ExitsNeverMerge'
  BY <1>2 DEF ExitsNeverMerge
<1>5. ExitsAccounted'
  <2> SUFFICES ASSUME NEW d \in Clients
               PROVE  Announced(d)' <=> d \notin readers' \/ counter' = set_event(d)'
    BY DEF ExitsAccounted
  <2>1. set_event(d)' = set_event(d) /\ counter' # set_event(d)
    BY <1>2, Events DEF set_event
  <2>2. counter = set_event(d) <=> d = c
    BY <1>1, Events
  <2>3. Announced(d)' <=> Announced(d)
    BY <1>2 DEF Announced
  <2> QED
    BY <1>1, <1>2, <2>1, <2>2, <2>3 DEF IInv, ExitsAccounted
<1>6. CountIsClosed'
  <2>1. Clients \ readers' = (Clients \ readers) \cup {c} /\ c \notin Clients \ readers
    BY <1>1, <1>2
  <2>2. IsFiniteSet(Clients \ readers)
    BY ClientsFinite, FS_Subset
  <2>3. Cardinality(Clients \ readers') = Cardinality(Clients \ readers) + 1
    BY <2>1, <2>2, FS_AddElement
  <2> QED
    BY <1>2, <2>3 DEF IInv, CountIsClosed
<1> QED
  BY <1>3, <1>4, <1>5, <1>6 DEF IInv

\* The loop ends only when the server has closed every pipe.
LEMMA EndLoopInv ==
  ASSUME IInv, EndLoop
  PROVE  IInv'
<1>1. recv_msgs = CLIENT_COUNT /\ readers \subseteq Clients
  BY EpollAssumption DEF IInv, TypeOK, EndLoop
<1>2. Clients \ readers = Clients
  <2>1. Cardinality(Clients \ readers) = Cardinality(Clients)
    BY <1>1, ClientsFinite DEF IInv, CountIsClosed
  <2> QED
    BY <2>1, ClientsFinite, FS_Subset
<1>3. readers = {}
  BY <1>1, <1>2
<1> QED
  BY <1>3 DEF IInv, TypeOK, EndLoop, ExitsNeverMerge, ExitsAccounted, CountIsClosed,
              Announced, set_event

LEMMA WaitClientInv ==
  ASSUME IInv, WaitClient
  PROVE  IInv'
<1>1. Cardinality({c \in Clients : pc[c] = "exited"}) \in 0..CLIENT_COUNT
  BY ClientsFinite, FS_Subset, FS_CardinalityType
<1>2. reaped' \in 0..CLIENT_COUNT
  BY <1>1, EpollAssumption DEF IInv, TypeOK, WaitClient
<1>3. TypeOK'
  BY <1>2 DEF IInv, TypeOK, WaitClient
<1>4. UNCHANGED <<pc, counter, readers, recv_msgs>> /\ server # "serving"
  BY DEF WaitClient
<1> QED
  BY <1>3, <1>4 DEF IInv, ExitsNeverMerge, ExitsAccounted, CountIsClosed, Announced, set_event

LEMMA StepInv == IInv /\ [Next]_vars => IInv'
<1> SUFFICES ASSUME IInv, [Next]_vars PROVE IInv'
  OBVIOUS
<1>1. ASSUME NEW c \in Clients, WriteMessage(c) \/ Exit(c) PROVE IInv'
  <2>1. TypeOK'
    BY <1>1 DEF IInv, TypeOK, WriteMessage, Exit
  <2>2. UNCHANGED <<counter, readers, server, recv_msgs>>
    BY <1>1 DEF WriteMessage, Exit
  <2>3. \A d \in Clients : Announced(d)' <=> Announced(d)
    BY <1>1 DEF IInv, TypeOK, WriteMessage, Exit, Announced
  <2> QED
    BY <2>1, <2>2, <2>3 DEF IInv, ExitsNeverMerge, ExitsAccounted, CountIsClosed, set_event
<1>2. ASSUME NEW c \in Clients, ReadMessage(c) PROVE IInv'
  BY <1>2 DEF IInv, TypeOK, ReadMessage, ExitsNeverMerge, ExitsAccounted, CountIsClosed,
              Announced, set_event
<1>3. CASE UNCHANGED vars
  BY <1>3 DEF IInv, TypeOK, vars, ExitsNeverMerge, ExitsAccounted, CountIsClosed,
              Announced, set_event
<1> QED
  BY <1>1, <1>2, <1>3, WriteEventInv, ReadEventInv, EndLoopInv, WaitClientInv DEF Next

\* The eventfd counter never overflows, and the counts stay in range.
THEOREM TypeCorrect == Spec => []TypeOK
<1>1. IInv => TypeOK
  BY DEF IInv
<1> QED
  BY InitInv, StepInv, <1>1, PTL DEF Spec

\* The exits of two clients are never added up into one event.
THEOREM NeverMerged == Spec => []ExitsNeverMerge
<1>1. IInv => ExitsNeverMerge
  BY DEF IInv
<1> QED
  BY InitInv, StepInv, <1>1, PTL DEF Spec

\* Each exit closes the pipe of its own client, once.
THEOREM Accounted == Spec => []ExitsAccounted
<1>1. IInv => ExitsAccounted
  BY DEF IInv
<1> QED
  BY InitInv, StepInv, <1>1, PTL DEF Spec

\* The server leaves its loop when all clients have announced their exit.
THEOREM CountsClosed == Spec => []CountIsClosed
<1>1. IInv => CountIsClosed
  BY DEF IInv
<1> QED
  BY InitInv, StepInv, <1>1, PTL DEF Spec
=============================================================================
