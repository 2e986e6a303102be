---------------------------- MODULE EpollServer ----------------------------
(***************************************************************************)
(* Linux/Lab11/2-epollpipe: a server forks one client process per pipe.    *)
(* A client writes one message to its pipe and then announces its exit by  *)
(* adding MAGIC_EXIT | index to a shared eventfd.  The server waits for    *)
(* both with epoll and counts the exits.                                   *)
(*                                                                         *)
(* The eventfd counter keeps its width: it holds at most 2 * Half - 2,     *)
(* where Half is MAGIC_EXIT (1 << 63), and a write that would exceed this  *)
(* blocks.  epoll_wait may report any source that is ready: the server     *)
(* registers the eventfd before the pipes, perhaps after a client wrote to *)
(* both, and a level-triggered source stays on the kernel's ready list     *)
(* after it was reported, ahead of a pipe that becomes ready later.        *)
(***************************************************************************)
EXTENDS Integers, FiniteSets

CONSTANTS
  CLIENT_COUNT,
  Half,          \* MAGIC_EXIT
  MaskSize       \* MAGIC_MASK + 1

ASSUME EpollAssumption ==
  /\ CLIENT_COUNT \in Nat \ {0} /\ Half \in Nat /\ MaskSize \in Nat \ {0}
  /\ CLIENT_COUNT < Half
  \* MAGIC_EXIT has none of the mask's bits, and an index fits in the mask
  /\ \A c \in 0..(CLIENT_COUNT - 1) : (Half + c) % MaskSize = c

Clients == 0..(CLIENT_COUNT - 1)

VARIABLES
  pc,         \* per client: "message" | "event" | "close" | "exited"
  counter,    \* external: the eventfd's counter
  pipe,       \* external: per client, is its message in the pipe?
  readers,    \* is the server's read end of each client's pipe open?
  server,     \* "serving" | "waiting" | "exited"
  recv_msgs,
  reaped     \* how many times the server's waitpid returned

vars == <<pc, counter, pipe, readers, server, recv_msgs, reaped>>

Init ==
  /\ pc = [c \in Clients |-> "message"]
  /\ counter = 0
  /\ pipe = [c \in Clients |-> FALSE]
  /\ readers = Clients
  /\ server = "serving"
  /\ recv_msgs = 0
  /\ reaped = 0

\* Mutant of set_event: the event is the index alone.
set_event_index(c) == c

set_event(c) == Half + c

\* Mutant of get_index: the mask is one bit short.
get_index_short(event) == (event % MaskSize) \div 2

get_index(event) == event % MaskSize

\* The client's message; the pipe always has room for it.
WriteMessage(c) ==
  /\ pc[c] = "message"
  /\ pipe' = [pipe EXCEPT ![c] = TRUE]
  /\ pc' = [pc EXCEPT ![c] = "event"]
  /\ UNCHANGED <<counter, readers, server, recv_msgs, reaped>>

\* External: write to an eventfd adds, and blocks if the sum is too large.
WriteEvent(c) ==
  /\ pc[c] = "event"
  /\ counter + set_event(c) <= 2 * Half - 2
  /\ counter' = counter + set_event(c)
  /\ pc' = [pc EXCEPT ![c] = "close"]
  /\ UNCHANGED <<pipe, readers, server, recv_msgs, reaped>>

\* close of the write end, and the end of the process.
Exit(c) ==
  /\ pc[c] = "close"
  /\ pc' = [pc EXCEPT ![c] = "exited"]
  /\ UNCHANGED <<counter, pipe, readers, server, recv_msgs, reaped>>

\* Mutant of ReadEvent: an exit is counted twice.
ReadEventCountsTwice ==
  /\ server = "serving" /\ recv_msgs < CLIENT_COUNT
  /\ counter > 0
  /\ counter' = 0
  /\ IF counter >= Half
     THEN /\ readers' = readers \ {get_index(counter)}
          /\ recv_msgs' = recv_msgs + 2
     ELSE UNCHANGED <<readers, recv_msgs>>
  /\ UNCHANGED <<pc, pipe, server, reaped>>

\* The eventfd is ready: read returns the counter and sets it to 0.  A value
\* without MAGIC_EXIT is ignored.
ReadEvent ==
  /\ server = "serving" /\ recv_msgs < CLIENT_COUNT
  /\ counter > 0
  /\ counter' = 0
  /\ IF counter >= Half
     THEN /\ readers' = readers \ {get_index(counter)}
          /\ recv_msgs' = recv_msgs + 1
     ELSE UNCHANGED <<readers, recv_msgs>>
  /\ UNCHANGED <<pc, pipe, server, reaped>>

\* A pipe is ready.  (A hang-up without data is reported without EPOLLIN,
\* and the server does nothing with it.)  The 0 stored behind the message
\* (epoll.c:119) is left out: all messages have MSG_SIZE bytes, so that it goes
\* one byte past msg each time, and nothing here depends on what is there.
ReadMessage(c) ==
  /\ server = "serving" /\ recv_msgs < CLIENT_COUNT
  /\ c \in readers /\ pipe[c]
  /\ pipe' = [pipe EXCEPT ![c] = FALSE]
  /\ UNCHANGED <<pc, counter, readers, server, recv_msgs, reaped>>

\* Mutant of EndLoop: the loop ends one exit too early.
EndLoopEarly ==
  /\ server = "serving" /\ recv_msgs >= CLIENT_COUNT - 1
  /\ server' = "waiting"
  /\ UNCHANGED <<pc, counter, pipe, readers, recv_msgs, reaped>>

\* The loop ends; the server closes its eventfd.
EndLoop ==
  /\ server = "serving" /\ recv_msgs >= CLIENT_COUNT
  /\ server' = "waiting"
  /\ UNCHANGED <<pc, counter, pipe, readers, recv_msgs, reaped>>

\* waitpid(ANY), once for every client.
WaitClient ==
  /\ server = "waiting"
  /\ IF reaped = CLIENT_COUNT
     THEN server' = "exited" /\ UNCHANGED reaped
     ELSE /\ reaped < Cardinality({c \in Clients : pc[c] = "exited"})
          /\ reaped' = reaped + 1
          /\ UNCHANGED server
  /\ UNCHANGED <<pc, counter, pipe, readers, recv_msgs>>

Next ==
  \/ \E c \in Clients : WriteMessage(c) \/ WriteEvent(c) \/ Exit(c) \/ ReadMessage(c)
  \/ ReadEvent
  \/ EndLoop
  \/ WaitClient

\* Every process runs; of the blocked writers of the eventfd each has its
\* turn in the end, because each writes once only.
Fairness ==
  /\ \A c \in Clients : WF_vars(WriteMessage(c)) /\ SF_vars(WriteEvent(c)) /\ WF_vars(Exit(c))
  /\ WF_vars(ReadEvent) /\ WF_vars(EndLoop) /\ WF_vars(WaitClient)

Spec == Init /\ [][Next]_vars
FairSpec == Spec /\ Fairness

-----------------------------------------------------------------------------
\* The state stays in its ranges: the eventfd counter never overflows.
TypeOK ==
  /\ pc \in [Clients -> {"message", "event", "close", "exited"}]
  /\ counter \in 0..(2 * Half - 2)
  /\ pipe \in [Clients -> BOOLEAN]
  /\ readers \subseteq Clients
  /\ server \in {"serving", "waiting", "exited"}
  /\ recv_msgs \in 0..CLIENT_COUNT
  /\ reaped \in 0..CLIENT_COUNT

Announced(c) == pc[c] \in {"close", "exited"}

\* Two exits never merge into one value of the eventfd, although it adds up
\* what is written: the counter is empty or the event of one client that has
\* announced its exit and that the server has not yet accounted for.
ExitsNeverMerge ==
  counter = 0 \/ \E c \in Clients : counter = set_event(c) /\ Announced(c) /\ c \in readers

\* Every announced exit is accounted for exactly once: the server has closed
\* the client's pipe, or its event is the one in the eventfd.  No exit is
\* dropped and no other client's pipe is closed in its place.
ExitsAccounted ==
  \A c \in Clients : Announced(c) <=> c \notin readers \/ counter = set_event(c)

\* recv_msgs counts the pipes closed, so that the server leaves its loop
\* exactly when every client has announced its exit.  epoll.c:89 calls it the
\* "number of received messages", which it is not: an exit that is reported ahead
\* of its client's message closes the pipe with the message in it.
CountIsClosed ==
  /\ recv_msgs = Cardinality(Clients \ readers)
  /\ server # "serving" => readers = {}

\* The server ends, with every client reaped.
ServerExits == <>(server = "exited" /\ \A c \in Clients : pc[c] = "exited")
=============================================================================
