------------------------------ MODULE ProdCons ------------------------------
(***************************************************************************)
(* Linux/Lab8/7-prodcons: one producer and one consumer thread share a     *)
(* small buffer under a mutex and two condition variables.  The buffer is  *)
(* used as a stack.  The signals are economical: buffer_not_empty is       *)
(* signalled only when the count becomes 1, buffer_not_full only when it   *)
(* becomes BUFFER_SIZE - 1.  main runs the pair of threads several times.  *)
(*                                                                         *)
(* pthread_cond_wait is modelled as POSIX describes it: it gives up the    *)
(* mutex and sleeps in one step, may wake without a signal, and takes the  *)
(* mutex again before it returns.  The sleeps between items are left out:  *)
(* any delay is allowed between any two steps.                             *)
(***************************************************************************)
EXTENDS Integers

CONSTANTS BUFFER_SIZE, NR_ITERATIONS,
          Rounds \* how many times main calls run_threads

ASSUME ProdConsAssumption ==
  /\ BUFFER_SIZE \in Nat \ {0}
  /\ NR_ITERATIONS \in Nat
  /\ Rounds \in Nat

VARIABLES
  round,    \* how many calls of run_threads have returned
  mutex,    \* "free", or the thread that holds it
  pc,       \* where each thread is
  sleeping, \* the threads inside pthread_cond_wait, not woken yet
  buff,     \* common_area.buff
  count,    \* common_area.count
  inserted, \* i of producer_fn: how many items it has inserted
  taken,    \* i of consumer_fn: how many items it has removed
  consumed  \* history: the items the consumer printed this round

vars == <<round, mutex, pc, sleeping, buff, count, inserted, taken, consumed>>

P == "producer"
C == "consumer"
Threads == {P, C}

Slots == 0..(BUFFER_SIZE - 1)
Items == 0..(NR_ITERATIONS - 1)

Done(t) == IF t = P THEN inserted = NR_ITERATIONS ELSE taken = NR_ITERATIONS

\* init_buffer, and the threads at the start of their loops.
Init ==
  /\ round = 0
  /\ mutex = "free"
  /\ pc = [t \in Threads |-> "lock"]
  /\ sleeping = {}
  /\ buff = [i \in Slots |-> 0]
  /\ count = 0
  /\ inserted = 0 /\ taken = 0
  /\ consumed = {}

is_buffer_full == count = BUFFER_SIZE
is_buffer_empty == count = 0

Other(t) == IF t = P THEN C ELSE P

\* Mutant of Lock: pthread_mutex_lock is forgotten.
LockForgotten(t) ==
  /\ pc[t] = "lock" /\ ~Done(t)
  /\ pc' = [pc EXCEPT ![t] = "test"]
  /\ UNCHANGED <<round, mutex, sleeping, buff, count, inserted, taken, consumed>>

\* pthread_mutex_lock, at the head of the loop.
Lock(t) ==
  /\ pc[t] = "lock" /\ ~Done(t)
  /\ mutex = "free"
  /\ mutex' = t
  /\ pc' = [pc EXCEPT ![t] = "test"]
  /\ UNCHANGED <<round, sleeping, buff, count, inserted, taken, consumed>>

\* Mutant of MustWait: the producer does not wait for room.
MustWaitConsumerOnly(t) == t = C /\ is_buffer_empty

MustWait(t) == IF t = P THEN is_buffer_full ELSE is_buffer_empty

\* while (is_buffer_...) pthread_cond_wait
Test(t) ==
  /\ pc[t] = "test"
  /\ IF MustWait(t)
     THEN /\ pc' = [pc EXCEPT ![t] = "waiting"]
          /\ sleeping' = sleeping \cup {t}
          /\ mutex' = "free"
     ELSE /\ pc' = [pc EXCEPT ![t] = "move"]
          /\ UNCHANGED <<sleeping, mutex>>
  /\ UNCHANGED <<round, buff, count, inserted, taken, consumed>>

\* External: POSIX lets pthread_cond_wait return without a signal.
SpuriousWakeup(t) ==
  /\ t \in sleeping
  /\ sleeping' = sleeping \ {t}
  /\ UNCHANGED <<round, mutex, pc, buff, count, inserted, taken, consumed>>

\* pthread_cond_wait returns, the mutex is held again, the loop tests again.
Wake(t) ==
  /\ pc[t] = "waiting" /\ t \notin sleeping
  /\ mutex = "free"
  /\ mutex' = t
  /\ pc' = [pc EXCEPT ![t] = "test"]
  /\ UNCHANGED <<round, sleeping, buff, count, inserted, taken, consumed>>

\* insert_item
Insert ==
  /\ pc[P] = "move"
  /\ buff' = [buff EXCEPT ![count] = inserted]
  /\ count' = count + 1
  /\ inserted' = inserted + 1
  /\ pc' = [pc EXCEPT ![P] = "signal"]
  /\ UNCHANGED <<round, mutex, sleeping, taken, consumed>>

\* Mutant of Remove: the item is read before the count is decremented.
RemoveReadsFirst ==
  /\ pc[C] = "move"
  /\ count' = count - 1
  /\ consumed' = consumed \cup {IF count \in Slots THEN buff[count] ELSE 0}
  /\ taken' = taken + 1
  /\ pc' = [pc EXCEPT ![C] = "signal"]
  /\ UNCHANGED <<round, mutex, sleeping, buff, inserted>>

\* remove_item, and the item printed.
Remove ==
  /\ pc[C] = "move"
  /\ count' = count - 1
  /\ consumed' = consumed \cup {buff[count - 1]}
  /\ taken' = taken + 1
  /\ pc' = [pc EXCEPT ![C] = "signal"]
  /\ UNCHANGED <<round, mutex, sleeping, buff, inserted>>

\* Mutant of MustSignal: not full is signalled only when the buffer is empty.
MustSignalWhenEmpty(t) == IF t = P THEN count = 1 ELSE count = 0

\* Mutant of MustSignal: not full is signalled at the count before the removal.
MustSignalAtFull(t) == IF t = P THEN count = 1 ELSE count = BUFFER_SIZE

MustSignal(t) == IF t = P THEN count = 1 ELSE count = BUFFER_SIZE - 1

\* pthread_cond_signal wakes the other thread if it sleeps there.
Signal(t) ==
  /\ pc[t] = "signal"
  /\ sleeping' = IF MustSignal(t) THEN sleeping \ {Other(t)} ELSE sleeping
  /\ pc' = [pc EXCEPT ![t] = "unlock"]
  /\ UNCHANGED <<round, mutex, buff, count, inserted, taken, consumed>>

\* pthread_mutex_unlock, and back to the head of the loop.
Unlock(t) ==
  /\ pc[t] = "unlock"
  /\ mutex' = "free"
  /\ pc' = [pc EXCEPT ![t] = "lock"]
  /\ UNCHANGED <<round, sleeping, buff, count, inserted, taken, consumed>>

\* Both threads are joined; main calls run_threads again, or is done.
Joined == \A t \in Threads : Done(t) /\ pc[t] = "lock"

Join ==
  /\ Joined /\ round < Rounds
  /\ round' = round + 1
  /\ buff' = [i \in Slots |-> 0]
  /\ count' = 0
  /\ inserted' = 0 /\ taken' = 0
  /\ consumed' = {}
  /\ UNCHANGED <<mutex, pc, sleeping>>

Step(t) == Lock(t) \/ Test(t) \/ Wake(t) \/ Signal(t) \/ Unlock(t)

Next ==
  \/ \E t \in Threads : Step(t) \/ SpuriousWakeup(t)
  \/ Insert
  \/ Remove
  \/ Join

\* The threads are scheduled; nobody has to wake spuriously.
Fairness ==
  /\ \A t \in Threads : WF_vars(Step(t)) /\ SF_vars(Lock(t)) /\ SF_vars(Wake(t))
  /\ WF_vars(Insert) /\ WF_vars(Remove) /\ WF_vars(Join)

Spec == Init /\ [][Next]_vars
FairSpec == Spec /\ Fairness

-----------------------------------------------------------------------------
\* The state stays in its ranges; so buff is never indexed outside its
\* BUFFER_SIZE slots.
TypeOK ==
  /\ round \in 0..Rounds
  /\ mutex \in Threads \cup {"free"}
  /\ pc \in [Threads -> {"lock", "test", "waiting", "move", "signal", "unlock"}]
  /\ sleeping \subseteq Threads
  /\ buff \in [Slots -> Int]
  /\ count \in 0..BUFFER_SIZE
  /\ inserted \in 0..NR_ITERATIONS
  /\ taken \in 0..NR_ITERATIONS
  /\ consumed \subseteq Int

Critical(t) == pc[t] \in {"test", "move", "signal", "unlock"}

\* common_area is used by the holder of the mutex only.
MutualExclusion == \A t \in Threads : Critical(t) <=> mutex = t

InBuffer == {buff[i] : i \in 0..(count - 1)}

\* Every item inserted is in the buffer or was consumed, never both, and no
\* item is twice in the buffer: nothing is lost, doubled or made up by any
\* interleaving, although the last item in is the first out.
ItemsConserved ==
  /\ count = inserted - taken
  /\ InBuffer \cup consumed = 0..(inserted - 1)
  /\ InBuffer \cap consumed = {}
  /\ \A i, j \in 0..(count - 1) : i < j => buff[i] < buff[j]

\* No wakeup is lost: a thread sleeps only while it has to wait, or the
\* other one is just about to signal it.  This is what signalling only at
\* the counts 1 and BUFFER_SIZE - 1 must achieve.
NoLostWakeup ==
  /\ C \in sleeping => is_buffer_empty \/ (pc[P] = "signal" /\ count = 1)
  /\ P \in sleeping => is_buffer_full \/ (pc[C] = "signal" /\ count = BUFFER_SIZE - 1)

\* Every call of run_threads returns.
AllRoundsEnd == <>(Joined /\ round = Rounds)
=============================================================================
