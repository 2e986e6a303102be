------------------------------ MODULE Barrier ------------------------------
(***************************************************************************)
(* Windows/Lab9/6-barrier: threads that meet at a threshold barrier made   *)
(* of a mutex (hGuard), a count and an event (hEvent), once per round.     *)
(*                                                                         *)
(* The event is a manual-reset one that is only ever pulsed: PulseEvent    *)
(* lets go the threads that wait at that moment and leaves the event       *)
(* unsignalled.  A thread that a kernel APC has taken out of its wait for  *)
(* a moment is not among them: it goes back to waiting and has missed the  *)
(* pulse, for which the documentation of Windows advises against           *)
(* PulseEvent.  SignalObjectAndWait releases the mutex and then waits;     *)
(* Windows does not promise that this is one step.                         *)
(***************************************************************************)
EXTENDS Integers, FiniteSets

CONSTANTS
  Threads,     \* the threads main creates
  dwThreshold, \* b_value of CreateThresholdBarrier
  Rounds       \* how many times ThreadFunc calls WaitThresholdBarrier

ASSUME BarrierAssumption ==
  /\ IsFiniteSet(Threads)
  /\ Threads # {} /\ dwThreshold = Cardinality(Threads) \* NO_THREADS, both
  /\ Rounds \in Nat

VARIABLES
  hGuard,  \* the threads that own the mutex: one, or none
  dwCount,
  pc,      \* "work" | "inside" | "last" | "pulsed" | "signalled" | "waiting" | "exited"
  arrived, \* history: how many times each thread was counted
  left,    \* history: how many times each thread has left WaitThresholdBarrier
  missed   \* history: the threads that were not waiting at a pulse of their round

vars == <<hGuard, dwCount, pc, arrived, left, missed>>

Init ==
  /\ hGuard = {}
  /\ dwCount = 0
  /\ pc = [t \in Threads |-> "work"]
  /\ arrived = [t \in Threads |-> 0]
  /\ left = [t \in Threads |-> 0]
  /\ missed = {}

\* WaitForSingleObject(hGuard), after some work.
Enter(t) ==
  /\ pc[t] = "work" /\ hGuard = {}
  /\ hGuard' = {t}
  /\ pc' = [pc EXCEPT ![t] = "inside"]
  /\ UNCHANGED <<dwCount, arrived, left, missed>>

\* Where a thread goes that returns from WaitThresholdBarrier for the n-th time.
After(n) == IF n = Rounds THEN "exited" ELSE "work"

\* Mutant of Arrive: the barrier opens one thread too early.
ArriveEarly(t) ==
  /\ pc[t] = "inside"
  /\ dwCount' = dwCount + 1
  /\ arrived' = [arrived EXCEPT ![t] = @ + 1]
  /\ IF dwCount + 1 < dwThreshold - 1
     THEN /\ hGuard' = {}
          /\ pc' = [pc EXCEPT ![t] = "signalled"]
     ELSE /\ pc' = [pc EXCEPT ![t] = "last"]
          /\ UNCHANGED hGuard
  /\ UNCHANGED <<left, missed>>

\* dwCount++ and the test; below the threshold SignalObjectAndWait releases
\* the mutex.
Arrive(t) ==
  /\ pc[t] = "inside"
  /\ dwCount' = dwCount + 1
  /\ arrived' = [arrived EXCEPT ![t] = @ + 1]
  /\ IF dwCount + 1 < dwThreshold
     THEN /\ hGuard' = {}
          /\ pc' = [pc EXCEPT ![t] = "signalled"]
     ELSE /\ pc' = [pc EXCEPT ![t] = "last"]
          /\ UNCHANGED hGuard
  /\ UNCHANGED <<left, missed>>

\* The second half of SignalObjectAndWait.
BeginWait(t) ==
  /\ pc[t] = "signalled"
  /\ pc' = [pc EXCEPT ![t] = "waiting"]
  /\ UNCHANGED <<hGuard, dwCount, arrived, left, missed>>

Waiting == {u \in Threads : pc[u] = "waiting"}

\* dwCount = 0 and PulseEvent: the threads that wait now return, but for
\* those that are away from their wait at this moment.
Pulse(t) ==
  /\ pc[t] = "last"
  /\ dwCount' = 0
  /\ \E away \in SUBSET Waiting :
       LET free == Waiting \ away
       IN  /\ left' = [u \in Threads |-> IF u \in free THEN left[u] + 1 ELSE left[u]]
           /\ pc' = [u \in Threads |-> IF u \in free THEN After(left[u] + 1)
                                       ELSE IF u = t THEN "pulsed" ELSE pc[u]]
           /\ missed' = missed \cup away \cup {u \in Threads : pc[u] = "signalled"}
  /\ UNCHANGED <<hGuard, arrived>>

\* Mutant of Release: the mutex is kept.
ReleaseForgotten(t) ==
  /\ pc[t] = "pulsed"
  /\ left' = [left EXCEPT ![t] = @ + 1]
  /\ pc' = [pc EXCEPT ![t] = After(left[t] + 1)]
  /\ UNCHANGED <<hGuard, dwCount, arrived, missed>>

\* ReleaseMutex, and the last thread returns.
Release(t) ==
  /\ pc[t] = "pulsed"
  /\ hGuard' = {}
  /\ left' = [left EXCEPT ![t] = @ + 1]
  /\ pc' = [pc EXCEPT ![t] = After(left[t] + 1)]
  /\ UNCHANGED <<dwCount, arrived, missed>>

Next == \E t \in Threads : Enter(t) \/ Arrive(t) \/ BeginWait(t) \/ Pulse(t) \/ Release(t)

\* Threads are scheduled, and a mutex is granted in the order of requests.
Fairness == \A t \in Threads :
  /\ SF_vars(Enter(t))
  /\ WF_vars(Arrive(t)) /\ WF_vars(BeginWait(t)) /\ WF_vars(Pulse(t)) /\ WF_vars(Release(t))

Spec == Init /\ [][Next]_vars /\ Fairness

-----------------------------------------------------------------------------
\* It is a barrier: nobody leaves it for the n-th time before every thread
\* has reached it n times, although leaving needs no mutex, a thread may be
\* back for the next round while others have not left this one, and pulses
\* may be missed.
NobodyLeavesEarly == \A t, u \in Threads : left[t] <= arrived[u]

\* A pulse that a thread misses is the only way to be stuck: as long as every
\* pulse finds the threads of its round waiting, the barrier opens for every
\* round.  The code does not see to that: a thread can still be between the
\* two halves of SignalObjectAndWait, or taken out of its wait by an APC.
OnlyMissedPulses == <>(missed # {} \/ \A t \in Threads : pc[t] = "exited")
=============================================================================
