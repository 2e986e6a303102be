--------------------------- MODULE BarrierProofs ---------------------------
(***************************************************************************)
(* Proofs about Barrier for any number of threads and rounds.              *)
(***************************************************************************)
EXTENDS Barrier, FiniteSetTheorems, TLAPS

Types ==
  /\ dwCount \in Nat
  /\ pc \in [Threads -> {"work", "inside", "last", "pulsed", "signalled", "waiting", "exited"}]
  /\ arrived \in [Threads -> Nat]
  /\ left \in [Threads -> Nat]

\* At most one thread is between the test of the count and ReleaseMutex.
Guarded ==
  \A t \in Threads : pc[t] \in {"inside", "last", "pulsed"} => hGuard = {t}

\* Between arriving and leaving a thread has arrived once more than it left.
Counted ==
  \A t \in Threads :
    arrived[t] = left[t] + (IF pc[t] \in {"last", "pulsed", "signalled", "waiting"} THEN 1 ELSE 0)

Arrivals(n) == {t \in Threads : arrived[t] = n + 1}

\* The barrier has opened n times: everybody has arrived n or n + 1 times, the
\* count is the number of the latter, and nobody has left more than n times.
Opened(n) ==
  /\ \A t \in Threads : arrived[t] \in {n, n + 1} /\ left[t] <= n
  /\ dwCount = Cardinality(Arrivals(n))
  /\ \A t \in Threads : pc[t] = "last" => dwCount = dwThreshold
  /\ \A t \in Threads : pc[t] = "pulsed" => arrived[t] = n

IInv == Types /\ Guarded /\ Counted /\ \E n \in Nat : Opened(n)

LEMMA ArrivalsFinite ==
  \A n : /\ IsFiniteSet(Arrivals(n))
         /\ Cardinality(Arrivals(n)) \in 0..dwThreshold
         /\ Cardinality(Arrivals(n)) = dwThreshold => Arrivals(n) = Threads
  BY BarrierAssumption, FS_Subset, FS_CardinalityType DEF Arrivals

LEMMA InitInv == Init => IInv
<1> SUFFICES ASSUME Init PROVE IInv
  OBVIOUS
<1>1. Types /\ Guarded /\ Counted
  BY DEF Init, Types, Guarded, Counted
<1>2. Opened(0)
  <2>1. Arrivals(0) = {}
    BY DEF Init, Arrivals
  <2> QED
    BY <2>1, FS_EmptySet DEF Init, Opened
<1> QED
  BY <1>1, <1>2 DEF IInv

\* A step that leaves the counts alone opens nothing.
LEMMA QuietInv ==
  ASSUME IInv, Types', Guarded', Counted', UNCHANGED <<dwCount, arrived>>,
         \A t \in Threads : pc'[t] \in {"last", "pulsed"} => pc[t] = pc'[t],
         \A n \in Nat : Opened(n) => \A t \in Threads : left'[t] <= n
  PROVE  IInv'
<1>1. PICK n \in Nat : Opened(n)
  BY DEF IInv
<1>2. Arrivals(n)' = Arrivals(n)
  BY DEF Arrivals
<1>3. Opened(n)'
  BY <1>1, <1>2 DEF Opened
<1> QED
  BY <1>3 DEF IInv

\* The last thread arrives when everybody else has.
LEMMA ArriveInv ==
  ASSUME IInv, NEW t \in Threads, Arrive(t)
  PROVE  IInv'
<1>1. PICK n \in Nat : Opened(n)
  BY DEF IInv
<1>2. pc[t] = "inside" /\ hGuard = {t} /\ arrived[t] = n
  BY <1>1 DEF Arrive, IInv, Guarded, Counted, Opened, Types
<1>3. Types'
  BY DEF IInv, Types, Arrive
<1>4. Guarded'
  BY <1>2 DEF IInv, Types, Arrive, Guarded
<1>5. Counted'
  BY DEF IInv, Types, Arrive, Counted
<1>6. Opened(n)'
  <2>1. Arrivals(n)' = Arrivals(n) \cup {t} /\ t \notin Arrivals(n)
    BY <1>2 DEF Arrivals, Arrive, IInv, Types
  <2>2. Cardinality(Arrivals(n)') = dwCount + 1 /\ dwCount + 1 = dwCount'
    BY <1>1, <2>1, ArrivalsFinite, FS_AddElement DEF Opened, Arrive
  <2>3. dwCount' <= dwThreshold
    <3>1. Arrivals(n)' \subseteq Threads
      BY <2>1 DEF Arrivals
    <3> QED
      BY <3>1, <2>2, FS_Subset, BarrierAssumption
  <2>4. \A u \in Threads : pc'[u] = "last" => dwCount' = dwThreshold
    <3>1. \A u \in Threads : u # t => pc'[u] # "last"
      BY <1>2 DEF Arrive, IInv, Types, Guarded
    <3>2. pc'[t] = "last" => ~(dwCount + 1 < dwThreshold)
      BY DEF Arrive, IInv, Types
    <3> QED
      BY <3>1, <3>2, <2>2, <2>3, BarrierAssumption, FS_CardinalityType DEF IInv, Types
  <2>5. \A u \in Threads : arrived'[u] \in {n, n + 1} /\ left'[u] <= n
    BY <1>1, <1>2 DEF Arrive, IInv, Types, Opened
  <2>6. \A u \in Threads : pc'[u] = "pulsed" => arrived'[u] = n
    BY <1>1, <1>2 DEF Arrive, IInv, Types, Opened
  <2> QED
    BY <2>2, <2>4, <2>5, <2>6 DEF Opened
<1> QED
  BY <1>3, <1>4, <1>5, <1>6 DEF IInv

\* When it pulses, everybody has arrived for the round.
LEMMA PulseInv ==
  ASSUME IInv, NEW t \in Threads, Pulse(t)
  PROVE  IInv'
<1>1. PICK n \in Nat : Opened(n)
  BY DEF IInv
<1>2. pc[t] = "last" /\ hGuard = {t} /\ Arrivals(n) = Threads
  BY <1>1, ArrivalsFinite DEF Pulse, IInv, Guarded, Opened
<1>3. \A u \in Threads : arrived[u] = n + 1 /\ left[u] <= n
  BY <1>1, <1>2 DEF Arrivals, Opened
<1>4. Types'
  BY DEF IInv, Types, Pulse, After
<1>5. Guarded'
  BY <1>2 DEF IInv, Types, Pulse, Guarded, After
<1>6. Counted'
  <2>1. ASSUME NEW u \in Threads
        PROVE  \/ pc'[u] = pc[u] /\ left'[u] = left[u]
               \/ u = t /\ pc'[u] = "pulsed" /\ left'[u] = left[u]
               \/ /\ pc[u] = "waiting" /\ left'[u] = left[u] + 1
                  /\ pc'[u] \in {"work", "exited"}
    BY <1>2 DEF IInv, Types, Pulse, Waiting, After
  <2>2. arrived' = arrived
    BY DEF Pulse
  <2> QED
    BY <1>2, <2>1, <2>2 DEF IInv, Types, Counted
<1>7. Opened(n + 1)'
  <2>1. Arrivals(n + 1)' = {}
    BY <1>3 DEF Arrivals, Pulse
  <2>2. dwCount' = Cardinality(Arrivals(n + 1)')
    BY <2>1, FS_EmptySet DEF Pulse
  <2>3. \A u \in Threads : arrived'[u] \in {n + 1, n + 1 + 1} /\ left'[u] <= n + 1
    BY <1>3 DEF Pulse, IInv, Types
  <2>4. \A u \in Threads : pc'[u] # "last"
    BY <1>2 DEF Pulse, IInv, Types, Guarded, After
  <2>5. \A u \in Threads : pc'[u] = "pulsed" => arrived'[u] = n + 1
    BY <1>3 DEF Pulse
  <2> QED
    BY <2>2, <2>3, <2>4, <2>5 DEF Opened
<1> QED
  BY <1>4, <1>5, <1>6, <1>7 DEF IInv

LEMMA StepInv == IInv /\ [Next]_vars => IInv'
<1> SUFFICES ASSUME IInv, [Next]_vars PROVE IInv'
  OBVIOUS
<1>1. ASSUME NEW t \in Threads, Enter(t) PROVE IInv'
  <2>1. Types' /\ Guarded' /\ Counted'
    BY <1>1 DEF IInv, Types, Guarded, Counted, Enter
  <2> QED
    BY <1>1, <2>1, QuietInv DEF Enter, IInv, Types, Opened
<1>2. ASSUME NEW t \in Threads, BeginWait(t) PROVE IInv'
  <2>1. Types' /\ Guarded' /\ Counted'
    BY <1>2 DEF IInv, Types, Guarded, Counted, BeginWait
  <2> QED
    BY <1>2, <2>1, QuietInv DEF BeginWait, IInv, Types, Opened
<1>3. ASSUME NEW t \in Threads, Release(t) PROVE IInv'
  <2>1. Types' /\ Guarded' /\ Counted'
    <3>1. Types'
      BY <1>3 DEF IInv, Types, Release, After
    <3>2. Guarded'
      BY <1>3 DEF IInv, Types, Guarded, Release, After
    <3>3. Counted'
      BY <1>3 DEF IInv, Types, Counted, Release, After
    <3> QED
      BY <3>1, <3>2, <3>3
  <2>2. \A n \in Nat : Opened(n) => \A u \in Threads : left'[u] <= n
    BY <1>3 DEF IInv, Types, Counted, Release, Opened
  <2> QED
    BY <1>3, <2>1, <2>2, QuietInv DEF Release, IInv, Types, After
<1>4. CASE UNCHANGED vars
  <2>1. Types' /\ Guarded' /\ Counted'
    BY <1>4 DEF IInv, Types, Guarded, Counted, vars
  <2> QED
    BY <1>4, <2>1, QuietInv DEF vars, IInv, Opened
<1> QED
  BY <1>1, <1>2, <1>3, <1>4, ArriveInv, PulseInv DEF Next

\* No thread leaves the barrier for the nth time before every thread has
\* reached it n times, for any number of threads, rounds and missed pulses:
\* nobody has left more often than the barrier opened, and everybody has
\* arrived as often.
THEOREM NobodyEarly == Spec => []NobodyLeavesEarly
<1>1. IInv => NobodyLeavesEarly
  BY DEF IInv, Types, Opened, NobodyLeavesEarly
<1> QED
  BY InitInv, StepInv, <1>1, PTL DEF Spec
=============================================================================
