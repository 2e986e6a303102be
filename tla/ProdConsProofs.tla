--------------------------- MODULE ProdConsProofs ---------------------------
(***************************************************************************)
(* Proofs that the invariants of ProdCons hold for every BUFFER_SIZE,      *)
(* NR_ITERATIONS and number of rounds.                                     *)
(***************************************************************************)
EXTENDS ProdCons, TLAPS

\* What each thread knows at each point of its loop.
Knows ==
  /\ \A t \in sleeping : pc[t] = "waiting"
  /\ pc[P] \in {"test", "waiting", "move"} => inserted < NR_ITERATIONS
  /\ pc[C] \in {"test", "waiting", "move"} => taken < NR_ITERATIONS
  /\ pc[P] = "move" => count < BUFFER_SIZE
  /\ pc[C] = "move" => count > 0

\* The inductive invariant.
IInv == TypeOK /\ Knows /\ MutualExclusion /\ ItemsConserved /\ NoLostWakeup

LEMMA Names == P = "producer" /\ C = "consumer" /\ Threads = {P, C} /\ P # C
  BY DEF P, C, Threads

\* What a thread's step does to pc.
LEMMA Except ==
  ASSUME NEW f, NEW t \in Threads, NEW v, DOMAIN f = Threads
  PROVE  \A u \in Threads : [f EXCEPT ![t] = v][u] = IF u = t THEN v ELSE f[u]
  OBVIOUS

\* insert_item puts the next item on top of the stack.
LEMMA InsertConserves ==
  ASSUME IInv, Insert
  PROVE  ItemsConserved'
<1> USE Names, ProdConsAssumption DEF IInv, TypeOK, Insert, Slots
<1>1. count \in Slots /\ count \in Nat /\ inserted \in Nat /\ count' = count + 1
      /\ inserted' = inserted + 1 /\ consumed' = consumed /\ taken' = taken
  BY DEF Knows
<1>2. /\ buff'[count] = inserted
      /\ \A i \in 0..(count - 1) : buff'[i] = buff[i]
  BY <1>1
<1>3. InBuffer' = InBuffer \cup {inserted}
  BY <1>1, <1>2 DEF InBuffer
<1>4. \A i \in 0..(count - 1) : buff[i] \in 0..(inserted - 1)
  BY <1>1 DEF ItemsConserved, InBuffer
<1>5. \A i, j \in 0..(count' - 1) : i < j => buff'[i] < buff'[j]
  BY <1>1, <1>2, <1>4 DEF ItemsConserved
<1>6. inserted \notin 0..(inserted - 1) /\ 0..(inserted' - 1) = (0..(inserted - 1)) \cup {inserted}
  BY <1>1
<1>7. /\ InBuffer' \cup consumed' = 0..(inserted' - 1)
      /\ InBuffer' \cap consumed' = {}
  BY <1>1, <1>3, <1>6 DEF ItemsConserved
<1>8. count' = inserted' - taken'
  BY <1>1 DEF ItemsConserved
<1> QED
  BY <1>5, <1>7, <1>8 DEF ItemsConserved

\* remove_item takes the top item, which is in no other slot.
LEMMA RemoveConserves ==
  ASSUME IInv, Remove
  PROVE  ItemsConserved'
<1> USE Names, ProdConsAssumption DEF IInv, TypeOK, Remove, Slots
<1>1. count \in Nat /\ count > 0 /\ count' = count - 1 /\ buff' = buff /\ inserted' = inserted
      /\ taken' = taken + 1 /\ inserted \in Nat /\ taken \in Nat
      /\ count - 1 \in Slots /\ consumed' = consumed \cup {buff[count - 1]}
  BY DEF Knows
<1>2. \A i \in 0..(count - 2) : buff[i] # buff[count - 1]
  <2> SUFFICES ASSUME NEW i \in 0..(count - 2) PROVE buff[i] # buff[count - 1]
    OBVIOUS
  <2>1. i \in 0..(count - 1) /\ count - 1 \in 0..(count - 1) /\ i < count - 1
        /\ i \in Slots
    BY <1>1
  <2>2. buff[i] < buff[count - 1] /\ buff[i] \in Int
    BY <2>1 DEF ItemsConserved
  <2> QED
    BY <2>2, <1>1
<1>3. InBuffer = InBuffer' \cup {buff[count - 1]} /\ buff[count - 1] \notin InBuffer'
  <2>1. 0..(count - 1) = 0..(count' - 1) \cup {count - 1} /\ count' - 1 = count - 2
    BY <1>1
  <2> QED
    BY <1>1, <1>2, <2>1 DEF InBuffer
<1>4. /\ InBuffer' \cup consumed' = 0..(inserted' - 1)
      /\ InBuffer' \cap consumed' = {}
  BY <1>1, <1>3 DEF ItemsConserved
<1>5. \A i, j \in 0..(count' - 1) : i < j => buff'[i] < buff'[j]
  BY <1>1 DEF ItemsConserved
<1>6. count' = inserted' - taken'
  BY <1>1 DEF ItemsConserved
<1> QED
  BY <1>4, <1>5, <1>6 DEF ItemsConserved

LEMMA InitInv == Init => IInv
<1> SUFFICES ASSUME Init PROVE IInv
  OBVIOUS
<1> USE Names, ProdConsAssumption
<1>1. TypeOK /\ Knows /\ MutualExclusion /\ NoLostWakeup
  BY DEF Init, TypeOK, Knows, MutualExclusion, NoLostWakeup, Critical, Slots, Done
<1>2. ItemsConserved
  BY DEF Init, ItemsConserved, InBuffer
<1> QED
  BY <1>1, <1>2 DEF IInv

\* A step that leaves the buffer and the two loop counters alone.
LEMMA SameBuffer ==
  ASSUME ItemsConserved, UNCHANGED <<buff, count, inserted, taken, consumed>>
  PROVE  ItemsConserved'
  BY DEF ItemsConserved, InBuffer

LEMMA StepType == ASSUME IInv, [Next]_vars PROVE TypeOK'
<1> USE Names, ProdConsAssumption DEF IInv, TypeOK, Slots
<1>1. ASSUME NEW t \in Threads, Step(t) PROVE TypeOK'
  <2>1. pc' \in [Threads -> {"lock", "test", "waiting", "move", "signal", "unlock"}]
    BY <1>1 DEF Step, Lock, Test, Wake, Signal, Unlock
  <2>2. mutex' \in Threads \cup {"free"}
    BY <1>1 DEF Step, Lock, Test, Wake, Signal, Unlock
  <2>3. sleeping' \subseteq Threads
    <3>1. \/ sleeping' = sleeping
          \/ sleeping' = sleeping \cup {t}
          \/ sleeping' = sleeping \ {Other(t)}
      BY <1>1, Zenon DEF Step, Lock, Test, Wake, Signal, Unlock
    <3> QED
      BY <3>1, <1>1, Zenon
  <2>4. UNCHANGED <<round, buff, count, inserted, taken, consumed>>
    BY <1>1 DEF Step, Lock, Test, Wake, Signal, Unlock
  <2> QED
    BY <2>1, <2>2, <2>3, <2>4
<1>2. ASSUME NEW t \in Threads, SpuriousWakeup(t) PROVE TypeOK'
  BY <1>2 DEF SpuriousWakeup
<1>3. CASE Insert
  BY <1>3 DEF Insert, Knows
<1>4. CASE Remove
  <2>1. count - 1 \in Slots /\ buff[count - 1] \in Int /\ taken + 1 \in 0..NR_ITERATIONS
        /\ count - 1 \in 0..BUFFER_SIZE
    BY <1>4 DEF Remove, Knows
  <2>2. pc' \in [Threads -> {"lock", "test", "waiting", "move", "signal", "unlock"}]
    BY <1>4 DEF Remove
  <2>3. consumed' \subseteq Int
    BY <1>4, <2>1 DEF Remove
  <2> QED
    BY <1>4, <2>1, <2>2, <2>3 DEF Remove
<1>5. CASE Join
  BY <1>5 DEF Join
<1>6. CASE UNCHANGED vars
  BY <1>6 DEF vars
<1> QED
  BY <1>1, <1>2, <1>3, <1>4, <1>5, <1>6 DEF Next

LEMMA StepKnows == ASSUME IInv, [Next]_vars PROVE Knows'
<1> USE Names, ProdConsAssumption DEF IInv, TypeOK, Knows
<1>1. ASSUME NEW t \in Threads, Lock(t) PROVE Knows'
  BY <1>1 DEF Lock, Done
<1>2. ASSUME NEW t \in Threads, Test(t) PROVE Knows'
  <2>1. /\ pc[t] = "test" /\ DOMAIN pc = Threads
        /\ count' = count /\ inserted' = inserted /\ taken' = taken
    BY <1>2 DEF Test
  <2>2. CASE MustWait(t)
    <3>1. pc' = [pc EXCEPT ![t] = "waiting"] /\ sleeping' = sleeping \cup {t}
      BY <1>2, <2>2 DEF Test
    <3>2. \A u \in Threads : pc'[u] = IF u = t THEN "waiting" ELSE pc[u]
      BY <2>1, <3>1, Except, Zenon
    <3> QED
      BY <2>1, <3>1, <3>2
  <2>3. CASE ~MustWait(t)
    <3>1. pc' = [pc EXCEPT ![t] = "move"] /\ sleeping' = sleeping
      BY <1>2, <2>3 DEF Test
    <3>2. \A u \in Threads : pc'[u] = IF u = t THEN "move" ELSE pc[u]
      BY <2>1, <3>1, Except, Zenon
    <3>3. (t = P => count < BUFFER_SIZE) /\ (t = C => count > 0)
      BY <2>3 DEF MustWait, is_buffer_full, is_buffer_empty
    <3> QED
      BY <2>1, <3>1, <3>2, <3>3
  <2> QED
    BY <2>2, <2>3
<1>3. ASSUME NEW t \in Threads, SpuriousWakeup(t) PROVE Knows'
  BY <1>3 DEF SpuriousWakeup
<1>4. ASSUME NEW t \in Threads, Wake(t) PROVE Knows'
  BY <1>4 DEF Wake
<1>5. CASE Insert
  BY <1>5 DEF Insert, MutualExclusion, Critical
<1>6. CASE Remove
  BY <1>6 DEF Remove, MutualExclusion, Critical
<1>7. ASSUME NEW t \in Threads, Signal(t) PROVE Knows'
  BY <1>7 DEF Signal
<1>8. ASSUME NEW t \in Threads, Unlock(t) PROVE Knows'
  BY <1>8 DEF Unlock
<1>9. CASE Join
  BY <1>9 DEF Join, Joined
<1>10. CASE UNCHANGED vars
  BY <1>10 DEF vars
<1> QED
  BY <1>1, <1>2, <1>3, <1>4, <1>5, <1>6, <1>7, <1>8, <1>9, <1>10 DEF Next, Step

LEMMA StepMutex == ASSUME IInv, [Next]_vars PROVE MutualExclusion'
<1> USE Names DEF IInv, TypeOK, MutualExclusion, Critical
<1>1. ASSUME NEW t \in Threads, Lock(t) PROVE MutualExclusion'
  BY <1>1 DEF Lock
<1>2. ASSUME NEW t \in Threads, Test(t) PROVE MutualExclusion'
  BY <1>2 DEF Test
<1>3. ASSUME NEW t \in Threads, Wake(t) PROVE MutualExclusion'
  BY <1>3 DEF Wake
<1>4. ASSUME NEW t \in Threads, SpuriousWakeup(t) \/ Signal(t) PROVE MutualExclusion'
  BY <1>4 DEF SpuriousWakeup, Signal
<1>5. ASSUME NEW t \in Threads, Unlock(t) PROVE MutualExclusion'
  BY <1>5 DEF Unlock
<1>6. CASE Insert \/ Remove \/ Join
  BY <1>6 DEF Insert, Remove, Join
<1>7. CASE UNCHANGED vars
  BY <1>7 DEF vars
<1> QED
  BY <1>1, <1>2, <1>3, <1>4, <1>5, <1>6, <1>7 DEF Next, Step

LEMMA StepWakeup == ASSUME IInv, [Next]_vars PROVE NoLostWakeup'
<1> USE Names, ProdConsAssumption
    DEF IInv, TypeOK, NoLostWakeup, Knows, is_buffer_full, is_buffer_empty
<1>1. ASSUME NEW t \in Threads, Test(t) PROVE NoLostWakeup'
  <2>1. CASE t = P
    BY <1>1, <2>1 DEF Test, MustWait
  <2>2. CASE t = C
    BY <1>1, <2>2 DEF Test, MustWait
  <2> QED
    BY <2>1, <2>2
<1>2. ASSUME NEW t \in Threads, Lock(t) \/ Wake(t) \/ Unlock(t) PROVE NoLostWakeup'
  BY <1>2 DEF Lock, Wake, Unlock
<1>3. ASSUME NEW t \in Threads, SpuriousWakeup(t) PROVE NoLostWakeup'
  BY <1>3 DEF SpuriousWakeup
<1>4. CASE Insert
  BY <1>4 DEF Insert
<1>5. CASE Remove
  BY <1>5 DEF Remove
<1>6. ASSUME NEW t \in Threads, Signal(t) PROVE NoLostWakeup'
  BY <1>6 DEF Signal, MustSignal, Other
<1>7. CASE Join
  BY <1>7 DEF Join, Joined
<1>8. CASE UNCHANGED vars
  BY <1>8 DEF vars
<1> QED
  BY <1>1, <1>2, <1>3, <1>4, <1>5, <1>6, <1>7, <1>8 DEF Next, Step

LEMMA StepItems == ASSUME IInv, [Next]_vars PROVE ItemsConserved'
<1>1. ASSUME NEW t \in Threads, Step(t) \/ SpuriousWakeup(t) PROVE ItemsConserved'
  BY <1>1, SameBuffer DEF IInv, Step, Lock, Test, Wake, Signal, Unlock, SpuriousWakeup
<1>2. CASE Join
  BY <1>2 DEF Join, ItemsConserved, InBuffer
<1>3. CASE UNCHANGED vars
  BY <1>3, SameBuffer DEF IInv, vars
<1> QED
  BY <1>1, <1>2, <1>3, InsertConserves, RemoveConserves DEF Next

LEMMA StepInv == IInv /\ [Next]_vars => IInv'
  BY StepType, StepKnows, StepMutex, StepWakeup, StepItems DEF IInv

\* The ranges: in particular common_area.buff is only indexed inside its
\* BUFFER_SIZE slots.
THEOREM TypeCorrect == Spec => []TypeOK
<1>1. IInv => TypeOK
  BY DEF IInv
<1> QED
  BY InitInv, StepInv, <1>1, PTL DEF Spec

\* The threads touch common_area one at a time.
THEOREM MutexHolds == Spec => []MutualExclusion
<1>1. IInv => MutualExclusion
  BY DEF IInv
<1> QED
  BY InitInv, StepInv, <1>1, PTL DEF Spec

\* Each inserted item is in the buffer or consumed, exactly once.
THEOREM NothingLost == Spec => []ItemsConserved
<1>1. IInv => ItemsConserved
  BY DEF IInv
<1> QED
  BY InitInv, StepInv, <1>1, PTL DEF Spec

\* Signalling at two counts only is enough for one producer and one consumer.
THEOREM SignalsSuffice == Spec => []NoLostWakeup
<1>1. IInv => NoLostWakeup
  BY DEF IInv
<1> QED
  BY InitInv, StepInv, <1>1, PTL DEF Spec
=============================================================================
