------------------------- MODULE ServiceLocksProofs -------------------------
(***************************************************************************)
(* Proofs about ServiceLocks, for any callers, runs, repositories and      *)
(* number of slots: the promise-tail locks exclude, and the executor slots *)
(* are bounded and lose no wake-up.                                        *)
(***************************************************************************)
EXTENDS ServiceLocks, FiniteSetTheorems, SequenceTheorems, TLAPS

\* The names of the three kinds of locks differ.
LEMMA LockKinds ==
  ASSUME NEW c \in Callers
  PROVE  /\ Outcome(c) \in Locks
         /\ Checkpoint(c) \in Locks
         /\ Merge(c) \in Locks
         /\ Outcome(c) # Checkpoint(c)
         /\ Outcome(c) # Merge(c)
         /\ Checkpoint(c) # Merge(c)
BY DEF Outcome, Checkpoint, Merge, Locks

-----------------------------------------------------------------------------
(* The executor slots. *)

SlotStage == {"start", "parked", "woken", "executing"}

\* active counts the executing claims; the waiters are the parked callers,
\* each once; as long as somebody waits, every slot is used or somebody is
\* awake to take it; and nobody who still waits or executes has a lock.
SlotInv ==
  /\ active = Cardinality(Executing)
  /\ active <= MaxExecutorProcesses
  /\ \A i \in 1 .. Len(waiters) : stage[waiters[i]] = "parked"
  /\ \A i, j \in 1 .. Len(waiters) : waiters[i] = waiters[j] => i = j
  /\ waiters # <<>> => active + Cardinality(Woken) >= MaxExecutorProcesses
  /\ \A c \in Callers : stage[c] \in SlotStage =>
                           c \in Claims /\ held[c] = {} /\ wants[c] = NoLock

\* The claims that execute, and those that were woken, are finitely many.
LEMMA FiniteParts ==
  /\ IsFiniteSet(Executing) /\ Cardinality(Executing) \in Nat
  /\ IsFiniteSet(Woken) /\ Cardinality(Woken) \in Nat
<1>1. Executing \subseteq Claims /\ Woken \subseteq Claims
  BY DEF Executing, Woken
<1>2. IsFiniteSet(Executing) /\ IsFiniteSet(Woken)
  BY <1>1, CallersAssumption, FS_Subset
<1> QED BY <1>2, FS_CardinalityType

\* A slot that is given back was counted.
LEMMA SlotCounted ==
  ASSUME SlotInv, NEW c \in Callers, stage[c] = "executing"
  PROVE  active \in Nat /\ active >= 1
<1>1. c \in Executing
  BY DEF SlotInv, SlotStage, Executing
<1>2. Cardinality(Executing) # 0
  BY <1>1, FiniteParts, FS_EmptySet
<1> QED BY <1>2, FiniteParts DEF SlotInv

\* The slots survive every step.
LEMMA SlotStep == TypeOK /\ SlotInv /\ [Next]_vars => SlotInv'
<1> SUFFICES ASSUME TypeOK, SlotInv, [Next]_vars PROVE SlotInv'
  OBVIOUS
<1> USE SlotsAssumption
<1>1. ASSUME UNCHANGED <<active, waiters>>,
             \A c \in Claims : /\ stage'[c] = "executing" <=> stage[c] = "executing"
                               /\ stage'[c] = "woken" <=> stage[c] = "woken"
                               /\ stage'[c] = "parked" <=> stage[c] = "parked",
             \A c \in Callers : stage'[c] \in SlotStage =>
                 c \in Claims /\ held'[c] = {} /\ wants'[c] = NoLock
      PROVE  SlotInv'
  <2>1. Executing' = Executing /\ Woken' = Woken
    BY <1>1 DEF Executing, Woken
  <2>2. \A i \in 1 .. Len(waiters) : waiters[i] \in Claims
    BY DEF TypeOK
  <2> QED BY <1>1, <2>1, <2>2 DEF SlotInv, Callers
<1>2. ASSUME NEW c \in Callers, TakeSlot(c)
      PROVE  SlotInv'
  <2>1. c \in Claims
    BY <1>2 DEF SlotInv, SlotStage, TakeSlot
  <2>2. Executing' = Executing \cup {c} /\ c \notin Executing
    BY <1>2, <2>1 DEF TypeOK, TakeSlot, Goes, Executing, Callers
  <2>3. Cardinality(Executing') = Cardinality(Executing) + 1
    BY <2>2, FiniteParts, FS_AddElement
  <2>4. Woken' = Woken \ {c}
    BY <1>2, <2>1 DEF TypeOK, TakeSlot, Goes, Woken, Callers
  <2>5. Cardinality(Woken') >= Cardinality(Woken) - 1
    <3>1. c \in Woken => Cardinality(Woken') = Cardinality(Woken) - 1
      BY <2>4, FiniteParts, FS_RemoveElement
    <3>2. c \notin Woken => Woken' = Woken
      BY <2>4
    <3> QED BY <3>1, <3>2, FiniteParts
  <2>6. Cardinality(Woken') \in Nat
    BY <2>4, FiniteParts, FS_Subset, FS_CardinalityType
  <2>7. \A i \in 1 .. Len(waiters) : waiters[i] # c
    BY <1>2 DEF SlotInv, TakeSlot
  <2>8. \A i \in 1 .. Len(waiters) : stage'[waiters[i]] = "parked"
    BY <1>2, <2>7 DEF SlotInv, TypeOK, TakeSlot, Goes, Callers
  <2>9. \A d \in Callers : stage'[d] \in SlotStage =>
          d \in Claims /\ held'[d] = {} /\ wants'[d] = NoLock
    BY <1>2, <2>1 DEF SlotInv, SlotStage, TypeOK, TakeSlot, Goes, tails
  <2> QED
    BY <1>2, <2>3, <2>5, <2>6, <2>8, <2>9, FiniteParts
       DEF SlotInv, TypeOK, TakeSlot, SlotFree
<1>3. ASSUME NEW c \in Callers, Park(c)
      PROVE  SlotInv'
  <2>1. c \in Claims
    BY <1>3 DEF SlotInv, SlotStage, Park
  <2>2. Executing' = Executing
    BY <1>3, <2>1 DEF TypeOK, Park, Goes, Executing, Callers
  <2>3. active >= MaxExecutorProcesses /\ active' = active
    BY <1>3 DEF Park, SlotFree, TypeOK
  <2>4. Cardinality(Woken') \in Nat
    <3>1. Woken' \subseteq Claims
      BY DEF Woken
    <3> QED BY <3>1, CallersAssumption, FS_Subset, FS_CardinalityType
  <2>5. /\ Len(waiters') = Len(waiters) + 1
        /\ \A i \in 1 .. Len(waiters) : waiters'[i] = waiters[i]
        /\ waiters'[Len(waiters) + 1] = c
    BY <1>3 DEF Park, TypeOK
  <2>6. \A i \in 1 .. Len(waiters) : waiters[i] # c
    BY <1>3 DEF SlotInv, Park
  <2>7. \A i \in 1 .. Len(waiters') : stage'[waiters'[i]] = "parked"
    BY <1>3, <2>5, <2>6 DEF SlotInv, TypeOK, Park, Goes, Callers
  <2>8. \A i, j \in 1 .. Len(waiters') : waiters'[i] = waiters'[j] => i = j
    BY <2>5, <2>6 DEF SlotInv, TypeOK
  <2>9. \A d \in Callers : stage'[d] \in SlotStage =>
          d \in Claims /\ held'[d] = {} /\ wants'[d] = NoLock
    BY <1>3, <2>1 DEF SlotInv, SlotStage, TypeOK, Park, Goes, tails
  <2> QED
    BY <2>2, <2>3, <2>4, <2>7, <2>8, <2>9 DEF SlotInv, TypeOK
<1>4. ASSUME NEW c \in Callers, ReleaseSlot(c)
      PROVE  SlotInv'
  <2>1. c \in Claims /\ c \in Executing
    BY <1>4 DEF SlotInv, SlotStage, ReleaseSlot, Executing
  <2>2. Cardinality(Executing \ {c}) = Cardinality(Executing) - 1
    BY <2>1, FiniteParts, FS_RemoveElement
  <2>3. active \in Nat /\ active >= 1
    BY <1>4, SlotCounted DEF ReleaseSlot
  <2>4. \A i \in 1 .. Len(waiters) : waiters[i] # c
    BY <1>4 DEF SlotInv, ReleaseSlot
  <2>5. PICK s \in {"ran", "done"} :
          IF waiters # <<>>
          THEN /\ waiters' = Tail(waiters)
               /\ stage' = [stage EXCEPT ![c] = s, ![Head(waiters)] = "woken"]
          ELSE Goes(c, s) /\ UNCHANGED waiters
    BY <1>4 DEF ReleaseSlot, Wakes
  <2>6. active' = active - 1
    BY <1>4 DEF ReleaseSlot, Freed
  <2>7. CASE waiters = <<>>
    <3>1. stage' = [stage EXCEPT ![c] = s] /\ waiters' = <<>>
      BY <2>5, <2>7 DEF Goes
    <3>2. Executing' = Executing \ {c}
      BY <2>1, <3>1 DEF TypeOK, Executing, Callers
    <3>3. \A d \in Callers : stage'[d] \in SlotStage =>
            d \in Claims /\ held'[d] = {} /\ wants'[d] = NoLock
      BY <1>4, <2>1, <3>1 DEF SlotInv, SlotStage, TypeOK, ReleaseSlot, tails
    <3> QED BY <2>2, <2>3, <2>6, <3>1, <3>2, <3>3 DEF SlotInv
  <2>8. CASE waiters # <<>>
    <3> DEFINE w == waiters[1]
    <3>1. /\ w = Head(waiters) /\ w \in Claims /\ stage[w] = "parked" /\ w # c
          /\ Len(waiters) \in Nat \ {0}
      BY <2>4, <2>8 DEF SlotInv, TypeOK
    <3>2. /\ stage' = [stage EXCEPT ![c] = s, ![w] = "woken"]
          /\ waiters' = Tail(waiters)
      BY <2>5, <2>8, <3>1
    <3> HIDE DEF w
    <3>3. Executing' = Executing \ {c}
      BY <2>1, <3>1, <3>2 DEF TypeOK, Executing, Callers
    <3>4. Woken' = Woken \cup {w} /\ w \notin Woken
      BY <2>1, <3>1, <3>2 DEF TypeOK, Executing, Woken, Callers
    <3>5. Cardinality(Woken') = Cardinality(Woken) + 1
      BY <3>4, FiniteParts, FS_AddElement
    <3>6. /\ Len(waiters') = Len(waiters) - 1
          /\ \A i \in 1 .. Len(waiters') : waiters'[i] = waiters[i + 1]
      BY <2>8, <3>1, <3>2 DEF TypeOK
    <3>7. \A i \in 1 .. Len(waiters') : waiters'[i] # w /\ waiters'[i] # c
      BY <2>4, <3>1, <3>6 DEF SlotInv, TypeOK, w
    <3>8. \A i \in 1 .. Len(waiters') : stage'[waiters'[i]] = "parked"
      BY <3>1, <3>2, <3>6, <3>7 DEF SlotInv, TypeOK, Callers
    <3>9. \A i, j \in 1 .. Len(waiters') : waiters'[i] = waiters'[j] => i = j
      BY <3>1, <3>6 DEF SlotInv, TypeOK
    <3>10. \A d \in Callers : stage'[d] \in SlotStage =>
             d \in Claims /\ held'[d] = {} /\ wants'[d] = NoLock
      BY <1>4, <2>1, <3>1, <3>2
         DEF SlotInv, SlotStage, TypeOK, ReleaseSlot, tails
    <3> QED
      BY <2>2, <2>3, <2>6, <2>8, <3>3, <3>5, <3>8, <3>9, <3>10, FiniteParts
         DEF SlotInv
  <2> QED BY <2>7, <2>8
<1>5. ASSUME NEW c \in Callers, NEW l \in Locks, NEW s \in Stage \ SlotStage,
             Leave(c, l, s)
      PROVE  SlotInv'
  <2>1. UNCHANGED <<active, waiters>> /\ stage' = [stage EXCEPT ![c] = s]
    BY <1>5 DEF Leave, Goes, slots
  <2>2. stage[c] \notin SlotStage
    BY <1>5 DEF Leave, SlotInv
  <2>3. \A d \in Claims : /\ stage'[d] = "executing" <=> stage[d] = "executing"
                          /\ stage'[d] = "woken" <=> stage[d] = "woken"
                          /\ stage'[d] = "parked" <=> stage[d] = "parked"
    BY <2>1, <2>2 DEF TypeOK, Callers, SlotStage
  <2>4. \A d \in Callers : stage'[d] \in SlotStage =>
          d \in Claims /\ held'[d] = {} /\ wants'[d] = NoLock
    BY <1>5, <2>1, <2>2 DEF TypeOK, SlotInv, Leave
  <2> QED BY <1>1, <2>1, <2>3, <2>4
<1>6. ASSUME UNCHANGED <<active, waiters, stage>>,
             NEW c \in Callers, stage[c] \notin SlotStage,
             \A d \in Callers \ {c} : held'[d] = held[d] /\ wants'[d] = wants[d]
      PROVE  SlotInv'
  BY <1>1, <1>6 DEF SlotInv
<1>7. ASSUME NEW c \in Callers, NEW l \in Locks, stage[c] \notin SlotStage,
             Join(c, l)
      PROVE  SlotInv'
  BY <1>6, <1>7 DEF Join, TypeOK, slots
<1>8. ASSUME NEW c \in Callers, Enter(c)
      PROVE  SlotInv'
  <2>1. stage[c] \notin SlotStage
    BY <1>8 DEF Enter, SlotInv
  <2> QED BY <1>6, <1>8, <2>1 DEF Enter, TypeOK, slots
<1>9. CASE UNCHANGED vars
  BY <1>9, <1>1 DEF vars, slots, tails, SlotInv
<1>10. ASSUME NEW c \in Callers, LeaveMerge(c)
       PROVE  SlotInv'
  BY <1>5, <1>10, LockKinds DEF LeaveMerge, Stage, SlotStage
<1>11. ASSUME NEW c \in Callers, LeaveCheckpoint(c)
       PROVE  SlotInv'
  <2>1. PICK s \in Stage \ SlotStage : Leave(c, Checkpoint(c), s)
    BY <1>11 DEF LeaveCheckpoint, Stage, SlotStage
  <2> QED BY <1>5, <2>1, LockKinds
<1>12. ASSUME NEW c \in Callers, LeaveOutcome(c)
       PROVE  SlotInv'
  BY <1>5, <1>12, LockKinds DEF LeaveOutcome, Stage, SlotStage
<1>13. ASSUME NEW c \in Callers,
              \/ JoinOutcome(c)
              \/ JoinCheckpoint(c)
              \/ JoinMerge(c)
              \/ JoinSettleMerge(c)
       PROVE  SlotInv'
  BY <1>7, <1>13, LockKinds
     DEF JoinOutcome, JoinCheckpoint, JoinMerge, JoinSettleMerge, SlotStage
<1> QED
  BY <1>2, <1>3, <1>4, <1>8, <1>9, <1>10, <1>11, <1>12, <1>13 DEF Next, Step

-----------------------------------------------------------------------------
(* Every map of promise tails hides a queue. *)

\* q is the queue of the lock l: its members are those who hold l or want it,
\* each in one place, the tail of the lock is its last member, only the first
\* holds l, and every member that waits awaits the one before it.
IsQueue(l, q) ==
  /\ q \in Seq(Callers)
  /\ \A i, j \in 1 .. Len(q) : q[i] = q[j] => i = j
  /\ \A c \in Callers :
       (l \in held[c] \/ wants[c] = l) <=> \E i \in 1 .. Len(q) : q[i] = c
  /\ tail[l] = IF q = <<>> THEN Nobody ELSE q[Len(q)]
  /\ \A i \in 1 .. Len(q) : l \in held[q[i]] => i = 1
  /\ \A i \in 1 .. Len(q) :
       wants[q[i]] = l => behind[q[i]] = IF i = 1 THEN Nobody ELSE q[i - 1]

LockInv == \A l \in Locks : \E q : IsQueue(l, q)

-----------------------------------------------------------------------------
(* Types. *)

\* Queueing for a lock keeps the types.
LEMMA JoinTypes ==
  ASSUME TypeOK, NEW c \in Callers, NEW l \in Locks, Join(c, l)
  PROVE  TypeOK'
BY DEF TypeOK, Join, slots

\* Leaving a lock keeps the types.
LEMMA LeaveTypes ==
  ASSUME TypeOK, NEW c \in Callers, NEW l \in Locks, NEW s \in Stage,
         Leave(c, l, s)
  PROVE  TypeOK'
BY DEF TypeOK, Leave, TailAfter, BehindAfter, Goes, slots

\* Every state of ServiceLocks is well typed; active is a number, also after
\* every release (service.ts:2652).
LEMMA TypeStep == SlotInv /\ TypeOK /\ [Next]_vars => TypeOK'
<1> SUFFICES ASSUME SlotInv, TypeOK, [Next]_vars PROVE TypeOK'
  OBVIOUS
<1> USE LockKinds
<1>1. CASE UNCHANGED vars
  BY <1>1 DEF TypeOK, vars, slots, tails
<1>2. ASSUME NEW c \in Callers, TakeSlot(c)
      PROVE  TypeOK'
  BY <1>2 DEF TypeOK, TakeSlot, Goes, tails, Stage
<1>3. ASSUME NEW c \in Callers, Park(c)
      PROVE  TypeOK'
  <2>1. c \in Claims
    BY <1>3 DEF SlotInv, SlotStage, Park
  <2>2. waiters' \in Seq(Claims)
    BY <1>3, <2>1 DEF TypeOK, Park
  <2>3. stage' \in [Callers -> Stage]
    BY <1>3 DEF TypeOK, Park, Goes, Stage
  <2> QED BY <1>3, <2>2, <2>3 DEF TypeOK, Park, tails
<1>4. ASSUME NEW c \in Callers, ReleaseSlot(c)
      PROVE  TypeOK'
  <2>1. active' \in Nat
    BY <1>4, SlotCounted DEF TypeOK, ReleaseSlot, Freed
  <2>2. waiters' \in Seq(Claims)
    <3>1. UNCHANGED waiters \/ (waiters # <<>> /\ waiters' = Tail(waiters))
      BY <1>4 DEF ReleaseSlot, Wakes
    <3> QED BY <3>1, HeadTailProperties DEF TypeOK
  <2>3. stage' \in [Callers -> Stage]
    BY <1>4 DEF TypeOK, ReleaseSlot, Wakes, Goes, Stage
  <2> QED BY <1>4, <2>1, <2>2, <2>3 DEF TypeOK, ReleaseSlot, tails
<1>5. ASSUME NEW c \in Callers, Enter(c)
      PROVE  TypeOK'
  BY <1>5 DEF TypeOK, Enter, slots
<1>6. ASSUME NEW c \in Callers, LeaveMerge(c)
      PROVE  TypeOK'
  BY <1>6, LeaveTypes DEF LeaveMerge, Stage
<1>7. ASSUME NEW c \in Callers, LeaveCheckpoint(c)
      PROVE  TypeOK'
  <2>1. PICK s \in Stage : Leave(c, Checkpoint(c), s)
    BY <1>7 DEF LeaveCheckpoint, Stage
  <2> QED BY <2>1, LeaveTypes
<1>8. ASSUME NEW c \in Callers, LeaveOutcome(c)
      PROVE  TypeOK'
  BY <1>8, LeaveTypes DEF LeaveOutcome, Stage
<1> QED
  BY <1>1, <1>2, <1>3, <1>4, <1>5, <1>6, <1>7, <1>8, JoinTypes
     DEF Next, Step, JoinOutcome, JoinCheckpoint, JoinMerge, JoinSettleMerge

-----------------------------------------------------------------------------
(* The queues survive every step. *)

\* A caller that joins goes to the end of the queue.
LEMMA JoinQueues ==
  ASSUME TypeOK, LockInv, NEW c \in Callers, NEW l \in Locks,
         l \notin held[c], Join(c, l)
  PROVE  LockInv'
<1> SUFFICES ASSUME NEW k \in Locks PROVE \E q : IsQueue(k, q)'
  BY DEF LockInv
<1>1. PICK q : IsQueue(k, q)
  BY DEF LockInv
<1>2. CASE k # l
  <2>1. IsQueue(k, q)'
    BY <1>1, <1>2, LocksAssumption DEF IsQueue, Join, TypeOK
  <2> QED BY <2>1
<1>3. CASE k = l
  <2> DEFINE p == Append(q, c)
  <2>1. /\ q \in Seq(Callers) /\ p \in Seq(Callers)
        /\ Len(p) = Len(q) + 1 /\ Len(q) \in Nat
        /\ \A i \in 1 .. Len(q) : p[i] = q[i]
        /\ p[Len(q) + 1] = c
    BY <1>1 DEF IsQueue
  <2>2. \A i \in 1 .. Len(q) : q[i] # c
    BY <1>1, <1>3, LocksAssumption DEF IsQueue, Join
  <2>3. \A i, j \in 1 .. Len(p) : p[i] = p[j] => i = j
    BY <1>1, <2>1, <2>2 DEF IsQueue
  <2>4. /\ wants' = [wants EXCEPT ![c] = k]
        /\ behind' = [behind EXCEPT ![c] = tail[k]]
        /\ tail' = [tail EXCEPT ![k] = c]
        /\ held' = held
    BY <1>3 DEF Join
  <2>5. \A d \in Callers :
          (k \in held'[d] \/ wants'[d] = k) <=> \E i \in 1 .. Len(p) : p[i] = d
    BY <1>1, <2>1, <2>4 DEF IsQueue, TypeOK
  <2>6. tail'[k] = p[Len(p)] /\ p # <<>>
    BY <2>1, <2>4 DEF TypeOK
  <2>7. \A i \in 1 .. Len(p) : k \in held'[p[i]] => i = 1
    BY <1>1, <1>3, <2>1, <2>4 DEF IsQueue
  <2>8. \A i \in 1 .. Len(p) : wants'[p[i]] = k =>
          behind'[p[i]] = IF i = 1 THEN Nobody ELSE p[i - 1]
    <3> SUFFICES ASSUME NEW i \in 1 .. Len(p), wants'[p[i]] = k
                 PROVE  behind'[p[i]] = IF i = 1 THEN Nobody ELSE p[i - 1]
      OBVIOUS
    <3>1. CASE i = Len(q) + 1
      <4>1. behind'[p[i]] = tail[k]
        BY <2>1, <2>4, <3>1 DEF TypeOK
      <4>2. tail[k] = IF q = <<>> THEN Nobody ELSE q[Len(q)]
        BY <1>1 DEF IsQueue
      <4>3. q = <<>> <=> Len(q) = 0
        BY <2>1
      <4> QED BY <2>1, <3>1, <4>1, <4>2, <4>3
    <3>2. CASE i \in 1 .. Len(q)
      <4>1. p[i] = q[i] /\ q[i] # c /\ q[i] \in Callers
        BY <2>1, <2>2, <3>2
      <4>2. wants[q[i]] = k /\ behind'[p[i]] = behind[q[i]]
        BY <2>4, <4>1 DEF TypeOK
      <4>3. i # 1 => p[i - 1] = q[i - 1]
        BY <2>1, <3>2
      <4> QED BY <1>1, <3>2, <4>2, <4>3 DEF IsQueue
    <3> QED BY <2>1, <3>1, <3>2
  <2> HIDE DEF p
  <2>9. IsQueue(k, p)'
    BY <2>1, <2>3, <2>5, <2>6, <2>7, <2>8 DEF IsQueue
  <2> QED BY <2>9
<1> QED BY <1>2, <1>3

\* Only the head of the queue enters, and it stays the head.
LEMMA EnterQueues ==
  ASSUME TypeOK, LockInv, NEW c \in Callers, Enter(c)
  PROVE  LockInv'
<1> SUFFICES ASSUME NEW k \in Locks PROVE \E q : IsQueue(k, q)'
  BY DEF LockInv
<1>1. PICK q : IsQueue(k, q)
  BY DEF LockInv
<1>2. /\ q \in Seq(Callers) /\ Len(q) \in Nat
      /\ \A i \in 1 .. Len(q) : q[i] \in Callers
  BY <1>1 DEF IsQueue
<1>3. \A i \in 1 .. Len(q) : q[i] = c /\ wants[c] = k => i = 1
  BY <1>1, <1>2, CallersAssumption DEF IsQueue, Enter
<1>4. \A d \in Callers :
        (k \in held'[d] \/ wants'[d] = k) <=> (k \in held[d] \/ wants[d] = k)
  BY LocksAssumption DEF Enter, TypeOK
<1>5. \A i \in 1 .. Len(q) : k \in held'[q[i]] => i = 1
  BY <1>1, <1>2, <1>3 DEF IsQueue, Enter, TypeOK
<1>6. \A i \in 1 .. Len(q) :
        wants'[q[i]] = k => wants[q[i]] = k /\ behind'[q[i]] = behind[q[i]]
  BY <1>2, LocksAssumption DEF Enter, TypeOK
<1>7. IsQueue(k, q)'
  BY <1>1, <1>4, <1>5, <1>6 DEF IsQueue, Enter
<1> QED BY <1>7

\* When the head leaves, the rest is the queue.
LEMMA LeaveQueues ==
  ASSUME TypeOK, LockInv, NEW c \in Callers, NEW l \in Locks, NEW s,
         Leave(c, l, s)
  PROVE  LockInv'
<1> SUFFICES ASSUME NEW k \in Locks PROVE \E q : IsQueue(k, q)'
  BY DEF LockInv
<1>1. PICK q : IsQueue(k, q)
  BY DEF LockInv
<1>2. /\ q \in Seq(Callers) /\ Len(q) \in Nat
      /\ \A i \in 1 .. Len(q) : q[i] \in Callers
  BY <1>1 DEF IsQueue
<1>3. /\ held' = [held EXCEPT ![c] = @ \ {l}]
      /\ tail' = [tail EXCEPT ![l] = IF tail[l] = c THEN Nobody ELSE tail[l]]
      /\ behind' = [d \in Callers |-> IF wants[d] = l /\ behind[d] = c
                                      THEN Nobody ELSE behind[d]]
      /\ wants' = wants
  BY DEF Leave, TailAfter, BehindAfter
<1>4. CASE k # l
  <2>1. \A d \in Callers : k \in held'[d] <=> k \in held[d]
    BY <1>3, <1>4 DEF TypeOK
  <2>2. \A d \in Callers : wants[d] = k => behind'[d] = behind[d]
    BY <1>3, <1>4
  <2>3. tail'[k] = tail[k]
    BY <1>3, <1>4 DEF TypeOK
  <2>4. IsQueue(k, q)'
    BY <1>1, <1>2, <1>3, <2>1, <2>2, <2>3 DEF IsQueue
  <2> QED BY <2>4
<1>5. CASE k = l
  <2> DEFINE p == Tail(q)
  <2>1. q # <<>> /\ q[1] = c /\ Len(q) >= 1
    <3>1. PICK i \in 1 .. Len(q) : q[i] = c
      BY <1>1, <1>5 DEF IsQueue, Leave
    <3>2. i = 1
      BY <1>1, <1>5, <3>1 DEF IsQueue, Leave
    <3> QED BY <1>2, <3>1, <3>2
  <2>2. /\ p \in Seq(Callers) /\ Len(p) = Len(q) - 1
        /\ \A i \in 1 .. Len(p) : p[i] = q[i + 1] /\ p[i] \in Callers
    BY <1>2, <2>1, HeadTailProperties
  <2>3. \A i \in 1 .. Len(p) : p[i] # c
    BY <1>1, <1>2, <2>1, <2>2 DEF IsQueue
  <2> HIDE DEF p
  <2>4. \A i, j \in 1 .. Len(p) : p[i] = p[j] => i = j
    <3> SUFFICES ASSUME NEW i \in 1 .. Len(p), NEW j \in 1 .. Len(p),
                        p[i] = p[j]
                 PROVE  i = j
      OBVIOUS
    <3>1. i + 1 \in 1 .. Len(q) /\ j + 1 \in 1 .. Len(q)
      BY <1>2, <2>2
    <3>2. q[i + 1] = q[j + 1]
      BY <2>2
    <3>3. i + 1 = j + 1
      BY <1>1, <3>1, <3>2 DEF IsQueue
    <3> QED BY <3>3
  <2>5. \A d \in Callers :
          (k \in held'[d] \/ wants'[d] = k) <=> \E i \in 1 .. Len(p) : p[i] = d
    <3> SUFFICES ASSUME NEW d \in Callers
                 PROVE  (k \in held'[d] \/ wants'[d] = k)
                          <=> \E i \in 1 .. Len(p) : p[i] = d
      OBVIOUS
    <3>1. CASE d = c
      BY <1>3, <1>5, <2>3, <3>1, LocksAssumption DEF Leave, TypeOK
    <3>2. CASE d # c
      <4>1. (k \in held'[d] \/ wants'[d] = k)
              <=> \E i \in 1 .. Len(q) : q[i] = d
        BY <1>1, <1>3, <3>2 DEF IsQueue, TypeOK
      <4>2. ASSUME NEW i \in 1 .. Len(q), q[i] = d
            PROVE  \E j \in 1 .. Len(p) : p[j] = d
        <5>1. i # 1
          BY <2>1, <3>2, <4>2
        <5>2. i - 1 \in 1 .. Len(p) /\ p[i - 1] = q[i]
          BY <1>2, <2>2, <5>1
        <5> QED BY <4>2, <5>2
      <4>3. ASSUME NEW j \in 1 .. Len(p), p[j] = d
            PROVE  \E i \in 1 .. Len(q) : q[i] = d
        <5>1. j + 1 \in 1 .. Len(q) /\ q[j + 1] = d
          BY <1>2, <2>2, <4>3
        <5> QED BY <5>1
      <4> QED BY <4>1, <4>2, <4>3
    <3> QED BY <3>1, <3>2
  <2>6. tail'[k] = IF p = <<>> THEN Nobody ELSE p[Len(p)]
    <3>1. tail[k] = q[Len(q)]
      BY <1>1, <2>1 DEF IsQueue
    <3>2. CASE Len(q) = 1
      BY <1>2, <1>3, <1>5, <2>1, <2>2, <3>1, <3>2 DEF TypeOK
    <3>3. CASE Len(q) # 1
      <4>1. Len(p) \in 1 .. Len(p) /\ p # <<>> /\ p[Len(p)] = q[Len(q)]
        BY <1>2, <2>1, <2>2, <3>3
      <4>2. q[Len(q)] # c
        BY <2>3, <4>1
      <4> QED BY <1>3, <1>5, <3>1, <4>1, <4>2 DEF TypeOK
    <3> QED BY <3>2, <3>3
  <2>7. \A i \in 1 .. Len(p) : k \notin held'[p[i]]
    <3> SUFFICES ASSUME NEW i \in 1 .. Len(p), k \in held'[p[i]]
                 PROVE  FALSE
      OBVIOUS
    <3>1. i + 1 \in 1 .. Len(q) /\ k \in held[q[i + 1]]
      BY <1>2, <1>3, <2>2, <2>3 DEF TypeOK
    <3>2. i + 1 = 1
      BY <1>1, <3>1 DEF IsQueue
    <3> QED BY <3>2
  <2>8. \A i \in 1 .. Len(p) : wants'[p[i]] = k =>
          behind'[p[i]] = IF i = 1 THEN Nobody ELSE p[i - 1]
    <3> SUFFICES ASSUME NEW i \in 1 .. Len(p), wants'[p[i]] = k
                 PROVE  behind'[p[i]] = IF i = 1 THEN Nobody ELSE p[i - 1]
      OBVIOUS
    <3>1. i + 1 \in 1 .. Len(q) /\ p[i] = q[i + 1] /\ i + 1 # 1
      BY <1>2, <2>2
    <3>2. behind[p[i]] = q[i]
      <4>1. behind[q[i + 1]] = q[(i + 1) - 1]
        BY <1>1, <1>3, <3>1 DEF IsQueue
      <4> QED BY <3>1, <4>1
    <3>3. CASE i = 1
      BY <1>3, <1>5, <2>1, <2>2, <3>2, <3>3
    <3>4. CASE i # 1
      <4>1. i - 1 \in 1 .. Len(p) /\ p[i - 1] = q[i] /\ q[i] # c
        BY <2>2, <2>3, <3>4
      <4> QED BY <1>3, <2>2, <3>2, <3>4, <4>1
    <3> QED BY <3>3, <3>4
  <2>9. IsQueue(k, p)'
    BY <2>2, <2>4, <2>5, <2>6, <2>7, <2>8 DEF IsQueue
  <2> QED BY <2>9
<1> QED BY <1>4, <1>5

\* Every step keeps the queues of all locks.
LEMMA QueueStep == TypeOK /\ LockInv /\ [Next]_vars => LockInv'
<1> SUFFICES ASSUME TypeOK, LockInv, [Next]_vars PROVE LockInv'
  OBVIOUS
<1>1. CASE UNCHANGED tails
  BY <1>1 DEF LockInv, IsQueue, tails
<1>2. ASSUME NEW c \in Callers,
             \/ JoinOutcome(c)
             \/ JoinCheckpoint(c)
             \/ JoinMerge(c)
             \/ JoinSettleMerge(c)
      PROVE  LockInv'
  <2>1. CASE JoinOutcome(c)
    BY <2>1, JoinQueues, LockKinds DEF JoinOutcome
  <2>2. CASE JoinCheckpoint(c)
    BY <2>2, JoinQueues, LockKinds DEF JoinCheckpoint
  <2>3. CASE JoinMerge(c)
    BY <2>3, JoinQueues, LockKinds DEF JoinMerge
  <2>4. CASE JoinSettleMerge(c)
    BY <2>4, JoinQueues, LockKinds DEF JoinSettleMerge
  <2> QED BY <1>2, <2>1, <2>2, <2>3, <2>4
<1>3. ASSUME NEW c \in Callers,
             \/ LeaveMerge(c)
             \/ LeaveCheckpoint(c)
             \/ LeaveOutcome(c)
      PROVE  LockInv'
  <2>1. CASE LeaveMerge(c)
    BY <2>1, LeaveQueues, LockKinds DEF LeaveMerge
  <2>2. CASE LeaveCheckpoint(c)
    <3>1. PICK s : Leave(c, Checkpoint(c), s)
      BY <2>2 DEF LeaveCheckpoint
    <3> QED BY <3>1, LeaveQueues, LockKinds
  <2>3. CASE LeaveOutcome(c)
    BY <2>3, LeaveQueues, LockKinds DEF LeaveOutcome
  <2> QED BY <1>3, <2>1, <2>2, <2>3
<1> QED
  BY <1>1, <1>2, <1>3, EnterQueues
     DEF Next, Step, TakeSlot, Park, ReleaseSlot, vars

-----------------------------------------------------------------------------
(* The theorems. *)

Inductive == TypeOK /\ SlotInv /\ LockInv

\* The inductive invariant: types, the slots and their waiters, and that the
\* tails of every lock hide one queue of callers.
THEOREM Invariance == Spec => []Inductive
<1>1. Init => Inductive
  <2> SUFFICES ASSUME Init PROVE Inductive
    OBVIOUS
  <2>1. TypeOK
    BY DEF Init, TypeOK, Stage, Callers
  <2>2. SlotInv
    <3>1. Executing = {}
      BY DEF Init, Executing, Callers
    <3>2. Cardinality(Executing) = 0
      BY <3>1, FS_EmptySet
    <3> QED
      BY <3>2, SlotsAssumption, CallersAssumption
         DEF Init, SlotInv, SlotStage, Callers
  <2>3. ASSUME NEW l \in Locks
        PROVE  IsQueue(l, <<>>)
    BY LocksAssumption DEF Init, IsQueue
  <2> QED BY <2>1, <2>2, <2>3 DEF Inductive, LockInv
<1>2. Inductive /\ [Next]_vars => Inductive'
  BY TypeStep, SlotStep, QueueStep DEF Inductive
<1> QED BY <1>1, <1>2, PTL DEF Spec

\* No more than maxExecutorProcesses claims execute over all runs, whoever
\* finds a slot first (service.ts:2641).
THEOREM SlotsAreBounded == Spec => []SlotsBounded
<1>1. Inductive => SlotsBounded
  BY DEF Inductive, SlotInv, SlotsBounded
<1> QED BY <1>1, Invariance, PTL

\* A caller suspended in executorWaiters is never forgotten: every slot is in
\* use, or somebody is awake to take a free one (service.ts:2652-2654).
THEOREM WakeupsAreKept == Spec => []NoLostWakeup
<1>1. Inductive => NoLostWakeup
  BY DEF Inductive, SlotInv, NoLostWakeup
<1> QED BY <1>1, Invariance, PTL

\* The maps of promise tails are mutual exclusion: for every run and every
\* repository at most one caller is inside (service.ts:1841, 2599, 2621).
THEOREM LocksAreExclusive == Spec => []LocksExclude
<1>1. TypeOK /\ LockInv => LocksExclude
  <2> SUFFICES ASSUME TypeOK, LockInv, NEW c \in Callers, NEW d \in Callers,
                      NEW l \in held[c] \cap held[d]
               PROVE  c = d
    BY DEF LocksExclude
  <2>1. l \in Locks
    BY DEF TypeOK
  <2>2. PICK q : IsQueue(l, q)
    BY <2>1 DEF LockInv
  <2> QED BY <2>2 DEF IsQueue
<1> QED BY <1>1, Invariance, PTL DEF Inductive

=============================================================================
