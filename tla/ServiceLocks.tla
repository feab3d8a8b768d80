---------------------------- MODULE ServiceLocks ----------------------------
(***************************************************************************)
(* The queues of TaskFlowService that all runs share: the executor slots   *)
(* (withExecutorSlot) and the promise-tail locks (withOutcomeLock and      *)
(* withCheckpointLock per run, withMergeLock per repository), as claims of *)
(* wave loops and clients of POST /exec-result go through them.            *)
(*                                                                         *)
(* A step is what runs between two awaits.  What a caller does inside a    *)
(* lock is left open: a lock is released when its body returns or throws.  *)
(***************************************************************************)
EXTENDS Integers, Sequences, FiniteSets, SequencesExt

CONSTANTS
  Claims,                \* claimed issues, each run through executeClaim once
  Reports,               \* POST /exec-result requests
  RunOf,                 \* the run of a caller
  RepoOf,                \* the repository of a run
  MaxExecutorProcesses,
  Nobody, NoLock

Callers == Claims \cup Reports

ASSUME CallersAssumption ==
  /\ IsFiniteSet(Claims)
  /\ Claims \cap Reports = {}
  /\ Nobody \notin Callers
  /\ Callers \subseteq DOMAIN RunOf
ASSUME SlotsAssumption == MaxExecutorProcesses \in Nat \ {0}

Outcome(c) == <<"outcome", RunOf[c]>>
Checkpoint(c) == <<"checkpoint", RunOf[c]>>
Merge(c) == <<"merge", RepoOf[RunOf[c]]>>
Locks == UNION {{Outcome(c), Checkpoint(c), Merge(c)} : c \in Callers}

ASSUME LocksAssumption == NoLock \notin Locks

VARIABLES
  stage,    \* how far each caller is
  active,   \* executorActive
  waiters,  \* executorWaiters, whose callers are suspended
  tail,     \* each lock: the caller whose promise is its tail
  wants,    \* the lock a caller is queued for
  behind,   \* the caller whose release a queued caller awaits
  held      \* the locks a caller is inside of

slots == <<active, waiters>>
tails == <<tail, wants, behind, held>>
vars == <<stage, slots, tails>>

\* start: not called yet.  parked: its promise is in waiters.  woken: that
\* promise is resolved and the loop of withExecutorSlot looks again.
\* executing: inside the slot.  ran: it has a result to report.  merged,
\* refused, reported: inside reportResult after the merge; after a report
\* that was not ok; after any other.  settled: settleIssueOutcome has merged.
Stage == {"start", "parked", "woken", "executing", "ran", "merged",
          "refused", "reported", "settled", "done"}

Init ==
  /\ stage = [c \in Callers |-> IF c \in Claims THEN "start" ELSE "ran"]
  /\ active = 0
  /\ waiters = <<>>
  /\ tail = [l \in Locks |-> Nobody]
  /\ wants = [c \in Callers |-> NoLock]
  /\ behind = [c \in Callers |-> Nobody]
  /\ held = [c \in Callers |-> {}]

Goes(c, s) == stage' = [stage EXCEPT ![c] = s]

-----------------------------------------------------------------------------
(* withExecutorSlot. *)

\* Mutant: a woken caller does not look at the number of active ones again.
SlotFree_Unchecked(c) == active < MaxExecutorProcesses \/ stage[c] = "woken"

SlotFree(c) == active < MaxExecutorProcesses

\* A caller that finds a free slot takes it, also ahead of suspended callers
\* and of a woken one that has not run yet.
TakeSlot(c) ==
  /\ stage[c] \in {"start", "woken"}
  /\ SlotFree(c)
  /\ active' = active + 1
  /\ Goes(c, "executing")
  /\ UNCHANGED <<waiters, tails>>

Park(c) ==
  /\ stage[c] \in {"start", "woken"}
  /\ ~SlotFree(c)
  /\ waiters' = Append(waiters, c)
  /\ Goes(c, "parked")
  /\ UNCHANGED <<active, tails>>

\* Mutant: a slot that was never used (an aborted claim) wakes nobody.
Wakes_OnlyRan(s) == waiters # <<>> /\ s = "ran"

Wakes(s) == waiters # <<>>

Freed == active - 1

\* The body of the slot ended: with a result, or skipped because the claim
\* was aborted while it waited.  The first suspended caller is woken.
ReleaseSlot(c) ==
  /\ stage[c] = "executing"
  /\ active' = Freed
  /\ \E s \in {"ran", "done"} :
       IF Wakes(s)
       THEN /\ waiters' = Tail(waiters)
            /\ stage' = [stage EXCEPT ![c] = s, ![Head(waiters)] = "woken"]
       ELSE Goes(c, s) /\ UNCHANGED waiters
  /\ UNCHANGED tails

-----------------------------------------------------------------------------
(* The promise-tail locks. *)

Join(c, l) ==
  /\ wants[c] = NoLock
  /\ wants' = [wants EXCEPT ![c] = l]
  /\ behind' = [behind EXCEPT ![c] = tail[l]]
  /\ tail' = [tail EXCEPT ![l] = c]
  /\ UNCHANGED <<stage, slots, held>>

Enter(c) ==
  /\ wants[c] # NoLock
  /\ behind[c] = Nobody
  /\ held' = [held EXCEPT ![c] = @ \cup {wants[c]}]
  /\ wants' = [wants EXCEPT ![c] = NoLock]
  /\ UNCHANGED <<stage, slots, tail, behind>>

\* Mutant: the map entry is deleted although others have queued up.
TailAfter_Deleted(c, l) == Nobody

\* The tail of a lock its holder c leaves.  (withMergeLock keeps a resolved
\* promise in the map, which holds nobody up.)
TailAfter(c, l) == IF tail[l] = c THEN Nobody ELSE tail[l]

\* Mutant: a body that threw leaves its lock locked.
BehindAfter_ThrownKept(c, l) ==
  IF stage[c] = "ran" THEN behind
  ELSE [d \in Callers |-> IF wants[d] = l /\ behind[d] = c THEN Nobody
                          ELSE behind[d]]

\* Whoever awaits the promise of c for the lock l awaits nobody any more.
BehindAfter(c, l) ==
  [d \in Callers |-> IF wants[d] = l /\ behind[d] = c THEN Nobody
                     ELSE behind[d]]

Leave(c, l, s) ==
  /\ l \in held[c]
  /\ wants[c] = NoLock
  /\ held' = [held EXCEPT ![c] = @ \ {l}]
  /\ tail' = [tail EXCEPT ![l] = TailAfter(c, l)]
  /\ behind' = BehindAfter(c, l)
  /\ Goes(c, s)
  /\ UNCHANGED <<slots, wants>>

\* The wave loop takes the outcome lock of its run around everything that
\* follows the execution.
JoinOutcome(c) ==
  /\ c \in Claims
  /\ stage[c] = "ran"
  /\ held[c] = {}
  /\ Join(c, Outcome(c))

\* reportResult.
JoinCheckpoint(c) ==
  /\ stage[c] = "ran"
  /\ held[c] = IF c \in Claims THEN {Outcome(c)} ELSE {}
  /\ Join(c, Checkpoint(c))

\* mergeIssueIfNeeded, from reportResultBody.
JoinMerge(c) ==
  /\ stage[c] = "ran"
  /\ Checkpoint(c) \in held[c]
  /\ Merge(c) \notin held[c]
  /\ Join(c, Merge(c))

\* mergeIssueIfNeeded, from settleIssueOutcome.
JoinSettleMerge(c) ==
  /\ stage[c] = "refused"
  /\ held[c] = {Outcome(c)}
  /\ Join(c, Merge(c))

LeaveMerge(c) ==
  Leave(c, Merge(c), IF stage[c] = "ran" THEN "merged" ELSE "settled")

LeaveCheckpoint(c) ==
  /\ Merge(c) \notin held[c]
  /\ \E s \in IF c \in Reports THEN {"done"}
              ELSE IF stage[c] = "ran" THEN {"refused", "reported"}
              ELSE {"reported"} :
       Leave(c, Checkpoint(c), s)

LeaveOutcome(c) ==
  /\ stage[c] \in {"refused", "reported", "settled"}
  /\ held[c] = {Outcome(c)}
  /\ Leave(c, Outcome(c), "done")

-----------------------------------------------------------------------------
Step(c) ==
  \/ TakeSlot(c)
  \/ Park(c)
  \/ ReleaseSlot(c)
  \/ JoinOutcome(c)
  \/ JoinCheckpoint(c)
  \/ JoinMerge(c)
  \/ JoinSettleMerge(c)
  \/ Enter(c)
  \/ LeaveMerge(c)
  \/ LeaveCheckpoint(c)
  \/ LeaveOutcome(c)

Next == \E c \in Callers : Step(c)

Spec == Init /\ [][Next]_vars

\* Every continuation that is ready runs, and every executor, review and Git
\* command ends (each has a timeout that kills it).
FairSpec == Spec /\ \A c \in Callers : WF_vars(Step(c))

-----------------------------------------------------------------------------
Executing == {c \in Claims : stage[c] = "executing"}
Woken == {c \in Claims : stage[c] = "woken"}

TypeOK ==
  /\ stage \in [Callers -> Stage]
  /\ active \in Nat
  /\ waiters \in Seq(Claims)
  /\ tail \in [Locks -> Callers \cup {Nobody}]
  /\ wants \in [Callers -> Locks \cup {NoLock}]
  /\ behind \in [Callers -> Callers \cup {Nobody}]
  /\ held \in [Callers -> SUBSET Locks]

\* No more than maxExecutorProcesses claims execute, over all runs, although
\* a newcomer may take the slot a woken caller was woken for (service.ts:2641).
SlotsBounded == Cardinality(Executing) <= MaxExecutorProcesses

\* A suspended caller is never forgotten: as long as one is, every slot is in
\* use or somebody has been woken to take it.
NoLostWakeup ==
  waiters # <<>> =>
    Cardinality(Executing) + Cardinality(Woken) >= MaxExecutorProcesses

\* At most one caller is inside a lock: the outcomes of a run are settled one
\* after the other, and so are the merges of a repository, whatever runs and
\* paths they come from (service.ts:1841, 2599, 2621).
LocksExclude ==
  \A c, d \in Callers : c # d => held[c] \cap held[d] = {}

\* Every caller gets through, however the slots and the nested locks of the
\* runs and repositories are shared: nobody waits for ever.
EverybodyServed == <>(\A c \in Callers : stage[c] = "done")

=============================================================================
