------------------------ MODULE RunGuaranteesProofs ------------------------
(***************************************************************************)
(* What TaskflowRun guarantees of its record, its claims and its branch,   *)
(* and that it implements RunContract, for every plan and configuration.   *)
(* Each invariant rests on the one before it.                              *)
(***************************************************************************)
EXTENDS TaskflowRunProofs

-----------------------------------------------------------------------------
(* What each step does to the fields of the record the invariants read.    *)

\* The record's status, the status a failure left, and its executions.
Becomes(status, from, exec) ==
  /\ run'.status = status
  /\ run'.failedFrom = from
  /\ run'.exec = exec
  /\ run'.planned = run.planned

Stays(exec) == Becomes(run.status, run.failedFrom, exec)

LEMMA PlanningEffects ==
  ASSUME TypeOK
  PROVE  /\ PlanRequest \/ PlannerStale \/ ReplanCleanup \/ ReworkCleanup
              => UNCHANGED run
         /\ PlanStarted => \/ UNCHANGED run
                           \/ /\ run.status \in {"RECEIVED", "EXECUTING",
                                  "INTEGRATION_REVIEW", "WAITING_DECISION",
                                  "AWAITING_HUMAN", "FAILED"}
                              /\ Becomes("PLANNING", "none", run.exec)
         /\ PlanPublished => /\ run'.status = "READY"
                             /\ run'.failedFrom = "none"
                             /\ run'.exec = AllPending
                             /\ run'.planned
         /\ PlannerFails => Becomes("FAILED", "PLANNING", run.exec)
         /\ PermissionAsked /\ run.status \in {"READY", "CANCELLED"} =>
              \/ UNCHANGED run
              \/ /\ run.status = "READY"
                 /\ Becomes("WAITING_PERMISSION", "none", run.exec)
<1> USE DEF TypeOK, RunRec, Moved, Becomes
<1>1. PlanRequest \/ PlannerStale \/ ReplanCleanup \/ ReworkCleanup
        => UNCHANGED run
  BY DEF PlanRequest, PlannerStale, ReplanCleanup, ReworkCleanup
<1>2. PlanStarted => \/ UNCHANGED run
                     \/ /\ run.status \in {"RECEIVED", "EXECUTING",
                            "INTEGRATION_REVIEW", "WAITING_DECISION",
                            "AWAITING_HUMAN", "FAILED"}
                        /\ Becomes("PLANNING", "none", run.exec)
  BY DEF PlanStarted, CanTransition, Successors, Terminal, Status
<1>3. PlanPublished => /\ run'.status = "READY"
                       /\ run'.failedFrom = "none"
                       /\ run'.exec = AllPending
                       /\ run'.planned
  BY DEF PlanPublished, Published
<1>4. PlannerFails => Becomes("FAILED", "PLANNING", run.exec)
  BY DEF PlannerFails
<1>5. PermissionAsked /\ run.status \in {"READY", "CANCELLED"} =>
        \/ UNCHANGED run
        \/ /\ run.status = "READY"
           /\ Becomes("WAITING_PERMISSION", "none", run.exec)
  BY DEF PermissionAsked, CanTransition, Successors, Terminal
<1> QED BY <1>1, <1>2, <1>3, <1>4, <1>5

LEMMA WaveEffects ==
  ASSUME TypeOK
  PROVE  /\ ExecuteRequest \/ BaseCaptureFails \/ EnsureFlow \/ StartWave
            \/ EndWave
              => UNCHANGED run
         /\ ExecutionStarted /\ StartInv =>
              \/ UNCHANGED run
              \/ /\ run.status \in {"READY", "PAUSED", "WAITING_PERMISSION"}
                 /\ Becomes("EXECUTING", "none", run.exec)
         /\ ClaimWave =>
              \/ UNCHANGED run
              \/ \E C \in SUBSET {i \in Issues : Claimable(i)} :
                   /\ run.status = "EXECUTING"
                   /\ Stays([i \in Issues |-> IF i \in C THEN "running"
                                              ELSE run.exec[i]])
         /\ \A i \in Issues :
              /\ PrepareWorktree(i) => Stays(run.exec)
              /\ WorktreeFails(i) =>
                   \/ UNCHANGED run
                   \/ /\ run.status = "EXECUTING" /\ Holds(i)
                      /\ Becomes("FAILED", "EXECUTING",
                                 [run.exec EXCEPT ![i] = "failed"])
              /\ PreparationStops(i) \/ TakeSlot(i) \/ EnterLane(i)
                   \/ (\E o \in {"succeeded", "broke"} : ExecutorReturns(i, o))
                   => UNCHANGED run
<1> USE DEF TypeOK, RunRec, Moved, Becomes, Stays
<1>1. ExecuteRequest \/ BaseCaptureFails \/ EnsureFlow \/ StartWave
      \/ EndWave => UNCHANGED run
  BY DEF ExecuteRequest, BaseCaptureFails, EnsureFlow, StartWave, EndWave
<1>2. ExecutionStarted /\ StartInv =>
        \/ UNCHANGED run
        \/ /\ run.status \in {"READY", "PAUSED", "WAITING_PERMISSION"}
           /\ Becomes("EXECUTING", "none", run.exec)
  BY DEF ExecutionStarted, StartInv, Started, CanTransition, Successors,
         Terminal
<1>3. ClaimWave =>
        \/ UNCHANGED run
        \/ \E C \in SUBSET {i \in Issues : Claimable(i)} :
             /\ run.status = "EXECUTING"
             /\ Stays([i \in Issues |-> IF i \in C THEN "running"
                                        ELSE run.exec[i]])
  <2> SUFFICES ASSUME ClaimWave, ~UNCHANGED run
               PROVE  \E C \in SUBSET {i \in Issues : Claimable(i)} :
                        /\ run.status = "EXECUTING"
                        /\ Stays([i \in Issues |-> IF i \in C THEN "running"
                                                   ELSE run.exec[i]])
    OBVIOUS
  <2>1. PICK C \in SUBSET {i \in Issues : Claimable(i)} :
          /\ run.status = "EXECUTING"
          /\ run' = [run EXCEPT !.exec =
                       [i \in Issues |-> IF i \in C THEN "running"
                                         ELSE run.exec[i]]]
    BY DEF ClaimWave
  <2> QED BY <2>1
<1>4. ASSUME NEW i \in Issues
      PROVE  /\ PrepareWorktree(i) => Stays(run.exec)
             /\ WorktreeFails(i) =>
                  \/ UNCHANGED run
                  \/ /\ run.status = "EXECUTING" /\ Holds(i)
                     /\ Becomes("FAILED", "EXECUTING",
                                [run.exec EXCEPT ![i] = "failed"])
             /\ PreparationStops(i) \/ TakeSlot(i) \/ EnterLane(i)
                  \/ (\E o \in {"succeeded", "broke"} : ExecutorReturns(i, o))
                  => UNCHANGED run
  <2>1. PrepareWorktree(i) => Stays(run.exec)
    BY DEF PrepareWorktree
  <2>2. WorktreeFails(i) =>
          \/ UNCHANGED run
          \/ /\ run.status = "EXECUTING" /\ Holds(i)
             /\ Becomes("FAILED", "EXECUTING",
                        [run.exec EXCEPT ![i] = "failed"])
    BY DEF WorktreeFails, Holds
  <2>3. PreparationStops(i) \/ TakeSlot(i) \/ EnterLane(i)
          \/ (\E o \in {"succeeded", "broke"} : ExecutorReturns(i, o))
          => UNCHANGED run
    BY DEF PreparationStops, TakeSlot, EnterLane, ExecutorReturns
  <2> QED BY <2>1, <2>2, <2>3
<1> QED BY <1>1, <1>2, <1>3, <1>4

\* The entry of the lane's holder changes, the others do not.
Outcome(s) == [run.exec EXCEPT ![lane.issue] = s]

LEMMA LaneEffects ==
  ASSUME TypeOK, LaneInv, ReportInv, MergeIsExclusive
  PROVE  /\ (\E v \in {"PASS", "FIX", "REPLAN"} : CheckpointReturns(v))
              \/ MergeMarkerBusy \/ MergeSucceeds \/ MergeFails
              => UNCHANGED run
         /\ CheckpointFails =>
              \/ UNCHANGED run
              \/ /\ run.status = "EXECUTING" /\ ~lane.aborted
                 /\ Becomes("FAILED", "EXECUTING",
                            Outcome(IF Holds(lane.issue) THEN "pending"
                                    ELSE run.exec[lane.issue]))
         /\ CheckpointPasses \/ SetMergeMarker => Stays(run.exec)
         /\ CheckpointAsksFix =>
              Stays(Outcome(IF Holds(lane.issue) THEN "pending"
                            ELSE run.exec[lane.issue]))
         /\ CheckpointAsksReplan =>
              \/ UNCHANGED run
              \/ /\ run.status = "EXECUTING"
                 /\ Becomes("PLANNING", "none", ResetRunning(run.exec))
         /\ CheckpointAtLimit =>
              \/ UNCHANGED run
              \/ /\ run.status = "EXECUTING"
                 /\ Becomes("WAITING_DECISION", "none",
                            ResetRunning(run.exec))
         /\ RecordDone =>
              \/ UNCHANGED run
              \/ /\ Holds(lane.issue)
                 /\ \/ /\ lane.path = "report" /\ run.status = "EXECUTING"
                       /\ AllDone(Outcome("done"))
                       /\ Becomes("INTEGRATION_REVIEW", "none",
                                  Outcome("done"))
                    \/ /\ lane.path = "report" => ~AllDone(Outcome("done"))
                       /\ run.status \in MergeStatuses
                       /\ Stays(Outcome("done"))
         /\ RecordFailed =>
              \/ UNCHANGED run
              \/ /\ Holds(lane.issue)
                 /\ \/ Becomes("FAILED", run.status, Outcome("failed"))
                    \/ Stays(Outcome("failed"))
         /\ Settle => \/ UNCHANGED run
                      \/ /\ Holds(lane.issue)
                         /\ Stays(Outcome("pending"))
<1> USE DEF TypeOK, RunRec, Moved, Becomes, Stays, Outcome, LaneAt, Holds
<1>1. (\E v \in {"PASS", "FIX", "REPLAN"} : CheckpointReturns(v))
        \/ MergeMarkerBusy \/ MergeSucceeds \/ MergeFails
        => UNCHANGED run
  BY DEF CheckpointReturns, MergeMarkerBusy, MergeSucceeds, MergeFails
<1>2. CheckpointFails =>
        \/ UNCHANGED run
        \/ /\ run.status = "EXECUTING" /\ ~lane.aborted
           /\ Becomes("FAILED", "EXECUTING",
                      Outcome(IF Holds(lane.issue) THEN "pending"
                              ELSE run.exec[lane.issue]))
  BY DEF CheckpointFails
<1>3. CheckpointPasses \/ SetMergeMarker => Stays(run.exec)
  BY DEF CheckpointPasses, SetMergeMarker
<1>4. CheckpointAsksFix =>
        Stays(Outcome(IF Holds(lane.issue) THEN "pending"
                      ELSE run.exec[lane.issue]))
  BY DEF CheckpointAsksFix
<1>5. CheckpointAsksReplan =>
        \/ UNCHANGED run
        \/ /\ run.status = "EXECUTING"
           /\ Becomes("PLANNING", "none", ResetRunning(run.exec))
  BY DEF CheckpointAsksReplan, ReportInv, CanTransition, Successors, Terminal
<1>6. CheckpointAtLimit =>
        \/ UNCHANGED run
        \/ /\ run.status = "EXECUTING"
           /\ Becomes("WAITING_DECISION", "none", ResetRunning(run.exec))
  BY DEF CheckpointAtLimit, ReportInv, CanTransition, Successors, Terminal
<1>7. RecordDone =>
        \/ UNCHANGED run
        \/ /\ Holds(lane.issue)
           /\ \/ /\ lane.path = "report" /\ run.status = "EXECUTING"
                 /\ AllDone(Outcome("done"))
                 /\ Becomes("INTEGRATION_REVIEW", "none", Outcome("done"))
              \/ /\ lane.path = "report" => ~AllDone(Outcome("done"))
                 /\ run.status \in MergeStatuses
                 /\ Stays(Outcome("done"))
  <2> SUFFICES ASSUME RecordDone, ~UNCHANGED run
               PROVE  /\ Holds(lane.issue)
                      /\ \/ /\ lane.path = "report" /\ run.status = "EXECUTING"
                            /\ AllDone(Outcome("done"))
                            /\ Becomes("INTEGRATION_REVIEW", "none",
                                       Outcome("done"))
                         \/ /\ lane.path = "report" =>
                                 ~AllDone(Outcome("done"))
                            /\ run.status \in MergeStatuses
                            /\ Stays(Outcome("done"))
    OBVIOUS
  <2> DEFINE done == Recorded(run, lane.issue, "done")
  <2>1. /\ run.status \in MergeStatuses /\ Holds(lane.issue)
        /\ done.exec = Outcome("done")
    BY DEF RecordDone, MergeIsExclusive, InMerge, Recorded
  <2>2. run' = IF lane.path = "report" /\ AllDone(done.exec)
               THEN Moved(done, "INTEGRATION_REVIEW") ELSE done
    BY DEF RecordDone
  <2>3. CASE lane.path = "report" /\ AllDone(done.exec)
    BY <2>1, <2>2, <2>3 DEF MergeStatuses, Recorded
  <2>4. CASE ~(lane.path = "report" /\ AllDone(done.exec))
    BY <2>1, <2>2, <2>4 DEF Recorded
  <2> QED BY <2>3, <2>4
<1>8. RecordFailed =>
        \/ UNCHANGED run
        \/ /\ Holds(lane.issue)
           /\ \/ Becomes("FAILED", run.status, Outcome("failed"))
              \/ Stays(Outcome("failed"))
  BY DEF RecordFailed, Recorded
<1>9. Settle => \/ UNCHANGED run
                \/ /\ Holds(lane.issue)
                   /\ Stays(Outcome("pending"))
  BY DEF Settle, Recorded
<1> QED BY <1>1, <1>2, <1>3, <1>4, <1>5, <1>6, <1>7, <1>8, <1>9

\* What the FINAL review does to the record, wherever a control moved the run
\* while its reviewer worked.
LEMMA DecisionEffects ==
  ASSUME TypeOK
  PROVE  /\ ReviewRequest
              \/ (\E v \in Verdicts, keys \in SUBSET Issues :
                    ReviewerReturns(v, keys)) => UNCHANGED run
         /\ ReviewerFails \/ ReviewDecided =>
              \/ UNCHANGED run
              \/ /\ CanTransition(run.status, "FAILED")
                 /\ Becomes("FAILED", run.status, run.exec)
              \/ /\ ReviewDecided /\ fin.verdict = "PASS"
                 /\ run.status = "INTEGRATION_REVIEW"
                 /\ run'.review = FinalReview("PASS")
                 /\ Becomes("AWAITING_HUMAN", "none", run.exec)
              \/ /\ ReviewDecided /\ fin.verdict # "PASS"
                 /\ CanTransition(run.status, "PLANNING")
                 /\ Becomes("PLANNING", "none", run.exec)
              \/ /\ ReviewDecided /\ fin.verdict # "PASS"
                 /\ \E to \in {"EXECUTING", "WAITING_DECISION"} :
                      /\ CanTransition(run.status, to)
                      /\ Becomes(to, "none", Reworked(run, fin.rework).exec)
<1> USE DEF TypeOK, RunRec, Moved, Becomes
<1>1. ReviewRequest
        \/ (\E v \in Verdicts, keys \in SUBSET Issues :
              ReviewerReturns(v, keys)) => UNCHANGED run
  BY DEF ReviewRequest, ReviewerReturns
<1> DEFINE Failed == /\ CanTransition(run.status, "FAILED")
                     /\ Becomes("FAILED", run.status, run.exec)
<1>2. \/ ReviewFailed(run) = run
      \/ /\ ReviewFailed(run) = Moved(run, "FAILED")
         /\ CanTransition(run.status, "FAILED")
  BY DEF ReviewFailed
<1>3. ReviewerFails => UNCHANGED run \/ Failed
  <2>1. ReviewerFails => run' = ReviewFailed(run)
    BY DEF ReviewerFails
  <2>2. run' = Moved(run, "FAILED") => Becomes("FAILED", run.status, run.exec)
    OBVIOUS
  <2> QED BY <1>2, <2>1, <2>2
<1>4. ASSUME ReviewDecided
      PROVE  \/ UNCHANGED run
             \/ Failed
             \/ /\ fin.verdict = "PASS"
                /\ run.status = "INTEGRATION_REVIEW"
                /\ run'.review = FinalReview("PASS")
                /\ Becomes("AWAITING_HUMAN", "none", run.exec)
             \/ /\ fin.verdict # "PASS"
                /\ CanTransition(run.status, "PLANNING")
                /\ Becomes("PLANNING", "none", run.exec)
             \/ /\ fin.verdict # "PASS"
                /\ \E to \in {"EXECUTING", "WAITING_DECISION"} :
                     /\ CanTransition(run.status, to)
                     /\ Becomes(to, "none", Reworked(run, fin.rework).exec)
  <2> DEFINE to == Target(fin.verdict)
             moved == [Moved(run, to) EXCEPT !.review =
                         FinalReview(fin.verdict)]
  <2>2. CASE ~CanTransition(run.status, to)
    BY <1>2, <1>4, <2>2 DEF ReviewDecided
  <2>3. CASE CanTransition(run.status, to)
    <3>1. run' = Decided
      BY <1>4, <2>3 DEF ReviewDecided
    <3>2. CASE to = "AWAITING_HUMAN"
      <4>1. fin.verdict = "PASS" /\ run.status = "INTEGRATION_REVIEW"
        BY <2>3, <3>2 DEF Target, CanTransition, Successors, Terminal, Status
      <4>2. run' = moved
        BY <3>1, <3>2 DEF Decided
      <4> QED BY <3>2, <4>1, <4>2
    <3>3. CASE to = "PLANNING"
      <4>1. fin.verdict # "PASS"
        BY <3>3 DEF Target
      <4>2. run' = [moved EXCEPT !.cycles = CountCycle, !.planDone = FALSE,
                                 !.replanEntry = TRUE]
        BY <3>1, <3>3 DEF Decided
      <4> QED BY <2>3, <3>3, <4>1, <4>2
    <3>4. CASE to \in {"EXECUTING", "WAITING_DECISION"}
      <4>1. fin.verdict # "PASS"
        BY <3>4 DEF Target
      <4>2. run' = Reworked([moved EXCEPT !.cycles = CountCycle], fin.rework)
        BY <3>1, <3>4 DEF Decided
      <4>3. Becomes(to, "none", Reworked(run, fin.rework).exec)
        BY <3>4, <4>2 DEF Reworked
      <4> QED BY <2>3, <3>4, <4>1, <4>3
    <3> QED BY <3>2, <3>3, <3>4 DEF Target
  <2> QED BY <2>2, <2>3
<1> QED BY <1>1, <1>3, <1>4

\* A client that keeps to allowedActions moves a run under review only by
\* cancelling it: the review's outcome finds the run where the review began.
LEMMA ReviewEffects ==
  ASSUME TypeOK, FinInv
  PROVE  /\ ReviewRequest
              \/ (\E v \in Verdicts, keys \in SUBSET Issues :
                    ReviewerReturns(v, keys)) => UNCHANGED run
         /\ ReviewerFails =>
              \/ UNCHANGED run
              \/ /\ run.status = "INTEGRATION_REVIEW"
                 /\ Becomes("FAILED", "INTEGRATION_REVIEW", run.exec)
         /\ ReviewDecided =>
              \/ UNCHANGED run
              \/ /\ run.status = "INTEGRATION_REVIEW"
                 /\ \/ Becomes("FAILED", "INTEGRATION_REVIEW", run.exec)
                    \/ /\ fin.verdict = "PASS"
                       /\ run'.review = FinalReview("PASS")
                       /\ Becomes("AWAITING_HUMAN", "none", run.exec)
                    \/ /\ fin.verdict # "PASS"
                       /\ Becomes("PLANNING", "none", run.exec)
                    \/ /\ fin.verdict # "PASS"
                       /\ \E to \in {"EXECUTING", "WAITING_DECISION"} :
                            Becomes(to, "none", Reworked(run, fin.rework).exec)
<1>1. fin.step # "idle" /\ run.status # "INTEGRATION_REVIEW" =>
        \A to \in Status : ~CanTransition(run.status, to)
  BY DEF FinInv, CanTransition, Successors, Terminal
<1>2. ReviewerFails \/ ReviewDecided => fin.step # "idle"
  BY DEF ReviewerFails, ReviewDecided
<1>3. ReviewerFails => ~ReviewDecided
  BY DEF ReviewerFails, ReviewDecided
<1> QED
  BY <1>1, <1>2, <1>3, DecisionEffects DEF Status

\* The statuses a resume or a release may lead back to EXECUTING from.
Resumable == {"READY", "INTEGRATION_REVIEW", "WAITING_PERMISSION",
              "WAITING_DECISION", "PAUSED", "FAILED"}

\* What the user's commands do to the record, whatever the client offered:
\* the guards are those of the table and of the operations alone.
LEMMA CommandEffects ==
  ASSUME TypeOK
  PROVE  /\ Cancel =>
              /\ run.status \notin {"FAILED", "ACCEPTED", "CANCELLED"}
              /\ Becomes("CANCELLED", "none", ResetRunning(run.exec))
         /\ Pause => /\ run.status = "EXECUTING"
                     /\ Becomes("PAUSED", "none", ResetRunning(run.exec))
         /\ Takeover =>
              /\ run.status \in {"READY", "EXECUTING", "PAUSED"}
              /\ Becomes("WAITING_PERMISSION", "none", ResetRunning(run.exec))
         /\ Resume =>
              \/ /\ run.status = "WAITING_DECISION"
                 /\ Becomes("PLANNING", "none", run.exec)
              \/ /\ run.status \in Resumable
                 /\ Becomes("EXECUTING", "none", run.exec)
         /\ Release => /\ run.status \in Resumable
                       /\ Becomes("EXECUTING", "none", run.exec)
         /\ RetryIssues => /\ run.status = "EXECUTING"
                           /\ Stays(RetryFailed(run.exec))
         /\ RetryRun =>
              /\ run.status = "FAILED"
              /\ Becomes(RetryTarget, "none",
                         IF RetryTarget = "EXECUTING"
                         THEN RetryFailed(run.exec) ELSE run.exec)
         /\ HumanAccept => /\ run.status = "AWAITING_HUMAN"
                           /\ Becomes("ACCEPTED", "none", run.exec)
         /\ HumanRework => Becomes("PLANNING", "none", AllPending)
         /\ CrashRestart =>
              \/ /\ run.status = "EXECUTING"
                 /\ Stays(ResetRunning(run.exec))
              \/ /\ run.status = "READY" /\ RequirePermission
                 /\ Becomes("WAITING_PERMISSION", "none", run.exec)
              \/ /\ run.status # "EXECUTING"
                 /\ run.status = "READY" => ~RequirePermission
                 /\ UNCHANGED run
<1> USE DEF TypeOK, RunRec, Moved, Becomes, Stays, Status, CanTransition,
            Successors, Terminal, Resumable
<1>1. Cancel => /\ run.status \notin {"FAILED", "ACCEPTED", "CANCELLED"}
                /\ Becomes("CANCELLED", "none", ResetRunning(run.exec))
  BY DEF Cancel
<1>2. Pause => /\ run.status = "EXECUTING"
               /\ Becomes("PAUSED", "none", ResetRunning(run.exec))
  BY DEF Pause, PausedExec
<1>3. Takeover =>
        /\ run.status \in {"READY", "EXECUTING", "PAUSED"}
        /\ Becomes("WAITING_PERMISSION", "none", ResetRunning(run.exec))
  BY DEF Takeover
<1>4. Resume =>
        \/ /\ run.status = "WAITING_DECISION"
           /\ Becomes("PLANNING", "none", run.exec)
        \/ /\ run.status \in Resumable
           /\ Becomes("EXECUTING", "none", run.exec)
  BY DEF Resume
<1>5. Release => /\ run.status \in Resumable
                 /\ Becomes("EXECUTING", "none", run.exec)
  BY DEF Release
<1>6. RetryIssues => /\ run.status = "EXECUTING"
                     /\ Stays(RetryFailed(run.exec))
  BY DEF RetryIssues
<1>7. RetryRun =>
        /\ run.status = "FAILED"
        /\ Becomes(RetryTarget, "none",
                   IF RetryTarget = "EXECUTING"
                   THEN RetryFailed(run.exec) ELSE run.exec)
  BY DEF RetryRun, RetryTarget
<1>8. HumanAccept => /\ run.status = "AWAITING_HUMAN"
                     /\ Becomes("ACCEPTED", "none", run.exec)
  BY DEF HumanAccept
<1>9. HumanRework => Becomes("PLANNING", "none", AllPending)
  BY DEF HumanRework
<1>10. CrashRestart =>
         \/ /\ run.status = "EXECUTING"
            /\ Stays(ResetRunning(run.exec))
         \/ /\ run.status = "READY" /\ RequirePermission
            /\ Becomes("WAITING_PERMISSION", "none", run.exec)
         \/ /\ run.status # "EXECUTING"
            /\ run.status = "READY" => ~RequirePermission
            /\ UNCHANGED run
  BY DEF CrashRestart, RecoveredRecord
<1> QED
  BY <1>1, <1>2, <1>3, <1>4, <1>5, <1>6, <1>7, <1>8, <1>9, <1>10

\* A client that keeps to allowedActions sends less.
LEMMA ControlEffects ==
  ASSUME TypeOK, ClientChecks
  PROVE  /\ Cancel =>
              /\ run.status \notin {"FAILED", "ACCEPTED", "CANCELLED"}
              /\ Becomes("CANCELLED", "none", ResetRunning(run.exec))
         /\ Pause => /\ run.status = "EXECUTING"
                     /\ Becomes("PAUSED", "none", ResetRunning(run.exec))
         /\ Takeover =>
              /\ run.status \in {"EXECUTING", "PAUSED"}
              /\ Becomes("WAITING_PERMISSION", "none", ResetRunning(run.exec))
         /\ Resume =>
              \/ /\ run.status = "WAITING_DECISION"
                 /\ Becomes("PLANNING", "none", run.exec)
              \/ /\ run.status \in {"PAUSED", "WAITING_DECISION"}
                 /\ Becomes("EXECUTING", "none", run.exec)
         /\ Release => /\ run.status = "WAITING_PERMISSION"
                       /\ Becomes("EXECUTING", "none", run.exec)
         /\ RetryIssues => /\ run.status = "EXECUTING"
                           /\ Stays(RetryFailed(run.exec))
         /\ RetryRun =>
              /\ run.status = "FAILED"
              /\ Becomes(RetryTarget, "none",
                         IF RetryTarget = "EXECUTING"
                         THEN RetryFailed(run.exec) ELSE run.exec)
         /\ HumanAccept => /\ run.status = "AWAITING_HUMAN"
                           /\ Becomes("ACCEPTED", "none", run.exec)
         /\ HumanRework => /\ run.status = "AWAITING_HUMAN"
                           /\ Becomes("PLANNING", "none", AllPending)
         /\ CrashRestart =>
              \/ /\ run.status = "EXECUTING"
                 /\ Stays(ResetRunning(run.exec))
              \/ /\ run.status = "READY" /\ RequirePermission
                 /\ Becomes("WAITING_PERMISSION", "none", run.exec)
              \/ /\ run.status # "EXECUTING"
                 /\ run.status = "READY" => ~RequirePermission
                 /\ UNCHANGED run
<1>0. run \in RunRec /\ run.status \in Status
  BY DEF TypeOK, RunRec
<1>1. HumanRework => run.status = "AWAITING_HUMAN"
  BY <1>0, Offered DEF HumanRework
<1> QED
  BY <1>0, <1>1, CommandEffects, Offered DEF Pause, Takeover, Resume, Release,
     HumanAccept, Accepts, Resumable

\* How a lane step leaves the lane: free, its claim finished, or at a later
\* step of the same report or settlement.  An aborted review goes nowhere.
LaneLeft ==
  /\ lane' = FreeLane
  /\ pc' = [pc EXCEPT ![lane.issue] = "finished"]

LaneGoesOn ==
  /\ UNCHANGED pc
  /\ lane'.step \notin {"free", "checkpoint"}
  /\ lane'.issue = lane.issue
  /\ lane'.aborted = lane.aborted
  /\ lane.step = "checkpoint" => ~lane.aborted

LEMMA LaneMoves ==
  ASSUME TypeOK, LaneInv, LaneSystem
  PROVE  /\ lane.step # "free" /\ lane.issue \in Issues
         /\ flow = "running" /\ UNCHANGED <<flow, planFlow, ensure>>
         /\ LaneLeft \/ LaneGoesOn
<1>1. lane \in LaneRec
  BY DEF TypeOK
<1>2. flow = "running" /\ UNCHANGED <<flow, planFlow, ensure>>
      /\ lane.step # "free"
  BY DEF LaneSystem, CheckpointReturns, CheckpointFails, CheckpointPasses,
         CheckpointAsksFix, CheckpointAsksReplan, CheckpointAtLimit,
         SetMergeMarker, MergeMarkerBusy, MergeSucceeds, MergeFails,
         RecordDone, RecordFailed, Settle, LaneAt
<1>3. ASSUME NEW s \in LaneStep \ {"free", "checkpoint"}, LaneTo(s),
             lane.step = "checkpoint" => ~lane.aborted
      PROVE  LaneGoesOn
  BY <1>1, <1>3 DEF LaneTo, LaneGoesOn, LaneRec
<1>4. \A ok \in BOOLEAN : LeaveLane(ok) => LaneLeft
  BY DEF LeaveLane, LaneLeft
<1>5. ASSUME Refuse, lane.step # "checkpoint"
      PROVE  LaneLeft \/ LaneGoesOn
  BY <1>3, <1>4, <1>5 DEF Refuse, LaneStep
<1>6. ASSUME NEW v \in {"PASS", "FIX", "REPLAN"}, CheckpointReturns(v)
      PROVE  LaneLeft \/ LaneGoesOn
  <2>1. \/ LeaveLane(TRUE)
        \/ /\ lane' = [lane EXCEPT !.step = "verdict", !.verdict = v]
           /\ UNCHANGED pc /\ ~lane.aborted
    BY <1>6 DEF CheckpointReturns
  <2>2. CASE lane' = [lane EXCEPT !.step = "verdict", !.verdict = v]
             /\ UNCHANGED pc /\ ~lane.aborted
    BY <1>1, <2>2 DEF LaneGoesOn, LaneRec
  <2> QED BY <1>4, <2>1, <2>2
<1>7. CheckpointFails => LaneLeft \/ LaneGoesOn
  BY <1>3, <1>4 DEF CheckpointFails, LaneStep
<1>8. CheckpointPasses \/ CheckpointAsksFix \/ CheckpointAsksReplan
        \/ CheckpointAtLimit => LaneLeft \/ LaneGoesOn
  BY <1>3, <1>4
     DEF CheckpointPasses, CheckpointAsksFix, CheckpointAsksReplan,
         CheckpointAtLimit, LaneAt, LaneStep
<1>9. SetMergeMarker \/ MergeMarkerBusy \/ MergeSucceeds \/ MergeFails
        => LaneLeft \/ LaneGoesOn
  BY <1>3, <1>5
     DEF SetMergeMarker, MergeMarkerBusy, MergeSucceeds, MergeFails, LaneAt,
         LaneStep
<1>10. RecordDone \/ RecordFailed => LaneLeft \/ LaneGoesOn
  BY <1>4, <1>5 DEF RecordDone, RecordFailed, LaneAt
<1>11. ASSUME Settle
       PROVE  LaneLeft \/ LaneGoesOn
  <2>1. \/ LeaveLane(FALSE) \/ LeaveLane(TRUE)
        \/ \E s \in {"marking", "recordFail"} :
             /\ lane' = [lane EXCEPT !.path = "settle", !.step = s]
             /\ UNCHANGED pc
    BY <1>11 DEF Settle
  <2>2. ASSUME NEW s \in {"marking", "recordFail"},
               lane' = [lane EXCEPT !.path = "settle", !.step = s],
               UNCHANGED pc
        PROVE  LaneGoesOn
    BY <1>1, <1>11, <2>2 DEF LaneGoesOn, LaneRec, Settle, LaneAt
  <2> QED BY <1>4, <2>1, <2>2
<1> QED
  BY <1>2, <1>6, <1>7, <1>8, <1>9, <1>10, <1>11 DEF LaneInv, LaneSystem

-----------------------------------------------------------------------------
(* The record: who can be running, and what a status says of the plan.     *)

Working == {"READY", "EXECUTING", "PAUSED", "WAITING_PERMISSION",
            "WAITING_DECISION"}
Reviewed == {"INTEGRATION_REVIEW", "AWAITING_HUMAN", "ACCEPTED"}

FailedFrom(status) == run.status = "FAILED" /\ run.failedFrom = status

\* A run that works, is reviewed, or failed at it has a plan; nothing else
\* than planning, executing or reviewing fails.
PlannedInv ==
  /\ run.status \in Working \cup Reviewed => run.planned
  /\ run.status = "FAILED" =>
       /\ run.failedFrom \in {"PLANNING", "EXECUTING", "INTEGRATION_REVIEW"}
       /\ run.failedFrom # "PLANNING" => run.planned

\* Issues run only while the run executes or has just failed executing.
HeldInv ==
  \A i \in Issues : Holds(i) => run.status = "EXECUTING"
                                \/ FailedFrom("EXECUTING")

\* A reviewed run is complete; one that failed executing is not, even after
\* the issues that were still running have been settled.
GateInv ==
  run.status \in Reviewed \/ FailedFrom("INTEGRATION_REVIEW")
    => AllDone(run.exec)

UndoneInv ==
  FailedFrom("EXECUTING")
    => \E i \in Issues : run.exec[i] \in {"pending", "failed"}

\* An issue under CHECKPOINT review is running until a control aborts it.
CheckpointInv ==
  lane.step = "checkpoint" /\ ~lane.aborted => Holds(lane.issue)

RecordInv ==
  PlannedInv /\ HeldInv /\ GateInv /\ UndoneInv /\ CheckpointInv

LEMMA ResetNotRunning ==
  ASSUME run \in RunRec
  PROVE  \A i \in Issues :
           /\ ResetRunning(run.exec)[i] # "running"
           /\ ResetRunning(run.exec)[i] = "done" <=> run.exec[i] = "done"
           /\ RetryFailed(run.exec)[i] = "running" <=> run.exec[i] = "running"
           /\ RetryFailed(run.exec)[i] = "done" <=> run.exec[i] = "done"
BY DEF ResetRunning, RetryFailed, Replaced, RunRec, ExecStatus

LEMMA RecordInit == Init => RecordInv
BY DEF Init, RecordInv, PlannedInv, HeldInv, GateInv, UndoneInv,
       CheckpointInv, SubmittedRun, AllPending, FailedFrom, FreeLane, Working,
       Reviewed, Holds

\* Steps that do not touch the record, and whose lane, if under review, was
\* so before, leave the record's invariant alone.
LEMMA RecordUnchanged ==
  ASSUME RecordInv, UNCHANGED run,
         lane'.step = "checkpoint" /\ ~lane'.aborted =>
           \/ Holds(lane'.issue)
           \/ /\ lane.step = "checkpoint" /\ ~lane.aborted
              /\ lane'.issue = lane.issue
  PROVE  RecordInv'
BY DEF RecordInv, PlannedInv, HeldInv, GateInv, UndoneInv, CheckpointInv,
       FailedFrom, Holds

LEMMA RecordPlanning ==
  ASSUME Inductive, RecordInv, PlanRequest \/ PlanningSystem
  PROVE  RecordInv'
<1>0. TypeOK /\ PlanFlowInv
  BY DEF Inductive, MergeInv
<1>1. UNCHANGED lane
  BY DEF PlanRequest, PlanningSystem, PlanStarted, PlanPublished,
         PlannerFails, PlannerStale, PermissionAsked, ReplanCleanup,
         ReworkCleanup, notPlanning
<1>2. lane.step # "free" => lane.issue \in Issues
  BY DEF Inductive, LaneInv
<1> USE DEF RecordInv, PlannedInv, HeldInv, GateInv, UndoneInv, CheckpointInv,
            FailedFrom, Holds, Becomes, Working, Reviewed
<1>3. CASE UNCHANGED run
  BY <1>1, <1>3
<1>4. CASE PlanStarted
  BY <1>0, <1>1, <1>2, <1>3, <1>4, PlanningEffects DEF PlanStarted, PlanFlowInv
<1>5. CASE PlanPublished
  BY <1>0, <1>1, <1>2, <1>5, PlanningEffects DEF PlanPublished, AllPending
<1>6. CASE PlannerFails
  BY <1>0, <1>1, <1>2, <1>6, PlanningEffects DEF PlannerFails
<1>7. CASE PermissionAsked
  BY <1>0, <1>1, <1>2, <1>3, <1>7, PlanningEffects
     DEF PermissionAsked, PlanFlowInv
<1> QED
  BY <1>0, <1>3, <1>4, <1>5, <1>6, <1>7, PlanningEffects DEF PlanningSystem

LEMMA RecordWave ==
  ASSUME Inductive, RecordInv,
         \/ ExecuteRequest \/ ExecutionStarted \/ BaseCaptureFails
         \/ EnsureFlow \/ ClaimWave
         \/ StartWave \/ EndWave \/ \E i \in Issues : ClaimSystem(i)
  PROVE  RecordInv'
<1>0. TypeOK /\ StartInv /\ LaneInv
  BY DEF Inductive, MergeInv
<1>1. lane.step # "free" => lane.issue \in Issues
  BY <1>0 DEF LaneInv
<1>2. CASE ExecuteRequest \/ BaseCaptureFails \/ EnsureFlow \/ StartWave
           \/ EndWave
  BY <1>0, <1>2, WaveEffects, RecordUnchanged
     DEF ExecuteRequest, BaseCaptureFails, EnsureFlow, StartWave, EndWave
<1> USE DEF RecordInv, PlannedInv, HeldInv, GateInv, UndoneInv, CheckpointInv,
            FailedFrom, Becomes, Stays, Working, Reviewed
<1>3. CASE ExecutionStarted
  <2>1. UNCHANGED lane
    BY <1>3 DEF ExecutionStarted
  <2> QED BY <1>0, <1>1, <1>3, <2>1, WaveEffects DEF Holds
<1>4. CASE ClaimWave
  <2>1. lane.step = "free" /\ UNCHANGED lane
    BY <1>0, <1>4 DEF ClaimWave, LaneInv
  <2> QED BY <1>0, <1>4, <2>1, WaveEffects DEF Holds
<1>5. ASSUME NEW i \in Issues, ClaimSystem(i)
      PROVE  RecordInv'
  <2>1. CASE PrepareWorktree(i)
    <3>1. UNCHANGED lane
      BY <2>1 DEF PrepareWorktree
    <3> QED BY <1>0, <1>1, <2>1, <3>1, WaveEffects DEF Holds
  <2>2. CASE WorktreeFails(i)
    <3>1. lane.step = "free" /\ UNCHANGED lane
      BY <1>0, <2>2 DEF WorktreeFails, LaneInv
    <3>2. run.exec \in [Issues -> ExecStatus]
      BY <1>0 DEF TypeOK, RunRec
    <3> QED BY <1>0, <2>2, <3>1, <3>2, WaveEffects DEF Holds
  <2>3. CASE EnterLane(i)
    <3>1. lane'.step = "checkpoint" => Holds(lane'.issue)
      BY <2>3 DEF EnterLane, FirstStep, FreeLane
    <3> QED BY <1>0, <2>3, <3>1, WaveEffects, RecordUnchanged
  <2>4. CASE PreparationStops(i) \/ TakeSlot(i)
             \/ \E o \in {"succeeded", "broke"} : ExecutorReturns(i, o)
    BY <1>0, <2>4, WaveEffects, RecordUnchanged
       DEF PreparationStops, TakeSlot, ExecutorReturns
  <2> QED BY <1>5, <2>1, <2>2, <2>3, <2>4 DEF ClaimSystem
<1> QED BY <1>2, <1>3, <1>4, <1>5

LEMMA RecordLane ==
  ASSUME Inductive, RecordInv, LaneSystem
  PROVE  RecordInv'
<1>0. /\ TypeOK /\ LaneInv /\ ReportInv /\ VerdictInv /\ MergeIsExclusive
      /\ run \in RunRec
  BY DEF Inductive, MergeInv, TypeOK
<1>1. /\ lane.step # "free" /\ lane.issue \in Issues /\ lane \in LaneRec
      /\ run.exec \in [Issues -> ExecStatus]
  BY <1>0, LaneMoves DEF TypeOK, RunRec
<1>2. lane'.step # "checkpoint"
  BY <1>0, LaneMoves DEF LaneLeft, LaneGoesOn, FreeLane
<1>3. CASE UNCHANGED run
  BY <1>2, <1>3, RecordUnchanged
<1> USE DEF RecordInv, PlannedInv, HeldInv, GateInv, UndoneInv, CheckpointInv,
            FailedFrom, Becomes, Stays, Working, Reviewed, Holds, Outcome
<1>4. CASE CheckpointFails
  BY <1>0, <1>1, <1>2, <1>3, <1>4, LaneEffects DEF CheckpointFails, LaneAt
<1>5. CASE CheckpointPasses \/ SetMergeMarker \/ CheckpointAsksFix
  BY <1>0, <1>1, <1>2, <1>5, LaneEffects DEF AllDone
<1>6. CASE CheckpointAsksReplan \/ CheckpointAtLimit
  BY <1>0, <1>1, <1>2, <1>3, <1>6, LaneEffects, ResetNotRunning
<1>7. CASE RecordDone
  <2>1. ASSUME Holds(lane.issue), lane.path = "report",
               run.status = "EXECUTING", AllDone(Outcome("done")),
               Becomes("INTEGRATION_REVIEW", "none", Outcome("done"))
        PROVE  RecordInv'
    BY <1>0, <1>1, <1>2, <2>1 DEF AllDone
  <2>2. ASSUME Holds(lane.issue), Stays(Outcome("done"))
        PROVE  RecordInv'
    BY <1>0, <1>1, <1>2, <2>2 DEF AllDone
  <2> QED BY <1>0, <1>3, <1>7, <2>1, <2>2, LaneEffects
<1>8. CASE RecordFailed
  <2>1. ASSUME Holds(lane.issue), lane.path = "report",
               Becomes("FAILED", run.status, Outcome("failed"))
        PROVE  RecordInv'
    <3>1. run.status = "EXECUTING"
      BY <1>0, <1>1, <1>8, <2>1 DEF RecordFailed, LaneAt, ReportInv
    <3> QED BY <1>0, <1>1, <1>2, <2>1, <3>1
  <2>2. ASSUME Holds(lane.issue), Stays(Outcome("failed"))
        PROVE  RecordInv'
    BY <1>0, <1>1, <1>2, <2>2 DEF AllDone
  <2>3. \/ UNCHANGED run
        \/ lane.path = "report" /\ Becomes("FAILED", run.status,
                                           Outcome("failed"))
        \/ Stays(Outcome("failed"))
    BY <1>0, <1>8 DEF RecordFailed, Recorded, Moved, RunRec
  <2> QED BY <1>0, <1>3, <1>8, <2>1, <2>2, <2>3, LaneEffects
<1>9. CASE Settle
  BY <1>0, <1>1, <1>2, <1>3, <1>9, LaneEffects DEF AllDone
<1> QED
  BY <1>0, <1>3, <1>4, <1>5, <1>6, <1>7, <1>8, <1>9, LaneEffects
     DEF LaneSystem

LEMMA RecordReview ==
  ASSUME Inductive, RecordInv, ReviewRequest \/ ReviewSystem
  PROVE  RecordInv'
<1>0. TypeOK /\ FinInv /\ LaneInv /\ run.exec \in [Issues -> ExecStatus]
  BY DEF Inductive, MergeInv, TypeOK, RunRec
<1>1. UNCHANGED lane /\ (lane.step # "free" => lane.issue \in Issues)
  BY <1>0 DEF ReviewRequest, ReviewSystem, ReviewerReturns, ReviewerFails,
              ReviewDecided, LaneInv
<1>2. CASE UNCHANGED run
  BY <1>1, <1>2, RecordUnchanged
<1> USE DEF RecordInv, PlannedInv, HeldInv, GateInv, UndoneInv, CheckpointInv,
            FailedFrom, Becomes, Working, Reviewed, Holds
<1>3. CASE ReviewerFails
  BY <1>0, <1>1, <1>2, <1>3, ReviewEffects
<1>4. CASE ReviewDecided
  <2>1. ASSUME run.status = "INTEGRATION_REVIEW",
               NEW to \in {"EXECUTING", "WAITING_DECISION"},
               Becomes(to, "none", Reworked(run, fin.rework).exec)
        PROVE  RecordInv'
    <3>1. \A i \in Issues : Reworked(run, fin.rework).exec[i] # "running"
      BY <1>0, <2>1 DEF Reworked, AllDone, TypeOK, RunRec
    <3> QED BY <1>1, <2>1, <3>1
  <2> QED BY <1>0, <1>1, <1>2, <1>4, <2>1, ReviewEffects
<1> QED BY <1>0, <1>2, <1>3, <1>4, ReviewEffects DEF ReviewSystem

LEMMA RecordControl ==
  ASSUME Inductive, RecordInv, UserStep \/ CrashRestart
  PROVE  RecordInv'
<1>0. /\ TypeOK /\ ClientChecks /\ LaneInv
      /\ run.exec \in [Issues -> ExecStatus] /\ run \in RunRec
  BY DEF Inductive, TypeOK, RunRec
<1>1. lane.step # "free" => lane.issue \in Issues
  BY <1>0 DEF LaneInv
<1> USE DEF RecordInv, PlannedInv, HeldInv, GateInv, UndoneInv, CheckpointInv,
            FailedFrom, Becomes, Stays, Working, Reviewed, Holds
<1>2. CASE Cancel \/ Pause \/ Takeover
  <2>1. lane'.step = "checkpoint" => lane'.aborted
    BY <1>0, <1>2 DEF Cancel, Pause, Takeover, AbortsWork, TypeOK, LaneRec
  <2> QED BY <1>0, <1>2, <2>1, ControlEffects, ResetNotRunning
<1>3. CASE Resume \/ Release \/ HumanAccept
  <2>1. UNCHANGED lane
    BY <1>3 DEF Resume, Release, HumanAccept, memory
  <2> QED BY <1>0, <1>1, <1>3, <2>1, ControlEffects
<1>4. CASE RetryIssues
  BY <1>0, <1>1, <1>4, ControlEffects, ResetNotRunning DEF RetryIssues
<1>5. CASE RetryRun
  <2>1. UNCHANGED lane
    BY <1>5 DEF RetryRun
  <2>2. run.status = "FAILED" /\ RetryTarget = run.failedFrom
    BY <1>5 DEF RetryRun, RetryTarget
  <2> QED
    BY <1>0, <1>1, <1>5, <2>1, <2>2, ControlEffects, ResetNotRunning
       DEF AllDone
<1>6. CASE HumanRework
  BY <1>0, <1>1, <1>6, ControlEffects DEF HumanRework, AllPending, AllDone
<1>7. CASE CrashRestart
  <2>1. lane'.step = "free"
    BY <1>7 DEF CrashRestart, FreeLane
  <2> QED BY <1>0, <1>7, <2>1, ControlEffects, ResetNotRunning
<1> QED
  BY <1>2, <1>3, <1>4, <1>5, <1>6, <1>7 DEF UserStep

LEMMA RecordStep == Inductive /\ RecordInv /\ [Next]_vars => RecordInv'
<1> SUFFICES ASSUME Inductive, RecordInv, [Next]_vars PROVE RecordInv'
  OBVIOUS
<1>1. CASE UNCHANGED vars
  BY <1>1, RecordUnchanged DEF vars, memory, RecordInv, CheckpointInv
<1> QED
  BY <1>1, RecordPlanning, RecordWave, RecordLane, RecordReview,
     RecordControl
     DEF Next, RequestStep, ExecutionSystem

LEMMA RecordInvariant == Spec /\ ClientChecks => [](Inductive /\ RecordInv)
BY InductiveInit, InductiveStep, RecordInit, RecordStep, PTL DEF Spec

\* Nothing incomplete is reviewed, shown to a human or accepted, for any
\* plan, number of executors, configuration and failures, as long as clients
\* send what they are offered.
THEOREM ReviewedIsComplete == Spec /\ ClientChecks => []ReviewGate
<1>1. RecordInv => ReviewGate
  BY DEF RecordInv, GateInv, PlannedInv, ReviewGate, Reviewed, AllDone,
         IssuesIn
<1> QED BY <1>1, RecordInvariant, PTL

-----------------------------------------------------------------------------
(* The claims: every executor still at work is either wanted or aborted.   *)

Live(i) == pc[i] \in {"slot", "executing"}

\* Outside a running wave nothing executes and nothing is left of an abort.
WaveInv ==
  /\ flow # "running" =>
       \A i \in Issues : /\ pc[i] \in {"idle", "claimed", "prepared"}
                         /\ ~aborted[i]
  /\ flow \in {"none", "starting", "claiming"} =>
       \A i \in Issues : pc[i] = "idle"

\* An executor, or a claim waiting for its slot, that nobody aborted works on
\* an issue the record counts as running.
LiveInv == \A i \in Issues : Live(i) /\ ~aborted[i] => Holds(i)

\* An abort comes with the reset of every running issue, and no issue is
\* claimed again before the wave has ended.
AbortInv ==
  /\ (\E i \in Issues : aborted[i]) \/ lane.aborted =>
       \A j \in Issues : ~Holds(j)
  /\ lane.aborted => lane.step = "checkpoint"

ClaimInv == WaveInv /\ LiveInv /\ AbortInv

LEMMA ClaimInit == Init => ClaimInv
BY DEF Init, ClaimInv, WaveInv, LiveInv, AbortInv, Live, FreeLane

\* A step that starts nothing, aborts nothing and resets nothing is harmless.
LEMMA ClaimUnchanged ==
  ASSUME ClaimInv, UNCHANGED <<flow, pc, aborted, lane>>,
         \A i \in Issues : Holds(i)' <=> Holds(i)
  PROVE  ClaimInv'
BY DEF ClaimInv, WaveInv, LiveInv, AbortInv, Live

\* Neither is one that resets every running issue and aborts every executor.
LEMMA ClaimReset ==
  ASSUME TypeOK, ClaimInv, UNCHANGED <<flow, pc>>,
         aborted' = ExecutorsAborted, lane'.step = lane.step,
         lane'.aborted => lane.step = "checkpoint",
         \A i \in Issues : ~Holds(i)'
  PROVE  ClaimInv'
BY DEF TypeOK, ClaimInv, WaveInv, LiveInv, AbortInv, Live, ExecutorsAborted

LEMMA ClaimPlanning ==
  ASSUME Inductive, RecordInv, ClaimInv, PlanRequest \/ PlanningSystem
  PROVE  ClaimInv'
<1>0. TypeOK /\ PlanFlowInv /\ HeldInv
  BY DEF Inductive, MergeInv, RecordInv
<1>1. UNCHANGED <<pc, aborted, lane>>
  BY DEF PlanRequest, PlanningSystem, PlanStarted, PlanPublished,
         PlannerFails, PlannerStale, PermissionAsked, ReplanCleanup,
         ReworkCleanup, notPlanning
<1>2. CASE PlanPublished
  <2>1. run.status = "PLANNING" /\ run'.exec = AllPending
    BY <1>0, <1>2, PlanningEffects DEF PlanPublished
  <2>2. \A i \in Issues : ~Holds(i) /\ ~Holds(i)'
    BY <1>0, <2>1 DEF HeldInv, FailedFrom, Holds, AllPending
  <2>3. flow' = flow \/ (flow = "none" /\ flow' = "starting")
    BY <1>2 DEF PlanPublished
  <2> QED
    BY <1>1, <2>2, <2>3 DEF ClaimInv, WaveInv, LiveInv, AbortInv, Live
<1>3. ASSUME ~PlanPublished
      PROVE  UNCHANGED flow /\ \A i \in Issues : Holds(i)' <=> Holds(i)
  <2>1. UNCHANGED flow
    BY <1>3 DEF PlanRequest, PlanningSystem, PlanStarted, PlannerFails,
                PlannerStale, PermissionAsked, ReplanCleanup, ReworkCleanup
  <2>2. run'.exec = run.exec
    BY <1>0, <1>3, PlanningEffects
       DEF PlanningSystem, Becomes, PermissionAsked, PlanFlowInv
  <2> QED BY <2>1, <2>2 DEF Holds
<1> QED BY <1>1, <1>2, <1>3, ClaimUnchanged

LEMMA ClaimWaves ==
  ASSUME Inductive, RecordInv, ClaimInv,
         \/ ExecuteRequest \/ ExecutionStarted \/ BaseCaptureFails
         \/ EnsureFlow \/ ClaimWave
         \/ StartWave \/ EndWave \/ \E i \in Issues : ClaimSystem(i)
  PROVE  ClaimInv'
<1>0. TypeOK /\ StartInv /\ LaneInv /\ run.exec \in [Issues -> ExecStatus]
      /\ pc \in [Issues -> ClaimPc] /\ aborted \in [Issues -> BOOLEAN]
  BY DEF Inductive, MergeInv, TypeOK, RunRec
<1> USE DEF ClaimInv, WaveInv, LiveInv, AbortInv, Live
<1>1. CASE ExecuteRequest \/ BaseCaptureFails \/ EnsureFlow
  <2>1. UNCHANGED <<run, pc, aborted, lane>> /\ flow \in {"none", "starting"}
        /\ flow' \in {"none", "starting", "claiming"}
    BY <1>1 DEF ExecuteRequest, BaseCaptureFails, EnsureFlow
  <2> QED BY <2>1 DEF Holds
<1>2. CASE ExecutionStarted
  <2>1. run'.exec = run.exec
    BY <1>0, <1>2, WaveEffects DEF Becomes
  <2> QED BY <1>2, <2>1 DEF ExecutionStarted, Holds
<1>3. CASE ClaimWave
  <2>1. /\ UNCHANGED <<aborted, lane>> /\ lane.step = "free"
        /\ flow = "claiming" /\ flow' \in {"none", "preparing"}
        /\ \A i \in Issues : pc[i] = "idle"
        /\ \A i \in Issues : pc'[i] \in {"idle", "claimed"}
        /\ flow' = "none" => UNCHANGED pc
    BY <1>0, <1>3 DEF ClaimWave, FlowEnds, LaneInv
  <2> QED BY <2>1
<1>4. CASE StartWave
  <2>1. \A i \in Issues : pc'[i] \in {"idle", "slot", "finished"}
    BY <1>4 DEF StartWave
  <2>2. \A i \in Issues : pc'[i] = "slot" => Holds(i)
    BY <1>4 DEF StartWave, Authorized, Holds
  <2>3. /\ UNCHANGED <<run, lane>> /\ flow = "preparing"
        /\ \A i \in Issues : ~aborted'[i]
        /\ \/ flow' = "running"
           \/ flow' = "none" /\ \A i \in Issues : pc'[i] = "idle"
    BY <1>4 DEF StartWave, FlowEnds
  <2>4. lane.step = "free"
    BY <1>0, <2>3 DEF LaneInv
  <2> QED BY <2>1, <2>2, <2>3, <2>4 DEF Holds
<1>5. CASE EndWave
  BY <1>0, <1>5 DEF EndWave, FlowEnds, Holds
<1>6. ASSUME NEW i \in Issues, ClaimSystem(i)
      PROVE  ClaimInv'
  <2>1. CASE PrepareWorktree(i)
    <3>1. run'.exec = run.exec
      BY <1>0, <2>1, WaveEffects DEF Stays, Becomes
    <3> QED BY <1>0, <2>1, <3>1 DEF PrepareWorktree, Holds
  <2>2. CASE PreparationStops(i)
    BY <1>0, <2>2 DEF PreparationStops, ClaimsDropped, Holds
  <2>3. CASE WorktreeFails(i)
    <3>1. /\ flow = "preparing" /\ UNCHANGED <<flow, aborted, lane>>
          /\ \A j \in Issues : pc'[j] \in {pc[j], "idle"}
      BY <1>0, <2>3 DEF WorktreeFails, ClaimsDropped
    <3>2. lane.step = "free"
      BY <1>0, <3>1 DEF LaneInv
    <3> QED BY <3>1, <3>2
  <2>4. CASE TakeSlot(i)
    BY <1>0, <2>4 DEF TakeSlot, SlotGrants, Holds
  <2>5. CASE \E o \in {"succeeded", "broke"} : ExecutorReturns(i, o)
    BY <1>0, <2>5 DEF ExecutorReturns, Holds
  <2>6. CASE EnterLane(i)
    <3>1. ~lane'.aborted
      BY <2>6 DEF EnterLane, FreeLane
    <3> QED BY <2>6, <3>1 DEF EnterLane, Holds
  <2> QED
    BY <1>6, <2>1, <2>2, <2>3, <2>4, <2>5, <2>6 DEF ClaimSystem
<1> QED BY <1>1, <1>2, <1>3, <1>4, <1>5, <1>6

LEMMA ClaimLane ==
  ASSUME Inductive, RecordInv, ClaimInv, LaneSystem
  PROVE  ClaimInv'
<1>0. /\ TypeOK /\ LaneInv /\ ReportInv /\ MergeIsExclusive
      /\ run.exec \in [Issues -> ExecStatus] /\ run \in RunRec
      /\ pc \in [Issues -> ClaimPc] /\ pc[lane.issue] \notin {"slot", "executing"}
  BY LaneMoves DEF Inductive, MergeInv, TypeOK, RunRec, LaneInv
<1>1. /\ flow = "running" /\ flow' = "running" /\ ~lane'.aborted
      /\ lane.issue \in Issues
      /\ \A i \in Issues : Live(i)' => Live(i) /\ i # lane.issue
  BY <1>0, LaneMoves
     DEF LaneLeft, LaneGoesOn, FreeLane, Live, ClaimInv, AbortInv
<1>2. CASE CheckpointAsksReplan \/ CheckpointAtLimit
  <2>1. CASE UNCHANGED run
    <3>1. UNCHANGED aborted
      BY <1>0, <1>2, <2>1, ZenonT(60)
         DEF CheckpointAsksReplan, CheckpointAtLimit, Moved, RunRec,
             CanTransition, Successors
    <3> QED BY <1>1, <2>1, <3>1
            DEF ClaimInv, WaveInv, LiveInv, AbortInv, Holds
  <2>2. CASE ~UNCHANGED run
    <3>1. aborted' = ExecutorsAborted
      BY <1>2, <2>2
         DEF CheckpointAsksReplan, CheckpointAtLimit, AbortedByReplan
    <3>2. \A i \in Issues : ~Holds(i)'
      BY <1>0, <1>2, <2>2, LaneEffects, ResetNotRunning DEF Becomes, Holds
    <3> QED
      BY <1>0, <1>1, <3>1, <3>2
         DEF ClaimInv, WaveInv, LiveInv, AbortInv, Live, ExecutorsAborted
  <2> QED BY <2>1, <2>2
<1>3. ASSUME ~CheckpointAsksReplan, ~CheckpointAtLimit
      PROVE  ClaimInv'
  <2>1. UNCHANGED aborted
    BY <1>3 DEF LaneSystem, CheckpointReturns, CheckpointFails,
       CheckpointPasses, CheckpointAsksFix, SetMergeMarker, MergeMarkerBusy,
       MergeSucceeds, MergeFails, RecordDone, RecordFailed, Settle
  <2>2. /\ \A i \in Issues : Holds(i)' => Holds(i)
        /\ \A i \in Issues \ {lane.issue} : Holds(i) => Holds(i)'
    BY <1>0, <1>3, LaneEffects
       DEF LaneSystem, Becomes, Stays, Outcome, Holds
  <2> QED
    BY <1>1, <2>1, <2>2 DEF ClaimInv, WaveInv, LiveInv, AbortInv, Live
<1> QED BY <1>2, <1>3

LEMMA ClaimReview ==
  ASSUME Inductive, RecordInv, ClaimInv, ReviewRequest \/ ReviewSystem
  PROVE  ClaimInv'
<1>0. /\ TypeOK /\ FinInv /\ HeldInv /\ run \in RunRec
      /\ UNCHANGED <<flow, pc, lane>>
  BY DEF Inductive, MergeInv, RecordInv, TypeOK, ReviewRequest, ReviewSystem,
         ReviewerReturns, ReviewerFails, ReviewDecided
<1>1. CASE UNCHANGED <<run, aborted>>
  BY <1>0, <1>1, ClaimUnchanged DEF Holds
<1>2. CASE ~UNCHANGED <<run, aborted>>
  <2>1. run.status = "INTEGRATION_REVIEW"
    BY <1>0, <1>2, ReviewEffects
       DEF FinInv, ReviewRequest, ReviewSystem, ReviewerReturns,
           ReviewerFails, ReviewDecided, CanTransition, Successors, Terminal,
           Target, ReviewFailed
  <2>2. \A i \in Issues : ~Holds(i) /\ ~Holds(i)'
    <3>1. \A i \in Issues : ~Holds(i)
      BY <1>0, <2>1 DEF HeldInv, FailedFrom
    <3>2. \A i \in Issues : run'.exec[i] \in {run.exec[i], "pending"}
      <4>1. \A i \in Issues :
              Reworked(run, fin.rework).exec[i] \in {run.exec[i], "pending"}
        BY <1>0 DEF Reworked, RunRec
      <4> QED
        BY <1>0, <4>1, ReviewEffects DEF ReviewSystem, Becomes
    <3> QED BY <3>1, <3>2 DEF Holds
  <2>3. CASE UNCHANGED aborted
    BY <1>0, <2>2, <2>3, ClaimUnchanged
  <2>4. CASE aborted' = ExecutorsAborted
    BY <1>0, <2>2, <2>4, ClaimReset DEF ClaimInv, AbortInv
  <2>5. UNCHANGED aborted \/ aborted' = ExecutorsAborted
    BY DEF ReviewRequest, ReviewSystem, ReviewerReturns, ReviewerFails,
           ReviewDecided
  <2> QED BY <2>3, <2>4, <2>5
<1> QED BY <1>1, <1>2

LEMMA ClaimControl ==
  ASSUME Inductive, RecordInv, ClaimInv, UserStep \/ CrashRestart
  PROVE  ClaimInv'
<1>0. /\ TypeOK /\ ClientChecks /\ HeldInv /\ run \in RunRec
      /\ lane \in LaneRec
  BY DEF Inductive, RecordInv, TypeOK
<1>1. CASE Cancel \/ Pause \/ Takeover
  <2>1. UNCHANGED <<flow, pc>> /\ AbortsWork
    BY <1>1 DEF Cancel, Pause, Takeover
  <2>2. /\ aborted' = ExecutorsAborted /\ lane'.step = lane.step
        /\ lane'.aborted => lane.step = "checkpoint"
    BY <1>0, <2>1 DEF AbortsWork, AbortedByControl, LaneRec, ClaimInv, AbortInv
  <2>3. \A i \in Issues : ~Holds(i)'
    BY <1>0, <1>1, ControlEffects, ResetNotRunning DEF Becomes, Holds
  <2> QED BY <1>0, <2>1, <2>2, <2>3, ClaimReset
<1>2. CASE Resume \/ Release \/ HumanAccept \/ HumanRework
  <2>1. \A i \in Issues : ~Holds(i) /\ ~Holds(i)'
    BY <1>0, <1>2, ControlEffects
       DEF HeldInv, FailedFrom, Becomes, Holds, AllPending
  <2>2. UNCHANGED <<flow, pc, lane>>
    BY <1>2 DEF Resume, Release, HumanAccept, HumanRework, memory
  <2>3. UNCHANGED aborted \/ aborted' = ExecutorsAborted
    BY <1>2 DEF Resume, Release, HumanAccept, HumanRework, memory
  <2> QED
    BY <1>0, <2>1, <2>2, <2>3, ClaimUnchanged, ClaimReset
       DEF ClaimInv, AbortInv
<1>3. CASE RetryIssues \/ RetryRun
  <2>1. \A i \in Issues : Holds(i)' <=> Holds(i)
    BY <1>0, <1>3, ControlEffects, ResetNotRunning DEF Becomes, Stays, Holds
  <2> QED
    BY <1>3, <2>1, ClaimUnchanged DEF RetryIssues, RetryRun
<1>4. CASE CrashRestart
  BY <1>4 DEF CrashRestart, FreeLane, ClaimInv, WaveInv, LiveInv, AbortInv,
              Live
<1> QED BY <1>1, <1>2, <1>3, <1>4 DEF UserStep

LEMMA ClaimStep ==
  Inductive /\ RecordInv /\ ClaimInv /\ [Next]_vars => ClaimInv'
<1> SUFFICES ASSUME Inductive, RecordInv, ClaimInv, [Next]_vars
             PROVE  ClaimInv'
  OBVIOUS
<1>1. CASE UNCHANGED vars
  BY <1>1, ClaimUnchanged DEF vars, memory, Holds
<1> QED
  BY <1>1, ClaimPlanning, ClaimWaves, ClaimLane, ClaimReview, ClaimControl
     DEF Next, RequestStep, ExecutionSystem

LEMMA ClaimInvariant ==
  Spec /\ ClientChecks => [](Inductive /\ RecordInv /\ ClaimInv)
BY RecordInvariant, ClaimInit, ClaimStep, PTL DEF Spec

\* Whoever stops a run or sends it back to planning has aborted every
\* executor and every claim that waits for a slot, wherever the wave was.
THEOREM StoppedRunsAreAborted ==
  Spec /\ ClientChecks => []StoppedMeansAborted
<1>1. RecordInv /\ ClaimInv => StoppedMeansAborted
  BY DEF RecordInv, HeldInv, FailedFrom, ClaimInv, LiveInv, Live,
         StoppedMeansAborted
<1> QED BY <1>1, ClaimInvariant, PTL

\* And no executor starts for such a run later: an aborted claim that is
\* granted a slot gives it back.
THEOREM StoppedRunsStartNothing == Spec /\ ClientChecks => NoLateExecutor
<1> DEFINE Starts(i) == pc[i] # "executing" /\ pc'[i] = "executing"
<1>1. ASSUME Inductive, RecordInv, ClaimInv, [Next]_vars,
             NEW i \in Issues, Starts(i)
      PROVE  run.status \in {"EXECUTING", "FAILED"}
  <2>0. pc \in [Issues -> ClaimPc] /\ TypeOK /\ LaneInv
    BY <1>1 DEF Inductive, TypeOK
  <2>1. TakeSlot(i)
    <3>1. ~UNCHANGED pc
      BY <1>1
    <3>2. PlanningSystem \/ ReviewSystem \/ RequestStep => UNCHANGED pc
      BY DEF PlanningSystem, PlanStarted, PlanPublished, PlannerFails,
             PlannerStale, PermissionAsked, ReplanCleanup, ReworkCleanup,
             notPlanning, ReviewSystem, ReviewerReturns, ReviewerFails,
             ReviewDecided, RequestStep, PlanRequest, ExecuteRequest,
             ReviewRequest, UserStep, Cancel, Pause, Takeover, Resume,
             Release, RetryIssues, RetryRun, HumanAccept, HumanRework, memory
    <3>3. CrashRestart \/ ExecutionStarted \/ BaseCaptureFails
          \/ EnsureFlow => ~Starts(i)
      BY DEF CrashRestart, ExecutionStarted, BaseCaptureFails, EnsureFlow
    <3>6. ClaimWave \/ StartWave \/ EndWave => ~Starts(i)
      <4>1. ClaimWave => UNCHANGED pc \/ pc'[i] \in {"claimed", "idle"}
        BY DEF ClaimWave
      <4> QED BY <4>1 DEF StartWave, EndWave
    <3>7. LaneSystem => ~Starts(i)
      BY <2>0, LaneMoves DEF LaneLeft, LaneGoesOn
    <3>4. ASSUME NEW j \in Issues, ClaimSystem(j), ~TakeSlot(j)
          PROVE  ~Starts(i)
      BY <2>0, <3>4 DEF ClaimSystem, PrepareWorktree, PreparationStops,
         WorktreeFails, ClaimsDropped, ExecutorReturns, EnterLane
    <3>5. ASSUME NEW j \in Issues, TakeSlot(j)
          PROVE  TakeSlot(i)
      <4>1. i # j => pc'[i] = pc[i]
        BY <2>0, <3>5 DEF TakeSlot
      <4> QED BY <1>1, <3>5, <4>1
    <3> QED
      BY <1>1, <3>1, <3>2, <3>3, <3>4, <3>5, <3>6, <3>7
         DEF Next, ExecutionSystem, vars, memory
  <2>2. Live(i) /\ ~aborted[i]
    BY <1>1, <2>0, <2>1 DEF TakeSlot, SlotGrants, Live
  <2> QED
    BY <1>1, <2>2 DEF ClaimInv, LiveInv, RecordInv, HeldInv, FailedFrom
<1>2. Inductive /\ RecordInv /\ ClaimInv /\ [Next]_vars =>
        [\A i \in Issues : pc[i] # "executing" /\ pc'[i] = "executing" =>
           run.status \in {"EXECUTING", "FAILED"}]_vars
  BY <1>1
<1> QED BY <1>2, ClaimInvariant, PTL DEF Spec, NoLateExecutor

-----------------------------------------------------------------------------
(* The planner: it never works beside an executor.                         *)

Quiet == \A i \in Issues : ~Live(i)

\* Executors outlive the run's execution only while it is stopped, has failed
\* executing, or waits for the clean-up that precedes its next plan; the
\* planner starts after that clean-up, which waits for the wave to end.
QuietInv ==
  /\ run.status \in {"RECEIVED", "READY"} \cup Reviewed => Quiet
  /\ run.status = "PLANNING" /\ cleanup # "replan" => Quiet
  /\ FailedFrom("PLANNING") \/ FailedFrom("INTEGRATION_REVIEW") => Quiet
  /\ planFlow = "planning" =>
       Quiet /\ run.status \in {"PLANNING", "CANCELLED"}
  /\ cleanup = "replan" =>
       planFlow = "none" /\ run.status \in {"PLANNING", "CANCELLED"}

\* Only the start of a wave gives claims to executors.
LEMMA LiveMoves ==
  ASSUME TypeOK, LaneInv, Next
  PROVE  /\ ~StartWave => \A i \in Issues : Live(i)' => Live(i)
         /\ StartWave => /\ UNCHANGED <<run, planFlow, cleanup>>
                         /\ run.status # "EXECUTING" => Quiet'
<1>0. pc \in [Issues -> ClaimPc]
  BY DEF TypeOK
<1>1. PlanningSystem \/ ReviewSystem \/ RequestStep => UNCHANGED pc
  BY DEF PlanningSystem, PlanStarted, PlanPublished, PlannerFails,
         PlannerStale, PermissionAsked, ReplanCleanup, ReworkCleanup,
         notPlanning, ReviewSystem, ReviewerReturns, ReviewerFails,
         ReviewDecided, RequestStep, PlanRequest, ExecuteRequest,
         ReviewRequest, UserStep, Cancel, Pause, Takeover, Resume,
         Release, RetryIssues, RetryRun, HumanAccept, HumanRework, memory
<1>2. CrashRestart \/ ClaimWave \/ EndWave \/ ExecutionStarted
      \/ BaseCaptureFails \/ EnsureFlow
        => \A i \in Issues : pc'[i] \in {pc[i], "idle", "claimed"}
  BY DEF CrashRestart, ClaimWave, EndWave, ExecutionStarted, BaseCaptureFails,
         EnsureFlow
<1>3. LaneSystem => \A i \in Issues : Live(i)' => Live(i)
  BY <1>0, LaneMoves DEF LaneLeft, LaneGoesOn, Live
<1>4. ASSUME NEW j \in Issues, ClaimSystem(j)
      PROVE  \A i \in Issues : Live(i)' => Live(i)
  BY <1>0, <1>4 DEF ClaimSystem, PrepareWorktree, PreparationStops,
     WorktreeFails, ClaimsDropped, TakeSlot, ExecutorReturns, EnterLane, Live
<1>5. StartWave => /\ UNCHANGED <<run, planFlow, cleanup>>
                   /\ run.status # "EXECUTING" => Quiet'
  BY DEF StartWave, Authorized, Quiet, Live
<1> QED
  BY <1>1, <1>2, <1>3, <1>4, <1>5 DEF Next, ExecutionSystem, Live

LEMMA QuietInit == Init => QuietInv
BY DEF Init, QuietInv, SubmittedRun, FailedFrom, Quiet, Live

LEMMA QuietPlanning ==
  ASSUME Inductive, RecordInv, ClaimInv, QuietInv, Quiet => Quiet',
         PlanRequest \/ PlanningSystem
  PROVE  QuietInv'
<1>0. /\ TypeOK /\ PlanFlowInv
      /\ planFlow \in {"none", "starting", "planning", "permission"}
  BY DEF Inductive, MergeInv, TypeOK
<1> USE DEF QuietInv, FailedFrom, Reviewed
<1>1. CASE PlanRequest
  BY <1>0, <1>1 DEF PlanRequest
<1>2. CASE PlanStarted
  <2>1. run.status \in {"RECEIVED", "CANCELLED"} /\ cleanup # "replan"
    BY <1>0, <1>2 DEF PlanStarted, PlanFlowInv
  <2>2. run.status = "CANCELLED" => UNCHANGED run /\ planFlow' = "none"
    BY <1>2 DEF PlanStarted, CanTransition, Successors, Terminal
  <2>3. run.status = "RECEIVED" => run'.status = "PLANNING" /\ Quiet
    <3>1. CanTransition("RECEIVED", "PLANNING")
      BY DEF CanTransition, Successors, Terminal
    <3>2. run.status = "RECEIVED" => run'.status = "PLANNING"
      BY <1>0, <1>2, <3>1 DEF PlanStarted, Moved, TypeOK, RunRec
    <3> QED BY <3>2
  <2>4. planFlow' \in {"none", "planning"} /\ UNCHANGED cleanup
    BY <1>2 DEF PlanStarted
  <2> QED BY <2>1, <2>2, <2>3, <2>4
<1>3. CASE PlanPublished
  BY <1>0, <1>3, PlanningEffects DEF PlanPublished
<1>4. CASE PlannerFails
  BY <1>0, <1>4, PlanningEffects DEF PlannerFails, Becomes
<1>5. CASE PlannerStale
  BY <1>0, <1>5 DEF PlannerStale
<1>6. CASE PermissionAsked
  BY <1>0, <1>6, PlanningEffects DEF PermissionAsked, PlanFlowInv, Becomes
<1>7. CASE ReplanCleanup
  <2>1. Quiet
    BY <1>7 DEF ReplanCleanup, ReplanMayCleanUp, ClaimInv, WaveInv, Quiet,
                Live
  <2> QED BY <1>7, <2>1 DEF ReplanCleanup, PlanFlowAfter
<1>8. CASE ReworkCleanup
  BY <1>8 DEF ReworkCleanup, PlanFlowAfter
<1> QED
  BY <1>1, <1>2, <1>3, <1>4, <1>5, <1>6, <1>7, <1>8 DEF PlanningSystem

LEMMA QuietWave ==
  ASSUME Inductive, RecordInv, ClaimInv, QuietInv, Quiet => Quiet',
         \/ ExecuteRequest \/ ExecutionStarted \/ BaseCaptureFails
         \/ EnsureFlow \/ ClaimWave
         \/ EndWave \/ \E i \in Issues : ClaimSystem(i)
  PROVE  QuietInv'
<1>0. TypeOK /\ StartInv
  BY DEF Inductive, MergeInv
<1>1. UNCHANGED <<planFlow, cleanup>>
  BY DEF ExecuteRequest, ExecutionStarted, BaseCaptureFails, EnsureFlow,
         ClaimWave, EndWave,
         ClaimSystem, PrepareWorktree, PreparationStops, WorktreeFails,
         TakeSlot, ExecutorReturns, EnterLane
<1>2. \/ run'.status = run.status /\ run'.failedFrom = run.failedFrom
      \/ /\ run.status \in {"READY", "PAUSED", "WAITING_PERMISSION"}
         /\ run'.status = "EXECUTING"
      \/ /\ run.status = "EXECUTING"
         /\ run'.status = "FAILED" /\ run'.failedFrom = "EXECUTING"
  BY <1>0, WaveEffects DEF ClaimSystem, Becomes, Stays
<1> QED BY <1>1, <1>2 DEF QuietInv, FailedFrom, Reviewed

\* What a lane step does to the status, and to the flows beside it.
LaneStatus ==
  \/ run'.status = run.status /\ run'.failedFrom = run.failedFrom
     /\ UNCHANGED cleanup
  \/ run.status = "EXECUTING" /\ run'.status = "FAILED"
     /\ run'.failedFrom = "EXECUTING" /\ UNCHANGED cleanup
  \/ run.status = "EXECUTING" /\ run'.status = "PLANNING"
     /\ cleanup' = "replan" /\ CheckpointAsksReplan
  \/ run.status = "EXECUTING" /\ run'.status = "WAITING_DECISION"
     /\ UNCHANGED cleanup
  \/ run.status = "EXECUTING" /\ run'.status = "INTEGRATION_REVIEW"
     /\ UNCHANGED cleanup /\ RecordDone

LEMMA LaneStatusMoves ==
  ASSUME Inductive, RecordInv, LaneSystem
  PROVE  LaneStatus
<1>0. /\ TypeOK /\ LaneInv /\ ReportInv /\ MergeIsExclusive /\ HeldInv
      /\ lane.issue \in Issues /\ run \in RunRec
  BY LaneMoves DEF Inductive, MergeInv, RecordInv, TypeOK
<1> USE DEF LaneStatus, Becomes, Stays
<1>1. CASE CheckpointAsksReplan
  <2>1. UNCHANGED run => UNCHANGED cleanup
    <3>1. CanTransition(run.status, "PLANNING") => run.status # "PLANNING"
      BY DEF CanTransition, Successors
    <3>2. CanTransition(run.status, "PLANNING") => run'.status = "PLANNING"
      BY <1>0, <1>1 DEF CheckpointAsksReplan, Moved, RunRec
    <3> QED BY <1>1, <3>1, <3>2 DEF CheckpointAsksReplan
  <2>2. ~UNCHANGED run => cleanup' = "replan"
    BY <1>1 DEF CheckpointAsksReplan
  <2> QED BY <1>0, <1>1, <2>1, <2>2, LaneEffects
<1>2. ASSUME ~CheckpointAsksReplan
      PROVE  UNCHANGED cleanup
  BY <1>2 DEF LaneSystem, CheckpointReturns, CheckpointFails,
     CheckpointPasses, CheckpointAsksFix, CheckpointAtLimit, SetMergeMarker,
     MergeMarkerBusy, MergeSucceeds, MergeFails, RecordDone, RecordFailed,
     Settle
<1>3. CASE RecordFailed
  <2>1. lane.path = "report" /\ Holds(lane.issue) => run.status = "EXECUTING"
    BY <1>0, <1>3 DEF RecordFailed, LaneAt, ReportInv, HeldInv, FailedFrom
  <2>2. lane.path # "report" => run'.status = run.status
                                /\ run'.failedFrom = run.failedFrom
    BY <1>0, <1>3 DEF RecordFailed, Recorded, RunRec
  <2>3. \/ UNCHANGED run
        \/ /\ Holds(lane.issue)
           /\ \/ Becomes("FAILED", run.status, Outcome("failed"))
              \/ Stays(Outcome("failed"))
    BY <1>0, <1>3, LaneEffects
  <2>4. UNCHANGED cleanup
    BY <1>3 DEF RecordFailed
  <2>5. CASE lane.path = "report"
    BY <2>1, <2>3, <2>4, <2>5
  <2>6. CASE lane.path # "report"
    BY <2>2, <2>4, <2>6
  <2> QED BY <2>5, <2>6
<1> QED
  BY <1>0, <1>1, <1>2, <1>3, LaneEffects DEF LaneSystem, RecordFailed, LaneAt

LEMMA QuietLane ==
  ASSUME Inductive, RecordInv, ClaimInv, QuietInv, Quiet => Quiet', LaneSystem
  PROVE  QuietInv'
<1>0. /\ TypeOK /\ LaneInv /\ PlanFlowInv /\ ReportInv /\ MergeIsExclusive
      /\ planFlow \in {"none", "starting", "planning", "permission"}
  BY DEF Inductive, MergeInv, TypeOK
<1>1. UNCHANGED planFlow
  BY <1>0, LaneMoves
<1>2. run.status = "EXECUTING" => planFlow = "none" /\ cleanup # "replan"
  BY <1>0 DEF QuietInv, PlanFlowInv
\* The last issue is recorded by its own report, so nobody was aborted, and
\* an executor that nobody aborted would still hold its issue.
<1>3. RecordDone /\ run.status = "EXECUTING"
        /\ run'.status = "INTEGRATION_REVIEW" => Quiet'
  <2> SUFFICES ASSUME RecordDone, run.status = "EXECUTING",
                      run'.status = "INTEGRATION_REVIEW",
                      NEW i \in Issues, Live(i)'
               PROVE  FALSE
    BY DEF Quiet
  <2>1. Holds(lane.issue) /\ AllDone(Outcome("done"))
    BY <1>0, LaneEffects DEF Stays, Becomes
  <2>2. Live(i) /\ i # lane.issue
    BY <1>0, LaneMoves DEF LaneInv, LaneLeft, LaneGoesOn, Live, TypeOK
  <2>3. Holds(i)
    BY <1>0, <2>1, <2>2, LaneMoves DEF ClaimInv, AbortInv, LiveInv
  <2> QED
    BY <1>0, <2>1, <2>2, <2>3 DEF AllDone, Outcome, Holds, TypeOK, RunRec
<1> QED
  BY <1>1, <1>2, <1>3, LaneStatusMoves
     DEF LaneStatus, QuietInv, FailedFrom, Reviewed

LEMMA QuietReview ==
  ASSUME Inductive, RecordInv, ClaimInv, QuietInv, Quiet => Quiet',
         ReviewRequest \/ ReviewSystem
  PROVE  QuietInv'
<1>0. /\ TypeOK /\ PlanFlowInv /\ FinInv /\ UNCHANGED planFlow
      /\ planFlow \in {"none", "starting", "planning", "permission"}
  BY DEF Inductive, MergeInv, TypeOK, ReviewRequest, ReviewSystem,
         ReviewerReturns, ReviewerFails, ReviewDecided
<1>1. run.status = "INTEGRATION_REVIEW" =>
        planFlow = "none" /\ cleanup # "replan" /\ Quiet
  BY <1>0 DEF QuietInv, PlanFlowInv, Reviewed
<1> USE DEF QuietInv, FailedFrom, Reviewed
<1>2. CASE ReviewDecided
  <2>1. UNCHANGED cleanup \/ (cleanup' = "replan" /\ run'.status = "PLANNING")
    BY <1>0, <1>2, DecidedStatus DEF ReviewDecided
  <2>2. UNCHANGED run => UNCHANGED cleanup
    <3>1. fin.step = "deciding" /\ CanTransition(run.status, "PLANNING")
            => run.status = "INTEGRATION_REVIEW"
      BY <1>0 DEF FinInv, CanTransition, Successors, Terminal
    <3> QED BY <1>2, <2>1, <3>1 DEF ReviewDecided
  <2> QED BY <1>0, <1>1, <1>2, <2>1, <2>2, ReviewEffects DEF Becomes
<1>3. CASE ~ReviewDecided
  <2>1. UNCHANGED cleanup
    BY <1>3 DEF ReviewRequest, ReviewSystem, ReviewerReturns, ReviewerFails
  <2> QED BY <1>0, <1>1, <1>3, <2>1, ReviewEffects DEF ReviewSystem, Becomes
<1> QED BY <1>2, <1>3

LEMMA QuietControl ==
  ASSUME Inductive, RecordInv, ClaimInv, QuietInv, Quiet => Quiet',
         UserStep \/ CrashRestart
  PROVE  QuietInv'
<1>0. /\ TypeOK /\ ClientChecks /\ PlanFlowInv /\ PlannedInv
      /\ planFlow \in {"none", "starting", "planning", "permission"}
  BY DEF Inductive, MergeInv, RecordInv, TypeOK
<1> USE DEF QuietInv, FailedFrom, Reviewed, Becomes, Stays
<1>1. run.status \in {"PAUSED", "WAITING_DECISION", "WAITING_PERMISSION",
                       "EXECUTING", "FAILED", "AWAITING_HUMAN"} =>
        planFlow = "none" /\ cleanup # "replan"
  BY <1>0 DEF PlanFlowInv
<1>2. CASE Cancel \/ Pause \/ Takeover \/ Release \/ RetryIssues
           \/ HumanAccept
  <2>1. UNCHANGED <<planFlow, cleanup>>
    BY <1>2 DEF Cancel, Pause, Takeover, Release, RetryIssues, HumanAccept,
                memory
  <2> QED BY <1>0, <1>1, <1>2, <2>1, ControlEffects
<1>3. CASE Resume
  <2>1. \/ run'.status = "PLANNING" /\ cleanup' = "replan"
        \/ run'.status = "EXECUTING" /\ UNCHANGED cleanup
    BY <1>0, <1>3 DEF Resume, Moved, TypeOK, RunRec
  <2>2. UNCHANGED planFlow
    BY <1>3 DEF Resume
  <2> QED BY <1>0, <1>1, <1>3, <2>1, <2>2, ControlEffects
<1>4. CASE RetryRun
  <2>1. RetryTarget = run.failedFrom /\ run.status = "FAILED"
    BY <1>0, <1>4 DEF RetryRun, RetryTarget, PlannedInv
  <2>2. UNCHANGED cleanup /\ (UNCHANGED planFlow \/ run'.status = "PLANNING")
    BY <1>4 DEF RetryRun, PlanFlowAfter
  <2> QED BY <1>0, <1>1, <1>4, <2>1, <2>2, ControlEffects DEF PlannedInv
<1>5. CASE HumanRework
  <2>1. cleanup' # "replan"
    BY <1>0, <1>1, <1>5, ControlEffects DEF HumanRework
  <2> QED BY <1>0, <1>1, <1>5, <2>1, ControlEffects
<1>6. CASE CrashRestart
  <2>1. Quiet'
    BY <1>6 DEF CrashRestart, Quiet, Live
  <2>2. /\ planFlow' = "planning" \/ cleanup' = "replan" =>
              run.status = "PLANNING"
        /\ planFlow' = "planning" => cleanup' # "replan"
        /\ planFlow' \in {"none", "planning"}
    BY <1>6 DEF CrashRestart
  <2> QED BY <1>0, <1>6, <2>1, <2>2, ControlEffects
<1> QED BY <1>2, <1>3, <1>4, <1>5, <1>6 DEF UserStep

LEMMA QuietStep ==
  Inductive /\ RecordInv /\ ClaimInv /\ QuietInv /\ [Next]_vars => QuietInv'
<1> SUFFICES ASSUME Inductive, RecordInv, ClaimInv, QuietInv, [Next]_vars
             PROVE  QuietInv'
  OBVIOUS
<1>0. TypeOK /\ LaneInv
  BY DEF Inductive
<1>1. CASE UNCHANGED vars
  BY <1>1 DEF vars, memory, QuietInv, FailedFrom, Quiet, Live
<1>2. CASE StartWave
  BY <1>0, <1>2, LiveMoves DEF Next, ExecutionSystem, QuietInv, FailedFrom,
                               Reviewed
<1>3. CASE Next /\ ~StartWave
  <2>1. Quiet => Quiet'
    BY <1>0, <1>3, LiveMoves DEF Quiet
  <2> QED
    BY <1>3, <2>1, QuietPlanning, QuietWave, QuietLane, QuietReview,
       QuietControl
       DEF Next, RequestStep, ExecutionSystem
<1> QED BY <1>1, <1>2, <1>3

LEMMA QuietInvariant ==
  Spec /\ ClientChecks => [](Inductive /\ RecordInv /\ ClaimInv /\ QuietInv)
BY ClaimInvariant, QuietInit, QuietStep, PTL DEF Spec

\* The planner of a fresh plan, after a replan, a rework, a retry or a
\* restart, never runs beside an executor of the plan it replaces.
THEOREM PlannersAreAlone == Spec /\ ClientChecks => []PlannerIsAlone
<1>1. QuietInv => PlannerIsAlone
  BY DEF QuietInv, Quiet, Live, PlannerIsAlone
<1> QED BY <1>1, QuietInvariant, PTL

-----------------------------------------------------------------------------
(* The dependencies: what a FINAL revision takes back.                     *)

\* Nothing outside S depends on an issue in S.
DependentsIn(S) == \A i \in Issues : Deps[i] \cap S # {} => i \in S

LEMMA ClosureTakesDependents ==
  ASSUME NEW keys \in SUBSET Issues
  PROVE  /\ ReworkClosure(keys) \in SUBSET Issues
         /\ ReworkClosure(keys) # {}
         /\ DependentsIn(ReworkClosure(keys))
<1> DEFINE selected == IF keys = {} THEN Issues ELSE keys
           R == {i \in Issues : \A S \in SUBSET Issues :
                   selected \subseteq S /\ DependentsIn(S) => i \in S}
<1>1. ReworkClosure(keys) = R
  BY DEF ReworkClosure, DependentsIn
<1>2. selected \subseteq R /\ selected # {}
  BY IssuesAssumption
<1>3. ASSUME NEW i \in Issues, NEW d \in Deps[i] \cap R
      PROVE  i \in R
  <2> SUFFICES ASSUME NEW S \in SUBSET Issues, selected \subseteq S,
                      DependentsIn(S)
               PROVE  i \in S
    OBVIOUS
  <2>1. d \in S
    BY <1>3
  <2> QED BY <1>3, <2>1 DEF DependentsIn
<1>4. DependentsIn(R)
  BY <1>3 DEF DependentsIn
<1> HIDE DEF R
<1>5. R \in SUBSET Issues
  BY DEF R
<1> QED BY <1>1, <1>2, <1>4, <1>5

\* A decision about to be written has a verdict, and the issues it reworks
\* take their dependents along.
ReworkInv ==
  fin.step = "deciding" =>
    /\ fin.verdict \in Verdicts
    /\ DependentsIn(fin.rework)
    /\ fin.verdict # "PASS" => fin.rework # {}

LEMMA ReworkStep == TypeOK /\ ReworkInv /\ [Next]_vars => ReworkInv'
<1> SUFFICES ASSUME TypeOK, ReworkInv, [Next]_vars
             PROVE  ReworkInv'
  OBVIOUS
<1>0. fin \in FinRec
  BY DEF TypeOK
<1>1. ASSUME NEW v \in Verdicts, NEW keys \in SUBSET Issues,
             ReviewerReturns(v, keys)
      PROVE  ReworkInv'
  <2>1. CASE fin' = IdleReview
    BY <2>1 DEF ReworkInv, IdleReview
  <2>2. CASE fin' = [fin EXCEPT !.step = "deciding", !.verdict = v,
                       !.rework = IF v = "PASS" THEN {}
                                  ELSE ReworkClosure(keys)]
    <3>1. fin'.verdict = v
          /\ fin'.rework = IF v = "PASS" THEN {} ELSE ReworkClosure(keys)
      BY <1>0, <2>2 DEF FinRec
    <3>2. DependentsIn({})
      BY DEF DependentsIn
    <3> QED BY <3>1, <3>2, ClosureTakesDependents DEF ReworkInv
  <2> QED BY <1>1, <2>1, <2>2 DEF ReviewerReturns
<1>2. ASSUME \/ fin' \in {fin, IdleReview, Reviewing}
             \/ fin' = [fin EXCEPT !.aborted = @ \/ fin.step # "idle"]
      PROVE  ReworkInv'
  <2>1. CASE fin' = [fin EXCEPT !.aborted = @ \/ fin.step # "idle"]
    BY <1>0, <2>1 DEF ReworkInv, FinRec
  <2>2. CASE fin' = fin
    BY <2>2 DEF ReworkInv
  <2>3. CASE fin' \in {IdleReview, Reviewing}
    BY <2>3 DEF ReworkInv, IdleReview, Reviewing
  <2> QED BY <1>2, <2>1, <2>2, <2>3
<1>3. PlanningSystem \/ PlanRequest => UNCHANGED fin
  BY DEF PlanRequest, PlanningSystem, PlanStarted, PlanPublished,
         PlannerFails, PlannerStale, PermissionAsked, ReplanCleanup,
         ReworkCleanup, notPlanning
<1>4. ExecuteRequest \/ ExecutionStarted \/ BaseCaptureFails \/ EnsureFlow
      \/ ClaimWave
        \/ StartWave \/ EndWave \/ (\E i \in Issues : ClaimSystem(i))
        => UNCHANGED fin
  BY DEF ExecuteRequest, ExecutionStarted, BaseCaptureFails, EnsureFlow,
         ClaimWave, StartWave,
         EndWave, ClaimSystem, PrepareWorktree, PreparationStops,
         WorktreeFails, TakeSlot, ExecutorReturns, EnterLane
<1>5. LaneSystem => fin' \in {fin, Reviewing}
  BY DEF LaneSystem, CheckpointReturns, CheckpointFails, CheckpointPasses,
         CheckpointAsksFix, CheckpointAsksReplan, CheckpointAtLimit,
         SetMergeMarker, MergeMarkerBusy, MergeSucceeds, MergeFails,
         RecordDone, RecordFailed, Settle, FinAfter
<1>6. ReviewRequest \/ ReviewerFails \/ ReviewDecided \/ CrashRestart
        => fin' \in {IdleReview, Reviewing}
  BY DEF ReviewRequest, ReviewerFails, ReviewDecided, CrashRestart
<1>7. UserStep =>
        \/ fin' \in {fin, Reviewing}
        \/ fin' = [fin EXCEPT !.aborted = @ \/ fin.step # "idle"]
  BY DEF UserStep, Cancel, Pause, Takeover, AbortsWork, Resume, Release,
         RetryIssues, RetryRun, FinAfter, HumanAccept, HumanRework, memory
<1>8. UNCHANGED vars => UNCHANGED fin
  BY DEF vars, memory
<1>9. CASE ReviewSystem \/ ReviewRequest \/ CrashRestart
  BY <1>1, <1>2, <1>6, <1>9 DEF ReviewSystem
<1>10. CASE UserStep
  BY <1>2, <1>7, <1>10
<1>11. CASE \/ PlanningSystem \/ PlanRequest \/ ExecutionSystem
            \/ ExecuteRequest \/ UNCHANGED vars
  <2>1. UNCHANGED fin \/ LaneSystem
    BY <1>3, <1>4, <1>8, <1>11 DEF ExecutionSystem
  <2>2. fin' \in {fin, Reviewing}
    BY <1>5, <2>1
  <2> QED BY <1>2, <2>2
<1> QED BY <1>9, <1>10, <1>11 DEF Next, RequestStep

\* Issues that stop running and issues that get done break no dependency.
LEMMA DependenciesKept ==
  ASSUME DependenciesFirst,
         \A i \in Issues :
           /\ run'.exec[i] \in {"running", "done"} =>
                run.exec[i] \in {"running", "done"}
           /\ run.exec[i] = "done" => run'.exec[i] = "done"
  PROVE  DependenciesFirst'
BY DepsAssumption DEF DependenciesFirst

LEMMA DependenciesStep ==
  Inductive /\ RecordInv /\ ReworkInv /\ DependenciesFirst /\ [Next]_vars
    => DependenciesFirst'
<1> SUFFICES ASSUME Inductive, RecordInv, ReworkInv, DependenciesFirst,
                    [Next]_vars
             PROVE  DependenciesFirst'
  OBVIOUS
<1>0. /\ TypeOK /\ LaneInv /\ PlanFlowInv /\ StartInv /\ FinInv /\ ReportInv
      /\ MergeIsExclusive /\ ClientChecks /\ GateInv /\ run \in RunRec
      /\ run.exec \in [Issues -> ExecStatus]
  BY DEF Inductive, MergeInv, RecordInv, TypeOK, RunRec
<1>1. CASE UNCHANGED run
  BY <1>1 DEF DependenciesFirst
<1>2. CASE run'.exec = AllPending
  BY <1>2 DEF DependenciesFirst, AllPending
<1>3. CASE run'.exec = run.exec
  BY <1>3, DependenciesKept
<1>4. CASE run'.exec \in {ResetRunning(run.exec), RetryFailed(run.exec)}
  BY <1>0, <1>4, DependenciesKept, ResetNotRunning
<1>5. CASE ClaimWave
  <2> SUFFICES ASSUME NEW C \in SUBSET {i \in Issues : Claimable(i)},
                      run'.exec = [i \in Issues |-> IF i \in C THEN "running"
                                                   ELSE run.exec[i]]
               PROVE  DependenciesFirst'
    BY <1>0, <1>1, <1>5, WaveEffects DEF Stays, Becomes
  <2>1. \A d \in Issues : run.exec[d] = "done" => run'.exec[d] = "done"
    BY DEF Claimable
  <2>2. \A i \in C : \A d \in Deps[i] : run.exec[d] = "done"
    BY DEF Claimable
  <2> QED BY <2>1, <2>2, DepsAssumption DEF DependenciesFirst
<1>6. ASSUME NEW i \in Issues, Holds(i),
             \E to \in {"pending", "failed", "done"} :
               run'.exec = [run.exec EXCEPT ![i] = to]
      PROVE  DependenciesFirst'
  BY <1>0, <1>6, DependenciesKept DEF Holds
<1>7. ASSUME run.status = "INTEGRATION_REVIEW", fin.step = "deciding",
             run'.exec = Reworked(run, fin.rework).exec
      PROVE  DependenciesFirst'
  <2>1. \A i \in Issues :
          run'.exec[i] = IF i \in fin.rework THEN "pending" ELSE "done"
    BY <1>0, <1>7 DEF GateInv, Reviewed, AllDone, Reworked, RunRec
  <2>2. DependentsIn(fin.rework)
    BY <1>7 DEF ReworkInv
  <2> QED BY <2>1, <2>2, DepsAssumption DEF DependenciesFirst, DependentsIn
<1>8. CASE PlanningSystem \/ PlanRequest
  BY <1>0, <1>1, <1>2, <1>3, <1>8, PlanningEffects
     DEF PlanningSystem, Becomes, PermissionAsked, PlanFlowInv
<1>9. CASE \/ ExecuteRequest \/ ExecutionStarted \/ BaseCaptureFails
           \/ EnsureFlow \/ StartWave
           \/ EndWave \/ \E i \in Issues : ClaimSystem(i)
  BY <1>0, <1>1, <1>3, <1>6, <1>9, WaveEffects DEF ClaimSystem, Becomes, Stays
<1>10. CASE LaneSystem
  <2>1. lane.issue \in Issues
    BY <1>0, <1>10, LaneMoves
  <2>2. \/ UNCHANGED run \/ run'.exec = run.exec
        \/ run'.exec = ResetRunning(run.exec)
        \/ /\ Holds(lane.issue)
           /\ \E to \in {"pending", "failed", "done"} :
                run'.exec = [run.exec EXCEPT ![lane.issue] = to]
    BY <1>0, <1>10, LaneEffects
       DEF LaneSystem, Becomes, Stays, Outcome
  <2> QED BY <1>1, <1>3, <1>4, <1>6, <2>1, <2>2
<1>11. CASE ReviewSystem \/ ReviewRequest
  BY <1>0, <1>1, <1>3, <1>7, <1>11, ReviewEffects
     DEF ReviewSystem, ReviewDecided, Becomes
<1>12. CASE UserStep \/ CrashRestart
  BY <1>0, <1>1, <1>2, <1>3, <1>4, <1>12, ControlEffects
     DEF UserStep, Becomes, Stays
<1> QED
  BY <1>1, <1>5, <1>8, <1>9, <1>10, <1>11, <1>12
     DEF Next, RequestStep, ExecutionSystem, vars

LEMMA DependenciesInvariant ==
  Spec /\ ClientChecks =>
    [](Inductive /\ RecordInv /\ ReworkInv /\ DependenciesFirst)
<1>1. Init => ReworkInv /\ DependenciesFirst
  BY DEF Init, ReworkInv, DependenciesFirst, IdleReview, SubmittedRun,
         AllPending
<1>2. Inductive => TypeOK
  BY DEF Inductive
<1> QED
  BY <1>1, <1>2, RecordInvariant, ReworkStep, DependenciesStep, PTL DEF Spec

\* For every plan: an issue runs, and is done, only on top of dependencies
\* that are done, through waves, retries, resets and FINAL reworks.
THEOREM DependenciesComeFirst == Spec /\ ClientChecks => []DependenciesFirst
BY DependenciesInvariant, PTL

-----------------------------------------------------------------------------
(* The human: nobody writes to a reviewed run behind its reviewer's back.  *)

\* What the lane still holds when a run is reviewed was reset or recorded:
\* none of its writes takes effect.
LEMMA ReviewedIsLeftAlone ==
  ASSUME Inductive, RecordInv, run.status \in Reviewed, ExecutionSystem
  PROVE  Stays(run.exec) /\ run'.review = run.review
<1>0. /\ TypeOK /\ LaneInv /\ StartInv /\ ReportInv /\ MergeIsExclusive
      /\ \A i \in Issues : ~Holds(i)
  BY DEF Inductive, MergeInv, RecordInv, HeldInv, FailedFrom, Reviewed
<1>1. CASE LaneSystem
  <2>1. lane.issue \in Issues /\ ~Holds(lane.issue)
    BY <1>0, <1>1, LaneMoves
  <2>2. ~CheckpointAsksFix /\ ~CheckpointAsksReplan /\ ~CheckpointAtLimit
    BY <1>0 DEF CheckpointAsksFix, CheckpointAsksReplan, CheckpointAtLimit,
                LaneAt, ReportInv, Reviewed
  <2>3. CheckpointPasses => UNCHANGED run
    BY DEF CheckpointPasses, Reviewed
  <2>4. SetMergeMarker => UNCHANGED run
    BY <2>1 DEF SetMergeMarker, MarkerValid
  <2>5. CheckpointFails => UNCHANGED run
    BY DEF CheckpointFails, Reviewed
  <2>6. RecordDone => UNCHANGED run
    BY <2>1 DEF RecordDone
  <2>7. RecordFailed => UNCHANGED run
    BY <2>1 DEF RecordFailed
  <2>8. Settle => UNCHANGED run
    BY <2>1 DEF Settle
  <2>9. UNCHANGED run
    BY <1>0, <1>1, <2>2, <2>3, <2>4, <2>5, <2>6, <2>7, <2>8, LaneEffects
       DEF LaneSystem
  <2> QED BY <2>9 DEF Stays, Becomes
<1>2. CASE ~LaneSystem
  <2>1. ASSUME NEW i \in Issues, PrepareWorktree(i)
        PROVE  run'.review = run.review
    BY <1>0, <2>1 DEF PrepareWorktree, TypeOK, RunRec
  <2>2. ASSUME NEW i \in Issues, ClaimSystem(i), ~PrepareWorktree(i)
        PROVE  UNCHANGED run
    BY <2>2 DEF ClaimSystem, PreparationStops, WorktreeFails, TakeSlot,
                ExecutorReturns, EnterLane, Reviewed
  <2>3. ExecutionStarted \/ BaseCaptureFails \/ EnsureFlow \/ ClaimWave
        \/ StartWave \/ EndWave
          => UNCHANGED run
    BY <1>0 DEF ExecutionStarted, StartInv, BaseCaptureFails, EnsureFlow,
                ClaimWave, StartWave,
                EndWave, Reviewed
  <2> QED
    BY <1>0, <1>2, <2>1, <2>2, <2>3, WaveEffects
       DEF ExecutionSystem, Stays, Becomes
<1> QED BY <1>1, <1>2 DEF Stays, Becomes

LEMMA HumanStep ==
  Inductive /\ RecordInv /\ HumanSeesFinalPass /\ [Next]_vars
    => HumanSeesFinalPass'
<1> SUFFICES ASSUME Inductive, RecordInv, HumanSeesFinalPass, [Next]_vars
             PROVE  HumanSeesFinalPass'
  OBVIOUS
<1>0. /\ TypeOK /\ LaneInv /\ PlanFlowInv /\ StartInv /\ FinInv /\ ReportInv
      /\ MergeIsExclusive /\ ClientChecks /\ PlannedInv /\ run \in RunRec
  BY DEF Inductive, MergeInv, RecordInv, TypeOK
<1> USE DEF HumanSeesFinalPass, Becomes
<1>1. CASE UNCHANGED run
  BY <1>1
<1>2. CASE PlanningSystem \/ PlanRequest
  BY <1>0, <1>1, <1>2, PlanningEffects
     DEF PlanningSystem, PermissionAsked, PlanFlowInv
<1>3. CASE ExecutionSystem
  <2>1. run.status \notin Reviewed =>
          run'.status \notin {"AWAITING_HUMAN", "ACCEPTED"}
    <3>1. CASE LaneSystem
      BY <3>1, LaneStatusMoves DEF LaneStatus, Reviewed
    <3>2. CASE ~LaneSystem
      BY <1>0, <1>3, <3>2, WaveEffects
         DEF ExecutionSystem, ClaimSystem, Stays, Reviewed
    <3> QED BY <3>1, <3>2
  <2> QED BY <1>3, <2>1, ReviewedIsLeftAlone DEF Stays, Reviewed
<1>4. CASE ReviewSystem
  BY <1>0, <1>1, <1>4, ReviewEffects DEF ReviewSystem, FinalReview
<1>5. CASE ExecuteRequest \/ ReviewRequest
  BY <1>1, <1>5 DEF ExecuteRequest, ReviewRequest
<1>6. CASE UserStep
  <2>1. HumanAccept => run'.review = run.review
    BY <1>0 DEF HumanAccept, Moved, RunRec
  <2>2. RetryRun => RetryTarget = run.failedFrom
    BY <1>0 DEF RetryRun, RetryTarget, PlannedInv
  <2> QED
    BY <1>0, <1>6, <2>1, <2>2, ControlEffects
       DEF UserStep, Stays, PlannedInv
<1>7. CASE CrashRestart
  BY <1>0, <1>1, <1>7, ControlEffects DEF Stays
<1> QED
  BY <1>1, <1>2, <1>3, <1>4, <1>5, <1>6, <1>7 DEF Next, RequestStep, vars

\* The work a human decides on, and accepts, is the work the last FINAL
\* review passed, however many plans, revisions and restarts came before.
THEOREM HumansSeePassedWork == Spec /\ ClientChecks => []HumanSeesFinalPass
<1>1. Init => HumanSeesFinalPass
  BY DEF Init, HumanSeesFinalPass, SubmittedRun
<1> QED BY <1>1, RecordInvariant, HumanStep, PTL DEF Spec

-----------------------------------------------------------------------------
(* The branch: what the record calls done is on it.                        *)

\* The run has a plan whose work is kept: nothing but a new plan discards it.
Kept == \/ run.status \in Working \cup Reviewed
        \/ FailedFrom("EXECUTING")
        \/ FailedFrom("INTEGRATION_REVIEW")

\* Only a publication gives a run work to keep.
LEMMA KeptMoves ==
  ASSUME Inductive, RecordInv, [Next]_vars, Kept'
  PROVE  Kept \/ PlanPublished
<1>0. /\ TypeOK /\ PlanFlowInv /\ StartInv /\ FinInv /\ ClientChecks
      /\ PlannedInv
  BY DEF Inductive, MergeInv, RecordInv
<1> USE DEF Kept, FailedFrom, Becomes, Stays, Working, Reviewed
<1>1. CASE UNCHANGED run
  BY <1>1
<1>2. CASE PlanningSystem \/ PlanRequest
  BY <1>0, <1>1, <1>2, PlanningEffects
     DEF PlanningSystem, PermissionAsked, PlanStarted, PlanFlowInv
<1>3. CASE LaneSystem
  BY <1>3, LaneStatusMoves DEF LaneStatus
<1>4. CASE (ExecutionSystem \/ ExecuteRequest) /\ ~LaneSystem
  BY <1>0, <1>1, <1>4, WaveEffects DEF ExecutionSystem, ClaimSystem
<1>5. CASE ReviewSystem \/ ReviewRequest
  BY <1>0, <1>1, <1>5, ReviewEffects DEF ReviewSystem
<1>6. CASE UserStep \/ CrashRestart
  <2>1. RetryRun => RetryTarget = run.failedFrom
    BY <1>0 DEF RetryRun, RetryTarget, PlannedInv
  <2> QED BY <1>0, <1>1, <1>6, <2>1, ControlEffects DEF UserStep, PlannedInv
<1> QED
  BY <1>1, <1>2, <1>3, <1>4, <1>5, <1>6 DEF Next, RequestStep, vars

\* Only the write of a merged outcome adds to the work that is done.
LEMMA DoneMoves ==
  ASSUME Inductive, RecordInv, [Next]_vars,
         NEW i \in Issues, run'.exec[i] = "done"
  PROVE  \/ run.exec[i] = "done"
         \/ RecordDone /\ i = lane.issue
<1>0. /\ TypeOK /\ LaneInv /\ PlanFlowInv /\ StartInv /\ FinInv /\ ReportInv
      /\ MergeIsExclusive /\ ClientChecks /\ run \in RunRec
      /\ run.exec \in [Issues -> ExecStatus]
  BY DEF Inductive, MergeInv, RecordInv, TypeOK, RunRec
<1> USE DEF Becomes, Stays
<1>1. CASE run'.exec = run.exec
  BY <1>1
<1>2. CASE PlanningSystem \/ PlanRequest
  BY <1>0, <1>1, <1>2, PlanningEffects
     DEF PlanningSystem, PermissionAsked, PlanFlowInv, AllPending
<1>3. CASE LaneSystem
  <2>1. lane.issue \in Issues
    BY <1>0, <1>3, LaneMoves
  <2>2. CASE RecordDone
    <3>1. i # lane.issue => run'.exec[i] = run.exec[i]
      BY <1>0, <2>1, <2>2, LaneEffects DEF Outcome
    <3> QED BY <2>2, <3>1
  <2>3. CASE ~RecordDone
    BY <1>0, <1>1, <1>3, <2>1, <2>3, LaneEffects, ResetNotRunning
       DEF LaneSystem, Outcome
  <2> QED BY <2>2, <2>3
<1>4. CASE (ExecutionSystem \/ ExecuteRequest) /\ ~LaneSystem
  BY <1>0, <1>1, <1>4, WaveEffects DEF ExecutionSystem, ClaimSystem
<1>5. CASE ReviewSystem \/ ReviewRequest
  BY <1>0, <1>1, <1>5, ReviewEffects DEF ReviewSystem, Reworked, RunRec
<1>6. CASE UserStep \/ CrashRestart
  BY <1>0, <1>1, <1>6, ControlEffects, ResetNotRunning
     DEF UserStep, AllPending
<1> QED
  BY <1>1, <1>2, <1>3, <1>4, <1>5, <1>6 DEF Next, RequestStep, vars

\* While a clean-up is in progress nothing else plans; the branch it removes
\* is not one the record still counts on.
CleanInv ==
  cleanup # "none" =>
    planFlow = "none" /\ run.status \in {"PLANNING", "CANCELLED"}

MergedInv ==
  /\ Kept => \A i \in Issues : run.exec[i] = "done" => i \in branch
  /\ lane.step = "recordOk" => lane.issue \in branch

LEMMA CleanStep ==
  ASSUME Inductive, RecordInv, QuietInv, CleanInv, [Next]_vars,
         "plan" \notin UserCommands
  PROVE  CleanInv'
<1>0. /\ TypeOK /\ PlanFlowInv /\ StartInv /\ FinInv /\ ClientChecks
      /\ LaneInv /\ PlannedInv
      /\ planFlow \in {"none", "starting", "planning", "permission"}
      /\ cleanup \in {"none", "replan", "rework"}
  BY DEF Inductive, MergeInv, RecordInv, TypeOK
<1>1. run.status \notin {"PLANNING", "CANCELLED", "RECEIVED", "READY"} =>
        planFlow = "none" /\ cleanup = "none"
  BY <1>0 DEF CleanInv, QuietInv, PlanFlowInv
<1> USE DEF CleanInv, Becomes, Stays
<1>2. ~PlanRequest
  BY DEF PlanRequest
<1>3. CASE PlanningSystem
  <2>1. CASE ReplanCleanup \/ ReworkCleanup
    BY <2>1 DEF ReplanCleanup, ReworkCleanup
  <2>2. CASE ~ReplanCleanup /\ ~ReworkCleanup
    BY <1>3, <2>2
       DEF PlanningSystem, PlanStarted, PlanPublished, PlannerFails,
           PlannerStale, PermissionAsked
  <2> QED BY <2>1, <2>2
<1>4. CASE LaneSystem
  <2>1. UNCHANGED planFlow
    BY <1>0, <1>4, LaneMoves
  <2> QED BY <1>1, <1>4, <2>1, LaneStatusMoves DEF LaneStatus
<1>5. CASE (ExecutionSystem \/ ExecuteRequest) /\ ~LaneSystem
  <2>1. UNCHANGED <<planFlow, cleanup>>
    BY <1>5 DEF ExecuteRequest, ExecutionSystem, ExecutionStarted,
                BaseCaptureFails, EnsureFlow,
       ClaimWave, StartWave, EndWave, ClaimSystem, PrepareWorktree,
       PreparationStops, WorktreeFails, TakeSlot, ExecutorReturns, EnterLane
  <2>2. run'.status = run.status
        \/ run.status \notin {"PLANNING", "CANCELLED"}
    BY <1>0, <1>5, WaveEffects DEF ExecutionSystem, ClaimSystem
  <2> QED BY <2>1, <2>2
<1>6. CASE ReviewSystem \/ ReviewRequest
  <2>1. UNCHANGED planFlow
    BY <1>6 DEF ReviewSystem, ReviewRequest, ReviewerReturns, ReviewerFails,
                ReviewDecided
  <2>2. CASE UNCHANGED <<run, cleanup>>
    BY <2>1, <2>2
  <2>3. CASE ReviewDecided /\ ~UNCHANGED <<run, cleanup>>
    <3>1. run.status = "INTEGRATION_REVIEW"
      BY <1>0, <2>3, ReviewEffects
         DEF ReviewDecided, FinInv, CanTransition, Successors, Terminal
    <3>2. UNCHANGED cleanup \/ run'.status = "PLANNING"
      BY <1>0, <2>3, DecidedStatus DEF ReviewDecided
    <3> QED BY <1>1, <2>1, <3>1, <3>2
  <2>4. CASE ReviewerFails
    BY <1>0, <1>1, <2>1, <2>2, <2>4, ReviewEffects DEF ReviewerFails
  <2> QED
    BY <1>0, <1>6, <2>2, <2>3, <2>4
       DEF ReviewSystem, ReviewRequest, ReviewerReturns
<1>7. CASE UserStep
  <2>1. CASE Cancel
    BY <1>0, <2>1, ControlEffects DEF Cancel
  <2>2. CASE ~Cancel
    <3>1. planFlow = "none" /\ cleanup = "none"
      BY <1>0, <1>1, <1>7, <2>2, ControlEffects DEF UserStep
    <3>2. cleanup' # "none" =>
            run'.status = "PLANNING" /\ UNCHANGED planFlow
      BY <1>0, <1>7, <2>2, <3>1, ControlEffects
         DEF UserStep, Pause, Takeover, Resume, Release, RetryIssues,
             RetryRun, HumanAccept, HumanRework, memory, Moved, TypeOK,
             RunRec
    <3> QED BY <3>1, <3>2
  <2> QED BY <2>1, <2>2
<1>8. CASE CrashRestart
  BY <1>0, <1>8, ControlEffects DEF CrashRestart
<1>9. CASE UNCHANGED vars
  BY <1>9 DEF vars, memory
<1> QED
  BY <1>2, <1>3, <1>4, <1>5, <1>6, <1>7, <1>8, <1>9 DEF Next, RequestStep

\* The merge proper is entered through its marker and left with its record.
LEMMA MergeMoves ==
  ASSUME TypeOK, LaneInv, LaneSystem
  PROVE  /\ lane'.step = "merging" => SetMergeMarker /\ run'.merging
         /\ lane'.step = "recordOk" => MergeSucceeds
<1>0. lane \in LaneRec /\ run \in RunRec
  BY DEF TypeOK
<1> DEFINE Outside == lane'.step \notin {"merging", "recordOk"}
<1>1. lane' = FreeLane => Outside
  BY DEF FreeLane
<1>2. \A s \in LaneStep \ {"merging", "recordOk"} : LaneTo(s) => Outside
  BY <1>0 DEF LaneTo, LaneRec
<1>3. Refuse => Outside
  BY <1>1, <1>2 DEF Refuse, LeaveLane, LaneStep
<1>4. (\E v \in {"PASS", "FIX", "REPLAN"} : CheckpointReturns(v)) => Outside
  <2> SUFFICES ASSUME NEW v \in {"PASS", "FIX", "REPLAN"},
                      lane' = [lane EXCEPT !.step = "verdict", !.verdict = v]
               PROVE  Outside
    BY <1>1 DEF CheckpointReturns, LeaveLane
  <2> QED BY <1>0 DEF LaneRec
<1>5. CheckpointFails \/ CheckpointPasses \/ CheckpointAsksFix
        \/ CheckpointAsksReplan \/ CheckpointAtLimit => Outside
  BY <1>1, <1>2
     DEF CheckpointFails, CheckpointPasses, CheckpointAsksFix,
         CheckpointAsksReplan, CheckpointAtLimit, LeaveLane, LaneStep
<1>6. MergeMarkerBusy \/ MergeFails \/ RecordDone \/ RecordFailed => Outside
  BY <1>1, <1>3
     DEF MergeMarkerBusy, MergeFails, RecordDone, RecordFailed, LeaveLane
<1>7. Settle => Outside
  <2> SUFFICES ASSUME NEW s \in {"marking", "recordFail"},
                      lane' = [lane EXCEPT !.path = "settle", !.step = s]
               PROVE  Outside
    BY <1>1 DEF Settle, LeaveLane
  <2> QED BY <1>0 DEF LaneRec
<1>8. SetMergeMarker =>
        Outside \/ (LaneTo("merging") /\ run' = [run EXCEPT !.merging = TRUE])
  BY <1>3 DEF SetMergeMarker
<1>9. LaneTo("merging") => lane'.step = "merging"
  BY <1>0 DEF LaneTo, LaneRec
<1>10. MergeSucceeds => lane'.step = "recordOk"
  BY <1>0 DEF MergeSucceeds, LaneTo, LaneRec
<1>11. run' = [run EXCEPT !.merging = TRUE] => run'.merging
  BY <1>0 DEF RunRec
<1> QED
  BY <1>4, <1>5, <1>6, <1>7, <1>8, <1>9, <1>10, <1>11 DEF LaneSystem

\* Merges put commits on the branch; only the two clean-ups take any off it.
LEMMA BranchMoves ==
  ASSUME TypeOK, LaneInv, [Next]_vars
  PROVE  /\ MergeSucceeds => branch' = branch \cup {lane.issue}
         /\ ~MergeSucceeds /\ ~ReplanCleanup /\ ~ReworkCleanup
              => UNCHANGED branch
<1>1. MergeSucceeds => branch' = branch \cup {lane.issue}
  BY DEF MergeSucceeds
<1>2. PlanningSystem \/ PlanRequest
        => ReplanCleanup \/ ReworkCleanup \/ UNCHANGED branch
  BY DEF PlanRequest, PlanningSystem, PlanStarted, PlanPublished,
         PlannerFails, PlannerStale, PermissionAsked
<1>3. LaneSystem => MergeSucceeds \/ UNCHANGED branch
  BY DEF LaneSystem, CheckpointReturns, CheckpointFails, CheckpointPasses,
         CheckpointAsksFix, CheckpointAsksReplan, CheckpointAtLimit,
         SetMergeMarker, MergeMarkerBusy, MergeFails, RecordDone,
         RecordFailed, Settle
<1>4. (ExecutionSystem /\ ~LaneSystem) \/ ExecuteRequest => UNCHANGED branch
  BY DEF ExecutionSystem, ExecuteRequest, ExecutionStarted, BaseCaptureFails,
         EnsureFlow,
         ClaimWave, StartWave, EndWave, ClaimSystem, PrepareWorktree,
         PreparationStops, WorktreeFails, TakeSlot, ExecutorReturns, EnterLane
<1>5. ReviewSystem \/ ReviewRequest \/ CrashRestart => UNCHANGED branch
  BY DEF ReviewSystem, ReviewRequest, ReviewerReturns, ReviewerFails,
         ReviewDecided, CrashRestart
<1>6. UserStep => UNCHANGED branch
  BY DEF UserStep, Cancel, Pause, Takeover, Resume, Release, RetryIssues,
         RetryRun, HumanAccept, HumanRework
<1>7. UNCHANGED vars => UNCHANGED branch
  BY DEF vars
<1> QED
  BY <1>1, <1>2, <1>3, <1>4, <1>5, <1>6, <1>7 DEF Next, RequestStep

LEMMA MergedStep ==
  ASSUME Inductive, RecordInv, CleanInv, MergedInv, [Next]_vars
  PROVE  MergedInv'
<1>0. /\ TypeOK /\ LaneInv /\ MergeIsExclusive /\ lane \in LaneRec
  BY DEF Inductive, MergeInv, TypeOK
<1>1. CASE ReplanCleanup \/ ReworkCleanup
  <2>1. UNCHANGED <<run, lane>> /\ run.status \in {"PLANNING", "CANCELLED"}
    BY <1>1 DEF ReplanCleanup, ReworkCleanup, notPlanning, CleanInv
  <2>2. lane.step # "recordOk" /\ ~Kept'
    BY <1>0, <2>1
       DEF MergeIsExclusive, InMerge, MergeStatuses, Kept, FailedFrom,
           Working, Reviewed
  <2> QED BY <2>1, <2>2 DEF MergedInv
<1>2. CASE ~ReplanCleanup /\ ~ReworkCleanup
  <2>1. branch \subseteq branch'
    BY <1>0, <1>2, BranchMoves
  <2>2. Kept' => \A i \in Issues : run'.exec[i] = "done" => i \in branch'
    <3> SUFFICES ASSUME Kept', NEW i \in Issues, run'.exec[i] = "done"
                 PROVE  i \in branch'
      OBVIOUS
    <3>1. ~PlanPublished
      BY <1>0, PlanningEffects DEF AllPending
    <3>2. Kept
      BY <3>1, KeptMoves
    <3>3. RecordDone => lane.step = "recordOk"
      BY DEF RecordDone, LaneAt
    <3> QED BY <2>1, <3>2, <3>3, DoneMoves DEF MergedInv
  <2>3. lane'.step = "recordOk" => lane'.issue \in branch'
    <3>1. CASE LaneSystem
      <4>1. MergeSucceeds => lane'.issue = lane.issue
        BY <1>0 DEF MergeSucceeds, LaneTo, LaneRec
      <4> QED BY <1>0, <3>1, <4>1, MergeMoves, BranchMoves
    <3>2. CASE UNCHANGED lane
      BY <2>1, <3>2 DEF MergedInv
    <3>3. CASE lane'.step # "recordOk"
      BY <3>3
    <3>4. ASSUME NEW i \in Issues, EnterLane(i)
          PROVE  lane'.step # "recordOk"
      BY <3>4 DEF EnterLane, FreeLane, FirstStep
    <3>5. Cancel \/ Pause \/ Takeover =>
            lane'.step = lane.step /\ lane'.issue = lane.issue
      BY <1>0 DEF Cancel, Pause, Takeover, AbortsWork, LaneRec
    <3>6. CrashRestart => lane'.step # "recordOk"
      BY DEF CrashRestart, FreeLane
    <3>7. CASE Cancel \/ Pause \/ Takeover
      BY <2>1, <3>5, <3>7 DEF MergedInv
    <3>8. CASE /\ ~LaneSystem /\ ~CrashRestart /\ ~Cancel /\ ~Pause
               /\ ~Takeover /\ \A i \in Issues : ~EnterLane(i)
      <4>1. UNCHANGED lane
        BY <3>8 DEF Next, vars, memory, RequestStep, PlanningSystem,
           PlanRequest, PlanStarted, PlanPublished, PlannerFails,
           PlannerStale, PermissionAsked, ReplanCleanup, ReworkCleanup,
           notPlanning, ExecutionSystem, ExecuteRequest, ExecutionStarted,
           BaseCaptureFails,
           EnsureFlow, ClaimWave, StartWave, EndWave, ClaimSystem,
           PrepareWorktree, PreparationStops, WorktreeFails, TakeSlot,
           ExecutorReturns, ReviewSystem, ReviewRequest, ReviewerReturns,
           ReviewerFails, ReviewDecided, UserStep, Resume, Release,
           RetryIssues, RetryRun, HumanAccept, HumanRework
      <4> QED BY <3>2, <4>1
    <3> QED BY <3>1, <3>3, <3>4, <3>6, <3>7, <3>8
  <2> QED BY <2>2, <2>3 DEF MergedInv
<1> QED BY <1>1, <1>2

BranchInv == "plan" \notin UserCommands /\ CleanInv /\ MergedInv

LEMMA BranchInvariant ==
  Spec /\ ClientChecks /\ "plan" \notin UserCommands =>
    [](Inductive /\ RecordInv /\ QuietInv /\ BranchInv)
<1>1. Init /\ "plan" \notin UserCommands => BranchInv
  BY DEF Init, BranchInv, CleanInv, MergedInv, FreeLane, SubmittedRun, Kept,
         FailedFrom, Working, Reviewed
<1>2. Inductive /\ RecordInv /\ QuietInv /\ BranchInv /\ [Next]_vars
        => BranchInv'
  BY CleanStep, MergedStep DEF BranchInv
<1> QED BY <1>1, <1>2, QuietInvariant, PTL DEF Spec

\* Unless a client asks for a plan while a rework is being cleaned up, what
\* the record of a live plan calls done is on the integration branch.
THEOREM DoneWorkIsMerged ==
  Spec /\ ClientChecks /\ "plan" \notin UserCommands => []DoneIsMerged
<1>1. BranchInv => DoneIsMerged
  BY DEF BranchInv, MergedInv, DoneIsMerged, Kept, Working, Reviewed
<1> QED BY <1>1, BranchInvariant, PTL

-----------------------------------------------------------------------------
(* The permission gate.                                                    *)

\* Where permission is required nothing starts an execution by itself.
GatedInv ==
  /\ "execute" \notin UserCommands
  /\ RequirePermission => flow # "starting"

LEMMA StartMoves ==
  ASSUME TypeOK, LaneInv, [Next]_vars, flow' = "starting", flow # "starting"
  PROVE  \/ PlanPublished /\ ~RequirePermission
         \/ ExecuteRequest /\ run.status = "READY"
         \/ CrashRestart /\ run.status = "READY" /\ ~RequirePermission
<1>1. CASE PlanningSystem \/ PlanRequest
  BY <1>1 DEF PlanRequest, PlanningSystem, PlanStarted, PlanPublished,
     StartsAtOnce, PlannerFails, PlannerStale, PermissionAsked,
     ReplanCleanup, ReworkCleanup
<1>2. CASE LaneSystem
  BY <1>2, LaneMoves
<1>3. CASE (ExecutionSystem /\ ~LaneSystem) \/ ExecuteRequest
  BY <1>3 DEF ExecutionSystem, ExecuteRequest, ExecutionStarted,
              BaseCaptureFails, EnsureFlow,
     ClaimWave, StartWave, EndWave, FlowEnds, ClaimSystem, PrepareWorktree,
     PreparationStops, WorktreeFails, TakeSlot, ExecutorReturns, EnterLane
<1>4. CASE ReviewSystem \/ ReviewRequest \/ UNCHANGED vars
  BY <1>4 DEF ReviewSystem, ReviewRequest, ReviewerReturns, ReviewerFails,
     ReviewDecided, vars, memory
<1>5. CASE UserStep
  BY <1>5 DEF UserStep, Cancel, Pause, Takeover, Resume, Release,
     RetryIssues, RetryRun, HumanAccept, HumanRework, memory
<1>6. CASE CrashRestart
  BY <1>6 DEF CrashRestart
<1> QED
  BY <1>1, <1>2, <1>3, <1>4, <1>5, <1>6 DEF Next, RequestStep

\* Unless a client posts /execute, a run that needs permission, and a run
\* that was taken over, execute only once a human releases them.
THEOREM ExecutionNeedsRelease ==
  Spec /\ ClientChecks /\ "execute" \notin UserCommands => NeedsRelease
<1> DEFINE Gated == RequirePermission
                      /\ run.status \in {"READY", "WAITING_PERMISSION"}
                      /\ run'.status = "EXECUTING" => Release
<1>1. Init /\ "execute" \notin UserCommands => GatedInv
  BY DEF Init, GatedInv
<1>2. Inductive /\ GatedInv /\ [Next]_vars => GatedInv'
  <2> SUFFICES ASSUME Inductive, GatedInv, [Next]_vars
               PROVE  GatedInv'
    OBVIOUS
  <2>1. TypeOK /\ LaneInv /\ ~ExecuteRequest
    BY DEF Inductive, GatedInv, ExecuteRequest
  <2> QED BY <2>1, StartMoves DEF GatedInv
<1>3. ASSUME Inductive, RecordInv, GatedInv, Next
      PROVE  Gated
  <2> SUFFICES ASSUME RequirePermission,
                      run.status \in {"READY", "WAITING_PERMISSION"},
                      run'.status = "EXECUTING"
               PROVE  Release
    OBVIOUS
  <2>0. /\ TypeOK /\ LaneInv /\ PlanFlowInv /\ StartInv /\ FinInv
        /\ ClientChecks
    BY <1>3 DEF Inductive, MergeInv
  <2> USE DEF Becomes, Stays
  <2>1. ~PlanningSystem /\ ~PlanRequest
    BY <2>0, PlanningEffects DEF PlanningSystem, PermissionAsked, PlanFlowInv
  <2>2. ~LaneSystem
    BY <1>3, LaneStatusMoves DEF LaneStatus
  <2>3. ~ExecutionSystem /\ ~ExecuteRequest
    BY <1>3, <2>0, <2>2, WaveEffects
       DEF ExecutionSystem, ClaimSystem, ExecutionStarted, GatedInv
  <2>4. ~ReviewSystem /\ ~ReviewRequest
    BY <2>0, ReviewEffects DEF ReviewSystem
  <2>5. ~CrashRestart
    BY <2>0, ControlEffects
  <2>6. UserStep => Release
    BY <2>0, ControlEffects DEF UserStep
  <2> QED
    BY <1>3, <2>1, <2>2, <2>3, <2>4, <2>5, <2>6 DEF Next, RequestStep
<1>4. Inductive /\ RecordInv /\ GatedInv /\ [Next]_vars => [Gated]_vars
  BY <1>3
<1> QED
  BY <1>1, <1>2, <1>4, RecordInvariant, PTL DEF Spec, NeedsRelease

-----------------------------------------------------------------------------
(* The review cycles.                                                      *)

\* The steps that record a reviewer's revision, or hand one at the limit to a
\* human; no other step touches the count, but for a rework, which resets it.
Revises == \/ CheckpointAsksFix \/ CheckpointAsksReplan \/ CheckpointAtLimit
           \/ ReviewDecided

LEMMA CycleMoves ==
  ASSUME TypeOK, [Next]_vars
  PROVE  \/ run'.cycles = run.cycles
         \/ HumanRework
         \/ Revises /\ run'.cycles = CountCycle
<1>0. run \in RunRec
  BY DEF TypeOK
<1> DEFINE Same == run'.cycles = run.cycles
<1> USE DEF RunRec, Moved
<1>1. CASE UNCHANGED run
  BY <1>1
<1>2. PlanStarted \/ PlannerFails \/ PermissionAsked => Same
  <2>1. PlanStarted => Same
    BY <1>0 DEF PlanStarted
  <2>2. PlannerFails => Same
    BY <1>0 DEF PlannerFails
  <2>3. PermissionAsked => Same
    BY <1>0 DEF PermissionAsked
  <2> QED BY <2>1, <2>2, <2>3
<1>3. PlanPublished => Same
  BY <1>0 DEF PlanPublished, Published
<1>4. CASE PlanningSystem \/ PlanRequest
  BY <1>1, <1>2, <1>3, <1>4
     DEF PlanningSystem, PlannerStale, ReplanCleanup, ReworkCleanup,
         PlanRequest
<1>5. ExecutionStarted \/ ClaimWave => Same
  <2>1. ExecutionStarted => Same
    BY <1>0 DEF ExecutionStarted, Started
  <2>2. ClaimWave => Same
    BY <1>0 DEF ClaimWave
  <2> QED BY <2>1, <2>2
<1>6. ASSUME NEW i \in Issues, ClaimSystem(i)
      PROVE  Same
  BY <1>0, <1>6 DEF ClaimSystem, PrepareWorktree, PreparationStops,
     WorktreeFails, TakeSlot, ExecutorReturns, EnterLane
<1>7. CASE (ExecutionSystem /\ ~LaneSystem) \/ ExecuteRequest
  BY <1>1, <1>5, <1>6, <1>7
     DEF ExecutionSystem, ExecuteRequest, BaseCaptureFails, EnsureFlow,
         StartWave, EndWave
<1>8. CASE LaneSystem
  <2>1. CheckpointFails \/ CheckpointPasses \/ SetMergeMarker => Same
    BY <1>0 DEF CheckpointFails, CheckpointPasses, SetMergeMarker
  <2>2. CheckpointAsksFix => run'.cycles = CountCycle
    BY <1>0 DEF CheckpointAsksFix
  <2>3. CheckpointAsksReplan => Same \/ run'.cycles = CountCycle
    BY <1>0 DEF CheckpointAsksReplan
  <2>4. CheckpointAtLimit => Same \/ run'.cycles = CountCycle
    BY <1>0 DEF CheckpointAtLimit
  <2>5. RecordDone => Same
    BY <1>0 DEF RecordDone, Recorded
  <2>6. RecordFailed \/ Settle => Same
    BY <1>0 DEF RecordFailed, Settle, Recorded
  <2>7. \/ UNCHANGED run \/ CheckpointFails \/ CheckpointPasses
        \/ CheckpointAsksFix \/ CheckpointAsksReplan \/ CheckpointAtLimit
        \/ SetMergeMarker \/ RecordDone \/ RecordFailed \/ Settle
    BY <1>8 DEF LaneSystem, CheckpointReturns, MergeMarkerBusy,
                MergeSucceeds, MergeFails
  <2> QED BY <1>1, <2>1, <2>2, <2>3, <2>4, <2>5, <2>6, <2>7 DEF Revises
<1>9. CASE ReviewSystem \/ ReviewRequest
  <2>1. ReviewDecided => Same \/ run'.cycles = CountCycle
    BY <1>0 DEF ReviewDecided, Decided, Reworked, ReviewFailed, Target
  <2>2. ReviewerFails => Same
    BY <1>0 DEF ReviewerFails, ReviewFailed
  <2> QED
    BY <1>1, <1>9, <2>1, <2>2
       DEF ReviewSystem, ReviewRequest, ReviewerReturns, Revises
<1>10. CASE UserStep
  BY <1>0, <1>10 DEF UserStep, Cancel, Pause, Takeover, Resume, Release,
     RetryIssues, RetryRun, HumanAccept
<1>11. CASE CrashRestart
  BY <1>0, <1>11 DEF CrashRestart, RecoveredRecord
<1> QED
  BY <1>1, <1>4, <1>7, <1>8, <1>9, <1>10, <1>11 DEF Next, RequestStep, vars

\* Only a revision within the limit takes work back.
LEMMA SentBackMoves ==
  ASSUME Inductive, [Next]_vars, SentBack, ~UserStep, ~CrashRestart
  PROVE  /\ Revises /\ ~LimitReached
         /\ run'.cycles = CountCycle
<1>0. /\ TypeOK /\ LaneInv /\ PlanFlowInv /\ StartInv /\ FinInv /\ ReportInv
      /\ MergeIsExclusive /\ run \in RunRec
  BY DEF Inductive, MergeInv, TypeOK
<1> USE DEF SentBack, Becomes, Stays
<1>1. ~UNCHANGED run
  BY <1>0 DEF TypeOK, RunRec, Holds
<1>2. ~PlanningSystem /\ ~PlanRequest
  BY <1>0, <1>1, PlanningEffects
     DEF PlanningSystem, PlanFlowInv, PlanStarted, PermissionAsked,
         PlanPublished, PlannerFails
<1>3. ASSUME (ExecutionSystem /\ ~LaneSystem) \/ ExecuteRequest
      PROVE  FALSE
  <2>1. ~ClaimWave
    BY <1>0, <1>1, WaveEffects DEF Holds, RunRec
  <2>2. ~ExecutionStarted
    BY <1>0, <1>1, WaveEffects DEF Holds, RunRec
  <2>3. \A i \in Issues : ~ClaimSystem(i)
    BY <1>0, <1>1, WaveEffects DEF ClaimSystem, Holds, RunRec
  <2> QED BY <1>0, <1>1, <1>3, <2>1, <2>2, <2>3, WaveEffects
             DEF ExecutionSystem
<1>4. CASE LaneSystem
  <2>1. ~CheckpointFails /\ ~CheckpointPasses /\ ~SetMergeMarker
          /\ ~CheckpointAtLimit
    BY <1>0, <1>1, LaneEffects DEF Holds, RunRec
  <2>2. ~RecordDone /\ ~RecordFailed
    BY <1>0, <1>1, LaneEffects DEF Holds, RunRec, Outcome
  <2>3. ~Settle
    BY <1>0, <1>1 DEF Settle, Recorded, RunRec
  <2>4. CheckpointAsksFix \/ CheckpointAsksReplan
    BY <1>0, <1>1, <1>4, <2>1, <2>2, <2>3, LaneEffects DEF LaneSystem
  <2>5. CheckpointAsksFix => ~LimitReached /\ run'.cycles = CountCycle
    BY <1>0 DEF CheckpointAsksFix, RunRec
  <2>6. CheckpointAsksReplan => ~LimitReached /\ run'.cycles = CountCycle
    BY <1>0, <1>1 DEF CheckpointAsksReplan, RunRec, Moved
  <2> QED BY <2>4, <2>5, <2>6 DEF Revises
<1>5. CASE ReviewSystem \/ ReviewRequest
  <2>1. ReviewDecided
    BY <1>0, <1>1, <1>5, ReviewEffects DEF ReviewSystem
  <2>2. run'.status \in {"PLANNING", "EXECUTING"}
    BY <1>0, <1>1, <2>1, ReviewEffects
  <2>3. run' = Decided /\ Target(fin.verdict) \in {"PLANNING", "EXECUTING"}
    <3>1. run' \in {Decided, ReviewFailed(run)}
      BY <2>1 DEF ReviewDecided
    <3>2. ReviewFailed(run) \in {run, Moved(run, "FAILED")}
      BY DEF ReviewFailed
    <3>3. Moved(run, "FAILED").status = "FAILED"
      BY <1>0, MovedFields
    <3>4. run' = Decided
      BY <1>1, <2>2, <3>1, <3>2, <3>3
    <3> QED BY <1>0, <2>2, <3>4, DecidedStatus
  <2>4. ~LimitReached
    BY <2>3 DEF Target
  <2>5. run'.cycles = CountCycle
    BY <1>0, <2>3 DEF Decided, Reworked, Moved, RunRec
  <2> QED BY <2>1, <2>4, <2>5 DEF Revises
<1> QED
  BY <1>1, <1>2, <1>3, <1>4, <1>5 DEF Next, RequestStep, vars

\* The limit of the review cycles binds every path that sends work back, for
\* every plan and limit, and whatever fails: CHECKPOINT and FINAL reviews
\* count in one counter, none is forgotten, and only a rework starts it anew.
THEOREM RevisionsHaveALimit == Spec /\ ClientChecks => RevisionsAreBounded
<1> DEFINE Bounded ==
             /\ SentBack /\ ~UserStep /\ ~CrashRestart =>
                  run.cycles < run'.cycles /\ run'.cycles < MaxReviewCycles
             /\ run'.cycles < run.cycles => HumanRework
<1>1. ASSUME Inductive, [Next]_vars
      PROVE  Bounded
  <2>1. run.cycles \in 0 .. MaxReviewCycles /\ MaxReviewCycles \in Nat
    BY <1>1, ConfigAssumption DEF Inductive, TypeOK, RunRec
  <2>2. run.cycles <= CountCycle
    BY <2>1 DEF CountCycle
  <2>3. ~LimitReached => run.cycles < CountCycle /\ CountCycle < MaxReviewCycles
    BY <2>1 DEF CountCycle, LimitReached
  <2>4. CountCycle \in Nat
    BY <2>1 DEF CountCycle
  <2>5. run'.cycles < run.cycles => HumanRework
    BY <1>1, <2>1, <2>2, <2>4, CycleMoves DEF Inductive
  <2> QED BY <1>1, <2>3, <2>5, SentBackMoves
<1>2. Inductive /\ [Next]_vars => [Bounded]_vars
  BY <1>1
<1> QED
  BY <1>2, InductiveInvariant, PTL DEF Spec, RevisionsAreBounded

-----------------------------------------------------------------------------
(* The flags of the record.                                                *)

SameControl == run'.paused = run.paused /\ run'.takenOver = run.takenOver
SamePlan == run'.base = run.base /\ run'.planDone = run.planDone
NoMarkerSet == run'.merging => run.merging

LEMMA FlagMoves ==
  ASSUME TypeOK, [Next]_vars
  PROVE  \/ SameControl /\ SamePlan /\ NoMarkerSet
         \/ PlanPublished /\ SameControl /\ NoMarkerSet
              /\ ~run'.base /\ run'.planDone
         \/ ExecutionStarted /\ SameControl /\ NoMarkerSet
              /\ run'.base /\ run'.planDone = run.planDone
         \/ run'.status = "PLANNING" /\ SameControl /\ NoMarkerSet
              /\ run'.base = run.base /\ run'.replanEntry
              /\ (CheckpointAsksReplan \/ ReviewDecided)
         \/ SetMergeMarker /\ SameControl /\ SamePlan
         \/ HumanRework /\ NoMarkerSet /\ ~run'.takenOver /\ ~run'.base
         \/ /\ UserStep /\ NoMarkerSet /\ SamePlan
            /\ run'.takenOver =>
                 Takeover \/ (run.takenOver /\ ~Release /\ ~Cancel)
<1>0. run \in RunRec
  BY DEF TypeOK
<1> DEFINE Kept3 == SameControl /\ SamePlan /\ NoMarkerSet
<1> USE DEF SameControl, SamePlan, NoMarkerSet, RunRec, Moved
<1>1. CASE UNCHANGED run
  BY <1>1
<1>2. PlanPublished => SameControl /\ NoMarkerSet /\ ~run'.base /\ run'.planDone
  BY <1>0 DEF PlanPublished, Published
<1>3. ExecutionStarted =>
        \/ UNCHANGED run
        \/ SameControl /\ NoMarkerSet /\ run'.base
             /\ run'.planDone = run.planDone
  BY <1>0 DEF ExecutionStarted, Started
<1>4. PlanStarted \/ PlannerFails \/ PermissionAsked => Kept3
  <2>1. PlanStarted => Kept3
    BY <1>0 DEF PlanStarted
  <2>2. PlannerFails => Kept3
    BY <1>0 DEF PlannerFails
  <2>3. PermissionAsked => Kept3
    BY <1>0 DEF PermissionAsked
  <2> QED BY <2>1, <2>2, <2>3
<1>5. CASE PlanningSystem \/ PlanRequest
  BY <1>1, <1>2, <1>4, <1>5
     DEF PlanningSystem, PlannerStale, ReplanCleanup, ReworkCleanup,
         PlanRequest
<1>6. ClaimWave => Kept3
  BY <1>0 DEF ClaimWave
<1>7. ASSUME NEW i \in Issues, ClaimSystem(i)
      PROVE  Kept3
  BY <1>0, <1>7 DEF ClaimSystem, PrepareWorktree, PreparationStops,
     WorktreeFails, TakeSlot, ExecutorReturns, EnterLane
<1>8. CASE (ExecutionSystem /\ ~LaneSystem) \/ ExecuteRequest
  BY <1>1, <1>3, <1>6, <1>7, <1>8
     DEF ExecutionSystem, ExecuteRequest, BaseCaptureFails, EnsureFlow,
         StartWave, EndWave
<1>9. CASE LaneSystem
  <2>1. CheckpointFails \/ CheckpointPasses \/ CheckpointAsksFix => Kept3
    BY <1>0 DEF CheckpointFails, CheckpointPasses, CheckpointAsksFix
  <2>2. CheckpointAsksReplan =>
          \/ UNCHANGED run
          \/ run'.status = "PLANNING" /\ SameControl /\ NoMarkerSet
               /\ run'.base = run.base /\ run'.replanEntry
    BY <1>0 DEF CheckpointAsksReplan
  <2>3. CheckpointAtLimit => Kept3
    BY <1>0 DEF CheckpointAtLimit
  <2>4. SetMergeMarker => SameControl /\ SamePlan
    BY <1>0 DEF SetMergeMarker
  <2>5. RecordDone => Kept3
    BY <1>0 DEF RecordDone, Recorded
  <2>6. RecordFailed \/ Settle => Kept3
    BY <1>0 DEF RecordFailed, Settle, Recorded
  <2>7. \/ UNCHANGED run \/ CheckpointFails \/ CheckpointPasses
        \/ CheckpointAsksFix \/ CheckpointAsksReplan \/ CheckpointAtLimit
        \/ SetMergeMarker \/ RecordDone \/ RecordFailed \/ Settle
    BY <1>9 DEF LaneSystem, CheckpointReturns, MergeMarkerBusy,
                MergeSucceeds, MergeFails
  <2> QED BY <1>1, <2>1, <2>2, <2>3, <2>4, <2>5, <2>6, <2>7
<1>10. CASE ReviewSystem \/ ReviewRequest
  <2>1. CASE ReviewDecided
    BY <1>0, <2>1
       DEF ReviewDecided, Decided, Reworked, ReviewFailed, Target
  <2>2. ReviewerFails => Kept3
    BY <1>0 DEF ReviewerFails, ReviewFailed
  <2> QED
    BY <1>1, <1>10, <2>1, <2>2
       DEF ReviewSystem, ReviewRequest, ReviewerReturns
<1>11. CASE UserStep
  BY <1>0, <1>11, ZenonT(60) DEF UserStep, Cancel, Pause, Takeover, Resume, Release,
     RetryIssues, RetryRun, HumanAccept, HumanRework
<1>12. CASE CrashRestart
  BY <1>0, <1>12 DEF CrashRestart, RecoveredRecord
<1> QED
  BY <1>1, <1>5, <1>8, <1>9, <1>10, <1>11, <1>12
     DEF Next, RequestStep, vars

-----------------------------------------------------------------------------
(* Owners.                                                                 *)

\* The lane stays with its holder until a step of its own, or a crash.
LEMMA LaneStands ==
  ASSUME TypeOK, Next, ~LaneSystem, ~CrashRestart
  PROVE  \/ /\ lane'.step = lane.step /\ lane'.issue = lane.issue
            /\ lane'.path = lane.path
         \/ \E i \in Issues : EnterLane(i)
<1> DEFINE Stands == /\ lane'.step = lane.step /\ lane'.issue = lane.issue
                     /\ lane'.path = lane.path
<1> USE DEF TypeOK, LaneRec
<1>1. CASE PlanningSystem \/ PlanRequest
  BY <1>1 DEF PlanRequest, PlanningSystem, PlanStarted, PlanPublished,
     PlannerFails, PlannerStale, PermissionAsked, ReplanCleanup,
     ReworkCleanup, notPlanning
<1>2. CASE ExecutionSystem \/ ExecuteRequest
  BY <1>2 DEF ExecutionSystem, ExecuteRequest, ExecutionStarted,
              BaseCaptureFails, EnsureFlow,
     ClaimWave, StartWave, EndWave, ClaimSystem, PrepareWorktree,
     PreparationStops, WorktreeFails, TakeSlot, ExecutorReturns
<1>3. CASE ReviewSystem \/ ReviewRequest
  BY <1>3 DEF ReviewSystem, ReviewRequest, ReviewerReturns, ReviewerFails,
     ReviewDecided
<1>4. CASE UserStep
  <2>1. Cancel \/ Pause \/ Takeover => Stands
    BY DEF Cancel, Pause, Takeover, AbortsWork
  <2> QED
    BY <1>4, <2>1 DEF UserStep, Resume, Release, RetryIssues, RetryRun,
       HumanAccept, HumanRework, memory
<1> QED BY <1>1, <1>2, <1>3, <1>4 DEF Next, RequestStep

\* A merge that fails keeps its marker; so does a settled merge that a crash
\* interrupts, because recovery only clears the marker of an executing run.
MarkerKept == "merge" \in Faults \/ (~AutoReview /\ "crash" \in Faults)

OwnerInv ==
  /\ ~MarkerKept
  /\ MarkerHasOwner
  /\ AutoReview /\ InMerge => lane.path = "report"

LEMMA OwnerStep ==
  Inductive /\ OwnerInv /\ [Next]_vars => OwnerInv'
<1> SUFFICES ASSUME Inductive, OwnerInv, [Next]_vars PROVE OwnerInv'
  OBVIOUS
<1>0. TypeOK /\ LaneInv /\ MarkInv /\ MergeIsExclusive /\ ~MarkerKept
  BY DEF Inductive, MergeInv, OwnerInv
<1> USE DEF InMerge
<1>1. run'.merging => run.merging \/ SetMergeMarker
  BY <1>0, FlagMoves DEF NoMarkerSet
<1>2. CASE LaneSystem
  <2>1. CASE SetMergeMarker
    <3>1. CASE MarkerValid
      <4>1. lane' = [lane EXCEPT !.step = "merging"]
        BY <2>1, <3>1 DEF SetMergeMarker, LaneTo
      <4> QED
        BY <1>0, <2>1, <4>1
           DEF OwnerInv, MarkerHasOwner, MarkInv, TypeOK, LaneRec,
               SetMergeMarker, LaneAt
    <3>2. CASE ~MarkerValid
      <4>1. UNCHANGED run /\ Refuse /\ lane.step = "marking"
        BY <2>1, <3>2 DEF SetMergeMarker, LaneAt
      <4>2. lane'.step \notin {"merging", "recordOk"}
        BY <1>0, <4>1
           DEF Refuse, LaneTo, LeaveLane, FreeLane, TypeOK, LaneRec
      <4> QED
        BY <1>0, <4>1, <4>2 DEF OwnerInv, MarkerHasOwner
    <3> QED BY <3>1, <3>2
  <2>2. CASE MergeSucceeds
    <3>1. /\ lane' = [lane EXCEPT !.step = "recordOk"]
          /\ lane.step = "merging"
      BY <2>2 DEF MergeSucceeds, LaneTo, LaneAt
    <3> QED
      BY <1>0, <3>1 DEF OwnerInv, MarkerHasOwner, TypeOK, LaneRec
  <2>3. CASE RecordDone
    <3>1. lane.step = "recordOk" /\ run.status \in MergeStatuses
            /\ Holds(lane.issue)
      BY <1>0, <2>3 DEF RecordDone, LaneAt, MergeIsExclusive
    <3>2. lane' = FreeLane /\ ~run'.merging
      BY <1>0, <2>3, <3>1
         DEF RecordDone, LeaveLane, MergeStatuses, Recorded, Moved,
             CanTransition, Successors, Terminal, TypeOK, RunRec
    <3> QED
      BY <1>0, <3>2 DEF OwnerInv, MarkerHasOwner, FreeLane
  <2>4. CASE ~SetMergeMarker /\ ~MergeSucceeds /\ ~RecordDone
    <3>1. lane.step \notin {"merging", "recordOk"}
      BY <1>0, <1>2, <2>4
         DEF LaneSystem, LaneAt, MarkerKept, MergeFails, CheckpointReturns,
             CheckpointFails, CheckpointPasses, CheckpointAsksFix,
             CheckpointAsksReplan, CheckpointAtLimit, MergeMarkerBusy,
             RecordFailed, Settle
    <3>2. ~run'.merging
      BY <1>1, <2>4, <3>1 DEF OwnerInv, MarkerHasOwner
    <3>3. lane'.step \notin {"merging", "recordOk"}
      BY <1>0, <1>2, <2>4, MergeMoves
    <3> QED
      BY <1>0, <3>2, <3>3 DEF OwnerInv, MarkerHasOwner
  <2> QED BY <2>1, <2>2, <2>3, <2>4
<1>3. CASE CrashRestart
  <2>1. lane' = FreeLane /\ run' = RecoveredRecord /\ "crash" \in Faults
    BY <1>3 DEF CrashRestart
  <2>2. run.merging => run.status = "EXECUTING"
    BY <1>0, <2>1
       DEF OwnerInv, MarkerKept, MarkerHasOwner, MergeIsExclusive,
           MergeStatuses, ConfigAssumption
  <2>3. ~run'.merging
    BY <1>0, <2>1, <2>2 DEF RecoveredRecord, TypeOK, RunRec, Moved
  <2> QED
    BY <1>0, <2>1, <2>3 DEF OwnerInv, MarkerHasOwner, FreeLane
<1>4. CASE Next /\ ~LaneSystem /\ ~CrashRestart
  <2>1. run'.merging => run.merging
    BY <1>1, <1>4 DEF LaneSystem
  <2>2. CASE \E i \in Issues : EnterLane(i)
    <3>1. lane.step = "free" /\ lane'.step \notin {"merging", "recordOk"}
      BY <1>0, <2>2 DEF EnterLane, FirstStep, FreeLane, TypeOK, LaneRec
    <3> QED BY <1>0, <2>1, <3>1 DEF OwnerInv, MarkerHasOwner
  <2>3. CASE ~\E i \in Issues : EnterLane(i)
    BY <1>0, <1>4, <2>1, <2>3, LaneStands DEF OwnerInv, MarkerHasOwner
  <2> QED BY <2>2, <2>3
<1>5. CASE UNCHANGED vars
  BY <1>0, <1>5 DEF OwnerInv, MarkerHasOwner, vars, memory
<1> QED
  BY <1>2, <1>3, <1>4, <1>5

LEMMA OwnerInvariant ==
  Spec /\ ClientChecks /\ ~MarkerKept =>
    [](Inductive /\ RecordInv /\ OwnerInv)
<1>1. Init /\ ~MarkerKept => OwnerInv
  BY DEF Init, OwnerInv, MarkerHasOwner, InMerge, SubmittedRun, FreeLane
<1> QED
  BY <1>1, RecordInvariant, OwnerStep, PTL DEF Spec

\* While Git's merges succeed, and recovery can tell a settled merge from a
\* finished one, no marker outlives its merge: no run is left that refuses
\* every control.
THEOREM MarkersAreOwned ==
  Spec /\ ClientChecks /\ ~MarkerKept => []MarkerHasOwner
<1>1. OwnerInv => MarkerHasOwner
  BY DEF OwnerInv
<1> QED
  BY <1>1, OwnerInvariant, PTL

-----------------------------------------------------------------------------
(* The wave loop reports whatever the record counts as running, unless a   *)
(* client retries a run whose wave was cut short by a failing worktree, or *)
(* starts by POST /execute what waits for its permission.                  *)

Undercut == \/ "retry" \in UserCommands
            \/ RequirePermission /\ "execute" \in UserCommands

\* An execution that is starting finds the run as it was published.
StartReadyInv ==
  /\ ~Undercut
  /\ flow = "starting" => /\ run.status \in {"READY", "CANCELLED"}
                          /\ ~RequirePermission
  /\ planFlow = "permission" => RequirePermission

\* So a run that was taken over never executes before it is released.
TakenOverInv == run.takenOver => run.status = "WAITING_PERMISSION"

\* A report is refused only for a claim that no longer stands, or once a
\* sibling has failed the run.
RejectedInv ==
  lane.step = "rejected" => ~Holds(lane.issue) \/ run.status = "FAILED"

\* The claims a wave prepares were made, and are reset, together.
PrepInv ==
  flow = "preparing" =>
    \A i, j \in Issues : pc[i] # "idle" /\ Holds(j) => Holds(i)

OwnedInv ==
  run.status # "FAILED" /\ ~run.paused =>
    \A i \in Issues : Holds(i) => flow \in {"preparing", "running"}
                                  /\ pc[i] \notin {"idle", "finished"}

LEMMA PermissionMoves ==
  ASSUME TypeOK, LaneInv, [Next]_vars, planFlow' = "permission"
  PROVE  planFlow = "permission" \/ RequirePermission
<1>1. CASE PlanningSystem \/ PlanRequest
  BY <1>1 DEF PlanRequest, PlanningSystem, PlanStarted, PlanPublished,
     StartsAtOnce, PlannerFails, PlannerStale, PermissionAsked,
     ReplanCleanup, ReworkCleanup, PlanFlowAfter
<1>2. CASE LaneSystem
  BY <1>2, LaneMoves
<1>3. CASE (ExecutionSystem /\ ~LaneSystem) \/ ExecuteRequest
  BY <1>3 DEF ExecutionSystem, ExecuteRequest, ExecutionStarted,
              BaseCaptureFails, EnsureFlow,
     ClaimWave, StartWave, EndWave, ClaimSystem, PrepareWorktree,
     PreparationStops, WorktreeFails, TakeSlot, ExecutorReturns, EnterLane
<1>4. CASE ReviewSystem \/ ReviewRequest \/ UNCHANGED vars
  BY <1>4 DEF ReviewSystem, ReviewRequest, ReviewerReturns, ReviewerFails,
     ReviewDecided, vars, memory
<1>5. CASE UserStep
  BY <1>5 DEF UserStep, Cancel, Pause, Takeover, Resume, Release,
     RetryIssues, RetryRun, HumanAccept, HumanRework, PlanFlowAfter, memory
<1>6. CASE CrashRestart
  BY <1>6 DEF CrashRestart
<1> QED
  BY <1>1, <1>2, <1>3, <1>4, <1>5, <1>6 DEF Next, RequestStep

LEMMA StartReadyStep ==
  Inductive /\ RecordInv /\ StartReadyInv /\ [Next]_vars => StartReadyInv'
<1> SUFFICES ASSUME Inductive, RecordInv, StartReadyInv, [Next]_vars
             PROVE  StartReadyInv'
  OBVIOUS
<1>0. /\ TypeOK /\ LaneInv /\ PlanFlowInv /\ StartInv /\ FinInv
      /\ ClientChecks /\ run \in RunRec /\ ~Undercut
  BY DEF Inductive, MergeInv, TypeOK, StartReadyInv
<1> USE DEF Becomes, Stays
<1>1. planFlow' = "permission" => RequirePermission
  BY <1>0, PermissionMoves DEF StartReadyInv
<1>2. CASE flow' # "starting"
  BY <1>0, <1>1, <1>2 DEF StartReadyInv
<1>3. CASE flow' = "starting" /\ flow # "starting"
  <2>1. CASE PlanPublished /\ ~RequirePermission
    BY <1>0, <1>1, <2>1, PlanningEffects DEF StartReadyInv
  <2>2. CASE ExecuteRequest /\ run.status = "READY"
    BY <1>0, <1>1, <2>2, WaveEffects
       DEF StartReadyInv, Undercut, ExecuteRequest
  <2>3. CASE CrashRestart /\ run.status = "READY" /\ ~RequirePermission
    BY <1>0, <1>1, <2>3, ControlEffects DEF StartReadyInv
  <2> QED BY <1>0, <1>3, <2>1, <2>2, <2>3, StartMoves
<1>4. CASE flow' = "starting" /\ flow = "starting"
  <2>0. /\ run.status \in {"READY", "CANCELLED"} /\ ~RequirePermission
        /\ planFlow # "permission"
    BY <1>4 DEF StartReadyInv
  <2>1. run'.status \in {"READY", "CANCELLED"}
    <3>1. CASE PlanningSystem \/ PlanRequest
      BY <1>0, <2>0, <3>1, PlanningEffects
         DEF PlanningSystem, PlanPublished, PlannerFails, PermissionAsked,
             PlanFlowInv
    <3>2. ~LaneSystem
      BY <1>0, <1>4, LaneMoves
    <3>3. CASE ExecutionSystem \/ ExecuteRequest
      <4>1. ~ExecutionStarted \/ UNCHANGED run
        BY <1>4 DEF ExecutionStarted
      <4> QED
        BY <1>0, <2>0, <3>2, <3>3, <4>1, WaveEffects
           DEF ExecutionSystem, ClaimSystem
    <3>4. CASE ReviewSystem \/ ReviewRequest
      BY <1>0, <2>0, <3>4, ReviewEffects DEF ReviewSystem
    <3>5. CASE UserStep \/ CrashRestart
      BY <1>0, <2>0, <3>5, ControlEffects DEF UserStep
    <3> QED
      BY <2>0, <3>1, <3>3, <3>4, <3>5 DEF Next, RequestStep, vars
  <2> QED BY <1>0, <1>1, <2>0, <2>1 DEF StartReadyInv
<1> QED BY <1>2, <1>3, <1>4

LEMMA TakenOverStep ==
  Inductive /\ RecordInv /\ StartReadyInv /\ TakenOverInv /\ [Next]_vars
    => TakenOverInv'
<1> SUFFICES ASSUME Inductive, RecordInv, StartReadyInv, TakenOverInv,
                    [Next]_vars, run'.takenOver
             PROVE  run'.status = "WAITING_PERMISSION"
  BY DEF TakenOverInv
<1>0. /\ TypeOK /\ LaneInv /\ PlanFlowInv /\ StartInv /\ FinInv
      /\ ClientChecks
  BY DEF Inductive, MergeInv
<1> USE DEF Becomes, Stays
<1>1. CASE Takeover
  BY <1>0, <1>1, ControlEffects
<1>2. CASE ~Takeover
  <2>1. run.takenOver /\ ~Release /\ ~Cancel /\ ~HumanRework
    <3>1. run.takenOver
      BY <1>0, <1>2, FlagMoves DEF SameControl
    <3>2. Release \/ Cancel \/ HumanRework => ~run'.takenOver
      BY <1>0 DEF Release, Cancel, HumanRework, Moved, TypeOK, RunRec
    <3> QED BY <3>1, <3>2
  <2>2. run.status = "WAITING_PERMISSION" /\ flow # "starting"
    BY <2>1 DEF TakenOverInv, StartReadyInv
  <2>3. CASE PlanningSystem \/ PlanRequest
    BY <1>0, <2>2, <2>3, PlanningEffects
       DEF PlanningSystem, PlanPublished, PlannerFails, PlanFlowInv,
           PermissionAsked
  <2>4. CASE LaneSystem
    BY <2>2, <2>4, LaneStatusMoves DEF LaneStatus
  <2>5. CASE (ExecutionSystem \/ ExecuteRequest) /\ ~LaneSystem
    BY <1>0, <2>2, <2>5, WaveEffects
       DEF ExecutionSystem, ClaimSystem, ExecutionStarted
  <2>6. CASE ReviewSystem \/ ReviewRequest
    BY <1>0, <2>2, <2>6, ReviewEffects DEF ReviewSystem
  <2>7. CASE UserStep \/ CrashRestart
    BY <1>0, <1>2, <2>1, <2>2, <2>7, ControlEffects DEF UserStep
  <2> QED
    BY <2>2, <2>3, <2>4, <2>5, <2>6, <2>7 DEF Next, RequestStep, vars
<1> QED BY <1>1, <1>2

\* Only a wave's claim makes an issue running, and only a retry takes a run
\* out of FAILED.
LEMMA HoldsMoves ==
  ASSUME Inductive, RecordInv, [Next]_vars
  PROVE  /\ ~ClaimWave => \A i \in Issues : Holds(i)' => Holds(i)
         /\ run.status = "FAILED" => run'.status = "FAILED" \/ RetryRun
<1>0. /\ TypeOK /\ LaneInv /\ PlanFlowInv /\ StartInv /\ FinInv /\ ReportInv
      /\ MergeIsExclusive /\ ClientChecks /\ run \in RunRec
      /\ run.exec \in [Issues -> ExecStatus]
  BY DEF Inductive, MergeInv, RecordInv, TypeOK, RunRec
<1> USE DEF Becomes, Stays, Holds
<1>1. CASE PlanningSystem \/ PlanRequest
  <2>1. run'.exec = run.exec \/ run'.exec = AllPending
    BY <1>0, <1>1, PlanningEffects
       DEF PlanningSystem, PermissionAsked, PlanFlowInv
  <2>2. run.status = "FAILED" => run'.status = "FAILED"
    BY <1>0, <1>1, PlanningEffects
       DEF PlanningSystem, PlanStarted, PlanPublished, PermissionAsked,
           PlanFlowInv
  <2> QED BY <2>1, <2>2 DEF AllPending
<1>2. CASE LaneSystem
  <2>1. lane.issue \in Issues
    BY <1>0, <1>2, LaneMoves
  <2>2. \A i \in Issues : run'.exec[i] = "running" => run.exec[i] = "running"
    BY <1>0, <1>2, <2>1, LaneEffects, ResetNotRunning
       DEF LaneSystem, Outcome
  <2> QED BY <1>2, <2>2, LaneStatusMoves DEF LaneStatus
<1>3. CASE (ExecutionSystem \/ ExecuteRequest) /\ ~LaneSystem
  BY <1>0, <1>3, WaveEffects DEF ExecutionSystem, ClaimSystem
<1>4. CASE ReviewSystem \/ ReviewRequest
  BY <1>0, <1>4, ReviewEffects DEF ReviewSystem, Reworked, RunRec
<1>5. CASE UserStep \/ CrashRestart
  BY <1>0, <1>5, ControlEffects, ResetNotRunning DEF UserStep, AllPending
<1> QED
  BY <1>1, <1>2, <1>3, <1>4, <1>5 DEF Next, RequestStep, vars

\* A lane step that lets go of a claim the record still counts as running
\* leaves a failed run; so does one that refuses its report.
LEMMA LaneLetsGo ==
  ASSUME Inductive, RecordInv, ClaimInv, OwnerInv, RejectedInv, LaneSystem
  PROVE  lane'.step \in {"free", "rejected"} =>
           run'.exec[lane.issue] # "running" \/ run'.status = "FAILED"
<1>0. /\ TypeOK /\ LaneInv /\ ReportInv /\ MergeIsExclusive /\ HeldInv
      /\ AbortInv /\ MarkerHasOwner /\ ~MarkerKept
      /\ lane.issue \in Issues /\ lane \in LaneRec /\ run \in RunRec
      /\ run.exec \in [Issues -> ExecStatus]
  BY LaneMoves
     DEF Inductive, MergeInv, RecordInv, ClaimInv, OwnerInv, TypeOK, RunRec
<1> DEFINE Gone == run'.exec[lane.issue] # "running" \/ run'.status = "FAILED"
           Idle == ~Holds(lane.issue) \/ run.status = "FAILED"
<1>1. UNCHANGED run /\ Idle => Gone
  BY DEF Holds
<1>2. run.status # "EXECUTING" => Idle
  BY <1>0 DEF HeldInv, FailedFrom
<1>3. CASE \E v \in {"PASS", "FIX", "REPLAN"} : CheckpointReturns(v)
  <2>1. UNCHANGED run
    BY <1>3 DEF CheckpointReturns
  <2>2. lane'.step \in {"free", "rejected"} =>
          lane.aborted \/ run.status # "EXECUTING" \/ ~Holds(lane.issue)
    BY <1>0, <1>3 DEF CheckpointReturns, LaneRec
  <2> QED BY <1>0, <1>1, <1>2, <2>1, <2>2 DEF AbortInv
<1>4. CASE CheckpointFails
  <2>1. CASE lane.aborted
    BY <1>0, <1>1, <1>4, <2>1 DEF CheckpointFails, AbortInv
  <2>2. CASE ~lane.aborted
    BY <1>0, <1>1, <1>2, <1>4, <2>2 DEF CheckpointFails, Moved, RunRec
  <2> QED BY <2>1, <2>2
<1>5. CASE CheckpointPasses \/ MergeSucceeds
  BY <1>0, <1>5 DEF CheckpointPasses, MergeSucceeds, LaneTo, LaneRec
<1>6. CASE CheckpointAsksFix
  BY <1>0, <1>6 DEF CheckpointAsksFix, RunRec
<1>7. CASE CheckpointAsksReplan
  <2>1. CASE CanTransition(run.status, "PLANNING")
    <3>1. run'.exec = ResetRunning(run.exec)
      BY <1>0, <1>7, <2>1 DEF CheckpointAsksReplan, Moved, RunRec
    <3> QED BY <1>0, <3>1, ResetNotRunning
  <2>2. CASE ~CanTransition(run.status, "PLANNING")
    <3>1. run.status # "EXECUTING"
      BY <2>2 DEF CanTransition, Successors, Terminal
    <3> QED BY <1>1, <1>2, <1>7, <2>2, <3>1 DEF CheckpointAsksReplan
  <2> QED BY <2>1, <2>2
<1>8. CASE CheckpointAtLimit
  <2>1. CASE CanTransition(run.status, "WAITING_DECISION")
    <3>1. run'.exec = ResetRunning(run.exec)
      BY <1>0, <1>8, <2>1 DEF CheckpointAtLimit, Moved, RunRec
    <3> QED BY <1>0, <3>1, ResetNotRunning
  <2>2. CASE ~CanTransition(run.status, "WAITING_DECISION")
    <3>1. run.status # "EXECUTING"
      BY <2>2 DEF CanTransition, Successors, Terminal
    <3> QED BY <1>1, <1>2, <1>8, <2>2, <3>1 DEF CheckpointAtLimit
  <2> QED BY <2>1, <2>2
<1>9. CASE SetMergeMarker
  <2>1. CASE MarkerValid
    BY <1>0, <1>9, <2>1 DEF SetMergeMarker, LaneTo, LaneRec
  <2>2. CASE ~MarkerValid
    BY <1>1, <1>2, <1>9, <2>2 DEF SetMergeMarker, MarkerValid, MergeStatuses
  <2> QED BY <2>1, <2>2
<1>10. ~MergeMarkerBusy /\ ~MergeFails
  BY <1>0 DEF MergeMarkerBusy, MergeFails, MarkerKept, MarkerHasOwner,
              InMerge, LaneAt
<1>11. CASE RecordDone
  <2>1. lane.step = "recordOk" /\ run.status \in MergeStatuses
          /\ Holds(lane.issue)
    BY <1>0, <1>11 DEF RecordDone, LaneAt, MergeIsExclusive, InMerge
  <2>2. run'.exec = [run.exec EXCEPT ![lane.issue] = "done"]
    BY <1>0, <1>11, <2>1
       DEF RecordDone, MergeStatuses, Recorded, Moved, CanTransition,
           Successors, Terminal, RunRec
  <2> QED BY <1>0, <2>2
<1>12. CASE RecordFailed
  <2>1. CASE \/ ~Holds(lane.issue)
             \/ lane.path = "report" /\ ~CanTransition(run.status, "FAILED")
    <3>1. UNCHANGED run
      BY <1>12, <2>1 DEF RecordFailed
    <3>2. ~CanTransition(run.status, "FAILED") => run.status # "EXECUTING"
      BY DEF CanTransition, Successors, Terminal
    <3> QED BY <1>1, <1>2, <2>1, <3>1, <3>2
  <2>2. CASE ~(\/ ~Holds(lane.issue)
               \/ lane.path = "report" /\ ~CanTransition(run.status, "FAILED"))
    <3>1. CASE lane.path = "report"
      BY <1>0, <1>12, <2>2, <3>1 DEF RecordFailed, Recorded, Moved, RunRec
    <3>2. CASE lane.path # "report"
      BY <1>0, <1>12, <2>2, <3>2, ZenonT(60) DEF RecordFailed, Recorded, RunRec
    <3> QED BY <3>1, <3>2
  <2> QED BY <2>1, <2>2
<1>13. CASE Settle
  <2>1. lane'.step \in {"free", "rejected"} /\ UNCHANGED run => Idle
    <3>1. lane.step = "rejected"
      BY <1>13 DEF Settle, LaneAt
    <3> QED BY <3>1 DEF RejectedInv
  <2>2. ~UNCHANGED run => run'.exec[lane.issue] = "pending"
    BY <1>0, <1>13, LaneEffects DEF Outcome, Becomes, Stays
  <2> QED BY <1>1, <2>1, <2>2
<1> QED
  BY <1>3, <1>4, <1>5, <1>6, <1>7, <1>8, <1>9, <1>10, <1>11, <1>12, <1>13
     DEF LaneSystem

LEMMA RejectedStep ==
  ASSUME Inductive, RecordInv, ClaimInv, OwnerInv, ~Undercut, RejectedInv,
         [Next]_vars
  PROVE  RejectedInv'
<1>0. TypeOK /\ LaneInv /\ HeldInv /\ ~RetryRun
  BY DEF Inductive, RecordInv, Undercut, RetryRun, Accepts, Sent
<1> SUFFICES ASSUME lane'.step = "rejected"
             PROVE  ~Holds(lane.issue)' \/ run'.status = "FAILED"
  BY DEF RejectedInv
<1>1. CASE LaneSystem
  <2>1. lane'.issue = lane.issue
    BY <1>0, <1>1, LaneMoves DEF LaneLeft, LaneGoesOn, FreeLane
  <2> QED BY <1>1, <2>1, LaneLetsGo DEF Holds
<1>2. CASE CrashRestart
  BY <1>2 DEF CrashRestart, FreeLane
<1>3. CASE Next /\ ~LaneSystem /\ ~CrashRestart
  <2>1. CASE \E i \in Issues : EnterLane(i)
    <3>1. PICK i \in Issues : EnterLane(i)
      BY <2>1
    <3>2. lane'.issue = i /\ FirstStep(i) = "rejected" /\ UNCHANGED run
      BY <3>1 DEF EnterLane, FreeLane
    <3> QED
      BY <1>0, <3>2 DEF FirstStep, HeldInv, FailedFrom, Holds
  <2>2. CASE ~\E i \in Issues : EnterLane(i)
    <3>1. lane.step = "rejected" /\ lane'.issue = lane.issue
      BY <1>0, <1>3, <2>2, LaneStands
    <3>2. ~ClaimWave /\ lane.issue \in Issues
      BY <1>0, <3>1 DEF LaneInv, ClaimWave
    <3> QED
      BY <1>0, <3>1, <3>2, HoldsMoves DEF RejectedInv, Holds
  <2> QED BY <2>1, <2>2
<1>4. CASE UNCHANGED vars
  BY <1>4 DEF RejectedInv, Holds, vars, memory
<1> QED BY <1>1, <1>2, <1>3, <1>4

\* Before a wave runs, running issues are reset together.
LEMMA ResetTogether ==
  ASSUME Inductive, RecordInv, [Next]_vars, flow # "running",
         NEW i \in Issues, Holds(i)
  PROVE  Holds(i)' \/ WorktreeFails(i) \/ \A j \in Issues : ~Holds(j)'
<1>0. /\ TypeOK /\ LaneInv /\ PlanFlowInv /\ StartInv /\ FinInv /\ HeldInv
      /\ ClientChecks /\ run \in RunRec /\ run.exec \in [Issues -> ExecStatus]
  BY DEF Inductive, MergeInv, RecordInv, TypeOK, RunRec
<1> USE DEF Becomes, Stays, Holds
<1>1. CASE PlanningSystem \/ PlanRequest
  BY <1>0, <1>1, PlanningEffects
     DEF PlanningSystem, PermissionAsked, PlanFlowInv, PlanPublished,
         AllPending
<1>2. ~LaneSystem
  BY <1>0, LaneMoves
<1>3. CASE ExecutionSystem \/ ExecuteRequest
  <2>1. CASE \E k \in Issues : WorktreeFails(k)
    <3>1. PICK k \in Issues : WorktreeFails(k)
      BY <2>1
    <3>2. k # i => run'.exec[i] = run.exec[i]
      BY <1>0, <3>1, WaveEffects
    <3> QED BY <3>1, <3>2
  <2>2. CASE ~\E k \in Issues : WorktreeFails(k)
    BY <1>0, <1>2, <1>3, <2>2, WaveEffects DEF ExecutionSystem, ClaimSystem
  <2> QED BY <2>1, <2>2
<1>4. CASE ReviewSystem \/ ReviewRequest
  BY <1>0, <1>4, ReviewEffects DEF ReviewSystem, Reworked, RunRec
<1>5. CASE UserStep \/ CrashRestart
  BY <1>0, <1>5, ControlEffects, ResetNotRunning DEF UserStep, AllPending
<1> QED
  BY <1>1, <1>2, <1>3, <1>4, <1>5 DEF Next, RequestStep, vars

\* What a step does to the claims while a wave is being prepared.
LEMMA PrepareMoves ==
  ASSUME TypeOK, LaneInv, [Next]_vars, flow' = "preparing"
  PROVE  \/ ClaimWave
         \/ /\ flow = "preparing"
            /\ \A i \in Issues :
                 /\ pc'[i] # "idle" => pc[i] # "idle"
                 /\ WorktreeFails(i) => pc'[i] = "idle"
<1> DEFINE Fine == /\ flow = "preparing"
                   /\ \A i \in Issues :
                        /\ pc'[i] # "idle" => pc[i] # "idle"
                        /\ WorktreeFails(i) => pc'[i] = "idle"
<1> USE DEF TypeOK
<1>0. ASSUME NEW i \in Issues, WorktreeFails(i)
      PROVE  pc'[i] = "idle"
  BY <1>0 DEF WorktreeFails, ClaimsDropped
<1>1. CASE UNCHANGED <<flow, pc>>
  BY <1>0, <1>1
<1>2. CASE PlanningSystem \/ PlanRequest
  BY <1>1, <1>2 DEF PlanRequest, PlanningSystem, PlanStarted, PlanPublished,
     PlannerFails, PlannerStale, PermissionAsked, ReplanCleanup,
     ReworkCleanup, notPlanning
<1>3. CASE ExecutionSystem \/ ExecuteRequest
  <2>1. ~LaneSystem
    BY LaneMoves
  <2>2. ~ExecuteRequest /\ ~ExecutionStarted /\ ~BaseCaptureFails
        /\ ~EnsureFlow /\ ~StartWave
          /\ ~EndWave
    BY DEF ExecuteRequest, ExecutionStarted, BaseCaptureFails, EnsureFlow,
           StartWave, EndWave,
           FlowEnds
  <2>3. ASSUME NEW k \in Issues, ClaimSystem(k)
        PROVE  Fine
    <3>1. flow = "preparing"
            /\ (PrepareWorktree(k) \/ PreparationStops(k) \/ WorktreeFails(k))
      BY <2>3 DEF ClaimSystem, PrepareWorktree, PreparationStops,
         WorktreeFails, TakeSlot, ExecutorReturns, EnterLane
    <3>2. CASE PrepareWorktree(k)
      BY <1>0, <3>1, <3>2 DEF PrepareWorktree
    <3>3. CASE PreparationStops(k) \/ WorktreeFails(k)
      BY <1>0, <3>1, <3>3 DEF PreparationStops, WorktreeFails, ClaimsDropped
    <3> QED BY <3>1, <3>2, <3>3
  <2> QED BY <1>3, <2>1, <2>2, <2>3 DEF ExecutionSystem
<1>4. CASE ReviewSystem \/ ReviewRequest
  BY <1>1, <1>4 DEF ReviewSystem, ReviewRequest, ReviewerReturns,
     ReviewerFails, ReviewDecided
<1>5. CASE UserStep
  BY <1>1, <1>5 DEF UserStep, Cancel, Pause, Takeover, Resume, Release,
     RetryIssues, RetryRun, HumanAccept, HumanRework, memory
<1>6. ~CrashRestart
  BY DEF CrashRestart
<1>7. CASE UNCHANGED vars
  BY <1>1, <1>7 DEF vars, memory
<1> QED
  BY <1>2, <1>3, <1>4, <1>5, <1>6, <1>7 DEF Next, RequestStep

LEMMA PrepStep ==
  Inductive /\ RecordInv /\ PrepInv /\ [Next]_vars => PrepInv'
<1> SUFFICES ASSUME Inductive, RecordInv, PrepInv, [Next]_vars,
                    flow' = "preparing", NEW i \in Issues, NEW j \in Issues,
                    pc'[i] # "idle", Holds(j)'
             PROVE  Holds(i)'
  BY DEF PrepInv
<1>0. TypeOK /\ LaneInv
  BY DEF Inductive
<1>1. CASE ClaimWave
  <2>1. PICK C \in SUBSET {k \in Issues : Claimable(k)} :
          /\ run' = [run EXCEPT !.exec =
                       [k \in Issues |-> IF k \in C THEN "running"
                                         ELSE run.exec[k]]]
          /\ pc' = [k \in Issues |-> IF k \in C THEN "claimed" ELSE "idle"]
    BY <1>1 DEF ClaimWave, FlowEnds
  <2> QED BY <1>0, <2>1 DEF Holds, TypeOK, RunRec
<1>2. CASE ~ClaimWave
  <2>1. flow = "preparing" /\ pc[i] # "idle" /\ ~WorktreeFails(i)
    BY <1>0, <1>2, PrepareMoves
  <2>2. Holds(i)
    BY <1>2, <2>1, HoldsMoves DEF PrepInv
  <2> QED BY <2>1, <2>2, ResetTogether
<1> QED BY <1>1, <1>2

\* The claims of a wave that starts are all authorized, unless the run was
\* stopped meanwhile; those of a wave in progress are kept until reported.
LEMMA WaveKeeps ==
  ASSUME TypeOK, AbortInv, WaveInv, TakenOverInv,
         NEW i \in Issues, Holds(i), run.status = "EXECUTING", ~run.paused,
         flow \in {"preparing", "running"}, pc[i] \notin {"idle", "finished"},
         \/ StartWave \/ EndWave
         \/ \E k \in Issues : ClaimSystem(k) /\ ~WorktreeFails(k)
  PROVE  flow' \in {"preparing", "running"} /\ pc'[i] \notin {"idle", "finished"}
<1> USE DEF TypeOK
<1>1. CASE StartWave
  <2>1. pc[i] = "prepared"
    BY <1>1 DEF StartWave, WaveInv
  <2>2. Authorized(i)
    BY DEF Authorized, TakenOverInv, Holds
  <2> QED BY <1>1, <2>1, <2>2 DEF StartWave
<1>2. ~EndWave
  BY DEF EndWave
<1>3. ASSUME NEW k \in Issues, ClaimSystem(k), ~WorktreeFails(k)
      PROVE  /\ flow' \in {"preparing", "running"}
             /\ pc'[i] \notin {"idle", "finished"}
  <2>1. CASE PrepareWorktree(k)
    BY <2>1 DEF PrepareWorktree
  <2>2. ~PreparationStops(k)
    BY DEF PreparationStops
  <2>3. CASE TakeSlot(k)
    <3>1. ~aborted[i]
      BY DEF AbortInv
    <3> QED BY <2>3, <3>1 DEF TakeSlot, SlotGrants
  <2>4. CASE \E o \in {"succeeded", "broke"} : ExecutorReturns(k, o)
    BY <2>4 DEF ExecutorReturns
  <2>5. CASE EnterLane(k)
    BY <2>5 DEF EnterLane
  <2> QED BY <1>3, <2>1, <2>2, <2>3, <2>4, <2>5 DEF ClaimSystem
<1> QED BY <1>1, <1>2, <1>3

OwnershipInv ==
  /\ StartReadyInv
  /\ TakenOverInv
  /\ RejectedInv
  /\ PrepInv
  /\ OwnedInv

LEMMA OwnedStep ==
  ASSUME Inductive, RecordInv, ClaimInv, OwnerInv, OwnershipInv, [Next]_vars
  PROVE  OwnedInv'
<1>0. /\ TypeOK /\ LaneInv /\ PlanFlowInv /\ StartInv /\ FinInv /\ HeldInv
      /\ WaveInv /\ AbortInv /\ TakenOverInv /\ PrepInv /\ OwnedInv
      /\ RejectedInv /\ ~RetryRun /\ ~RetryIssues /\ ClientChecks
      /\ run \in RunRec /\ pc \in [Issues -> ClaimPc]
  BY DEF Inductive, MergeInv, RecordInv, ClaimInv, OwnershipInv, TypeOK,
         StartReadyInv, Undercut, RetryRun, RetryIssues, Accepts, Sent
<1> SUFFICES ASSUME run'.status # "FAILED", ~run'.paused,
                    NEW i \in Issues, Holds(i)'
             PROVE  /\ flow' \in {"preparing", "running"}
                    /\ pc'[i] \notin {"idle", "finished"}
  BY DEF OwnedInv
<1> USE DEF Becomes, Stays
<1>1. CASE ClaimWave
  <2>1. /\ flow = "claiming"
        /\ run'.status = run.status /\ run'.paused = run.paused
    BY <1>0, <1>1 DEF ClaimWave, RunRec
  <2>2. ~Holds(i)
    BY <1>0, <2>1 DEF OwnedInv
  <2>3. PICK C \in SUBSET {k \in Issues : Claimable(k)} :
          /\ run' = [run EXCEPT !.exec =
                       [k \in Issues |-> IF k \in C THEN "running"
                                         ELSE run.exec[k]]]
          /\ pc' = [k \in Issues |-> IF k \in C THEN "claimed" ELSE "idle"]
          /\ flow' = "preparing"
    BY <1>1, <2>2 DEF ClaimWave, Holds
  <2> QED BY <1>0, <2>2, <2>3 DEF Holds, RunRec
<1>2. CASE ~ClaimWave
  <2>1. Holds(i) /\ run.status = "EXECUTING"
    BY <1>0, <1>2, HoldsMoves DEF HeldInv, FailedFrom
  <2>2. ~UserStep /\ ~CrashRestart
    <3>1. run'.exec # ResetRunning(run.exec)
      BY <1>0, ResetNotRunning DEF Holds
    <3> QED
      BY <1>0, <2>1, <3>1, ControlEffects DEF UserStep
  <2>3. ~run.paused
    BY <1>0, <2>2, FlagMoves DEF SameControl, UserStep
  <2>4. flow \in {"preparing", "running"} /\ pc[i] \notin {"idle", "finished"}
    BY <1>0, <2>1, <2>3 DEF OwnedInv
  <2>5. CASE LaneSystem
    <3>1. UNCHANGED flow /\ (LaneLeft \/ LaneGoesOn)
      BY <1>0, <2>5, LaneMoves
    <3>2. CASE LaneGoesOn
      BY <2>4, <3>1, <3>2 DEF LaneGoesOn
    <3>3. CASE LaneLeft
      <4>1. i # lane.issue
        BY <1>0, <2>5, <3>3, LaneLetsGo DEF LaneLeft, FreeLane, Holds
      <4> QED BY <1>0, <2>4, <3>1, <3>3, <4>1 DEF LaneLeft
    <3> QED BY <3>1, <3>2, <3>3
  <2>6. CASE PlanningSystem \/ PlanRequest
    <3>1. ~PlanPublished
      BY <2>1 DEF PlanPublished
    <3> QED
      BY <2>4, <2>6, <3>1 DEF PlanRequest, PlanningSystem, PlanStarted,
         PlannerFails, PlannerStale, PermissionAsked, ReplanCleanup,
         ReworkCleanup, notPlanning
  <2>7. CASE (ExecutionSystem \/ ExecuteRequest) /\ ~LaneSystem
    <3>1. ~ExecuteRequest /\ ~ExecutionStarted /\ ~BaseCaptureFails
          /\ ~EnsureFlow
      BY <2>4 DEF ExecuteRequest, ExecutionStarted, BaseCaptureFails,
                  EnsureFlow
    <3>2. ASSUME NEW k \in Issues, WorktreeFails(k)
          PROVE  FALSE
      <4>1. flow = "preparing" /\ pc[k] = "claimed"
        BY <3>2 DEF WorktreeFails
      <4>2. Holds(k)
        BY <1>0, <2>1, <4>1 DEF PrepInv
      <4>3. run'.status = "FAILED"
        BY <1>0, <3>2, <4>2 DEF WorktreeFails, Holds, Moved, RunRec
      <4> QED BY <4>3
    <3> QED
      BY <1>0, <1>2, <2>1, <2>3, <2>4, <2>7, <3>1, <3>2, WaveKeeps
         DEF ExecutionSystem
  <2>8. CASE ReviewSystem \/ ReviewRequest
    BY <2>4, <2>8 DEF ReviewSystem, ReviewRequest, ReviewerReturns,
       ReviewerFails, ReviewDecided
  <2>9. CASE UNCHANGED vars
    BY <2>4, <2>9 DEF vars, memory
  <2> QED
    BY <2>2, <2>5, <2>6, <2>7, <2>8, <2>9 DEF Next, RequestStep
<1> QED BY <1>1, <1>2

LEMMA OwnershipStep ==
  Inductive /\ RecordInv /\ ClaimInv /\ OwnerInv /\ OwnershipInv /\ [Next]_vars
    => OwnershipInv'
BY StartReadyStep, TakenOverStep, RejectedStep, PrepStep, OwnedStep
   DEF OwnershipInv, StartReadyInv

\* Every issue an executing run counts as running will be reported: no claim
\* is lost between the claim, its worktree, its slot, its executor and the
\* lane, whatever fails and whenever the run is stopped or restarted.
THEOREM RunningIsOwned ==
  Spec /\ ClientChecks /\ ~MarkerKept /\ ~Undercut => []RunningHasOwner
<1>1. Init /\ ~Undercut => OwnershipInv
  BY DEF Init, OwnershipInv, StartReadyInv, TakenOverInv, RejectedInv,
         PrepInv, OwnedInv, SubmittedRun, FreeLane, Holds, AllPending
<1>2. OwnershipInv => RunningHasOwner
  BY DEF OwnershipInv, OwnedInv, RunningHasOwner
<1> QED
  BY <1>1, <1>2, OwnerInvariant, ClaimInvariant, OwnershipStep, PTL DEF Spec

-----------------------------------------------------------------------------
(* The baseline of the next plan.  Requests to plan, releases of runs      *)
(* whose base was never captured, a restart that forgets the clean-up of a *)
(* rework and a removal that fails, which nobody notices, can each leave   *)
(* an abandoned plan's branch behind.                                      *)

Soiled == \/ "plan" \in UserCommands
          \/ RequirePermission
          \/ "rework" \in UserCommands /\ "crash" \in Faults
          \/ "removal" \in Faults

\* A run with work to keep, once started, knows the base it is built on.
BaseInv ==
  /\ Kept => run.planDone
  /\ Kept /\ run.status # "READY" => run.base

\* Commits of an abandoned plan are on the branch only until the clean-up
\* that precedes the next plan, which knows them by the base.
CleanBaseInv ==
  /\ branch # {} /\ run.status # "CANCELLED" => run.base \/ cleanup = "rework"
  /\ planFlow = "planning" /\ run.status = "PLANNING" => branch = {}
  /\ run.status \in {"READY", "RECEIVED"} \/ FailedFrom("PLANNING")
       => branch = {}
  /\ run.status = "PLANNING" /\ ~run.replanEntry /\ ~run.planDone
       => branch = {} \/ cleanup = "rework"

BaselineInv ==
  /\ ~Soiled
  /\ planFlow # "permission"
  /\ cleanup = "rework" => "rework" \in UserCommands
  /\ BaseInv
  /\ CleanBaseInv

\* Without permissions no flow ever asks for one.
UnaskedInv == ~RequirePermission /\ planFlow # "permission"

\* Without permissions a published run starts or is cancelled.
LEMMA ReadyMoves ==
  ASSUME Inductive, RecordInv, [Next]_vars, ~RequirePermission,
         planFlow # "permission", run.status = "READY"
  PROVE  \/ run'.status \in {"READY", "CANCELLED"}
         \/ ExecutionStarted /\ run'.base
<1>0. /\ TypeOK /\ LaneInv /\ PlanFlowInv /\ StartInv /\ FinInv
      /\ ClientChecks /\ run \in RunRec
  BY DEF Inductive, MergeInv, TypeOK
<1> USE DEF Becomes, Stays
<1>1. CASE PlanningSystem \/ PlanRequest
  BY <1>0, <1>1, PlanningEffects
     DEF PlanningSystem, PlanPublished, PlannerFails, PermissionAsked,
         PlanFlowInv
<1>2. CASE LaneSystem
  BY <1>2, LaneStatusMoves DEF LaneStatus
<1>3. CASE (ExecutionSystem \/ ExecuteRequest) /\ ~LaneSystem
  <2>1. CASE ExecutionStarted
    BY <1>0, <2>1 DEF ExecutionStarted, Started, Moved, RunRec
  <2>2. CASE ~ExecutionStarted
    BY <1>0, <1>3, <2>2, WaveEffects DEF ExecutionSystem, ClaimSystem
  <2> QED BY <2>1, <2>2
<1>4. CASE ReviewSystem \/ ReviewRequest
  BY <1>0, <1>4, ReviewEffects DEF ReviewSystem
<1>5. CASE UserStep \/ CrashRestart
  BY <1>0, <1>5, ControlEffects DEF UserStep
<1> QED
  BY <1>1, <1>2, <1>3, <1>4, <1>5 DEF Next, RequestStep, vars

LEMMA BaseStep ==
  Inductive /\ RecordInv /\ UnaskedInv /\ BaseInv /\ [Next]_vars => BaseInv'
<1> SUFFICES ASSUME Inductive, RecordInv, UnaskedInv, BaseInv, [Next]_vars,
                    Kept'
             PROVE  run'.planDone /\ (run'.status # "READY" => run'.base)
  BY DEF BaseInv
<1>0. TypeOK /\ PlanFlowInv /\ ClientChecks
        /\ ~RequirePermission /\ planFlow # "permission"
  BY DEF Inductive, MergeInv, UnaskedInv
<1>1. CASE PlanPublished
  BY <1>0, <1>1, PlanningEffects DEF PlanPublished, Published, Moved, TypeOK,
     RunRec
<1>2. CASE ~PlanPublished
  <2>1. Kept
    BY <1>2, KeptMoves
  <2>2. run.planDone /\ (run.status # "READY" => run.base)
    BY <2>1 DEF BaseInv
  <2>3. run'.status # "PLANNING" /\ run'.status # "CANCELLED"
    BY DEF Kept, Working, Reviewed, FailedFrom
  <2>4. ~HumanRework
    BY <1>0, <2>3, ControlEffects DEF Becomes
  <2>5. \/ SamePlan
        \/ ExecutionStarted /\ run'.base /\ run'.planDone = run.planDone
    BY <1>0, <1>2, <2>3, <2>4, FlagMoves
  <2>6. run.status = "READY" /\ run'.status # "READY" => run'.base
    BY <1>0, <2>3, ReadyMoves
  <2> QED BY <2>2, <2>5, <2>6 DEF SamePlan
<1> QED BY <1>1, <1>2

\* A run that stays in planning remembers how it got there.
SameEntry == /\ run'.replanEntry = run.replanEntry
             /\ run'.planDone = run.planDone

LEMMA EntryMoves ==
  ASSUME TypeOK, [Next]_vars, run.status = "PLANNING",
         run'.status = "PLANNING"
  PROVE  SameEntry
<1>0. /\ run \in RunRec
      /\ \A to \in Status : CanTransition("PLANNING", to) =>
           to \in {"READY", "CANCELLED", "FAILED"}
  BY DEF TypeOK, CanTransition, Successors
<1> USE DEF RunRec, Moved, SameEntry
<1>1. CASE UNCHANGED run
  BY <1>1
<1>2. CASE PlanningSystem \/ PlanRequest
  BY <1>0, <1>1, <1>2
     DEF PlanRequest, PlanningSystem, PlanStarted, PlanPublished, Published,
         PlannerFails, PlannerStale, PermissionAsked, ReplanCleanup,
         ReworkCleanup, Status
<1>3. CASE (ExecutionSystem /\ ~LaneSystem) \/ ExecuteRequest
  <2>1. ASSUME NEW i \in Issues, ClaimSystem(i)
        PROVE  SameEntry
    BY <1>0, <1>1, <2>1
       DEF ClaimSystem, PrepareWorktree, PreparationStops, WorktreeFails,
           TakeSlot, ExecutorReturns, EnterLane
  <2>2. ClaimWave => SameEntry
    BY <1>0 DEF ClaimWave
  <2>3. ExecutionStarted => UNCHANGED run
    BY <1>0 DEF ExecutionStarted, Started, Status
  <2> QED
    BY <1>1, <1>3, <2>1, <2>2, <2>3
       DEF ExecutionSystem, ExecuteRequest, BaseCaptureFails, EnsureFlow,
           StartWave, EndWave
<1>4. CASE LaneSystem
  <2>1. CheckpointFails \/ CheckpointPasses \/ CheckpointAsksFix
          \/ SetMergeMarker => SameEntry
    BY <1>0 DEF CheckpointFails, CheckpointPasses, CheckpointAsksFix,
       SetMergeMarker
  <2>2. CheckpointAsksReplan \/ CheckpointAtLimit => UNCHANGED run
    BY <1>0 DEF CheckpointAsksReplan, CheckpointAtLimit, Status
  <2>3. RecordDone \/ RecordFailed \/ Settle =>
          SameEntry
    BY <1>0 DEF RecordDone, RecordFailed, Settle, Recorded
  <2> QED
    BY <1>1, <1>4, <2>1, <2>2, <2>3
       DEF LaneSystem, CheckpointReturns, MergeMarkerBusy, MergeSucceeds,
           MergeFails
<1>5. CASE ReviewSystem \/ ReviewRequest
  <2>1. ReviewDecided \/ ReviewerFails => UNCHANGED run
    <3>1. ReviewFailed(run).status = "PLANNING" => ReviewFailed(run) = run
      BY <1>0 DEF ReviewFailed
    <3>2. ~CanTransition(run.status, Target(fin.verdict))
      BY <1>0 DEF Target, Status
    <3> QED BY <3>1, <3>2 DEF ReviewDecided, ReviewerFails
  <2> QED
    BY <1>1, <1>5, <2>1 DEF ReviewSystem, ReviewRequest, ReviewerReturns
<1>6. CASE UserStep
  <2>1. ~Cancel /\ ~Pause /\ ~Takeover /\ ~Resume /\ ~Release /\ ~HumanAccept
          /\ ~HumanRework /\ ~RetryRun /\ ~RetryIssues
    BY <1>0 DEF Cancel, Pause, Takeover, Resume, Release, HumanAccept,
       HumanRework, RetryRun, RetryIssues, Status
  <2> QED BY <1>6, <2>1 DEF UserStep
<1>7. CASE CrashRestart
  BY <1>1, <1>7 DEF CrashRestart, RecoveredRecord
<1> QED
  BY <1>1, <1>2, <1>3, <1>4, <1>5, <1>6, <1>7 DEF Next, RequestStep, vars

\* What happens to a run while it is not being planned.
LEMMA ElsewhereMoves ==
  ASSUME Inductive, RecordInv, [Next]_vars, ~PlanningSystem, ~CrashRestart,
         "plan" \notin UserCommands
  PROVE  \/ /\ \/ /\ run'.status = run.status
                  /\ run'.failedFrom = run.failedFrom
               \/ run'.status = "CANCELLED"
               \/ /\ run.status # "CANCELLED"
                  /\ run'.status \notin {"PLANNING", "READY", "RECEIVED"}
                  /\ run'.status = "FAILED" => run'.failedFrom # "PLANNING"
            /\ UNCHANGED <<planFlow, cleanup>>
         \/ /\ CheckpointAsksReplan \/ ReviewDecided \/ Resume
            /\ run.status \in {"EXECUTING", "INTEGRATION_REVIEW",
                               "WAITING_DECISION"}
            /\ run'.status = "PLANNING"
            /\ UNCHANGED planFlow /\ cleanup' = "replan"
         \/ RetryRun /\ FailedFrom("PLANNING")
         \/ HumanRework /\ run.status = "AWAITING_HUMAN"
<1>0. /\ TypeOK /\ LaneInv /\ StartInv /\ FinInv /\ PlannedInv
      /\ ClientChecks /\ run \in RunRec
  BY DEF Inductive, MergeInv, RecordInv, TypeOK
<1> DEFINE Calm ==
      \/ /\ run'.status = run.status
         /\ run'.failedFrom = run.failedFrom
      \/ run'.status = "CANCELLED"
      \/ /\ run.status # "CANCELLED"
         /\ run'.status \notin {"PLANNING", "READY", "RECEIVED"}
         /\ run'.status = "FAILED" => run'.failedFrom # "PLANNING"
<1> USE DEF Becomes, Stays
<1>1. ~PlanRequest
  BY DEF PlanRequest
<1>2. CASE LaneSystem
  <2>1. UNCHANGED planFlow
    BY <1>0, <1>2, LaneMoves
  <2>2. CASE CheckpointAsksReplan
    <3>1. run.status = "EXECUTING" /\ run'.status = "PLANNING" =>
            cleanup' = "replan"
      BY <2>2 DEF CheckpointAsksReplan
    <3>2. UNCHANGED run => UNCHANGED cleanup
      BY <1>2, LaneStatusMoves DEF LaneStatus
    <3>3. \/ UNCHANGED run
          \/ run.status = "EXECUTING" /\ run'.status = "PLANNING"
      BY <1>0, <2>2, LaneEffects DEF Inductive, MergeInv
    <3> QED BY <2>1, <2>2, <3>1, <3>2, <3>3
  <2>3. CASE ~CheckpointAsksReplan
    BY <1>2, <2>1, <2>3, LaneStatusMoves DEF LaneStatus
  <2> QED BY <2>2, <2>3
<1>3. CASE (ExecutionSystem \/ ExecuteRequest) /\ ~LaneSystem
  <2>1. UNCHANGED <<planFlow, cleanup>>
    BY <1>3 DEF ExecuteRequest, ExecutionSystem, ExecutionStarted,
                BaseCaptureFails, EnsureFlow,
       ClaimWave, StartWave, EndWave, ClaimSystem, PrepareWorktree,
       PreparationStops, WorktreeFails, TakeSlot, ExecutorReturns, EnterLane
  <2>2. Calm
    BY <1>0, <1>3, WaveEffects DEF ExecutionSystem, ClaimSystem
  <2> QED BY <2>1, <2>2
<1>4. CASE ReviewSystem \/ ReviewRequest
  <2>1. UNCHANGED planFlow
    BY <1>4 DEF ReviewSystem, ReviewRequest, ReviewerReturns, ReviewerFails,
       ReviewDecided
  <2>2. CASE ReviewDecided /\ run'.status = "PLANNING"
    <3>1. run.status = "INTEGRATION_REVIEW"
      BY <1>0, <2>2, ReviewEffects DEF FinInv, ReviewDecided
    <3>2. CanTransition(run.status, Target(fin.verdict))
      BY <1>0, <2>2, <3>1 DEF ReviewDecided, ReviewFailed, Moved, RunRec
    <3>3. Target(fin.verdict) = "PLANNING"
      BY <1>0, <2>2, <3>2, DecidedStatus DEF ReviewDecided
    <3>4. cleanup' = "replan"
      BY <2>2, <3>2, <3>3 DEF ReviewDecided
    <3> QED BY <2>1, <2>2, <3>1, <3>4
  <2>3. CASE ~(ReviewDecided /\ run'.status = "PLANNING")
    <3>1. UNCHANGED cleanup
      BY <1>0, <1>4, <2>3, DecidedStatus
         DEF ReviewSystem, ReviewRequest, ReviewerReturns, ReviewerFails,
             ReviewDecided
    <3>2. Calm
      BY <1>0, <1>4, <2>3, ReviewEffects DEF ReviewSystem
    <3> QED BY <2>1, <3>1, <3>2
  <2> QED BY <2>2, <2>3
<1>5. CASE UserStep
  <2>1. CASE Cancel \/ Pause \/ Takeover \/ Release \/ RetryIssues
               \/ HumanAccept
    <3>1. UNCHANGED <<planFlow, cleanup>>
      BY <2>1 DEF Cancel, Pause, Takeover, Release, RetryIssues, HumanAccept,
         memory
    <3>2. Calm
      BY <1>0, <2>1, ControlEffects
    <3> QED BY <3>1, <3>2
  <2>2. CASE Resume
    <3>1. UNCHANGED planFlow
      BY <2>2 DEF Resume
    <3>2. CASE run'.status = "PLANNING"
      <4>1. run.status = "WAITING_DECISION" /\ cleanup' = "replan"
        BY <1>0, <2>2, <3>2, ControlEffects DEF Resume, Moved, RunRec
      <4> QED BY <2>2, <3>1, <3>2, <4>1
    <3>3. CASE run'.status # "PLANNING"
      <4>1. UNCHANGED cleanup
        BY <1>0, <2>2, <3>3 DEF Resume, Moved, RunRec
      <4>2. Calm
        BY <1>0, <2>2, <3>3, ControlEffects
      <4> QED BY <3>1, <4>1, <4>2
    <3> QED BY <3>2, <3>3
  <2>3. CASE RetryRun /\ ~FailedFrom("PLANNING")
    <3>1. /\ run.status = "FAILED"
          /\ RetryTarget \in {"EXECUTING", "INTEGRATION_REVIEW"}
      BY <1>0, <2>3 DEF RetryRun, RetryTarget, PlannedInv, FailedFrom
    <3>2. run'.status = RetryTarget /\ run'.failedFrom = "none"
      BY <1>0, <2>3, ControlEffects
    <3>3. UNCHANGED <<planFlow, cleanup>>
      BY <2>3, <3>1, <3>2 DEF RetryRun, PlanFlowAfter
    <3> QED BY <3>1, <3>2, <3>3
  <2>4. CASE HumanRework
    BY <1>0, <2>4, ControlEffects
  <2>5. CASE RetryRun /\ FailedFrom("PLANNING")
    BY <2>5
  <2> QED BY <1>5, <2>1, <2>2, <2>3, <2>4, <2>5 DEF UserStep
<1>6. CASE UNCHANGED vars
  BY <1>6 DEF vars, memory
<1> QED
  BY <1>1, <1>2, <1>3, <1>4, <1>5, <1>6 DEF Next, RequestStep

LEMMA CleanBaseElsewhere ==
  ASSUME Inductive, RecordInv, QuietInv, CleanInv, BaselineInv, [Next]_vars,
         ~PlanningSystem, ~CrashRestart
  PROVE  CleanBaseInv'
<1>0. /\ TypeOK /\ LaneInv /\ PlanFlowInv /\ HeldInv /\ MergeIsExclusive
      /\ ClientChecks /\ PlannedInv /\ CleanBaseInv /\ BaseInv
      /\ "plan" \notin UserCommands /\ run \in RunRec
      /\ cleanup \in {"none", "replan", "rework"}
  BY DEF Inductive, MergeInv, RecordInv, BaselineInv, Soiled, TypeOK
<1>1. CASE MergeSucceeds
  <2>1. UNCHANGED <<run, planFlow, cleanup>>
    BY <1>1 DEF MergeSucceeds
  <2>2. run.status = "EXECUTING" \/ FailedFrom("EXECUTING")
    BY <1>0, <1>1
       DEF MergeSucceeds, LaneAt, MergeIsExclusive, InMerge, HeldInv,
           LaneInv
  <2>3. run.base
    BY <1>0, <2>2 DEF BaseInv, Kept, Working, FailedFrom
  <2> QED BY <2>1, <2>2, <2>3 DEF CleanBaseInv, FailedFrom
<1>2. CASE ~MergeSucceeds
  <2>1. UNCHANGED branch
    BY <1>0, <1>2, BranchMoves DEF PlanningSystem
  <2>2. CASE HumanRework
    <3>1. /\ run.status = "AWAITING_HUMAN" /\ run'.status = "PLANNING"
          /\ ~run'.base
      BY <1>0, <2>2, ControlEffects DEF HumanRework, Moved, RunRec, Becomes
    <3>2. cleanup = "none" /\ planFlow # "planning"
      BY <1>0, <3>1 DEF CleanInv, QuietInv
    <3>3. CASE run.base
      BY <2>1, <2>2, <3>1, <3>2, <3>3
         DEF HumanRework, CleanBaseInv, FailedFrom
    <3>4. CASE ~run.base
      <4>1. branch = {}
        BY <1>0, <3>1, <3>2, <3>4 DEF CleanBaseInv
      <4> QED BY <2>1, <4>1 DEF CleanBaseInv
    <3> QED BY <3>3, <3>4
  <2>3. CASE RetryRun /\ FailedFrom("PLANNING")
    <3>1. branch = {}
      BY <1>0, <2>3 DEF CleanBaseInv
    <3> QED BY <2>1, <3>1 DEF CleanBaseInv
  <2>4. CASE ~HumanRework /\ ~(RetryRun /\ FailedFrom("PLANNING"))
    <3>1. run.base => run'.base
      BY <1>0, <2>4, FlagMoves DEF SamePlan, PlanningSystem
    <3>2. CASE /\ CheckpointAsksReplan \/ ReviewDecided \/ Resume
               /\ run.status \in {"EXECUTING", "INTEGRATION_REVIEW",
                                  "WAITING_DECISION"}
               /\ run'.status = "PLANNING"
               /\ UNCHANGED planFlow /\ cleanup' = "replan"
      <4>1. cleanup = "none" /\ planFlow # "planning"
        BY <1>0, <3>2 DEF CleanInv, QuietInv
      <4>2. branch # {} => run'.base
        BY <1>0, <3>1, <3>2, <4>1 DEF CleanBaseInv
      <4>3. run'.replanEntry \/ run'.planDone
        <5>1. CASE CheckpointAsksReplan
          BY <1>0, <3>2, <5>1 DEF CheckpointAsksReplan, Moved, RunRec
        <5>2. CASE ReviewDecided
          <6>1. run' # ReviewFailed(run)
            BY <1>0, <3>2 DEF ReviewFailed, Moved, RunRec
          <6>2. run' = Decided /\ Target(fin.verdict) = "PLANNING"
            BY <1>0, <3>2, <5>2, <6>1, DecidedStatus DEF ReviewDecided
          <6> QED BY <1>0, <6>2 DEF Decided, Moved, RunRec
        <5>3. CASE Resume
          <6>1. run.status = "WAITING_DECISION"
            BY <1>0, <3>2, <5>3, ControlEffects DEF Becomes
          <6>2. run.planDone
            BY <1>0, <6>1 DEF BaseInv, Kept, Working
          <6> QED BY <1>0, <5>3, <6>2 DEF Resume, Moved, RunRec
        <5> QED BY <3>2, <5>1, <5>2, <5>3
      <4> QED BY <2>1, <3>2, <4>1, <4>2, <4>3 DEF CleanBaseInv, FailedFrom
    <3>3. CASE
         /\ \/ /\ run'.status = run.status
               /\ run'.failedFrom = run.failedFrom
            \/ run'.status = "CANCELLED"
            \/ /\ run.status # "CANCELLED"
               /\ run'.status \notin {"PLANNING", "READY", "RECEIVED"}
               /\ run'.status = "FAILED" => run'.failedFrom # "PLANNING"
         /\ UNCHANGED <<planFlow, cleanup>>
      <4>1. run.status = "PLANNING" /\ run'.status = "PLANNING" => SameEntry
        BY <1>0, EntryMoves
      <4> QED BY <1>0, <2>1, <3>1, <3>3, <4>1 DEF CleanBaseInv, FailedFrom,
             SameEntry
    <3> QED BY <1>0, <2>4, <3>2, <3>3, ElsewhereMoves
  <2> QED BY <2>2, <2>3, <2>4
<1> QED BY <1>1, <1>2

LEMMA CleanBasePlanning ==
  ASSUME Inductive, RecordInv, QuietInv, CleanInv, BaselineInv,
         PlanningSystem
  PROVE  CleanBaseInv'
<1>0. /\ TypeOK /\ PlanFlowInv /\ CleanBaseInv /\ run \in RunRec
      /\ ~RequirePermission /\ planFlow # "permission"
  BY DEF Inductive, MergeInv, BaselineInv, Soiled, TypeOK
<1>7. Removal = {{}}
  BY DEF BaselineInv, Soiled, Removal
<1> USE DEF FailedFrom
<1>1. CASE PlanStarted
  <2>1. UNCHANGED <<branch, cleanup>>
    BY <1>1 DEF PlanStarted
  <2>2. CASE run.status = "RECEIVED"
    <3>1. branch = {}
      BY <1>0, <2>2 DEF CleanBaseInv
    <3> QED BY <2>1, <3>1 DEF CleanBaseInv
  <2>3. CASE run.status # "RECEIVED"
    <3>1. run.status = "CANCELLED" /\ UNCHANGED run /\ planFlow' = "none"
      BY <1>0, <1>1, <2>3
         DEF PlanStarted, PlanFlowInv, CanTransition, Successors, Terminal
    <3> QED BY <2>1, <3>1 DEF CleanBaseInv
  <2> QED BY <2>2, <2>3
<1>2. CASE PlanPublished \/ PlannerFails
  <2>1. branch = {} /\ UNCHANGED branch
    BY <1>0, <1>2 DEF PlanPublished, PlannerFails, CleanBaseInv
  <2> QED BY <2>1 DEF CleanBaseInv
<1>3. CASE PlannerStale
  BY <1>0, <1>3 DEF PlannerStale, CleanBaseInv
<1>4. CASE ReplanCleanup
  <2>1. /\ UNCHANGED run /\ planFlow' = PlanFlowAfter(run)
        /\ branch' = IF run.base THEN {} ELSE branch
        /\ cleanup = "replan"
    BY <1>4, <1>7 DEF ReplanCleanup, BranchAfterCleanup
  <2>2. run.status # "CANCELLED" => branch' = {}
    BY <1>0, <2>1 DEF CleanBaseInv
  <2> QED BY <1>0, <2>1, <2>2 DEF CleanBaseInv
<1>5. CASE ReworkCleanup
  <2>1. branch' = {}
    BY <1>5, <1>7 DEF ReworkCleanup
  <2> QED BY <2>1 DEF CleanBaseInv
<1>6. ~PermissionAsked
  BY <1>0 DEF PermissionAsked
<1> QED
  BY <1>1, <1>2, <1>3, <1>4, <1>5, <1>6 DEF PlanningSystem

LEMMA CleanBaseCrash ==
  ASSUME Inductive, BaselineInv, CrashRestart
  PROVE  CleanBaseInv'
<1>0. /\ TypeOK /\ CleanBaseInv /\ run \in RunRec /\ ~RequirePermission
      /\ cleanup # "rework"
  BY DEF Inductive, BaselineInv, Soiled, CrashRestart, TypeOK
<1>1. /\ run'.status = run.status /\ run'.failedFrom = run.failedFrom
      /\ run'.base = run.base /\ run'.replanEntry = run.replanEntry
      /\ run'.planDone = run.planDone /\ UNCHANGED branch
  BY <1>0 DEF CrashRestart, RecoveredRecord, RunRec
<1>2. planFlow' = "planning" =>
        run.status = "PLANNING" /\ ~run.replanEntry /\ ~run.planDone
  BY DEF CrashRestart
<1> QED
  BY <1>0, <1>1, <1>2 DEF CleanBaseInv, FailedFrom

LEMMA BaselineStep ==
  Inductive /\ RecordInv /\ QuietInv /\ BranchInv /\ BaselineInv /\ [Next]_vars
    => BaselineInv'
<1> SUFFICES ASSUME Inductive, RecordInv, QuietInv, BranchInv, BaselineInv,
                    [Next]_vars
             PROVE  BaselineInv'
  OBVIOUS
<1>0. TypeOK /\ LaneInv /\ CleanInv /\ ~Soiled
        /\ "plan" \notin UserCommands /\ ~RequirePermission
        /\ planFlow # "permission"
        /\ (cleanup = "rework" => "rework" \in UserCommands)
  BY DEF Inductive, BranchInv, BaselineInv, Soiled
<1>1. planFlow' # "permission"
  BY <1>0, PermissionMoves
<1>2. cleanup' = "rework" => "rework" \in UserCommands
  <2> SUFFICES ASSUME cleanup' = "rework", cleanup # "rework"
               PROVE  "rework" \in UserCommands
    BY <1>0
  <2>1. ~PlanningSystem
    BY DEF PlanningSystem, PlanStarted, PlanPublished, PlannerFails,
       PlannerStale, PermissionAsked, ReplanCleanup, ReworkCleanup
  <2>2. ~CrashRestart
    BY DEF CrashRestart
  <2>3. HumanRework \/ RetryRun
    BY <1>0, <2>1, <2>2, ElsewhereMoves
  <2> QED
    BY <2>3 DEF HumanRework, RetryRun, Sent
<1>3. BaseInv'
  BY BaseStep DEF BaselineInv, UnaskedInv, Soiled
<1>4. CleanBaseInv'
  BY <1>0, CleanBaseElsewhere, CleanBasePlanning, CleanBaseCrash
<1> QED
  BY <1>0, <1>1, <1>2, <1>3, <1>4 DEF BaselineInv, Soiled

\* No plan is published over the commits of an abandoned one: outside the four
\* cases of Soiled, and whatever replan, retry, cancellation, failure or
\* restart came before, the branch the next cycle will use is empty.
THEOREM BaselinesAreClean ==
  Spec /\ ClientChecks /\ ~Soiled => []BaselineIsClean
<1>1. Init /\ ~Soiled => BaselineInv
  BY DEF Init, BaselineInv, BaseInv, CleanBaseInv, SubmittedRun, FailedFrom,
         Kept, Working, Reviewed
<1>2. ~Soiled => "plan" \notin UserCommands
  BY DEF Soiled
<1>3. BaselineInv => BaselineIsClean
  BY DEF BaselineInv, CleanBaseInv, BaselineIsClean
<1> QED
  BY <1>1, <1>2, <1>3, BranchInvariant, BaselineStep, PTL DEF Spec

\* No issue of a cycle runs before the base of its integration branch has been
\* captured.  Only a start from READY captures it, so a release, which is how
\* runs start under requireExecutionPermission, is excluded.
THEOREM BaseIsCapturedFirst ==
  Spec /\ ClientChecks /\ ~RequirePermission => []BaseBeforeWork
<1>1. Init /\ ~RequirePermission => UnaskedInv /\ BaseInv
  BY DEF Init, UnaskedInv, BaseInv, SubmittedRun, FailedFrom, Kept, Working,
         Reviewed
<1>2. Inductive /\ UnaskedInv /\ [Next]_vars => UnaskedInv'
  BY PermissionMoves DEF Inductive, UnaskedInv
<1>3. RecordInv /\ BaseInv => BaseBeforeWork
  BY DEF RecordInv, HeldInv, BaseInv, BaseBeforeWork, IssuesIn, Holds, Kept,
         Working, FailedFrom
<1> QED
  BY <1>1, <1>2, <1>3, RecordInvariant, BaseStep, PTL DEF Spec

-----------------------------------------------------------------------------
(* The contract.                                                           *)

\* A settlement follows the failure of another issue, which can only be done
\* in a later turn of the lane, also when a retry has made the run executing
\* again: a settlement never finishes the plan, and need not send it to its
\* review.
PathInv ==
  lane.step \in {"marking", "merging", "recordOk"} /\ lane.path = "settle"
    => \E i \in Issues \ {lane.issue} : run.exec[i] # "done"

LEMMA PathStep ==
  Inductive /\ RecordInv /\ PathInv /\ [Next]_vars => PathInv'
<1> SUFFICES ASSUME Inductive, RecordInv, PathInv, [Next]_vars,
                    lane'.step \in {"marking", "merging", "recordOk"},
                    lane'.path = "settle"
             PROVE  \E i \in Issues \ {lane'.issue} : run'.exec[i] # "done"
  BY DEF PathInv
<1>0. /\ TypeOK /\ LaneInv /\ ReportInv /\ lane \in LaneRec
      /\ HeldInv /\ UndoneInv
  BY DEF Inductive, MergeInv, RecordInv, TypeOK
<1> DEFINE Pending(i) == i \in Issues \ {lane.issue} /\ run.exec[i] # "done"
<1>1. lane'.issue = lane.issue /\ \E i : Pending(i)
  <2>1. CASE LaneSystem
    <3>1. CASE Settle
      <4>1. ~LeaveLane(TRUE) /\ ~LeaveLane(FALSE)
        BY DEF LeaveLane, FreeLane
      <4>2. run.status = "FAILED" /\ Holds(lane.issue)
              /\ lane'.issue = lane.issue
        BY <1>0, <3>1, <4>1 DEF Settle, LaneRec
      <4>3. lane.issue \in Issues
        BY <1>0, <2>1, LaneMoves
      <4>4. FailedFrom("EXECUTING")
        BY <1>0, <4>2, <4>3 DEF HeldInv
      <4>5. PICK i \in Issues : run.exec[i] \in {"pending", "failed"}
        BY <1>0, <4>4 DEF UndoneInv
      <4>6. Pending(i)
        BY <4>2, <4>5 DEF Holds
      <4> QED BY <4>2, <4>6
    <3>2. CASE ~Settle
      <4> DEFINE From(steps) == /\ lane.path = "settle" /\ lane.step \in steps
                                /\ lane'.issue = lane.issue
      <4>1. ASSUME NEW s, LaneTo(s)
            PROVE  /\ lane.path = "settle" /\ lane'.step = s
                   /\ lane'.issue = lane.issue
        BY <1>0, <4>1 DEF LaneTo, LaneRec
      <4>2. ~LeaveLane(TRUE) /\ ~LeaveLane(FALSE) /\ ~LaneTo("rejected")
              /\ ~Refuse
        <5>1. ~LeaveLane(TRUE) /\ ~LeaveLane(FALSE)
          BY DEF LeaveLane, FreeLane
        <5>2. ~LaneTo("rejected")
          BY <1>0 DEF LaneTo, LaneRec
        <5> QED BY <5>1, <5>2 DEF Refuse
      <4>3. \A v \in {"PASS", "FIX", "REPLAN"} : ~CheckpointReturns(v)
        BY <1>0, <4>2 DEF CheckpointReturns, LaneRec
      <4>4. ~CheckpointFails
        BY <4>2 DEF CheckpointFails
      <4>5. ~CheckpointPasses
        BY <1>0, <4>1 DEF CheckpointPasses, LaneAt, ReportInv
      <4>6. ~CheckpointAsksFix /\ ~CheckpointAsksReplan /\ ~CheckpointAtLimit
        BY <4>2
           DEF CheckpointAsksFix, CheckpointAsksReplan, CheckpointAtLimit
      <4>7. SetMergeMarker => From({"marking"})
        BY <4>1, <4>2 DEF SetMergeMarker, LaneAt
      <4>8. MergeSucceeds => From({"merging"})
        BY <4>1 DEF MergeSucceeds, LaneAt
      <4>9. ~MergeMarkerBusy /\ ~MergeFails /\ ~RecordDone /\ ~RecordFailed
        BY <4>2 DEF MergeMarkerBusy, MergeFails, RecordDone, RecordFailed
      <4> QED
        BY <2>1, <3>2, <4>3, <4>4, <4>5, <4>6, <4>7, <4>8, <4>9
           DEF LaneSystem, PathInv
    <3> QED BY <3>1, <3>2
  <2>2. ~CrashRestart
    BY DEF CrashRestart, FreeLane
  <2>3. CASE Next /\ ~LaneSystem
    <3>1. ~\E i \in Issues : EnterLane(i)
      BY DEF EnterLane, FreeLane
    <3> QED BY <1>0, <2>2, <2>3, <3>1, LaneStands DEF PathInv
  <2>4. CASE UNCHANGED vars
    BY <2>4 DEF PathInv, vars, memory
  <2> QED BY <2>1, <2>3, <2>4
<1>2. ~RecordDone
  BY <1>0 DEF RecordDone, Refuse, LeaveLane, LaneTo, FreeLane, LaneRec
<1>3. PICK i : Pending(i)
  BY <1>1
<1>4. run'.exec[i] # "done"
  BY <1>2, <1>3, DoneMoves
<1> QED
  BY <1>1, <1>3, <1>4

\* What the contract sees of a run in each status.
View ==
  /\ run.status \in {"RECEIVED", "PLANNING"} =>
       Stage = "planning" /\ LiveDone = {}
  /\ run.status \in Working =>
       Stage = "work" /\ LiveDone = IssuesIn("done")
  /\ run.status = "INTEGRATION_REVIEW" =>
       Stage = "review" /\ LiveDone = Issues
  /\ run.status = "AWAITING_HUMAN" => Stage = "human" /\ LiveDone = Issues
  /\ run.status = "ACCEPTED" => Stage = "accepted" /\ LiveDone = Issues
  /\ run.status = "CANCELLED" => Stage = "cancelled" /\ LiveDone = {}
  /\ run.status = "FAILED" => Stage = "failed"
  /\ FailedFrom("PLANNING") => LiveDone = {}
  /\ FailedFrom("EXECUTING") =>
       LiveDone = IssuesIn("done") /\ LiveDone # Issues
  /\ FailedFrom("INTEGRATION_REVIEW") => LiveDone = Issues

LEMMA Viewed == TypeOK /\ RecordInv => View
<1> SUFFICES ASSUME TypeOK, RecordInv PROVE View
  OBVIOUS
<1>1. run.status \in Reviewed \/ FailedFrom("INTEGRATION_REVIEW") =>
        IssuesIn("done") = Issues
  BY DEF RecordInv, GateInv, AllDone, IssuesIn
<1>2. FailedFrom("EXECUTING") => IssuesIn("done") # Issues
  BY DEF RecordInv, UndoneInv, IssuesIn
<1>3. run.status \in Status
  BY DEF TypeOK, RunRec
<1> QED
  BY <1>1, <1>2, <1>3
     DEF View, Stage, LiveDone, Working, Reviewed, FailedFrom

SameDone == \A i \in Issues : run'.exec[i] = "done" <=> run.exec[i] = "done"

\* Steps the contract does not see: the run keeps its stage and its work.
LEMMA Unseen ==
  ASSUME View, View', SameDone, run.status \in Status,
         \/ run'.status = run.status /\ run'.failedFrom = run.failedFrom
         \/ run.status \in Working /\ run'.status \in Working
         \/ run.status = "RECEIVED" /\ run'.status = "PLANNING",
         FailedFrom("PLANNING") \/ FailedFrom("EXECUTING")
           \/ FailedFrom("INTEGRATION_REVIEW") \/ run.status # "FAILED"
  PROVE  UNCHANGED <<Stage, LiveDone>>
<1>1. IssuesIn("done")' = IssuesIn("done")
  BY DEF SameDone, IssuesIn
<1> QED
  BY <1>1 DEF View, FailedFrom, Working, Status

\* Failing keeps the work, resuming it does too.
LEMMA SeenFail ==
  ASSUME View, View', SameDone, run'.status = "FAILED",
         run'.failedFrom = run.status,
         run.status \in {"PLANNING", "EXECUTING", "INTEGRATION_REVIEW"}
  PROVE  Contract!Fail
<1>1. IssuesIn("done")' = IssuesIn("done")
  BY DEF SameDone, IssuesIn
<1> QED
  BY <1>1 DEF View, FailedFrom, Working, Contract!Fail

LEMMA SeenReplan ==
  ASSUME View, View', run'.status = "PLANNING",
         run.status \in Working \cup {"INTEGRATION_REVIEW", "AWAITING_HUMAN"}
  PROVE  Contract!Replan
BY DEF View, Working, Contract!Replan

\* What stays done of the work a FINAL review sends back stands on its own.
LEMMA SeenRevise ==
  ASSUME TypeOK, View, View', ReworkInv, fin.step = "deciding",
         fin.verdict # "PASS", run.status = "INTEGRATION_REVIEW",
         AllDone(run.exec), run'.status \in {"EXECUTING", "WAITING_DECISION"},
         run'.exec = Reworked(run, fin.rework).exec
  PROVE  \E kept \in SUBSET LiveDone : Contract!Revise(kept)
<1> DEFINE kept == Issues \ fin.rework
<1>1. fin.rework \in SUBSET Issues /\ run \in RunRec
  BY DEF TypeOK, FinRec
<1>2. IssuesIn("done")' = kept
  BY <1>1 DEF IssuesIn, Reworked, RunRec, AllDone
<1>3. kept # Issues /\ kept \in SUBSET LiveDone
  BY <1>1 DEF ReworkInv, View
<1>4. Contract!Grounded(kept)
  BY <1>1, DepsAssumption DEF Contract!Grounded, ReworkInv, DependentsIn
<1>5. Stage = "review" /\ Stage' = "work" /\ LiveDone' = kept
  BY <1>2 DEF View, Working
<1> QED
  BY <1>3, <1>4, <1>5 DEF Contract!Revise

LEMMA SeenFinish ==
  ASSUME Inductive, RecordInv, DependenciesFirst, PathInv, View, View',
         RecordDone
  PROVE  Contract!ContractNext \/ UNCHANGED <<Stage, LiveDone>>
<1>0. /\ TypeOK /\ LaneInv /\ ReportInv /\ MergeIsExclusive /\ HeldInv
      /\ run \in RunRec /\ run.exec \in [Issues -> ExecStatus]
  BY DEF Inductive, MergeInv, RecordInv, TypeOK, RunRec
<1> USE DEF Becomes, Stays
<1>1. CASE UNCHANGED run
  BY <1>1 DEF Stage, LiveDone, IssuesIn
<1>2. CASE ~UNCHANGED run
  <2> DEFINE i == lane.issue
  <2>1. /\ i \in Issues /\ Holds(i) /\ run.status \in MergeStatuses
        /\ run'.exec = [run.exec EXCEPT ![i] = "done"]
        /\ lane.step = "recordOk"
    BY <1>0, <1>2, LaneEffects
       DEF RecordDone, LaneAt, LaneInv, Outcome, MergeStatuses
  <2>2. /\ i \notin IssuesIn("done")
        /\ Deps[i] \subseteq IssuesIn("done")
        /\ IssuesIn("done")' = IssuesIn("done") \cup {i}
    BY <1>0, <2>1, DepsAssumption DEF IssuesIn, Holds, DependenciesFirst
  <2>3. AllDone(Outcome("done")) <=> IssuesIn("done")' = Issues
    BY <2>1 DEF AllDone, Outcome, IssuesIn
  <2>4. CASE lane.path = "report"
    <3>1. run.status = "EXECUTING"
      BY <2>1, <2>4 DEF MergeStatuses
    <3>2. run'.status = IF IssuesIn("done")' = Issues
                        THEN "INTEGRATION_REVIEW" ELSE "EXECUTING"
      BY <1>0, <1>2, <2>3, <2>4, <3>1, LaneEffects
    <3>3. Contract!FinishOne(i)
      BY <2>2, <3>1, <3>2 DEF View, Working, Contract!FinishOne
    <3> QED BY <2>1, <3>3 DEF Contract!ContractNext
  <2>5. CASE lane.path = "settle"
    <3>1. run'.status = run.status /\ run'.failedFrom = run.failedFrom
      BY <1>0, <1>2, <2>5, LaneEffects
    <3>2. IssuesIn("done")' # Issues
      BY <2>1, <2>2, <2>5 DEF PathInv, IssuesIn
    <3>3. ASSUME run.status = "FAILED"
          PROVE  Contract!FinishOne(i)
      <4>1. FailedFrom("EXECUTING") /\ FailedFrom("EXECUTING")'
        BY <1>0, <2>1, <3>1, <3>3 DEF HeldInv, FailedFrom
      <4> QED
        BY <2>2, <4>1 DEF View, FailedFrom, Contract!FinishOne
    <3>4. ASSUME run.status = "EXECUTING"
          PROVE  Contract!FinishOne(i)
      BY <2>2, <3>1, <3>2, <3>4 DEF View, Working, Contract!FinishOne
    <3>5. Contract!FinishOne(i)
      BY <2>1, <3>3, <3>4 DEF MergeStatuses
    <3> QED BY <2>1, <3>5 DEF Contract!ContractNext
  <2> QED BY <1>0, <2>4, <2>5 DEF TypeOK, LaneRec
<1> QED BY <1>1, <1>2

LEMMA SeenUser ==
  ASSUME Inductive, RecordInv, View, View', UserStep
  PROVE  Contract!ContractNext \/ UNCHANGED <<Stage, LiveDone>>
<1>0. /\ TypeOK /\ ClientChecks /\ PlannedInv /\ run \in RunRec
      /\ run.status \in Status
  BY DEF Inductive, RecordInv, TypeOK, RunRec
<1> USE DEF Becomes, Stays
<1>1. PlannedInv => FailedFrom("PLANNING") \/ FailedFrom("EXECUTING")
        \/ FailedFrom("INTEGRATION_REVIEW") \/ run.status # "FAILED"
  BY DEF PlannedInv, FailedFrom
<1>2. CASE Cancel
  <2>1. Contract!Abandon
    BY <1>0, <1>2, ControlEffects
       DEF View, Working, Status, Contract!Abandon
  <2> QED BY <2>1 DEF Contract!ContractNext
<1>3. CASE Pause \/ Takeover \/ Release \/ RetryIssues
  <2>1. SameDone
    BY <1>0, <1>3, ControlEffects, ResetNotRunning DEF SameDone
  <2>2. run.status \in Working /\ run'.status \in Working
    BY <1>0, <1>3, ControlEffects DEF Working
  <2> QED BY <1>0, <1>1, <2>1, <2>2, Unseen
<1>4. CASE Resume
  <2>1. SameDone /\ run.status \in Working
          /\ run'.status \in {"PLANNING", "EXECUTING"}
    BY <1>0, <1>4, ControlEffects DEF SameDone, Working
  <2>2. CASE run'.status = "PLANNING"
    BY <2>1, <2>2, SeenReplan DEF Contract!ContractNext
  <2>3. CASE run'.status = "EXECUTING"
    BY <1>0, <1>1, <2>1, <2>3, Unseen DEF Working
  <2> QED BY <2>1, <2>2, <2>3
<1>5. CASE RetryRun
  <2>1. SameDone
    BY <1>0, <1>5, ControlEffects, ResetNotRunning DEF SameDone
  <2>2. IssuesIn("done")' = IssuesIn("done")
    BY <2>1 DEF SameDone, IssuesIn
  <2>3. run.status = "FAILED" /\ run'.status = run.failedFrom
    BY <1>0, <1>5, ControlEffects DEF RetryTarget, PlannedInv
  <2>4. Contract!Retry
    BY <1>0, <2>2, <2>3
       DEF View, FailedFrom, Working, PlannedInv, Contract!Retry
  <2> QED BY <2>4 DEF Contract!ContractNext
<1>6. CASE HumanAccept
  <2>1. Contract!Accept
    BY <1>0, <1>6, ControlEffects DEF View, Contract!Accept
  <2> QED BY <2>1 DEF Contract!ContractNext
<1>7. CASE HumanRework
  <2>1. run.status = "AWAITING_HUMAN" /\ run'.status = "PLANNING"
    BY <1>0, <1>7, ControlEffects
  <2> QED BY <2>1, SeenReplan DEF Contract!ContractNext
<1> QED
  BY <1>2, <1>3, <1>4, <1>5, <1>6, <1>7 DEF UserStep

LEMMA SeenReview ==
  ASSUME Inductive, RecordInv, ReworkInv, View, View', ReviewSystem
  PROVE  Contract!ContractNext \/ UNCHANGED <<Stage, LiveDone>>
<1>0. TypeOK /\ FinInv /\ GateInv
  BY DEF Inductive, MergeInv, RecordInv
<1> USE DEF Becomes, Stays
<1>1. CASE UNCHANGED run
  BY <1>1 DEF Stage, LiveDone, IssuesIn
<1>2. CASE run.status = "INTEGRATION_REVIEW"
            /\ Becomes("FAILED", "INTEGRATION_REVIEW", run.exec)
  BY <1>2, SeenFail DEF SameDone, Contract!ContractNext
<1>3. CASE ReviewDecided /\ ~UNCHANGED run
            /\ ~Becomes("FAILED", "INTEGRATION_REVIEW", run.exec)
  <2>1. run.status = "INTEGRATION_REVIEW" /\ fin.step = "deciding"
    BY <1>0, <1>3, ReviewEffects DEF ReviewDecided
  <2>2. CASE run'.status = "AWAITING_HUMAN"
    <3>1. Contract!Pass
      BY <2>1, <2>2 DEF View, Contract!Pass
    <3> QED BY <3>1 DEF Contract!ContractNext
  <2>3. CASE run'.status = "PLANNING"
    BY <2>1, <2>3, SeenReplan DEF Contract!ContractNext
  <2>4. CASE /\ fin.verdict # "PASS"
             /\ run'.status \in {"EXECUTING", "WAITING_DECISION"}
             /\ run'.exec = Reworked(run, fin.rework).exec
    <3>1. \E kept \in SUBSET LiveDone : Contract!Revise(kept)
      BY <1>0, <2>1, <2>4, SeenRevise DEF GateInv, Reviewed
    <3> QED BY <3>1 DEF Contract!ContractNext
  <2> QED BY <1>0, <1>3, <2>2, <2>3, <2>4, ReviewEffects
<1> QED
  BY <1>0, <1>1, <1>2, <1>3, ReviewEffects DEF ReviewSystem

LEMMA SeenLane ==
  ASSUME Inductive, RecordInv, DependenciesFirst, PathInv, View, View',
         LaneSystem
  PROVE  Contract!ContractNext \/ UNCHANGED <<Stage, LiveDone>>
<1>0. /\ TypeOK /\ LaneInv /\ ReportInv /\ MergeIsExclusive /\ PlannedInv
      /\ lane.issue \in Issues /\ run \in RunRec /\ run.status \in Status
      /\ run.exec \in [Issues -> ExecStatus]
  BY LaneMoves DEF Inductive, MergeInv, RecordInv, TypeOK, RunRec
<1>1. CASE RecordDone
  BY <1>1, SeenFinish
<1>2. CASE ~RecordDone
  <2>1. SameDone
    <3> USE DEF Becomes, Stays, Outcome, Holds, SameDone
    <3>1. CASE CheckpointFails \/ CheckpointAsksFix
      BY <1>0, <3>1, LaneEffects
    <3>2. CASE CheckpointAsksReplan \/ CheckpointAtLimit
      BY <1>0, <3>2, LaneEffects, ResetNotRunning
    <3>3. CASE RecordFailed \/ Settle
      BY <1>0, <3>3, LaneEffects
    <3>4. CASE ~(\/ CheckpointFails \/ CheckpointAsksFix \/ Settle
                 \/ CheckpointAsksReplan \/ CheckpointAtLimit \/ RecordFailed)
      BY <1>0, <1>2, <3>4, LaneEffects DEF LaneSystem
    <3> QED BY <3>1, <3>2, <3>3, <3>4
  <2>2. FailedFrom("PLANNING") \/ FailedFrom("EXECUTING")
          \/ FailedFrom("INTEGRATION_REVIEW") \/ run.status # "FAILED"
    BY <1>0 DEF PlannedInv, FailedFrom
  <2>3. CASE run'.status = run.status /\ run'.failedFrom = run.failedFrom
    BY <1>0, <2>1, <2>2, <2>3, Unseen
  <2>4. CASE run.status = "EXECUTING" /\ run'.status = "FAILED"
              /\ run'.failedFrom = "EXECUTING"
    BY <2>1, <2>4, SeenFail DEF Contract!ContractNext
  <2>5. CASE run.status = "EXECUTING" /\ run'.status = "PLANNING"
    BY <2>5, SeenReplan DEF Contract!ContractNext, Working
  <2>6. CASE run.status = "EXECUTING" /\ run'.status = "WAITING_DECISION"
    BY <1>0, <2>1, <2>2, <2>6, Unseen DEF Working
  <2> QED
    BY <1>2, <2>3, <2>4, <2>5, <2>6, LaneStatusMoves DEF LaneStatus
<1> QED BY <1>1, <1>2

LEMMA SeenPlanning ==
  ASSUME Inductive, RecordInv, View, View', PlanningSystem
  PROVE  Contract!ContractNext \/ UNCHANGED <<Stage, LiveDone>>
<1>0. /\ TypeOK /\ PlanFlowInv /\ PlannedInv /\ run.status \in Status
  BY DEF Inductive, MergeInv, RecordInv, TypeOK, RunRec
<1>1. FailedFrom("PLANNING") \/ FailedFrom("EXECUTING")
        \/ FailedFrom("INTEGRATION_REVIEW") \/ run.status # "FAILED"
  BY <1>0 DEF PlannedInv, FailedFrom
<1> USE DEF Becomes
<1>2. CASE UNCHANGED run
  BY <1>2 DEF Stage, LiveDone, IssuesIn
<1>3. CASE PlanStarted /\ ~UNCHANGED run
  <2>1. SameDone /\ run.status = "RECEIVED" /\ run'.status = "PLANNING"
    BY <1>0, <1>3, PlanningEffects DEF SameDone, PlanStarted, PlanFlowInv
  <2> QED BY <1>0, <1>1, <2>1, Unseen
<1>4. CASE PlanPublished
  <2>1. run.status = "PLANNING" /\ run'.status = "READY"
          /\ run'.exec = AllPending
    BY <1>0, <1>4, PlanningEffects DEF PlanPublished
  <2>2. IssuesIn("done")' = {}
    BY <2>1 DEF IssuesIn, AllPending
  <2>3. Contract!Publish
    BY <2>1, <2>2 DEF View, Working, Contract!Publish
  <2> QED BY <2>3 DEF Contract!ContractNext
<1>5. CASE PlannerFails
  <2>1. Becomes("FAILED", "PLANNING", run.exec) /\ run.status = "PLANNING"
    BY <1>0, <1>5, PlanningEffects DEF PlannerFails
  <2> QED BY <2>1, SeenFail DEF SameDone, Contract!ContractNext
<1>6. CASE PermissionAsked /\ ~UNCHANGED run
  <2>1. SameDone /\ run.status = "READY"
          /\ run'.status = "WAITING_PERMISSION"
    BY <1>0, <1>6, PlanningEffects DEF SameDone, PermissionAsked, PlanFlowInv
  <2> QED BY <1>0, <1>1, <2>1, Unseen DEF Working
<1> QED
  BY <1>0, <1>2, <1>3, <1>4, <1>5, <1>6, PlanningEffects DEF PlanningSystem

LEMMA SeenWave ==
  ASSUME Inductive, RecordInv, View, View', ExecutionSystem, ~LaneSystem
  PROVE  Contract!ContractNext \/ UNCHANGED <<Stage, LiveDone>>
<1>0. /\ TypeOK /\ StartInv /\ PlannedInv /\ run.status \in Status
      /\ run.exec \in [Issues -> ExecStatus]
  BY DEF Inductive, MergeInv, RecordInv, TypeOK, RunRec
<1>1. FailedFrom("PLANNING") \/ FailedFrom("EXECUTING")
        \/ FailedFrom("INTEGRATION_REVIEW") \/ run.status # "FAILED"
  BY <1>0 DEF PlannedInv, FailedFrom
<1> USE DEF Becomes, Stays
<1>2. CASE UNCHANGED run
  BY <1>2 DEF Stage, LiveDone, IssuesIn
<1>3. CASE ExecutionStarted /\ ~UNCHANGED run
  <2>1. SameDone /\ run.status \in Working /\ run'.status = "EXECUTING"
    BY <1>0, <1>3, WaveEffects DEF SameDone, Working
  <2> QED BY <1>0, <1>1, <2>1, Unseen DEF Working
<1>4. CASE ClaimWave /\ ~UNCHANGED run
  <2>1. PICK C \in SUBSET {i \in Issues : Claimable(i)} :
               Stays([i \in Issues |-> IF i \in C THEN "running"
                                       ELSE run.exec[i]])
    BY <1>0, <1>4, WaveEffects
  <2>2. SameDone
    BY <2>1 DEF SameDone, Claimable
  <2> QED BY <1>0, <1>1, <2>1, <2>2, Unseen
<1>5. ASSUME NEW i \in Issues, PrepareWorktree(i)
      PROVE  Contract!ContractNext \/ UNCHANGED <<Stage, LiveDone>>
  <2>1. Stays(run.exec)
    BY <1>0, <1>5, WaveEffects
  <2> QED BY <1>0, <1>1, <2>1, Unseen DEF SameDone
<1>6. ASSUME NEW i \in Issues, WorktreeFails(i), ~UNCHANGED run
      PROVE  Contract!ContractNext \/ UNCHANGED <<Stage, LiveDone>>
  <2>1. /\ run.status = "EXECUTING" /\ Holds(i)
        /\ Becomes("FAILED", "EXECUTING", [run.exec EXCEPT ![i] = "failed"])
    BY <1>0, <1>6, WaveEffects
  <2>2. SameDone
    BY <1>0, <2>1 DEF SameDone, Holds
  <2> QED BY <2>1, <2>2, SeenFail DEF Contract!ContractNext
<1> QED
  BY <1>0, <1>2, <1>3, <1>4, <1>5, <1>6, WaveEffects
     DEF ExecutionSystem, ClaimSystem

LEMMA SeenRestart ==
  ASSUME Inductive, RecordInv, View, View', CrashRestart
  PROVE  UNCHANGED <<Stage, LiveDone>>
<1>0. TypeOK /\ PlannedInv /\ run \in RunRec /\ run.status \in Status
  BY DEF Inductive, RecordInv, TypeOK, RunRec
<1>1. FailedFrom("PLANNING") \/ FailedFrom("EXECUTING")
        \/ FailedFrom("INTEGRATION_REVIEW") \/ run.status # "FAILED"
  BY <1>0 DEF PlannedInv, FailedFrom
<1>2. SameDone
  BY <1>0, ResetNotRunning
     DEF SameDone, CrashRestart, RecoveredRecord, Moved, RunRec
<1>3. \/ run'.status = run.status /\ run'.failedFrom = run.failedFrom
      \/ run.status \in Working /\ run'.status \in Working
  BY <1>0 DEF CrashRestart, RecoveredRecord, Moved, RunRec, Working
<1> QED BY <1>0, <1>1, <1>2, <1>3, Unseen

\* Every step of a run is a step of its contract, or one it does not see.
LEMMA ContractStep ==
  ASSUME Inductive, RecordInv, ReworkInv, DependenciesFirst, PathInv,
         View, View', [Next]_vars
  PROVE  Contract!ContractNext \/ UNCHANGED <<Stage, LiveDone>>
<1>1. CASE PlanRequest \/ ExecuteRequest \/ ReviewRequest \/ UNCHANGED vars
  <2>1. UNCHANGED run
    BY <1>1 DEF PlanRequest, ExecuteRequest, ReviewRequest, vars
  <2> QED BY <2>1 DEF Stage, LiveDone, IssuesIn
<1>2. CASE PlanningSystem
  BY <1>2, SeenPlanning
<1>3. CASE LaneSystem
  BY <1>3, SeenLane
<1>4. CASE ExecutionSystem /\ ~LaneSystem
  BY <1>4, SeenWave
<1>5. CASE ReviewSystem
  BY <1>5, SeenReview
<1>6. CASE UserStep
  BY <1>6, SeenUser
<1>7. CASE CrashRestart
  BY <1>7, SeenRestart
<1> QED
  BY <1>1, <1>2, <1>3, <1>4, <1>5, <1>6, <1>7 DEF Next, RequestStep

\* A run keeps its contract: its concurrency, its failures and its restarts
\* do nothing to its stage and its finished work that RunContract does not
\* do.
THEOREM RunFulfilsContract == Spec /\ ClientChecks => FulfilsContract
<1>1. Init => Contract!ContractInit
  BY DEF Init, SubmittedRun, Contract!ContractInit, Stage, LiveDone
<1>2. Init => PathInv
  BY DEF Init, PathInv, FreeLane
<1>3. Inductive /\ RecordInv /\ ReworkInv /\ DependenciesFirst /\ PathInv
        /\ View /\ View' /\ [Next]_vars
      => [Contract!ContractNext]_(Contract!contractVars)
  BY ContractStep DEF Contract!contractVars
<1>4. Inductive /\ RecordInv => View
  BY Viewed DEF Inductive
<1> QED
  BY <1>1, <1>2, <1>3, <1>4, DependenciesInvariant, PathStep, PTL
     DEF Spec, FulfilsContract, Contract!ContractSpec

-----------------------------------------------------------------------------
(* What the contract promises. *)

ContractInv == Contract!ContractTypeOK /\ Contract!ContractHolds

LEMMA ContractInvStep ==
  ContractInv /\ [Contract!ContractNext]_(Contract!contractVars) => ContractInv'
<1> SUFFICES ASSUME ContractInv,
                    [Contract!ContractNext]_(Contract!contractVars)
             PROVE  ContractInv'
  OBVIOUS
<1> USE DepsAssumption
    DEF ContractInv, Contract!ContractTypeOK, Contract!ContractHolds,
        Contract!Stages, Contract!Grounded
<1>1. ASSUME NEW i \in Issues, Contract!FinishOne(i)
      PROVE  ContractInv'
  <2>1. LiveDone' = LiveDone \cup {i} /\ Deps[i] \subseteq LiveDone
    BY <1>1 DEF Contract!FinishOne
  <2>2. \A j \in LiveDone' : Deps[j] \subseteq LiveDone'
    BY <2>1
  <2>3. /\ Stage' \in {"review", "human", "accepted"} => LiveDone' = Issues
        /\ Stage' \in Contract!Stages
    BY <1>1 DEF Contract!FinishOne
  <2> QED BY <2>1, <2>2, <2>3
<1>2. ASSUME NEW kept \in SUBSET LiveDone, Contract!Revise(kept)
      PROVE  ContractInv'
  BY <1>2 DEF Contract!Revise
<1>3. CASE Contract!Replan \/ Contract!Abandon
  BY <1>3 DEF Contract!Replan, Contract!Abandon
<1>4. CASE Contract!Publish \/ Contract!Pass \/ Contract!Accept \/ Contract!Fail
  BY <1>4
     DEF Contract!Publish, Contract!Pass, Contract!Accept, Contract!Fail
<1>5. CASE Contract!Retry
  BY <1>5 DEF Contract!Retry
<1>6. CASE UNCHANGED Contract!contractVars
  BY <1>6 DEF Contract!contractVars
<1> QED
  BY <1>1, <1>2, <1>3, <1>4, <1>5, <1>6 DEF Contract!ContractNext

\* Whatever implements the contract keeps finished work grounded in finished
\* work, and shows its reviewers and its human nothing but complete plans.
THEOREM ContractKept == Contract!ContractSpec => []Contract!ContractHolds
<1>1. Contract!ContractInit => ContractInv
  BY DEF Contract!ContractInit, ContractInv, Contract!ContractTypeOK,
         Contract!ContractHolds, Contract!Stages, Contract!Grounded
<1>2. ContractInv => Contract!ContractHolds
  BY DEF ContractInv
<1> QED
  BY <1>1, <1>2, ContractInvStep, PTL DEF Contract!ContractSpec

\* So does the composition of flows, lanes and controls in service.ts.
THEOREM PromisesKept == Spec /\ ClientChecks => []Contract!ContractHolds
BY RunFulfilsContract, ContractKept, PTL DEF FulfilsContract

-----------------------------------------------------------------------------
(* Clients that send what they were not offered: what the transition table *)
(* guarantees on its own.                                                  *)

\* Without allowedActions the record goes further than above: any stopped or
\* failed run can be resumed with the plan it has, and a control moves a run
\* out of its review.  Two things the table cannot make good are left out: a
\* run that waits for permission before it starts, which a takeover can fail
\* outside every stage, and a human's rework, which resets the executions of
\* whatever run it reaches.
TableSuffices == ~RequirePermission /\ "rework" \notin UserCommands

\* Without a plan nothing was ever claimed, and a plan that waits for its
\* execution has nothing done.
UnbegunInv ==
  /\ run.status = "READY" => run.planned
  /\ ~run.planned => /\ flow = "none"
                     /\ \A i \in Issues : run.exec[i] = "pending"
  /\ run.status = "READY" \/ flow = "starting" =>
       \A i \in Issues : run.exec[i] # "done"

\* Nobody asks for permission, and planning starts once.
UnaskingInv ==
  /\ planFlow # "permission"
  /\ planFlow = "starting" => run.status \in {"RECEIVED", "CANCELLED"}

\* Nobody works on an issue that is done, and outside a running wave nobody
\* works at all.
WantedInv ==
  /\ \A i \in Issues : pc[i] \notin {"idle", "finished"}
                         => run.exec[i] # "done"
  /\ flow # "running" =>
       \A i \in Issues : pc[i] \in {"idle", "claimed", "prepared"}

\* A reviewer's plan stays complete while it works, however a control moves
\* the run meanwhile, and so does the plan of a run that failed anywhere but
\* in its planning or its execution: a retry may send it to review again.
CompleteInv ==
  /\ fin.step # "idle" =>
       /\ AllDone(run.exec)
       /\ run.status \in {"INTEGRATION_REVIEW", "EXECUTING", "PAUSED",
                          "WAITING_PERMISSION", "CANCELLED"}
  /\ run.status \in Reviewed => AllDone(run.exec)
  /\ run.status = "FAILED" /\ run.failedFrom \notin {"PLANNING", "EXECUTING"}
       => AllDone(run.exec)

\* A report whose claim still stands finds the run executing: every control
\* that leaves EXECUTING takes the claims back.
StandingInv ==
  lane.step \notin {"free", "rejected"} /\ lane.path = "report"
    /\ Holds(lane.issue) => run.status = "EXECUTING"

\* Executors that were not aborted belong to an executing run, or to one that
\* failed with them at work.
HaltedInv ==
  \A i \in Issues : Live(i) /\ ~aborted[i] =>
    \/ run.status = "EXECUTING"
    \/ run.status = "FAILED" /\ run.failedFrom # "PLANNING"

RecordOpen ==
  /\ UnbegunInv /\ UnaskingInv /\ CompleteInv /\ HumanSeesFinalPass

LaneOpen ==
  /\ ReportInv /\ StandingInv /\ MarkInv /\ MergeIsExclusive
  /\ NoUnreviewedMerge

OpenInv == RecordOpen /\ WantedInv /\ LaneOpen /\ HaltedInv

LEMMA OpenInit == Init => OpenInv
BY IssuesAssumption
   DEF Init, OpenInv, RecordOpen, LaneOpen, UnbegunInv, UnaskingInv,
       CompleteInv, HumanSeesFinalPass, ReportInv, StandingInv, MarkInv,
       MergeIsExclusive, NoUnreviewedMerge, InMerge, WantedInv, HaltedInv,
       Live, SubmittedRun, AllPending, FreeLane, IdleReview, Reviewed

\* When everything is done nobody works, and the lane is free.
LEMMA DoneIsIdle ==
  ASSUME TypeOK, LaneInv, WantedInv, AllDone(run.exec)
  PROVE  /\ lane.step = "free"
         /\ \A i \in Issues : pc[i] \in {"idle", "finished"}
         /\ run.exec # AllPending
         /\ \E i \in Issues : run.exec[i] = "done"
BY IssuesAssumption DEF LaneInv, WantedInv, AllDone, AllPending

\* Publishing replaces every execution of the plan before; the rest of
\* planning leaves the executions alone.
LEMMA OpenPlanning ==
  ASSUME TypeOK, LaneInv, OpenInv, TableSuffices,
         PlanRequest \/ PlanningSystem
  PROVE  OpenInv'
<1>0. /\ UNCHANGED <<pc, aborted, lane, fin>>
      /\ lane.step # "free" => lane.issue \in Issues
  BY DEF PlanRequest, PlanningSystem, PlanStarted, PlanPublished,
         PlannerFails, PlannerStale, PermissionAsked, ReplanCleanup,
         ReworkCleanup, notPlanning, LaneInv
<1>1. /\ RecordOpen /\ LaneOpen /\ WantedInv /\ HaltedInv /\ UnaskingInv
  BY DEF OpenInv, RecordOpen
<1> USE DEF OpenInv, RecordOpen, LaneOpen, UnbegunInv, UnaskingInv,
       CompleteInv, HumanSeesFinalPass, ReportInv, StandingInv, MarkInv,
       MergeIsExclusive, MergeStatuses, NoUnreviewedMerge, InMerge, WantedInv,
       HaltedInv, Live, Reviewed, Holds, Becomes
<1>2. CASE PlanRequest \/ PlannerStale \/ ReplanCleanup \/ ReworkCleanup
  <2>1. /\ UNCHANGED <<run, flow, approved>>
        /\ planFlow' # "permission"
        /\ planFlow' = "starting" => run.status = "RECEIVED"
                                     \/ planFlow = "starting"
    BY <1>1, <1>2 DEF PlanRequest, PlannerStale, ReplanCleanup,
                      ReworkCleanup, PlanFlowAfter
  <2> QED BY <1>0, <1>1, <2>1
<1>3. CASE PlanStarted
  <2>1. /\ UNCHANGED <<flow, approved>> /\ planFlow' \in {"none", "planning"}
        /\ run.status \in {"RECEIVED", "CANCELLED"}
    BY <1>1, <1>3 DEF PlanStarted
  <2>2. \/ UNCHANGED run
        \/ run.status = "RECEIVED" /\ Becomes("PLANNING", "none", run.exec)
    BY <1>3, <2>1, PlanningEffects
  <2> QED BY <1>0, <1>1, <2>1, <2>2
<1>4. CASE PlanPublished
  <2>1. /\ run.status = "PLANNING" /\ run'.status = "READY" /\ run'.planned
        /\ run'.exec = AllPending
        /\ planFlow' = "none"
        /\ flow' \in {flow, "starting"} /\ (flow # "none" => flow' = flow)
    BY <1>4, PlanningEffects DEF PlanPublished, StartsAtOnce, TableSuffices
  <2>2. RecordOpen'
    BY <1>0, <1>1, <2>1 DEF AllPending, AllDone
  <2>3. LaneOpen'
    BY <1>0, <1>1, <2>1
  <2>4. WantedInv' /\ HaltedInv'
    BY <1>0, <1>1, <2>1 DEF AllPending
  <2> QED BY <2>2, <2>3, <2>4
<1>5. CASE PlannerFails
  <2>1. /\ run.status = "PLANNING" /\ Becomes("FAILED", "PLANNING", run.exec)
        /\ planFlow' = "none" /\ UNCHANGED <<flow, approved>>
    BY <1>5, PlanningEffects DEF PlannerFails
  <2> QED BY <1>0, <1>1, <2>1
<1>6. ~PermissionAsked
  BY <1>1 DEF PermissionAsked
<1> QED BY <1>2, <1>3, <1>4, <1>5, <1>6 DEF PlanningSystem

\* Waves claim, start and end: they touch no issue that is done.
LEMMA OpenWave ==
  ASSUME TypeOK, LaneInv, OpenInv,
         \/ ExecuteRequest \/ ExecutionStarted \/ BaseCaptureFails
         \/ EnsureFlow \/ ClaimWave
         \/ StartWave \/ EndWave \/ \E i \in Issues : ClaimSystem(i)
  PROVE  OpenInv'
<1>0. /\ UNCHANGED <<planFlow, fin>>
      /\ lane.step # "free" => lane.issue \in Issues
      /\ pc \in [Issues -> ClaimPc] /\ run.exec \in [Issues -> ExecStatus]
  BY DEF ExecuteRequest, ExecutionStarted, BaseCaptureFails, EnsureFlow,
         ClaimWave, StartWave,
         EndWave, ClaimSystem, PrepareWorktree, PreparationStops,
         WorktreeFails, TakeSlot, ExecutorReturns, EnterLane, LaneInv, TypeOK,
         RunRec
<1>1. /\ RecordOpen /\ LaneOpen /\ WantedInv /\ HaltedInv
  BY DEF OpenInv
<1>11. AllDone(run.exec) =>
         /\ lane.step = "free"
         /\ \A i \in Issues : pc[i] \in {"idle", "finished"}
         /\ \E i \in Issues : run.exec[i] = "done"
  BY <1>1, DoneIsIdle
<1> USE DEF OpenInv, RecordOpen, LaneOpen, UnbegunInv, UnaskingInv,
       CompleteInv, HumanSeesFinalPass, ReportInv, StandingInv, MarkInv,
       MergeIsExclusive, MergeStatuses, NoUnreviewedMerge, InMerge, WantedInv,
       HaltedInv, Live, Reviewed, Holds, Becomes, Stays
<1>2. CASE ExecuteRequest \/ BaseCaptureFails \/ EnsureFlow
  <2>1. /\ UNCHANGED <<run, pc, aborted, lane, approved>>
        /\ flow \in {"none", "starting"}
        /\ flow' \in {"none", "starting", "claiming"}
        /\ flow' # flow => run.planned
        /\ flow' = "starting" => run.status = "READY" \/ flow = "starting"
    BY <1>2 DEF ExecuteRequest, BaseCaptureFails, EnsureFlow, NeedsFlow
  <2> QED BY <1>0, <1>1, <2>1
<1>3. CASE ExecutionStarted
  <2>1. /\ UNCHANGED <<pc, aborted, lane, approved>> /\ flow = "starting"
        /\ flow' \in {"none", "claiming"} /\ lane.step = "free"
    BY <1>3 DEF ExecutionStarted, LaneInv
  <2>2. \/ UNCHANGED run
        \/ /\ run.status \notin {"RECEIVED", "CANCELLED"}
           /\ Becomes("EXECUTING", "none", run.exec)
    <3>1. \/ UNCHANGED run
          \/ CanTransition(run.status, "EXECUTING") /\ run' = Started(run)
      BY <1>3 DEF ExecutionStarted
    <3>2. CanTransition(run.status, "EXECUTING")
            => run.status \notin {"RECEIVED", "CANCELLED"}
      BY DEF CanTransition, Successors, Terminal
    <3>3. run' = Started(run) => Becomes("EXECUTING", "none", run.exec)
      BY DEF Started, Moved, TypeOK, RunRec
    <3> QED BY <3>1, <3>2, <3>3
  <2>3. RecordOpen'
    BY <1>0, <1>1, <2>1, <2>2
  <2>4. WantedInv' /\ HaltedInv'
    BY <1>1, <2>1, <2>2
  <2> QED BY <2>1, <2>3, <2>4
<1>4. CASE ClaimWave
  <2>1. /\ UNCHANGED <<aborted, lane>> /\ flow = "claiming"
        /\ lane.step = "free"
    BY <1>4 DEF ClaimWave, LaneInv
  <2>2. CASE UNCHANGED run
    <3>1. CASE UNCHANGED pc /\ flow' = "none"
      BY <1>0, <1>1, <2>1, <2>2, <3>1
    <3>2. CASE ~(UNCHANGED pc /\ flow' = "none")
      <4>1. PICK C \in SUBSET {i \in Issues : Claimable(i)} :
              /\ flow' = "preparing"
              /\ pc' = [i \in Issues |-> IF i \in C THEN "claimed" ELSE "idle"]
        BY <1>4, <3>2 DEF ClaimWave, FlowEnds
      <4>2. \A i \in Issues : /\ pc'[i] \in {"claimed", "idle"}
                              /\ pc'[i] = "claimed" => run.exec[i] # "done"
        BY <4>1 DEF Claimable
      <4> QED BY <1>0, <1>1, <2>1, <2>2, <4>1, <4>2
    <3> QED BY <3>1, <3>2
  <2>3. CASE ~UNCHANGED run
    <3>1. PICK C \in SUBSET {i \in Issues : Claimable(i)} :
            /\ run.status = "EXECUTING" /\ flow' = "preparing"
            /\ run' = [run EXCEPT !.exec =
                         [i \in Issues |-> IF i \in C THEN "running"
                                           ELSE run.exec[i]]]
            /\ pc' = [i \in Issues |-> IF i \in C THEN "claimed" ELSE "idle"]
      BY <1>4, <2>3 DEF ClaimWave
    <3>2. /\ Stays([i \in Issues |-> IF i \in C THEN "running"
                                     ELSE run.exec[i]])
          /\ C # {} /\ C \subseteq Issues
          /\ \A i \in C : run.exec[i] # "done"
          /\ run.planned
      <4>1. Stays([i \in Issues |-> IF i \in C THEN "running"
                                    ELSE run.exec[i]])
        BY <3>1 DEF TypeOK, RunRec
      <4>2. C # {}
        <5>1. C = {} => run' = run
          BY <3>1 DEF TypeOK, RunRec
        <5> QED BY <2>3, <5>1
      <4>3. \A i \in C : run.exec[i] # "done"
        BY DEF Claimable
      <4> QED BY <1>1, <2>1, <4>1, <4>2, <4>3
    <3>3. ~AllDone(run.exec)
      BY <3>2 DEF AllDone
    <3>4. RecordOpen'
      BY <1>0, <1>1, <2>1, <3>1, <3>2, <3>3
    <3>5. LaneOpen'
      BY <2>1
    <3>6. WantedInv' /\ HaltedInv'
      BY <1>1, <2>1, <3>1, <3>2
    <3> QED BY <3>4, <3>5, <3>6
  <2> QED BY <2>2, <2>3
<1>5. CASE StartWave
  <2>1. /\ UNCHANGED <<run, lane, approved>> /\ flow = "preparing"
        /\ flow' \in {"running", "none"}
        /\ lane.step = "free"
    BY <1>5 DEF StartWave, FlowEnds, LaneInv
  <2>2. \A i \in Issues :
          /\ pc'[i] \in {"idle", "slot", "finished"}
          /\ pc'[i] = "slot" => /\ run.status = "EXECUTING"
                                /\ run.exec[i] = "running"
          /\ flow' = "none" => pc'[i] = "idle"
    BY <1>5 DEF StartWave, Authorized, FlowEnds
  <2>3. RecordOpen'
    BY <1>0, <1>1, <2>1
  <2>4. WantedInv' /\ HaltedInv'
    BY <1>1, <2>1, <2>2
  <2> QED BY <1>1, <2>1, <2>3, <2>4
<1>6. CASE EndWave
  <2>1. /\ UNCHANGED <<run, lane, approved>> /\ flow = "running"
        /\ flow' \in {"claiming", "none"}
        /\ \A i \in Issues : pc'[i] = "idle"
    BY <1>6 DEF EndWave, FlowEnds
  <2> QED BY <1>0, <1>1, <2>1
<1>7. ASSUME NEW i \in Issues, ClaimSystem(i)
      PROVE  OpenInv'
  <2>1. CASE PrepareWorktree(i)
    <3>1. /\ UNCHANGED <<flow, aborted, lane, approved>>
          /\ flow = "preparing" /\ lane.step = "free"
          /\ \A j \in Issues : pc'[j] \in {pc[j], "prepared"}
          /\ \A j \in Issues : pc[j] \in {"idle", "finished"} => pc'[j] = pc[j]
      BY <1>0, <2>1 DEF PrepareWorktree, LaneInv
    <3>2. Stays(run.exec) /\ run'.review = run.review
      BY <2>1 DEF PrepareWorktree, TypeOK, RunRec
    <3>3. RecordOpen'
      BY <1>0, <1>1, <3>1, <3>2
    <3>4. WantedInv' /\ HaltedInv'
      BY <1>0, <1>1, <3>1, <3>2
    <3> QED BY <1>1, <3>1, <3>3, <3>4
  <2>2. CASE PreparationStops(i)
    <3>1. /\ UNCHANGED <<run, flow, aborted, lane, approved>>
          /\ \A j \in Issues : pc'[j] \in {pc[j], "idle"}
      BY <1>0, <2>2 DEF PreparationStops, ClaimsDropped
    <3> QED BY <1>0, <1>1, <3>1
  <2>3. CASE WorktreeFails(i)
    <3>1. /\ UNCHANGED <<flow, aborted, lane, approved>>
          /\ flow = "preparing" /\ lane.step = "free"
          /\ \A j \in Issues : pc'[j] \in {pc[j], "idle"}
          /\ run.exec[i] # "done" /\ run.status = "EXECUTING"
      BY <1>0, <1>1, <2>3 DEF WorktreeFails, ClaimsDropped, LaneInv
    <3>2. \/ UNCHANGED run
          \/ Becomes("FAILED", "EXECUTING", [run.exec EXCEPT ![i] = "failed"])
      BY <2>3, WaveEffects
    <3>3. RecordOpen'
      <4>1. ~AllDone(run.exec) /\ run.planned
        BY <1>1, <3>1 DEF AllDone
      <4> QED BY <1>0, <1>1, <3>1, <3>2, <4>1
    <3>4. WantedInv' /\ HaltedInv'
      BY <1>0, <1>1, <3>1, <3>2
    <3> QED BY <3>1, <3>3, <3>4
  <2>4. CASE TakeSlot(i)
    <3>1. /\ UNCHANGED <<run, flow, aborted, lane, approved>>
          /\ flow = "running" /\ pc[i] = "slot"
          /\ \A j \in Issues : j # i => pc'[j] = pc[j]
          /\ pc'[i] \in {"executing", "finished"}
      BY <1>0, <2>4 DEF TakeSlot
    <3> QED BY <1>0, <1>1, <3>1
  <2>5. CASE \E o \in {"succeeded", "broke"} : ExecutorReturns(i, o)
    <3>1. /\ UNCHANGED <<run, flow, aborted, lane, approved>>
          /\ flow = "running" /\ pc[i] = "executing"
          /\ \A j \in Issues : j # i => pc'[j] = pc[j]
          /\ pc'[i] \in {"succeeded", "broke"}
      BY <1>0, <2>5 DEF ExecutorReturns
    <3> QED BY <1>0, <1>1, <3>1
  <2>6. CASE EnterLane(i)
    <3>1. /\ UNCHANGED <<run, flow, pc, aborted, approved>>
          /\ lane'.issue = i
          /\ lane'.path = "report"
          /\ lane'.step \in {"rejected", "recordFail", "checkpoint",
                             "marking"}
          /\ lane'.step # "rejected" => run.status = "EXECUTING"
          /\ lane'.step = "marking" => ~AutoReview
      BY <2>6, ConfigAssumption DEF EnterLane, FirstStep, FreeLane
    <3> QED BY <1>0, <1>1, <3>1
  <2> QED BY <1>7, <2>1, <2>2, <2>3, <2>4, <2>5, <2>6 DEF ClaimSystem
<1> QED BY <1>2, <1>3, <1>4, <1>5, <1>6, <1>7

\* The lane holds an issue that is not done, so no review is under way.
LEMMA OpenLane ==
  ASSUME TypeOK, LaneInv, OpenInv, LaneSystem
  PROVE  OpenInv'
<1>0. /\ RecordOpen /\ LaneOpen /\ WantedInv /\ HaltedInv
      /\ ReportInv /\ MergeIsExclusive
  BY DEF OpenInv, LaneOpen
<1>1. /\ lane.step # "free" /\ lane.issue \in Issues /\ lane \in LaneRec
      /\ flow = "running" /\ UNCHANGED <<flow, planFlow>>
      /\ LaneLeft \/ LaneGoesOn
      /\ pc \in [Issues -> ClaimPc] /\ aborted \in [Issues -> BOOLEAN]
      /\ run \in RunRec /\ run.exec \in [Issues -> ExecStatus]
  BY LaneMoves DEF TypeOK, RunRec
\* The lane's issue is not done, so nothing is complete.
<1>2. /\ run.exec[lane.issue] # "done" /\ ~AllDone(run.exec)
      /\ pc[lane.issue] \notin {"slot", "executing"}
  BY <1>0, <1>1 DEF WantedInv, LaneInv, AllDone
<1>3. /\ fin.step = "idle" /\ run.status \notin Reviewed
      /\ run.status = "FAILED" => run.failedFrom \in {"PLANNING", "EXECUTING"}
      /\ run.planned
      /\ run.status # "READY" \/ run.exec[lane.issue] # "done"
  BY <1>0, <1>1, <1>2 DEF RecordOpen, CompleteInv, UnbegunInv
<1>4. \A i \in Issues : /\ pc'[i] \notin {"idle", "finished"} => pc'[i] = pc[i]
                        /\ Live(i)' => Live(i) /\ i # lane.issue
  BY <1>1, <1>2 DEF LaneLeft, LaneGoesOn, Live
\* What a lane step makes of the record.
<1> DEFINE Keeps(e) == \A j \in Issues : e[j] = "done" =>
              \/ run.exec[j] = "done"
              \/ /\ j = lane.issue /\ LaneLeft
                 /\ run.status \in {"EXECUTING", "FAILED"}
           Same == /\ Stays(run'.exec) /\ Keeps(run'.exec)
                   /\ UNCHANGED <<fin, aborted>>
           Fails == /\ Becomes("FAILED", "EXECUTING", run'.exec)
                    /\ Keeps(run'.exec)
                    /\ UNCHANGED <<fin, aborted>>
           Sends(s) == /\ Becomes(s, "none", ResetRunning(run.exec))
                       /\ aborted' = ExecutorsAborted /\ UNCHANGED fin
           Completes == /\ Becomes("INTEGRATION_REVIEW", "none", run'.exec)
                        /\ AllDone(run'.exec) /\ LaneLeft
                        /\ \A j \in Issues \ {lane.issue} :
                             run.exec[j] = "done"
                        /\ fin' \in {fin, Reviewing} /\ UNCHANGED aborted
<1>5. \/ Same
      \/ /\ run.status = "EXECUTING"
         /\ Fails \/ Sends("PLANNING") \/ Sends("WAITING_DECISION")
            \/ Completes
  <2>1. ASSUME NEW v \in {"PASS", "FIX", "REPLAN"}, CheckpointReturns(v)
        PROVE  Same
    BY <2>1 DEF CheckpointReturns, Stays, Becomes
  <2>2. CASE MergeMarkerBusy \/ MergeSucceeds \/ MergeFails
    BY <2>2 DEF MergeMarkerBusy, MergeSucceeds, MergeFails, Stays, Becomes
  <2>3. CASE CheckpointFails
    <3>1. UNCHANGED <<fin, aborted>>
      BY <2>3 DEF CheckpointFails
    <3> QED BY <1>0, <1>1, <2>3, <3>1, LaneEffects
            DEF Stays, Becomes, Outcome
  <2>4. CASE CheckpointPasses \/ SetMergeMarker \/ CheckpointAsksFix
    <3>1. UNCHANGED <<fin, aborted>>
      BY <2>4 DEF CheckpointPasses, SetMergeMarker, CheckpointAsksFix
    <3> QED BY <1>0, <1>1, <2>4, <3>1, LaneEffects
            DEF Stays, Becomes, Outcome
  <2>5. CASE CheckpointAsksReplan \/ CheckpointAtLimit
    <3>1. CASE ~UNCHANGED run
      <4>1. aborted' = ExecutorsAborted /\ UNCHANGED fin
        BY <2>5, <3>1
           DEF CheckpointAsksReplan, CheckpointAtLimit, AbortedByReplan
      <4> QED BY <1>0, <2>5, <3>1, <4>1, LaneEffects
    <3>2. CASE UNCHANGED run
      <4>1. UNCHANGED <<fin, aborted>>
        BY <1>1, <2>5, <3>2, ZenonT(60)
           DEF CheckpointAsksReplan, CheckpointAtLimit, Moved, RunRec,
               CanTransition, Successors
      <4> QED BY <3>2, <4>1 DEF Stays, Becomes
    <3> QED BY <3>1, <3>2
  <2>6. CASE RecordDone
    <3>1. CASE UNCHANGED run
      <4>1. UNCHANGED <<fin, aborted>>
        BY <1>1, <2>6, <3>1, <1>2
           DEF RecordDone, Recorded, Moved, RunRec
      <4> QED BY <3>1, <4>1 DEF Stays, Becomes
    <3>2. CASE ~UNCHANGED run
      <4>1. /\ LaneLeft /\ UNCHANGED aborted
            /\ run.status \in {"EXECUTING", "FAILED"}
        BY <1>0, <2>6, <3>2
           DEF RecordDone, LeaveLane, LaneLeft, Refuse, LaneTo, LaneAt,
               MergeIsExclusive, InMerge, MergeStatuses
      <4>2. \/ Stays(Outcome("done"))
            \/ /\ run.status = "EXECUTING" /\ AllDone(Outcome("done"))
               /\ Becomes("INTEGRATION_REVIEW", "none", Outcome("done"))
        BY <1>0, <2>6, <3>2, LaneEffects
      <4>3. fin' \in {fin, Reviewing}
        BY <2>6 DEF RecordDone, FinAfter
      <4>4. run'.status # "INTEGRATION_REVIEW" => fin' = fin
        BY <2>6 DEF RecordDone, FinAfter
      <4>5. CASE Stays(Outcome("done"))
        BY <1>1, <4>1, <4>4, <4>5 DEF Stays, Becomes, Outcome
      <4>6. CASE ~Stays(Outcome("done"))
        BY <1>1, <4>1, <4>2, <4>3, <4>6
           DEF Becomes, Outcome, AllDone
      <4> QED BY <4>5, <4>6
    <3> QED BY <3>1, <3>2
  <2>7. CASE RecordFailed
    <3>1. UNCHANGED <<fin, aborted>>
      BY <2>7 DEF RecordFailed
    <3>2. \/ UNCHANGED run
          \/ Stays(Outcome("failed"))
          \/ /\ run.status = "EXECUTING"
             /\ Becomes("FAILED", "EXECUTING", Outcome("failed"))
      <4>1. \/ UNCHANGED run
            \/ Stays(Outcome("failed"))
            \/ /\ lane.path = "report" /\ Holds(lane.issue)
               /\ Becomes("FAILED", run.status, Outcome("failed"))
        BY <1>1, <2>7
           DEF RecordFailed, Recorded, Moved, RunRec, Stays, Becomes, Outcome
      <4> QED BY <1>0, <2>7, <4>1 DEF LaneOpen, StandingInv, RecordFailed,
                                      LaneAt
    <3> QED BY <1>1, <3>1, <3>2 DEF Stays, Becomes, Outcome
  <2>8. CASE Settle
    <3>1. UNCHANGED <<fin, aborted>>
      BY <2>8 DEF Settle
    <3> QED BY <1>0, <1>1, <2>8, <3>1, LaneEffects
            DEF Stays, Becomes, Outcome
  <2> QED
    BY <2>1, <2>2, <2>3, <2>4, <2>5, <2>6, <2>7, <2>8 DEF LaneSystem
<1>6. RecordOpen' /\ WantedInv' /\ HaltedInv'
  <2> USE DEF RecordOpen, UnbegunInv, UnaskingInv, CompleteInv,
              HumanSeesFinalPass, WantedInv, HaltedInv
  <2>1. CASE Same
    <3>1. RecordOpen'
      BY <1>0, <1>1, <1>2, <1>3, <2>1 DEF Stays, Becomes, AllDone, Reviewed
    <3>2. WantedInv' /\ HaltedInv'
      BY <1>0, <1>1, <1>4, <2>1 DEF Stays, Becomes, LaneLeft
    <3> QED BY <3>1, <3>2
  <2>2. CASE run.status = "EXECUTING" /\ Fails
    <3>1. RecordOpen'
      BY <1>0, <1>1, <1>3, <2>2 DEF Becomes, Reviewed
    <3>2. WantedInv' /\ HaltedInv'
      BY <1>0, <1>1, <1>4, <2>2 DEF Becomes, LaneLeft
    <3> QED BY <3>1, <3>2
  <2>3. ASSUME run.status = "EXECUTING",
               NEW s \in {"PLANNING", "WAITING_DECISION"}, Sends(s)
        PROVE  RecordOpen' /\ WantedInv' /\ HaltedInv'
    <3>1. RecordOpen'
      BY <1>0, <1>1, <1>3, <2>3 DEF Becomes, Reviewed
    <3>2. WantedInv'
      BY <1>0, <1>1, <1>4, <2>3, ResetNotRunning DEF Becomes
    <3>3. HaltedInv'
      BY <1>1, <1>4, <2>3 DEF ExecutorsAborted, Live
    <3> QED BY <3>1, <3>2, <3>3
  <2>4. CASE run.status = "EXECUTING" /\ Completes
    <3>1. \A j \in Issues : pc'[j] \in {"idle", "finished"}
      BY <1>0, <1>1, <1>4, <2>4 DEF LaneLeft
    <3>2. RecordOpen'
      BY <1>0, <1>1, <1>3, <2>4 DEF Becomes, Reviewed
    <3>3. WantedInv' /\ HaltedInv'
      BY <1>1, <3>1 DEF Live
    <3> QED BY <3>2, <3>3
  <2> QED BY <1>5, <2>1, <2>2, <2>3, <2>4
\* The lane itself.
<1>7. LaneOpen'
  <2> USE DEF LaneOpen, ReportInv, StandingInv, MarkInv, MergeIsExclusive,
              MergeStatuses, NoUnreviewedMerge, InMerge, Holds
  <2>1. CASE lane'.step \in {"free", "rejected"}
    BY <2>1
  <2>2. ASSUME NEW v \in {"PASS", "FIX", "REPLAN"}, CheckpointReturns(v),
               lane'.step \notin {"free", "rejected"}
        PROVE  LaneOpen'
    <3>1. /\ lane.step = "checkpoint" /\ lane'.step = "verdict"
          /\ lane'.path = lane.path /\ lane'.issue = lane.issue
          /\ run.status = "EXECUTING" /\ UNCHANGED run
      <4>1. ~LeaveLane(TRUE)
        BY <2>2 DEF LeaveLane, FreeLane
      <4> QED BY <1>1, <2>2, <4>1 DEF CheckpointReturns, LaneAt, LaneRec
    <3> QED BY <1>0, <3>1
  <2>3. CASE CheckpointPasses
    <3>1. run'.status = run.status /\ run'.exec = run.exec
      BY <1>1, <2>3 DEF CheckpointPasses, RunRec
    <3>2. /\ lane.step = "verdict" /\ lane'.step = "marking"
          /\ lane'.path = lane.path /\ lane'.issue = lane.issue
          /\ run.status = "EXECUTING" /\ Holds(lane.issue)
               => lane.issue \in approved'
      BY <1>1, <2>3 DEF CheckpointPasses, LaneAt, LaneTo, LaneRec
    <3> QED BY <1>0, <3>1, <3>2
  <2>4. CASE SetMergeMarker /\ lane'.step \notin {"free", "rejected"}
    <3>1. MarkerValid
      BY <1>1, <2>4 DEF SetMergeMarker, Refuse, LaneTo, LeaveLane, FreeLane,
                        LaneRec
    <3>2. /\ run'.status = run.status /\ run'.exec = run.exec
          /\ run'.merging = TRUE
      BY <1>1, <2>4, <3>1 DEF SetMergeMarker, RunRec
    <3>3. /\ lane.step = "marking" /\ lane'.step = "merging"
          /\ lane'.path = lane.path /\ lane'.issue = lane.issue
          /\ UNCHANGED approved
      BY <1>1, <2>4, <3>1 DEF SetMergeMarker, LaneAt, LaneTo, LaneRec
    <3> QED BY <1>0, <3>1, <3>2, <3>3 DEF MarkerValid
  <2>5. CASE MergeSucceeds
    <3>1. /\ lane.step = "merging" /\ lane'.step = "recordOk"
          /\ lane'.path = lane.path /\ lane'.issue = lane.issue
          /\ UNCHANGED <<run, approved>>
      BY <1>1, <2>5 DEF MergeSucceeds, LaneAt, LaneTo, LaneRec
    <3> QED BY <1>0, <3>1
  <2>6. CASE Settle /\ lane'.step \notin {"free", "rejected"}
    <3>1. /\ UNCHANGED <<run, approved>>
          /\ lane'.path = "settle"
          /\ lane'.step \in {"marking", "recordFail"}
          /\ lane'.step = "marking" => ~AutoReview
      <4>1. ~LeaveLane(TRUE) /\ ~LeaveLane(FALSE)
        BY <2>6 DEF LeaveLane, FreeLane
      <4> QED BY <1>1, <2>6, <4>1 DEF Settle, LaneRec
    <3> QED BY <3>1
  <2>7. CASE CheckpointFails \/ CheckpointAsksFix \/ CheckpointAsksReplan
             \/ CheckpointAtLimit \/ MergeMarkerBusy \/ MergeFails
             \/ RecordDone \/ RecordFailed
    <3>1. lane'.step \in {"free", "rejected"}
      BY <1>1, <2>7
         DEF CheckpointFails, CheckpointAsksFix, CheckpointAsksReplan,
             CheckpointAtLimit, MergeMarkerBusy, MergeFails, RecordDone,
             RecordFailed, Refuse, LaneTo, LeaveLane, FreeLane, LaneRec
    <3> QED BY <2>1, <3>1
  <2> QED
    BY <2>1, <2>2, <2>3, <2>4, <2>5, <2>6, <2>7 DEF LaneSystem
<1> QED BY <1>6, <1>7 DEF OpenInv

\* A FINAL review decides about a complete plan, wherever a control put it.
LEMMA OpenReviewed ==
  ASSUME TypeOK, LaneInv, OpenInv, ReviewRequest \/ ReviewSystem
  PROVE  OpenInv'
<1>0. /\ RecordOpen /\ LaneOpen /\ WantedInv /\ HaltedInv /\ CompleteInv
      /\ UNCHANGED <<planFlow, flow, pc, lane, approved>>
      /\ run \in RunRec /\ fin \in FinRec /\ aborted \in [Issues -> BOOLEAN]
  BY DEF OpenInv, RecordOpen, ReviewRequest, ReviewSystem, ReviewerReturns,
         ReviewerFails, ReviewDecided, TypeOK
<1> USE DEF OpenInv, RecordOpen, LaneOpen, UnbegunInv, UnaskingInv,
       CompleteInv, HumanSeesFinalPass, ReportInv, StandingInv, MarkInv,
       MergeIsExclusive, MergeStatuses, NoUnreviewedMerge, InMerge, WantedInv,
       HaltedInv, Live, Reviewed, Holds, Becomes
<1>1. CASE UNCHANGED <<run, aborted>>
  <2>1. fin'.step # "idle" => fin.step # "idle"
                              \/ run.status = "INTEGRATION_REVIEW"
    BY <1>0 DEF ReviewRequest, ReviewSystem, ReviewerReturns, ReviewerFails,
                ReviewDecided, IdleReview
  <2> QED BY <1>0, <1>1, <2>1
<1>2. CASE ~UNCHANGED <<run, aborted>>
  <2>1. /\ ReviewerFails \/ ReviewDecided
        /\ fin.step # "idle" /\ fin'.step = "idle"
    <3>1. ~ReviewRequest
      BY <1>2 DEF ReviewRequest
    <3>2. ASSUME NEW v \in Verdicts, NEW keys \in SUBSET Issues
          PROVE  ~ReviewerReturns(v, keys)
      BY <1>2 DEF ReviewerReturns
    <3>3. ReviewerFails \/ ReviewDecided
      BY <3>1, <3>2 DEF ReviewSystem
    <3> QED BY <3>3 DEF ReviewerFails, ReviewDecided, IdleReview
  <2>2. /\ AllDone(run.exec) /\ lane.step = "free"
        /\ \A i \in Issues : pc[i] \in {"idle", "finished"}
        /\ \E i \in Issues : run.exec[i] = "done"
        /\ run.planned /\ flow # "starting"
        /\ run.status \in {"INTEGRATION_REVIEW", "EXECUTING", "PAUSED",
                           "WAITING_PERMISSION", "CANCELLED"}
    BY <1>0, <2>1, DoneIsIdle
  <2>3. CASE UNCHANGED run
    BY <1>0, <2>1, <2>2, <2>3
  <2>4. CASE ~UNCHANGED run
    <3>1. \/ /\ run.status # "CANCELLED"
             /\ Becomes("FAILED", run.status, run.exec)
          \/ /\ run.status = "INTEGRATION_REVIEW"
             /\ run'.review = [stage |-> "FINAL", next |-> "CONTINUE"]
             /\ Becomes("AWAITING_HUMAN", "none", run.exec)
          \/ /\ run.status # "CANCELLED"
             /\ Becomes("PLANNING", "none", run.exec)
          \/ /\ run.status # "CANCELLED"
             /\ \E to \in {"EXECUTING", "WAITING_DECISION"} :
                  Becomes(to, "none", Reworked(run, fin.rework).exec)
      BY <2>1, <2>4, DecisionEffects
         DEF CanTransition, Successors, Terminal, FinalReview
    <3>2. RecordOpen'
      BY <1>0, <2>1, <2>2, <3>1
    <3>3. WantedInv' /\ HaltedInv' /\ LaneOpen'
      BY <1>0, <2>2
    <3> QED BY <3>2, <3>3
  <2> QED BY <2>3, <2>4
<1> QED BY <1>1, <1>2

\* The controls: each checks the marker, and none makes an issue done.
LEMMA OpenControl ==
  ASSUME TypeOK, LaneInv, OpenInv, TableSuffices, UserStep \/ CrashRestart
  PROVE  OpenInv'
<1>0. /\ RecordOpen /\ LaneOpen /\ WantedInv /\ HaltedInv /\ CompleteInv
      /\ run \in RunRec /\ run.exec \in [Issues -> ExecStatus]
      /\ fin \in FinRec /\ lane \in LaneRec
      /\ aborted \in [Issues -> BOOLEAN] /\ run.status \in Status
      /\ lane.step # "free" => lane.issue \in Issues
  BY DEF OpenInv, RecordOpen, TypeOK, RunRec, LaneInv
<1>1. AllDone(run.exec) =>
         /\ lane.step = "free"
         /\ \A i \in Issues : pc[i] \in {"idle", "finished"}
         /\ \E i \in Issues : run.exec[i] = "done"
  BY <1>0, DoneIsIdle
<1>2. /\ AllDone(run.exec) =>
           AllDone(ResetRunning(run.exec)) /\ AllDone(RetryFailed(run.exec))
      /\ \A i \in Issues :
           /\ ResetRunning(run.exec)[i] # "running"
           /\ ResetRunning(run.exec)[i] = "done" <=> run.exec[i] = "done"
           /\ RetryFailed(run.exec)[i] = "done" <=> run.exec[i] = "done"
           /\ RetryFailed(run.exec)[i] = "running" <=> run.exec[i] = "running"
           /\ run.exec[i] = "pending" =>
                /\ ResetRunning(run.exec)[i] = "pending"
                /\ RetryFailed(run.exec)[i] = "pending"
  BY <1>0 DEF ResetRunning, RetryFailed, Replaced, AllDone
<1> USE DEF OpenInv, RecordOpen, LaneOpen, UnbegunInv, UnaskingInv,
       CompleteInv, HumanSeesFinalPass, ReportInv, StandingInv, MarkInv,
       MergeIsExclusive, MergeStatuses, NoUnreviewedMerge, InMerge, WantedInv,
       HaltedInv, Live, Reviewed, Holds, Becomes, Stays
<1>3. CASE Cancel \/ Pause \/ Takeover
  <2>1. /\ UNCHANGED <<planFlow, flow, pc, approved>>
        /\ aborted' = ExecutorsAborted
        /\ lane'.step = lane.step /\ lane'.path = lane.path
        /\ lane'.issue = lane.issue /\ fin'.step = fin.step
        /\ ~run.merging
    BY <1>0, <1>3 DEF Cancel, Pause, Takeover, AbortsWork, AbortedByControl,
                      Accepts, MergeHoldsOff, FinRec, LaneRec
  <2>2. \E to \in {"CANCELLED", "PAUSED", "WAITING_PERMISSION"} :
          /\ Becomes(to, "none", ResetRunning(run.exec))
          /\ to = "CANCELLED" => run.status \notin {"ACCEPTED", "FAILED"}
          /\ to # "CANCELLED" => run.status \in {"READY", "EXECUTING",
                                                 "PAUSED"}
    BY <1>3, CommandEffects
  <2>3. RecordOpen'
    BY <1>0, <1>2, <2>1, <2>2
  <2>4. WantedInv' /\ HaltedInv'
    BY <1>0, <1>2, <2>1, <2>2 DEF ExecutorsAborted
  <2>5. LaneOpen'
    BY <1>0, <1>2, <2>1, <2>2
  <2> QED BY <2>3, <2>4, <2>5
<1>4. CASE Resume \/ Release
  <2>1. /\ UNCHANGED <<planFlow, flow, pc, lane, fin, approved>>
        /\ aborted' \in {aborted, ExecutorsAborted} /\ ~run.merging
    BY <1>4 DEF Resume, Release, Accepts, MergeHoldsOff
  <2>2. \/ /\ run.status = "WAITING_DECISION"
           /\ Becomes("PLANNING", "none", run.exec)
        \/ /\ run.status \in Resumable
           /\ Becomes("EXECUTING", "none", run.exec)
    BY <1>4, CommandEffects
  <2>3. RecordOpen'
    BY <1>0, <1>1, <2>1, <2>2 DEF Resumable
  <2>4. WantedInv' /\ HaltedInv'
    BY <1>0, <2>1, <2>2 DEF ExecutorsAborted
  <2>5. LaneOpen'
    BY <1>0, <2>1, <2>2 DEF Resumable
  <2> QED BY <2>3, <2>4, <2>5
<1>5. CASE RetryIssues
  <2>1. /\ UNCHANGED <<planFlow, flow, pc, lane, fin, approved, aborted>>
        /\ ~run.merging
        /\ run.status = "EXECUTING" /\ Stays(RetryFailed(run.exec))
    BY <1>5, CommandEffects DEF RetryIssues, Accepts, MergeHoldsOff
  <2> QED BY <1>0, <1>2, <2>1
<1>6. CASE RetryRun
  <2>1. /\ UNCHANGED <<flow, pc, lane, approved, aborted>>
        /\ planFlow' \in {planFlow, "planning"}
        /\ fin' = fin \/ run'.status = "INTEGRATION_REVIEW"
        /\ ~run.merging
        /\ run.status = "FAILED"
    BY <1>6 DEF RetryRun, Accepts, MergeHoldsOff, PlanFlowAfter, FinAfter
  <2>2. \/ /\ run.failedFrom = "PLANNING"
           /\ Becomes("PLANNING", "none", run.exec)
        \/ /\ run.failedFrom = "EXECUTING"
           /\ Becomes("EXECUTING", "none", RetryFailed(run.exec))
        \/ /\ AllDone(run.exec)
           /\ Becomes("INTEGRATION_REVIEW", "none", run.exec)
    <3>1. CASE run.failedFrom \in {"PLANNING", "EXECUTING"}
      BY <1>6, <3>1, CommandEffects DEF RetryTarget
    <3>2. CASE run.failedFrom \notin {"PLANNING", "EXECUTING"}
      <4>1. AllDone(run.exec) /\ run.planned
        BY <1>0, <1>1, <2>1, <3>2
      <4>2. IssuesIn("failed") = {}
        BY <4>1 DEF IssuesIn, AllDone
      <4>3. RetryTarget = "INTEGRATION_REVIEW"
        BY <3>2, <4>1, <4>2 DEF RetryTarget
      <4> QED BY <1>6, <4>1, <4>3, CommandEffects
    <3> QED BY <3>1, <3>2
  <2>3. RecordOpen'
    BY <1>0, <1>1, <1>2, <2>1, <2>2
  <2>4. WantedInv' /\ HaltedInv'
    BY <1>0, <1>1, <1>2, <2>1, <2>2
  <2>5. LaneOpen'
    BY <1>0, <1>2, <2>1, <2>2
  <2> QED BY <2>3, <2>4, <2>5
<1>7. CASE HumanAccept
  <2>1. /\ UNCHANGED <<memory, approved>> /\ run'.review = run.review
        /\ run.status = "AWAITING_HUMAN"
        /\ Becomes("ACCEPTED", "none", run.exec)
    BY <1>0, <1>7, CommandEffects DEF HumanAccept, Moved, RunRec
  <2> QED BY <1>0, <1>1, <2>1 DEF memory
<1>8. ~HumanRework
  BY DEF HumanRework, Sent, TableSuffices
<1>9. CASE CrashRestart
  <2>1. /\ planFlow' \in {"planning", "none"}
        /\ flow' \in {"claiming", "starting", "none"}
        /\ flow' # "none" => \/ run.status = "READY" /\ flow' = "starting"
                             \/ run.status = "EXECUTING" /\ run.planned
                                  /\ flow' = "claiming"
        /\ \A i \in Issues : pc'[i] = "idle"
        /\ lane'.step = "free"
        /\ fin'.step # "idle" => run.status = "INTEGRATION_REVIEW"
    BY <1>9 DEF CrashRestart, FreeLane, IdleReview
  <2>2. \/ run.status = "EXECUTING" /\ Stays(ResetRunning(run.exec))
        \/ run.status # "EXECUTING" /\ UNCHANGED run
    BY <1>9, CommandEffects DEF TableSuffices
  <2>3. RecordOpen'
    BY <1>0, <1>2, <2>1, <2>2
  <2>4. WantedInv' /\ HaltedInv' /\ LaneOpen'
    BY <2>1
  <2> QED BY <2>3, <2>4
<1> QED
  BY <1>3, <1>4, <1>5, <1>6, <1>7, <1>8, <1>9 DEF UserStep

LEMMA OpenStep ==
  TypeOK /\ LaneInv /\ OpenInv /\ TableSuffices /\ [Next]_vars => OpenInv'
<1> SUFFICES ASSUME TypeOK, LaneInv, OpenInv, TableSuffices, [Next]_vars
             PROVE  OpenInv'
  OBVIOUS
<1>1. CASE UNCHANGED vars
  <2> USE <1>1 DEF vars, memory
  <2>1. RecordOpen <=> RecordOpen'
    BY DEF RecordOpen, UnbegunInv, UnaskingInv, CompleteInv,
           HumanSeesFinalPass, AllDone
  <2>2. LaneOpen <=> LaneOpen'
    BY DEF LaneOpen, ReportInv, StandingInv, MarkInv, MergeIsExclusive,
           MergeStatuses, NoUnreviewedMerge, InMerge, Holds
  <2>3. (WantedInv <=> WantedInv') /\ (HaltedInv <=> HaltedInv')
    BY DEF WantedInv, HaltedInv, Live
  <2> QED BY <2>1, <2>2, <2>3 DEF OpenInv
<1>2. CASE PlanRequest \/ PlanningSystem
  BY <1>2, OpenPlanning
<1>3. CASE ExecuteRequest \/ ExecutionSystem
  BY <1>3, OpenWave, OpenLane DEF ExecutionSystem
<1>4. CASE ReviewRequest \/ ReviewSystem
  BY <1>4, OpenReviewed
<1>5. CASE UserStep \/ CrashRestart
  BY <1>5, OpenControl
<1> QED
  BY <1>1, <1>2, <1>3, <1>4, <1>5 DEF Next, RequestStep

LEMMA OpenInvariant ==
  Spec /\ TableSuffices => [](TypeOK /\ LaneInv /\ OpenInv)
<1>1. Init => TypeOK /\ LaneInv
  BY InitType DEF Init, LaneInv, FreeLane
<1>2. TypeOK /\ LaneInv /\ OpenInv /\ TableSuffices /\ [Next]_vars
        => (TypeOK /\ LaneInv /\ OpenInv /\ TableSuffices)'
  BY TypeStep, LaneInvStep, OpenStep DEF TableSuffices
<1> QED
  BY <1>1, <1>2, OpenInit, PTL DEF Spec

\* Whatever a client sends, no control slips between the marker of a merge and
\* its outcome: mergingIssueId is checked where the commands are executed, not
\* where they are offered.
THEOREM TableGuardsMerges == Spec /\ TableSuffices => []MergeIsExclusive
<1>1. OpenInv => MergeIsExclusive
  BY DEF OpenInv, LaneOpen
<1> QED BY <1>1, OpenInvariant, PTL

\* With automatic review it cannot get an unreviewed attempt merged either.
THEOREM TableGuardsReviews == Spec /\ TableSuffices => []NoUnreviewedMerge
<1>1. OpenInv => NoUnreviewedMerge
  BY DEF OpenInv, LaneOpen
<1> QED BY <1>1, OpenInvariant, PTL

\* It cannot get an unfinished plan under FINAL review, before its human, or
\* accepted.
THEOREM TableGuardsTheGate == Spec /\ TableSuffices => []ReviewGate
<1>1. TypeOK /\ OpenInv => ReviewGate
  <2> SUFFICES ASSUME TypeOK, OpenInv, run.status \in Reviewed
               PROVE  run.planned /\ IssuesIn("done") = Issues
    BY DEF ReviewGate, Reviewed
  <2>1. AllDone(run.exec)
    BY DEF OpenInv, RecordOpen, CompleteInv
  <2>2. run.planned
    BY <2>1, IssuesAssumption DEF OpenInv, RecordOpen, UnbegunInv, AllDone
  <2> QED BY <2>1, <2>2 DEF AllDone, IssuesIn
<1> QED BY <1>1, OpenInvariant, PTL

\* Nor a plan before its human whose last review was not a FINAL PASS.
THEOREM TableGuardsTheHuman == Spec /\ TableSuffices => []HumanSeesFinalPass
<1>1. OpenInv => HumanSeesFinalPass
  BY DEF OpenInv, RecordOpen
<1> QED BY <1>1, OpenInvariant, PTL

\* And every way to stop a run aborts all that still works for it.
THEOREM TableGuardsStops == Spec /\ TableSuffices => []StoppedMeansAborted
<1>1. OpenInv => StoppedMeansAborted
  BY DEF OpenInv, HaltedInv, Live, StoppedMeansAborted
<1> QED BY <1>1, OpenInvariant, PTL

=============================================================================
