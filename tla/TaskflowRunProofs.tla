-------------------------- MODULE TaskflowRunProofs ------------------------
(***************************************************************************)
(* Theorems about TaskflowRun for every plan, configuration and fault set. *)
(***************************************************************************)
EXTENDS TaskflowRun, TLAPS

-----------------------------------------------------------------------------
(* How the helpers treat the type of the run record. *)

LEMMA MovedType ==
  ASSUME NEW r \in RunRec, NEW to \in Status
  PROVE  Moved(r, to) \in RunRec
BY DEF Moved, RunRec

LEMMA MovedFields ==
  ASSUME NEW r \in RunRec, NEW to
  PROVE  /\ Moved(r, to).status = to
         /\ Moved(r, to).exec = r.exec
         /\ Moved(r, to).merging = r.merging
BY DEF Moved, RunRec

LEMMA ReplacedType ==
  ASSUME NEW exec \in [Issues -> ExecStatus], NEW from, NEW to \in ExecStatus
  PROVE  Replaced(exec, from, to) \in [Issues -> ExecStatus]
BY DEF Replaced

LEMMA RecordedType ==
  ASSUME NEW r \in RunRec, NEW i \in Issues, NEW to \in ExecStatus
  PROVE  Recorded(r, i, to) \in RunRec
BY DEF Recorded, RunRec

LEMMA PublishedType ==
  ASSUME NEW r \in RunRec
  PROVE  Published(r) \in RunRec
<1> DEFINE m == Moved(r, "READY")
<1>1. m \in RunRec
  BY MovedType DEF Status
<1> HIDE DEF m
<1>2. [m EXCEPT !.planned = TRUE, !.exec = AllPending,
                !.worktree = NoWorktree, !.review = NoReview,
                !.base = FALSE, !.merging = FALSE, !.planDone = TRUE]
        \in RunRec
  BY <1>1 DEF RunRec, AllPending, ExecStatus, NoWorktree, Review, NoReview
<1> QED
  BY <1>2 DEF Published, m

LEMMA ReworkedType ==
  ASSUME NEW r \in RunRec, NEW keys
  PROVE  Reworked(r, keys) \in RunRec
BY DEF Reworked, RunRec, ExecStatus

LEMMA CountCycleType ==
  ASSUME run \in RunRec
  PROVE  CountCycle \in 0 .. MaxReviewCycles
BY ConfigAssumption DEF CountCycle, RunRec

-----------------------------------------------------------------------------
(* Types. *)

\* Whoever holds the lane is an issue whose executor has returned in the
\* current wave; the wave cannot end before it lets go.
LaneInv ==
  lane.step # "free" =>
    /\ flow = "running"
    /\ lane.issue \in Issues
    /\ pc[lane.issue] \in {"succeeded", "broke"}

LEMMA InitType == Init => TypeOK
<1> SUFFICES ASSUME Init PROVE TypeOK
  OBVIOUS
<1>1. SubmittedRun \in RunRec
  BY ConfigAssumption
     DEF SubmittedRun, RunRec, Status, AllPending, NoWorktree, NoReview,
         Review, ExecStatus
<1>2. FreeLane \in LaneRec /\ IdleReview \in FinRec
  BY DEF FreeLane, LaneRec, LaneStep, IdleReview, FinRec, Verdicts
<1> QED
  BY <1>1, <1>2 DEF Init, TypeOK, ClaimPc

LEMMA PlanningType ==
  ASSUME TypeOK, PlanRequest \/ PlanningSystem
  PROVE  TypeOK'
<1> USE DEF TypeOK, notPlanning
<1>1. CASE PlanRequest
  BY <1>1 DEF PlanRequest
<1>2. CASE PlanStarted
  BY <1>2, MovedType DEF PlanStarted, Status
<1>3. CASE PlanPublished
  BY <1>3, PublishedType DEF PlanPublished
<1>4. CASE PlannerFails
  BY <1>4, MovedType DEF PlannerFails, Status
<1>5. CASE PlannerStale
  BY <1>5 DEF PlannerStale
<1>6. CASE PermissionAsked
  BY <1>6, MovedType DEF PermissionAsked, Status
<1>7. CASE ReplanCleanup
  BY <1>7 DEF ReplanCleanup, BranchAfterCleanup, Removal, PlanFlowAfter
<1>8. CASE ReworkCleanup
  BY <1>8 DEF ReworkCleanup, Removal, PlanFlowAfter
<1> QED
  BY <1>1, <1>2, <1>3, <1>4, <1>5, <1>6, <1>7, <1>8 DEF PlanningSystem

LEMMA WaveType ==
  ASSUME TypeOK,
         \/ ExecuteRequest \/ ExecutionStarted \/ BaseCaptureFails
         \/ EnsureFlow \/ ClaimWave
         \/ StartWave \/ EndWave \/ \E i \in Issues : ClaimSystem(i)
  PROVE  TypeOK'
<1> USE DEF TypeOK
<1>1. CASE ExecuteRequest
  BY <1>1 DEF ExecuteRequest
<1>2. CASE ExecutionStarted
  <2>1. Started(run) \in RunRec
    <3> DEFINE m == Moved(run, "EXECUTING")
    <3>1. m \in RunRec
      BY MovedType DEF Status
    <3> HIDE DEF m
    <3>2. [m EXCEPT !.base = TRUE] \in RunRec
      BY <3>1 DEF RunRec
    <3> QED
      BY <3>2 DEF Started, m
  <2> QED
    BY <1>2, <2>1 DEF ExecutionStarted
<1>3. CASE BaseCaptureFails \/ EnsureFlow
  BY <1>3 DEF BaseCaptureFails, EnsureFlow
<1>4. CASE ClaimWave
  <2>1. run' \in RunRec
    <3>1. PICK C \in SUBSET Issues :
            \/ run' = run
            \/ run' = [run EXCEPT !.exec = [i \in Issues |->
                         IF i \in C THEN "running" ELSE run.exec[i]]]
      BY <1>4 DEF ClaimWave
    <3>2. [i \in Issues |-> IF i \in C THEN "running" ELSE run.exec[i]]
            \in [Issues -> ExecStatus]
      BY DEF RunRec, ExecStatus
    <3> QED
      BY <3>1, <3>2 DEF RunRec
  <2>2. pc' \in [Issues -> ClaimPc]
    BY <1>4 DEF ClaimWave, ClaimPc
  <2> QED
    BY <1>4, <2>1, <2>2 DEF ClaimWave, FlowEnds
<1>5. CASE StartWave
  BY <1>5 DEF StartWave, FlowEnds, ClaimPc
<1>6. CASE EndWave
  BY <1>6 DEF EndWave, FlowEnds, ClaimPc
<1>7. ASSUME NEW i \in Issues, ClaimSystem(i)
      PROVE  TypeOK'
  <2>1. CASE PrepareWorktree(i)
    BY <2>1 DEF PrepareWorktree, RunRec, ClaimPc
  <2>2. CASE PreparationStops(i)
    BY <2>2 DEF PreparationStops, ClaimsDropped, ClaimPc
  <2>3. CASE WorktreeFails(i)
    <3>1. Moved(run, "FAILED") \in RunRec
      BY MovedType DEF Status
    <3> DEFINE m == Moved(run, "FAILED")
    <3> HIDE DEF m
    <3>2. [m EXCEPT !.exec[i] = "failed", !.merging = FALSE] \in RunRec
      BY <3>1 DEF m, RunRec, ExecStatus
    <3>3. run' \in RunRec
      BY <2>3, <3>2 DEF WorktreeFails, m
    <3> QED
      BY <2>3, <3>3 DEF WorktreeFails, ClaimsDropped, ClaimPc
  <2>4. CASE TakeSlot(i)
    BY <2>4 DEF TakeSlot, ClaimPc
  <2>5. CASE \E outcome \in {"succeeded", "broke"} :
               ExecutorReturns(i, outcome)
    BY <2>5 DEF ExecutorReturns, ClaimPc
  <2>6. CASE EnterLane(i)
    BY <2>6 DEF EnterLane, FirstStep, FreeLane, LaneRec, LaneStep
  <2> QED
    BY <1>7, <2>1, <2>2, <2>3, <2>4, <2>5, <2>6 DEF ClaimSystem
<1> QED
  BY <1>1, <1>2, <1>3, <1>4, <1>5, <1>6, <1>7

LEMMA LaneType ==
  ASSUME TypeOK, LaneInv, LaneSystem
  PROVE  TypeOK'
<1> USE DEF TypeOK, LaneTo, LeaveLane, LaneAt, Refuse
<1>1. FreeLane \in LaneRec
  BY DEF FreeLane, LaneRec, LaneStep
<1>2. \A s \in LaneStep : [lane EXCEPT !.step = s] \in LaneRec
  BY DEF LaneRec
<1>3. \A i \in Issues : [pc EXCEPT ![i] = "finished"] \in [Issues -> ClaimPc]
  BY DEF ClaimPc
<1>4. [pc EXCEPT ![lane.issue] = "finished"] \in [Issues -> ClaimPc]
  BY DEF ClaimPc
<1>5. CountCycle \in 0 .. MaxReviewCycles
  BY CountCycleType
<1>6. \A n \in {"CONTINUE", "FIX", "REPLAN"} : CheckpointReview(n) \in Review
  BY DEF CheckpointReview, Review
<1>7. ResetRunning(run.exec) \in [Issues -> ExecStatus]
  BY ReplacedType DEF ResetRunning, RunRec, ExecStatus
<1> DEFINE failed == Moved(run, "FAILED")
           planning == Moved(run, "PLANNING")
           waiting == Moved(run, "WAITING_DECISION")
<1>8. failed \in RunRec /\ planning \in RunRec /\ waiting \in RunRec
  BY MovedType DEF Status
<1> HIDE DEF failed, planning, waiting
<1>11. ASSUME NEW v \in {"PASS", "FIX", "REPLAN"}, CheckpointReturns(v)
       PROVE  TypeOK'
  BY <1>11, <1>1, <1>4 DEF CheckpointReturns, LaneRec, LaneStep
<1>12. CASE CheckpointFails
  <2>1. run' \in RunRec
    <3>1. [failed EXCEPT !.exec[lane.issue] =
             IF Holds(lane.issue) THEN "pending" ELSE @] \in RunRec
      BY <1>8 DEF RunRec, ExecStatus
    <3> QED
      BY <1>12, <3>1 DEF CheckpointFails, failed
  <2> QED
    BY <1>12, <2>1, <1>1, <1>2, <1>4 DEF CheckpointFails, LaneStep
<1>13. CASE CheckpointPasses
  <2>1. run' \in RunRec
    BY <1>13, <1>6 DEF CheckpointPasses, RunRec
  <2>2. lane.issue \in Issues
    BY <1>13 DEF CheckpointPasses, LaneInv
  <2> QED
    BY <1>13, <2>1, <2>2, <1>2 DEF CheckpointPasses, LaneStep
<1>14. CASE CheckpointAsksFix
  BY <1>14, <1>1, <1>4, <1>5, <1>6
     DEF CheckpointAsksFix, RunRec, ExecStatus
<1>15. CASE CheckpointAsksReplan
  <2>1. [planning EXCEPT !.exec = ResetRunning(run.exec),
                         !.review = CheckpointReview("REPLAN"),
                         !.cycles = CountCycle,
                         !.planDone = FALSE, !.replanEntry = TRUE] \in RunRec
    BY <1>5, <1>6, <1>7, <1>8 DEF RunRec
  <2> QED
    BY <1>15, <2>1, <1>1, <1>2, <1>4
       DEF CheckpointAsksReplan, planning, AbortedByReplan, ExecutorsAborted,
           LaneStep
<1>16. CASE CheckpointAtLimit
  <2>1. [waiting EXCEPT !.exec = ResetRunning(run.exec),
                        !.review = CheckpointReview(lane.verdict),
                        !.cycles = CountCycle] \in RunRec
    BY <1>16, <1>5, <1>6, <1>7, <1>8 DEF CheckpointAtLimit, RunRec
  <2> QED
    BY <1>16, <2>1, <1>1, <1>2, <1>4
       DEF CheckpointAtLimit, waiting, ExecutorsAborted, LaneStep
<1>17. CASE SetMergeMarker
  BY <1>17, <1>1, <1>2, <1>4 DEF SetMergeMarker, RunRec, LaneStep
<1>18. CASE MergeMarkerBusy
  BY <1>18, <1>1, <1>2, <1>4 DEF MergeMarkerBusy, LaneStep
<1>19. CASE MergeSucceeds
  BY <1>19, <1>2 DEF MergeSucceeds, LaneStep, LaneInv
<1>20. CASE MergeFails
  BY <1>20, <1>1, <1>2, <1>4 DEF MergeFails, LaneStep
<1>21. CASE RecordDone
  <2>1. lane.issue \in Issues
    BY <1>21 DEF RecordDone, LaneInv
  <2> DEFINE done == Recorded(run, lane.issue, "done")
  <2>2. done \in RunRec
    BY <2>1, RecordedType DEF ExecStatus
  <2> HIDE DEF done
  <2>3. Moved(done, "INTEGRATION_REVIEW") \in RunRec
    BY <2>2, MovedType DEF Status
  <2>4. run' \in RunRec
    BY <1>21, <2>2, <2>3 DEF RecordDone, done
  <2>5. fin' \in FinRec
    BY <1>21 DEF RecordDone, FinAfter, Reviewing, IdleReview, FinRec, Verdicts
  <2> QED
    BY <1>21, <2>4, <2>5, <1>1, <1>2, <1>4 DEF RecordDone, LaneStep
<1>22. CASE RecordFailed
  <2>1. lane.issue \in Issues
    BY <1>22 DEF RecordFailed, LaneInv
  <2>2. /\ Recorded(run, lane.issue, "failed") \in RunRec
        /\ Recorded(failed, lane.issue, "failed") \in RunRec
    BY <2>1, <1>8, RecordedType DEF ExecStatus
  <2>3. run' \in RunRec
    BY <1>22, <2>2 DEF RecordFailed, failed
  <2> QED
    BY <1>22, <2>3, <1>1, <1>2, <1>4 DEF RecordFailed, LaneStep
<1>23. CASE Settle
  <2>1. lane.issue \in Issues
    BY <1>23 DEF Settle, LaneInv
  <2>2. Recorded(run, lane.issue, "pending") \in RunRec
    BY <2>1, RecordedType DEF ExecStatus
  <2>3. run' \in RunRec
    BY <1>23, <2>2 DEF Settle
  <2>4. lane' \in LaneRec
    BY <1>23, <1>1 DEF Settle, LaneRec, LaneStep
  <2> QED
    BY <1>23, <2>3, <2>4, <1>4 DEF Settle
<1> QED
  BY <1>11, <1>12, <1>13, <1>14, <1>15, <1>16, <1>17, <1>18, <1>19, <1>20,
     <1>21, <1>22, <1>23 DEF LaneSystem

LEMMA DecidedType ==
  ASSUME TypeOK, fin.step = "deciding"
  PROVE  Decided \in RunRec
<1> DEFINE to == Target(fin.verdict)
           m == Moved(run, to)
           moved == [m EXCEPT !.review = FinalReview(fin.verdict)]
<1>1. to \in {"AWAITING_HUMAN", "WAITING_DECISION", "PLANNING", "EXECUTING"}
  BY DEF Target
<1>2. m \in RunRec
  BY <1>1, MovedType DEF Status, TypeOK
<1>3. FinalReview(fin.verdict) \in Review
  <2>1. fin.verdict \in Verdicts \cup {"none"}
    BY DEF TypeOK, FinRec
  <2> QED
    BY <2>1 DEF FinalReview, Review, Verdicts
<1>4. CountCycle \in 0 .. MaxReviewCycles
  BY CountCycleType DEF TypeOK
<1> HIDE DEF m
<1>5. moved \in RunRec
  BY <1>2, <1>3 DEF RunRec
<1> HIDE DEF moved
<1>6. [moved EXCEPT !.cycles = CountCycle, !.planDone = FALSE,
                    !.replanEntry = TRUE] \in RunRec
  BY <1>4, <1>5 DEF RunRec
<1>7. [moved EXCEPT !.cycles = CountCycle] \in RunRec
  BY <1>4, <1>5 DEF RunRec
<1>8. Reworked([moved EXCEPT !.cycles = CountCycle], fin.rework) \in RunRec
  BY <1>7, ReworkedType
<1> HIDE DEF to
<1> QED
  BY <1>5, <1>6, <1>8 DEF Decided, to, m, moved

LEMMA DecidedStatus ==
  ASSUME TypeOK
  PROVE  Decided.status = Target(fin.verdict)
<1> DEFINE to == Target(fin.verdict)
           m == Moved(run, to)
<1>1. m \in RunRec /\ m.status = to
  BY MovedFields, MovedType DEF TypeOK, Target, Status
<1> HIDE DEF m, to
<1> QED
  BY <1>1 DEF Decided, Reworked, RunRec, m, to

LEMMA ReviewType ==
  ASSUME TypeOK, ReviewRequest \/ ReviewSystem
  PROVE  TypeOK'
<1> USE DEF TypeOK
<1>1. Reviewing \in FinRec /\ IdleReview \in FinRec
  BY DEF Reviewing, IdleReview, FinRec, Verdicts
<1>2. ReviewFailed(run) \in RunRec
  BY MovedType DEF ReviewFailed, Status
<1>3. CASE ReviewRequest
  BY <1>3, <1>1 DEF ReviewRequest
<1>4. ASSUME NEW v \in Verdicts, NEW keys \in SUBSET Issues,
             ReviewerReturns(v, keys)
      PROVE  TypeOK'
  <2>1. ReworkClosure(keys) \subseteq Issues
    BY DEF ReworkClosure
  <2> QED
    BY <1>4, <1>1, <2>1, ZenonT(60) DEF ReviewerReturns, FinRec
<1>5. CASE ReviewerFails
  BY <1>5, <1>1, <1>2 DEF ReviewerFails
<1>6. CASE ReviewDecided
  <2>1. Decided \in RunRec
    BY <1>6, DecidedType DEF ReviewDecided
  <2> QED
    BY <1>6, <1>1, <1>2, <2>1 DEF ReviewDecided, ExecutorsAborted
<1> QED
  BY <1>3, <1>4, <1>5, <1>6 DEF ReviewSystem

LEMMA ControlType ==
  ASSUME TypeOK, UserStep \/ CrashRestart
  PROVE  TypeOK'
<1> USE DEF TypeOK
<1>1. ResetRunning(run.exec) \in [Issues -> ExecStatus]
  BY ReplacedType DEF ResetRunning, RunRec, ExecStatus
<1>2. RetryFailed(run.exec) \in [Issues -> ExecStatus]
  BY ReplacedType DEF RetryFailed, RunRec, ExecStatus
<1>3. AllPending \in [Issues -> ExecStatus]
      /\ NoWorktree \in [Issues -> BOOLEAN]
      /\ NoReview \in Review
      /\ 0 \in 0 .. MaxReviewCycles
  BY ConfigAssumption
     DEF AllPending, ExecStatus, NoWorktree, NoReview, Review
<1>4. Reviewing \in FinRec /\ IdleReview \in FinRec /\ FreeLane \in LaneRec
  BY DEF Reviewing, IdleReview, FinRec, Verdicts, FreeLane, LaneRec, LaneStep
<1>5. [lane EXCEPT !.aborted = @ \/ lane.step = "checkpoint"] \in LaneRec
  BY DEF LaneRec
<1>6. [fin EXCEPT !.aborted = @ \/ fin.step # "idle"] \in FinRec
  BY DEF FinRec
<1>7. ExecutorsAborted \in [Issues -> BOOLEAN]
  BY DEF ExecutorsAborted
<1>8. \A s \in Status : Moved(run, s) \in RunRec
  BY MovedType
<1> DEFINE cancelled == Moved(run, "CANCELLED")
           paused == Moved(run, "PAUSED")
           waiting == Moved(run, "WAITING_PERMISSION")
           executing == Moved(run, "EXECUTING")
           planning == Moved(run, "PLANNING")
<1>9. /\ cancelled \in RunRec /\ paused \in RunRec /\ waiting \in RunRec
      /\ executing \in RunRec /\ planning \in RunRec
  BY <1>8 DEF Status
<1> HIDE DEF cancelled, paused, waiting, executing, planning
<1>11. CASE Cancel
  <2>1. [cancelled EXCEPT !.exec = ResetRunning(run.exec), !.paused = FALSE,
                          !.takenOver = FALSE] \in RunRec
    BY <1>1, <1>9 DEF RunRec
  <2> QED
    BY <1>11, <2>1, <1>5, <1>6, <1>7
       DEF Cancel, AbortsWork, AbortedByControl, cancelled
<1>12. CASE Pause
  <2>1. [paused EXCEPT !.exec = ResetRunning(run.exec), !.paused = TRUE]
          \in RunRec
    BY <1>1, <1>9 DEF RunRec
  <2> QED
    BY <1>12, <2>1, <1>5, <1>6, <1>7
       DEF Pause, PausedExec, AbortsWork, AbortedByControl, paused
<1>13. CASE Takeover
  <2>1. [waiting EXCEPT !.exec = ResetRunning(run.exec), !.takenOver = TRUE]
          \in RunRec
    BY <1>1, <1>9 DEF RunRec
  <2> QED
    BY <1>13, <2>1, <1>5, <1>6, <1>7
       DEF Takeover, AbortsWork, AbortedByControl, waiting
<1>14. CASE Resume
  <2>1. /\ [executing EXCEPT !.paused = FALSE] \in RunRec
        /\ [planning EXCEPT !.paused = FALSE] \in RunRec
    BY <1>9 DEF RunRec
  <2>2. run' \in RunRec
    BY <1>14, <2>1 DEF Resume, executing, planning
  <2> QED
    BY <1>14, <2>2, <1>7 DEF Resume
<1>15. CASE Release
  <2>1. [executing EXCEPT !.takenOver = FALSE] \in RunRec
    BY <1>9 DEF RunRec
  <2> QED
    BY <1>15, <2>1 DEF Release, executing
<1>16. CASE RetryIssues
  BY <1>16, <1>2 DEF RetryIssues, RunRec
<1>17. CASE RetryRun
  <2> DEFINE to == RetryTarget
             m == Moved(run, to)
             exec == IF to = "EXECUTING" THEN RetryFailed(run.exec)
                     ELSE run.exec
  <2>1. to \in Status
    BY DEF RetryTarget, Status
  <2>2. m \in RunRec
    BY <2>1, <1>8
  <2>3. exec \in [Issues -> ExecStatus]
    BY <1>2 DEF RunRec
  <2> HIDE DEF m, exec, to
  <2>4. [m EXCEPT !.exec = exec] \in RunRec
    BY <2>2, <2>3 DEF RunRec
  <2>5. run' \in RunRec
    BY <1>17, <2>4 DEF RetryRun, m, exec, to
  <2>6. fin' \in FinRec
    BY <1>17, <1>4 DEF RetryRun, FinAfter
  <2>7. planFlow' \in {"none", "starting", "planning", "permission"}
    BY <1>17 DEF RetryRun, PlanFlowAfter
  <2> QED
    BY <1>17, <2>5, <2>6, <2>7 DEF RetryRun
<1>18. CASE HumanAccept
  BY <1>18, <1>8 DEF HumanAccept, memory, Status
<1>19. CASE HumanRework
  <2>1. [planning EXCEPT
           !.exec = AllPending, !.worktree = NoWorktree,
           !.review = NoReview, !.base = FALSE, !.planDone = FALSE,
           !.paused = FALSE, !.takenOver = FALSE, !.cycles = 0] \in RunRec
    BY <1>3, <1>9, ZenonT(60) DEF RunRec
  <2>2. planFlow' \in {"none", "starting", "planning", "permission"}
    BY <1>19 DEF HumanRework, PlanFlowAfter
  <2> QED
    BY <1>19, <2>1, <2>2 DEF HumanRework, planning
<1>20. CASE CrashRestart
  <2>1. [run EXCEPT !.exec = ResetRunning(run.exec), !.merging = FALSE]
          \in RunRec
    BY <1>1 DEF RunRec
  <2>2. RecoveredRecord \in RunRec
    BY <2>1, <1>9 DEF RecoveredRecord, waiting
  <2> QED
    BY <1>20, <2>2, <1>4 DEF CrashRestart, ClaimPc
<1> QED
  BY <1>11, <1>12, <1>13, <1>14, <1>15, <1>16, <1>17, <1>18, <1>19, <1>20
     DEF UserStep

LEMMA TypeStep == TypeOK /\ LaneInv /\ [Next]_vars => TypeOK'
<1> SUFFICES ASSUME TypeOK, LaneInv, [Next]_vars PROVE TypeOK'
  OBVIOUS
<1>1. CASE PlanningSystem
  BY <1>1, PlanningType
<1>2. CASE ExecutionSystem
  BY <1>2, WaveType, LaneType DEF ExecutionSystem
<1>3. CASE ReviewSystem
  BY <1>3, ReviewType
<1>4. CASE RequestStep
  BY <1>4, PlanningType, WaveType, ReviewType, ControlType DEF RequestStep
<1>5. CASE CrashRestart
  BY <1>5, ControlType
<1>6. CASE UNCHANGED vars
  BY <1>6 DEF vars, memory, TypeOK
<1> QED
  BY <1>1, <1>2, <1>3, <1>4, <1>5, <1>6 DEF Next

LEMMA LaneInvStep == TypeOK /\ LaneInv /\ [Next]_vars => LaneInv'
<1> SUFFICES ASSUME TypeOK, LaneInv, [Next]_vars PROVE LaneInv'
  OBVIOUS
<1> USE DEF TypeOK, LaneInv
<1>1. CASE PlanningSystem
  BY <1>1 DEF PlanningSystem, PlanStarted, PlanPublished, PlannerFails,
              PlannerStale, PermissionAsked, ReplanCleanup, ReworkCleanup,
              notPlanning
<1>2. CASE ExecutionSystem
  <2>1. CASE ExecutionStarted \/ BaseCaptureFails \/ EnsureFlow
    BY <2>1 DEF ExecutionStarted, BaseCaptureFails, EnsureFlow
  <2>2. CASE ClaimWave \/ StartWave
    BY <2>2 DEF ClaimWave, StartWave, FlowEnds
  <2>3. CASE EndWave
    BY <2>3 DEF EndWave
  <2>4. CASE \E i \in Issues : ClaimSystem(i)
    BY <2>4, ZenonT(60) DEF ClaimSystem, PrepareWorktree, PreparationStops, WorktreeFails,
                TakeSlot, ExecutorReturns, EnterLane, FreeLane, LaneRec
  <2>5. CASE LaneSystem
    <3>1. LaneAt(lane.step) /\ lane.step # "free"
      BY <2>5 DEF LaneSystem, CheckpointReturns, CheckpointFails,
                  CheckpointPasses, CheckpointAsksFix, CheckpointAsksReplan,
                  CheckpointAtLimit, SetMergeMarker, MergeMarkerBusy,
                  MergeSucceeds, MergeFails, RecordDone, RecordFailed, Settle,
                  LaneAt
    <3>2. /\ flow' = flow
          /\ \/ lane' = FreeLane
             \/ pc' = pc /\ lane'.issue = lane.issue
      BY <2>5 DEF LaneSystem, CheckpointReturns, CheckpointFails,
                  CheckpointPasses, CheckpointAsksFix, CheckpointAsksReplan,
                  CheckpointAtLimit, SetMergeMarker, MergeMarkerBusy,
                  MergeSucceeds, MergeFails, RecordDone, RecordFailed, Settle,
                  Refuse, LaneTo, LeaveLane, LaneRec
    <3> QED
      BY <3>1, <3>2 DEF LaneAt, FreeLane
  <2> QED
    BY <1>2, <2>1, <2>2, <2>3, <2>4, <2>5 DEF ExecutionSystem
<1>3. CASE ReviewSystem
  BY <1>3 DEF ReviewSystem, ReviewerReturns, ReviewerFails, ReviewDecided
<1>4. CASE PlanRequest \/ ExecuteRequest \/ ReviewRequest
  BY <1>4 DEF PlanRequest, ExecuteRequest, ReviewRequest, notPlanning
<1>5. CASE UserStep
  BY <1>5 DEF UserStep, Cancel, Pause, Takeover, Resume, Release, RetryIssues,
              RetryRun, HumanAccept, HumanRework, AbortsWork, memory, LaneRec
<1>6. CASE CrashRestart
  BY <1>6 DEF CrashRestart, FreeLane
<1>7. CASE UNCHANGED vars
  BY <1>7 DEF vars, memory
<1> QED
  BY <1>1, <1>2, <1>3, <1>4, <1>5, <1>6, <1>7 DEF Next, RequestStep

\* The variables always have their types, and whoever holds the lane in which
\* outcomes are reviewed, merged and recorded is a claim of the current wave
\* whose executor has returned: no interleaving, crash or failure ends a wave,
\* or starts another one, while an outcome of it is being settled.
THEOREM TypeCorrect == Spec => [](TypeOK /\ LaneInv)
<1>1. Init => TypeOK /\ LaneInv
  BY InitType DEF Init, LaneInv, FreeLane
<1>2. TypeOK /\ LaneInv /\ [Next]_vars => (TypeOK /\ LaneInv)'
  BY TypeStep, LaneInvStep
<1> QED
  BY <1>1, <1>2, PTL DEF Spec

-----------------------------------------------------------------------------
(* The transition table. *)

LegalMove == run'.status # run.status => CanTransition(run.status, run'.status)

LEMMA PlanningMoves ==
  ASSUME TypeOK, PlanRequest \/ PlanningSystem
  PROVE  LegalMove
<1>1. run \in RunRec
  BY DEF TypeOK
<1>2. CASE PlanPublished
  <2>1. run'.status = "READY"
    BY <1>1, <1>2, MovedFields, MovedType
       DEF PlanPublished, Published, RunRec, Status
  <2> QED
    BY <1>2, <2>1
       DEF PlanPublished, LegalMove, CanTransition, Successors, Terminal
<1>3. CASE PlannerFails
  BY <1>1, <1>3, MovedFields
     DEF PlannerFails, LegalMove, CanTransition, Successors, Terminal
<1>4. CASE PlanStarted \/ PermissionAsked
  BY <1>1, <1>4, MovedFields DEF PlanStarted, PermissionAsked, LegalMove
<1>5. CASE PlanRequest \/ PlannerStale \/ ReplanCleanup \/ ReworkCleanup
  BY <1>5 DEF PlanRequest, PlannerStale, ReplanCleanup, ReworkCleanup,
              LegalMove
<1> QED
  BY <1>2, <1>3, <1>4, <1>5 DEF PlanningSystem

LEMMA ExecutionMoves ==
  ASSUME TypeOK, ExecuteRequest \/ ExecutionSystem
  PROVE  LegalMove
<1>1. run \in RunRec
  BY DEF TypeOK
<1>2. \A to \in Status : Moved(run, to) \in RunRec
  BY <1>1, MovedType
<1>3. \A to : Moved(run, to).status = to
  BY <1>1, MovedFields
<1> USE DEF LegalMove
<1>4. CASE ExecutionStarted
  <2>1. Started(run).status = "EXECUTING"
    BY <1>2, <1>3 DEF Started, RunRec, Status
  <2> QED
    BY <1>4, <2>1 DEF ExecutionStarted
<1>5. ASSUME NEW i \in Issues, ClaimSystem(i)
      PROVE  LegalMove
  <2>1. CASE WorktreeFails(i)
    <3>1. run'.status \in {run.status, "FAILED"}
      BY <1>2, <1>3, <2>1 DEF WorktreeFails, RunRec, Status
    <3> QED
      BY <2>1, <3>1 DEF WorktreeFails, CanTransition, Successors, Terminal
  <2>2. CASE PrepareWorktree(i)
    BY <1>1, <2>2 DEF PrepareWorktree, RunRec
  <2> QED
    BY <1>5, <2>1, <2>2 DEF ClaimSystem, PreparationStops, TakeSlot,
                            ExecutorReturns, EnterLane
<1> DEFINE failed == Moved(run, "FAILED")
           planning == Moved(run, "PLANNING")
           waiting == Moved(run, "WAITING_DECISION")
<1>20. /\ failed \in RunRec /\ failed.status = "FAILED"
       /\ planning \in RunRec /\ planning.status = "PLANNING"
       /\ waiting \in RunRec /\ waiting.status = "WAITING_DECISION"
  BY <1>2, <1>3 DEF Status
<1> HIDE DEF failed, planning, waiting
<1>6. CASE CheckpointFails
  <2>1. run.status = "EXECUTING" /\ run' # run => run'.status = "FAILED"
    BY <1>20, <1>6 DEF CheckpointFails, RunRec, failed
  <2> QED
    BY <1>6, <2>1 DEF CheckpointFails, CanTransition, Successors, Terminal
<1>7. CASE CheckpointAsksReplan
  <2>1. run' # run => run'.status = "PLANNING"
    BY <1>20, <1>7 DEF CheckpointAsksReplan, RunRec, planning
  <2> QED
    BY <1>7, <2>1 DEF CheckpointAsksReplan
<1>8. CASE CheckpointAtLimit
  <2>1. run' # run => run'.status = "WAITING_DECISION"
    BY <1>20, <1>8 DEF CheckpointAtLimit, RunRec, waiting
  <2> QED
    BY <1>8, <2>1 DEF CheckpointAtLimit
<1>9. CASE RecordDone
  <2> DEFINE done == Recorded(run, lane.issue, "done")
  <2>1. done.status = run.status
    BY <1>1 DEF Recorded, RunRec
  <2>2. Moved(done, "INTEGRATION_REVIEW").status = "INTEGRATION_REVIEW"
    BY <1>1 DEF Moved, Recorded, RunRec
  <2> QED
    BY <1>9, <2>1, <2>2 DEF RecordDone
<1>10. CASE RecordFailed
  <2>1. Recorded(run, lane.issue, "failed").status = run.status
    BY <1>1 DEF Recorded, RunRec
  <2>2. Recorded(Moved(run, "FAILED"), lane.issue, "failed").status = "FAILED"
    BY <1>2, <1>3 DEF Recorded, RunRec, Status
  <2> QED
    BY <1>10, <2>1, <2>2 DEF RecordFailed
<1>11. CASE Settle \/ CheckpointPasses \/ CheckpointAsksFix \/ SetMergeMarker
  BY <1>1, <1>11 DEF Settle, Recorded, CheckpointPasses, CheckpointAsksFix,
                     SetMergeMarker, RunRec
<1>12. CASE MergeMarkerBusy \/ MergeSucceeds \/ MergeFails
            \/ \E v \in {"PASS", "FIX", "REPLAN"} : CheckpointReturns(v)
  BY <1>12 DEF MergeMarkerBusy, MergeSucceeds, MergeFails, CheckpointReturns
<1>13. CASE ClaimWave
  BY <1>1, <1>13 DEF ClaimWave, RunRec
<1>14. CASE ExecuteRequest \/ BaseCaptureFails \/ EnsureFlow \/ StartWave
            \/ EndWave
  BY <1>14 DEF ExecuteRequest, BaseCaptureFails, EnsureFlow, StartWave,
               EndWave
<1> QED
  BY <1>4, <1>5, <1>6, <1>7, <1>8, <1>9, <1>10, <1>11, <1>12, <1>13, <1>14
     DEF ExecutionSystem, LaneSystem

LEMMA ReviewMoves ==
  ASSUME TypeOK, ReviewRequest \/ ReviewSystem
  PROVE  LegalMove
<1>1. run \in RunRec
  BY DEF TypeOK
<1>2. \/ ReviewFailed(run).status = run.status
      \/ CanTransition(run.status, ReviewFailed(run).status)
  BY <1>1, MovedFields DEF ReviewFailed
<1>3. Decided.status = Target(fin.verdict)
  BY DecidedStatus
<1>4. CASE ReviewDecided
  BY <1>2, <1>3, <1>4 DEF ReviewDecided, LegalMove
<1>5. CASE ReviewerFails
  BY <1>2, <1>5 DEF ReviewerFails, LegalMove
<1>6. ASSUME NEW v \in Verdicts, NEW keys \in SUBSET Issues,
             ReviewerReturns(v, keys)
      PROVE  LegalMove
  BY <1>6 DEF ReviewerReturns, LegalMove
<1> QED
  BY <1>4, <1>5, <1>6 DEF ReviewRequest, ReviewSystem, LegalMove

LEMMA ControlMoves ==
  ASSUME TypeOK, UserStep \/ CrashRestart
  PROVE  LegalMove
<1>1. run \in RunRec
  BY DEF TypeOK
<1>2. \A to \in Status : Moved(run, to) \in RunRec
  BY <1>1, MovedType
<1>3. \A to : Moved(run, to).status = to
  BY <1>1, MovedFields
<1> USE DEF LegalMove
<1>4. ASSUME NEW to \in Status,
             \/ Cancel /\ to = "CANCELLED"
             \/ Pause /\ to = "PAUSED"
             \/ Takeover /\ to = "WAITING_PERMISSION"
             \/ Release /\ to = "EXECUTING"
             \/ Resume /\ to \in {"PLANNING", "EXECUTING"}
                       /\ run' = [Moved(run, to) EXCEPT !.paused = FALSE]
                       /\ CanTransition(run.status, to)
      PROVE  LegalMove
  <2> DEFINE m == Moved(run, to)
  <2>1. m \in RunRec /\ m.status = to
    BY <1>2, <1>3
  <2> HIDE DEF m
  <2>3. \/ run' = [m EXCEPT !.exec = ResetRunning(run.exec),
                           !.paused = FALSE, !.takenOver = FALSE]
        \/ run' = [m EXCEPT !.exec = PausedExec, !.paused = TRUE]
        \/ run' = [m EXCEPT !.exec = ResetRunning(run.exec),
                           !.takenOver = TRUE]
        \/ run' = [m EXCEPT !.takenOver = FALSE]
        \/ run' = [m EXCEPT !.paused = FALSE]
    BY <1>4 DEF Cancel, Pause, Takeover, Release, m
  <2>2. run'.status = to
    BY <2>1, <2>3 DEF RunRec
  <2> QED
    BY <1>4, <2>2 DEF Cancel, Pause, Takeover, Resume, Release
<1>10. CASE Resume
  BY <1>10, <1>4 DEF Resume, Status
<1>5. CASE RetryIssues
  BY <1>1, <1>5 DEF RetryIssues, RunRec
<1>6. CASE RetryRun
  <2>2. RetryTarget \in {"PLANNING", "EXECUTING", "INTEGRATION_REVIEW"}
    BY DEF RetryTarget
  <2> DEFINE m == Moved(run, RetryTarget)
  <2>3. m \in RunRec /\ m.status = RetryTarget
    BY <1>2, <1>3, <2>2 DEF Status
  <2>4. PICK exec : run' = [m EXCEPT !.exec = exec]
    BY <1>6 DEF RetryRun
  <2> HIDE DEF m
  <2>1. run'.status = RetryTarget
    BY <2>3, <2>4 DEF RunRec
  <2>5. run.status = "FAILED"
    BY <1>6 DEF RetryRun
  <2> QED
    BY <2>1, <2>2, <2>5 DEF CanTransition, Successors, Terminal
<1>7. CASE HumanAccept
  BY <1>3, <1>7 DEF HumanAccept
<1>8. CASE HumanRework
  BY <1>2, <1>3, <1>8 DEF HumanRework, RunRec, Status
<1>9. CASE CrashRestart
  <2>1. \/ RecoveredRecord.status = run.status
        \/ /\ run.status = "READY"
           /\ RecoveredRecord.status = "WAITING_PERMISSION"
    BY <1>1, <1>3 DEF RecoveredRecord, RunRec
  <2>2. run' = RecoveredRecord
    BY <1>9 DEF CrashRestart
  <2> QED
    BY <2>1, <2>2 DEF CanTransition, Successors, Terminal
<1> QED
  BY <1>4, <1>5, <1>6, <1>7, <1>8, <1>9, <1>10 DEF UserStep, Status

\* Every write of the run's status, whichever request, flow or recovery makes
\* it and however late, is a move of the transition table, whether or not the
\* clients respect allowedActions.
THEOREM StatusAlwaysLegal == Spec => StatusMoves
<1>1. TypeOK /\ [Next]_vars
        => [run'.status # run.status => CanTransition(run.status, run'.status)]_run
  <2> SUFFICES ASSUME TypeOK, [Next]_vars
               PROVE  [LegalMove]_run
    BY DEF LegalMove
  <2>1. CASE Next
    BY <2>1, PlanningMoves, ExecutionMoves, ReviewMoves, ControlMoves
       DEF Next, RequestStep
  <2>2. CASE UNCHANGED vars
    BY <2>2 DEF vars
  <2> QED
    BY <2>1, <2>2
<1> QED
  BY <1>1, TypeCorrect, PTL DEF Spec, StatusMoves

-----------------------------------------------------------------------------
(* The invariant behind exclusive and reviewed merges.                     *)
(* A merge is safe because whatever could change the run under it is known *)
(* to be elsewhere: a flow that still has a write to make finds the run in *)
(* the statuses below, none of which a merge can be in.                    *)

\* A planning flow about to write finds the run where it left it, or
\* cancelled; before a permission write no issue is running.
PlanFlowInv ==
  /\ planFlow = "starting" => run.status \in {"RECEIVED", "CANCELLED"}
  /\ planFlow = "permission" => /\ run.status \in {"READY", "CANCELLED"}
                               /\ \A i \in Issues : ~Holds(i)

\* So does an execution start; controls may have moved the run meanwhile.
StartInv ==
  flow = "starting" =>
    run.status \in {"READY", "EXECUTING", "PAUSED", "WAITING_PERMISSION",
                    "CANCELLED"}

\* And so does a FINAL review.
FinInv == fin.step # "idle" => run.status \in {"INTEGRATION_REVIEW", "CANCELLED"}

\* A report in the lane finds the run executing or stopped by a control; only
\* a settlement sees a failed run.
ReportInv ==
  /\ lane.step \in {"checkpoint", "verdict"} => lane.path = "report"
  /\ lane.step \notin {"free", "rejected"} /\ lane.path = "report" =>
       run.status \in {"EXECUTING", "PAUSED", "WAITING_PERMISSION",
                       "CANCELLED"}

\* A verdict about a claim that still stands is applied to an executing run.
VerdictInv ==
  lane.step = "verdict" /\ Holds(lane.issue) => run.status = "EXECUTING"

\* With automatic review only a report sets the marker, and whoever is about
\* to set it for a standing claim was approved.
MarkInv ==
  AutoReview /\ lane.step = "marking" =>
    /\ lane.path = "report"
    /\ Holds(lane.issue) => lane.issue \in approved

MergeInv ==
  /\ PlanFlowInv
  /\ StartInv
  /\ FinInv
  /\ ReportInv
  /\ VerdictInv
  /\ MarkInv
  /\ MergeIsExclusive
  /\ NoUnreviewedMerge

LEMMA MergeInit == Init => MergeInv
BY DEF Init, MergeInv, PlanFlowInv, StartInv, FinInv, ReportInv, VerdictInv,
       MarkInv, MergeIsExclusive, NoUnreviewedMerge, InMerge, SubmittedRun,
       FreeLane, IdleReview

LEMMA MergePlanning ==
  ASSUME TypeOK, LaneInv, MergeInv, PlanRequest \/ PlanningSystem
  PROVE  MergeInv'
<1> USE DEF MergeInv, PlanFlowInv, StartInv, FinInv, ReportInv, VerdictInv,
            MarkInv, MergeIsExclusive, NoUnreviewedMerge, InMerge,
            MergeStatuses, Holds, notPlanning
<1>1. run \in RunRec
  BY DEF TypeOK
<1>2. \A to : /\ Moved(run, to).status = to
              /\ Moved(run, to).exec = run.exec
              /\ Moved(run, to).merging = run.merging
  BY <1>1, MovedFields
<1>3. CASE PlanRequest
  BY <1>3 DEF PlanRequest
<1>4. CASE PlanStarted
  BY <1>2, <1>4 DEF PlanStarted, CanTransition, Successors, Terminal
<1>5. CASE PlanPublished
  <2>1. /\ Published(run).status = "READY"
        /\ Published(run).exec = AllPending
    BY <1>1, <1>2, MovedType DEF Published, RunRec, Status
  <2> QED
    BY <1>5, <2>1 DEF PlanPublished, AllPending, LaneInv
<1>6. CASE PlannerFails
  BY <1>2, <1>6 DEF PlannerFails
<1>7. CASE PlannerStale
  BY <1>7 DEF PlannerStale
<1>8. CASE PermissionAsked
  BY <1>2, <1>8 DEF PermissionAsked, CanTransition, Successors, Terminal
<1>9. CASE ReplanCleanup \/ ReworkCleanup
  BY <1>9 DEF ReplanCleanup, ReworkCleanup, PlanFlowAfter
<1> QED
  BY <1>3, <1>4, <1>5, <1>6, <1>7, <1>8, <1>9 DEF PlanningSystem

LEMMA MergeWave ==
  ASSUME TypeOK, LaneInv, MergeInv,
         \/ ExecuteRequest \/ ExecutionStarted \/ BaseCaptureFails
         \/ EnsureFlow \/ ClaimWave
         \/ StartWave \/ EndWave \/ \E i \in Issues : ClaimSystem(i)
  PROVE  MergeInv'
<1> USE DEF MergeInv, PlanFlowInv, StartInv, FinInv, ReportInv, VerdictInv,
            MarkInv, MergeIsExclusive, NoUnreviewedMerge, InMerge,
            MergeStatuses, Holds
<1>1. run \in RunRec
  BY DEF TypeOK
<1>2. \A to : /\ Moved(run, to).status = to
              /\ Moved(run, to).exec = run.exec
              /\ Moved(run, to).merging = run.merging
  BY <1>1, MovedFields
<1>3. \A to \in Status : Moved(run, to) \in RunRec
  BY <1>1, MovedType
<1>4. CASE ExecuteRequest
  BY <1>4 DEF ExecuteRequest, LaneInv
<1>5. CASE ExecutionStarted
  <2>1. /\ Started(run).status = "EXECUTING"
        /\ Started(run).exec = run.exec
    BY <1>2, <1>3 DEF Started, RunRec, Status
  <2>2. lane.step = "free"
    BY <1>5 DEF ExecutionStarted, LaneInv
  <2> QED
    BY <1>5, <2>1, <2>2
       DEF ExecutionStarted, CanTransition, Successors, Terminal
<1>6. CASE BaseCaptureFails \/ EnsureFlow
  BY <1>6 DEF BaseCaptureFails, EnsureFlow
<1>7. CASE ClaimWave
  <2>1. lane.step = "free" /\ lane' = lane
    BY <1>7 DEF ClaimWave, LaneInv
  <2>2. run'.status = run.status
    BY <1>1, <1>7 DEF ClaimWave, RunRec
  <2> QED
    BY <1>7, <2>1, <2>2 DEF ClaimWave, FlowEnds
<1>8. CASE StartWave \/ EndWave
  BY <1>8 DEF StartWave, EndWave, FlowEnds
<1>9. ASSUME NEW i \in Issues, ClaimSystem(i)
      PROVE  MergeInv'
  <2>1. CASE PrepareWorktree(i)
    <3>1. run'.status = run.status /\ run'.exec = run.exec
      BY <1>1, <2>1 DEF PrepareWorktree, RunRec
    <3>2. lane.step = "free"
      BY <2>1 DEF PrepareWorktree, LaneInv
    <3> QED
      BY <2>1, <3>1, <3>2 DEF PrepareWorktree
  <2>2. CASE WorktreeFails(i)
    <3>1. lane.step = "free"
      BY <2>2 DEF WorktreeFails, LaneInv
    <3> QED
      BY <2>2, <3>1 DEF WorktreeFails
  <2>3. CASE EnterLane(i)
    <3>1. /\ lane'.issue = i
          /\ lane'.path = "report"
          /\ lane'.step \in {"rejected", "recordFail", "checkpoint",
                             "marking"}
          /\ lane'.step # "rejected" => run.status = "EXECUTING"
          /\ lane'.step = "marking" => ~AutoReview
      BY <2>3, ConfigAssumption DEF EnterLane, FirstStep, FreeLane
    <3> QED
      BY <2>3, <3>1 DEF EnterLane
  <2>4. CASE PreparationStops(i) \/ TakeSlot(i)
             \/ \E outcome \in {"succeeded", "broke"} :
                  ExecutorReturns(i, outcome)
    BY <2>4 DEF PreparationStops, TakeSlot, ExecutorReturns
  <2> QED
    BY <1>9, <2>1, <2>2, <2>3, <2>4 DEF ClaimSystem
<1> QED
  BY <1>4, <1>5, <1>6, <1>7, <1>8, <1>9

\* When the lane is let go, or its report refused, all that is left to show
\* is that the flows outside the wave still find the run where they left it.
LEMMA LaneReleased ==
  ASSUME TypeOK, MergeInv, lane'.step \in {"free", "rejected"},
         flow' = "running", planFlow' = planFlow,
         \/ /\ run'.status = run.status
            /\ \A i \in Issues : Holds(i)' => Holds(i)
            /\ fin' = fin
         \/ /\ run.status \in {"EXECUTING", "PAUSED", "WAITING_PERMISSION",
                              "FAILED"}
            /\ fin' = fin \/ run'.status = "INTEGRATION_REVIEW"
  PROVE  MergeInv'
<1> USE DEF MergeInv
<1>1. ReportInv' /\ VerdictInv' /\ MarkInv' /\ MergeIsExclusive'
      /\ NoUnreviewedMerge'
  BY DEF ReportInv, VerdictInv, MarkInv, MergeIsExclusive, NoUnreviewedMerge,
         InMerge
<1>2. PlanFlowInv'
  BY DEF PlanFlowInv
<1>3. StartInv' /\ FinInv'
  BY DEF StartInv, FinInv
<1> QED
  BY <1>1, <1>2, <1>3

LEMMA MergeLane ==
  ASSUME TypeOK, LaneInv, MergeInv, LaneSystem
  PROVE  MergeInv'
<1>1. run \in RunRec /\ lane \in LaneRec
  BY DEF TypeOK
<1>2. \A to : /\ Moved(run, to).status = to
              /\ Moved(run, to).exec = run.exec
              /\ Moved(run, to).merging = run.merging
  BY <1>1, MovedFields
<1> DEFINE failed == Moved(run, "FAILED")
           planning == Moved(run, "PLANNING")
           waiting == Moved(run, "WAITING_DECISION")
<1>3. /\ failed \in RunRec /\ planning \in RunRec /\ waiting \in RunRec
      /\ failed.status = "FAILED" /\ planning.status = "PLANNING"
      /\ waiting.status = "WAITING_DECISION"
  BY <1>1, <1>2, MovedType DEF Status
<1> HIDE DEF failed, planning, waiting
<1>4. /\ lane.step # "free" /\ flow = "running" /\ lane.issue \in Issues
      /\ flow' = flow /\ planFlow' = planFlow
  BY DEF LaneSystem, CheckpointReturns, CheckpointFails, CheckpointPasses,
         CheckpointAsksFix, CheckpointAsksReplan, CheckpointAtLimit,
         SetMergeMarker, MergeMarkerBusy, MergeSucceeds, MergeFails,
         RecordDone, RecordFailed, Settle, LaneAt, LaneInv
\* The steps that let the lane go or refuse the report.
<1>5. /\ LeaveLane(TRUE) => lane'.step = "free"
      /\ LeaveLane(FALSE) => lane'.step = "free"
      /\ LaneTo("rejected") => lane'.step = "rejected"
      /\ Refuse => lane'.step \in {"free", "rejected"}
  BY <1>1 DEF LeaveLane, LaneTo, Refuse, FreeLane, LaneRec
<1>6. CASE CheckpointFails
  <2>1. run' = run \/ run.status = "EXECUTING"
    BY <1>6 DEF CheckpointFails
  <2>2. fin' = fin /\ lane'.step \in {"free", "rejected"}
    BY <1>5, <1>6 DEF CheckpointFails
  <2> QED
    BY <1>4, <2>1, <2>2, LaneReleased DEF Holds
<1>7. CASE CheckpointAsksFix
  <2>1. run'.status = run.status
    BY <1>1, <1>7 DEF CheckpointAsksFix, RunRec
  <2>2. \A i \in Issues : Holds(i)' => Holds(i)
    BY <1>1, <1>7 DEF CheckpointAsksFix, RunRec, Holds
  <2>3. fin' = fin /\ lane'.step = "free"
    BY <1>5, <1>7 DEF CheckpointAsksFix
  <2> QED
    BY <1>4, <2>1, <2>2, <2>3, LaneReleased
<1>8. CASE CheckpointAsksReplan \/ CheckpointAtLimit
  <2>1. run' = run \/ CanTransition(run.status, "PLANNING")
                  \/ CanTransition(run.status, "WAITING_DECISION")
    BY <1>8 DEF CheckpointAsksReplan, CheckpointAtLimit
  <2>2. run.status \in {"EXECUTING", "PAUSED", "WAITING_PERMISSION",
                        "CANCELLED"}
    BY <1>8 DEF CheckpointAsksReplan, CheckpointAtLimit, LaneAt, MergeInv,
                ReportInv
  <2>3. run' = run \/ run.status = "EXECUTING"
    BY <2>1, <2>2 DEF CanTransition, Successors, Terminal
  <2>4. fin' = fin /\ lane'.step \in {"free", "rejected"}
    BY <1>5, <1>8 DEF CheckpointAsksReplan, CheckpointAtLimit
  <2> QED
    BY <1>4, <2>3, <2>4, LaneReleased DEF Holds
<1>9. CASE MergeMarkerBusy \/ MergeFails
  <2>1. run' = run /\ fin' = fin /\ lane'.step \in {"free", "rejected"}
    BY <1>5, <1>9 DEF MergeMarkerBusy, MergeFails
  <2> QED
    BY <1>4, <2>1, LaneReleased DEF Holds
<1>10. CASE RecordDone
  <2>1. run.status \in {"EXECUTING", "FAILED"}
    BY <1>1, <1>10 DEF RecordDone, LaneAt, MergeInv, MergeIsExclusive, InMerge,
                       MergeStatuses
  <2>2. lane'.step \in {"free", "rejected"}
    BY <1>5, <1>10 DEF RecordDone
  <2>3. fin' = fin \/ run'.status = "INTEGRATION_REVIEW"
    BY <1>10 DEF RecordDone, FinAfter
  <2> QED
    BY <1>4, <2>1, <2>2, <2>3, LaneReleased
<1>11. CASE RecordFailed
  <2>1. fin' = fin /\ lane'.step \in {"free", "rejected"}
    BY <1>5, <1>11 DEF RecordFailed
  <2>2. CASE run' = run
    BY <1>4, <2>1, <2>2, LaneReleased DEF Holds
  <2>3. CASE run' # run /\ lane.path = "report"
    <3>1. run.status \in {"EXECUTING", "PAUSED", "WAITING_PERMISSION",
                          "CANCELLED"}
      BY <1>11, <2>3 DEF RecordFailed, LaneAt, MergeInv, ReportInv
    <3>2. CanTransition(run.status, "FAILED")
      BY <1>11, <2>3 DEF RecordFailed
    <3>3. run.status # "CANCELLED"
      BY <3>2 DEF CanTransition, Successors, Terminal
    <3> QED
      BY <1>4, <2>1, <3>1, <3>3, LaneReleased
  <2>4. CASE run' # run /\ lane.path = "settle"
    <3>1. run' = Recorded(run, lane.issue, "failed")
      BY <1>11, <2>4 DEF RecordFailed
    <3>2. /\ run'.status = run.status
          /\ \A i \in Issues : Holds(i)' => Holds(i)
      BY <1>1, <3>1 DEF Recorded, RunRec, Holds
    <3> QED
      BY <1>4, <2>1, <3>2, LaneReleased
  <2> QED
    BY <1>1, <2>2, <2>3, <2>4 DEF LaneRec
<1>12. CASE Settle
  <2>1. CASE lane'.step = "free"
    <3>1. \/ run' = run
          \/ run' = Recorded(run, lane.issue, "pending")
      BY <1>12 DEF Settle
    <3>2. /\ run'.status = run.status
          /\ \A i \in Issues : Holds(i)' => Holds(i)
      BY <1>1, <3>1, ZenonT(60) DEF Recorded, RunRec, Holds
    <3> QED
      BY <1>4, <1>12, <2>1, <3>2, LaneReleased DEF Settle
  <2>2. CASE lane'.step # "free"
    <3>1. /\ UNCHANGED <<run, fin, approved>>
          /\ lane'.path = "settle"
          /\ lane'.step \in {"marking", "recordFail"}
          /\ lane'.step = "marking" => ~AutoReview
      BY <1>1, <1>5, <1>12, <2>2 DEF Settle, LaneRec
    <3> QED
      BY <1>4, <3>1
         DEF MergeInv, PlanFlowInv, StartInv, FinInv, ReportInv, VerdictInv,
             MarkInv, MergeIsExclusive, NoUnreviewedMerge, InMerge, Holds
  <2> QED
    BY <2>1, <2>2
\* The steps that move the outcome along the lane.
<1>13. ASSUME NEW v \in {"PASS", "FIX", "REPLAN"}, CheckpointReturns(v)
       PROVE  MergeInv'
  <2>1. CASE LeaveLane(TRUE)
    BY <1>4, <1>5, <1>13, <2>1, LaneReleased DEF CheckpointReturns, Holds
  <2>2. CASE ~LeaveLane(TRUE)
    <3>1. /\ lane.step = "checkpoint" /\ lane'.step = "verdict"
          /\ lane'.path = lane.path /\ lane'.issue = lane.issue
          /\ run.status = "EXECUTING"
          /\ UNCHANGED <<run, fin, approved>>
      BY <1>1, <1>13, <2>2 DEF CheckpointReturns, LaneAt, LaneRec
    <3> QED
      BY <1>4, <3>1
         DEF MergeInv, PlanFlowInv, StartInv, FinInv, ReportInv, VerdictInv,
             MarkInv, MergeIsExclusive, NoUnreviewedMerge, InMerge, Holds
  <2> QED
    BY <2>1, <2>2
<1>14. CASE CheckpointPasses
  <2>1. run'.status = run.status /\ run'.exec = run.exec
    BY <1>1, <1>14 DEF CheckpointPasses, RunRec
  <2>2. /\ lane.step = "verdict" /\ lane'.step = "marking"
        /\ lane'.path = lane.path /\ lane'.issue = lane.issue
        /\ run.status = "EXECUTING" /\ Holds(lane.issue)
             => lane.issue \in approved'
        /\ fin' = fin
    BY <1>1, <1>14 DEF CheckpointPasses, LaneAt, LaneTo, LaneRec
  <2> QED
    BY <1>4, <2>1, <2>2
       DEF MergeInv, PlanFlowInv, StartInv, FinInv, ReportInv, VerdictInv,
           MarkInv, MergeIsExclusive, NoUnreviewedMerge, InMerge, Holds
<1>15. CASE SetMergeMarker
  <2>1. CASE MarkerValid
    <3>1. /\ run'.status = run.status /\ run'.exec = run.exec
          /\ run'.merging = TRUE
      BY <1>1, <1>15, <2>1 DEF SetMergeMarker, RunRec
    <3>2. /\ lane.step = "marking" /\ lane'.step = "merging"
          /\ lane'.path = lane.path /\ lane'.issue = lane.issue
          /\ UNCHANGED <<fin, approved>>
      BY <1>1, <1>15, <2>1 DEF SetMergeMarker, LaneAt, LaneTo, LaneRec
    <3> QED
      BY <1>4, <2>1, <3>1, <3>2
         DEF MergeInv, PlanFlowInv, StartInv, FinInv, ReportInv, VerdictInv,
             MarkInv, MergeIsExclusive, NoUnreviewedMerge, InMerge, Holds,
             MarkerValid, MergeStatuses
  <2>2. CASE ~MarkerValid
    BY <1>4, <1>5, <1>15, <2>2, LaneReleased DEF SetMergeMarker, Holds
  <2> QED
    BY <2>1, <2>2
<1>16. CASE MergeSucceeds
  <2>1. /\ lane.step = "merging" /\ lane'.step = "recordOk"
        /\ lane'.path = lane.path /\ lane'.issue = lane.issue
        /\ UNCHANGED <<run, fin, approved>>
    BY <1>1, <1>16 DEF MergeSucceeds, LaneAt, LaneTo, LaneRec
  <2> QED
    BY <1>4, <2>1
       DEF MergeInv, PlanFlowInv, StartInv, FinInv, ReportInv, VerdictInv,
           MarkInv, MergeIsExclusive, NoUnreviewedMerge, InMerge, Holds,
           MergeStatuses
<1> QED
  BY <1>6, <1>7, <1>8, <1>9, <1>10, <1>11, <1>12, <1>13, <1>14, <1>15, <1>16
     DEF LaneSystem

LEMMA MergeReview ==
  ASSUME TypeOK, LaneInv, MergeInv, ReviewRequest \/ ReviewSystem
  PROVE  MergeInv'
<1> USE DEF MergeInv, PlanFlowInv, StartInv, FinInv, ReportInv, VerdictInv,
            MarkInv, MergeIsExclusive, NoUnreviewedMerge, InMerge,
            MergeStatuses, Holds
<1>1. run \in RunRec
  BY DEF TypeOK
<1>2. \/ ReviewFailed(run) = run
      \/ /\ ReviewFailed(run).status = "FAILED"
         /\ run.status \notin Terminal
  BY <1>1, MovedFields DEF ReviewFailed, CanTransition, Successors, Terminal
<1>7. ReviewFailed(run).exec = run.exec
  BY <1>1, MovedFields DEF ReviewFailed
<1>3. CASE ReviewRequest
  BY <1>3 DEF ReviewRequest, Reviewing
<1>4. ASSUME NEW v \in Verdicts, NEW keys \in SUBSET Issues,
             ReviewerReturns(v, keys)
      PROVE  MergeInv'
  BY <1>4 DEF ReviewerReturns, IdleReview, TypeOK, FinRec
<1>5. CASE ReviewerFails
  BY <1>2, <1>5, <1>7 DEF ReviewerFails, IdleReview, Terminal
<1>6. CASE ReviewDecided
  <2>1. fin.step # "idle" /\ fin'.step = "idle"
    BY <1>6 DEF ReviewDecided, IdleReview
  <2>2. run.status = "INTEGRATION_REVIEW" \/ run' = run
    BY <1>2, <1>6, <2>1
       DEF ReviewDecided, CanTransition, Successors, Terminal
  <2>3. run' # run => run'.status \in {"AWAITING_HUMAN", "WAITING_DECISION",
                                      "PLANNING", "EXECUTING", "FAILED"}
    BY <1>2, <1>6, DecidedStatus DEF ReviewDecided, Target
  <2> QED
    BY <1>6, <2>1, <2>2, <2>3 DEF ReviewDecided
<1> QED
  BY <1>3, <1>4, <1>5, <1>6 DEF ReviewSystem

\* The statuses in which allowedActions offers an action.
LEMMA Offered ==
  ASSUME run \in RunRec, ClientChecks
  PROVE  /\ Sent("pause") => run.status = "EXECUTING"
         /\ Sent("takeover") => run.status \in {"EXECUTING", "PAUSED"}
         /\ Sent("resume") => run.status \in {"PAUSED", "WAITING_DECISION"}
         /\ Sent("release") => run.status = "WAITING_PERMISSION"
         /\ Sent("accept") => run.status = "AWAITING_HUMAN"
         /\ Sent("rework") => run.status = "AWAITING_HUMAN"
<1>1. run.status \in Status
  BY DEF RunRec
<1>2. \A act : Sent(act) => act \in AllowedActions
  BY DEF Sent
<1> QED
  BY <1>1, <1>2 DEF AllowedActions, Status

LEMMA MergeControl ==
  ASSUME TypeOK, LaneInv, MergeInv, ClientChecks, UserStep \/ CrashRestart
  PROVE  MergeInv'
<1> USE DEF MergeInv, PlanFlowInv, StartInv, FinInv, ReportInv, VerdictInv,
            MarkInv, MergeIsExclusive, NoUnreviewedMerge, InMerge,
            MergeStatuses, Holds
<1>1. run \in RunRec
  BY DEF TypeOK
<1>2. \A to : /\ Moved(run, to).status = to
              /\ Moved(run, to).exec = run.exec
              /\ Moved(run, to).merging = run.merging
  BY <1>1, MovedFields
<1> DEFINE cancelled == Moved(run, "CANCELLED")
           paused == Moved(run, "PAUSED")
           waiting == Moved(run, "WAITING_PERMISSION")
           executing == Moved(run, "EXECUTING")
           planning == Moved(run, "PLANNING")
<1>3. /\ cancelled \in RunRec /\ cancelled.status = "CANCELLED"
      /\ paused \in RunRec /\ paused.status = "PAUSED"
      /\ waiting \in RunRec /\ waiting.status = "WAITING_PERMISSION"
      /\ executing \in RunRec /\ executing.status = "EXECUTING"
      /\ executing.exec = run.exec
      /\ planning \in RunRec /\ planning.status = "PLANNING"
      /\ planning.exec = run.exec
  BY <1>1, <1>2, MovedType DEF Status
<1> HIDE DEF cancelled, paused, waiting, executing, planning
<1>4. /\ ResetRunning(run.exec) \in [Issues -> ExecStatus]
      /\ \A i \in Issues : ResetRunning(run.exec)[i] # "running"
  BY <1>1 DEF ResetRunning, Replaced, RunRec, ExecStatus
\* Cancel, pause and takeover leave no issue running.
<1>5. CASE Cancel \/ Pause \/ Takeover
  <2>1. /\ \/ run'.status = "CANCELLED"
           \/ run'.status = "PAUSED" /\ run.status = "EXECUTING"
           \/ /\ run'.status = "WAITING_PERMISSION"
              /\ run.status \in {"EXECUTING", "PAUSED"}
        /\ run'.exec = ResetRunning(run.exec)
    <3>1. CASE Cancel
      BY <1>3, <3>1 DEF Cancel, RunRec, cancelled
    <3>2. CASE Pause
      BY <1>1, <1>3, <3>2, Offered
         DEF Pause, PausedExec, Accepts, RunRec, paused
    <3>3. CASE Takeover
      BY <1>1, <1>3, <3>3, Offered DEF Takeover, Accepts, RunRec, waiting
    <3> QED
      BY <1>5, <3>1, <3>2, <3>3
  <2>2. \A i \in Issues : run'.exec[i] # "running"
    BY <1>4, <2>1
  <2>3. /\ ~run.merging
        /\ UNCHANGED <<planFlow, flow, approved>>
        /\ lane'.step = lane.step /\ lane'.path = lane.path
        /\ lane'.issue = lane.issue
        /\ fin'.step = fin.step
    BY <1>5 DEF Cancel, Pause, Takeover, AbortsWork, Accepts, MergeHoldsOff,
                TypeOK, LaneRec, FinRec
  <2>4. lane.step # "free" => lane.issue \in Issues
    BY DEF LaneInv
  <2> QED
    BY <2>1, <2>2, <2>3, <2>4
<1>6. CASE Resume
  <2>1. /\ run.status \in {"PAUSED", "WAITING_DECISION"}
        /\ ~run.merging
        /\ UNCHANGED <<planFlow, flow, lane, fin, approved>>
    BY <1>1, <1>6, Offered DEF Resume, Accepts, MergeHoldsOff
  <2>2. /\ run'.status \in {"PLANNING", "EXECUTING"}
        /\ run'.status = "PLANNING" => run.status = "WAITING_DECISION"
        /\ run'.exec = run.exec
    <3>1. \/ run' = [executing EXCEPT !.paused = FALSE]
          \/ /\ run' = [planning EXCEPT !.paused = FALSE]
             /\ run.status = "WAITING_DECISION"
      BY <1>6 DEF Resume, executing, planning
    <3> QED
      BY <1>3, <3>1 DEF RunRec
  <2> QED
    BY <2>1, <2>2
<1>7. CASE Release
  <2>1. run.status = "WAITING_PERMISSION" /\ ~run.merging
    BY <1>1, <1>7, Offered DEF Release, Accepts, MergeHoldsOff
  <2>2. run'.status = "EXECUTING" /\ run'.exec = run.exec
    BY <1>3, <1>7 DEF Release, RunRec, executing
  <2> QED
    BY <1>7, <2>1, <2>2 DEF Release
<1>8. CASE RetryIssues
  <2>1. /\ run'.status = run.status
        /\ run'.merging = run.merging
        /\ \A i \in Issues : run'.exec[i] = "running"
                               <=> run.exec[i] = "running"
    BY <1>1, <1>8 DEF RetryIssues, RetryFailed, Replaced, RunRec, ExecStatus
  <2>2. lane.step # "free" => lane.issue \in Issues
    BY DEF LaneInv
  <2> QED
    BY <1>8, <2>1, <2>2 DEF RetryIssues
<1>9. CASE RetryRun
  <2>1. run.status = "FAILED" /\ ~run.merging
    BY <1>9 DEF RetryRun, Accepts, MergeHoldsOff
  <2> DEFINE m == Moved(run, RetryTarget)
  <2>2. RetryTarget \in Status
    BY DEF RetryTarget, Status
  <2>3. m \in RunRec /\ m.status = RetryTarget
    BY <1>1, <1>2, <2>2, MovedType
  <2>4. PICK exec : /\ run' = [m EXCEPT !.exec = exec]
                    /\ exec \in {run.exec, RetryFailed(run.exec)}
    BY <1>9 DEF RetryRun
  <2> HIDE DEF m
  <2>5. /\ run'.status = RetryTarget
        /\ \A i \in Issues : run'.exec[i] = "running"
                               => run.exec[i] = "running"
    BY <1>1, <2>3, <2>4 DEF RetryFailed, Replaced, RunRec, ExecStatus
  <2>6. /\ UNCHANGED <<flow, lane, approved>>
        /\ planFlow' \in {planFlow, "planning"}
        /\ fin' = fin \/ run'.status = "INTEGRATION_REVIEW"
    BY <1>9 DEF RetryRun, PlanFlowAfter, FinAfter
  <2>7. lane.step # "free" => lane.issue \in Issues
    BY DEF LaneInv
  <2> QED
    BY <2>1, <2>5, <2>6, <2>7
<1>10. CASE HumanAccept
  <2>1. run.status = "AWAITING_HUMAN" /\ run'.status = "ACCEPTED"
    BY <1>1, <1>2, <1>10, Offered DEF HumanAccept
  <2>2. run'.exec = run.exec
    BY <1>2, <1>10 DEF HumanAccept
  <2> QED
    BY <1>10, <2>1, <2>2 DEF HumanAccept, memory
<1>11. CASE HumanRework
  <2>1. run.status = "AWAITING_HUMAN"
    BY <1>1, <1>11, Offered DEF HumanRework
  <2>2. run'.status = "PLANNING" /\ run'.exec = AllPending
    BY <1>3, <1>11 DEF HumanRework, RunRec, planning
  <2>3. /\ UNCHANGED <<flow, lane, fin, approved>>
        /\ planFlow' \in {planFlow, "planning"}
    BY <1>11 DEF HumanRework, PlanFlowAfter
  <2>4. lane.step # "free" => lane.issue \in Issues
    BY DEF LaneInv
  <2> QED
    BY <2>1, <2>2, <2>3, <2>4 DEF AllPending
<1>12. CASE CrashRestart
  <2>1. /\ run' = RecoveredRecord
        /\ planFlow' \in {"planning", "none"}
        /\ flow' = "starting" => run.status = "READY" /\ ~RequirePermission
        /\ lane'.step = "free" /\ lane'.path = "report"
        /\ fin'.step # "idle" => run.status = "INTEGRATION_REVIEW"
    BY <1>12 DEF CrashRestart, FreeLane, IdleReview
  <2>2. \/ RecoveredRecord.status = run.status
        \/ run.status = "READY" /\ RequirePermission
    BY <1>1 DEF RecoveredRecord, RunRec
  <2> QED
    BY <2>1, <2>2
<1> QED
  BY <1>5, <1>6, <1>7, <1>8, <1>9, <1>10, <1>11, <1>12 DEF UserStep

-----------------------------------------------------------------------------
(* The theorems. *)

Inductive == ClientChecks /\ TypeOK /\ LaneInv /\ MergeInv

LEMMA InductiveInit == Init /\ ClientChecks => Inductive
<1> SUFFICES ASSUME Init, ClientChecks PROVE Inductive
  OBVIOUS
<1>1. TypeOK /\ MergeInv
  BY InitType, MergeInit
<1>2. LaneInv
  BY DEF Init, LaneInv, FreeLane
<1> QED
  BY <1>1, <1>2 DEF Inductive

LEMMA InductiveStep == Inductive /\ [Next]_vars => Inductive'
<1> SUFFICES ASSUME Inductive, [Next]_vars PROVE Inductive'
  OBVIOUS
<1>1. TypeOK' /\ LaneInv'
  BY TypeStep, LaneInvStep DEF Inductive
<1>2. TypeOK /\ LaneInv /\ MergeInv /\ ClientChecks
  BY DEF Inductive
<1>3. MergeInv'
  <2>1. CASE PlanningSystem \/ PlanRequest
    BY <1>2, <2>1, MergePlanning
  <2>2. CASE ExecutionSystem \/ ExecuteRequest
    BY <1>2, <2>2, MergeWave, MergeLane DEF ExecutionSystem
  <2>3. CASE ReviewSystem \/ ReviewRequest
    BY <1>2, <2>3, MergeReview
  <2>4. CASE UserStep \/ CrashRestart
    BY <1>2, <2>4, MergeControl
  <2>5. CASE UNCHANGED vars
    BY <1>2, <2>5
       DEF MergeInv, PlanFlowInv, StartInv, FinInv, ReportInv, VerdictInv,
           MarkInv, MergeIsExclusive, NoUnreviewedMerge, InMerge,
           MergeStatuses, Holds, vars, memory
  <2> QED
    BY <2>1, <2>2, <2>3, <2>4, <2>5 DEF Next, RequestStep
<1>4. ClientChecks'
  BY <1>2
<1> QED
  BY <1>1, <1>3, <1>4 DEF Inductive

LEMMA InductiveInvariant == Spec /\ ClientChecks => []Inductive
BY InductiveInit, InductiveStep, PTL DEF Spec

\* For every plan, configuration and set of failures, when clients send only
\* the actions they were offered: no control action, flow or recovery slips
\* between the merge marker and the record of the merge.
THEOREM MergesAreExclusive == Spec /\ ClientChecks => []MergeIsExclusive
<1>1. Inductive => MergeIsExclusive
  BY DEF Inductive, MergeInv
<1> QED
  BY <1>1, InductiveInvariant, PTL

\* Likewise, with automatic review, nothing is merged without a durable
\* CHECKPOINT PASS of the very attempt that is merged.
THEOREM MergesAreReviewed == Spec /\ ClientChecks => []NoUnreviewedMerge
<1>1. Inductive => NoUnreviewedMerge
  BY DEF Inductive, MergeInv
<1> QED
  BY <1>1, InductiveInvariant, PTL

=============================================================================
