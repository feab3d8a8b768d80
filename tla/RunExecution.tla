---------------------------- MODULE RunExecution ---------------------------
(***************************************************************************)
(* The automated execution of a run: startExecution, the wave loop of      *)
(* runExecutionBody, executeClaim, and the per-run lane in which outcomes  *)
(* are reviewed, merged and recorded one at a time (withOutcomeLock around *)
(* reportResult, itself under withCheckpointLock).                         *)
(*                                                                         *)
(* A claim goes through pc[i]:                                             *)
(*   idle -> claimed -> prepared -> slot -> executing                      *)
(*        -> succeeded | broke (the executor's outcome)  -> finished       *)
(* and the outcome of the lane's holder through lane.step:                 *)
(*   checkpoint -> verdict -> marking -> merging -> recordOk,              *)
(*   recordFail, or rejected (the report was refused; settleIssueOutcome). *)
(***************************************************************************)
EXTENDS RunRecord

ClaimPc == {"idle", "claimed", "prepared", "slot", "executing", "succeeded",
            "broke", "finished"}

LaneStep == {"free", "checkpoint", "verdict", "marking", "merging",
             "recordOk", "recordFail", "rejected"}

LaneRec == [issue : Issues \cup {NoIssue}, step : LaneStep,
            path : {"report", "settle"},
            verdict : {"none", "PASS", "FIX", "REPLAN"}, aborted : BOOLEAN]

-----------------------------------------------------------------------------
(* Starting the wave loop. *)

\* POST /execute.  A call that finds a flow or a start in flight joins it.
ExecuteRequest ==
  /\ "execute" \in UserCommands
  /\ run.planned
  /\ run.status \in {"READY", "EXECUTING"}
  /\ flow = "none"
  /\ flow' = IF run.status = "READY" THEN "starting" ELSE "claiming"
  /\ UNCHANGED <<run, planFlow, cleanup, ensure, pc, aborted, waveOk, lane,
                 fin, branch, approved>>

Started(r) == [Moved(r, "EXECUTING") EXCEPT !.base = TRUE]

\* The READY -> EXECUTING write, after the asynchronous base-SHA capture; by
\* then a permission write that was already queued has committed.
ExecutionStarted ==
  /\ flow = "starting"
  /\ planFlow # "permission"
  /\ IF CanTransition(run.status, "EXECUTING")
     THEN /\ run' = Started(run)
          /\ flow' = "claiming"
     ELSE /\ flow' = "none"
          /\ UNCHANGED run
  /\ UNCHANGED <<planFlow, cleanup, ensure, pc, aborted, waveOk, lane, fin,
                 branch, approved>>

\* getHeadSha failed: startExecution answers with an error, which its callers
\* drop, except the handler of POST /execute, and the run stays as it is.
BaseCaptureFails ==
  /\ "base" \in Faults
  /\ flow = "starting"
  /\ ~run.base
  /\ flow' = "none"
  /\ UNCHANGED <<run, planFlow, cleanup, ensure, pc, aborted, waveOk, lane,
                 fin, branch, approved>>

NeedsFlow ==
  /\ run.status = "EXECUTING"
  /\ ~run.paused
  /\ ~run.takenOver
  /\ run.planned
  /\ IssuesIn("pending") # {}

\* ensureExecutionFlow: wait for the current wave loop to end, then start a
\* new one if the run still needs it.  A start in flight is joined.
EnsureFlow ==
  /\ ensure
  /\ flow \in {"none", "starting"}
  /\ ensure' = FALSE
  /\ flow' = IF flow = "none" /\ NeedsFlow THEN "claiming" ELSE flow
  /\ UNCHANGED <<run, planFlow, cleanup, pc, aborted, waveOk, lane, fin,
                 branch, approved>>

\* The end of runExecutionBody: the flow is deregistered and its safety net,
\* one more ensureExecutionFlow, is scheduled.
FlowEnds == flow' = "none" /\ ensure' = TRUE

-----------------------------------------------------------------------------
(* One wave: claim, prepare worktrees, authorize. *)

\* Mutant: dependencies are not consulted when an issue is claimed.
Claimable_IgnoringDeps(i) == run.exec[i] \notin {"done", "running"}

Claimable(i) ==
  /\ run.exec[i] \notin {"done", "running"}
  /\ \A d \in Deps[i] : run.exec[d] = "done"

Lesser(m, n) == IF m <= n THEN m ELSE n

\* The atomic claim of claimSchedulableIssues.  Which candidates come first
\* (topologicalOrder) is abstracted to any choice of the right size.
ClaimWave ==
  /\ flow = "claiming"
  /\ planFlow # "permission"
  /\ LET candidates == {i \in Issues : Claimable(i)}
         runningNow == Cardinality(IssuesIn("running"))
     IN  IF run.status # "EXECUTING" \/ runningNow >= MaxConcurrent
            \/ candidates = {}
         THEN /\ FlowEnds
              /\ UNCHANGED <<run, pc, waveOk, approved>>
         ELSE \E C \in SUBSET candidates :
                /\ Cardinality(C) = Lesser(MaxConcurrent - runningNow,
                                           Cardinality(candidates))
                /\ run' = [run EXCEPT !.exec =
                             [i \in Issues |-> IF i \in C THEN "running"
                                               ELSE run.exec[i]]]
                /\ pc' = [i \in Issues |-> IF i \in C THEN "claimed"
                                           ELSE "idle"]
                /\ approved' = approved \ C
                /\ waveOk' = TRUE
                /\ flow' = "preparing"
                /\ UNCHANGED ensure
  /\ UNCHANGED <<planFlow, cleanup, aborted, lane, fin, branch>>

\* The claims not reached when the preparation loop breaks are dropped.
ClaimsDropped ==
  [j \in Issues |-> IF pc[j] = "claimed" THEN "idle" ELSE pc[j]]

\* A worktree persisted by an earlier attempt is reused; otherwise one is
\* created and persisted, if the run is still EXECUTING.
PrepareWorktree(i) ==
  /\ flow = "preparing"
  /\ pc[i] = "claimed"
  /\ run.worktree[i] \/ run.status = "EXECUTING"
  /\ run' = [run EXCEPT !.worktree[i] = TRUE]
  /\ pc' = [pc EXCEPT ![i] = "prepared"]
  /\ UNCHANGED <<planFlow, cleanup, flow, ensure, aborted, waveOk, lane, fin,
                 branch, approved>>

\* The run left EXECUTING before this claim's worktree was created.
PreparationStops(i) ==
  /\ flow = "preparing"
  /\ pc[i] = "claimed"
  /\ ~run.worktree[i]
  /\ run.status # "EXECUTING"
  /\ pc' = ClaimsDropped
  /\ UNCHANGED <<run, planFlow, cleanup, flow, ensure, aborted, waveOk, lane,
                 fin, branch, approved>>

\* git worktree add failed: failRunningIssue reports the claim as failed,
\* which the report accepts only if the claim still stands.
WorktreeFails(i) ==
  /\ "worktree" \in Faults
  /\ flow = "preparing"
  /\ pc[i] = "claimed"
  /\ ~run.worktree[i]
  /\ run.status = "EXECUTING"
  /\ pc' = ClaimsDropped
  /\ run' = IF run.exec[i] = "running"
            THEN [Moved(run, "FAILED") EXCEPT !.exec[i] = "failed",
                                              !.merging = FALSE]
            ELSE run
  /\ UNCHANGED <<planFlow, cleanup, flow, ensure, aborted, waveOk, lane, fin,
                 branch, approved>>

Authorized(i) ==
  /\ run.status = "EXECUTING"
  /\ ~run.paused
  /\ ~run.takenOver
  /\ run.exec[i] = "running"

\* executeClaim on every prepared claim: their attempt-id writes are queued
\* together, so their authorization checks read the same record.  A refused
\* claim counts as an outcome that lets the loop go on.
StartWave ==
  /\ flow = "preparing"
  /\ \A i \in Issues : pc[i] # "claimed"
  /\ LET prepared == {i \in Issues : pc[i] = "prepared"}
     IN  /\ pc' = [i \in Issues |-> IF i \notin prepared THEN "idle"
                                    ELSE IF Authorized(i) THEN "slot"
                                    ELSE "finished"]
         /\ IF prepared = {}
            THEN FlowEnds
            ELSE flow' = "running" /\ UNCHANGED ensure
  /\ aborted' = [i \in Issues |-> FALSE]
  /\ UNCHANGED <<run, planFlow, cleanup, waveOk, lane, fin, branch, approved>>

-----------------------------------------------------------------------------
(* The executor. *)

\* Mutant: the abort signal is not looked at again once a slot is free.
SlotGrants_IgnoringAbort(i) == TRUE

SlotGrants(i) == ~aborted[i]

\* withExecutorSlot admits the claim; an aborted one is skipped instead.
TakeSlot(i) ==
  /\ flow = "running"
  /\ pc[i] = "slot"
  /\ Cardinality({j \in Issues : pc[j] = "executing"}) < MaxExecutorProcesses
  /\ pc' = [pc EXCEPT ![i] = IF SlotGrants(i) THEN "executing"
                             ELSE "finished"]
  /\ UNCHANGED <<run, planFlow, cleanup, flow, ensure, aborted, waveOk, lane,
                 fin, branch, approved>>

\* The executor's promise settles; an aborted one may still have succeeded.
ExecutorReturns(i, outcome) ==
  /\ flow = "running"
  /\ pc[i] = "executing"
  /\ outcome = "broke" => "executor" \in Faults \/ aborted[i]
  /\ pc' = [pc EXCEPT ![i] = outcome]
  /\ UNCHANGED <<run, planFlow, cleanup, flow, ensure, aborted, waveOk, lane,
                 fin, branch, approved>>

-----------------------------------------------------------------------------
(* The lane. *)

Holds(i) == run.exec[i] = "running"

\* Mutant: a successful outcome is merged without its CHECKPOINT review.
FirstStep_Unreviewed(i) ==
  IF run.status # "EXECUTING" \/ ~Holds(i) THEN "rejected"
  ELSE IF pc[i] = "broke" THEN "recordFail" ELSE "marking"

FirstStep(i) ==
  IF run.status # "EXECUTING" \/ ~Holds(i) THEN "rejected"
  ELSE IF pc[i] = "broke" THEN "recordFail"
  ELSE IF AutoReview THEN "checkpoint" ELSE "marking"

\* reportResultBody under both locks, up to its first await.
EnterLane(i) ==
  /\ flow = "running"
  /\ pc[i] \in {"succeeded", "broke"}
  /\ lane.step = "free"
  /\ lane' = [FreeLane EXCEPT !.issue = i, !.step = FirstStep(i)]
  /\ UNCHANGED <<run, planFlow, cleanup, flow, ensure, pc, aborted, waveOk,
                 fin, branch, approved>>

LaneAt(step) == flow = "running" /\ lane.step = step

LaneTo(step) == lane' = [lane EXCEPT !.step = step] /\ UNCHANGED <<pc, waveOk>>

\* The claim's outcome is settled; `goOn' is what the wave loop gets.
LeaveLane(goOn) ==
  /\ lane' = FreeLane
  /\ pc' = [pc EXCEPT ![lane.issue] = "finished"]
  /\ waveOk' = (waveOk /\ goOn)

\* A report that cannot be recorded goes to settleIssueOutcome, a settlement
\* that cannot be recorded ends the wave.
Refuse == IF lane.path = "report" THEN LaneTo("rejected") ELSE LeaveLane(FALSE)

\* The CHECKPOINT reviewer answers.  The answer counts only if the review was
\* not aborted and the claim still stands.
CheckpointReturns(verdict) ==
  /\ LaneAt("checkpoint")
  /\ IF lane.aborted \/ run.status # "EXECUTING" \/ ~Holds(lane.issue)
     THEN LeaveLane(TRUE)
     ELSE /\ lane' = [lane EXCEPT !.step = "verdict", !.verdict = verdict]
          /\ UNCHANGED <<pc, waveOk>>
  /\ UNCHANGED <<run, planFlow, cleanup, flow, ensure, aborted, fin, branch,
                 approved>>

\* failCheckpointReview: the reviewer or its Git preparation failed.
CheckpointFails ==
  /\ "reviewer" \in Faults
  /\ LaneAt("checkpoint")
  /\ IF lane.aborted
     THEN LeaveLane(TRUE) /\ UNCHANGED run
     ELSE /\ LaneTo("rejected")
          /\ run' = IF run.status # "EXECUTING" THEN run
                    ELSE [Moved(run, "FAILED") EXCEPT
                            !.exec[lane.issue] =
                              IF Holds(lane.issue) THEN "pending" ELSE @]
  /\ UNCHANGED <<planFlow, cleanup, flow, ensure, aborted, fin, branch,
                 approved>>

CheckpointReview(next) == [stage |-> "CHECKPOINT", next |-> next]

\* The durable PASS; a no-op write if the claim was reset meanwhile.
CheckpointPasses ==
  /\ LaneAt("verdict") /\ lane.verdict = "PASS"
  /\ LaneTo("marking")
  /\ IF run.status = "EXECUTING" /\ Holds(lane.issue)
     THEN /\ run' = [run EXCEPT !.review = CheckpointReview("CONTINUE")]
          /\ approved' = approved \cup {lane.issue}
     ELSE UNCHANGED <<run, approved>>
  /\ UNCHANGED <<planFlow, cleanup, flow, ensure, aborted, fin, branch>>

\* Mutant: a CHECKPOINT FIX is not counted as a review cycle.
CheckpointAsksFix_Uncounted ==
  /\ LaneAt("verdict") /\ lane.verdict = "FIX" /\ ~LimitReached
  /\ LeaveLane(TRUE)
  /\ run' = [run EXCEPT !.exec[lane.issue] =
                          IF @ = "running" THEN "pending" ELSE @,
                        !.review = CheckpointReview("FIX")]
  /\ UNCHANGED <<planFlow, cleanup, flow, ensure, aborted, fin, branch,
                 approved>>

\* applyCheckpointRevision, FIX within the limit: the issue goes back to
\* pending with its worktree, whatever the run's status is by now.
CheckpointAsksFix ==
  /\ LaneAt("verdict") /\ lane.verdict = "FIX" /\ ~LimitReached
  /\ LeaveLane(TRUE)
  /\ run' = [run EXCEPT !.exec[lane.issue] =
                          IF @ = "running" THEN "pending" ELSE @,
                        !.review = CheckpointReview("FIX"),
                        !.cycles = CountCycle]
  /\ UNCHANGED <<planFlow, cleanup, flow, ensure, aborted, fin, branch,
                 approved>>

AbortedByReplan == ExecutorsAborted

\* applyCheckpointRevision, REPLAN within the limit: back to PLANNING, the
\* wave is aborted and its clean-up scheduled.
CheckpointAsksReplan ==
  /\ LaneAt("verdict") /\ lane.verdict = "REPLAN" /\ ~LimitReached
  /\ IF CanTransition(run.status, "PLANNING")
     THEN /\ LeaveLane(TRUE)
          /\ run' = [Moved(run, "PLANNING") EXCEPT
                       !.exec = ResetRunning(run.exec),
                       !.review = CheckpointReview("REPLAN"),
                       !.cycles = CountCycle,
                       !.planDone = FALSE, !.replanEntry = TRUE]
          /\ cleanup' = "replan"
          /\ aborted' = AbortedByReplan
     ELSE LaneTo("rejected") /\ UNCHANGED <<run, cleanup, aborted>>
  /\ UNCHANGED <<planFlow, flow, ensure, fin, branch, approved>>

\* applyCheckpointRevision at the limit: a human has to decide.
CheckpointAtLimit ==
  /\ LaneAt("verdict") /\ lane.verdict \in {"FIX", "REPLAN"} /\ LimitReached
  /\ IF CanTransition(run.status, "WAITING_DECISION")
     THEN /\ LeaveLane(TRUE)
          /\ run' = [Moved(run, "WAITING_DECISION") EXCEPT
                       !.exec = ResetRunning(run.exec),
                       !.review = CheckpointReview(lane.verdict),
                       !.cycles = CountCycle]
          /\ aborted' = ExecutorsAborted
     ELSE LaneTo("rejected") /\ UNCHANGED <<run, aborted>>
  /\ UNCHANGED <<planFlow, cleanup, flow, ensure, fin, branch, approved>>

MergeStatuses ==
  IF lane.path = "report" THEN {"EXECUTING"} ELSE {"EXECUTING", "FAILED"}

MarkerValid == run.status \in MergeStatuses /\ Holds(lane.issue)

\* trySetMergeMarker: the durable marker that holds off control actions.
SetMergeMarker ==
  /\ LaneAt("marking")
  /\ MarkerValid => ~run.merging
  /\ IF MarkerValid
     THEN run' = [run EXCEPT !.merging = TRUE] /\ LaneTo("merging")
     ELSE Refuse /\ UNCHANGED run
  /\ UNCHANGED <<planFlow, cleanup, flow, ensure, aborted, fin, branch,
                 approved>>

\* The marker stayed busy for all forty attempts.
MergeMarkerBusy ==
  /\ LaneAt("marking")
  /\ MarkerValid
  /\ run.merging
  /\ Refuse
  /\ UNCHANGED <<run, planFlow, cleanup, flow, ensure, aborted, fin, branch,
                 approved>>

\* The issue branch is committed and merged under the repository's lock.
MergeSucceeds ==
  /\ LaneAt("merging")
  /\ branch' = branch \cup {lane.issue}
  /\ LaneTo("recordOk")
  /\ UNCHANGED <<run, planFlow, cleanup, flow, ensure, aborted, fin, approved>>

\* A Git command failed: the WorktreeError's message starts with `taskflow:',
\* so mergeIssueIfNeeded rethrows it and the marker stays set.
MergeFails ==
  /\ "merge" \in Faults
  /\ LaneAt("merging")
  /\ Refuse
  /\ UNCHANGED <<run, planFlow, cleanup, flow, ensure, aborted, fin, branch,
                 approved>>

\* The record of a claim that ended as `to' on run r.
Recorded(r, i, to) == [r EXCEPT !.exec[i] = to, !.merging = FALSE]

\* The write of a merged outcome: the last issue sends the run to its review.
\* A settlement leaves the run's status alone.
RecordDone ==
  /\ LaneAt("recordOk")
  /\ LET done == Recorded(run, lane.issue, "done")
         gate == lane.path = "report" /\ AllDone(done.exec)
     IN  IF ~Holds(lane.issue)
            \/ (gate /\ ~CanTransition(run.status, "INTEGRATION_REVIEW"))
         THEN Refuse /\ UNCHANGED <<run, fin>>
         ELSE /\ LeaveLane(TRUE)
              /\ run' = IF gate THEN Moved(done, "INTEGRATION_REVIEW")
                        ELSE done
              /\ fin' = IF gate THEN FinAfter(run') ELSE fin
  /\ UNCHANGED <<planFlow, cleanup, flow, ensure, aborted, branch, approved>>

\* The write of a failed outcome: a report moves the run to FAILED.
RecordFailed ==
  /\ LaneAt("recordFail")
  /\ IF ~Holds(lane.issue)
        \/ (lane.path = "report" /\ ~CanTransition(run.status, "FAILED"))
     THEN Refuse /\ UNCHANGED run
     ELSE /\ LeaveLane(FALSE)
          /\ run' = Recorded(IF lane.path = "report" THEN Moved(run, "FAILED")
                             ELSE run, lane.issue, "failed")
  /\ UNCHANGED <<planFlow, cleanup, flow, ensure, aborted, fin, branch,
                 approved>>

\* settleIssueOutcome after a refused report: only a FAILED run that still
\* counts the issue as running is settled.  An unreviewed success goes back
\* to pending; without automatic review it is merged; a failure is recorded.
Settle ==
  /\ LaneAt("rejected")
  /\ LET succeeded == pc[lane.issue] = "succeeded"
     IN  IF run.status # "FAILED" \/ ~Holds(lane.issue)
         THEN LeaveLane(FALSE) /\ UNCHANGED run
         ELSE IF succeeded /\ AutoReview
         THEN /\ LeaveLane(TRUE)
              /\ run' = Recorded(run, lane.issue, "pending")
         ELSE /\ lane' = [lane EXCEPT !.path = "settle",
                            !.step = IF succeeded THEN "marking"
                                     ELSE "recordFail"]
              /\ UNCHANGED <<run, pc, waveOk>>
  /\ UNCHANGED <<planFlow, cleanup, flow, ensure, aborted, fin, branch,
                 approved>>

\* Every claim of the wave is settled: go on, or end the flow.
EndWave ==
  /\ flow = "running"
  /\ \A i \in Issues : pc[i] \in {"idle", "finished"}
  /\ pc' = [i \in Issues |-> "idle"]
  /\ aborted' = [i \in Issues |-> FALSE]
  /\ IF waveOk THEN flow' = "claiming" /\ UNCHANGED ensure ELSE FlowEnds
  /\ UNCHANGED <<run, planFlow, cleanup, waveOk, lane, fin, branch, approved>>

ClaimSystem(i) ==
  \/ PrepareWorktree(i)
  \/ PreparationStops(i)
  \/ WorktreeFails(i)
  \/ TakeSlot(i)
  \/ \E outcome \in {"succeeded", "broke"} : ExecutorReturns(i, outcome)
  \/ EnterLane(i)

LaneSystem ==
  \/ \E v \in {"PASS", "FIX", "REPLAN"} : CheckpointReturns(v)
  \/ CheckpointFails
  \/ CheckpointPasses
  \/ CheckpointAsksFix
  \/ CheckpointAsksReplan
  \/ CheckpointAtLimit
  \/ SetMergeMarker
  \/ MergeMarkerBusy
  \/ MergeSucceeds
  \/ MergeFails
  \/ RecordDone
  \/ RecordFailed
  \/ Settle

ExecutionSystem ==
  \/ ExecutionStarted
  \/ BaseCaptureFails
  \/ EnsureFlow
  \/ ClaimWave
  \/ StartWave
  \/ EndWave
  \/ \E i \in Issues : ClaimSystem(i)
  \/ LaneSystem

=============================================================================
