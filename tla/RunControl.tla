----------------------------- MODULE RunControl ----------------------------
(***************************************************************************)
(* What users do to a run: command(), decideHuman(), and the restart of    *)
(* the host with its recovery (resumePlanning, resumeExecution,            *)
(* resumeAutomation).                                                      *)
(***************************************************************************)
EXTENDS RunRecord

\* allowedActions: what the service tells its clients they may do.
AllowedActions ==
  CASE run.status \in {"RECEIVED", "PLANNING", "READY", "INTEGRATION_REVIEW"}
         -> {"cancel"}
    [] run.status = "AWAITING_HUMAN" -> {"accept", "rework", "cancel"}
    [] run.status = "WAITING_DECISION" -> {"resume", "cancel"}
    [] run.status = "EXECUTING" ->
         {"pause", "cancel", "takeover"}
           \cup (IF IssuesIn("failed") # {} THEN {"retry"} ELSE {})
    [] run.status = "PAUSED" -> {"resume", "cancel", "takeover"}
    [] run.status = "WAITING_PERMISSION" -> {"release", "cancel"}
    [] run.status = "FAILED" -> {"retry"}
    [] OTHER -> {}

\* Mutant: a control action is accepted while a merge is in progress.
MergeHoldsOff_Never == FALSE

MergeHoldsOff == run.merging

\* With ClientChecks, a client only sends what allowedActions listed.
Sent(action) ==
  /\ action \in UserCommands
  /\ ClientChecks => action \in AllowedActions

\* What command() requires of every control action.
Accepts(command) == Sent(command) /\ ~MergeHoldsOff

\* The post-commit pass of cancel, pause and takeover: abort the executors
\* and the active review.
AbortedByControl_None == aborted

AbortedByControl == ExecutorsAborted

AbortsWork ==
  /\ aborted' = AbortedByControl
  /\ lane' = [lane EXCEPT !.aborted = @ \/ lane.step = "checkpoint"]
  /\ fin' = [fin EXCEPT !.aborted = @ \/ fin.step # "idle"]

Cancel ==
  /\ Accepts("cancel")
  /\ CanTransition(run.status, "CANCELLED")
  /\ run' = [Moved(run, "CANCELLED") EXCEPT
               !.exec = ResetRunning(run.exec),
               !.paused = FALSE, !.takenOver = FALSE]
  /\ AbortsWork
  /\ UNCHANGED <<planFlow, cleanup, flow, ensure, pc, waveOk, branch,
                 approved>>

PausedExec == ResetRunning(run.exec)

Pause ==
  /\ Accepts("pause")
  /\ CanTransition(run.status, "PAUSED")
  /\ run' = [Moved(run, "PAUSED") EXCEPT !.exec = PausedExec,
                                         !.paused = TRUE]
  /\ AbortsWork
  /\ UNCHANGED <<planFlow, cleanup, flow, ensure, pc, waveOk, branch,
                 approved>>

Takeover ==
  /\ Accepts("takeover")
  /\ CanTransition(run.status, "WAITING_PERMISSION")
  /\ run' = [Moved(run, "WAITING_PERMISSION") EXCEPT
               !.exec = ResetRunning(run.exec), !.takenOver = TRUE]
  /\ AbortsWork
  /\ UNCHANGED <<planFlow, cleanup, flow, ensure, pc, waveOk, branch,
                 approved>>

Resume ==
  /\ Accepts("resume")
  /\ LET replan == run.status = "WAITING_DECISION" /\ run.review.next = "REPLAN"
         to == IF replan THEN "PLANNING" ELSE "EXECUTING"
     IN  /\ CanTransition(run.status, to)
         /\ run' = [Moved(run, to) EXCEPT !.paused = FALSE]
         /\ IF replan
            THEN /\ cleanup' = "replan"
                 /\ aborted' = ExecutorsAborted
                 /\ UNCHANGED ensure
            ELSE /\ ensure' = TRUE
                 /\ UNCHANGED <<cleanup, aborted>>
  /\ UNCHANGED <<planFlow, flow, pc, waveOk, lane, fin, branch, approved>>

Release ==
  /\ Accepts("release")
  /\ CanTransition(run.status, "EXECUTING")
  /\ run' = [Moved(run, "EXECUTING") EXCEPT !.takenOver = FALSE]
  /\ ensure' = TRUE
  /\ UNCHANGED <<planFlow, cleanup, flow, pc, aborted, waveOk, lane, fin,
                 branch, approved>>

\* retryTarget: the phase a FAILED run goes back to.
RetryTarget ==
  IF run.failedFrom \in {"PLANNING", "INTEGRATION_REVIEW", "EXECUTING"}
    THEN run.failedFrom
  ELSE IF IssuesIn("failed") # {} THEN "EXECUTING"
  ELSE IF ~run.planned THEN "PLANNING"
  ELSE "INTEGRATION_REVIEW"

\* retry of an EXECUTING run puts its failed issues back to pending.
RetryIssues ==
  /\ Accepts("retry")
  /\ run.status = "EXECUTING"
  /\ IssuesIn("failed") # {}
  /\ run' = [run EXCEPT !.exec = RetryFailed(run.exec)]
  /\ ensure' = TRUE
  /\ UNCHANGED <<planFlow, cleanup, flow, pc, aborted, waveOk, lane, fin,
                 branch, approved>>

\* retry of a FAILED run re-enters the phase that failed and restarts it.
RetryRun ==
  /\ Accepts("retry")
  /\ run.status = "FAILED"
  /\ LET to == RetryTarget
     IN  /\ run' = [Moved(run, to) EXCEPT
                      !.exec = IF to = "EXECUTING" THEN RetryFailed(run.exec)
                               ELSE run.exec]
         /\ ensure' = (ensure \/ to = "EXECUTING")
         /\ planFlow' = IF cleanup = "replan" THEN planFlow
                        ELSE PlanFlowAfter(run')
         /\ fin' = FinAfter(run')
  /\ UNCHANGED <<cleanup, flow, pc, aborted, waveOk, lane, branch, approved>>

HumanAccept ==
  /\ Sent("accept")
  /\ CanTransition(run.status, "ACCEPTED")
  /\ run' = Moved(run, "ACCEPTED")
  /\ UNCHANGED <<memory, branch, approved>>

\* rework forgets the executions, the review, the baseline and the control
\* flags; if the run had its own integration branch, removing it comes before
\* the new plan.  Only the transition table restricts where it applies.
HumanRework ==
  /\ Sent("rework")
  /\ CanTransition(run.status, "PLANNING")
  /\ run' = [Moved(run, "PLANNING") EXCEPT
               !.exec = AllPending, !.worktree = NoWorktree,
               !.review = NoReview, !.base = FALSE, !.planDone = FALSE,
               !.paused = FALSE, !.takenOver = FALSE, !.cycles = 0]
  /\ IF run.base
     THEN cleanup' = "rework" /\ UNCHANGED planFlow
     ELSE planFlow' = PlanFlowAfter(run') /\ UNCHANGED cleanup
  /\ UNCHANGED <<flow, ensure, pc, aborted, waveOk, lane, fin, branch,
                 approved>>

-----------------------------------------------------------------------------
(* Restart. *)

\* Mutant: recovery leaves the merge marker of an interrupted merge set.
RecoveredRecord_Marked ==
  IF run.status = "EXECUTING" /\ run.planned
    THEN [run EXCEPT !.exec = ResetRunning(run.exec)]
  ELSE IF run.status = "READY" /\ RequirePermission
    THEN Moved(run, "WAITING_PERMISSION")
  ELSE run

\* Mutant: recovery does not put interrupted issues back to pending.
RecoveredRecord_Running ==
  IF run.status = "EXECUTING" THEN [run EXCEPT !.merging = FALSE]
  ELSE IF run.status = "READY" /\ RequirePermission
    THEN Moved(run, "WAITING_PERMISSION")
  ELSE run

\* The record once the first writes of recovery have committed: they are
\* queued before the host serves any request.
RecoveredRecord ==
  IF run.status = "EXECUTING"
    THEN [run EXCEPT !.exec = ResetRunning(run.exec), !.merging = FALSE]
  ELSE IF run.status = "READY" /\ RequirePermission
    THEN Moved(run, "WAITING_PERMISSION")
  ELSE run

\* The host stops at any point and starts again: memory is lost, and each
\* recovery routine restarts what the record says was in progress.
CrashRestart ==
  /\ "crash" \in Faults
  /\ run' = RecoveredRecord
  /\ planFlow' = IF run.status = "PLANNING" /\ ~run.replanEntry
                    /\ ~run.planDone
                 THEN "planning" ELSE "none"
  /\ cleanup' = IF run.status = "PLANNING" /\ run.replanEntry
                THEN "replan" ELSE "none"
  /\ flow' = CASE run.status = "EXECUTING" /\ run.planned -> "claiming"
               [] run.status = "READY" /\ ~RequirePermission -> "starting"
               [] OTHER -> "none"
  /\ ensure' = FALSE
  /\ pc' = [i \in Issues |-> "idle"]
  /\ aborted' = [i \in Issues |-> FALSE]
  /\ waveOk' = TRUE
  /\ lane' = FreeLane
  /\ fin' = IF run.status = "INTEGRATION_REVIEW" /\ AutoReview
            THEN Reviewing ELSE IdleReview
  /\ UNCHANGED <<branch, approved>>

UserStep ==
  \/ Cancel
  \/ Pause
  \/ Takeover
  \/ Resume
  \/ Release
  \/ RetryIssues
  \/ RetryRun
  \/ HumanAccept
  \/ HumanRework

=============================================================================
