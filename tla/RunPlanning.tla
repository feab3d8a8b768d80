---------------------------- MODULE RunPlanning ----------------------------
(***************************************************************************)
(* plan(), runPlanningBody() and the clean-up that precedes a fresh plan.  *)
(***************************************************************************)
EXTENDS RunRecord

notPlanning == <<ensure, pc, aborted, waveOk, lane, fin>>

\* POST /plan.  A request that arrives while a replan is being cleaned up
\* waits for it; one that finds a flow in flight joins it and changes nothing.
PlanRequest ==
  /\ "plan" \in UserCommands
  /\ cleanup # "replan"
  /\ run.status \in {"RECEIVED", "PLANNING"}
  /\ ~run.planDone
  /\ planFlow = "none"
  /\ planFlow' = IF run.status = "RECEIVED" THEN "starting" ELSE "planning"
  /\ UNCHANGED <<run, cleanup, flow, notPlanning, branch, approved>>

\* The durable RECEIVED -> PLANNING write of plan(); the planner body starts
\* in its continuation.
PlanStarted ==
  /\ planFlow = "starting"
  /\ IF CanTransition(run.status, "PLANNING")
     THEN /\ run' = Moved(run, "PLANNING")
          /\ planFlow' = "planning"
     ELSE /\ planFlow' = "none"
          /\ UNCHANGED run
  /\ UNCHANGED <<cleanup, flow, notPlanning, branch, approved>>

\* Mutant: the executions of the abandoned plan survive the new one.
Published_Keeping(r) ==
  [Moved(r, "READY") EXCEPT
     !.planned = TRUE, !.worktree = NoWorktree, !.review = NoReview,
     !.base = FALSE, !.merging = FALSE, !.planDone = TRUE]

\* The record a validated plan is published with.
Published(r) ==
  [Moved(r, "READY") EXCEPT
     !.planned = TRUE, !.exec = AllPending, !.worktree = NoWorktree,
     !.review = NoReview, !.base = FALSE, !.merging = FALSE,
     !.planDone = TRUE]

\* Mutant: a published plan is executed without asking.
StartsAtOnce_Always == TRUE

StartsAtOnce == ~RequirePermission

\* The planner returned a valid plan for a run that is still PLANNING.  With
\* requireExecutionPermission the next write asks for permission; otherwise
\* startExecution begins at once.
PlanPublished ==
  /\ planFlow = "planning"
  /\ run.status = "PLANNING"
  /\ run' = Published(run)
  /\ approved' = {}
  /\ IF StartsAtOnce
     THEN /\ planFlow' = "none"
          /\ flow' = IF flow = "none" THEN "starting" ELSE flow
     ELSE planFlow' = "permission" /\ UNCHANGED flow
  /\ UNCHANGED <<cleanup, notPlanning, branch>>

\* The planner failed, or its plan was rejected.
PlannerFails ==
  /\ "planner" \in Faults
  /\ planFlow = "planning"
  /\ run.status = "PLANNING"
  /\ run' = Moved(run, "FAILED")
  /\ planFlow' = "none"
  /\ UNCHANGED <<cleanup, flow, notPlanning, branch, approved>>

\* The planner's answer reaches a run that has left PLANNING: discarded.
PlannerStale ==
  /\ planFlow = "planning"
  /\ run.status # "PLANNING"
  /\ planFlow' = "none"
  /\ UNCHANGED <<run, cleanup, flow, notPlanning, branch, approved>>

\* The WAITING_PERMISSION write queued right behind the READY one.  If a
\* command committed in between made it illegal, the body's catch records the
\* run as FAILED where the table allows that.
PermissionAsked ==
  /\ planFlow = "permission"
  /\ planFlow' = "none"
  /\ run' = IF CanTransition(run.status, "WAITING_PERMISSION")
              THEN Moved(run, "WAITING_PERMISSION")
            ELSE IF CanTransition(run.status, "FAILED")
              THEN Moved(run, "FAILED")
            ELSE run
  /\ UNCHANGED <<cleanup, flow, notPlanning, branch, approved>>

\* Mutant: the clean-up does not wait for the wave loop to stop.
ReplanMayCleanUp_AtOnce == TRUE

ReplanMayCleanUp == flow = "none"

\* removeIntegrationBranch: what may be on the branch after `git branch -D'.
\* A refused or killed command is not noticed, and its caller goes on.
Removal == IF "removal" \in Faults THEN {{}, branch} ELSE {{}}

\* Mutant: the abandoned plan's integration branch survives the clean-up.
BranchAfterCleanup_Kept == {branch}

\* cleanupRunGit removes the run's own integration branch, when it has one.
BranchAfterCleanup == IF run.base THEN Removal ELSE {branch}

\* scheduleReplan: once the wave loop has stopped, remove the abandoned
\* plan's Git state, then plan afresh if the run is still PLANNING.
ReplanCleanup ==
  /\ cleanup = "replan"
  /\ ReplanMayCleanUp
  /\ cleanup' = "none"
  /\ branch' \in BranchAfterCleanup
  /\ planFlow' = PlanFlowAfter(run)
  /\ UNCHANGED <<run, flow, notPlanning, approved>>

\* decideHuman(rework): the branch removal it awaits before it plans again.
ReworkCleanup ==
  /\ cleanup = "rework"
  /\ cleanup' = "none"
  /\ branch' \in Removal
  /\ planFlow' = PlanFlowAfter(run)
  /\ UNCHANGED <<run, flow, notPlanning, approved>>

PlanningSystem ==
  \/ PlanStarted
  \/ PlanPublished
  \/ PlannerFails
  \/ PlannerStale
  \/ PermissionAsked
  \/ ReplanCleanup
  \/ ReworkCleanup

=============================================================================
