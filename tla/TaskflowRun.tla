----------------------------- MODULE TaskflowRun ---------------------------
(***************************************************************************)
(* One automated run of TaskFlowService: planning, execution, FINAL review *)
(* and user control composed, interleaved at the granularity of durable    *)
(* writes and of the awaits between them.                                  *)
(***************************************************************************)
EXTENDS RunPlanning, RunExecution, RunFinalReview, RunControl

\* The run has just been submitted and submit() has called plan().
Init ==
  /\ run = SubmittedRun
  /\ planFlow = "starting"
  /\ cleanup = "none"
  /\ flow = "none"
  /\ ensure = FALSE
  /\ pc = [i \in Issues |-> "idle"]
  /\ aborted = [i \in Issues |-> FALSE]
  /\ waveOk = TRUE
  /\ lane = FreeLane
  /\ fin = IdleReview
  /\ branch = {}
  /\ approved = {}

RequestStep == PlanRequest \/ ExecuteRequest \/ ReviewRequest \/ UserStep

Next ==
  \/ PlanningSystem
  \/ ExecutionSystem
  \/ ReviewSystem
  \/ RequestStep
  \/ CrashRestart

Spec == Init /\ [][Next]_vars

(***************************************************************************)
(* Fairness: the event loop runs every continuation that is ready, the     *)
(* planner, reviewer and executor processes end (they are killed at their  *)
(* timeouts), Git commands end.  Users and crashes owe nothing.            *)
(***************************************************************************)
FairSpec ==
  /\ Spec
  /\ WF_vars(PlanningSystem)
  /\ WF_vars(ExecutionStarted)
  /\ WF_vars(EnsureFlow)
  /\ WF_vars(ClaimWave)
  /\ WF_vars(StartWave)
  /\ WF_vars(EndWave)
  /\ \A i \in Issues : WF_vars(ClaimSystem(i))
  /\ WF_vars(LaneSystem)
  /\ WF_vars(ReviewSystem)

-----------------------------------------------------------------------------
(* Types. *)

TypeOK ==
  /\ run \in RunRec
  /\ planFlow \in {"none", "starting", "planning", "permission"}
  /\ cleanup \in {"none", "replan", "rework"}
  /\ flow \in {"none", "starting", "claiming", "preparing", "running"}
  /\ ensure \in BOOLEAN
  /\ pc \in [Issues -> ClaimPc]
  /\ aborted \in [Issues -> BOOLEAN]
  /\ waveOk \in BOOLEAN
  /\ lane \in LaneRec
  /\ fin \in FinRec
  /\ branch \subseteq Issues
  /\ approved \subseteq Issues

-----------------------------------------------------------------------------
(* Safety. *)

InMerge == lane.step \in {"merging", "recordOk"}

\* From the moment the merge marker is durable until the outcome is recorded,
\* the run stays where the merge was allowed and the merged issue stays
\* running: no control action slips between the Git side effects and the
\* ledger update (service.ts:1453-1456).
MergeIsExclusive ==
  InMerge => /\ run.merging
             /\ run.status \in MergeStatuses
             /\ Holds(lane.issue)

\* With automatic review, work is merged only if the attempt being merged has
\* a durable CHECKPOINT PASS, also when a sibling failed first or when a pause
\* and a resume came between the review and the merge.
NoUnreviewedMerge == AutoReview /\ InMerge => lane.issue \in approved

\* An issue is started, and recorded as done, only after everything it depends
\* on is done; rework takes an issue's dependents back with it.
DependenciesFirst ==
  \A i \in Issues : run.exec[i] \in {"running", "done"} =>
    \A d \in Deps[i] : run.exec[d] = "done"

\* What the ledger of a live plan calls done is on the integration branch.
\* (After a replan the executions of the abandoned plan stay in the record,
\* without their branch, until the new plan replaces them.)
DoneIsMerged ==
  run.status \in {"EXECUTING", "INTEGRATION_REVIEW", "AWAITING_HUMAN",
                  "ACCEPTED"} =>
    \A i \in Issues : run.exec[i] = "done" => i \in branch

\* A run that was stopped, or sent back to planning, has no live executor:
\* every claim still waiting for a slot or executing has been aborted.
StoppedMeansAborted ==
  run.status \notin {"EXECUTING", "FAILED"} =>
    \A i \in Issues : pc[i] \in {"slot", "executing"} => aborted[i]

\* The planner works on a fresh plan only after the executors of the plan it
\* replaces have stopped (README.md:65).
PlannerIsAlone ==
  planFlow = "planning" => \A i \in Issues : pc[i] # "executing"

\* The set merge marker always belongs to a merge in progress.
MarkerHasOwner == run.merging => InMerge

\* Every issue a run under automatic execution counts as running is held by
\* the wave loop: somebody will report it.
RunningHasOwner ==
  run.status = "EXECUTING" /\ ~run.paused =>
    \A i \in Issues : Holds(i) => flow \in {"preparing", "running"}
                                  /\ pc[i] \notin {"idle", "finished"}

\* The review gate: a run under FINAL review, awaiting its human, or accepted
\* has done every issue of its plan.
ReviewGate ==
  run.status \in {"INTEGRATION_REVIEW", "AWAITING_HUMAN", "ACCEPTED"} =>
    run.planned /\ IssuesIn("done") = Issues

\* The human decides on a plan whose last review was a FINAL PASS.
HumanSeesFinalPass ==
  run.status \in {"AWAITING_HUMAN", "ACCEPTED"} =>
    run.review = [stage |-> "FINAL", next |-> "CONTINUE"]

\* While no removal of a branch fails, a plan is published over a clean
\* baseline: the integration branch the next cycle will use holds no commit
\* of an abandoned plan (service.ts:783-785).
BaselineIsClean == run.status = "READY" => branch = {}

\* The integration branch and its base are captured before any issue of a
\* cycle starts (domain.ts:48).
BaseBeforeWork == IssuesIn("running") # {} => run.base

-----------------------------------------------------------------------------
(* Action properties. *)

\* The run only moves along the transition table, and never out of a terminal
\* status.
StatusMoves ==
  [][run'.status # run.status => CanTransition(run.status, run'.status)]_run

\* A reviewer's step that takes work back: it ends in a fresh plan, in a wave
\* after the FINAL review, or in a pending issue of a run still executing.
SentBack ==
  \/ run.status \in {"EXECUTING", "INTEGRATION_REVIEW"}
     /\ run'.status = "PLANNING"
  \/ run.status = "INTEGRATION_REVIEW" /\ run'.status = "EXECUTING"
  \/ /\ run.status = "EXECUTING" /\ run'.status = "EXECUTING"
     /\ \E i \in Issues : Holds(i) /\ run'.exec[i] = "pending"

\* Reviewers send work back fewer than MaxReviewCycles times: whichever
\* review does it, and whatever users and siblings did meanwhile, it is
\* counted, the count stays below the limit, and only a rework resets it.
RevisionsAreBounded ==
  [][/\ SentBack /\ ~UserStep /\ ~CrashRestart =>
          run.cycles < run'.cycles /\ run'.cycles < MaxReviewCycles
     /\ run'.cycles < run.cycles => HumanRework]_vars

\* No executor starts for a run that was paused, cancelled, taken over, or
\* sent back: the control action's abort also reaches queued claims.
NoLateExecutor ==
  [][\A i \in Issues : pc[i] # "executing" /\ pc'[i] = "executing" =>
       run.status \in {"EXECUTING", "FAILED"}]_vars

\* With requireExecutionPermission, a published plan and a run taken over
\* execute only once a human releases them.
NeedsRelease ==
  [][RequirePermission /\ run.status \in {"READY", "WAITING_PERMISSION"}
       /\ run'.status = "EXECUTING" => Release]_vars

-----------------------------------------------------------------------------
(* The contract. *)

Stage ==
  CASE run.status \in {"RECEIVED", "PLANNING"} -> "planning"
    [] run.status \in {"READY", "EXECUTING", "PAUSED", "WAITING_PERMISSION",
                       "WAITING_DECISION"} -> "work"
    [] run.status = "INTEGRATION_REVIEW" -> "review"
    [] run.status = "AWAITING_HUMAN" -> "human"
    [] run.status = "ACCEPTED" -> "accepted"
    [] run.status = "FAILED" -> "failed"
    [] run.status = "CANCELLED" -> "cancelled"

\* A run without a live plan has done nothing, whatever its record still says
\* of the plan it abandoned.
LiveDone ==
  IF \/ run.status \in {"RECEIVED", "PLANNING", "CANCELLED"}
     \/ run.status = "FAILED" /\ run.failedFrom = "PLANNING"
  THEN {} ELSE IssuesIn("done")

Contract == INSTANCE RunContract WITH stage <- Stage, done <- LiveDone

\* Every step of the run, with all its concurrency, is a step of the contract
\* or changes nothing the contract speaks of.
FulfilsContract == Contract!ContractSpec

-----------------------------------------------------------------------------
(* Liveness. *)

\* A run at rest waits for its users, or is over.
AtRest == run.status \in {"RECEIVED", "WAITING_PERMISSION",
                          "WAITING_DECISION", "PAUSED", "AWAITING_HUMAN",
                          "ACCEPTED", "FAILED", "CANCELLED"}

Undisturbed == <>[][~RequestStep /\ ~CrashRestart]_vars

\* If users and crashes leave a run alone from some point on, it comes to
\* rest: revisions are bounded, no wake-up is lost, nothing waits forever.
\* Two failures are left out, since the code schedules nothing after them: a
\* merge that is rejected, and a base that cannot be captured (README.md,
\* Disagreements).
ComesToRest == Undisturbed => <>[]AtRest

=============================================================================
