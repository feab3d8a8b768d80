----------------------------- MODULE RunRecord -----------------------------
(***************************************************************************)
(* The state one run of TaskFlowService is made of, shared by the modules  *)
(* that model its planning, execution, final review and control.           *)
(*                                                                         *)
(* `run' is the durable RunAggregate of the repository: it survives a      *)
(* restart and changes only through updateRun, an atomic read-modify-write,*)
(* so a step that changes it stands for one committed write.  Every other  *)
(* variable is process memory (flows, locks, abort controllers) or, for    *)
(* branch and approved, an observation of Git and of the review history.   *)
(***************************************************************************)
EXTENDS RunStatus, Naturals, FiniteSets

CONSTANTS
  Issues,               \* keys of the issues a published plan contains
  NoIssue,              \* "no issue": the lane is free
  Deps,                 \* Deps[i]: the issues i depends on
  AutoReview,           \* config.autoReview
  RequirePermission,    \* config.requireExecutionPermission
  MaxConcurrent,        \* config.maxConcurrent: issues per run
  MaxExecutorProcesses, \* config.maxExecutorProcesses: executors per host
  MaxReviewCycles,      \* config.maxReviewCycles
  UserCommands,         \* requests and actions the clients send
  ClientChecks,         \* clients send only the actions allowedActions offers
  Faults                \* the failures the environment may produce

FaultKinds == {"planner", "executor", "reviewer", "worktree", "merge",
               "removal", "base", "crash"}

\* POST /plan, /execute and /review; /command; /human-decision.
UserActions ==
  {"plan", "execute", "review", "cancel", "pause", "resume", "takeover",
   "release", "retry", "accept", "rework"}

ASSUME IssuesAssumption ==
  /\ IsFiniteSet(Issues)
  /\ Issues # {}
  /\ NoIssue \notin Issues

ASSUME DepsAssumption == Deps \in [Issues -> SUBSET Issues]

ASSUME ConfigAssumption ==
  /\ AutoReview \in BOOLEAN
  /\ RequirePermission \in BOOLEAN
  /\ ClientChecks \in BOOLEAN
  /\ MaxConcurrent \in Nat \ {0}
  /\ MaxExecutorProcesses \in Nat \ {0}
  /\ MaxReviewCycles \in Nat \ {0}
  /\ UserCommands \subseteq UserActions
  /\ Faults \subseteq FaultKinds

VARIABLES
  run,      \* the durable run record
  planFlow, \* planFlows / startingTransitions: the planning flow
  cleanup,  \* replanFlows, or decideHuman's branch removal, in progress
  flow,     \* executionFlows / startingExecutions: the wave loop
  ensure,   \* an ensureExecutionFlow call is waiting for its turn
  pc,       \* per issue: where its claim is in the current wave
  aborted,  \* per issue: its executor's AbortController has fired
  waveOk,   \* every outcome of the current wave so far lets it go on
  lane,     \* the holder of the run's outcome and checkpoint locks
  fin,      \* the FINAL review flow (reviewFlows)
  branch,   \* issues whose merge is on the run's integration branch
  approved  \* issues whose current attempt has a durable CHECKPOINT PASS

memory == <<planFlow, cleanup, flow, ensure, pc, aborted, waveOk, lane, fin>>
vars == <<run, memory, branch, approved>>

-----------------------------------------------------------------------------
ExecStatus == {"pending", "running", "done", "failed"}

\* What of a RunReview later decisions read: its stage and next action.
Review == [stage : {"none", "CHECKPOINT", "FINAL"},
           next  : {"none", "CONTINUE", "FIX", "REPLAN"}]
NoReview == [stage |-> "none", next |-> "none"]

(***************************************************************************)
(* planned: issues is not empty.  exec: the status of each issue's         *)
(* execution entry (an absent entry is claimed and counted like a pending  *)
(* one).  worktree: the entry carries workDir and branch.  base: baseSha   *)
(* and runGit are set.  planDone: some plan:done transition is newer than  *)
(* every human-rework and review-replan one.  replanEntry: the last        *)
(* transition's reason is review-replan.  failedFrom: the status the last  *)
(* transition to FAILED left (kept only while the run is FAILED).  cycles  *)
(* is control.reviewCycles; the code counts on past MaxReviewCycles, but   *)
(* only ever asks whether that limit is reached, so higher counts are one. *)
(***************************************************************************)
RunRec ==
  [ status : Status, planned : BOOLEAN,
    exec : [Issues -> ExecStatus], worktree : [Issues -> BOOLEAN],
    paused : BOOLEAN, takenOver : BOOLEAN, cycles : 0 .. MaxReviewCycles,
    merging : BOOLEAN, review : Review, base : BOOLEAN,
    planDone : BOOLEAN, replanEntry : BOOLEAN,
    failedFrom : Status \cup {"none"} ]

AllPending == [i \in Issues |-> "pending"]
NoWorktree == [i \in Issues |-> FALSE]

SubmittedRun ==
  [ status |-> "RECEIVED", planned |-> FALSE,
    exec |-> AllPending, worktree |-> NoWorktree,
    paused |-> FALSE, takenOver |-> FALSE, cycles |-> 0,
    merging |-> FALSE, review |-> NoReview, base |-> FALSE,
    planDone |-> FALSE, replanEntry |-> FALSE, failedFrom |-> "none" ]

FreeLane == [issue |-> NoIssue, step |-> "free", path |-> "report",
             verdict |-> "none", aborted |-> FALSE]
IdleReview == [step |-> "idle", verdict |-> "none", rework |-> {},
               aborted |-> FALSE]
Reviewing == [IdleReview EXCEPT !.step = "reviewing"]

-----------------------------------------------------------------------------
(* Reading and rewriting the execution entries. *)

IssuesIn(s) == {i \in Issues : run.exec[i] = s}

Replaced(exec, from, to) ==
  [i \in Issues |-> IF exec[i] = from THEN to ELSE exec[i]]

ResetRunning(exec) == Replaced(exec, "running", "pending")

RetryFailed(exec) == Replaced(exec, "failed", "pending")

\* Mutant: a failed or running issue does not hold the review gate.
AllDone_NonePending(exec) == \A i \in Issues : exec[i] # "pending"

AllDone(exec) == \A i \in Issues : exec[i] = "done"

\* A move of the run to `to' that records why it failed, when it did.
Moved(r, to) ==
  [r EXCEPT !.status = to,
            !.replanEntry = FALSE,
            !.failedFrom = IF to = "FAILED" THEN r.status ELSE "none"]

\* reviewCycles + 1; every count from MaxReviewCycles on is the same.
CountCycle == IF run.cycles < MaxReviewCycles THEN run.cycles + 1
                                              ELSE MaxReviewCycles

LimitReached == run.cycles + 1 >= MaxReviewCycles

-----------------------------------------------------------------------------
(* Effects that several operations share. *)

\* abortRunExecutions: fire every controller executeClaim has registered.
ExecutorsAborted ==
  [i \in Issues |-> aborted[i] \/ pc[i] \in {"slot", "executing"}]

\* plan() on a run in state r: single flight, and only when not planned yet.
PlanFlowAfter(r) ==
  IF planFlow = "none" /\ r.status = "PLANNING" /\ ~r.planDone
  THEN "planning" ELSE planFlow

\* startReview() on a run in state r, called only with automatic review.
FinAfter(r) ==
  IF AutoReview /\ r.status = "INTEGRATION_REVIEW" /\ fin.step = "idle"
  THEN Reviewing ELSE fin

=============================================================================
