# TLA+ models of dsh-taskflow

dsh-taskflow takes a software request, lets Codex plan it into issues, executes
the issues in Git worktrees, reviews them, merges them into an integration
branch and asks a human to accept the result. This directory models the parts
of it that are hard to test: what happens when planning, execution, review,
user commands, Git and host restarts interleave.

Everything is a translation of the TypeScript under `src/src`. File and line
references in comments are relative to it (`service.ts:1476`). `PROJECT.json`
maps each definition to its lines.

```
tlc -workers 2 -config MCRunCore.cfg MCTaskflowRun     # model-check
tlapm TaskflowRunProofs.tla                            # check proofs
```

## The system

The plugin is one single-threaded Node process. "Concurrency" means: code runs
to its next `await`, and between two awaits anything else may run. The durable
state is a ledger of *run aggregates*; every change of a run is one
`repository.updateRun`, an atomic read-modify-write that is enqueued on the
storage domain's write chain and commits in order, while `getRun` reads what
has committed. Everything else (flows in flight, abort controllers, locks,
slots, timers) is memory and is lost when the host stops.

| part | state | operations | interacts through |
|---|---|---|---|
| lifecycle table (`state.ts`) | status of a run | `assertTransition` | consulted by every writer |
| planning (`service.ts` 843-953, 2352-2413, 2548-2597) | `planFlows`, `startingTransitions`, `activePlanning`, `replanFlows` | `plan`, `runPlanningBody`, `scheduleReplan`, `cleanupRunGit` | writes READY/FAILED; starts execution |
| execution (982-1660, 1735-2000) | `execFlows`, `ensureFlows`, `activeExecutions`, executions of the record, the merge marker | `startExecution`, wave loop, claims, `reportResult`, CHECKPOINT review, merge, `settleIssueOutcome` | locks and slots, worktrees, executor |
| final review (1662-1728, 2040-2290) | `reviewFlows`, `activeReviews` | `startReview`, `runReviewBody`, rework closure | writes AWAITING_HUMAN/EXECUTING/PLANNING/... |
| user control and recovery (500-715, 731-812, 2455-2550) | `control` of the record | `command` (pause, resume, release, takeover, retry, cancel), `decideHuman`, `resumeAutomation` | aborts flows, restarts them |
| slots and locks (1841, 2599-2656) | promise tails, waiters | `withOutcomeLock`, `withCheckpointLock`, `withMergeLock`, `withExecutorSlot` | all runs of the host |
| Codex adapters (`planner.ts`, `reviewer.ts`, `issue-executor.ts`) | child process, timers, listeners | `spawnCodexProcess.run`, attempts | abort signals |
| plans (`dag.ts`, 2296, 2735) | none | `validatePlan`, `normalizePlannedIssues`, `topologicalOrder` | planning, claims |
| ledger (`repository.ts`, 338-400, 716-733) | runs, `submitTail` | `submit`, `deleteRun`, run numbers | write chain |
| worktree manager (`worktree.ts`) | branches, worktrees (in Git) | `createIssueWorktree`, `commitWorktreeEdits`, `mergeIssueWorktree`, `removeIssueWorktree`, `removeIntegrationBranch` | Git; called by claims, reviews, outcomes, replans |
| events (`service.ts` 816-828, 2668-2677, 2782-2797; `index.ts` 738-794) | the events of each run; per subscription, what it has seen | `appendEvent`, `notify`, `emitEvent`, `subscribeEvents`, `handleEvents` | written with the run; read by browsers |
| browser client (`client/TaskFlowStatus.tsx`) | what is shown, the poll in flight, two event streams | `useJsonPoll`, `useSseRefresh`, `useRunSse`, `openRun`, `closeRun`, actions | HTTP |
| team board mirror (`team-board-sync.ts`) | known task ids, running and pending flags | `createTeamBoardSync`, `syncTaskflowToTeamBoard` | notified by the ledger; calls the team board |
| HTTP plugin, board, snapshots, settings page, CLI bridge | projections, configuration | read-only for runs, or forwarding one operation | - |

Hard behaviours, and what makes each part correct, are the `hazards` of
`PROJECT.json`; in short: merges and their ledger records are three awaits
apart; a reviewer or executor answers minutes after the run was read; commands,
failures of siblings and restarts fall in between; processes hang; slots and
locks are hand-written; numbers are read before the write that uses them; Git
keeps what a stopped host left half done; and events, screens and the team
board follow the ledger at a distance.

## Modules

```
RunStatus ── RunRecord ─┬─ RunPlanning ───┐
                        ├─ RunExecution ──┤
                        ├─ RunFinalReview ┼─ TaskflowRun ── MCTaskflowRun
                        └─ RunControl ────┘       └─ TaskflowRunProofs
                                                        └─ RunGuaranteesProofs
RunContract                           (TaskflowRun implements RunContract)
ServiceLocks ─┬─ MCServiceLocks
              └─ ServiceLocksProofs
CodexCall ── CodexCallProofs
Plans ┐
RunStatus ┴─ RunLedger ─┬─ MCRunLedger
                        └─ RunLedgerProofs
IssueWorktrees ─┬─ MCIssueWorktrees
                └─ IssueWorktreesProofs
EventStream ── RunConsole ── RunConsoleProofs
TeamBoardSync ─┬─ MCTeamBoardSync
               └─ TeamBoardSyncProofs
```

**RunStatus** is `state.ts`: the statuses and the table.

**RunRecord** declares the state of one run, shared by the four parts: `run` is
the committed record (status, executions, merge marker, last review, counters),
`planFlow`, `cleanup`, `flow`, `ensure`, `pc`, `aborted`, `lane`, `fin` are the
flows the service has in flight for it, and `branch`/`approved` stand for Git
and for what the durable reviews say. A flow's state names the await it is
suspended in.

**RunPlanning, RunExecution, RunFinalReview, RunControl** have one action per
piece of code between two awaits. A durable write and the synchronous
continuation behind it are one action. `lane` is the claim inside the outcome
and checkpoint locks; each of its steps (reviewing, marking, merging, recording)
is one await. Faults are switched on by `Faults`: a planner, executor, reviewer,
worktree or merge that fails, a `base` head that cannot be captured, the
`removal` of an integration branch that fails unnoticed, and `crash`, a host
that stops and starts again.
`UserCommands` is the set of requests a run may get. With `ClientChecks` a
client only sends what `allowedActions` offered
(`.agents/skills/.../control-run`, "Only use actions present in
run.allowedActions; a stale action can return 409"); without, it sends anything.

**TaskflowRun** composes them and states the properties. **RunContract** is the
abstract specification: two variables, what a submitter may rely on.
`FulfilsContract` maps `status` to `stage` and the done executions of a live
plan to `done`.

**ServiceLocks** is the queueing of claims and reports of *all* runs: the two
per-run locks, the merge lock per repository and the executor semaphore.
TaskflowRun takes their effect for granted (one `lane`, `SlotGrants`); this
module shows that the promise chains and the waiter list provide it. `tail[l]`
is the map entry, `behind[c]` the promise `c` awaits.

**CodexCall** is one call of an adapter with its attempts. A run of a process
is a record: process, armed timers, registered listener, reasons it was killed,
answer. Unlike TaskflowRun it also has the executor's shortcut: `execute()`
rejects at the abort and does not wait for the process to die.

**Plans** has the three pure algorithms as functions, next to reference
definitions that do not follow the code (`Sound`, `SameShape`, `Executable`).
The recursive `visit` of `validatePlan` is a search with an agenda: the visits
that are still to come and the issues that are still to be left, in order, so
that one round (`Searched`) is one call or one return. The while loop of
`topologicalOrder` is a loop over its three variables, one round (`Shifted`) per
issue. Both are recursive functions whose every call is the last.

**RunLedger** has the write chain itself: writes are enqueued and commit later,
so checks on committed state go stale. Submits, deletions and the planning
flows of several runs share it; the rest of each run's life is the action
`MoveOn`, a table move that is not modelled further here. A flow ends with one
write, and with a second one when the first is refused: the catch of
`runPlanningBody` then fails whatever run has the number (`CatchFails`).

**IssueWorktrees** opens what RunExecution and RunPlanning take as one step: the
Git commands of the worktree manager, each an action, between the ledger writes
of the service that surround them. A branch is the set of works (an issue and a
round of its executor) it contains, so a merge is a union and a merge base an
intersection; `out` maps the path of a worktree to the branch checked out in
it. `lane` is the Git sequence a run is in, with the await it is at. `Command`
gives every command its three ends: done, refused, or cut (killed after
`GIT_TIMEOUT_MS`, reported as failed whatever it did). `Restart` loses the lanes
and keeps Git.

**EventStream** is the events of all runs and one connection to them: writes that
commit, notifications that come later or never, the bounded lists, the replay
and the subscription. Subscriptions do not know of each other, hence one.
**RunConsole** puts a browser's view behind it: `useJsonPoll` with the request in
flight and the last one it abandoned. `Init` chooses between the chip and the run
drawer; they share no state, hence one.

**TeamBoardSync** is the mirror, one call of the team board per step. `cycle` is
the closure of a running `syncTaskflowToTeamBoard`; `mirrors` holds those that
were disposed too. The team board is external: its users edit, add and delete
tasks and write their subjects, so they also move, copy and restore the marker of
an issue; its calls fail, and a rejected creation may have happened. `moved` is
the history of the issues whose markers users wrote or wrote over.

Definitions named `X_Something` before `X` are the faulty variants the checks
are tested with: replacing `X` by one of them makes a property fail.

## Runs

| run | instance | what it shows | size |
|---|---|---|---|
| MCRunCore | two independent issues, parallel, FIX and REPLAN, all requests but POST /plan, failing planner, executors, reviewers, base captures | bounded revisions, reviewed merges, done is merged, planner alone, human gate, clean baseline, legal moves, no late executor | 62,300 states |
| MCRunRestart | three issues with a dependency, permission gate on, failing branch removals, restarts anywhere | dependencies, no orphaned issue or marker, release needed, the contract | 248,870 |
| MCRunTableOnly | no automatic review, every fault, clients that check nothing | table and marker alone keep merges exclusive, stopped work aborted, the review gate shut | 131,949 |
| MCRunRest | one issue at a time (the default), every fault but a failing merge and a failing base capture | a run left alone comes to rest | 23,357 |
| MCServiceLocks | two runs of one repository, four claims, an outside report, two slots | locks exclude, slots bounded, no wake-up lost, everybody served | 169,613 |
| MCCodexCall | up to two retries, both adapters | settled runs are clean, no process left, killed is no success, only timeouts retry, nothing starts aborted, the call ends | 4,921 |
| MCRunLedger | two submits, two planning flows, a deletion or move in flight, one stop; all 64 graphs over three issues and seven broken plans | one run per key, runs keep their identity, verdicts, orders and numbering are right, plans go to the run that asked | 3.4 million |
| MCIssueWorktrees | a run of two dependent issues with a second plan, two runs at the same time on shared or own branches, or a run of two parallel issues; one cut command, one stop | no work is lost by a forced removal, a reviewer sees the issue's own work, dependencies are built on, only conflicts and cut commands make a merge fail | 1.4 million |
| MCRunConsole | two run ids, four writes, lists and replay of one event, two clicks or failures | frames in order, none twice, none missing; no refresh lost; the screen catches up | 2.9 million |
| MCTeamBoardSync | two issues with a dependency, two writes, one edit (which may move or copy a marker), one failing call, one reload or restart | no task stands for two issues, no issue has two tasks unless users moved or copied its marker, the team board converges | 1.4 million |
| MCMergeFailure, MCReplanStuck | | two of the disagreements below | - |

**Bounds.** Two issues suffice for every race between siblings and three for a
dependency next to an independent issue; a wave never holds more than
`maxConcurrent` claims. `MaxReviewCycles = 2` (default 3) reaches the limit after
one counted revision and after two. One executor slot makes a claim wait while
another executes. In ServiceLocks two slots with four claims let a woken waiter
find its slot taken; the report contends with claims of its run. In CodexCall two
retries give a first, a middle and a last attempt. In RunLedger each property
relates at most two runs or a run and a write; two submits allow deletion and
reuse of a number. `MaxSubmits`, `MaxAsked`, `MaxWrites`, `MaxStops` and
`MaxReviewCycles` (of the code) are the only bounds on its counters.

In IssueWorktrees every conflict needs two branches that have diverged, every
leftover one stop or one cut command; `MaxRounds` lets an issue be executed again
after a FIX, a retry or a stop where a property is about that. The worlds of
`Together` separate what never meets: dependent issues need one run, the merge
lock two. In RunConsole a list of one event is trimmed by the second, and four
writes allow events before and after a connection, in the middle of a poll and
beyond the list, and a deletion; the events of a reused id need five and are
listed below. In TeamBoardSync two writes give
a notification during a cycle and one after it, `MaxTasks = 5` is more than the
edits, failures and mirrors there are can make necessary.

**Deadlock** is switched off everywhere, since a run, a call or a set of callers
really may be finished; that nobody waits for ever is a liveness property
(`ComesToRest`, `EverybodyServed`, `CallEnds`) instead.

**Fairness.** The event loop runs every ready continuation, so every action that
is the continuation of a settled promise is weakly fair. Planner, reviewer and
executor calls end because CodexCall shows it (`CallEnds`), from weak fairness of
Node timers only: a process owes nothing, it need not end when killed. Git
commands are assumed to end. In RunConsole only the timer and the answers of the
server are fair (`Tick`, `Serve`, `Arrive`), not the event stream: an EventSource
may never connect. In TeamBoardSync notifications and the steps of a cycle are
fair, a failing call counts as an answer. Users and crashes owe nothing. `ComesToRest`
speaks of runs that are left alone from some point on (`Undisturbed`).

**What the runs leave out, and why.** MCRunCore has no POST /plan: during the
branch removal of a `rework` it starts the planner before the branch is gone
(with all `UserActions`, `BaselineIsClean` fails). It also has no failing branch
removal, after which the code plans over the old commits.
MCRunRestart has no `execute` and `retry` from users (`Attended`): the first
overtakes the permission gate, the second races the settlement of the wave's siblings (below).
MCRunTableOnly has no `rework`, which the table accepts from any status that may
move to PLANNING, with a wave in flight. MCRunRest has the requests and faults that
do not lead to a dead end listed below (so no failing merge and no failing base
capture), and one issue at a time because a retry with parallel siblings can orphan
one. In IssueWorktrees the history variable `torn`
exempts a merge or a cleanup that was itself interrupted from
`BuildsOnDependencies` and `OnlyConflictsFail`; in EventStream `reused` exempts
run ids that were given out twice from completeness; in MCTeamBoardSync a
mirror is only replaced while no cycle of it runs (`Overlap = FALSE`), and `moved`
exempts an issue whose marker users moved or copied from having one task only: the
mirror then takes the last task listed, and its extra tasks go one per cycle once
the issue has no card. Each exclusion is a disagreement or a listed
hazard, not a convenience.

## Proofs

TLAPS proves the following for every value of the constants. The theorems of
`RunGuaranteesProofs` are about `Spec /\ ClientChecks`, and the column names what
they assume besides, except for `ContractKept`, which is about the specification of
RunContract, and the five `TableGuards...`, which are about every client and assume
what the column says and nothing else.

| theorem | states | assumptions |
|---|---|---|
| `TaskflowRunProofs!TypeCorrect` | `TypeOK` and `LaneInv` | none |
| `TaskflowRunProofs!StatusAlwaysLegal` | `StatusMoves` | none |
| `TaskflowRunProofs!MergesAreExclusive` | `MergeIsExclusive` | `ClientChecks` |
| `TaskflowRunProofs!MergesAreReviewed` | `NoUnreviewedMerge` | `ClientChecks` |
| `RunGuaranteesProofs!RevisionsHaveALimit` | `RevisionsAreBounded` | - |
| `RunGuaranteesProofs!ReviewedIsComplete` | `ReviewGate` | - |
| `RunGuaranteesProofs!StoppedRunsAreAborted` | `StoppedMeansAborted` | - |
| `RunGuaranteesProofs!StoppedRunsStartNothing` | `NoLateExecutor` | - |
| `RunGuaranteesProofs!PlannersAreAlone` | `PlannerIsAlone` | - |
| `RunGuaranteesProofs!DependenciesComeFirst` | `DependenciesFirst` | - |
| `RunGuaranteesProofs!HumansSeePassedWork` | `HumanSeesFinalPass` | - |
| `RunGuaranteesProofs!RunFulfilsContract` | `FulfilsContract` | - |
| `RunGuaranteesProofs!DoneWorkIsMerged` | `DoneIsMerged` | no POST /plan |
| `RunGuaranteesProofs!ExecutionNeedsRelease` | `NeedsRelease` | no POST /execute |
| `RunGuaranteesProofs!MarkersAreOwned` | `MarkerHasOwner` | `~MarkerKept` |
| `RunGuaranteesProofs!RunningIsOwned` | `RunningHasOwner` | `~MarkerKept`, `~Undercut` |
| `RunGuaranteesProofs!BaselinesAreClean` | `BaselineIsClean` | `~Soiled` |
| `RunGuaranteesProofs!BaseIsCapturedFirst` | `BaseBeforeWork` | `~RequirePermission` |
| `RunGuaranteesProofs!ContractKept` | `ContractHolds` of `ContractSpec` | - |
| `RunGuaranteesProofs!PromisesKept` | `ContractHolds` of the composition | - |
| `RunGuaranteesProofs!TableGuardsMerges` | `MergeIsExclusive` | `TableSuffices` |
| `RunGuaranteesProofs!TableGuardsReviews` | `NoUnreviewedMerge` | `TableSuffices` |
| `RunGuaranteesProofs!TableGuardsTheGate` | `ReviewGate` | `TableSuffices` |
| `RunGuaranteesProofs!TableGuardsTheHuman` | `HumanSeesFinalPass` | `TableSuffices` |
| `RunGuaranteesProofs!TableGuardsStops` | `StoppedMeansAborted` | `TableSuffices` |
| `ServiceLocksProofs!SlotsAreBounded` | `SlotsBounded` | those of the module |
| `ServiceLocksProofs!WakeupsAreKept` | `NoLostWakeup` | those of the module |
| `ServiceLocksProofs!LocksAreExclusive` | `LocksExclude` | those of the module |
| `CodexCallProofs!SettledRunsAreClean` | `SettledIsClean` | `MaxRetries \in Nat` |
| `CodexCallProofs!NobodyIsLeftBehind` | `NoProcessLeftBehind` | same |
| `CodexCallProofs!KilledNeverSucceeds` | `KilledIsNoSuccess` | same |
| `CodexCallProofs!RetriesAreTimeouts` | `OnlyTimeoutsRetry` | same |
| `CodexCallProofs!NothingStartsAborted` | `NoSpawnAfterAbort` | same |
| `RunLedgerProofs!KeysAreUnique` | `OneRunPerKey` | `LedgerAssumption` |
| `RunLedgerProofs!RunsAreNotReplaced` | `RunsKeepTheirIdentity` | same |
| `RunLedgerProofs!PlansAnswerTheirRun` | `PlanAnswersItsRun` | same |
| `RunLedgerProofs!VerdictsAreRight` | `VerdictIsRight` | same |
| `RunLedgerProofs!PlansKeepTheirShape` | `PlanKeepsItsShape` | same |
| `RunLedgerProofs!OrdersAreRight` | `OrderIsRight` | same |
| `RunLedgerProofs!PlansAreCorrect` | `PlansAreRight` | same |
| `RunLedgerProofs!OffersStayRight` | the order of every run of the ledger is right | same |
| `RunLedgerProofs!WholePlansAreOffered` | a plan listed in order is offered whole | same |
| `RunLedgerProofs!TypeCorrect` | `TypeOK` | same |
| `IssueWorktreesProofs!NoWorkIsLost` | `WorkIsKept` | `WorktreesAssumption` |
| `IssueWorktreesProofs!ReviewersSeeTheIssue` | `ReviewSeesOwnWork` | same |
| `IssueWorktreesProofs!WorkBuildsOnDependencies` | `BuildsOnDependencies` | same |
| `IssueWorktreesProofs!MergesFailForAReason` | `OnlyConflictsFail` | same |
| `RunConsoleProofs!StreamsAreFaithful` | `StreamIsFaithful` | `StreamAssumption` |
| `RunConsoleProofs!RefreshesAreKept` | `NoRefreshLost` | same |
| `TeamBoardSyncProofs!IssuesHaveOneTask` | `NoTaskTwice` | `IssuesAssumption`, `~Overlap` |

**TaskflowRun: merges.** `MergeIsExclusive` is not inductive: whether a command
can slip into a merge depends on which flows can exist in which status.
`MergeInv` adds where planning flows, starting flows and FINAL reviews can be
(`PlanFlowInv`, `StartInv`, `FinInv`), and what each step of the lane knows: a
report was allowed when it took the lane (`ReportInv`), a verdict belongs to a
CHECKPOINT review (`VerdictInv`), the marker is set exactly from the marking write
to the record (`MarkInv`). `ClientChecks` is needed here: without it the
table accepts `rework`, and `takeover` in READY, and a flow that started there
meets a merge. How far one gets without it is the subject of the last part of
`RunGuaranteesProofs`.

**TaskflowRun: guarantees.** `RunGuaranteesProofs` goes on from there, one
invariant on top of the other:

1. `RecordInv` - the record alone: only planned runs hold issues, a status says
   which executions may be running, reviewed runs are complete, the lane works on
   an issue that is not done. It gives `ReviewGate`.
2. `ClaimInv` - executors and claims live only in the statuses of a wave, and
   once one of them is aborted no issue is held. It gives `StoppedMeansAborted`
   and `NoLateExecutor`: an abort reaches claims in every state, the slot queue
   included.
3. `QuietInv` - where no executor can be left over. A replan aborts, then waits
   for the wave, then plans; the invariant says of every status in between who may
   still be alive, and gives `PlannerIsAlone`.
4. `DependenciesFirst` is inductive with `ReworkInv`: the issues of a FINAL
   decision take their dependents along.
5. `BranchInv` - what the record calls done is on the branch, and an issue under
   way has nothing there, unless its merge is being recorded. It gives
   `DoneIsMerged`.
6. `OwnerInv`, `OwnershipInv` - the marker has its merge, and a running issue has
   a claim that will report it: in the wave, in its worktree, in the slot queue,
   at the executor, in the lane, or in a start that has not reached it.
7. `BaselineInv` - where the branch must be empty between two plans, and where the
   base has been captured.
8. `PathInv` - a merge of a settlement (after a sibling failed) leaves another
   issue undone, so only a report can finish a plan. With it each action maps to
   an action of RunContract or to a stutter: one step lemma per part. What the
   contract promises then holds of the composition too (`PromisesKept`).
9. `OpenInv` - not on top of the others but beside them, for clients that ignore
   allowedActions (MCRunTableOnly). Such a client resumes, releases and takes over
   runs in any status the table allows, so `RecordInv` and `ClaimInv` are false:
   an EXECUTING run may be complete, or under review. What carries the properties
   is weaker and says more about the code: nobody works on an issue that is done,
   and outside a running wave nobody works (`WantedInv`); so while a plan is complete
   the lane is free, and a reviewer's plan stays complete wherever a control puts
   the run (`CompleteInv`), also across a failure and its retry. A report whose
   claim stands finds the run executing, since each control that leaves EXECUTING
   takes the claims back (`StandingInv`), and an executor that was not aborted
   belongs to an executing run or to one that failed with it at work (`HaltedInv`).
   `TableSuffices` excludes two things, each of which breaks `MergeIsExclusive`,
   `NoUnreviewedMerge`, `ReviewGate` and `StoppedMeansAborted` in MCRunTableOnly when
   it is put back: `rework`, and the wait for permission before a run starts. The
   other guarantees (`DoneIsMerged`, `BaselineIsClean`, `MarkerHasOwner`,
   `FulfilsContract`) fail for such clients, so their theorems keep `ClientChecks`.

Every hypothesis in the table is needed. TLC finds a counterexample without it, and
each is one of the disagreements below: `MarkerKept` (a merge may fail, or a settled
merge without automatic review may lose its host), `Undercut` (a `retry` races the
settlement, or `execute` overtakes the gate), `Soiled` (`plan` during the
clean-up of a rework; a released run, which has no base; a host that stops between
a rework and its clean-up; a branch removal that fails). The third was not known
before the proof of `BaselineIsClean` failed at `CrashRestart`.

`TypeCorrect` states with the types what every later proof starts from, `LaneInv`:
the claim that holds the lane is one of the wave that runs, and its executor has
returned. `RevisionsHaveALimit` says that each time a review sends work back (FIX or
REPLAN, CHECKPOINT or FINAL) it is counted, that the count stays below the limit,
and that only a rework resets it.

**ServiceLocks.** `SlotInv`: `active` counts the executing claims, waiters are
exactly parked callers, each once, and while somebody waits,
`active + woken >= MaxExecutorProcesses`. The last part is what survives barging,
when a newcomer takes the slot a waiter was woken for. `LockInv`: every tail hides
a queue. The proof exhibits, for each lock, the sequence of callers in which each
one awaits its predecessor and the last is the tail; joining appends, leaving
drops the head. Exclusion follows since only the head is not waiting.

**CodexCall.** `RunInv` says what a spawned run may still have armed, `CallInv` that
attempts before the current one timed out and have settled and later ones have
not begun. `KilledIsNoSuccess` needs that a run which was flagged never has its
answer read as a success, in the window between the kill and the exit.

**RunLedger.** The hard part is that checks are made on the committed ledger and
writes land later. `LedgerInv`: the chain holds at most one insertion, for a number
and a key that are free; behind it only a `fail` of some flow may be about that
number. It gives `OneRunPerKey` and, step by step, `RunsKeepTheirIdentity`.
`PlanInv`: a flow has one write under way, which carries the flow's request, and
either plans the run that has its number or one that no plan can be published to.
That is what keeps a plan from a run that reuses the number of a deleted one.
`TypeInv`: a run's number is at most the number of submits that have settled, and
the issue numbers of the ledger are bounded, so that the next plan is numbered
above them. Numbering is not recursive, so `PlanKeepsItsShape` follows by looking
at one issue at a time (`NumberedKeepsShape`). `LedgerAssumption` says that a
planner answers lists, as its output schema does.

**Plans: the search and the order.** What `HasCycle` and `Order` return is proved
for plans of any length, without an induction theorem of the library: those take
an operator, sets do not. A set of numbers that is not empty has a least element
(`LeastNumber`), and a set of states one that is least by a measure (`LeastBy`).
The two searches are loops, and `LoopExists` shows that a loop defines a function
whether or not it ends: the value of a state is that of where its run ends, if it
ends. So what TLC computes and what the prover reasons about is the function the
definition means. `LoopResult` is the rule for loops: an invariant, and two
measures of which each round brings down the first, or keeps it and brings down
the second. For the search these are the number of white issues and the length of
the agenda (`SearchShrinks`); for the order, the number of issues not ordered yet.

The invariant of the search (`Searching`) has five parts: no issue is forgotten; a
grey one is still to be left; black ones need only black ones, and no knot (issues
that all wait for one another) is among them; an issue is left after everything it
needs; and whatever stands on the agenda before an issue that is to be left is
there for one of its dependencies. The last part shows that the search was right
when it finds a grey issue: the issues to be left from the top of the agenda down to it all
wait for one another (`GreyIsInKnot`). The third shows that it was right when it
finds none: an issue that turns black needs only black ones, so it is in no knot
with them (`LeftIsDone`), and in the end all are black. The invariant of the order
(`Ordering`) says that `waits` counts the dependencies of an issue that are not
ordered yet, each as often as it is named, that the queue holds the issues with
none, and that what is ordered comes once and after its needs. When the queue is
empty, the issues left over all wait for one another or for what is missing, and no
ordered issue does (`OrderEnds`). What is published satisfies the hypotheses of
both (`NumberedIsOrderable`); that a run keeps such issues through every later
write (`IssuesStep`) gives `OffersStayRight`. A plan that lists an issue before its
dependency may have issues that are never offered, the disagreement below;
`WholePlansAreOffered` shows that no other plan has.

**IssueWorktrees.** `LaneOK`, `RunOK`: the Git sequence agrees with ledger and
claims. `IssueOK`: where the works of an issue are - on its branch, in its
worktree, or integrated - and that a recorded base is common to both branches.
`DepsOK`: a branch of an issue was made after what it builds on. `OutOK`,
`MergeOK`: what is checked out where, and that a merge which was not torn has
cleaned up. Each command is shown to keep them whether it is done, refused or cut;
the lemmas about frames (`QuietIssue`, `OthersStay`, `Framed`) say once what a
command of one run leaves alone of the others. The proof showed that a merge which
was cut by `GIT_TIMEOUT_MS` is not torn, as the model had it: it is aborted and
reported like a conflict. The exemption by `torn` is now as narrow as that.

**EventStream, RunConsole.** `StreamInv` relates a subscription's `seen` to the
lists: the events of a run have growing numbers; an event not seen yet is newer
than every frame of its run; what notify has reached was seen; and under a number
that was not reused, `seen` is not ahead of the run and whatever was seen since
the connection was sent. So frames come in order, once, and without a gap. That
the emitter takes events run by run in the order of their lists is stated as an
order (`Emissions`, `Replays`), not as a filtered list. `ViewOK`: an answered
request covers every frame handled before its answer is taken, and so does a view
that shows an answer and asks for none; until then the request under way or the
refresh still owed covers them. A pending request is for the path on screen, an
abandoned one is never live.

**TeamBoardSync.** Users may write any marker on any task, so the invariant is one
of the issues they left alone, those not in `moved`. A task of the team board bears
the marker of the issue it was created for, or none, unless both issues are ones
users moved (`Fits`). Of the others, no two tasks claim an issue and no two that
were created for it are in one mirror's charge (`TasksOK`); the mirror knows the
task it is in charge of (`KnownOK`); a listing that was answered still has every
task created for an issue, with a claim at least as strong (`ListedOK`); and
while a cycle creates what was missing, such an issue is claimed by no task but the
one it is bound to (`WritingOK`). Between the answer and the binding users may edit;
for an issue they do not move they can only weaken a claim (`Weaker`). That a
mirror lets no task stand for two issues (`OneToOne`) holds of all issues, moved or
not: a binding goes by the subject, and by what the mirror knew only where the
subject has no marker any more (`BoundOneToOne`).

What stays with TLC, and why:

- liveness (`ComesToRest`, `EverybodyServed`, `CallEnds`, `ScreenCatchesUp`,
  `MirrorConverges`): fairness and ENABLED are beyond the prover;
- `NoTaskTwice` with mirrors that overlap, and the disagreements below, which are
  counterexamples.

Each module has a type invariant; none is among a run's properties, since they say
nothing the stronger invariants would not notice. Those of TaskflowRun and RunLedger
have a theorem, those of ServiceLocks, CodexCall and IssueWorktrees are proved
with the others.

## Disagreements between code and text

With a run that finds them:

1. **MCMergeFailure** - a failed merge is meant to clear the marker
   (service.ts:1436), but its error starts with `taskflow:` and is rethrown first.
2. **MCReplanStuck** - a resumed REPLAN is answered `alreadyPlanned` and stays in
   PLANNING.

Met while modelling, reproducible with the constants given, without a run of
their own:

- With `RequirePermission`, a takeover of a READY run (which the table accepts, and
  allowedActions does not offer) between the READY and the WAITING_PERMISSION write
  makes the second write illegal (service.ts:2396); the run is FAILED out of
  WAITING_PERMISSION, and `retry` sends its unexecuted plan to the FINAL review.
  MCRunTableOnly with `RequirePermission = TRUE`: `ReviewGate`.
- A `resume` of a run that FAILED while planning a REPLAN leads to EXECUTING with the
  abandoned plan, which a client that keeps to allowedActions does not send.
  MCRunTableOnly with `DoneIsMerged`.
- A released run executes without base and integration branch, which domain.ts:48
  says are captured when execution starts: the block at service.ts:1028 is for
  READY runs. MCRunCore with `RequirePermission = TRUE`: `BaseBeforeWork`.
- POST /execute between the READY and the WAITING_PERMISSION write overtakes the
  permission gate (990, 1042). MCRunRestart with all `UserActions`: `NeedsRelease`.
- An accepted plan that lists an issue before its dependency is published with
  that dependency broken (dag.ts:18, service.ts:2764). MCRunLedger:
  `DependenciesSurvive`. `PlanKeepsItsShape` shows that plans listed in order are
  fine.
- A host that stops inside a merge leaves a worktree with the integration branch
  checked out, and every later merge of another issue into it is refused; one that
  stops inside a cleanup leaves an issue's branch of the abandoned baseline, which
  a FINAL FIX finds again (worktree.ts:142), so the issue is redone without its
  dependency's new work. The comment at worktree.ts:223 covers the same issue's
  merge only. MCIssueWorktrees without `~torn`: `OnlyConflictsFail`,
  `BuildsOnDependencies`.
- `taskflow/integration` and `taskflow/integration/<run>` cannot both be branches
  (Git keeps refs as paths): once a run without a `runGit` (released, above) has
  made the shared branch, no run with one of its own can create it (2680), and the
  reverse. Two such runs can also both find the shared branch missing and race
  `git branch`; the loser's claim fails (worktree.ts:116-121).
- Subscriptions remember the last number they were given per run id and are never
  told of a deletion (2791), so the first events of a new run under a reused id
  are not delivered to them. MCRunConsole with
  `MaxWrites = 5` and `StreamIsFaithful` without `\ reused`.
- A mirror that is disposed while its cycle runs goes on writing beside its
  successor: both create the missing tasks, against team-board-sync.ts:84-86.
  MCTeamBoardSync with `Overlap = TRUE`: `NoTaskTwice`.
- A second click on the card of the open drawer empties it (TaskFlowStatus.tsx:261)
  and asks again only if an event came since; otherwise it stays empty until the
  timer fires.
- A run that failed while a sibling merged and then lost its host keeps
  `merging = TRUE` and running executions, because recovery looks at EXECUTING
  only (service.ts:1649, 2464). MCRunTableOnly with `MarkerHasOwner`.
- `retry` can commit before the wave's siblings have settled (1531 against 1548).
  Add `retry` to MCRunRestart: `RunningHasOwner`.
- When the worktree of one claim cannot be created, later claims of the wave
  stay `running` for good (`break` at 1821), against README.md:62 of the
  repository. MCRunRest with `MaxConcurrent = 2` and `Faults = {"worktree"}`:
  `ComesToRest`.
- A rework of a run that was released keeps the abandoned commits (783-785: there
  is no `runGit` to remove). MCRunCore with `RequirePermission = TRUE`.
- A host that stops between the write of a `rework`, which drops `runGit` (768),
  and the removal of the branch (783-790) leaves the abandoned branch, and the next
  plan is published over it, against 733-740 ("without stale state leaking into
  the next cycle"). MCRunCore with `Faults = {"crash"}`: `BaselineIsClean`.
- A `git branch -D` of the integration branch that is refused (a leftover worktree
  has it checked out) or killed goes unnoticed (worktree.ts:256 and the `catch` of
  its callers, service.ts:786-789, 2592-2595): the next plan is published over the
  abandoned commits, against worktree.ts:252-254 and service.ts:784-785 ("so the
  next cycle starts from a clean baseline"). MCRunCore with `"removal"` among its
  `Faults`: `BaselineIsClean`.
- When the head of the repository cannot be read, the start of a published run fails
  (1040, 1063-1071), and the automatic start drops the answer (2398): the run
  stays READY with no flow, and only POST /execute, a cancel or the next start of
  the host helps. MCRunRest with `"base"` among its `Faults`: `ComesToRest`.
- `rework` is accepted outside AWAITING_HUMAN (734) although 752 and the skill
  say otherwise, and neither aborts nor awaits the wave. MCRunTableOnly with all
  `UserActions`: `StoppedMeansAborted`.
- pause, takeover, release leaves `paused = true` on an EXECUTING run (2537).
- Two plans answered together take the same issue numbers (2740), and deleting the
  newest run frees its number and its issues' numbers, although 2735 calls the keys
  globally unique and monotonically increasing. A new run with a reused number
  and key attaches to a leftover branch of the deleted run (worktree.ts:143).
- A run whose PLANNING write is queued is still RECEIVED for `deleteRun` (724), so
  it is deleted under its planning flow, which 717-719 mean to exclude. If the flow
  fails, it fails its number (2406): a run that was received under it meanwhile is
  FAILED without having been planned. MCRunLedger: `PlannerFails` after `Delete`
  and `SubmitJob`.
- `deleteRun` checks the committed status (724); a run whose EXECUTING write is
  queued at that moment is deleted while it starts.
- The abort of an issue executor rejects before its process is dead, so for a
  moment more than `maxExecutorProcesses` processes may exist (2641).
- A FINAL FIX drops the attempt id, so numbering restarts, against 1827.

## Abstractions

Automation is enabled, a repository root is set and the storage backend accepts
writes. Attempt ids, heartbeats, texts, timestamps and transition keys are left
out, except where a decision reads them (`planDone`, the idempotency keys of
submits). The review cycle counter stops at `MaxReviewCycles`, since the code only
ever asks whether it is below, and is counted when the revision is written; the
code reads the limit at the verdict, which differs only for requests the clients
are not offered. An executor that is aborted ends at once in TaskflowRun. Issue
numbers compare as numbers; the padded names do below 1000.

In IssueWorktrees `git status`, `add` and `commit` of one commit are one step,
and texts of conflicts do not matter: branches that diverged may conflict. A
repaired run (manual Git commands between retries) is not considered. In
EventStream the kinds and payloads of events are left out, in TeamBoardSync the
optional owner and a team board without `deleteTask`.

## Not modelled

Agent-driven mode (POST /exec-result, `recordProgress`); the settings page and
the Codex CLI bridge behind it, which start login processes and never touch a
run; the forms and the board popover of the browser client, whose poll is that
of the chip; request parsing, authentication and configuration of the HTTP
plugin, whose other handlers call one operation of the service each; the
projections `snapshotOf` and `runDetail`.

## Plan

Done, in this order: lifecycle and record; planning, execution, review and
control composed; contract; slots and locks; Codex calls; plans and ledger;
worktrees; events and console; team board.

Next, models: agent-driven reports in RunExecution, with attempt ids; the login
terminal of the CLI bridge; IssueWorktrees composed with the merge lock of
ServiceLocks.

Proofs done: TaskflowRun completely, with the refinement of RunContract; the
ledger's identities, types and numbering; every safety invariant of the worktree
manager; the locks; the process calls; events and views; the team board; the
three algorithms on plans. Every safety property of a passing run is a theorem,
under the hypotheses of the table. Those of MCRunTableOnly are theorems twice:
for clients that keep to allowedActions and for those that do not.

Next, proofs: `RunStatus` lemmas shared by the two proof modules of TaskflowRun, so
that the cases of `CrashRestart` and `UserStep` are shorter; the claims of
IssueWorktrees as an implementation of the merge lock of ServiceLocks.
