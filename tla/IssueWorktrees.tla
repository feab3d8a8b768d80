--------------------------- MODULE IssueWorktrees ---------------------------
(***************************************************************************)
(* The worktree manager (worktree.ts) and the parts of TaskFlowService     *)
(* that call it, one Git command at a time: the worktree of a claimed      *)
(* issue, the commit of its edits, the merge in a worktree of its own, the *)
(* cleanup after the record and the cleanup of an abandoned plan.          *)
(*                                                                         *)
(* Git is external.  A branch is the set of the works it contains (its     *)
(* commits on top of the base), a worktree is a path with a branch checked *)
(* out, and Git checks a branch out in one worktree at most.  A command    *)
(* may be cut: killed after GIT_TIMEOUT_MS, it counts as failed although   *)
(* it may have done its work.  The host may stop between two commands.     *)
(***************************************************************************)
EXTENDS Integers, FiniteSets, Functions

CONSTANTS
  Runs,           \* runs on one repository
  Plans,          \* Plans[r]: the plans of run r in turn, sets of issue keys
  Together,       \* which runs are executed at the same time
  Deps,           \* the dependencies of an issue
  MaxConcurrent,  \* claims of one wave
  Shared,         \* the integration branch of runs without runGit
  NoIssue,
  MaxRounds,      \* bound: executions of each issue
  MaxCuts,        \* bound: commands cut
  MaxRestarts     \* bound: stops of the host


Issues == UNION {UNION {Plans[r][k] : k \in DOMAIN Plans[r]} : r \in Runs}
RunOf(i) == CHOOSE r \in Runs : \E k \in DOMAIN Plans[r] : i \in Plans[r][k]
WorksOf(i) == {i} \X (1..MaxRounds[i])
Works == UNION {WorksOf(i) : i \in Issues}
Paths == {"issue", "merge"} \X Issues  \* <root>/<run>/<key>, <root>/_integration/<branch>

\* Issue keys are new with every plan, and a plan's dependencies are its own.
ASSUME WorktreesAssumption ==
  /\ \A r \in Runs : 1 \in DOMAIN Plans[r] /\ DOMAIN Plans[r] \subseteq Nat
  /\ \A r, q \in Runs : \A k \in DOMAIN Plans[r], m \in DOMAIN Plans[q] :
       Plans[r][k] \cap Plans[q][m] # {} => r = q /\ k = m
  /\ \A r \in Runs : \A k \in DOMAIN Plans[r] : \A i \in Plans[r][k] :
       Deps[i] \subseteq Plans[r][k]
  /\ Runs \cap Issues = {} /\ Shared \notin Runs \cup Issues
  /\ NoIssue \notin Issues
  /\ MaxRounds \in [Issues -> Nat] /\ MaxCuts \in Nat /\ MaxRestarts \in Nat

VARIABLES
  scoped,    \* whether the run has a runGit, and so an integration branch of its own
  status,    \* of a run: READY, EXECUTING, FAILED, INTEGRATION_REVIEW, PLANNING
  plan,      \* the number of its current plan
  entry,     \* executions: status, whether workDir and branch are recorded, branchBaseSha
  merging,   \* the run's durable merge marker
  lane,      \* the Git sequence a run is in: its next step, its issue, ...
  pc,        \* how far a claim is
  round,     \* how often an issue was executed
  tip,       \* existing branches, with the works they contain
  out,       \* existing worktrees, with the branch checked out in them
  edits,     \* uncommitted works in an issue's worktree
  made,      \* history: every work the executor made for an issue
  torn,      \* history: a merge or a cleanup was cut or stopped half-way
  cuts, restarts

ledger == <<scoped, status, plan, entry, merging>>
git == <<tip, out>>
bounds == <<cuts, restarts>>
vars == <<ledger, lane, pc, round, git, edits, made, torn, bounds>>

Branches == Issues \cup Runs \cup {Shared}
Target(r) == IF scoped[r] THEN r ELSE Shared
Current(r) == Plans[r][plan[r]]
IssuesOf(r) == UNION {Plans[r][k] : k \in DOMAIN Plans[r]}

Step == {"free",
         "look", "branch", "head", "add", "attach", "check", "base", "created", "notCreated",
         "save", "notSaved", "review", "mark", "again",
         "mLook", "mAdd", "mClear", "mRetry", "merge", "abort", "mClean",
         "record", "notMerged", "remove", "delete",
         "dropNext", "dropTree", "dropBranch", "dropTarget", "planned"}

\* todo: entries whose Git state a cleanup still has to get to.  hurt: the
\* sequence met a conflict, a cut command or the marker of a failed merge.
Idle == [step |-> "free", issue |-> NoIssue, todo |-> {}, base |-> {}, hurt |-> FALSE]
Fresh == [status |-> "pending", dir |-> FALSE, base |-> {}]

TypeOK ==
  /\ scoped \in [Runs -> BOOLEAN]
  /\ status \in [Runs -> {"READY", "EXECUTING", "FAILED", "INTEGRATION_REVIEW", "PLANNING"}]
  /\ plan \in [Runs -> Nat] /\ \A r \in Runs : plan[r] \in DOMAIN Plans[r]
  /\ entry \in [Issues -> [status : {"pending", "running", "done", "failed"},
                           dir : BOOLEAN, base : SUBSET Works]]
  /\ merging \in [Runs -> BOOLEAN]
  /\ lane \in [Runs -> [step : Step, issue : Issues \cup {NoIssue},
                        todo : SUBSET Issues, base : SUBSET Works, hurt : BOOLEAN]]
  /\ pc \in [Issues -> {"idle", "claimed", "executing", "succeeded", "broke"}]
  /\ \A i \in Issues : round[i] \in 0..MaxRounds[i]
  /\ DOMAIN tip \subseteq Branches /\ \A b \in DOMAIN tip : tip[b] \subseteq Works
  /\ DOMAIN out \subseteq Paths /\ Range(out) \subseteq DOMAIN tip
  /\ edits \in [Issues -> SUBSET Works]
  /\ made \in [Issues -> SUBSET Works]
  /\ torn \in BOOLEAN
  /\ cuts \in 0..MaxCuts
  /\ restarts \in 0..MaxRestarts

Init ==
  /\ \E S \in Together :
       /\ status = [r \in Runs |-> IF r \in S THEN "EXECUTING" ELSE "READY"]
       /\ \E T \in SUBSET S : scoped = [r \in Runs |-> r \in T]
  /\ plan = [r \in Runs |-> 1]
  /\ entry = [i \in Issues |-> Fresh]
  /\ merging = [r \in Runs |-> FALSE]
  /\ lane = [r \in Runs |-> Idle]
  /\ pc = [i \in Issues |-> "idle"]
  /\ round = [i \in Issues |-> 0]
  /\ tip = [b \in {} |-> {}]
  /\ out = [p \in {} |-> Shared]
  /\ edits = [i \in Issues |-> {}]
  /\ made = [i \in Issues |-> {}]
  /\ torn = FALSE
  /\ cuts = 0
  /\ restarts = 0

-----------------------------------------------------------------------------
(* Git (external). *)

Repo == [tip |-> tip, out |-> out]
Without(f, x) == Restrict(f, DOMAIN f \ {x})
With(f, x, v) == [y \in DOMAIN f \cup {x} |-> IF y = x THEN v ELSE f[y]]

\* refs/heads/taskflow/integration and refs/heads/taskflow/integration/<run>
\* cannot both exist.
NameFree(b) ==
  /\ b \notin DOMAIN tip
  /\ b \in Runs => Shared \notin DOMAIN tip
  /\ b = Shared => DOMAIN tip \cap Runs = {}
CheckedOut(b) == b \in Range(out)
CanAdd(p, b) == p \notin DOMAIN out /\ b \in DOMAIN tip /\ ~CheckedOut(b)

WithBranch(b, works) == [Repo EXCEPT !.tip = With(tip, b, works)]
WithTree(p, b) == [Repo EXCEPT !.out = With(out, p, b)]
WithBoth(p, b, works) == [tip |-> With(tip, b, works), out |-> With(out, p, b)]
WithoutTree(p) == [Repo EXCEPT !.out = Without(out, p)]
WithoutBranch(b) == [Repo EXCEPT !.tip = Without(tip, b)]

\* Steps after which a stop, or in which a cut, leaves something behind that
\* nobody comes back for.
TornByStop == {"mClear", "mRetry", "merge", "abort", "mClean", "remove", "delete",
               "dropNext", "dropTree", "dropBranch", "dropTarget"}
TornByCut == TornByStop \ {"merge"}

Goes(r, s) ==
  lane' = [lane EXCEPT ![r] = IF s = "free" THEN Idle ELSE [@ EXCEPT !.step = s]]

\* One command of run r: if Git can carry it out it leaves one of the effects
\* and step ok follows, otherwise nothing changes and step bad follows; a cut
\* command fails after an effect, a partial one, or none.
Command(r, can, effects, partial, ok, bad) ==
  /\ \/ /\ can
        /\ \E g \in effects : tip' = g.tip /\ out' = g.out
        /\ Goes(r, ok)
        /\ UNCHANGED <<torn, cuts>>
     \/ /\ ~can
        /\ Goes(r, bad)
        /\ UNCHANGED <<git, torn, cuts>>
     \/ /\ cuts < MaxCuts
        /\ cuts' = cuts + 1
        /\ torn' = (torn \/ lane[r].step \in TornByCut)
        /\ \E g \in {Repo} \cup (IF can THEN effects \cup partial ELSE {}) :
             tip' = g.tip /\ out' = g.out
        /\ lane' = [lane EXCEPT ![r] = IF bad = "free" THEN Idle
                                       ELSE [@ EXCEPT !.step = bad, !.hurt = TRUE]]
  /\ UNCHANGED <<ledger, pc, round, made, restarts>>

\* A command that only reads.
Query(r, can, ok, bad) ==
  Command(r, can, {Repo}, {}, ok, bad) /\ UNCHANGED edits

At(r, s) == lane[r].step = s
Tree(r) == <<"issue", lane[r].issue>>
MergeTree(r) == <<"merge", lane[r].issue>>

-----------------------------------------------------------------------------
(* Claiming a wave and createIssueWorktree. *)

IssuesIn(r, st) == {i \in Current(r) : entry[i].status = st}

Lesser(m, n) == IF m <= n THEN m ELSE n

Claimable(i) ==
  /\ entry[i].status \in {"pending", "failed"}
  /\ \A d \in Deps[i] : entry[d].status = "done"
  /\ round[i] < MaxRounds[i]

\* The next wave is claimed when the last one has settled.  Claims whose
\* entry has no worktree get one, one after the other.
Claim(r) ==
  /\ status[r] = "EXECUTING" /\ At(r, "free")
  /\ \A i \in Current(r) : pc[i] = "idle"
  /\ \E C \in SUBSET {i \in Current(r) : Claimable(i)} :
       /\ C # {}
       /\ Cardinality(C) = Lesser(Cardinality({i \in Current(r) : Claimable(i)}),
                                  MaxConcurrent - Cardinality(IssuesIn(r, "running")))
       /\ entry' = [i \in Issues |-> IF i \in C THEN [entry[i] EXCEPT !.status = "running"]
                                     ELSE entry[i]]
       /\ pc' = [i \in Issues |-> IF i \in C THEN "claimed" ELSE pc[i]]
       /\ round' = [i \in Issues |-> IF i \in C THEN round[i] + 1 ELSE round[i]]
  /\ UNCHANGED <<scoped, status, plan, merging, lane, git, edits, made, torn, bounds>>

\* A claim with a recorded worktree needs none; when every claim has one the
\* wave is executed.
Prepare(r) ==
  /\ At(r, "free")
  /\ LET bare == {i \in Current(r) : pc[i] = "claimed" /\ ~entry[i].dir}
     IN  IF bare = {}
         THEN /\ \E i \in Current(r) : pc[i] = "claimed"
              /\ pc' = [i \in Issues |-> IF i \in Current(r) /\ pc[i] = "claimed"
                                         THEN "executing" ELSE pc[i]]
              /\ UNCHANGED lane
         ELSE /\ \E i \in bare : lane' = [lane EXCEPT ![r] = [Idle EXCEPT !.step = "look", !.issue = i]]
              /\ UNCHANGED pc
  /\ UNCHANGED <<ledger, round, git, edits, made, torn, bounds>>

\* ensureIntegrationBranch: rev-parse, then branch.
Look(r) == /\ At(r, "look")
           /\ Query(r, Target(r) \in DOMAIN tip, "head", "branch")
Branch(r) == /\ At(r, "branch")
             /\ Command(r, NameFree(Target(r)), {WithBranch(Target(r), {})}, {},
                        "head", "notCreated")
             /\ UNCHANGED edits

\* A command whose answer becomes the base of the worktree.
Read(r, works, ok) ==
  /\ \/ /\ lane' = [lane EXCEPT ![r].step = ok, ![r].base = works]
        /\ UNCHANGED cuts
     \/ /\ cuts < MaxCuts
        /\ cuts' = cuts + 1
        /\ Goes(r, "notCreated")
  /\ UNCHANGED <<ledger, pc, round, git, edits, made, torn, restarts>>

\* getBranchHeadSha of the integration branch.
Head(r) == At(r, "head") /\ Read(r, tip[Target(r)], "add")

\* worktree add -b; cut, it may have made the branch alone.
Add(r) ==
  LET i == lane[r].issue
  IN  /\ At(r, "add")
      /\ Command(r, i \notin DOMAIN tip /\ Tree(r) \notin DOMAIN out,
                 {WithBoth(Tree(r), i, lane[r].base)},
                 {WithBranch(i, lane[r].base)}, "created", "attach")
      /\ UNCHANGED edits

\* The branch, or the worktree too, may be left from an earlier attempt.
Attach(r) == /\ At(r, "attach")
             /\ Command(r, CanAdd(Tree(r), lane[r].issue),
                        {WithTree(Tree(r), lane[r].issue)}, {}, "base", "check")
             /\ UNCHANGED edits
Check(r) == /\ At(r, "check")
            /\ Query(r, Tree(r) \in DOMAIN out /\ out[Tree(r)] = lane[r].issue,
                     "base", "notCreated")

\* Mutant: an attached worktree is pinned to the head of the integration branch.
CommonBase_Head(a, b) == tip[b]

\* git merge-base: what two branches have in common.
CommonBase(a, b) == tip[a] \cap tip[b]

Base(r) ==
  /\ At(r, "base")
  /\ Read(r, CommonBase(lane[r].issue, Target(r)), "created")

Created(r) ==
  /\ At(r, "created")
  /\ entry' = [entry EXCEPT ![lane[r].issue].dir = TRUE,
                            ![lane[r].issue].base = lane[r].base]
  /\ Goes(r, "free")
  /\ UNCHANGED <<scoped, status, plan, merging, pc, round, git, edits, made, torn, bounds>>

Failed(i, r) ==
  /\ entry' = [entry EXCEPT ![i].status = "failed"]
  /\ status' = [status EXCEPT ![r] = "FAILED"]
  /\ merging' = [merging EXCEPT ![r] = FALSE]

\* failRunningIssue: the run fails.  The worktrees already prepared are
\* executed all the same and find the run FAILED, which hands them back
\* (authorization in executeClaim); the claims not reached keep their status.
NotCreated(r) ==
  /\ At(r, "notCreated")
  /\ Failed(lane[r].issue, r)
  /\ pc' = [i \in Issues |-> IF i \in Current(r) THEN "idle" ELSE pc[i]]
  /\ Goes(r, "free")
  /\ UNCHANGED <<scoped, plan, round, git, edits, made, torn, bounds>>

-----------------------------------------------------------------------------
(* The executor and the outcome of a claim. *)

\* The executor works in the claim's worktree, may or may not change a file,
\* and succeeds or not.
Execute(i) ==
  /\ pc[i] = "executing"
  /\ \E new \in {{}, {<<i, round[i]>>}}, outcome \in {"succeeded", "broke"} :
       /\ edits' = [edits EXCEPT ![i] = @ \cup new]
       /\ made' = [made EXCEPT ![i] = @ \cup new]
       /\ pc' = [pc EXCEPT ![i] = outcome]
  /\ UNCHANGED <<ledger, lane, round, git, torn, bounds>>

\* Outcomes settle one after the other (withOutcomeLock).  In a run that has
\* failed meanwhile a success is kept pending in its worktree.
Outcome(i) ==
  LET r == RunOf(i)
  IN  /\ pc[i] \in {"succeeded", "broke"}
      /\ At(r, "free")
      /\ CASE pc[i] = "succeeded" /\ status[r] = "EXECUTING" ->
                /\ lane' = [lane EXCEPT ![r] = [Idle EXCEPT !.step = "save", !.issue = i]]
                /\ UNCHANGED <<status, entry, merging, pc>>
           [] pc[i] = "succeeded" /\ status[r] = "FAILED" ->
                /\ entry' = [entry EXCEPT ![i].status = "pending"]
                /\ merging' = [merging EXCEPT ![r] = FALSE]
                /\ pc' = [pc EXCEPT ![i] = "idle"]
                /\ UNCHANGED <<status, lane>>
           [] OTHER ->
                /\ Failed(i, r)
                /\ pc' = [pc EXCEPT ![i] = "idle"]
                /\ UNCHANGED lane
      /\ UNCHANGED <<scoped, plan, round, git, edits, made, torn, bounds>>

\* Mutant: the executor's edits are not committed before the merge.
Saves_Nothing(r) == FALSE

Saves(r) == Tree(r) \in DOMAIN out /\ out[Tree(r)] = lane[r].issue

\* commitWorktreeEdits (status, add and commit as one step).
Commit(r, ok, bad) ==
  LET i == lane[r].issue
  IN  /\ Command(r, Tree(r) \in DOMAIN out,
                 {IF Saves(r) THEN WithBranch(i, tip[i] \cup edits[i]) ELSE Repo},
                 {}, ok, bad)
      /\ edits' = IF tip' = tip THEN edits ELSE [edits EXCEPT ![i] = {}]

\* Before the CHECKPOINT review, and again under the merge marker.
Save(r) == At(r, "save") /\ Commit(r, "review", "notSaved")
Again(r) == At(r, "again") /\ Commit(r, "mLook", "notMerged")

\* failCheckpointReview.
NotSaved(r) ==
  /\ At(r, "notSaved")
  /\ entry' = [entry EXCEPT ![lane[r].issue].status = "pending"]
  /\ status' = [status EXCEPT ![r] = "FAILED"]
  /\ pc' = [pc EXCEPT ![lane[r].issue] = "idle"]
  /\ Goes(r, "free")
  /\ UNCHANGED <<scoped, plan, merging, round, git, edits, made, torn, bounds>>

\* The CHECKPOINT verdict: PASS; FIX, back to pending in the same worktree;
\* REPLAN, which aborts the wave and abandons the plan.
CheckpointPass(r) ==
  /\ At(r, "review")
  /\ Goes(r, "mark")
  /\ UNCHANGED <<ledger, pc, round, git, edits, made, torn, bounds>>

CheckpointFix(r) ==
  /\ At(r, "review")
  /\ entry' = [entry EXCEPT ![lane[r].issue].status = "pending"]
  /\ pc' = [pc EXCEPT ![lane[r].issue] = "idle"]
  /\ Goes(r, "free")
  /\ UNCHANGED <<scoped, status, plan, merging, round, git, edits, made, torn, bounds>>

\* trySetMergeMarker: a marker an earlier merge left behind is waited for and
\* then refuses the outcome.
Mark(r) ==
  /\ At(r, "mark")
  /\ merging' = [merging EXCEPT ![r] = TRUE]
  /\ lane' = [lane EXCEPT ![r].step = IF merging[r] THEN "notMerged" ELSE "again",
                          ![r].hurt = merging[r]]
  /\ UNCHANGED <<scoped, status, plan, entry, pc, round, git, edits, made, torn, bounds>>

-----------------------------------------------------------------------------
(* mergeIssueWorktree, under the merge lock of the repository. *)

MergeSteps == {"mAdd", "mClear", "mRetry", "merge", "abort", "mClean"}

\* Mutant: merges of different runs are not serialized.
LockFree_Always(r) == TRUE

LockFree(r) == \A q \in Runs \ {r} : lane[q].step \notin MergeSteps

\* The integration branch is there since the worktree was created.
MergeLook(r) == /\ At(r, "mLook") /\ LockFree(r)
                /\ Query(r, Target(r) \in DOMAIN tip, "mAdd", "notMerged")

AddTree(r, ok, bad) == /\ Command(r, CanAdd(MergeTree(r), Target(r)),
                                  {WithTree(MergeTree(r), Target(r))}, {}, ok, bad)
                       /\ UNCHANGED edits
MergeAdd(r) == At(r, "mAdd") /\ AddTree(r, "merge", "mClear")
MergeRetry(r) == At(r, "mRetry") /\ AddTree(r, "merge", "notMerged")

\* worktree remove --force.
ForceRemove(r, p, next) == Command(r, p \in DOMAIN out, {WithoutTree(p)}, {}, next, next)

MergeClear(r) == /\ At(r, "mClear") /\ ForceRemove(r, MergeTree(r), "mRetry")
                 /\ UNCHANGED edits
MergeAbort(r) == /\ At(r, "abort") /\ ForceRemove(r, MergeTree(r), "notMerged")
                 /\ UNCHANGED edits
MergeClean(r) == /\ At(r, "mClean") /\ ForceRemove(r, MergeTree(r), "record")
                 /\ UNCHANGED edits

\* git merge --no-ff.  Only branches that have diverged can conflict.
Merge(r) ==
  LET i == lane[r].issue
  IN  /\ At(r, "merge")
      /\ \/ /\ Command(r, i \in DOMAIN tip,
                       {WithBranch(Target(r), tip[Target(r)] \cup tip[i])}, {},
                       "mClean", "abort")
            /\ UNCHANGED edits
         \/ /\ ~(tip[Target(r)] \subseteq tip[i])
            /\ lane' = [lane EXCEPT ![r].step = "abort", ![r].hurt = TRUE]
            /\ UNCHANGED <<ledger, pc, round, git, edits, made, torn, bounds>>

\* The WorktreeError is rethrown past the record: the issue stays running,
\* the marker set.
NotMerged(r) ==
  /\ At(r, "notMerged")
  /\ pc' = [pc EXCEPT ![lane[r].issue] = "idle"]
  /\ Goes(r, "free")
  /\ UNCHANGED <<ledger, round, git, edits, made, torn, bounds>>

\* The durable success record; the issue's own worktree is removed after it.
Record(r) ==
  LET i == lane[r].issue
  IN  /\ At(r, "record")
      /\ entry' = [entry EXCEPT ![i].status = "done"]
      /\ merging' = [merging EXCEPT ![r] = FALSE]
      /\ status' = IF \A j \in Current(r) : entry'[j].status = "done"
                   THEN [status EXCEPT ![r] = "INTEGRATION_REVIEW"] ELSE status
      /\ pc' = [pc EXCEPT ![i] = "idle"]
      /\ Goes(r, "remove")
      /\ UNCHANGED <<scoped, plan, round, git, edits, made, torn, bounds>>

-----------------------------------------------------------------------------
(* removeIssueWorktree, whose exit codes are ignored. *)

\* Edits that were not committed go with the worktree.
RemoveTree(r, next) ==
  /\ ForceRemove(r, Tree(r), next)
  /\ edits' = IF Tree(r) \in DOMAIN out' THEN edits
              ELSE [edits EXCEPT ![lane[r].issue] = {}]

\* Mutant: the branch of a merged issue is kept.
BranchToDelete_None(r) == {}

BranchToDelete(r) == {lane[r].issue} \cap DOMAIN tip

\* branch -D, refused while the branch is checked out.
DeleteBranch(r, b, next) ==
  /\ Command(r, b # {} /\ \A x \in b : ~CheckedOut(x),
             {WithoutBranch(x) : x \in b}, {}, next, next)
  /\ UNCHANGED edits

Remove(r) == At(r, "remove") /\ RemoveTree(r, "delete")

Delete(r) ==
  /\ At(r, "delete")
  /\ DeleteBranch(r, BranchToDelete(r), "free")

-----------------------------------------------------------------------------
(* FIX and REPLAN of the FINAL review, cleanupRunGit, retry, restart. *)

Abandon(r, todo) ==
  /\ plan[r] + 1 \in DOMAIN Plans[r]
  /\ status' = [status EXCEPT ![r] = "PLANNING"]
  /\ pc' = [i \in Issues |-> IF i \in Current(r) THEN "idle" ELSE pc[i]]
  /\ lane' = [lane EXCEPT ![r] = [Idle EXCEPT !.step = "dropNext", !.todo = todo]]
  /\ UNCHANGED <<scoped, plan, entry, merging, round, git, edits, made, torn, bounds>>

WithDir(r) == {i \in Current(r) : entry[i].dir}

CheckpointReplan(r) == At(r, "review") /\ Abandon(r, WithDir(r))

\* REPLAN of the FINAL review cleans up every entry; rework, which forgets
\* the entries first, the integration branch alone.  Either is taken to come
\* when the cleanup after the last record has ended: both delete the same.
FinalReplan(r) ==
  /\ status[r] = "INTEGRATION_REVIEW" /\ At(r, "free")
  /\ \E todo \in {WithDir(r), {}} : Abandon(r, todo)

\* FIX of the FINAL review: the named issues and everything that builds on
\* them start from nothing, although the last cleanup may still be going on.
FinalFix(r) ==
  /\ status[r] = "INTEGRATION_REVIEW"
  /\ \E S \in SUBSET Current(r) \ {{}} :
       /\ \A i \in Current(r) : Deps[i] \cap S # {} => i \in S
       /\ entry' = [i \in Issues |-> IF i \in S THEN Fresh ELSE entry[i]]
  /\ status' = [status EXCEPT ![r] = "EXECUTING"]
  /\ UNCHANGED <<scoped, plan, merging, lane, pc, round, git, edits, made, torn, bounds>>

\* cleanupRunGit: worktree and branch of every entry, then the integration
\* branch if it is the run's own.
DropNext(r) ==
  /\ At(r, "dropNext")
  /\ \/ \E i \in lane[r].todo :
          lane' = [lane EXCEPT ![r].step = "dropTree", ![r].issue = i,
                               ![r].todo = @ \ {i}]
     \/ /\ lane[r].todo = {}
        /\ Goes(r, IF scoped[r] THEN "dropTarget" ELSE "planned")
  /\ UNCHANGED <<ledger, pc, round, git, edits, made, torn, bounds>>

DropTree(r) == At(r, "dropTree") /\ RemoveTree(r, "dropBranch")
DropBranch(r) ==
  /\ At(r, "dropBranch")
  /\ DeleteBranch(r, {lane[r].issue} \cap DOMAIN tip, "dropNext")
DropTarget(r) ==
  /\ At(r, "dropTarget")
  /\ DeleteBranch(r, {Target(r)} \cap DOMAIN tip, "planned")

\* The next plan, whose issue keys are new, is published and executed.
Planned(r) ==
  /\ At(r, "planned")
  /\ plan' = [plan EXCEPT ![r] = @ + 1]
  /\ status' = [status EXCEPT ![r] = "EXECUTING"]
  /\ Goes(r, "free")
  /\ UNCHANGED <<scoped, entry, merging, pc, round, git, edits, made, torn, bounds>>

\* retry of a FAILED run, refused while the marker is set.
Retry(r) ==
  /\ status[r] = "FAILED"
  /\ ~merging[r]
  /\ status' = [status EXCEPT ![r] = "EXECUTING"]
  /\ entry' = [i \in Issues |-> IF i \in Current(r) /\ entry[i].status = "failed"
                                THEN [entry[i] EXCEPT !.status = "pending"] ELSE entry[i]]
  /\ UNCHANGED <<scoped, plan, merging, lane, pc, round, git, edits, made, torn, bounds>>

\* The host stops between any two commands and starts again: the running
\* issues of EXECUTING runs go back to pending (resetStuckExecutions), runs
\* in PLANNING are planned without the rest of their cleanup.
Restart ==
  /\ restarts < MaxRestarts
  /\ restarts' = restarts + 1
  /\ torn' = (torn \/ \E r \in Runs : lane[r].step \in TornByStop)
  /\ pc' = [i \in Issues |-> "idle"]
  /\ lane' = [r \in Runs |-> IF status[r] = "PLANNING" THEN [Idle EXCEPT !.step = "planned"]
                             ELSE Idle]
  /\ entry' = [i \in Issues |-> IF /\ status[RunOf(i)] = "EXECUTING"
                                   /\ entry[i].status = "running"
                                THEN [entry[i] EXCEPT !.status = "pending"] ELSE entry[i]]
  /\ merging' = [r \in Runs |-> merging[r] /\ status[r] # "EXECUTING"]
  /\ UNCHANGED <<scoped, status, plan, round, git, edits, made, cuts>>

GitStep(r) ==
  \/ Look(r) \/ Branch(r) \/ Head(r) \/ Add(r) \/ Attach(r) \/ Check(r) \/ Base(r)
  \/ Save(r) \/ Again(r)
  \/ MergeLook(r) \/ MergeAdd(r) \/ MergeClear(r) \/ MergeRetry(r)
  \/ Merge(r) \/ MergeAbort(r) \/ MergeClean(r)
  \/ Remove(r) \/ Delete(r)
  \/ DropTree(r) \/ DropBranch(r) \/ DropTarget(r)

LedgerStep(r) ==
  \/ Claim(r) \/ Prepare(r) \/ Created(r) \/ NotCreated(r)
  \/ NotSaved(r) \/ CheckpointPass(r) \/ CheckpointFix(r) \/ CheckpointReplan(r)
  \/ Mark(r) \/ NotMerged(r) \/ Record(r)
  \/ FinalFix(r) \/ FinalReplan(r) \/ DropNext(r) \/ Planned(r) \/ Retry(r)

Next ==
  \/ \E r \in Runs : GitStep(r) \/ LedgerStep(r)
  \/ \E i \in Issues : Execute(i) \/ Outcome(i)
  \/ Restart

Spec == Init /\ [][Next]_vars

-----------------------------------------------------------------------------
(* Properties. *)

\* Whatever is cut, stopped or in conflict, an issue that is executed has its
\* worktree, and everything the executor ever did for an issue recorded as
\* done is on the integration branch: the worktree that is then removed by
\* force holds nothing else (service.ts 1472, mergeIssueWorktree).
WorkIsKept ==
  \A r \in Runs : status[r] # "PLANNING" =>
    \A i \in Current(r) :
      /\ pc[i] = "executing" =>
           <<"issue", i>> \in DOMAIN out /\ out[<<"issue", i>>] = i
      /\ entry[i].status = "done" => made[i] \subseteq tip[Target(r)]

\* The range a CHECKPOINT reviewer is given (branchBaseSha to the branch's
\* head) lies on the branch, holds nobody else's work, and holds everything
\* of the issue that is not integrated yet, also for a worktree that was
\* found again after a stop or a cut (createIssueWorktree).
ReviewSeesOwnWork ==
  \A r \in Runs : At(r, "review") =>
    LET i == lane[r].issue
    IN  /\ entry[i].base \subseteq tip[i]
        /\ tip[i] \ entry[i].base \subseteq WorksOf(i)
        /\ made[i] \ tip[Target(r)] \subseteq tip[i] \ entry[i].base

\* Unless a merge or a cleanup was torn, an issue is executed on everything
\* its dependencies did, also after a FINAL FIX that redid them: no worktree
\* of an older baseline is found again.
BuildsOnDependencies ==
  ~torn => \A i \in Issues : pc[i] = "executing" =>
             \A d \in Deps[i] : made[d] \subseteq tip[i]

\* Unless a merge or a cleanup was torn, a merge fails only because of a
\* conflict, of one of its own commands being cut, or of the marker of one
\* that failed so: a failed merge leaves nothing that blocks the next one,
\* of this run or of another on the same branch (worktree.ts 214-233).
OnlyConflictsFail ==
  ~torn => \A r \in Runs : At(r, "notMerged") => lane[r].hurt

=============================================================================
