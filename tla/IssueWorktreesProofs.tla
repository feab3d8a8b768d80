----------------------- MODULE IssueWorktreesProofs ------------------------
(***************************************************************************)
(* Proofs about IssueWorktrees, for any runs, plans, dependencies, rounds, *)
(* cuts and stops: a forced removal loses no work, reviewers see the work  *)
(* of the issue, issues build on their dependencies, and a merge only      *)
(* fails for a reason of its own.                                          *)
(***************************************************************************)
EXTENDS IssueWorktrees, TLAPS

-----------------------------------------------------------------------------
(* The inductive invariant. *)

On(b) == IF b \in DOMAIN tip THEN tip[b] ELSE {}
TreeOf(i) == <<"issue", i>>
Has(i) == TreeOf(i) \in DOMAIN out

Creating == {"look", "branch", "head", "add", "attach", "check", "base",
             "created", "notCreated"}
Finishing == {"save", "notSaved", "review", "mark", "again", "mLook", "mAdd",
              "mClear", "mRetry", "merge", "abort", "mClean", "record",
              "notMerged"}
Removing == {"remove", "delete"}
Dropping == {"dropNext", "dropTree", "dropBranch", "dropTarget", "planned"}

\* What a run's Git sequence is about agrees with its ledger and its claims.
LaneOK(r) ==
  LET i == lane[r].issue
      s == lane[r].step
  IN  /\ s \in Creating \cup Finishing \cup Removing
             \cup {"dropTree", "dropBranch"} => i \in Current(r)
      /\ lane[r].todo \subseteq Current(r)
      /\ status[r] = "PLANNING" <=> s \in Dropping
      /\ s = "dropTarget" => scoped[r]
      /\ s \in Creating => pc[i] = "claimed" /\ ~entry[i].dir
      /\ s \in Finishing => pc[i] = "succeeded"
      /\ s \in Removing =>
           pc[i] = "idle" /\ (entry[i].status = "done" \/ ~entry[i].dir)

\* Only issues of the current plan are claimed, and those of later plans are
\* untouched.
RunOK(r) ==
  /\ status[r] = "PLANNING" =>
       /\ plan[r] + 1 \in DOMAIN Plans[r]
       /\ \A i \in Current(r) : pc[i] = "idle"
  /\ status[r] = "INTEGRATION_REVIEW" =>
       \A i \in Current(r) : entry[i].status = "done"
  /\ \A k \in DOMAIN Plans[r] : \A i \in Plans[r][k] :
       /\ k > plan[r] =>
            /\ entry[i] = Fresh /\ made[i] = {} /\ edits[i] = {}
            /\ i \notin DOMAIN tip
       /\ k # plan[r] => pc[i] = "idle"

\* The base recorded for an issue, or about to be, is common to its branch
\* and the integration branch, and the rest of the branch is its own.
GoodBase(r, i, base) ==
  /\ base \subseteq On(i)
  /\ base \subseteq On(Target(r))
  /\ On(i) \ base \subseteq WorksOf(i)

\* Where the works of an issue are.
IssueOK(r, i) ==
  /\ pc[i] # "idle" => entry[i].status = "running" /\ round[i] >= 1
  /\ pc[i] \in {"executing", "succeeded", "broke"} => entry[i].dir
  /\ entry[i].dir /\ entry[i].status # "done" =>
       Has(i) /\ Target(r) \in DOMAIN tip /\ GoodBase(r, i, entry[i].base)
  /\ entry[i].status = "done" =>
       Target(r) \in DOMAIN tip /\ made[i] \subseteq On(Target(r))
  /\ made[i] \subseteq On(i) \cup edits[i] \cup On(Target(r))
  /\ edits[i] \subseteq WorksOf(i)
  /\ On(i) \ On(Target(r)) \subseteq WorksOf(i)

\* A branch of an issue was made after what the issue builds on, and is gone
\* when the issue is done.
DepsOK(r, i) ==
  /\ pc[i] # "idle" => \A d \in Deps[i] : entry[d].status = "done"
  /\ /\ ~torn
     /\ i \in DOMAIN tip
     /\ ~(lane[r].step \in Removing /\ lane[r].issue = i)
     => /\ entry[i].status # "done"
        /\ \A d \in Deps[i] :
             entry[d].status = "done" /\ made[d] \subseteq tip[i]

\* What the commands of a sequence have done so far.
LaneGitOK(r) ==
  LET i == lane[r].issue
      s == lane[r].step
  IN  /\ s \in {"head", "add", "attach", "check", "base", "created"} =>
           Target(r) \in DOMAIN tip
      /\ s = "add" =>
           /\ lane[r].base \subseteq On(Target(r))
           /\ \A d \in Deps[i] : made[d] \subseteq lane[r].base
      /\ s \in {"base", "created"} => Has(i)
      /\ s = "created" => GoodBase(r, i, lane[r].base)
      /\ s \in {"review", "mark", "again", "mLook", "mAdd", "mClear",
                "mRetry", "merge"} =>
           made[i] \subseteq On(i) \cup On(Target(r))
      /\ s \in {"mClean", "record"} \cup Removing =>
           Target(r) \in DOMAIN tip /\ made[i] \subseteq On(Target(r))
      /\ s = "delete" /\ ~torn => ~Has(i)

\* A worktree of an issue has its branch checked out, a worktree of a merge
\* an integration branch.
OutOK ==
  \A p \in DOMAIN out :
    /\ p[1] = "issue" => out[p] = p[2]
    /\ p[1] = "merge" => out[p] \in Runs \cup {Shared}

\* The steps at which a merge has its worktree.
Held == {"mClear", "merge", "abort", "mClean"}

\* One merge at a time; a worktree of a merge belongs to the one under way,
\* and a merge that was not torn is only given up for a reason of its own.
MergeOK ==
  /\ \A r, q \in Runs :
       lane[r].step \in MergeSteps /\ lane[q].step \in MergeSteps => r = q
  /\ ~torn => \A p \in DOMAIN out : p[1] = "merge" =>
       \E r \in Runs : lane[r].step \in Held /\ p = MergeTree(r)
  /\ ~torn => \A r \in Runs :
       lane[r].step \in {"mClear", "mRetry", "abort", "notMerged"}
         => lane[r].hurt

RunInv(r) ==
  /\ LaneOK(r)
  /\ RunOK(r)
  /\ LaneGitOK(r)
  /\ status[r] # "PLANNING" =>
       \A i \in Current(r) : IssueOK(r, i) /\ DepsOK(r, i)

Inv == TypeOK /\ OutOK /\ MergeOK /\ \A r \in Runs : RunInv(r)

-----------------------------------------------------------------------------
(* Issues, branches and worktrees. *)

\* The issues of the current plan of a run, and of no other run or plan.
LEMMA IssueFacts ==
  ASSUME NEW r \in Runs, NEW k \in DOMAIN Plans[r], NEW i \in Plans[r][k]
  PROVE  /\ i \in Issues /\ i \in IssuesOf(r) /\ RunOf(i) = r
         /\ Deps[i] \subseteq Plans[r][k]
         /\ \A q \in Runs : q # r => i \notin IssuesOf(q)
         /\ \A m \in DOMAIN Plans[r] : m # k => i \notin Plans[r][m]
         /\ i # NoIssue /\ i \notin Runs /\ i # Shared
<1>1. i \in Issues /\ i \in IssuesOf(r)
  BY DEF Issues, IssuesOf
<1>2. \A q \in Runs : \A m \in DOMAIN Plans[q] :
        i \in Plans[q][m] => r = q /\ k = m
  BY WorktreesAssumption
<1>3. RunOf(i) = r
  BY <1>2 DEF RunOf
<1>4. \A q \in Runs : q # r => i \notin IssuesOf(q)
  BY <1>2 DEF IssuesOf
<1> QED BY <1>1, <1>2, <1>3, <1>4, WorktreesAssumption

LEMMA IssueIsPlanned ==
  ASSUME NEW i \in Issues
  PROVE  \E r \in Runs : \E k \in DOMAIN Plans[r] : i \in Plans[r][k]
BY DEF Issues

LEMMA IssuesOfIn ==
  ASSUME NEW r \in Runs, NEW i \in IssuesOf(r)
  PROVE  \E k \in DOMAIN Plans[r] : i \in Plans[r][k]
BY DEF IssuesOf

LEMMA CurrentFacts ==
  ASSUME TypeOK, NEW r \in Runs, NEW i \in Current(r)
  PROVE  /\ i \in Issues /\ i \in IssuesOf(r) /\ RunOf(i) = r
         /\ Deps[i] \subseteq Current(r)
         /\ \A q \in Runs : q # r => i \notin IssuesOf(q)
         /\ \A m \in DOMAIN Plans[r] : m # plan[r] => i \notin Plans[r][m]
         /\ i # NoIssue /\ i \notin Runs /\ i # Shared
<1>1. plan[r] \in DOMAIN Plans[r] /\ i \in Plans[r][plan[r]]
  BY DEF TypeOK, Current
<1> QED BY <1>1, IssueFacts DEF Current

LEMMA TargetFacts ==
  ASSUME NEW r \in Runs
  PROVE  Target(r) \in Runs \cup {Shared} /\ Target(r) \notin Issues
BY WorktreesAssumption DEF Target

-----------------------------------------------------------------------------
(* What a command does. *)

\* Where a sequence goes on.
LaneAt(r, s, hurt) ==
  /\ s = "free" => lane'[r] = Idle
  /\ s # "free" => /\ lane'[r].step = s
                   /\ lane'[r].issue = lane[r].issue
                   /\ lane'[r].todo = lane[r].todo
                   /\ lane'[r].hurt = hurt

SameBase(r) == lane'[r] = Idle \/ lane'[r].base = lane[r].base

OthersStay(r) == \A q \in Runs : q # r => lane'[q] = lane[q]

Effect(S) == \E g \in S : tip' = g.tip /\ out' = g.out

LEMMA GoesTo ==
  ASSUME TypeOK, NEW r \in Runs, NEW s \in Step, Goes(r, s)
  PROVE  LaneAt(r, s, lane[r].hurt) /\ SameBase(r) /\ OthersStay(r)
BY ZenonT(60) DEF TypeOK, Goes, LaneAt, SameBase, OthersStay, Idle

LEMMA CommandDoes ==
  ASSUME TypeOK, NEW r \in Runs, NEW can, NEW effects, NEW partial,
         NEW ok \in Step, NEW bad \in Step,
         Command(r, can, effects, partial, ok, bad)
  PROVE  /\ OthersStay(r) /\ SameBase(r)
         /\ UNCHANGED <<scoped, status, plan, entry, merging, pc, round, made>>
         /\ torn => torn'
         /\ \/ can /\ Effect(effects) /\ LaneAt(r, ok, lane[r].hurt)
               /\ UNCHANGED torn
            \/ ~can /\ UNCHANGED <<tip, out, torn>>
               /\ LaneAt(r, bad, lane[r].hurt)
            \/ /\ UNCHANGED <<tip, out>> \/ (can /\ Effect(effects \cup partial))
               /\ LaneAt(r, bad, TRUE)
               /\ torn' = (torn \/ lane[r].step \in TornByCut)
<1>1. UNCHANGED <<scoped, status, plan, entry, merging, pc, round, made>>
  BY DEF Command, ledger
<1>2. CASE /\ can /\ Effect(effects) /\ Goes(r, ok) /\ UNCHANGED <<torn, cuts>>
  BY <1>1, <1>2, GoesTo
<1>3. CASE ~can /\ Goes(r, bad) /\ UNCHANGED <<git, torn, cuts>>
  BY <1>1, <1>3, GoesTo DEF git
<1>4. CASE /\ torn' = (torn \/ lane[r].step \in TornByCut)
           /\ Effect({Repo} \cup (IF can THEN effects \cup partial ELSE {}))
           /\ lane' = [lane EXCEPT ![r] = IF bad = "free" THEN Idle
                                          ELSE [@ EXCEPT !.step = bad,
                                                         !.hurt = TRUE]]
  <2>1. LaneAt(r, bad, TRUE) /\ OthersStay(r) /\ SameBase(r)
    BY <1>4 DEF TypeOK, LaneAt, SameBase, OthersStay, Idle
  <2>2. UNCHANGED <<tip, out>> \/ (can /\ Effect(effects \cup partial))
    BY <1>4 DEF Effect, Repo
  <2>3. torn => torn'
    BY <1>4
  <2> QED BY <1>1, <1>4, <2>1, <2>2, <2>3
<1> QED BY <1>2, <1>3, <1>4 DEF Command, Effect

-----------------------------------------------------------------------------
(* What a command leaves alone. *)

TipSameBut(b) ==
  \A c : c # b => /\ c \in DOMAIN tip' <=> c \in DOMAIN tip
                  /\ c \in DOMAIN tip => tip'[c] = tip[c]

OutSameBut(p) ==
  \A q : q # p => /\ q \in DOMAIN out' <=> q \in DOMAIN out
                  /\ q \in DOMAIN out => out'[q] = out[q]

SameGit(j) ==
  /\ j \in DOMAIN tip' <=> j \in DOMAIN tip
  /\ j \in DOMAIN tip => tip'[j] = tip[j]
  /\ Has(j)' <=> Has(j)
  /\ edits'[j] = edits[j]

Grows(b) == b \in DOMAIN tip => b \in DOMAIN tip' /\ tip[b] \subseteq tip'[b]

\* Only the issue and the integration branch of the sequence are touched.
Own(r, j) == j = lane[r].issue /\ j \in Current(r)

Framed(r) ==
  /\ OthersStay(r)
  /\ UNCHANGED <<scoped, status, plan, entry, merging, pc, round, made>>
  /\ torn => torn'
  /\ \A j \in Issues : ~Own(r, j) => SameGit(j)
  /\ \A b \in Runs \cup {Shared} :
       (b = Target(r) /\ lane[r].step = "dropTarget") \/ Grows(b)

\* A step that touches nothing of the issue.
Quiet(r) ==
  /\ Framed(r)
  /\ \A j \in Issues : SameGit(j)
  /\ Grows(Target(r))

LEMMA Reading ==
  ASSUME TypeOK, NEW r \in Runs, NEW can, NEW ok \in Step, NEW bad \in Step,
         Query(r, can, ok, bad)
  PROVE  /\ Quiet(r) /\ UNCHANGED <<tip, out, edits>>
         /\ \/ can /\ LaneAt(r, ok, lane[r].hurt) /\ UNCHANGED torn
            \/ ~can /\ LaneAt(r, bad, lane[r].hurt) /\ UNCHANGED torn
            \/ /\ LaneAt(r, bad, TRUE)
               /\ torn' = (torn \/ lane[r].step \in TornByCut)
<1>1. Command(r, can, {Repo}, {}, ok, bad) /\ UNCHANGED edits
  BY DEF Query
<1>2. /\ OthersStay(r)
      /\ UNCHANGED <<scoped, status, plan, entry, merging, pc, round, made>>
      /\ torn => torn'
      /\ \/ can /\ Effect({Repo}) /\ LaneAt(r, ok, lane[r].hurt)
            /\ UNCHANGED torn
         \/ ~can /\ UNCHANGED <<tip, out, torn>>
            /\ LaneAt(r, bad, lane[r].hurt)
         \/ /\ UNCHANGED <<tip, out>> \/ (can /\ Effect({Repo} \cup {}))
            /\ LaneAt(r, bad, TRUE)
            /\ torn' = (torn \/ lane[r].step \in TornByCut)
  BY <1>1, CommandDoes
<1>3. Effect({Repo}) \/ Effect({Repo} \cup {}) => UNCHANGED <<tip, out>>
  BY DEF Effect, Repo
<1>5. UNCHANGED <<tip, out, edits>> /\ (torn => torn')
  BY <1>1, <1>2, <1>3
<1>4. Quiet(r)
  BY <1>2, <1>5 DEF Quiet, Framed, SameGit, Grows, Has
<1> QED BY <1>2, <1>4, <1>5

LEMMA ForceRemoveDoes ==
  ASSUME TypeOK, NEW r \in Runs, NEW p, NEW next \in Step,
         ForceRemove(r, p, next)
  PROVE  /\ OthersStay(r) /\ UNCHANGED tip /\ OutSameBut(p)
         /\ UNCHANGED <<scoped, status, plan, entry, merging, pc, round, made>>
         /\ torn => torn'
         /\ UNCHANGED out \/ p \notin DOMAIN out'
         /\ \/ /\ p \notin DOMAIN out' /\ LaneAt(r, next, lane[r].hurt)
               /\ UNCHANGED torn
            \/ /\ LaneAt(r, next, TRUE)
               /\ torn' = (torn \/ lane[r].step \in TornByCut)
<1> DEFINE can == p \in DOMAIN out
           S == {WithoutTree(p)}
<1>1. Command(r, can, S, {}, next, next)
  BY DEF ForceRemove
<1>2. Effect(S) \/ Effect(S \cup {}) => tip' = tip /\ out' = Without(out, p)
  BY DEF Effect, WithoutTree, Repo
<1>3. out' = Without(out, p) => OutSameBut(p) /\ p \notin DOMAIN out'
  BY DEF Without, Restrict, OutSameBut
<1>4. UNCHANGED out => OutSameBut(p)
  BY DEF OutSameBut
<1> HIDE DEF S
<1>5. /\ OthersStay(r)
      /\ UNCHANGED <<scoped, status, plan, entry, merging, pc, round, made>>
      /\ torn => torn'
      /\ \/ can /\ Effect(S) /\ LaneAt(r, next, lane[r].hurt)
            /\ UNCHANGED torn
         \/ ~can /\ UNCHANGED <<tip, out, torn>>
            /\ LaneAt(r, next, lane[r].hurt)
         \/ /\ UNCHANGED <<tip, out>> \/ (can /\ Effect(S \cup {}))
            /\ LaneAt(r, next, TRUE)
            /\ torn' = (torn \/ lane[r].step \in TornByCut)
  BY <1>1, CommandDoes
<1> QED BY <1>2, <1>3, <1>4, <1>5

\* A worktree with branch b is added at p.
Added(p, b) ==
  /\ CanAdd(p, b) /\ OutSameBut(p) /\ DOMAIN out' = DOMAIN out \cup {p}
  /\ out'[p] = b

LEMMA AddingDoes ==
  ASSUME TypeOK, NEW r \in Runs, NEW p, NEW b, NEW ok \in Step, NEW bad \in Step,
         Command(r, CanAdd(p, b), {WithTree(p, b)}, {}, ok, bad)
  PROVE  /\ OthersStay(r) /\ UNCHANGED tip
         /\ UNCHANGED <<scoped, status, plan, entry, merging, pc, round, made>>
         /\ torn => torn'
         /\ \/ Added(p, b) /\ LaneAt(r, ok, lane[r].hurt) /\ UNCHANGED torn
            \/ /\ ~CanAdd(p, b) /\ UNCHANGED <<out, torn>>
               /\ LaneAt(r, bad, lane[r].hurt)
            \/ /\ UNCHANGED out \/ Added(p, b)
               /\ LaneAt(r, bad, TRUE)
               /\ torn' = (torn \/ lane[r].step \in TornByCut)
<1> DEFINE can == CanAdd(p, b)
           S == {WithTree(p, b)}
<1>1. Command(r, can, S, {}, ok, bad)
  OBVIOUS
<1>2. Effect(S) \/ Effect(S \cup {}) => tip' = tip /\ out' = With(out, p, b)
  BY DEF Effect, WithTree, Repo
<1>3. can /\ out' = With(out, p, b) => Added(p, b)
  BY DEF With, Added, OutSameBut
<1> HIDE DEF S, can
<1>4. /\ OthersStay(r)
      /\ UNCHANGED <<scoped, status, plan, entry, merging, pc, round, made>>
      /\ torn => torn'
      /\ \/ can /\ Effect(S) /\ LaneAt(r, ok, lane[r].hurt)
            /\ UNCHANGED torn
         \/ ~can /\ UNCHANGED <<tip, out, torn>>
            /\ LaneAt(r, bad, lane[r].hurt)
         \/ /\ UNCHANGED <<tip, out>> \/ (can /\ Effect(S \cup {}))
            /\ LaneAt(r, bad, TRUE)
            /\ torn' = (torn \/ lane[r].step \in TornByCut)
  BY <1>1, CommandDoes
<1> QED BY <1>2, <1>3, <1>4 DEF can

\* The branch b is set to contain works.
Branched(b, works) ==
  TipSameBut(b) /\ DOMAIN tip' = DOMAIN tip \cup {b} /\ tip'[b] = works

LEMMA BranchingDoes ==
  ASSUME TypeOK, NEW r \in Runs, NEW can, NEW b, NEW works,
         NEW ok \in Step, NEW bad \in Step,
         Command(r, can, {WithBranch(b, works)}, {}, ok, bad)
  PROVE  /\ OthersStay(r) /\ UNCHANGED out
         /\ UNCHANGED <<scoped, status, plan, entry, merging, pc, round, made>>
         /\ torn => torn'
         /\ \/ /\ can /\ Branched(b, works) /\ LaneAt(r, ok, lane[r].hurt)
               /\ UNCHANGED torn
            \/ /\ ~can /\ UNCHANGED <<tip, torn>>
               /\ LaneAt(r, bad, lane[r].hurt)
            \/ /\ UNCHANGED tip \/ (can /\ Branched(b, works))
               /\ LaneAt(r, bad, TRUE)
               /\ torn' = (torn \/ lane[r].step \in TornByCut)
<1> DEFINE S == {WithBranch(b, works)}
<1>1. Command(r, can, S, {}, ok, bad)
  OBVIOUS
<1>2. Effect(S) \/ Effect(S \cup {}) => tip' = With(tip, b, works) /\ out' = out
  BY DEF Effect, WithBranch, Repo
<1>3. tip' = With(tip, b, works) => Branched(b, works)
  BY DEF With, Branched, TipSameBut
<1> HIDE DEF S
<1>4. /\ OthersStay(r)
      /\ UNCHANGED <<scoped, status, plan, entry, merging, pc, round, made>>
      /\ torn => torn'
      /\ \/ can /\ Effect(S) /\ LaneAt(r, ok, lane[r].hurt)
            /\ UNCHANGED torn
         \/ ~can /\ UNCHANGED <<tip, out, torn>>
            /\ LaneAt(r, bad, lane[r].hurt)
         \/ /\ UNCHANGED <<tip, out>> \/ (can /\ Effect(S \cup {}))
            /\ LaneAt(r, bad, TRUE)
            /\ torn' = (torn \/ lane[r].step \in TornByCut)
  BY <1>1, CommandDoes
<1> QED BY <1>2, <1>3, <1>4

LEMMA DeletingDoes ==
  ASSUME TypeOK, NEW r \in Runs, NEW x, NEW next \in Step,
         DeleteBranch(r, {x} \cap DOMAIN tip, next)
  PROVE  /\ OthersStay(r) /\ UNCHANGED <<out, edits>> /\ TipSameBut(x)
         /\ UNCHANGED <<scoped, status, plan, entry, merging, pc, round, made>>
         /\ torn => torn'
         /\ \/ UNCHANGED tip
            \/ ~CheckedOut(x) /\ DOMAIN tip' = DOMAIN tip \ {x}
         /\ \/ /\ CheckedOut(x) \/ x \notin DOMAIN tip'
               /\ LaneAt(r, next, lane[r].hurt) /\ UNCHANGED torn
            \/ /\ LaneAt(r, next, TRUE)
               /\ torn' = (torn \/ lane[r].step \in TornByCut)
<1> DEFINE b == {x} \cap DOMAIN tip
           can == b # {} /\ \A y \in b : ~CheckedOut(y)
           S == {WithoutBranch(y) : y \in b}
<1>1. Command(r, can, S, {}, next, next) /\ UNCHANGED edits
  BY DEF DeleteBranch
<1>2. can => b = {x} /\ ~CheckedOut(x) /\ x \in DOMAIN tip
  OBVIOUS
<1>3. ~can => CheckedOut(x) \/ x \notin DOMAIN tip
  OBVIOUS
<1>4. can /\ (Effect(S) \/ Effect(S \cup {}))
        => tip' = Without(tip, x) /\ out' = out
  BY <1>2 DEF Effect, WithoutBranch, Repo
<1>5. tip' = Without(tip, x)
        => TipSameBut(x) /\ DOMAIN tip' = DOMAIN tip \ {x}
  BY DEF Without, Restrict, TipSameBut
<1>6. UNCHANGED tip => TipSameBut(x)
  BY DEF TipSameBut
<1> HIDE DEF S, can
<1>7. /\ OthersStay(r)
      /\ UNCHANGED <<scoped, status, plan, entry, merging, pc, round, made>>
      /\ torn => torn'
      /\ \/ can /\ Effect(S) /\ LaneAt(r, next, lane[r].hurt)
            /\ UNCHANGED torn
         \/ ~can /\ UNCHANGED <<tip, out, torn>>
            /\ LaneAt(r, next, lane[r].hurt)
         \/ /\ UNCHANGED <<tip, out>> \/ (can /\ Effect(S \cup {}))
            /\ LaneAt(r, next, TRUE)
            /\ torn' = (torn \/ lane[r].step \in TornByCut)
  BY <1>1, CommandDoes
<1>8. UNCHANGED out /\ TipSameBut(x)
  BY <1>4, <1>5, <1>6, <1>7
<1>9. UNCHANGED tip \/ (~CheckedOut(x) /\ DOMAIN tip' = DOMAIN tip \ {x})
  BY <1>2, <1>4, <1>5, <1>7
<1>10. \/ /\ CheckedOut(x) \/ x \notin DOMAIN tip'
          /\ LaneAt(r, next, lane[r].hurt) /\ UNCHANGED torn
       \/ /\ LaneAt(r, next, TRUE)
          /\ torn' = (torn \/ lane[r].step \in TornByCut)
  BY <1>3, <1>4, <1>5, <1>7
<1> QED BY <1>1, <1>7, <1>8, <1>9, <1>10

\* The worktree of an issue has its branch checked out, so its edits can be
\* committed.
LEMMA CommitDoes ==
  ASSUME TypeOK, NEW r \in Runs, Saves(r), NEW ok \in Step, NEW bad \in Step,
         lane[r].issue \in Issues, Commit(r, ok, bad)
  PROVE  LET i == lane[r].issue
         IN  /\ OthersStay(r) /\ UNCHANGED out
             /\ UNCHANGED <<scoped, status, plan, entry, merging, pc, round,
                            made>>
             /\ torn => torn'
             /\ TipSameBut(i) /\ \A j \in Issues : j # i => edits'[j] = edits[j]
             /\ \/ UNCHANGED <<tip, edits>>
                \/ /\ DOMAIN tip' = DOMAIN tip \cup {i}
                   /\ tip'[i] = tip[i] \cup edits[i] /\ edits'[i] = {}
             /\ \/ /\ tip'[i] = tip[i] \cup edits[i]
                   /\ LaneAt(r, ok, lane[r].hurt) /\ UNCHANGED torn
                \/ /\ LaneAt(r, bad, TRUE)
                   /\ torn' = (torn \/ lane[r].step \in TornByCut)
<1> DEFINE i == lane[r].issue
           works == tip[i] \cup edits[i]
           can == Tree(r) \in DOMAIN out
<1>1. Command(r, can, {WithBranch(i, works)}, {}, ok, bad) /\ can
  BY DEF Commit, Saves
<1>2. edits' = IF tip' = tip THEN edits ELSE [edits EXCEPT ![i] = {}]
  BY DEF Commit
<1>3. /\ \A j \in Issues : j # i => edits'[j] = edits[j]
      /\ UNCHANGED edits \/ (tip' # tip /\ edits'[i] = {})
  BY <1>2 DEF TypeOK
<1> HIDE DEF works, can
<1>4. /\ OthersStay(r) /\ UNCHANGED out
      /\ UNCHANGED <<scoped, status, plan, entry, merging, pc, round, made>>
      /\ torn => torn'
      /\ \/ /\ can /\ Branched(i, works) /\ LaneAt(r, ok, lane[r].hurt)
            /\ UNCHANGED torn
         \/ /\ ~can /\ UNCHANGED <<tip, torn>>
            /\ LaneAt(r, bad, lane[r].hurt)
         \/ /\ UNCHANGED tip \/ (can /\ Branched(i, works))
            /\ LaneAt(r, bad, TRUE)
            /\ torn' = (torn \/ lane[r].step \in TornByCut)
  BY <1>1, BranchingDoes
<1>5. UNCHANGED tip \/ Branched(i, works)
  BY <1>4
<1>6. /\ TipSameBut(i)
      /\ \/ UNCHANGED <<tip, edits>>
         \/ /\ DOMAIN tip' = DOMAIN tip \cup {i}
            /\ tip'[i] = works /\ edits'[i] = {}
  <2>1. CASE UNCHANGED tip
    BY <1>2, <2>1 DEF TipSameBut
  <2>2. CASE ~UNCHANGED tip
    BY <1>2, <1>3, <1>5, <2>2 DEF Branched, TypeOK
  <2> QED BY <2>1, <2>2
<1>7. Branched(i, works) => tip'[i] = works
  BY DEF Branched
<1> QED BY <1>1, <1>3, <1>4, <1>6, <1>7 DEF works

LEMMA RemoveTreeDoes ==
  ASSUME TypeOK, NEW r \in Runs, NEW next \in Step, lane[r].issue \in Issues,
         RemoveTree(r, next)
  PROVE  LET i == lane[r].issue
         IN  /\ OthersStay(r) /\ UNCHANGED tip /\ OutSameBut(TreeOf(i))
             /\ UNCHANGED <<scoped, status, plan, entry, merging, pc, round,
                            made>>
             /\ torn => torn'
             /\ UNCHANGED out \/ TreeOf(i) \notin DOMAIN out'
             /\ \A j \in Issues : j # i => edits'[j] = edits[j]
             /\ edits'[i] = {} \/ UNCHANGED edits
             /\ \/ /\ TreeOf(i) \notin DOMAIN out' /\ LaneAt(r, next, lane[r].hurt)
                   /\ UNCHANGED torn
                \/ /\ LaneAt(r, next, TRUE)
                   /\ torn' = (torn \/ lane[r].step \in TornByCut)
<1> DEFINE i == lane[r].issue
<1>1. Tree(r) = TreeOf(i)
  BY DEF Tree, TreeOf
<1>2. ForceRemove(r, Tree(r), next)
  BY DEF RemoveTree
<1>3. /\ \A j \in Issues : j # i => edits'[j] = edits[j]
      /\ edits'[i] = {} \/ UNCHANGED edits
  BY DEF RemoveTree, TypeOK
<1> QED BY <1>1, <1>2, <1>3, ForceRemoveDoes

\* worktree add -b makes the branch, or the branch and the worktree.
LEMMA AddDoes ==
  ASSUME TypeOK, NEW r \in Runs, lane[r].issue \in Issues, Add(r)
  PROVE  LET i == lane[r].issue
         IN  /\ OthersStay(r) /\ SameBase(r) /\ UNCHANGED edits
             /\ UNCHANGED <<scoped, status, plan, entry, merging, pc, round,
                            made>>
             /\ torn => torn'
             /\ TipSameBut(i) /\ OutSameBut(TreeOf(i))
             /\ \/ UNCHANGED <<tip, out>>
                \/ /\ i \notin DOMAIN tip /\ DOMAIN tip' = DOMAIN tip \cup {i}
                   /\ tip'[i] = lane[r].base
                   /\ \/ UNCHANGED out
                      \/ /\ DOMAIN out' = DOMAIN out \cup {TreeOf(i)}
                         /\ out'[TreeOf(i)] = i
             /\ \/ /\ TreeOf(i) \in DOMAIN out'
                   /\ i \in DOMAIN tip' /\ tip'[i] = lane[r].base
                   /\ LaneAt(r, "created", lane[r].hurt) /\ UNCHANGED torn
                \/ LaneAt(r, "attach", lane[r].hurt) /\ UNCHANGED torn
                \/ /\ LaneAt(r, "attach", TRUE)
                   /\ torn' = (torn \/ lane[r].step \in TornByCut)
<1> DEFINE i == lane[r].issue
           base == lane[r].base
           can == i \notin DOMAIN tip /\ Tree(r) \notin DOMAIN out
           S == {WithBoth(Tree(r), i, base)}
           P == {WithBranch(i, base)}
<1>1. Command(r, can, S, P, "created", "attach") /\ UNCHANGED edits
  BY DEF Add
<1>2. Tree(r) = TreeOf(i)
  BY DEF Tree, TreeOf
<1>3. Effect(S) => tip' = With(tip, i, base) /\ out' = With(out, TreeOf(i), i)
  BY <1>2 DEF Effect, WithBoth
<1>4. Effect(S \cup P) => \/ Effect(S)
                          \/ tip' = With(tip, i, base) /\ out' = out
  BY DEF Effect, WithBranch, Repo
<1>5. tip' = With(tip, i, base)
        => TipSameBut(i) /\ DOMAIN tip' = DOMAIN tip \cup {i} /\ tip'[i] = base
  BY DEF With, TipSameBut
<1>6. out' = With(out, TreeOf(i), i)
        => /\ OutSameBut(TreeOf(i)) /\ DOMAIN out' = DOMAIN out \cup {TreeOf(i)}
           /\ out'[TreeOf(i)] = i
  BY DEF With, OutSameBut
<1>7. /\ UNCHANGED tip => TipSameBut(i)
      /\ UNCHANGED out => OutSameBut(TreeOf(i))
  BY DEF TipSameBut, OutSameBut
<1>8. "created" \in Step /\ "attach" \in Step
  BY DEF Step
<1> HIDE DEF S, P, can
<1>9. /\ OthersStay(r) /\ SameBase(r)
      /\ UNCHANGED <<scoped, status, plan, entry, merging, pc, round, made>>
      /\ torn => torn'
      /\ \/ can /\ Effect(S) /\ LaneAt(r, "created", lane[r].hurt)
            /\ UNCHANGED torn
         \/ ~can /\ UNCHANGED <<tip, out, torn>>
            /\ LaneAt(r, "attach", lane[r].hurt)
         \/ /\ UNCHANGED <<tip, out>> \/ (can /\ Effect(S \cup P))
            /\ LaneAt(r, "attach", TRUE)
            /\ torn' = (torn \/ lane[r].step \in TornByCut)
  BY <1>1, <1>8, CommandDoes
<1>10. CASE Effect(S) /\ can
  <2>1. /\ tip'[i] = base /\ TipSameBut(i) /\ i \notin DOMAIN tip
        /\ DOMAIN tip' = DOMAIN tip \cup {i}
        /\ OutSameBut(TreeOf(i)) /\ DOMAIN out' = DOMAIN out \cup {TreeOf(i)}
        /\ out'[TreeOf(i)] = i
    BY <1>3, <1>5, <1>6, <1>10 DEF can
  <2> QED BY <1>1, <1>9, <2>1
<1>11. CASE tip' = With(tip, i, base) /\ out' = out /\ can
  <2>1. i \notin DOMAIN tip
    BY <1>11 DEF can
  <2>2. CASE LaneAt(r, "attach", TRUE)
               /\ torn' = (torn \/ lane[r].step \in TornByCut)
    BY <1>1, <1>5, <1>7, <1>9, <1>11, <2>1, <2>2
  <2> QED BY <1>9, <1>10, <1>11, <2>2
<1>12. CASE UNCHANGED <<tip, out>>
  BY <1>1, <1>7, <1>9, <1>10, <1>12
<1> QED BY <1>4, <1>9, <1>10, <1>11, <1>12

-----------------------------------------------------------------------------
(* The runs a step is not about. *)

\* Nothing of the run changes, and its integration branch only gains works.
Kept(q) ==
  /\ scoped'[q] = scoped[q] /\ status'[q] = status[q] /\ plan'[q] = plan[q]
  /\ lane'[q] = lane[q]
  /\ \A j \in IssuesOf(q) :
       /\ entry'[j] = entry[j] /\ pc'[j] = pc[j] /\ round'[j] = round[j]
       /\ made'[j] = made[j] /\ SameGit(j)
  /\ Grows(Target(q))
  /\ torn => torn'

LEMMA KeptGit ==
  ASSUME NEW q \in Runs, Kept(q)
  PROVE  /\ Target(q)' = Target(q) /\ Current(q)' = Current(q)
         /\ Target(q) \in DOMAIN tip => Target(q) \in DOMAIN tip'
         /\ \A S : S \subseteq On(Target(q)) => S \subseteq On(Target(q))'
         /\ \A j \in IssuesOf(q) : On(j)' = On(j) /\ Has(j)' = Has(j)
BY DEF Kept, Target, Current, Grows, On, SameGit, Has

LEMMA KeptRunInv ==
  ASSUME TypeOK, NEW q \in Runs, RunInv(q), Kept(q)
  PROVE  RunInv(q)'
<1>1. /\ Target(q)' = Target(q) /\ Current(q)' = Current(q)
      /\ Target(q) \in DOMAIN tip => Target(q) \in DOMAIN tip'
      /\ \A S : S \subseteq On(Target(q)) => S \subseteq On(Target(q))'
      /\ \A j \in IssuesOf(q) : On(j)' = On(j) /\ Has(j)' = Has(j)
  BY KeptGit
<1>2. \A i \in Current(q) : i \in IssuesOf(q) /\ Deps[i] \subseteq Current(q)
  BY CurrentFacts
<1>3. LaneOK(q)'
  <2>1. LaneOK(q)
    BY DEF RunInv
  <2> QED BY <1>1, <1>2, <2>1 DEF LaneOK, Kept, Creating, Finishing, Removing
<1>4. RunOK(q)'
  <2>1. RunOK(q)
    BY DEF RunInv
  <2>2. \A k \in DOMAIN Plans[q] : \A i \in Plans[q][k] : i \in IssuesOf(q)
    BY DEF IssuesOf
  <2> QED BY <1>1, <1>2, <2>1, <2>2 DEF RunOK, Kept, SameGit
<1>5. LaneGitOK(q)'
  <2>1. LaneOK(q) /\ LaneGitOK(q)
    BY DEF RunInv
  <2>2. lane'[q] = lane[q] /\ (torn => torn')
    BY DEF Kept
  <2>3. \A j \in IssuesOf(q) : made'[j] = made[j]
    BY DEF Kept
  <2>4. lane[q].step \in Creating \cup Finishing \cup Removing
          => lane[q].issue \in Current(q)
    BY <2>1 DEF LaneOK
  <2>5. CASE lane[q].step \in Creating \cup Finishing \cup Removing
    <3>0. PICK i \in Current(q) : i = lane[q].issue
      BY <2>4, <2>5
    <3>1. i \in IssuesOf(q)
      BY <1>2
    <3>2. \A d \in Deps[i] : made'[d] = made[d]
      BY <1>2, <2>3, <3>1
    <3>3. On(i)' = On(i) /\ Has(i)' = Has(i) /\ made'[i] = made[i]
      BY <1>1, <2>3, <3>1
    <3> QED BY <1>1, <2>1, <2>2, <3>0, <3>2, <3>3
            DEF LaneGitOK, GoodBase, Creating, Finishing, Removing, On, Has
  <2>6. CASE lane[q].step \notin Creating \cup Finishing \cup Removing
    BY <2>2, <2>6 DEF LaneGitOK, Creating, Finishing, Removing
  <2> QED BY <2>5, <2>6
<1>6. ASSUME status'[q] # "PLANNING", NEW i \in Current(q)
      PROVE  IssueOK(q, i)' /\ DepsOK(q, i)'
  <2>1. IssueOK(q, i) /\ DepsOK(q, i)
    BY <1>6 DEF RunInv, Kept
  <2>2. i \in IssuesOf(q) /\ \A d \in Deps[i] : d \in IssuesOf(q)
    BY <1>2
  <2>3. IssueOK(q, i)'
    BY <1>1, <2>1, <2>2 DEF IssueOK, GoodBase, Kept, SameGit
  <2>4. DepsOK(q, i)'
    BY <2>1, <2>2 DEF DepsOK, Kept, SameGit
  <2> QED BY <2>3, <2>4
<1> QED BY <1>1, <1>3, <1>4, <1>5, <1>6 DEF RunInv

-----------------------------------------------------------------------------
(* What the invariant says of a sequence, and what a step of it has to show. *)

\* A sequence that prepares a claim.
LEMMA CreatingFacts ==
  ASSUME TypeOK, NEW r \in Runs, RunInv(r), lane[r].step \in Creating,
         NEW i, i = lane[r].issue
  PROVE  /\ i \in Current(r) /\ i \in Issues /\ status[r] # "PLANNING"
         /\ IssueOK(r, i) /\ DepsOK(r, i) /\ LaneGitOK(r)
         /\ pc[i] = "claimed" /\ entry[i].status = "running" /\ ~entry[i].dir
         /\ \A d \in Deps[i] : entry[d].status = "done"
                               /\ made[d] \subseteq On(Target(r))
<1>1. /\ i \in Current(r) /\ status[r] # "PLANNING"
      /\ pc[i] = "claimed" /\ ~entry[i].dir /\ LaneGitOK(r)
  BY DEF RunInv, LaneOK, Creating, Dropping
<1>2. i \in Issues /\ Deps[i] \subseteq Current(r)
  BY <1>1, CurrentFacts
<1>3. \A j \in Current(r) : IssueOK(r, j) /\ DepsOK(r, j)
  BY <1>1 DEF RunInv
<1>4. entry[i].status = "running" /\ \A d \in Deps[i] : entry[d].status = "done"
  BY <1>1, <1>3 DEF IssueOK, DepsOK
<1>5. \A d \in Deps[i] : made[d] \subseteq On(Target(r))
  BY <1>2, <1>3, <1>4 DEF IssueOK
<1> QED BY <1>1, <1>2, <1>3, <1>4, <1>5

\* A sequence that finishes a success.
LEMMA FinishingFacts ==
  ASSUME TypeOK, OutOK, NEW r \in Runs, RunInv(r), lane[r].step \in Finishing,
         NEW i, i = lane[r].issue
  PROVE  /\ i \in Current(r) /\ i \in Issues /\ status[r] # "PLANNING"
         /\ IssueOK(r, i) /\ DepsOK(r, i) /\ LaneGitOK(r)
         /\ pc[i] = "succeeded" /\ entry[i].status = "running" /\ entry[i].dir
         /\ Has(i) /\ out[TreeOf(i)] = i /\ i \in DOMAIN tip
         /\ Target(r) \in DOMAIN tip /\ GoodBase(r, i, entry[i].base)
         /\ Saves(r)
<1>1. /\ i \in Current(r) /\ status[r] # "PLANNING"
      /\ pc[i] = "succeeded" /\ LaneGitOK(r)
  BY DEF RunInv, LaneOK, Finishing, Dropping
<1>2. i \in Issues
  BY <1>1, CurrentFacts
<1>3. IssueOK(r, i) /\ DepsOK(r, i)
  BY <1>1 DEF RunInv
<1>4. entry[i].status = "running" /\ entry[i].dir
  BY <1>1, <1>3 DEF IssueOK
<1>5. /\ Has(i) /\ Target(r) \in DOMAIN tip
      /\ GoodBase(r, i, entry[i].base)
  BY <1>3, <1>4 DEF IssueOK
<1>6. out[TreeOf(i)] = i /\ TreeOf(i) \in DOMAIN out
  BY <1>5 DEF OutOK, TreeOf, Has
<1>7. i \in DOMAIN tip
  BY <1>6 DEF TypeOK, Range
<1>8. Saves(r)
  BY <1>6 DEF Saves, Tree, TreeOf
<1> QED BY <1>1, <1>2, <1>3, <1>4, <1>5, <1>6, <1>7, <1>8

LEMMA RemovingFacts ==
  ASSUME TypeOK, NEW r \in Runs, RunInv(r), lane[r].step \in Removing,
         NEW i, i = lane[r].issue
  PROVE  /\ i \in Current(r) /\ i \in Issues /\ status[r] # "PLANNING"
         /\ IssueOK(r, i) /\ DepsOK(r, i) /\ LaneGitOK(r)
         /\ pc[i] = "idle" /\ (entry[i].status = "done" \/ ~entry[i].dir)
         /\ Target(r) \in DOMAIN tip /\ made[i] \subseteq On(Target(r))
<1>1. /\ i \in Current(r) /\ status[r] # "PLANNING"
      /\ pc[i] = "idle" /\ (entry[i].status = "done" \/ ~entry[i].dir)
      /\ LaneGitOK(r)
  BY DEF RunInv, LaneOK, Removing, Dropping
<1>2. i \in Issues /\ IssueOK(r, i) /\ DepsOK(r, i)
  BY <1>1, CurrentFacts DEF RunInv
<1>3. Target(r) \in DOMAIN tip /\ made[i] \subseteq On(Target(r))
  BY <1>1 DEF LaneGitOK, Removing
<1> QED BY <1>1, <1>2, <1>3

\* The sequence goes on with the same issue, or ends.
SameClass(s, t) ==
  \/ s \in Creating /\ t \in Creating \cup {"free"}
  \/ s \in Finishing /\ t \in Finishing
  \/ s \in Removing /\ t \in Removing \cup {"free"}
  \/ s \in Dropping /\ t \in {"dropNext", "planned"}
  \/ s = "dropTree" /\ t = "dropBranch"

LEMMA LaneOn ==
  ASSUME TypeOK, NEW r \in Runs, LaneOK(r),
         NEW s, NEW h, LaneAt(r, s, h), SameClass(lane[r].step, s),
         UNCHANGED <<scoped, status, plan, entry, pc>>
  PROVE  LaneOK(r)'
<1>1. Current(r)' = Current(r)
  BY DEF Current
<1>2. CASE s = "free"
  <2>1. lane'[r] = Idle
    BY <1>2 DEF LaneAt
  <2>2. lane[r].step \in Creating \cup Removing
    BY <1>2 DEF SameClass, Finishing
  <2> QED BY <1>1, <2>1, <2>2
          DEF LaneOK, Idle, Creating, Finishing, Removing, Dropping
<1>3. CASE s # "free"
  <2>1. /\ lane'[r].step = s /\ lane'[r].issue = lane[r].issue
        /\ lane'[r].todo = lane[r].todo
    BY <1>3 DEF LaneAt
  <2>2. CASE s \in Creating /\ lane[r].step \in Creating
    BY <1>1, <2>1, <2>2
       DEF LaneOK, Creating, Finishing, Removing, Dropping
  <2>3. CASE s \in Finishing /\ lane[r].step \in Finishing
    BY <1>1, <2>1, <2>3
       DEF LaneOK, Creating, Finishing, Removing, Dropping
  <2>4. CASE s \in Removing /\ lane[r].step \in Removing
    BY <1>1, <2>1, <2>4
       DEF LaneOK, Creating, Finishing, Removing, Dropping
  <2>5. CASE s \in {"dropNext", "planned"} /\ lane[r].step \in Dropping
    BY <1>1, <2>1, <2>5
       DEF LaneOK, Creating, Finishing, Removing, Dropping
  <2>6. CASE s = "dropBranch" /\ lane[r].step = "dropTree"
    BY <1>1, <2>1, <2>6
       DEF LaneOK, Creating, Finishing, Removing, Dropping
  <2> QED BY <1>3, <2>2, <2>3, <2>4, <2>5, <2>6 DEF SameClass
<1> QED BY <1>2, <1>3

LEMMA RunOn ==
  ASSUME TypeOK, NEW r \in Runs, RunOK(r), Framed(r)
  PROVE  RunOK(r)'
<1>1. Current(r)' = Current(r)
  BY DEF Current, Framed
<1>2. \A k \in DOMAIN Plans[r] : k # plan[r] =>
        \A j \in Plans[r][k] : j \in Issues /\ j \notin Current(r)
  BY IssueFacts DEF TypeOK, Current
<1>3. \A k \in DOMAIN Plans[r] : k # plan[r] =>
        \A j \in Plans[r][k] : SameGit(j)
  BY <1>2 DEF Framed, Own
<1>4. plan[r] \in Nat /\ DOMAIN Plans[r] \subseteq Nat
  BY WorktreesAssumption DEF TypeOK
<1> QED BY <1>1, <1>3, <1>4 DEF RunOK, Framed, SameGit

LEMMA OthersKept ==
  ASSUME TypeOK, NEW r \in Runs, LaneOK(r), Framed(r),
         NEW q \in Runs, q # r
  PROVE  Kept(q)
<1>1. \A j \in IssuesOf(q) : j \in Issues /\ ~Own(r, j)
  BY IssuesOfIn, IssueFacts, CurrentFacts DEF Own
<1>2. \A j \in IssuesOf(q) : SameGit(j)
  BY <1>1 DEF Framed
<1>3. Grows(Target(q))
  <2>1. Target(q) \in Runs \cup {Shared}
    BY TargetFacts
  <2>2. lane[r].step = "dropTarget" => Target(q) # Target(r)
    BY WorktreesAssumption DEF LaneOK, Target
  <2> QED BY <2>1, <2>2 DEF Framed
<1> QED BY <1>2, <1>3 DEF Kept, Framed, OthersStay

\* A step of a sequence that works for an issue keeps the invariant of its
\* run, if it keeps what is said of that issue and of the sequence.
LEMMA WorkOn ==
  ASSUME TypeOK, NEW r \in Runs, RunInv(r), Framed(r),
         lane[r].step \in Creating \cup Finishing \cup Removing,
         NEW i, i = lane[r].issue,
         NEW s, NEW h, LaneAt(r, s, h), SameClass(lane[r].step, s),
         IssueOK(r, i)', DepsOK(r, i)', LaneGitOK(r)'
  PROVE  RunInv(r)'
<1>1. Current(r)' = Current(r) /\ Target(r)' = Target(r)
  BY DEF Current, Target, Framed
<1>2. LaneOK(r)'
  BY LaneOn DEF RunInv, Framed
<1>3. RunOK(r)'
  BY RunOn DEF RunInv
<1>4. /\ i \in Current(r) /\ lane[r].step \notin Dropping
      /\ status[r] # "PLANNING"
  BY DEF RunInv, LaneOK, Creating, Finishing, Removing, Dropping
<1>5. Grows(Target(r))
  BY <1>4, TargetFacts DEF Framed, Dropping
<1>6. ASSUME NEW j \in Current(r), j # i
      PROVE  IssueOK(r, j)' /\ DepsOK(r, j)'
  <2>1. IssueOK(r, j) /\ DepsOK(r, j) /\ j \in Issues
    BY <1>4, CurrentFacts DEF RunInv
  <2>2. SameGit(j)
    BY <1>6, <2>1 DEF Framed, Own
  <2>3. On(j)' = On(j)
    BY <2>2 DEF SameGit, On
  <2>4. /\ Target(r) \in DOMAIN tip => Target(r) \in DOMAIN tip'
        /\ \A S : S \subseteq On(Target(r)) => S \subseteq On(Target(r))'
    BY <1>1, <1>5 DEF Grows, On
  <2>5. IssueOK(r, j)'
    BY <1>1, <2>1, <2>2, <2>3, <2>4 DEF IssueOK, GoodBase, Framed, SameGit
  <2>6. ~(lane[r].step \in Removing /\ lane[r].issue = j)
    BY <1>6
  <2>7. DepsOK(r, j)'
    BY <2>1, <2>2, <2>6 DEF DepsOK, Framed, SameGit
  <2> QED BY <2>5, <2>7
<1> QED BY <1>1, <1>2, <1>3, <1>6 DEF RunInv

\* A command that leaves the issue alone keeps what is said of it.
LEMMA QuietIssue ==
  ASSUME TypeOK, NEW r \in Runs, Quiet(r), NEW i \in Current(r),
         IssueOK(r, i), DepsOK(r, i), lane[r].step \notin Removing
  PROVE  IssueOK(r, i)' /\ DepsOK(r, i)'
<1>1. Current(r)' = Current(r) /\ Target(r)' = Target(r)
  BY DEF Current, Target, Quiet, Framed
<1>2. SameGit(i) /\ i \in Issues
  BY CurrentFacts DEF Quiet
<1>3. On(i)' = On(i)
  BY <1>2 DEF SameGit, On
<1>4. /\ Target(r) \in DOMAIN tip => Target(r) \in DOMAIN tip'
      /\ \A S : S \subseteq On(Target(r)) => S \subseteq On(Target(r))'
  BY <1>1 DEF Grows, On, Quiet
<1>5. IssueOK(r, i)'
  BY <1>1, <1>2, <1>3, <1>4 DEF IssueOK, GoodBase, Quiet, Framed, SameGit
<1>6. DepsOK(r, i)'
  BY <1>2 DEF DepsOK, Quiet, Framed, SameGit
<1> QED BY <1>5, <1>6

\* A step of a cleanup, while the run is planned again.
LEMMA DropOn ==
  ASSUME TypeOK, NEW r \in Runs, RunInv(r), Framed(r),
         lane[r].step \in Dropping,
         NEW s, NEW h, LaneAt(r, s, h), SameClass(lane[r].step, s)
  PROVE  RunInv(r)'
<1>1. Current(r)' = Current(r)
  BY DEF Current, Framed
<1>2. LaneOK(r)'
  BY LaneOn DEF RunInv, Framed
<1>3. RunOK(r)'
  BY RunOn DEF RunInv
<1>4. status'[r] = "PLANNING"
  BY DEF RunInv, LaneOK, Framed
<1>5. LaneGitOK(r)'
  BY <1>2, <1>4 DEF LaneOK, LaneGitOK, Dropping, Removing
<1> QED BY <1>2, <1>3, <1>4, <1>5 DEF RunInv

\* What a step of a sequence has to show for the merges.
LEMMA MergeOn ==
  ASSUME TypeOK, MergeOK, NEW r \in Runs, OthersStay(r), torn => torn',
         lane'[r].step \in MergeSteps
           => lane[r].step \in MergeSteps \/ LockFree(r),
         ~torn' => \A p \in DOMAIN out' : p[1] = "merge" =>
           \/ lane'[r].step \in Held /\ p = <<"merge", lane'[r].issue>>
           \/ lane[r].step \notin Held /\ p \in DOMAIN out,
         ~torn' => (lane'[r].step \in {"mClear", "mRetry", "abort", "notMerged"}
                      => lane'[r].hurt)
  PROVE  MergeOK'
<1>1. ASSUME NEW a \in Runs, NEW b \in Runs,
             lane'[a].step \in MergeSteps, lane'[b].step \in MergeSteps
      PROVE  a = b
  BY <1>1 DEF MergeOK, OthersStay, LockFree
<1>2. ASSUME ~torn', NEW p \in DOMAIN out', p[1] = "merge"
      PROVE  \E q \in Runs : lane'[q].step \in Held
                             /\ p = <<"merge", lane'[q].issue>>
  BY <1>2 DEF MergeOK, OthersStay, MergeTree
<1>3. ASSUME ~torn', NEW q \in Runs,
             lane'[q].step \in {"mClear", "mRetry", "abort", "notMerged"}
      PROVE  lane'[q].hurt
  BY <1>3 DEF MergeOK, OthersStay
<1> QED BY <1>1, <1>2, <1>3 DEF MergeOK, MergeTree

-----------------------------------------------------------------------------
(* The commands that prepare a claim. *)

Keeps(r) == Framed(r) /\ RunInv(r)' /\ OutOK' /\ MergeOK'

\* A command that only touches the issue's branch and worktree has nothing
\* to show for the merges.
LEMMA CreatingMerges ==
  ASSUME Inv, NEW r \in Runs, OthersStay(r), torn => torn',
         lane[r].step \in Creating,
         NEW s \in Creating \cup {"free"}, NEW h, LaneAt(r, s, h),
         \A p \in DOMAIN out' : p[1] = "merge" => p \in DOMAIN out
  PROVE  MergeOK'
<1>1. lane'[r].step = s
  BY DEF LaneAt, Idle
<1>2. lane'[r].step \notin MergeSteps \cup Held \cup {"notMerged"}
  BY <1>1 DEF MergeSteps, Held, Creating
<1>3. lane[r].step \notin Held
  BY DEF Held, Creating
<1>4. lane'[r].step \notin {"mClear", "mRetry", "abort", "notMerged"}
  BY <1>2 DEF MergeSteps
<1> QED BY <1>2, <1>3, <1>4, MergeOn DEF Inv

LEMMA LookKeeps ==
  ASSUME Inv, NEW r \in Runs, Look(r)
  PROVE  Keeps(r)
<1>1. PICK i : i = lane[r].issue
  OBVIOUS
<1>2. /\ TypeOK /\ OutOK /\ RunInv(r) /\ lane[r].step = "look"
      /\ Query(r, Target(r) \in DOMAIN tip, "head", "branch")
      /\ "head" \in Step /\ "branch" \in Step
  BY DEF Inv, Look, At, Step
<1>3. /\ Quiet(r) /\ UNCHANGED <<tip, out, edits>>
      /\ \/ Target(r) \in DOMAIN tip /\ LaneAt(r, "head", lane[r].hurt)
         \/ LaneAt(r, "branch", lane[r].hurt)
         \/ LaneAt(r, "branch", TRUE)
  BY <1>2, Reading
<1>4. lane[r].step \in Creating /\ lane[r].step \notin Removing
  BY <1>2 DEF Creating, Removing
<1>5. i \in Current(r) /\ IssueOK(r, i) /\ DepsOK(r, i)
  BY <1>1, <1>2, <1>4, CreatingFacts
<1>6. IssueOK(r, i)' /\ DepsOK(r, i)'
  BY <1>2, <1>3, <1>4, <1>5, QuietIssue
<1>7. PICK s \in {"head", "branch"}, h \in {lane[r].hurt, TRUE} :
        LaneAt(r, s, h) /\ (s = "head" => Target(r) \in DOMAIN tip)
  BY <1>3
<1>8. SameClass(lane[r].step, s) /\ s \in Creating \cup {"free"}
  BY <1>4, <1>7 DEF SameClass, Creating
<1>9. LaneGitOK(r)'
  BY <1>3, <1>7 DEF LaneGitOK, LaneAt, Target, Quiet, Framed, Removing
<1>10. Framed(r) /\ OthersStay(r) /\ (torn => torn')
  BY <1>3 DEF Quiet, Framed
<1>11. RunInv(r)'
  BY <1>1, <1>2, <1>4, <1>6, <1>7, <1>8, <1>9, <1>10, WorkOn
<1>12. MergeOK'
  BY <1>3, <1>4, <1>7, <1>8, <1>10, CreatingMerges
<1>13. OutOK'
  BY <1>2, <1>3 DEF OutOK
<1> QED BY <1>10, <1>11, <1>12, <1>13 DEF Keeps

LEMMA BranchKeeps ==
  ASSUME Inv, NEW r \in Runs, Branch(r)
  PROVE  Keeps(r)
<1>1. PICK i : i = lane[r].issue
  OBVIOUS
<1>2. /\ TypeOK /\ OutOK /\ RunInv(r) /\ lane[r].step = "branch"
      /\ Command(r, NameFree(Target(r)), {WithBranch(Target(r), {})}, {},
                 "head", "notCreated")
      /\ UNCHANGED edits
      /\ "head" \in Step /\ "notCreated" \in Step
  BY DEF Inv, Branch, At, Step
<1>3. /\ OthersStay(r) /\ UNCHANGED out
      /\ UNCHANGED <<scoped, status, plan, entry, merging, pc, round, made>>
      /\ torn => torn'
      /\ \/ /\ NameFree(Target(r)) /\ Branched(Target(r), {})
            /\ LaneAt(r, "head", lane[r].hurt)
         \/ UNCHANGED tip /\ LaneAt(r, "notCreated", lane[r].hurt)
         \/ /\ UNCHANGED tip \/ (NameFree(Target(r)) /\ Branched(Target(r), {}))
            /\ LaneAt(r, "notCreated", TRUE)
  <2> DEFINE b == Target(r)
             can == NameFree(b)
  <2>1. Command(r, can, {WithBranch(b, {})}, {}, "head", "notCreated")
    BY <1>2
  <2> HIDE DEF b, can
  <2>2. /\ OthersStay(r) /\ UNCHANGED out
        /\ UNCHANGED <<scoped, status, plan, entry, merging, pc, round, made>>
        /\ torn => torn'
        /\ \/ /\ can /\ Branched(b, {}) /\ LaneAt(r, "head", lane[r].hurt)
              /\ UNCHANGED torn
           \/ /\ ~can /\ UNCHANGED <<tip, torn>>
              /\ LaneAt(r, "notCreated", lane[r].hurt)
           \/ /\ UNCHANGED tip \/ (can /\ Branched(b, {}))
              /\ LaneAt(r, "notCreated", TRUE)
              /\ torn' = (torn \/ lane[r].step \in TornByCut)
    BY <1>2, <2>1, BranchingDoes
  <2> QED BY <2>2 DEF b, can
<1>4. lane[r].step \in Creating /\ lane[r].step \notin Removing
  BY <1>2 DEF Creating, Removing
<1>5. i \in Current(r) /\ IssueOK(r, i) /\ DepsOK(r, i)
  BY <1>1, <1>2, <1>4, CreatingFacts
<1>6. /\ Target(r) \in Runs \cup {Shared} /\ Target(r) \notin Issues
  BY TargetFacts
<1>7. /\ \A b \in Runs \cup {Shared} : Grows(b)
      /\ \A j \in Issues : SameGit(j)
  BY <1>2, <1>3, <1>6 DEF Grows, SameGit, Branched, TipSameBut, NameFree, Has
<1>8. Quiet(r) /\ Framed(r)
  BY <1>3, <1>6, <1>7 DEF Quiet, Framed
<1>9. IssueOK(r, i)' /\ DepsOK(r, i)'
  BY <1>2, <1>4, <1>5, <1>8, QuietIssue
<1>10. PICK s \in {"head", "notCreated"}, h \in {lane[r].hurt, TRUE} :
        LaneAt(r, s, h) /\ (s = "head" => Branched(Target(r), {}))
  BY <1>3
<1>11. SameClass(lane[r].step, s) /\ s \in Creating \cup {"free"}
  BY <1>4, <1>10 DEF SameClass, Creating
<1>12. LaneGitOK(r)'
  BY <1>3, <1>10 DEF LaneGitOK, LaneAt, Target, Branched, Removing
<1>13. RunInv(r)'
  BY <1>1, <1>2, <1>4, <1>8, <1>9, <1>10, <1>11, <1>12, WorkOn
<1>14. MergeOK'
  BY <1>3, <1>4, <1>10, <1>11, CreatingMerges
<1>15. OutOK'
  BY <1>2, <1>3 DEF OutOK
<1> QED BY <1>8, <1>13, <1>14, <1>15 DEF Keeps

LEMMA CheckKeeps ==
  ASSUME Inv, NEW r \in Runs, Check(r)
  PROVE  Keeps(r)
<1>1. PICK i : i = lane[r].issue
  OBVIOUS
<1>2. /\ TypeOK /\ OutOK /\ RunInv(r) /\ lane[r].step = "check"
      /\ Query(r, Tree(r) \in DOMAIN out /\ out[Tree(r)] = lane[r].issue,
               "base", "notCreated")
      /\ "base" \in Step /\ "notCreated" \in Step
  BY DEF Inv, Check, At, Step
<1>3. /\ Quiet(r) /\ UNCHANGED <<tip, out, edits>>
      /\ \/ Has(i) /\ LaneAt(r, "base", lane[r].hurt)
         \/ LaneAt(r, "notCreated", lane[r].hurt)
         \/ LaneAt(r, "notCreated", TRUE)
  BY <1>1, <1>2, Reading DEF Tree, TreeOf, Has
<1>4. lane[r].step \in Creating /\ lane[r].step \notin Removing
  BY <1>2 DEF Creating, Removing
<1>5. i \in Current(r) /\ IssueOK(r, i) /\ DepsOK(r, i) /\ LaneGitOK(r)
  BY <1>1, <1>2, <1>4, CreatingFacts
<1>6. IssueOK(r, i)' /\ DepsOK(r, i)'
  BY <1>2, <1>3, <1>4, <1>5, QuietIssue
<1>7. PICK s \in {"base", "notCreated"}, h \in {lane[r].hurt, TRUE} :
        LaneAt(r, s, h) /\ (s = "base" => Has(i))
  BY <1>3
<1>8. SameClass(lane[r].step, s) /\ s \in Creating \cup {"free"}
  BY <1>4, <1>7 DEF SameClass, Creating
<1>9. LaneGitOK(r)'
  <2>1. Target(r) \in DOMAIN tip /\ Target(r)' = Target(r)
    BY <1>2, <1>3, <1>5 DEF LaneGitOK, Target, Quiet, Framed
  <2>2. s = "base" => Has(i)' /\ lane'[r].issue = i
    BY <1>1, <1>3, <1>7 DEF Has, LaneAt
  <2> QED BY <1>3, <1>7, <2>1, <2>2 DEF LaneGitOK, LaneAt, Removing, Has
<1>10. Framed(r) /\ OthersStay(r) /\ (torn => torn')
  BY <1>3 DEF Quiet, Framed
<1>11. RunInv(r)'
  BY <1>1, <1>2, <1>4, <1>6, <1>7, <1>8, <1>9, <1>10, WorkOn
<1>12. MergeOK'
  BY <1>3, <1>4, <1>7, <1>8, <1>10, CreatingMerges
<1>13. OutOK'
  BY <1>2, <1>3 DEF OutOK
<1> QED BY <1>10, <1>11, <1>12, <1>13 DEF Keeps

\* A command whose answer is kept as the base of the worktree.
LEMMA ReadingBase ==
  ASSUME TypeOK, NEW r \in Runs, NEW works, NEW ok \in Creating,
         Read(r, works, ok)
  PROVE  /\ Quiet(r) /\ UNCHANGED <<tip, out, edits>>
         /\ \/ LaneAt(r, ok, lane[r].hurt) /\ lane'[r].base = works
            \/ LaneAt(r, "notCreated", lane[r].hurt)
<1>1. /\ UNCHANGED <<scoped, status, plan, entry, merging, pc, round, made>>
      /\ UNCHANGED <<tip, out, edits, torn>>
  BY DEF Read, ledger, git
<1>2. CASE lane' = [lane EXCEPT ![r].step = ok, ![r].base = works]
  <2>1. OthersStay(r)
    BY <1>2 DEF OthersStay, TypeOK
  <2>2. LaneAt(r, ok, lane[r].hurt) /\ lane'[r].base = works
    BY <1>2 DEF TypeOK, LaneAt, Creating
  <2>3. Quiet(r)
    BY <1>1, <2>1 DEF Quiet, Framed, SameGit, Grows, Has
  <2> QED BY <1>1, <2>2, <2>3
<1>3. CASE Goes(r, "notCreated")
  <2>1. LaneAt(r, "notCreated", lane[r].hurt) /\ OthersStay(r)
    BY <1>3, GoesTo DEF Step
  <2>2. Quiet(r)
    BY <1>1, <2>1 DEF Quiet, Framed, SameGit, Grows, Has
  <2> QED BY <1>1, <2>1, <2>2
<1> QED BY <1>2, <1>3 DEF Read

LEMMA ReadKeeps ==
  ASSUME Inv, NEW r \in Runs, lane[r].step \in Creating,
         NEW works, NEW ok \in Creating, Read(r, works, ok),
         lane'[r].step = ok /\ lane'[r].base = works => LaneGitOK(r)'
  PROVE  Keeps(r)
<1>1. PICK i : i = lane[r].issue
  OBVIOUS
<1>2. TypeOK /\ OutOK /\ RunInv(r)
  BY DEF Inv
<1>3. /\ Quiet(r) /\ UNCHANGED <<tip, out, edits>>
      /\ \/ LaneAt(r, ok, lane[r].hurt) /\ lane'[r].base = works
         \/ LaneAt(r, "notCreated", lane[r].hurt)
  BY <1>2, ReadingBase
<1>4. lane[r].step \notin Removing
  BY DEF Creating, Removing
<1>5. i \in Current(r) /\ IssueOK(r, i) /\ DepsOK(r, i)
  BY <1>1, <1>2, CreatingFacts
<1>6. IssueOK(r, i)' /\ DepsOK(r, i)'
  BY <1>2, <1>3, <1>4, <1>5, QuietIssue
<1>7. PICK s \in {ok, "notCreated"}, h \in {lane[r].hurt, TRUE} :
        LaneAt(r, s, h) /\ (s # "notCreated" => lane'[r].base = works)
  BY <1>3
<1>8. SameClass(lane[r].step, s) /\ s \in Creating \cup {"free"}
  BY <1>7 DEF SameClass, Creating
<1>9. LaneGitOK(r)'
  BY <1>7, <1>8 DEF LaneGitOK, LaneAt, Removing, Creating
<1>10. Framed(r) /\ OthersStay(r) /\ (torn => torn')
  BY <1>3 DEF Quiet, Framed
<1>11. RunInv(r)'
  BY <1>1, <1>2, <1>6, <1>7, <1>8, <1>9, <1>10, WorkOn
<1>12. MergeOK'
  BY <1>3, <1>7, <1>8, <1>10, CreatingMerges
<1>13. OutOK'
  BY <1>2, <1>3 DEF OutOK
<1> QED BY <1>10, <1>11, <1>12, <1>13 DEF Keeps

LEMMA HeadKeeps ==
  ASSUME Inv, NEW r \in Runs, Head(r)
  PROVE  Keeps(r)
<1>1. PICK i : i = lane[r].issue
  OBVIOUS
<1>2. /\ TypeOK /\ RunInv(r) /\ lane[r].step = "head"
      /\ Read(r, tip[Target(r)], "add")
      /\ lane[r].step \in Creating /\ "add" \in Creating
  BY DEF Inv, Head, At, Creating
<1>3. /\ LaneGitOK(r)
      /\ \A d \in Deps[i] : made[d] \subseteq On(Target(r))
  BY <1>1, <1>2, CreatingFacts
<1>4. Target(r) \in DOMAIN tip
  BY <1>2, <1>3 DEF LaneGitOK
<1>5. UNCHANGED <<scoped, made, tip, out>> /\ lane'[r].issue = i
  BY <1>1, <1>2 DEF Read, ledger, git, Goes, TypeOK
<1>6. On(Target(r))' = tip[Target(r)] /\ On(Target(r)) = tip[Target(r)]
  BY <1>4, <1>5 DEF On, Target
<1>7. lane'[r].step = "add" /\ lane'[r].base = tip[Target(r)] => LaneGitOK(r)'
  BY <1>3, <1>4, <1>5, <1>6 DEF LaneGitOK, Removing, Target
<1> QED BY <1>2, <1>7, ReadKeeps

LEMMA BaseKeeps ==
  ASSUME Inv, NEW r \in Runs, Base(r)
  PROVE  Keeps(r)
<1>1. PICK i : i = lane[r].issue
  OBVIOUS
<1>2. /\ TypeOK /\ OutOK /\ RunInv(r) /\ lane[r].step = "base"
      /\ Read(r, CommonBase(i, Target(r)), "created")
      /\ lane[r].step \in Creating /\ "created" \in Creating
  BY <1>1 DEF Inv, Base, At, Creating
<1>3. LaneGitOK(r) /\ IssueOK(r, i)
  BY <1>1, <1>2, CreatingFacts
<1>4. Target(r) \in DOMAIN tip /\ Has(i)
  BY <1>1, <1>2, <1>3 DEF LaneGitOK, Has
<1>5. UNCHANGED <<scoped, made, tip, out>> /\ lane'[r].issue = i
  BY <1>1, <1>2 DEF Read, ledger, git, Goes, TypeOK
<1>6. i \in DOMAIN tip
  BY <1>2, <1>4 DEF OutOK, TypeOK, Has, TreeOf, Range
<1>7. /\ Target(r)' = Target(r)
      /\ On(i)' = tip[i] /\ On(Target(r))' = tip[Target(r)]
      /\ tip[i] \ tip[Target(r)] \subseteq WorksOf(i)
  BY <1>3, <1>4, <1>5, <1>6 DEF On, Target, IssueOK
<1>8. ASSUME lane'[r].step = "created",
             lane'[r].base = CommonBase(i, Target(r))
      PROVE  LaneGitOK(r)'
  <2>1. CommonBase(i, Target(r)) = tip[i] \cap tip[Target(r)]
    BY DEF CommonBase
  <2>2. /\ lane'[r].base \subseteq On(i)'
        /\ lane'[r].base \subseteq On(Target(r))'
        /\ On(i)' \ lane'[r].base \subseteq WorksOf(i)
    BY <1>7, <1>8, <2>1
  <2>3. Has(i)'
    BY <1>4, <1>5 DEF Has
  <2>4. Target(r)' \in DOMAIN tip'
    BY <1>4, <1>5, <1>7
  <2> QED BY <1>5, <1>8, <2>2, <2>3, <2>4
          DEF LaneGitOK, Removing, GoodBase, Has, On
<1> QED BY <1>2, <1>8, ReadKeeps

LEMMA AddKeeps ==
  ASSUME Inv, NEW r \in Runs, Add(r)
  PROVE  Keeps(r)
<1>1. PICK i : i = lane[r].issue
  OBVIOUS
<1>2. /\ TypeOK /\ OutOK /\ RunInv(r) /\ lane[r].step = "add"
      /\ lane[r].step \in Creating /\ lane[r].step \notin Removing
  BY DEF Inv, Add, At, Creating, Removing
<1>3. /\ i \in Current(r) /\ i \in Issues
      /\ IssueOK(r, i) /\ DepsOK(r, i) /\ LaneGitOK(r)
      /\ entry[i].status = "running" /\ ~entry[i].dir
      /\ \A d \in Deps[i] : entry[d].status = "done"
  BY <1>1, <1>2, CreatingFacts
<1>4. PICK base : base = lane[r].base
  OBVIOUS
<1>5. /\ Target(r) \in DOMAIN tip /\ base \subseteq On(Target(r))
      /\ \A d \in Deps[i] : made[d] \subseteq base
  BY <1>1, <1>2, <1>3, <1>4 DEF LaneGitOK
<1>6. /\ OthersStay(r) /\ SameBase(r) /\ UNCHANGED edits
      /\ UNCHANGED <<scoped, status, plan, entry, merging, pc, round, made>>
      /\ torn => torn'
      /\ TipSameBut(i) /\ OutSameBut(TreeOf(i))
      /\ \/ UNCHANGED <<tip, out>>
         \/ /\ i \notin DOMAIN tip /\ DOMAIN tip' = DOMAIN tip \cup {i}
            /\ tip'[i] = base
            /\ \/ UNCHANGED out
               \/ /\ DOMAIN out' = DOMAIN out \cup {TreeOf(i)}
                  /\ out'[TreeOf(i)] = i
      /\ \/ /\ TreeOf(i) \in DOMAIN out'
            /\ i \in DOMAIN tip' /\ tip'[i] = base
            /\ LaneAt(r, "created", lane[r].hurt)
         \/ LaneAt(r, "attach", lane[r].hurt)
         \/ LaneAt(r, "attach", TRUE)
  <2> HIDE <1>1, <1>4
  <2>1. lane[r].issue = i /\ lane[r].base = base
    BY <1>1, <1>4
  <2> QED BY <1>2, <1>3, <2>1, AddDoes
<1>7. Target(r)' = Target(r) /\ Target(r) \in Runs \cup {Shared} /\ Target(r) # i
  BY <1>3, <1>6, TargetFacts DEF Target
<1>8. /\ Target(r) \in DOMAIN tip' /\ On(Target(r))' = On(Target(r))
  BY <1>5, <1>6, <1>7 DEF TipSameBut, On
<1>9. Framed(r)
  <2>1. \A j \in Issues : j # i => SameGit(j)
    BY <1>6 DEF SameGit, TipSameBut, OutSameBut, TreeOf, Has
  <2>2. \A b \in Runs \cup {Shared} : Grows(b)
    BY <1>3, <1>6, WorktreesAssumption DEF Grows, TipSameBut
  <2> QED BY <1>1, <1>3, <1>6, <2>1, <2>2 DEF Framed, Own
<1>10. UNCHANGED tip \/ (i \notin DOMAIN tip /\ On(i)' = base)
  BY <1>6 DEF On
<1>11. IssueOK(r, i)'
  <2>1. /\ entry'[i].status = "running" /\ ~entry'[i].dir
        /\ pc'[i] \notin {"executing", "succeeded", "broke"}
        /\ round'[i] = round[i] /\ edits'[i] = edits[i] /\ made'[i] = made[i]
        /\ (pc'[i] # "idle" => round'[i] >= 1)
    BY <1>3, <1>6 DEF IssueOK
  <2>2. /\ made[i] \subseteq On(i)' \cup edits[i] \cup On(Target(r))'
        /\ edits[i] \subseteq WorksOf(i)
        /\ On(i)' \ On(Target(r))' \subseteq WorksOf(i)
    <3>1. CASE UNCHANGED tip
      BY <1>3, <1>8, <3>1 DEF IssueOK, On
    <3>2. CASE i \notin DOMAIN tip /\ On(i)' = base
      BY <1>3, <1>5, <1>8, <3>2 DEF IssueOK, On
    <3> QED BY <1>10, <3>1, <3>2
  <2> QED BY <1>7, <2>1, <2>2 DEF IssueOK
<1>12. DepsOK(r, i)'
  <2>1. CASE UNCHANGED tip
    BY <1>2, <1>3, <1>6, <2>1 DEF DepsOK
  <2>2. CASE tip'[i] = base
    BY <1>3, <1>5, <1>6, <2>2 DEF DepsOK
  <2> QED BY <1>6, <2>1, <2>2
<1>13. PICK s \in {"created", "attach"}, h \in {lane[r].hurt, TRUE} :
         /\ LaneAt(r, s, h)
         /\ s = "created" =>
              TreeOf(i) \in DOMAIN out' /\ i \in DOMAIN tip' /\ tip'[i] = base
  BY <1>6
<1>14. SameClass(lane[r].step, s) /\ s \in Creating \cup {"free"}
  BY <1>2, <1>13 DEF SameClass, Creating
<1>15. LaneGitOK(r)'
  <2>1. CASE s = "attach"
    BY <1>7, <1>8, <1>13, <2>1 DEF LaneGitOK, LaneAt, Removing
  <2>2. CASE s = "created"
    <3>1. /\ lane'[r].step = "created" /\ lane'[r].issue = i
          /\ lane'[r].base = base
      BY <1>1, <1>4, <1>6, <1>13, <2>2 DEF LaneAt, SameBase, Idle
    <3>2. /\ On(i)' = base /\ base \subseteq On(Target(r))' /\ Has(i)'
      BY <1>5, <1>8, <1>13, <2>2 DEF On, Has
    <3>3. GoodBase(r, i, base)'
      BY <1>7, <3>2 DEF GoodBase
    <3>4. Target(r)' \in DOMAIN tip'
      BY <1>7, <1>8
    <3>5. /\ lane'[r].base \subseteq On(i)'
          /\ lane'[r].base \subseteq On(Target(r))'
          /\ On(i)' \ lane'[r].base \subseteq WorksOf(i)
      BY <3>1, <3>2
    <3> QED BY <3>1, <3>2, <3>4, <3>5
            DEF LaneGitOK, Removing, GoodBase, Has, On
  <2> QED BY <1>13, <2>1, <2>2
<1>16. RunInv(r)'
  BY <1>1, <1>2, <1>9, <1>11, <1>12, <1>13, <1>14, <1>15, WorkOn
<1>17. MergeOK'
  <2>1. \A p \in DOMAIN out' : p[1] = "merge" => p \in DOMAIN out
    BY <1>6 DEF OutSameBut, TreeOf
  <2> QED BY <1>2, <1>6, <1>13, <1>14, <2>1, CreatingMerges
<1>18. OutOK'
  BY <1>2, <1>6 DEF OutOK, OutSameBut, TreeOf
<1> QED BY <1>9, <1>16, <1>17, <1>18 DEF Keeps

LEMMA AttachKeeps ==
  ASSUME Inv, NEW r \in Runs, Attach(r)
  PROVE  Keeps(r)
<1>1. PICK i : i = lane[r].issue
  OBVIOUS
<1>2. /\ TypeOK /\ OutOK /\ RunInv(r) /\ lane[r].step = "attach"
      /\ lane[r].step \in Creating /\ lane[r].step \notin Removing
      /\ "base" \in Step /\ "check" \in Step
  BY DEF Inv, Attach, At, Creating, Removing, Step
<1>3. /\ i \in Current(r) /\ i \in Issues
      /\ IssueOK(r, i) /\ DepsOK(r, i) /\ LaneGitOK(r)
      /\ entry[i].status = "running" /\ ~entry[i].dir
  BY <1>1, <1>2, CreatingFacts
<1>4. Target(r) \in DOMAIN tip
  BY <1>1, <1>2, <1>3 DEF LaneGitOK
<1>5. /\ OthersStay(r) /\ UNCHANGED <<tip, edits>>
      /\ UNCHANGED <<scoped, status, plan, entry, merging, pc, round, made>>
      /\ torn => torn'
      /\ UNCHANGED out \/ Added(TreeOf(i), i)
      /\ \/ Added(TreeOf(i), i) /\ LaneAt(r, "base", lane[r].hurt)
         \/ LaneAt(r, "check", lane[r].hurt)
         \/ LaneAt(r, "check", TRUE)
  <2>1. Tree(r) = TreeOf(i) /\ lane[r].issue = i
    BY <1>1 DEF Tree, TreeOf
  <2>2. PICK p : p = TreeOf(i)
    OBVIOUS
  <2>3. Command(r, CanAdd(p, i), {WithTree(p, i)}, {}, "base", "check")
        /\ UNCHANGED edits
    BY <2>1, <2>2 DEF Attach
  <2>4. /\ OthersStay(r) /\ UNCHANGED tip
        /\ UNCHANGED <<scoped, status, plan, entry, merging, pc, round, made>>
        /\ torn => torn'
        /\ \/ Added(p, i) /\ LaneAt(r, "base", lane[r].hurt) /\ UNCHANGED torn
           \/ /\ ~CanAdd(p, i) /\ UNCHANGED <<out, torn>>
              /\ LaneAt(r, "check", lane[r].hurt)
           \/ /\ UNCHANGED out \/ Added(p, i)
              /\ LaneAt(r, "check", TRUE)
              /\ torn' = (torn \/ lane[r].step \in TornByCut)
    BY <1>2, <2>3, AddingDoes
  <2> QED BY <2>2, <2>3, <2>4
<1>6. Added(TreeOf(i), i) =>
        /\ OutSameBut(TreeOf(i)) /\ DOMAIN out' = DOMAIN out \cup {TreeOf(i)}
        /\ out'[TreeOf(i)] = i
  BY DEF Added
<1>7. UNCHANGED out => OutSameBut(TreeOf(i))
  BY DEF OutSameBut
<1>8. /\ OutSameBut(TreeOf(i))
      /\ UNCHANGED out \/ (DOMAIN out' = DOMAIN out \cup {TreeOf(i)}
                           /\ out'[TreeOf(i)] = i)
  BY <1>5, <1>6, <1>7
<1>9. Framed(r)
  <2>1. \A j \in Issues : j # i => SameGit(j)
    BY <1>5, <1>8 DEF SameGit, OutSameBut, TreeOf, Has
  <2>2. \A b \in Runs \cup {Shared} : Grows(b)
    BY <1>5 DEF Grows
  <2> QED BY <1>1, <1>3, <1>5, <2>1, <2>2 DEF Framed, Own
<1>10. Target(r)' = Target(r) /\ On(i)' = On(i) /\ On(Target(r))' = On(Target(r))
  BY <1>5 DEF Target, On
<1>11. IssueOK(r, i)'
  BY <1>3, <1>5, <1>10 DEF IssueOK
<1>12. DepsOK(r, i)'
  BY <1>2, <1>3, <1>5 DEF DepsOK
<1>13. PICK s \in {"base", "check"}, h \in {lane[r].hurt, TRUE} :
         LaneAt(r, s, h) /\ (s = "base" => TreeOf(i) \in DOMAIN out')
  BY <1>5, <1>6
<1>14. SameClass(lane[r].step, s) /\ s \in Creating \cup {"free"}
  BY <1>2, <1>13 DEF SameClass, Creating
<1>15. LaneGitOK(r)'
  <2>1. Target(r)' \in DOMAIN tip'
    BY <1>4, <1>5, <1>10
  <2>2. s = "base" => Has(i)' /\ lane'[r].issue = i
    BY <1>1, <1>13 DEF Has, LaneAt
  <2> QED BY <1>13, <2>1, <2>2 DEF LaneGitOK, LaneAt, Removing, Has
<1>16. RunInv(r)'
  BY <1>1, <1>2, <1>9, <1>11, <1>12, <1>13, <1>14, <1>15, WorkOn
<1>17. MergeOK'
  <2>1. \A p \in DOMAIN out' : p[1] = "merge" => p \in DOMAIN out
    BY <1>8 DEF OutSameBut, TreeOf
  <2> QED BY <1>2, <1>5, <1>13, <1>14, <2>1, CreatingMerges
<1>18. OutOK'
  BY <1>2, <1>8 DEF OutOK, OutSameBut, TreeOf
<1> QED BY <1>9, <1>16, <1>17, <1>18 DEF Keeps

-----------------------------------------------------------------------------
(* The commands that commit and merge a success. *)

\* The commit before the review, and the one before the merge.
LEMMA CommitKeeps ==
  ASSUME Inv, NEW r \in Runs, lane[r].step \in {"save", "again"},
         NEW ok, NEW bad, Commit(r, ok, bad),
         \/ lane[r].step = "save" /\ ok = "review" /\ bad = "notSaved"
         \/ lane[r].step = "again" /\ ok = "mLook" /\ bad = "notMerged"
  PROVE  Keeps(r)
<1>1. PICK i : i = lane[r].issue
  OBVIOUS
<1>2. /\ TypeOK /\ OutOK /\ RunInv(r) /\ MergeOK
      /\ lane[r].step \in Finishing /\ lane[r].step \notin Removing
      /\ ok \in Step /\ bad \in Step
  BY DEF Inv, Finishing, Removing, Step
<1>3. /\ i \in Current(r) /\ i \in Issues
      /\ IssueOK(r, i) /\ DepsOK(r, i)
      /\ entry[i].status = "running" /\ i \in DOMAIN tip
      /\ Target(r) \in DOMAIN tip /\ Saves(r)
  BY <1>1, <1>2, FinishingFacts
<1>4. /\ OthersStay(r) /\ UNCHANGED out
      /\ UNCHANGED <<scoped, status, plan, entry, merging, pc, round, made>>
      /\ torn => torn'
      /\ TipSameBut(i) /\ \A j \in Issues : j # i => edits'[j] = edits[j]
      /\ \/ UNCHANGED <<tip, edits>>
         \/ /\ DOMAIN tip' = DOMAIN tip \cup {i}
            /\ tip'[i] = tip[i] \cup edits[i] /\ edits'[i] = {}
      /\ \/ tip'[i] = tip[i] \cup edits[i] /\ LaneAt(r, ok, lane[r].hurt)
         \/ LaneAt(r, bad, TRUE)
  <2>1. lane[r].issue = i
    BY <1>1
  <2> QED BY <1>2, <1>3, <2>1, CommitDoes
<1>5. Target(r)' = Target(r) /\ Target(r) \in Runs \cup {Shared} /\ Target(r) # i
  BY <1>3, <1>4, TargetFacts DEF Target
<1>6. Target(r) \in DOMAIN tip' /\ On(Target(r))' = On(Target(r))
  BY <1>3, <1>4, <1>5 DEF TipSameBut, On
<1>7. Framed(r)
  <2>1. \A j \in Issues : j # i => SameGit(j)
    BY <1>4 DEF SameGit, TipSameBut, Has
  <2>2. \A b \in Runs \cup {Shared} : Grows(b)
    BY <1>3, <1>4, WorktreesAssumption DEF Grows, TipSameBut
  <2> QED BY <1>1, <1>3, <1>4, <2>1, <2>2 DEF Framed, Own
<1>8. /\ i \in DOMAIN tip' /\ tip[i] \subseteq tip'[i]
      /\ On(i) = tip[i] /\ On(i)' = tip'[i]
      /\ \/ UNCHANGED <<tip, edits>>
         \/ tip'[i] = tip[i] \cup edits[i] /\ edits'[i] = {}
  BY <1>3, <1>4 DEF On
<1>9. IssueOK(r, i)'
  <2>1. CASE UNCHANGED <<tip, edits>>
    BY <1>3, <1>4, <1>5, <1>6, <2>1 DEF IssueOK, GoodBase, On, Has
  <2>2. CASE On(i)' = On(i) \cup edits[i] /\ edits'[i] = {}
    <3>1. Has(i)' <=> Has(i)
      BY <1>4 DEF Has
    <3>2. ASSUME GoodBase(r, i, entry[i].base), edits[i] \subseteq WorksOf(i)
          PROVE  GoodBase(r, i, entry[i].base)'
      BY <1>4, <1>6, <1>5, <2>2, <3>2 DEF GoodBase
    <3> QED BY <1>3, <1>4, <1>5, <1>6, <2>2, <3>1, <3>2 DEF IssueOK
  <2> QED BY <1>8, <2>1, <2>2
<1>10. DepsOK(r, i)'
  BY <1>2, <1>3, <1>4, <1>8 DEF DepsOK
<1>11. PICK s \in {ok, bad}, h \in {lane[r].hurt, TRUE} :
         /\ LaneAt(r, s, h)
         /\ s = ok => tip'[i] = tip[i] \cup edits[i]
         /\ s = bad => h = TRUE
  BY <1>4
<1>12. SameClass(lane[r].step, s)
  BY <1>2, <1>11 DEF SameClass, Finishing
<1>13. lane'[r].step = s /\ lane'[r].issue = i /\ lane'[r].hurt = h
  BY <1>1, <1>11 DEF LaneAt
<1>14. LaneGitOK(r)'
  <2>1. s = ok => made[i] \subseteq On(i)' \cup On(Target(r))'
    BY <1>3, <1>6, <1>8, <1>11 DEF IssueOK, On
  <2>2. s \in {"review", "mLook"} => s = ok
    BY <1>11
  <2> QED BY <1>4, <1>5, <1>11, <1>13, <2>1, <2>2 DEF LaneGitOK, Removing, On
<1>15. RunInv(r)'
  BY <1>1, <1>2, <1>7, <1>9, <1>10, <1>11, <1>12, <1>14, WorkOn
<1>16. MergeOK'
  <2>1. lane'[r].step \notin MergeSteps \cup Held /\ lane[r].step \notin Held
    BY <1>11, <1>13 DEF MergeSteps, Held
  <2>2. lane'[r].step \in {"mClear", "mRetry", "abort", "notMerged"}
          => lane'[r].hurt
    BY <1>11, <1>13
  <2> QED BY <1>2, <1>4, <2>1, <2>2, MergeOn
<1>17. OutOK'
  BY <1>2, <1>4 DEF OutOK
<1> QED BY <1>7, <1>15, <1>16, <1>17 DEF Keeps

\* A command of the merge that leaves the branches alone keeps everything
\* but what is said of the merges.
LEMMA MergingKeeps ==
  ASSUME Inv, NEW r \in Runs, lane[r].step \in MergeSteps \cup {"mLook"},
         OthersStay(r), UNCHANGED <<tip, edits>>, torn => torn',
         UNCHANGED <<scoped, status, plan, entry, merging, pc, round, made>>,
         NEW p, p[1] = "merge", OutSameBut(p),
         p \in DOMAIN out' => out'[p] \in Runs \cup {Shared},
         NEW s \in Finishing, NEW h, LaneAt(r, s, h),
         \/ s = "notMerged"
         \/ s = "abort" /\ lane[r].step = "merge"
         \/ s = "record" /\ lane[r].step = "mClean"
         \/ /\ s \in {"mAdd", "mClear", "mRetry", "merge"}
            /\ lane[r].step \in {"mLook", "mAdd", "mClear", "mRetry"},
         MergeOK'
  PROVE  Keeps(r)
<1>1. PICK i : i = lane[r].issue
  OBVIOUS
<1>2. /\ TypeOK /\ OutOK /\ RunInv(r)
      /\ lane[r].step \in Finishing /\ lane[r].step \notin Removing
  BY DEF Inv, Finishing, Removing, MergeSteps
<1>3. /\ i \in Current(r) /\ i \in Issues
      /\ IssueOK(r, i) /\ DepsOK(r, i) /\ LaneGitOK(r)
      /\ Target(r) \in DOMAIN tip
  BY <1>1, <1>2, FinishingFacts
<1>4. Quiet(r)
  <2>1. \A j \in Issues : SameGit(j)
    BY DEF SameGit, OutSameBut, TreeOf, Has
  <2>2. \A b : Grows(b)
    BY DEF Grows
  <2> QED BY <2>1, <2>2 DEF Quiet, Framed
<1>5. IssueOK(r, i)' /\ DepsOK(r, i)'
  BY <1>2, <1>3, <1>4, QuietIssue
<1>6. SameClass(lane[r].step, s)
  BY <1>2 DEF SameClass
<1>7. lane'[r].step = s /\ lane'[r].issue = i
  BY <1>1 DEF LaneAt, Finishing
<1>8. LaneGitOK(r)'
  <2>1. /\ Target(r)' = Target(r) /\ On(i)' = On(i)
        /\ On(Target(r))' = On(Target(r)) /\ Target(r)' \in DOMAIN tip'
    BY <1>3 DEF Target, On
  <2>2. CASE s \in {"notMerged", "abort"}
    BY <1>7, <2>2 DEF LaneGitOK, Removing
  <2>3. CASE s = "record" /\ lane[r].step = "mClean"
    <3>1. made[i] \subseteq On(Target(r))
      BY <1>1, <1>3, <2>3 DEF LaneGitOK
    <3>2. made'[i] \subseteq On(Target(r))'
      BY <2>1, <3>1
    <3> QED BY <1>7, <2>1, <2>3, <3>2 DEF LaneGitOK, Removing
  <2>4. CASE /\ s \in {"mAdd", "mClear", "mRetry", "merge"}
             /\ lane[r].step \in {"mLook", "mAdd", "mClear", "mRetry"}
    <3>1. made[i] \subseteq On(i) \cup On(Target(r))
      BY <1>1, <1>3, <2>4 DEF LaneGitOK
    <3>2. made'[i] \subseteq On(i)' \cup On(Target(r))'
      BY <2>1, <3>1
    <3> QED BY <1>7, <2>4, <3>2 DEF LaneGitOK, Removing, On
  <2> QED BY <2>2, <2>3, <2>4
<1>9. RunInv(r)'
  BY <1>1, <1>2, <1>4, <1>5, <1>6, <1>8, WorkOn DEF Quiet
<1>10. OutOK'
  BY <1>2 DEF OutOK, OutSameBut
<1> QED BY <1>4, <1>9, <1>10 DEF Keeps, Quiet

\* While a merge is under way there is no worktree of another merge, unless
\* one was torn.
LEMMA OneMergeTree ==
  ASSUME MergeOK, ~torn, NEW r \in Runs, lane[r].step \in MergeSteps,
         NEW p \in DOMAIN out, p[1] = "merge"
  PROVE  lane[r].step \in Held /\ p = MergeTree(r)
BY DEF MergeOK, Held, MergeSteps

\* Then the worktree of the merge can be added.
LEMMA CanMerge ==
  ASSUME TypeOK, OutOK, MergeOK, ~torn, NEW r \in Runs,
         lane[r].step \in MergeSteps \ Held, Target(r) \in DOMAIN tip
  PROVE  CanAdd(MergeTree(r), Target(r))
<1>1. \A p \in DOMAIN out : p[1] = "issue" /\ out[p] = p[2] /\ p[2] \in Issues
  <2>1. \A p \in DOMAIN out : p[1] # "merge"
    BY OneMergeTree
  <2>2. \A p \in DOMAIN out : p[1] \in {"issue", "merge"} /\ p[2] \in Issues
    BY DEF TypeOK, Paths
  <2> QED BY <2>1, <2>2 DEF OutOK
<1>2. MergeTree(r) \notin DOMAIN out
  BY <1>1 DEF MergeTree
<1>3. ~CheckedOut(Target(r))
  BY <1>1, TargetFacts DEF CheckedOut, Range
<1> QED BY <1>2, <1>3 DEF CanAdd

LEMMA MergeLookKeeps ==
  ASSUME Inv, NEW r \in Runs, MergeLook(r)
  PROVE  Keeps(r)
<1>1. /\ TypeOK /\ OutOK /\ RunInv(r) /\ MergeOK
      /\ lane[r].step = "mLook" /\ LockFree(r)
      /\ Query(r, Target(r) \in DOMAIN tip, "mAdd", "notMerged")
      /\ lane[r].step \in Finishing
      /\ "mAdd" \in Step /\ "notMerged" \in Step
      /\ "mAdd" \in Finishing /\ "notMerged" \in Finishing
  BY DEF Inv, MergeLook, At, Finishing, Step
<1>2. Target(r) \in DOMAIN tip
  BY <1>1, FinishingFacts
<1>3. /\ Quiet(r) /\ UNCHANGED <<tip, out, edits>>
      /\ \/ LaneAt(r, "mAdd", lane[r].hurt)
         \/ LaneAt(r, "notMerged", TRUE)
  BY <1>1, <1>2, Reading
<1>4. /\ OthersStay(r) /\ (torn => torn')
      /\ UNCHANGED <<scoped, status, plan, entry, merging, pc, round, made>>
  BY <1>3 DEF Quiet, Framed
<1>5. PICK s \in {"mAdd", "notMerged"}, h \in {lane[r].hurt, TRUE} :
        LaneAt(r, s, h) /\ (s = "notMerged" => h = TRUE)
  BY <1>3
<1>6. MergeOK'
  <2>1. /\ lane'[r].step = s /\ lane'[r].hurt = h
    BY <1>5 DEF LaneAt
  <2>2. lane[r].step \notin Held
    BY <1>1 DEF Held
  <2> QED BY <1>1, <1>3, <1>4, <1>5, <2>1, <2>2, MergeOn
<1>7. PICK p : p = <<"merge", NoIssue>>
  OBVIOUS
<1>8. /\ p[1] = "merge" /\ OutSameBut(p)
      /\ p \in DOMAIN out' => out'[p] \in Runs \cup {Shared}
  BY <1>1, <1>3, <1>7 DEF OutSameBut, OutOK
<1> QED BY <1>1, <1>3, <1>4, <1>5, <1>6, <1>8, MergingKeeps

\* Adding the worktree of the merge, before and after the path was cleared.
LEMMA AddTreeKeeps ==
  ASSUME Inv, NEW r \in Runs, NEW bad,
         \/ lane[r].step = "mAdd" /\ bad = "mClear"
         \/ lane[r].step = "mRetry" /\ bad = "notMerged",
         AddTree(r, "merge", bad)
  PROVE  Keeps(r)
<1>1. /\ TypeOK /\ OutOK /\ RunInv(r) /\ MergeOK
      /\ lane[r].step \in Finishing
      /\ lane[r].step \in MergeSteps \ Held
      /\ "merge" \in Step /\ bad \in Step
      /\ "merge" \in Finishing /\ bad \in Finishing
  BY DEF Inv, Finishing, Step, MergeSteps, Held
<1>2. Target(r) \in DOMAIN tip /\ Target(r) \in Runs \cup {Shared}
  BY <1>1, FinishingFacts, TargetFacts
<1>3. PICK p, b, i : p = MergeTree(r) /\ b = Target(r) /\ i = lane[r].issue
  OBVIOUS
<1>4. /\ OthersStay(r) /\ UNCHANGED <<tip, edits>>
      /\ UNCHANGED <<scoped, status, plan, entry, merging, pc, round, made>>
      /\ torn => torn'
      /\ \/ Added(p, b) /\ LaneAt(r, "merge", lane[r].hurt)
         \/ ~CanAdd(p, b) /\ UNCHANGED out /\ LaneAt(r, bad, lane[r].hurt)
         \/ /\ UNCHANGED out \/ Added(p, b)
            /\ LaneAt(r, bad, TRUE)
            /\ torn' = (torn \/ lane[r].step \in TornByCut)
  <2>1. Command(r, CanAdd(p, b), {WithTree(p, b)}, {}, "merge", bad)
        /\ UNCHANGED edits
    BY <1>3 DEF AddTree
  <2> QED BY <1>1, <2>1, AddingDoes
<1>5. UNCHANGED out \/ (DOMAIN out' = DOMAIN out \cup {p} /\ out'[p] = b)
  BY <1>4 DEF Added
<1>6. OutSameBut(p) /\ p[1] = "merge" /\ p = <<"merge", i>>
  BY <1>3, <1>4 DEF Added, OutSameBut, MergeTree
<1>7. p \in DOMAIN out' => out'[p] \in Runs \cup {Shared}
  BY <1>1, <1>2, <1>3, <1>5, <1>6 DEF OutOK
<1>8. PICK s \in {"merge", bad}, h \in {lane[r].hurt, TRUE} :
        /\ LaneAt(r, s, h)
        /\ s = bad => \/ ~CanAdd(p, b) /\ UNCHANGED out /\ h = lane[r].hurt
                      \/ /\ h = TRUE
                         /\ torn' = (torn \/ lane[r].step \in TornByCut)
  BY <1>4
<1>9. lane'[r].step = s /\ lane'[r].hurt = h /\ lane'[r].issue = i
  BY <1>3, <1>8 DEF LaneAt
<1>10. MergeOK'
  <2>1. ASSUME ~torn', NEW q \in DOMAIN out', q[1] = "merge"
        PROVE  lane'[r].step \in Held /\ q = <<"merge", lane'[r].issue>>
    <3>1. ~torn
      BY <1>4, <2>1
    <3>2. CanAdd(p, b)
      BY <1>1, <1>2, <1>3, <3>1, CanMerge
    <3>3. q = p
      BY <1>1, <1>5, <2>1, <3>1, OneMergeTree
    <3>4. lane[r].step = "mRetry" => s = "merge"
      BY <1>8, <2>1, <3>2 DEF TornByCut, TornByStop
    <3>5. lane'[r].step \in Held
      BY <1>1, <1>8, <1>9, <3>4 DEF Held
    <3> QED BY <1>6, <1>9, <3>3, <3>5
  <2>2. ASSUME ~torn',
               lane'[r].step \in {"mClear", "mRetry", "abort", "notMerged"}
        PROVE  lane'[r].hurt
    <3>1. ~torn /\ s = bad
      BY <1>4, <1>8, <1>9, <2>2
    <3>2. CanAdd(p, b)
      BY <1>1, <1>2, <1>3, <3>1, CanMerge
    <3> QED BY <1>8, <1>9, <3>1, <3>2
  <2> QED BY <1>1, <1>4, <2>1, <2>2, MergeOn
<1>11. \/ s = "notMerged"
       \/ /\ s \in {"mAdd", "mClear", "mRetry", "merge"}
          /\ lane[r].step \in {"mLook", "mAdd", "mClear", "mRetry"}
  BY <1>8
<1> QED BY <1>1, <1>4, <1>6, <1>7, <1>8, <1>10, <1>11, MergingKeeps

\* Removing the worktree of the merge by force: of one that is in the way, of
\* one that failed, and of one that succeeded.
LEMMA ForceRemoveKeeps ==
  ASSUME Inv, NEW r \in Runs, NEW next,
         \/ lane[r].step = "mClear" /\ next = "mRetry"
         \/ lane[r].step = "abort" /\ next = "notMerged"
         \/ lane[r].step = "mClean" /\ next = "record",
         ForceRemove(r, MergeTree(r), next), UNCHANGED edits
  PROVE  Keeps(r)
<1>1. /\ TypeOK /\ OutOK /\ RunInv(r) /\ MergeOK
      /\ lane[r].step \in Finishing
      /\ lane[r].step \in MergeSteps \cap TornByCut
      /\ next \in Step /\ next \in Finishing
  BY DEF Inv, Finishing, Step, MergeSteps, TornByCut, TornByStop
<1>2. PICK p : p = MergeTree(r)
  OBVIOUS
<1>3. /\ OthersStay(r) /\ UNCHANGED tip /\ OutSameBut(p)
      /\ UNCHANGED <<scoped, status, plan, entry, merging, pc, round, made>>
      /\ torn => torn'
      /\ UNCHANGED out \/ p \notin DOMAIN out'
      /\ \/ p \notin DOMAIN out' /\ LaneAt(r, next, lane[r].hurt)
         \/ LaneAt(r, next, TRUE) /\ torn' = TRUE
  BY <1>1, <1>2, ForceRemoveDoes
<1>4. p[1] = "merge" /\ (p \in DOMAIN out' => out'[p] \in Runs \cup {Shared})
  BY <1>1, <1>2, <1>3 DEF OutOK, MergeTree
<1>5. PICK h : LaneAt(r, next, h) /\ (~torn' => h = lane[r].hurt
                                                /\ p \notin DOMAIN out')
  BY <1>3
<1>6. lane'[r].step = next /\ lane'[r].hurt = h
  BY <1>5 DEF LaneAt
<1>7. MergeOK'
  <2>1. ASSUME ~torn', NEW q \in DOMAIN out', q[1] = "merge"
        PROVE  FALSE
    <3>1. ~torn /\ q # p
      BY <1>3, <1>5, <2>1
    <3>2. q \in DOMAIN out
      BY <1>3, <3>1 DEF OutSameBut
    <3> QED BY <1>1, <1>2, <2>1, <3>1, <3>2, OneMergeTree
  <2>2. ASSUME ~torn', lane'[r].step \in {"mRetry", "notMerged"}
        PROVE  lane'[r].hurt
    <3>1. ~torn
      BY <1>3, <2>2
    <3> QED BY <1>1, <1>5, <1>6, <2>2, <3>1 DEF MergeOK
  <2>3. next \notin {"mClear", "abort"}
    OBVIOUS
  <2> QED BY <1>1, <1>3, <1>6, <2>1, <2>2, <2>3, MergeOn
<1> QED BY <1>1, <1>3, <1>4, <1>5, <1>7, MergingKeeps

LEMMA MergeKeeps ==
  ASSUME Inv, NEW r \in Runs, Merge(r)
  PROVE  Keeps(r)
<1>1. PICK i, b : i = lane[r].issue /\ b = Target(r)
  OBVIOUS
<1>2. /\ TypeOK /\ OutOK /\ RunInv(r) /\ MergeOK
      /\ lane[r].step = "merge" /\ lane[r].step \notin Removing
      /\ lane[r].step \in Finishing
      /\ lane[r].step \in MergeSteps \cap Held /\ lane[r].step \notin TornByCut
      /\ "mClean" \in Step /\ "abort" \in Step
  BY DEF Inv, Merge, At, Finishing, Step, MergeSteps, Held, Removing,
         TornByCut, TornByStop
<1>3. /\ i \in Current(r) /\ i \in Issues
      /\ IssueOK(r, i) /\ DepsOK(r, i) /\ LaneGitOK(r)
      /\ i \in DOMAIN tip /\ b \in DOMAIN tip
      /\ b \in Runs \cup {Shared} /\ b \notin Issues
  BY <1>1, <1>2, FinishingFacts, TargetFacts
<1>4. CASE /\ Command(r, i \in DOMAIN tip,
                      {WithBranch(b, tip[b] \cup tip[i])}, {}, "mClean", "abort")
           /\ UNCHANGED edits
  <2> DEFINE works == tip[b] \cup tip[i]
             can == i \in DOMAIN tip
  <2>1. Command(r, can, {WithBranch(b, works)}, {}, "mClean", "abort")
    BY <1>4
  <2> HIDE DEF works, can
  <2>2. /\ OthersStay(r) /\ UNCHANGED out
        /\ UNCHANGED <<scoped, status, plan, entry, merging, pc, round, made>>
        /\ torn => torn'
        /\ \/ /\ can /\ Branched(b, works)
              /\ LaneAt(r, "mClean", lane[r].hurt)
              /\ UNCHANGED torn
           \/ /\ ~can /\ UNCHANGED <<tip, torn>>
              /\ LaneAt(r, "abort", lane[r].hurt)
           \/ /\ UNCHANGED tip \/ (can /\ Branched(b, works))
              /\ LaneAt(r, "abort", TRUE)
              /\ torn' = (torn \/ lane[r].step \in TornByCut)
    BY <1>2, <2>1, BranchingDoes
  <2>3. can
    BY <1>3 DEF can
  <2>4. UNCHANGED tip \/ Branched(b, works)
    BY <2>2
  <2>5. Branched(b, works)
          => /\ TipSameBut(b) /\ DOMAIN tip' = DOMAIN tip
             /\ tip'[b] = tip[b] \cup tip[i]
    BY <1>3 DEF Branched, works
  <2>6. UNCHANGED tip => TipSameBut(b)
    BY DEF TipSameBut
  <2>7. /\ TipSameBut(b) /\ DOMAIN tip' = DOMAIN tip /\ tip[b] \subseteq tip'[b]
    BY <2>4, <2>5, <2>6
  <2>8. Quiet(r)
    <3>1. \A j \in Issues : SameGit(j)
      BY <1>3, <1>4, <2>2, <2>7 DEF SameGit, TipSameBut, Has
    <3>2. \A c : Grows(c)
      BY <2>7 DEF Grows, TipSameBut
    <3> QED BY <2>2, <3>1, <3>2 DEF Quiet, Framed
  <2>9. IssueOK(r, i)' /\ DepsOK(r, i)'
    BY <1>2, <1>3, <2>8, QuietIssue
  <2>10. PICK s \in {"mClean", "abort"}, h \in {lane[r].hurt, TRUE} :
          /\ LaneAt(r, s, h)
          /\ s = "mClean" => tip'[b] = tip[b] \cup tip[i]
          /\ s = "abort" => h = TRUE
    BY <2>2, <2>3, <2>5
  <2>11. lane'[r].step = s /\ lane'[r].issue = i /\ lane'[r].hurt = h
    BY <1>1, <2>10 DEF LaneAt
  <2>12. SameClass(lane[r].step, s)
    BY <1>2, <2>10 DEF SameClass, Finishing
  <2>13. LaneGitOK(r)'
    <3>1. Target(r)' = b /\ b \in DOMAIN tip' /\ made'[i] = made[i]
      BY <1>1, <1>3, <2>2, <2>7 DEF Target
    <3>2. s = "mClean" => made[i] \subseteq tip'[b]
      BY <1>1, <1>2, <1>3, <2>10 DEF LaneGitOK, On
    <3> QED BY <2>10, <2>11, <3>1, <3>2 DEF LaneGitOK, Removing, On
  <2>14. RunInv(r)'
    BY <1>1, <1>2, <2>8, <2>9, <2>10, <2>12, <2>13, WorkOn DEF Quiet
  <2>15. MergeOK'
    <3>1. lane'[r].step \in Held
      BY <2>10, <2>11 DEF Held
    <3>2. ASSUME ~torn', NEW p \in DOMAIN out', p[1] = "merge"
          PROVE  p = <<"merge", lane'[r].issue>>
      <4>1. ~torn /\ p \in DOMAIN out
        BY <2>2, <3>2
      <4>2. p = MergeTree(r)
        BY <1>2, <3>2, <4>1, OneMergeTree
      <4> QED BY <1>1, <2>11, <4>2 DEF MergeTree
    <3>3. lane'[r].step \in {"mClear", "mRetry", "abort", "notMerged"}
            => lane'[r].hurt
      BY <2>10, <2>11
    <3> QED BY <1>2, <2>2, <3>1, <3>2, <3>3, MergeOn
  <2>16. OutOK'
    BY <1>2, <2>2 DEF OutOK
  <2> QED BY <2>8, <2>14, <2>15, <2>16 DEF Keeps, Quiet
<1>5. CASE /\ lane' = [lane EXCEPT ![r].step = "abort", ![r].hurt = TRUE]
           /\ UNCHANGED <<ledger, pc, round, git, edits, made, torn, bounds>>
  <2>1. /\ UNCHANGED <<scoped, status, plan, entry, merging, pc, round, made>>
        /\ UNCHANGED <<tip, out, edits, torn>>
    BY <1>5 DEF ledger, git
  <2>2. OthersStay(r) /\ LaneAt(r, "abort", TRUE)
    BY <1>2, <1>5 DEF OthersStay, LaneAt, TypeOK
  <2>3. lane'[r].step = "abort" /\ lane'[r].issue = i /\ lane'[r].hurt
    BY <1>1, <2>2 DEF LaneAt
  <2>4. MergeOK'
    <3>1. lane'[r].step \in Held
      BY <2>3 DEF Held
    <3>2. ASSUME ~torn', NEW p \in DOMAIN out', p[1] = "merge"
          PROVE  p = <<"merge", lane'[r].issue>>
      <4>1. p = MergeTree(r)
        BY <1>2, <2>1, <3>2, OneMergeTree
      <4> QED BY <1>1, <2>3, <4>1 DEF MergeTree
    <3> QED BY <1>2, <2>1, <2>2, <2>3, <3>1, <3>2, MergeOn
  <2>5. PICK p : p = <<"merge", NoIssue>>
    OBVIOUS
  <2>6. /\ p[1] = "merge" /\ OutSameBut(p)
        /\ p \in DOMAIN out' => out'[p] \in Runs \cup {Shared}
    BY <1>2, <2>1, <2>5 DEF OutSameBut, OutOK
  <2>7. "abort" \in Finishing
    BY DEF Finishing
  <2>8. torn => torn'
    BY <2>1
  <2> QED BY <1>2, <2>1, <2>2, <2>4, <2>6, <2>7, <2>8, MergingKeeps
<1> QED BY <1>1, <1>4, <1>5 DEF Merge

-----------------------------------------------------------------------------
(* The commands that clean up. *)

LEMMA RemoveKeeps ==
  ASSUME Inv, NEW r \in Runs, Remove(r)
  PROVE  Keeps(r)
<1>1. PICK i : i = lane[r].issue
  OBVIOUS
<1>2. /\ TypeOK /\ OutOK /\ RunInv(r) /\ MergeOK /\ lane[r].step = "remove"
      /\ RemoveTree(r, "delete") /\ "delete" \in Step
      /\ lane[r].step \in Removing
      /\ lane[r].step \notin MergeSteps \cup Held
      /\ lane[r].step \in TornByCut
  BY DEF Inv, Remove, At, Removing, MergeSteps, Held, Step,
         TornByCut, TornByStop
<1>3. /\ i \in Current(r) /\ i \in Issues
      /\ IssueOK(r, i) /\ DepsOK(r, i)
      /\ pc[i] = "idle" /\ (entry[i].status = "done" \/ ~entry[i].dir)
      /\ Target(r) \in DOMAIN tip /\ made[i] \subseteq On(Target(r))
  BY <1>1, <1>2, RemovingFacts
<1>4. /\ OthersStay(r) /\ UNCHANGED tip /\ OutSameBut(TreeOf(i))
      /\ UNCHANGED <<scoped, status, plan, entry, merging, pc, round, made>>
      /\ torn => torn'
      /\ UNCHANGED out \/ TreeOf(i) \notin DOMAIN out'
      /\ \A j \in Issues : j # i => edits'[j] = edits[j]
      /\ edits'[i] = {} \/ UNCHANGED edits
      /\ \/ TreeOf(i) \notin DOMAIN out' /\ LaneAt(r, "delete", lane[r].hurt)
         \/ LaneAt(r, "delete", TRUE) /\ torn' = TRUE
  <2>1. lane[r].issue = i
    BY <1>1
  <2> QED BY <1>2, <1>3, <2>1, RemoveTreeDoes
<1>5. Framed(r)
  <2>1. \A j \in Issues : j # i => SameGit(j)
    BY <1>4 DEF SameGit, OutSameBut, TreeOf, Has
  <2>2. \A b \in Runs \cup {Shared} : Grows(b)
    BY <1>4 DEF Grows
  <2> QED BY <1>1, <1>3, <1>4, <2>1, <2>2 DEF Framed, Own
<1>6. Target(r)' = Target(r) /\ On(i)' = On(i) /\ On(Target(r))' = On(Target(r))
  BY <1>4 DEF Target, On
<1>7. edits'[i] \subseteq WorksOf(i)
  BY <1>3, <1>4 DEF IssueOK
<1>8. IssueOK(r, i)'
  BY <1>3, <1>4, <1>6, <1>7 DEF IssueOK
<1>9. PICK h : LaneAt(r, "delete", h) /\ (~torn' => TreeOf(i) \notin DOMAIN out')
  BY <1>4
<1>10. lane'[r].step = "delete" /\ lane'[r].issue = i
  BY <1>1, <1>9 DEF LaneAt
<1>11. DepsOK(r, i)'
  BY <1>3, <1>4, <1>10 DEF DepsOK, Removing
<1>12. SameClass(lane[r].step, "delete")
  BY <1>2 DEF SameClass, Removing
<1>13. LaneGitOK(r)'
  <2>1. Target(r)' \in DOMAIN tip' /\ made'[i] \subseteq On(Target(r))'
    BY <1>3, <1>4, <1>6
  <2>2. ~torn' => ~Has(i)'
    BY <1>9 DEF Has
  <2> QED BY <1>10, <2>1, <2>2 DEF LaneGitOK, Has
<1>14. RunInv(r)'
  BY <1>1, <1>2, <1>5, <1>8, <1>9, <1>11, <1>12, <1>13, WorkOn
<1>15. MergeOK'
  <2>1. \A p \in DOMAIN out' : p[1] = "merge" => p \in DOMAIN out
    BY <1>4 DEF OutSameBut, TreeOf
  <2>2. lane'[r].step \notin MergeSteps
        /\ lane'[r].step \notin {"mClear", "mRetry", "abort", "notMerged"}
    BY <1>10 DEF MergeSteps
  <2> QED BY <1>2, <1>4, <2>1, <2>2, MergeOn
<1>16. OutOK'
  BY <1>2, <1>4 DEF OutOK, OutSameBut
<1> QED BY <1>5, <1>14, <1>15, <1>16 DEF Keeps

LEMMA DeleteKeeps ==
  ASSUME Inv, NEW r \in Runs, Delete(r)
  PROVE  Keeps(r)
<1>1. PICK i : i = lane[r].issue
  OBVIOUS
<1>2. /\ TypeOK /\ OutOK /\ RunInv(r) /\ MergeOK /\ lane[r].step = "delete"
      /\ DeleteBranch(r, {i} \cap DOMAIN tip, "free") /\ "free" \in Step
      /\ lane[r].step \in Removing
      /\ lane[r].step \notin MergeSteps \cup Held
      /\ lane[r].step \in TornByCut
  BY <1>1 DEF Inv, Delete, BranchToDelete, At, Removing, MergeSteps, Held, Step,
         TornByCut, TornByStop
<1>3. /\ i \in Current(r) /\ i \in Issues
      /\ IssueOK(r, i) /\ DepsOK(r, i) /\ LaneGitOK(r)
      /\ pc[i] = "idle" /\ (entry[i].status = "done" \/ ~entry[i].dir)
      /\ Target(r) \in DOMAIN tip /\ made[i] \subseteq On(Target(r))
  BY <1>1, <1>2, RemovingFacts
<1>4. /\ OthersStay(r) /\ UNCHANGED <<out, edits>> /\ TipSameBut(i)
      /\ UNCHANGED <<scoped, status, plan, entry, merging, pc, round, made>>
      /\ torn => torn'
      /\ UNCHANGED tip \/ DOMAIN tip' = DOMAIN tip \ {i}
      /\ \/ /\ CheckedOut(i) \/ i \notin DOMAIN tip'
            /\ LaneAt(r, "free", lane[r].hurt) /\ UNCHANGED torn
         \/ LaneAt(r, "free", TRUE) /\ torn' = TRUE
  BY <1>2, DeletingDoes
<1>5. ~torn' => i \notin DOMAIN tip'
  <2>1. SUFFICES ASSUME ~torn', CheckedOut(i) PROVE FALSE
    BY <1>4
  <2>2. ~torn
    BY <1>4, <2>1
  <2>3. PICK p \in DOMAIN out : out[p] = i
    BY <2>1 DEF CheckedOut, Range
  <2>4. p[1] \in {"issue", "merge"} /\ p = <<p[1], p[2]>>
    BY <1>2 DEF TypeOK, Paths
  <2>5. p = TreeOf(i)
    BY <1>2, <1>3, <2>3, <2>4, WorktreesAssumption DEF OutOK, TreeOf
  <2>6. ~Has(i)
    BY <1>1, <1>2, <1>3, <2>2 DEF LaneGitOK, Has
  <2> QED BY <2>3, <2>5, <2>6 DEF Has
<1>6. Target(r)' = Target(r) /\ Target(r) # i
  BY <1>3, <1>4, TargetFacts DEF Target
<1>7. Framed(r)
  <2>1. \A j \in Issues : j # i => SameGit(j)
    BY <1>4 DEF SameGit, TipSameBut, Has
  <2>2. \A b \in Runs \cup {Shared} : Grows(b)
    BY <1>3, <1>4, WorktreesAssumption DEF Grows, TipSameBut
  <2> QED BY <1>1, <1>3, <1>4, <2>1, <2>2 DEF Framed, Own
<1>8. /\ On(Target(r))' = On(Target(r)) /\ Target(r) \in DOMAIN tip'
      /\ On(i)' = On(i) \/ On(i)' = {}
  BY <1>3, <1>4, <1>6 DEF On, TipSameBut
<1>9. IssueOK(r, i)'
  <2>1. On(i)' \ On(Target(r))' \subseteq WorksOf(i)
    BY <1>3, <1>8 DEF IssueOK
  <2> QED BY <1>3, <1>4, <1>6, <1>8, <2>1 DEF IssueOK
<1>10. PICK h : LaneAt(r, "free", h)
  BY <1>4
<1>11. lane'[r] = Idle
  BY <1>10 DEF LaneAt
<1>12. DepsOK(r, i)'
  BY <1>3, <1>4, <1>5 DEF DepsOK
<1>13. SameClass(lane[r].step, "free")
  BY <1>2 DEF SameClass
<1>14. LaneGitOK(r)'
  BY <1>11 DEF LaneGitOK, Idle, Removing
<1>15. RunInv(r)'
  BY <1>1, <1>2, <1>7, <1>9, <1>10, <1>12, <1>13, <1>14, WorkOn
<1>16. MergeOK'
  <2>1. lane'[r].step \notin MergeSteps
        /\ lane'[r].step \notin {"mClear", "mRetry", "abort", "notMerged"}
    BY <1>11 DEF MergeSteps, Idle
  <2> QED BY <1>2, <1>4, <2>1, MergeOn
<1>17. OutOK'
  BY <1>2, <1>4 DEF OutOK
<1> QED BY <1>7, <1>15, <1>16, <1>17 DEF Keeps

\* The commands that clean up an abandoned plan.
LEMMA DropKeeps ==
  ASSUME Inv, NEW r \in Runs, DropTree(r) \/ DropBranch(r) \/ DropTarget(r)
  PROVE  Keeps(r)
<1>1. PICK i : i = lane[r].issue
  OBVIOUS
<1>2. TypeOK /\ OutOK /\ RunInv(r) /\ MergeOK /\ LaneOK(r)
  BY DEF Inv, RunInv
<1>3. CASE DropTree(r)
  <2>1. /\ lane[r].step = "dropTree" /\ RemoveTree(r, "dropBranch")
        /\ "dropBranch" \in Step
    BY <1>3 DEF DropTree, At, Step
  <2>2. i \in Current(r) /\ i \in Issues
    BY <1>1, <1>2, <2>1, CurrentFacts DEF LaneOK
  <2>3. /\ OthersStay(r) /\ UNCHANGED tip /\ OutSameBut(TreeOf(i))
        /\ UNCHANGED <<scoped, status, plan, entry, merging, pc, round, made>>
        /\ torn => torn'
        /\ UNCHANGED out \/ TreeOf(i) \notin DOMAIN out'
        /\ \A j \in Issues : j # i => edits'[j] = edits[j]
        /\ \E h : LaneAt(r, "dropBranch", h)
    <3>1. lane[r].issue = i
      BY <1>1
    <3> QED BY <1>2, <2>1, <2>2, <3>1, RemoveTreeDoes
  <2>4. Framed(r)
    <3>1. \A j \in Issues : j # i => SameGit(j)
      BY <2>3 DEF SameGit, OutSameBut, TreeOf, Has
    <3>2. \A b \in Runs \cup {Shared} : Grows(b)
      BY <2>3 DEF Grows
    <3> QED BY <1>1, <2>2, <2>3, <3>1, <3>2 DEF Framed, Own
  <2>5. PICK h : LaneAt(r, "dropBranch", h)
    BY <2>3
  <2>6. lane'[r].step = "dropBranch"
    BY <2>5 DEF LaneAt
  <2>7. RunInv(r)'
    BY <1>2, <2>1, <2>4, <2>5, DropOn DEF Dropping, SameClass
  <2>8. MergeOK'
    <3>1. \A p \in DOMAIN out' : p[1] = "merge" => p \in DOMAIN out
      BY <2>3 DEF OutSameBut, TreeOf
    <3>2. lane'[r].step \notin MergeSteps /\ lane[r].step \notin Held
          /\ lane'[r].step \notin {"mClear", "mRetry", "abort", "notMerged"}
      BY <2>1, <2>6 DEF MergeSteps, Held
    <3> QED BY <1>2, <2>3, <3>1, <3>2, MergeOn
  <2>9. OutOK'
    BY <1>2, <2>3 DEF OutOK, OutSameBut
  <2> QED BY <2>4, <2>7, <2>8, <2>9 DEF Keeps
<1>4. ASSUME NEW x, NEW next,
             DeleteBranch(r, {x} \cap DOMAIN tip, next),
             \/ lane[r].step = "dropBranch" /\ x = i /\ next = "dropNext"
             \/ lane[r].step = "dropTarget" /\ x = Target(r) /\ next = "planned"
      PROVE  Keeps(r)
  <2>1. next \in Step
    BY <1>4 DEF Step
  <2>2. /\ OthersStay(r) /\ UNCHANGED <<out, edits>> /\ TipSameBut(x)
        /\ UNCHANGED <<scoped, status, plan, entry, merging, pc, round, made>>
        /\ torn => torn'
        /\ \E h : LaneAt(r, next, h)
    BY <1>2, <1>4, <2>1, DeletingDoes
  <2>3. Framed(r)
    <3>1. CASE lane[r].step = "dropBranch" /\ x = i
      <4>1. i \in Current(r) /\ i \in Issues
        BY <1>1, <1>2, <3>1, CurrentFacts DEF LaneOK
      <4>2. \A j \in Issues : j # i => SameGit(j)
        BY <2>2, <3>1 DEF SameGit, TipSameBut, Has
      <4>3. \A b \in Runs \cup {Shared} : Grows(b)
        BY <2>2, <3>1, <4>1, WorktreesAssumption DEF Grows, TipSameBut
      <4> QED BY <1>1, <2>2, <4>1, <4>2, <4>3 DEF Framed, Own
    <3>2. CASE lane[r].step = "dropTarget" /\ x = Target(r)
      <4>1. \A j \in Issues : SameGit(j)
        BY <2>2, <3>2, TargetFacts DEF SameGit, TipSameBut, Has
      <4>2. \A b \in Runs \cup {Shared} : b = Target(r) \/ Grows(b)
        BY <2>2, <3>2 DEF Grows, TipSameBut
      <4> QED BY <2>2, <3>2, <4>1, <4>2 DEF Framed
    <3> QED BY <1>4, <3>1, <3>2
  <2>4. PICK h : LaneAt(r, next, h)
    BY <2>2
  <2>5. lane'[r].step = next
    BY <1>4, <2>4 DEF LaneAt
  <2>6. RunInv(r)'
    BY <1>2, <1>4, <2>3, <2>4, DropOn DEF Dropping, SameClass
  <2>7. MergeOK'
    <3>1. lane'[r].step \notin MergeSteps /\ lane[r].step \notin Held
          /\ lane'[r].step \notin {"mClear", "mRetry", "abort", "notMerged"}
      BY <1>4, <2>5 DEF MergeSteps, Held
    <3> QED BY <1>2, <2>2, <3>1, MergeOn
  <2>8. OutOK'
    BY <1>2, <2>2 DEF OutOK
  <2> QED BY <2>3, <2>6, <2>7, <2>8 DEF Keeps
<1>5. CASE DropBranch(r)
  BY <1>1, <1>4, <1>5 DEF DropBranch, At
<1>6. CASE DropTarget(r)
  BY <1>4, <1>6 DEF DropTarget, At
<1> QED BY <1>3, <1>5, <1>6

-----------------------------------------------------------------------------
(* All commands together. *)

LEMMA GitKeeps ==
  ASSUME Inv, NEW r \in Runs, GitStep(r)
  PROVE  Keeps(r)
<1>1. CASE Save(r) \/ Again(r)
  BY <1>1, CommitKeeps DEF Save, Again, At
<1>2. CASE MergeAdd(r) \/ MergeRetry(r)
  BY <1>2, AddTreeKeeps DEF MergeAdd, MergeRetry, At
<1>3. CASE MergeClear(r) \/ MergeAbort(r) \/ MergeClean(r)
  BY <1>3, ForceRemoveKeeps DEF MergeClear, MergeAbort, MergeClean, At
<1> QED BY <1>1, <1>2, <1>3, LookKeeps, BranchKeeps, HeadKeeps, AddKeeps,
           AttachKeeps, CheckKeeps, BaseKeeps, MergeLookKeeps, MergeKeeps,
           RemoveKeeps, DeleteKeeps, DropKeeps
        DEF GitStep

LEMMA GitInv ==
  ASSUME Inv, NEW r \in Runs, GitStep(r)
  PROVE  OutOK' /\ MergeOK' /\ \A q \in Runs : RunInv(q)'
<1>1. Keeps(r)
  BY GitKeeps
<1>2. ASSUME NEW q \in Runs, q # r
      PROVE  RunInv(q)'
  <2>1. Kept(q)
    BY <1>1, <1>2, OthersKept DEF Keeps, Inv, RunInv
  <2> QED BY <2>1, KeptRunInv DEF Inv
<1> QED BY <1>1, <1>2 DEF Keeps

-----------------------------------------------------------------------------
(* Types of the Git state. *)

RepoTyped(t, o) ==
  /\ DOMAIN t \subseteq Branches /\ \A b \in DOMAIN t : t[b] \subseteq Works
  /\ DOMAIN o \subseteq Paths /\ \A p \in DOMAIN o : o[p] \in DOMAIN t

GitTyped(g) == RepoTyped(g.tip, g.out)

LEMMA GitIsTyped ==
  ASSUME TypeOK
  PROVE  RepoTyped(tip, out) /\ GitTyped(Repo)
BY DEF TypeOK, RepoTyped, GitTyped, Repo, Range

\* What the effects of a command leave is typed.
LEMMA WithBranchTyped ==
  ASSUME TypeOK, NEW b \in Branches, NEW works \in SUBSET Works
  PROVE  GitTyped(WithBranch(b, works))
<1>1. RepoTyped(With(tip, b, works), out)
  BY GitIsTyped DEF RepoTyped, With
<1> QED BY <1>1 DEF GitTyped, WithBranch, Repo

LEMMA WithTreeTyped ==
  ASSUME TypeOK, NEW p \in Paths, NEW b, CanAdd(p, b)
  PROVE  GitTyped(WithTree(p, b))
<1>1. RepoTyped(tip, With(out, p, b))
  BY GitIsTyped DEF RepoTyped, With, CanAdd
<1> QED BY <1>1 DEF GitTyped, WithTree, Repo

LEMMA WithBothTyped ==
  ASSUME TypeOK, NEW p \in Paths, NEW b \in Branches, NEW works \in SUBSET Works
  PROVE  GitTyped(WithBoth(p, b, works))
<1>1. RepoTyped(With(tip, b, works), With(out, p, b))
  BY GitIsTyped DEF RepoTyped, With
<1> QED BY <1>1 DEF GitTyped, WithBoth

LEMMA WithoutTreeTyped ==
  ASSUME TypeOK, NEW p
  PROVE  GitTyped(WithoutTree(p))
<1>1. RepoTyped(tip, Without(out, p))
  BY GitIsTyped DEF RepoTyped, Without, Restrict
<1> QED BY <1>1 DEF GitTyped, WithoutTree, Repo

LEMMA WithoutBranchTyped ==
  ASSUME TypeOK, NEW b, ~CheckedOut(b)
  PROVE  GitTyped(WithoutBranch(b))
<1>1. RepoTyped(Without(tip, b), out)
  BY GitIsTyped DEF RepoTyped, Without, Restrict, CheckedOut, Range
<1> QED BY <1>1 DEF GitTyped, WithoutBranch, Repo

Lanes == [step : Step, issue : Issues \cup {NoIssue}, todo : SUBSET Issues,
          base : SUBSET Works, hurt : BOOLEAN]

LEMMA LaneTyped ==
  ASSUME TypeOK, NEW r \in Runs, NEW s \in Step,
         \/ Goes(r, s)
         \/ lane' = [lane EXCEPT ![r] = IF s = "free" THEN Idle
                                ELSE [@ EXCEPT !.step = s, !.hurt = TRUE]]
  PROVE  lane' \in [Runs -> Lanes]
<1>1. lane \in [Runs -> Lanes]
  BY DEF TypeOK, Lanes
<1>2. Idle \in Lanes
  BY DEF Idle, Lanes, Step
<1>3. /\ [lane[r] EXCEPT !.step = s] \in Lanes
      /\ [lane[r] EXCEPT !.step = s, !.hurt = TRUE] \in Lanes
  <2>1. lane[r] \in Lanes
    BY <1>1
  <2> QED BY <2>1 DEF Lanes
<1> QED BY <1>1, <1>2, <1>3 DEF Goes

LEMMA CommandTyped ==
  ASSUME TypeOK, NEW r \in Runs, NEW can, NEW effects, NEW partial,
         NEW ok \in Step, NEW bad \in Step,
         Command(r, can, effects, partial, ok, bad),
         can => \A g \in effects \cup partial : GitTyped(g),
         edits' \in [Issues -> SUBSET Works]
  PROVE  TypeOK'
<1>1. UNCHANGED <<scoped, status, plan, entry, merging, pc, round, made, restarts>>
  BY DEF Command, ledger
<1>2. /\ torn' \in BOOLEAN /\ cuts' \in 0..MaxCuts
  <2>1. torn \in BOOLEAN /\ cuts \in 0..MaxCuts /\ MaxCuts \in Nat
    BY WorktreesAssumption DEF TypeOK
  <2>2. \/ UNCHANGED <<torn, cuts>>
        \/ /\ cuts < MaxCuts /\ cuts' = cuts + 1
           /\ torn' = (torn \/ lane[r].step \in TornByCut)
    BY Zenon DEF Command
  <2>3. torn' \in BOOLEAN
    BY <2>1, <2>2
  <2>4. cuts' \in 0..MaxCuts
    BY <2>1, <2>2
  <2> QED BY <2>3, <2>4
<1>3. lane' \in [Runs -> Lanes]
  BY LaneTyped DEF Command
<1>4. RepoTyped(tip', out')
  <2>1. GitTyped(Repo) /\ RepoTyped(tip, out)
    BY GitIsTyped
  <2>2. UNCHANGED <<tip, out>>
        \/ \E g : GitTyped(g) /\ tip' = g.tip /\ out' = g.out
    BY <2>1 DEF Command, git
  <2>3. CASE UNCHANGED <<tip, out>>
    BY <2>1, <2>3
  <2>4. ASSUME NEW g, GitTyped(g), tip' = g.tip, out' = g.out
        PROVE  RepoTyped(tip', out')
    BY <2>4 DEF GitTyped
  <2> QED BY <2>2, <2>3, <2>4
<1>5. /\ DOMAIN tip' \subseteq Branches
      /\ \A b \in DOMAIN tip' : tip'[b] \subseteq Works
      /\ DOMAIN out' \subseteq Paths /\ Range(out') \subseteq DOMAIN tip'
  BY <1>4 DEF RepoTyped, Range
<1> QED BY <1>1, <1>2, <1>3, <1>5 DEF TypeOK, Lanes

LEMMA QueryTyped ==
  ASSUME TypeOK, NEW r \in Runs, NEW can, NEW ok \in Step, NEW bad \in Step,
         Query(r, can, ok, bad)
  PROVE  TypeOK'
<1> DEFINE S == {Repo}
<1>1. Command(r, can, S, {}, ok, bad) /\ UNCHANGED edits
  BY DEF Query
<1>2. \A g \in S \cup {} : GitTyped(g)
  BY GitIsTyped
<1>3. edits' \in [Issues -> SUBSET Works]
  BY <1>1 DEF TypeOK
<1> HIDE DEF S
<1> QED BY <1>1, <1>2, <1>3, CommandTyped

LEMMA ReadTyped ==
  ASSUME TypeOK, NEW r \in Runs, NEW works \in SUBSET Works,
         NEW ok \in Step, Read(r, works, ok)
  PROVE  TypeOK'
<1>1. /\ UNCHANGED <<scoped, status, plan, entry, merging, pc, round, made>>
      /\ UNCHANGED <<tip, out, edits, torn, restarts>>
  BY DEF Read, ledger, git
<1>2. cuts' \in 0..MaxCuts
  <2>1. cuts \in 0..MaxCuts /\ MaxCuts \in Nat
    BY WorktreesAssumption DEF TypeOK
  <2> QED BY <2>1 DEF Read
<1>3. lane' \in [Runs -> Lanes]
  <2>1. CASE lane' = [lane EXCEPT ![r].step = ok, ![r].base = works]
    <3>1. lane \in [Runs -> Lanes]
      BY DEF TypeOK, Lanes
    <3>2. [lane[r] EXCEPT !.step = ok, !.base = works] \in Lanes
      <4>1. lane[r] \in Lanes
        BY <3>1
      <4> QED BY <4>1 DEF Lanes
    <3> QED BY <2>1, <3>1, <3>2
  <2>2. CASE Goes(r, "notCreated")
    BY <2>2, LaneTyped DEF Step
  <2> QED BY <2>1, <2>2 DEF Read
<1> QED BY <1>1, <1>2, <1>3 DEF TypeOK, Lanes

\* What a command has to show for its types, when it has one effect at most.
LEMMA OneEffectTyped ==
  ASSUME TypeOK, NEW r \in Runs, NEW can, NEW g, NEW ok \in Step, NEW bad \in Step,
         Command(r, can, {g}, {}, ok, bad), can => GitTyped(g),
         edits' \in [Issues -> SUBSET Works]
  PROVE  TypeOK'
<1> DEFINE S == {g}
<1>1. Command(r, can, S, {}, ok, bad) /\ (can => \A x \in S \cup {} : GitTyped(x))
  OBVIOUS
<1> HIDE DEF S
<1> QED BY <1>1, CommandTyped

LEMMA WorksTyped ==
  ASSUME TypeOK
  PROVE  /\ \A b \in DOMAIN tip : tip[b] \in SUBSET Works
         /\ \A i \in Issues : edits[i] \in SUBSET Works
         /\ edits \in [Issues -> SUBSET Works]
         /\ \A i \in Issues : [edits EXCEPT ![i] = {}] \in [Issues -> SUBSET Works]
         /\ \A r \in Runs : lane[r].base \in SUBSET Works
         /\ \A r \in Runs : Target(r) \in Branches
         /\ Issues \subseteq Branches
         /\ \A i \in Issues : <<"issue", i>> \in Paths /\ <<"merge", i>> \in Paths
BY TargetFacts DEF TypeOK, Branches, Paths

LEMMA GitStepTyped ==
  ASSUME Inv, NEW r \in Runs, GitStep(r)
  PROVE  TypeOK'
<1>1. TypeOK /\ OutOK /\ RunInv(r) /\ LaneOK(r)
  BY DEF Inv, RunInv
<1>2. ASSUME lane[r].step \in Creating
      PROVE  lane[r].issue \in Issues /\ LaneGitOK(r)
  BY <1>1, <1>2, CreatingFacts
<1>3. ASSUME lane[r].step \in Finishing
      PROVE  /\ lane[r].issue \in Issues /\ lane[r].issue \in DOMAIN tip
             /\ Target(r) \in DOMAIN tip
  BY <1>1, <1>3, FinishingFacts
<1>4. ASSUME lane[r].step \in Removing \cup {"dropTree", "dropBranch"}
      PROVE  lane[r].issue \in Issues
  BY <1>1, <1>4, CurrentFacts DEF LaneOK
<1>5. Step = Step \cup Creating \cup Finishing \cup Removing \cup Dropping
  BY DEF Step, Creating, Finishing, Removing, Dropping
<1>6. edits \in [Issues -> SUBSET Works]
  BY <1>1, WorksTyped
<1>7. CASE Look(r) \/ Check(r) \/ MergeLook(r)
  BY <1>1, <1>7, QueryTyped DEF Look, Check, MergeLook, Step
<1>8. CASE Branch(r)
  <2>1. Command(r, NameFree(Target(r)), {WithBranch(Target(r), {})}, {},
                "head", "notCreated") /\ edits' = edits
    BY <1>8 DEF Branch
  <2>2. GitTyped(WithBranch(Target(r), {}))
    BY <1>1, WorksTyped, WithBranchTyped
  <2> DEFINE g == WithBranch(Target(r), {})
             can == NameFree(Target(r))
  <2> HIDE DEF g, can
  <2>3. Command(r, can, {g}, {}, "head", "notCreated") /\ GitTyped(g)
    BY <2>1, <2>2 DEF g, can
  <2>4. edits' \in [Issues -> SUBSET Works]
    BY <1>6, <2>1
  <2>5. "head" \in Step /\ "notCreated" \in Step
    BY DEF Step
  <2> QED BY <1>1, <2>3, <2>4, <2>5, OneEffectTyped
<1>9. CASE Head(r)
  <2>1. lane[r].step = "head" /\ Read(r, tip[Target(r)], "add")
    BY <1>9 DEF Head, At
  <2>2. Target(r) \in DOMAIN tip
    BY <1>2, <2>1 DEF LaneGitOK, Creating
  <2>3. tip[Target(r)] \in SUBSET Works /\ "add" \in Step
    BY <1>1, <2>2, WorksTyped DEF Step
  <2> QED BY <1>1, <2>1, <2>3, ReadTyped
<1>10. CASE Base(r)
  <2>1. /\ lane[r].step = "base"
        /\ Read(r, CommonBase(lane[r].issue, Target(r)), "created")
    BY <1>10 DEF Base, At
  <2>2. Target(r) \in DOMAIN tip
    BY <1>2, <2>1 DEF LaneGitOK, Creating
  <2>3. CommonBase(lane[r].issue, Target(r)) \in SUBSET Works
        /\ "created" \in Step
    BY <1>1, <2>2, WorksTyped DEF Step, CommonBase
  <2> QED BY <1>1, <2>1, <2>3, ReadTyped
<1>11. CASE Add(r)
  <2>1. /\ lane[r].step = "add"
        /\ Command(r, lane[r].issue \notin DOMAIN tip /\ Tree(r) \notin DOMAIN out,
                   {WithBoth(Tree(r), lane[r].issue, lane[r].base)},
                   {WithBranch(lane[r].issue, lane[r].base)},
                   "created", "attach")
        /\ edits' = edits
    BY <1>11 DEF Add, At
  <2>2. lane[r].issue \in Issues
    BY <1>2, <2>1 DEF Creating
  <2>3. /\ Tree(r) \in Paths /\ lane[r].issue \in Branches
        /\ lane[r].base \in SUBSET Works
    BY <1>1, <2>2, WorksTyped DEF Tree
  <2>4. /\ GitTyped(WithBoth(Tree(r), lane[r].issue, lane[r].base))
        /\ GitTyped(WithBranch(lane[r].issue, lane[r].base))
    BY <1>1, <2>3, WithBothTyped, WithBranchTyped
  <2> DEFINE can == lane[r].issue \notin DOMAIN tip /\ Tree(r) \notin DOMAIN out
             S == {WithBoth(Tree(r), lane[r].issue, lane[r].base)}
             P == {WithBranch(lane[r].issue, lane[r].base)}
  <2>5. \A x \in S \cup P : GitTyped(x)
    BY <2>4
  <2>6. Command(r, can, S, P, "created", "attach")
    BY <2>1
  <2>7. edits' \in [Issues -> SUBSET Works]
    BY <1>6, <2>1
  <2>8. "created" \in Step /\ "attach" \in Step
    BY DEF Step
  <2> HIDE DEF can, S, P
  <2> QED BY <1>1, <2>5, <2>6, <2>7, <2>8, CommandTyped
<1>12. ASSUME NEW p \in Paths, NEW b, NEW ok \in Step, NEW bad \in Step,
              Command(r, CanAdd(p, b), {WithTree(p, b)}, {}, ok, bad),
              UNCHANGED edits
       PROVE  TypeOK'
  <2>1. CanAdd(p, b) => GitTyped(WithTree(p, b))
    BY <1>1, WithTreeTyped
  <2> DEFINE g == WithTree(p, b)
             can == CanAdd(p, b)
  <2> HIDE DEF g, can
  <2>2. Command(r, can, {g}, {}, ok, bad) /\ (can => GitTyped(g))
    BY <1>12, <2>1 DEF g, can
  <2>3. edits' \in [Issues -> SUBSET Works]
    BY <1>6, <1>12
  <2> QED BY <1>1, <2>2, <2>3, OneEffectTyped
<1>13. CASE Attach(r)
  <2>1. /\ lane[r].step = "attach"
        /\ Command(r, CanAdd(Tree(r), lane[r].issue),
                   {WithTree(Tree(r), lane[r].issue)}, {}, "base", "check")
        /\ UNCHANGED edits
    BY <1>13 DEF Attach, At
  <2>2. Tree(r) \in Paths
    BY <1>1, <1>2, <2>1, WorksTyped DEF Creating, Tree
  <2>3. PICK p, b : p = Tree(r) /\ b = lane[r].issue
    OBVIOUS
  <2>4. /\ p \in Paths /\ Command(r, CanAdd(p, b), {WithTree(p, b)}, {},
                                  "base", "check")
        /\ "base" \in Step /\ "check" \in Step
    BY <2>1, <2>2, <2>3 DEF Step
  <2> QED BY <1>12, <2>1, <2>4
<1>14. CASE MergeAdd(r) \/ MergeRetry(r)
  <2>1. PICK bad : /\ bad \in {"mClear", "notMerged"}
                   /\ lane[r].step \in {"mAdd", "mRetry"}
                   /\ AddTree(r, "merge", bad)
    BY <1>14 DEF MergeAdd, MergeRetry, At
  <2>2. MergeTree(r) \in Paths
    BY <1>1, <1>3, <2>1, WorksTyped DEF Finishing, MergeTree
  <2>3. PICK p, b : p = MergeTree(r) /\ b = Target(r)
    OBVIOUS
  <2>4. /\ p \in Paths /\ Command(r, CanAdd(p, b), {WithTree(p, b)}, {},
                                  "merge", bad)
        /\ UNCHANGED edits
        /\ "merge" \in Step /\ bad \in Step
    BY <2>1, <2>2, <2>3 DEF Step, AddTree
  <2> QED BY <1>12, <2>4
<1>15. ASSUME NEW p, NEW next \in Step, ForceRemove(r, p, next),
              edits' \in [Issues -> SUBSET Works]
       PROVE  TypeOK'
  <2>1. Command(r, p \in DOMAIN out, {WithoutTree(p)}, {}, next, next)
    BY <1>15 DEF ForceRemove
  <2>2. GitTyped(WithoutTree(p))
    BY <1>1, WithoutTreeTyped
  <2> DEFINE g == WithoutTree(p)
             can == p \in DOMAIN out
  <2> HIDE DEF g, can
  <2>3. Command(r, can, {g}, {}, next, next) /\ GitTyped(g)
    BY <2>1, <2>2 DEF g, can
  <2> QED BY <1>1, <1>15, <2>3, OneEffectTyped
<1>16. CASE MergeClear(r) \/ MergeAbort(r) \/ MergeClean(r)
  <2>1. PICK next : /\ next \in {"mRetry", "notMerged", "record"}
                    /\ ForceRemove(r, MergeTree(r), next) /\ UNCHANGED edits
    BY <1>16 DEF MergeClear, MergeAbort, MergeClean
  <2>2. next \in Step
    BY <2>1 DEF Step
  <2> QED BY <1>6, <1>15, <2>1, <2>2
<1>17. CASE Remove(r) \/ DropTree(r)
  <2>1. PICK next : next \in {"delete", "dropBranch"} /\ RemoveTree(r, next)
    BY <1>17 DEF Remove, DropTree
  <2>2. next \in Step /\ lane[r].issue \in Issues
    BY <1>4, <1>17, <2>1 DEF Step, Remove, DropTree, At, Removing
  <2>3. edits' \in [Issues -> SUBSET Works]
    BY <1>1, <2>1, <2>2, WorksTyped DEF RemoveTree
  <2> QED BY <1>15, <2>1, <2>2, <2>3 DEF RemoveTree
<1>18. ASSUME NEW ok \in Step, NEW bad \in Step,
              lane[r].step \in {"save", "again"}, Commit(r, ok, bad)
       PROVE  TypeOK'
  <2>1. lane[r].issue \in Issues /\ lane[r].issue \in DOMAIN tip
    BY <1>3, <1>18 DEF Finishing
  <2>2. edits' \in [Issues -> SUBSET Works]
    BY <1>1, <1>18, <2>1, WorksTyped DEF Commit
  <2> DEFINE i == lane[r].issue
             g == IF Saves(r) THEN WithBranch(i, tip[i] \cup edits[i]) ELSE Repo
             can == Tree(r) \in DOMAIN out
  <2>3. Command(r, can, {g}, {}, ok, bad)
    BY <1>18 DEF Commit
  <2>4. GitTyped(g)
    <3>1. i \in Branches /\ tip[i] \cup edits[i] \in SUBSET Works
      BY <1>1, <2>1, WorksTyped
    <3>2. GitTyped(WithBranch(i, tip[i] \cup edits[i])) /\ GitTyped(Repo)
      BY <1>1, <3>1, WithBranchTyped, GitIsTyped
    <3> QED BY <3>2
  <2> HIDE DEF g, can
  <2> QED BY <1>1, <2>2, <2>3, <2>4, OneEffectTyped
<1>19. CASE Save(r) \/ Again(r)
  BY <1>18, <1>19 DEF Save, Again, At, Step
<1>20. CASE Merge(r)
  <2>1. /\ lane[r].issue \in Issues /\ lane[r].issue \in DOMAIN tip
        /\ Target(r) \in DOMAIN tip /\ lane[r].step = "merge"
    BY <1>3, <1>20 DEF Finishing, Merge, At
  <2> DEFINE works == tip[Target(r)] \cup tip[lane[r].issue]
             g == WithBranch(Target(r), works)
             can == lane[r].issue \in DOMAIN tip
  <2>2. CASE Command(r, can, {g}, {}, "mClean", "abort") /\ UNCHANGED edits
    <3>1. Target(r) \in Branches /\ works \in SUBSET Works
      BY <1>1, <2>1, WorksTyped
    <3>2. GitTyped(g)
      <4> HIDE DEF works
      <4> QED BY <1>1, <3>1, WithBranchTyped
    <3>3. edits' \in [Issues -> SUBSET Works] /\ "mClean" \in Step
          /\ "abort" \in Step
      BY <1>6, <2>2 DEF Step
    <3> HIDE DEF g, can
    <3> QED BY <1>1, <2>2, <3>2, <3>3, OneEffectTyped
  <2>3. CASE /\ lane' = [lane EXCEPT ![r].step = "abort", ![r].hurt = TRUE]
             /\ UNCHANGED <<ledger, pc, round, git, edits, made, torn, bounds>>
    <3>1. lane' \in [Runs -> Lanes]
      <4>1. lane \in [Runs -> Lanes]
        BY <1>1 DEF TypeOK, Lanes
      <4>2. [lane[r] EXCEPT !.step = "abort", !.hurt = TRUE] \in Lanes
        <5>1. lane[r] \in Lanes /\ "abort" \in Step
          BY <4>1 DEF Step
        <5> QED BY <5>1 DEF Lanes
      <4> QED BY <2>3, <4>1, <4>2
    <3> QED BY <1>1, <2>3, <3>1 DEF TypeOK, Lanes, ledger, git, bounds
  <2> QED BY <1>20, <2>2, <2>3 DEF Merge
<1>21. ASSUME NEW x, NEW next \in Step, DeleteBranch(r, {x} \cap DOMAIN tip, next)
       PROVE  TypeOK'
  <2> DEFINE b == {x} \cap DOMAIN tip
             can == b # {} /\ \A y \in b : ~CheckedOut(y)
             S == {WithoutBranch(y) : y \in b}
  <2>1. Command(r, can, S, {}, next, next) /\ edits' \in [Issues -> SUBSET Works]
    BY <1>6, <1>21 DEF DeleteBranch
  <2>2. can => \A g \in S \cup {} : GitTyped(g)
    BY <1>1, WithoutBranchTyped
  <2> HIDE DEF can, S
  <2> QED BY <1>1, <2>1, <2>2, CommandTyped
<1>22. CASE Delete(r) \/ DropBranch(r) \/ DropTarget(r)
  BY <1>21, <1>22 DEF Delete, DropBranch, DropTarget, BranchToDelete, Step
<1> QED BY <1>7, <1>8, <1>9, <1>10, <1>11, <1>13, <1>14, <1>16, <1>17, <1>19,
           <1>20, <1>22
        DEF GitStep

-----------------------------------------------------------------------------
(* The steps between the commands: claims, verdicts and records. *)

\* Git, the other runs and the issues of other plans are left alone.
LedgerOnly(r) ==
  /\ UNCHANGED <<tip, out, edits, torn, scoped>>
  /\ OthersStay(r)
  /\ \A q \in Runs : q # r => status'[q] = status[q] /\ plan'[q] = plan[q]
  /\ \A j \in Issues : j \notin Current(r) =>
       /\ entry'[j] = entry[j] /\ pc'[j] = pc[j] /\ round'[j] = round[j]
       /\ made'[j] = made[j]

LedgerKeeps(r) == LedgerOnly(r) /\ TypeOK' /\ RunInv(r)' /\ MergeOK'

LEMMA LedgerOthers ==
  ASSUME Inv, NEW r \in Runs, LedgerKeeps(r)
  PROVE  Inv'
<1>1. TypeOK /\ LedgerOnly(r)
  BY DEF Inv, LedgerKeeps
<1>2. ASSUME NEW q \in Runs, q # r
      PROVE  RunInv(q)'
  <2>1. \A j \in IssuesOf(q) : j \in Issues /\ j \notin Current(r)
    BY <1>1, <1>2, IssuesOfIn, IssueFacts, CurrentFacts
  <2>2. \A j \in Issues : SameGit(j)
    BY <1>1 DEF LedgerOnly, SameGit, Has
  <2>3. Grows(Target(q))
    BY <1>1 DEF LedgerOnly, Grows
  <2>4. Kept(q)
    BY <1>1, <1>2, <2>1, <2>2, <2>3 DEF Kept, LedgerOnly, OthersStay
  <2> QED BY <1>1, <2>4, KeptRunInv DEF Inv
<1>3. OutOK'
  BY <1>1 DEF Inv, OutOK, LedgerOnly
<1> QED BY <1>2, <1>3 DEF Inv, LedgerKeeps

\* The merges, when the sequence does not merge.
LEMMA LedgerMerges ==
  ASSUME Inv, NEW r \in Runs, LedgerOnly(r),
         lane[r].step \notin Held, lane'[r].step \notin MergeSteps,
         lane'[r].step = "notMerged" => lane'[r].hurt
  PROVE  MergeOK'
<1>1. OthersStay(r) /\ UNCHANGED <<out, torn>>
  BY DEF LedgerOnly
<1>2. lane'[r].step \in {"mClear", "mRetry", "abort", "notMerged"}
        => lane'[r].hurt
  BY DEF MergeSteps
<1> QED BY <1>1, <1>2, MergeOn DEF Inv

LEMMA LedgerGit ==
  ASSUME NEW r \in Runs, LedgerOnly(r)
  PROVE  /\ Target(r)' = Target(r) /\ On(Target(r))' = On(Target(r))
         /\ \A j : On(j)' = On(j) /\ Has(j)' = Has(j)
BY DEF LedgerOnly, Target, On, Has

LEMMA LaterPlans ==
  ASSUME TypeOK, NEW r \in Runs, RunOK(r), LedgerOnly(r), plan'[r] = plan[r],
         status'[r] = "PLANNING" =>
           /\ plan[r] + 1 \in DOMAIN Plans[r]
           /\ \A i \in Current(r) : pc'[i] = "idle",
         status'[r] = "INTEGRATION_REVIEW" =>
           \A i \in Current(r) : entry'[i].status = "done"
  PROVE  RunOK(r)'
<1>1. Current(r)' = Current(r)
  BY DEF Current
<1>2. \A k \in DOMAIN Plans[r] : k # plan[r] =>
        \A j \in Plans[r][k] : j \in Issues /\ j \notin Current(r)
  BY IssueFacts DEF TypeOK, Current
<1>3. plan[r] \in Nat /\ DOMAIN Plans[r] \subseteq Nat
  BY WorktreesAssumption DEF TypeOK
<1> QED BY <1>1, <1>2, <1>3 DEF RunOK, LedgerOnly

\* An issue that is not about to be integrated.
LEMMA LedgerIssue ==
  ASSUME NEW r \in Runs, LedgerOnly(r), NEW i \in Issues, IssueOK(r, i),
         made'[i] = made[i],
         pc'[i] # "idle" => entry'[i].status = "running" /\ round'[i] >= 1,
         pc'[i] \in {"executing", "succeeded", "broke"} => entry'[i].dir,
         entry'[i].dir /\ entry'[i].status # "done" =>
           entry[i].dir /\ entry[i].status # "done" /\ entry'[i].base = entry[i].base,
         entry'[i].status = "done" => entry[i].status = "done"
  PROVE  IssueOK(r, i)'
<1>1. /\ Target(r)' = Target(r) /\ On(Target(r))' = On(Target(r))
      /\ On(i)' = On(i) /\ Has(i)' = Has(i)
      /\ edits'[i] = edits[i] /\ tip' = tip
  BY LedgerGit DEF LedgerOnly
<1> QED BY <1>1 DEF IssueOK, GoodBase

LEMMA LedgerDeps ==
  ASSUME NEW r \in Runs, LedgerOnly(r), NEW i \in Issues, DepsOK(r, i),
         \A d \in Deps[i] : made'[d] = made[d],
         pc'[i] # "idle" => pc[i] # "idle",
         \A d \in Deps[i] : entry[d].status = "done" => entry'[d].status = "done",
         \/ lane'[r].step \in Removing /\ lane'[r].issue = i
         \/ /\ ~(lane[r].step \in Removing /\ lane[r].issue = i)
            /\ entry'[i].status = "done" => entry[i].status = "done"
  PROVE  DepsOK(r, i)'
BY DEF LedgerOnly, DepsOK

Entries == [status : {"pending", "running", "done", "failed"},
            dir : BOOLEAN, base : SUBSET Works]

LEMMA EntriesTyped ==
  ASSUME TypeOK
  PROVE  /\ entry \in [Issues -> Entries] /\ Fresh \in Entries
         /\ \A i \in Issues : \A s \in {"pending", "running", "done", "failed"} :
              [entry[i] EXCEPT !.status = s] \in Entries
         /\ \A i \in Issues : \A b \in SUBSET Works :
              [[entry[i] EXCEPT !.dir = TRUE] EXCEPT !.base = b] \in Entries
<1>1. entry \in [Issues -> Entries] /\ Fresh \in Entries
  BY DEF TypeOK, Entries, Fresh
<1>2. \A e \in Entries : /\ \A s \in {"pending", "running", "done", "failed"} :
                              [e EXCEPT !.status = s] \in Entries
                         /\ \A b \in SUBSET Works :
                              [[e EXCEPT !.dir = TRUE] EXCEPT !.base = b] \in Entries
  BY DEF Entries
<1> QED BY <1>1, <1>2

LEMMA IdleFacts ==
  /\ Idle \in Lanes /\ Idle.step = "free" /\ Idle.todo = {}
  /\ Idle.issue = NoIssue /\ Idle.hurt = FALSE /\ Idle.base = {}
BY DEF Idle, Lanes, Step

LEMMA ClaimKeeps ==
  ASSUME Inv, NEW r \in Runs, Claim(r)
  PROVE  LedgerKeeps(r)
<1>1. /\ TypeOK /\ RunInv(r) /\ LaneOK(r) /\ RunOK(r)
      /\ status[r] = "EXECUTING" /\ lane[r].step = "free"
  BY DEF Inv, RunInv, Claim, At
<1>2. PICK C \in SUBSET {i \in Current(r) : Claimable(i)} :
        /\ entry' = [i \in Issues |-> IF i \in C
                                      THEN [entry[i] EXCEPT !.status = "running"]
                                      ELSE entry[i]]
        /\ pc' = [i \in Issues |-> IF i \in C THEN "claimed" ELSE pc[i]]
        /\ round' = [i \in Issues |-> IF i \in C THEN round[i] + 1 ELSE round[i]]
  BY DEF Claim
<1>3. UNCHANGED <<scoped, status, plan, merging, lane, tip, out, edits, made,
                  torn, cuts, restarts>>
  BY DEF Claim, git, bounds
<1>4. \A i \in Current(r) : i \in Issues /\ Deps[i] \subseteq Current(r)
  BY <1>1, CurrentFacts
<1>5. \A i \in C : /\ i \in Current(r) /\ round[i] < MaxRounds[i]
                   /\ entry[i].status \in {"pending", "failed"}
                   /\ \A d \in Deps[i] : entry[d].status = "done"
  BY DEF Claimable
<1>6. LedgerOnly(r)
  BY <1>1, <1>2, <1>3, <1>5 DEF LedgerOnly, OthersStay, TypeOK
<1>7. TypeOK'
  <2>1. entry' \in [Issues -> Entries]
    BY <1>1, <1>2, EntriesTyped
  <2>2. pc' \in [Issues -> {"idle", "claimed", "executing", "succeeded", "broke"}]
    BY <1>1, <1>2 DEF TypeOK
  <2>3. \A i \in Issues : round'[i] \in 0..MaxRounds[i]
    <3>1. \A i \in Issues : round[i] \in 0..MaxRounds[i] /\ MaxRounds[i] \in Nat
      BY <1>1, WorktreesAssumption DEF TypeOK
    <3> QED BY <1>2, <1>5, <3>1
  <2> QED BY <1>1, <1>3, <2>1, <2>2, <2>3 DEF TypeOK, Entries
<1>8. Current(r)' = Current(r) /\ lane'[r] = lane[r] /\ status'[r] = status[r]
  BY <1>3 DEF Current
<1>9. ASSUME NEW i \in Current(r)
      PROVE  IssueOK(r, i)' /\ DepsOK(r, i)'
  <2>1. IssueOK(r, i) /\ DepsOK(r, i) /\ i \in Issues
    BY <1>1, <1>4 DEF RunInv
  <2>2. CASE i \in C
    <3>1. /\ entry'[i].status = "running" /\ entry'[i].dir = entry[i].dir
          /\ entry'[i].base = entry[i].base
          /\ pc'[i] = "claimed" /\ round'[i] >= 1
      <4>1. entry[i] \in Entries
        BY <1>1, <2>1, EntriesTyped
      <4>2. round[i] \in 0..MaxRounds[i] /\ MaxRounds[i] \in Nat
        BY <1>1, <2>1, WorktreesAssumption DEF TypeOK
      <4> QED BY <1>2, <2>1, <2>2, <4>1, <4>2 DEF Entries
    <3>2. \A d \in Deps[i] : entry[d].status = "done" /\ d \in Issues /\ d \notin C
      BY <1>4, <1>5, <2>2
    <3>3. \A d \in Deps[i] : entry'[d].status = "done"
      BY <1>2, <3>2
    <3>4. IssueOK(r, i)'
      BY <1>3, <1>5, <1>6, <2>1, <2>2, <3>1, LedgerIssue
    <3>5. DepsOK(r, i)'
      BY <1>3, <2>1, <3>1, <3>2, <3>3 DEF DepsOK
    <3> QED BY <3>4, <3>5
  <2>3. CASE i \notin C
    <3>1. entry'[i] = entry[i] /\ pc'[i] = pc[i] /\ round'[i] = round[i]
      BY <1>2, <2>1, <2>3
    <3>2. \A d \in Deps[i] : entry[d].status = "done" => entry'[d].status = "done"
      BY <1>2, <1>4, <1>5
    <3>3. IssueOK(r, i)'
      <4>1. /\ pc'[i] # "idle" => entry'[i].status = "running" /\ round'[i] >= 1
            /\ pc'[i] \in {"executing", "succeeded", "broke"} => entry'[i].dir
        BY <2>1, <3>1 DEF IssueOK
      <4> QED BY <1>3, <1>6, <2>1, <3>1, <4>1, LedgerIssue
    <3>4. ~(lane[r].step \in Removing)
      BY <1>1 DEF Removing
    <3>5. DepsOK(r, i)'
      BY <1>3, <1>6, <2>1, <3>1, <3>2, <3>4, LedgerDeps
    <3> QED BY <3>3, <3>5
  <2> QED BY <2>2, <2>3
<1>10. LaneOK(r)'
  BY <1>1, <1>8 DEF LaneOK, Creating, Finishing, Removing, Dropping
<1>11. LaneGitOK(r)'
  BY <1>1, <1>8 DEF LaneGitOK, Removing
<1>12. RunOK(r)'
  BY <1>1, <1>3, <1>6, <1>8, LaterPlans
<1>13. MergeOK'
  BY <1>3 DEF Inv, MergeOK, MergeTree
<1> QED BY <1>6, <1>7, <1>8, <1>9, <1>10, <1>11, <1>12, <1>13
        DEF LedgerKeeps, RunInv

LEMMA PrepareKeeps ==
  ASSUME Inv, NEW r \in Runs, Prepare(r)
  PROVE  LedgerKeeps(r)
<1>1. /\ TypeOK /\ RunInv(r) /\ LaneOK(r) /\ RunOK(r) /\ lane[r].step = "free"
  BY DEF Inv, RunInv, Prepare, At
<1>2. UNCHANGED <<scoped, status, plan, entry, merging, round, tip, out, edits,
                  made, torn, cuts, restarts>>
  BY DEF Prepare, ledger, git, bounds
<1> DEFINE Bare == {i \in Current(r) : pc[i] = "claimed" /\ ~entry[i].dir}
<1>3. \/ /\ Bare = {} /\ UNCHANGED lane
         /\ pc' = [i \in Issues |-> IF i \in Current(r) /\ pc[i] = "claimed"
                                    THEN "executing" ELSE pc[i]]
      \/ /\ \E i \in Bare : lane' = [lane EXCEPT ![r] =
                                       [Idle EXCEPT !.step = "look", !.issue = i]]
         /\ UNCHANGED pc
  BY DEF Prepare
<1>4. \A i \in Current(r) : i \in Issues /\ Deps[i] \subseteq Current(r)
  BY <1>1, CurrentFacts
<1>5. status[r] # "PLANNING"
  BY <1>1 DEF LaneOK, Dropping
<1>6. \A i \in Current(r) : IssueOK(r, i) /\ DepsOK(r, i)
  BY <1>1, <1>5 DEF RunInv
<1>7. Current(r)' = Current(r) /\ status'[r] = status[r]
  BY <1>2 DEF Current
<1>8. ~(lane[r].step \in Removing) /\ lane[r].step \notin Held
  BY <1>1 DEF Removing, Held
<1>9. ASSUME /\ OthersStay(r)
             /\ \A j \in Issues : j \notin Current(r) => pc'[j] = pc[j]
             /\ \A j \in Current(r) :
                  \/ pc'[j] = pc[j]
                  \/ pc[j] = "claimed" /\ pc'[j] = "executing" /\ entry[j].dir
             /\ lane' \in [Runs -> Lanes]
             /\ pc' \in [Issues -> {"idle", "claimed", "executing", "succeeded",
                                    "broke"}]
             /\ LaneOK(r)' /\ LaneGitOK(r)'
             /\ lane'[r].step \in {"free", "look"}
      PROVE  LedgerKeeps(r)
  <2>1. LedgerOnly(r)
    BY <1>1, <1>2, <1>9 DEF LedgerOnly
  <2>2. TypeOK'
    BY <1>1, <1>2, <1>9 DEF TypeOK, Lanes
  <2>3. ASSUME NEW i \in Current(r)
        PROVE  IssueOK(r, i)' /\ DepsOK(r, i)'
    <3>1. /\ i \in Issues /\ IssueOK(r, i) /\ DepsOK(r, i)
      BY <1>4, <1>6
    <3>2. /\ pc'[i] # "idle" => pc[i] # "idle"
          /\ pc'[i] # "idle" => entry'[i].status = "running" /\ round'[i] >= 1
          /\ pc'[i] \in {"executing", "succeeded", "broke"} => entry'[i].dir
      BY <1>2, <1>9, <3>1 DEF IssueOK
    <3>3. IssueOK(r, i)'
      BY <1>2, <2>1, <3>1, <3>2, LedgerIssue
    <3>4. DepsOK(r, i)'
      BY <1>2, <1>8, <2>1, <3>1, <3>2, LedgerDeps
    <3> QED BY <3>3, <3>4
  <2>4. RunOK(r)'
    BY <1>1, <1>2, <1>5, <1>7, <2>1, LaterPlans DEF RunOK
  <2>5. MergeOK'
    BY <1>8, <1>9, <2>1, LedgerMerges DEF MergeSteps
  <2> QED BY <1>7, <1>9, <2>1, <2>2, <2>3, <2>4, <2>5 DEF LedgerKeeps, RunInv
<1>10. CASE /\ Bare = {} /\ UNCHANGED lane
            /\ pc' = [i \in Issues |-> IF i \in Current(r) /\ pc[i] = "claimed"
                                       THEN "executing" ELSE pc[i]]
  <2>1. LaneOK(r)' /\ LaneGitOK(r)'
    BY <1>1, <1>5, <1>7, <1>10
       DEF LaneOK, LaneGitOK, Creating, Finishing, Removing, Dropping
  <2>2. /\ \A j \in Issues : j \notin Current(r) => pc'[j] = pc[j]
        /\ \A j \in Current(r) :
             \/ pc'[j] = pc[j]
             \/ pc[j] = "claimed" /\ pc'[j] = "executing" /\ entry[j].dir
    BY <1>4, <1>10
  <2>3. /\ OthersStay(r) /\ lane' \in [Runs -> Lanes] /\ lane'[r].step = "free"
        /\ pc' \in [Issues -> {"idle", "claimed", "executing", "succeeded",
                               "broke"}]
    BY <1>1, <1>10 DEF OthersStay, TypeOK, Lanes
  <2> QED BY <1>9, <2>1, <2>2, <2>3
<1>11. ASSUME NEW i \in Bare, UNCHANGED pc,
              lane' = [lane EXCEPT ![r] =
                         [Idle EXCEPT !.step = "look", !.issue = i]]
       PROVE  LedgerKeeps(r)
  <2>1. i \in Current(r) /\ i \in Issues /\ pc[i] = "claimed" /\ ~entry[i].dir
    BY <1>4
  <2>2. [Idle EXCEPT !.step = "look", !.issue = i] \in Lanes
    BY <2>1, IdleFacts DEF Lanes, Step
  <2>3. /\ lane'[r].step = "look" /\ lane'[r].issue = i /\ lane'[r].todo = {}
        /\ OthersStay(r) /\ lane' \in [Runs -> Lanes]
    BY <1>1, <1>11, <2>2 DEF TypeOK, OthersStay, Idle, Lanes
  <2>4. LaneOK(r)' /\ LaneGitOK(r)'
    BY <1>2, <1>5, <1>7, <1>11, <2>1, <2>3
       DEF LaneOK, LaneGitOK, Creating, Finishing, Removing, Dropping
  <2> QED BY <1>1, <1>9, <1>11, <2>3, <2>4 DEF TypeOK
<1> QED BY <1>3, <1>10, <1>11

\* Claims that end, and entries that stay what they are to the invariant.
Settles(i) ==
  /\ pc'[i] = "idle" \/ (pc'[i] = pc[i] /\ entry'[i] = entry[i])
  /\ entry'[i].dir = entry[i].dir /\ entry'[i].base = entry[i].base
  /\ entry'[i].status = "done" <=> entry[i].status = "done"

LEMMA SettlingKeeps ==
  ASSUME Inv, NEW r \in Runs, LedgerOnly(r), TypeOK',
         UNCHANGED <<made, round, plan>>, status[r] # "PLANNING",
         status'[r] = status[r]
           \/ status'[r] \notin {"PLANNING", "INTEGRATION_REVIEW"},
         LaneOK(r)', LaneGitOK(r)', MergeOK',
         lane'[r] = lane[r] \/ lane[r].step \notin Removing,
         \A i \in Current(r) : Settles(i)
  PROVE  LedgerKeeps(r)
<1>1. TypeOK /\ RunInv(r) /\ RunOK(r)
  BY DEF Inv, RunInv
<1>2. Current(r)' = Current(r)
  BY DEF Current
<1>3. ASSUME NEW i \in Current(r)
      PROVE  IssueOK(r, i)' /\ DepsOK(r, i)'
  <2>1. /\ i \in Issues /\ Deps[i] \subseteq Current(r)
        /\ IssueOK(r, i) /\ DepsOK(r, i)
    BY <1>1, CurrentFacts DEF RunInv
  <2>2. IssueOK(r, i)'
    <3>1. /\ pc'[i] # "idle" => entry'[i].status = "running" /\ round'[i] >= 1
          /\ pc'[i] \in {"executing", "succeeded", "broke"} => entry'[i].dir
      BY <2>1 DEF IssueOK, Settles
    <3> QED BY <2>1, <3>1, LedgerIssue DEF Settles
  <2>3. DepsOK(r, i)'
    <3>1. \A d \in Deps[i] : entry[d].status = "done" => entry'[d].status = "done"
      BY <2>1 DEF Settles
    <3> QED BY <2>1, <3>1, LedgerDeps DEF Settles
  <2> QED BY <2>2, <2>3
<1>4. RunOK(r)'
  BY <1>1, LaterPlans DEF RunOK, Settles
<1> QED BY <1>2, <1>3, <1>4 DEF LedgerKeeps, RunInv

\* Where a sequence stands when it ends.
LEMMA LaneFree ==
  ASSUME Inv, NEW r \in Runs, status'[r] # "PLANNING", lane'[r] = Idle
  PROVE  LaneOK(r)' /\ LaneGitOK(r)'
BY IdleFacts DEF LaneOK, LaneGitOK, Creating, Finishing, Removing, Dropping

\* A sequence that fails: the claim is handed back, or the run fails with it.
LEMMA HandBackKeeps ==
  ASSUME Inv, NEW r \in Runs,
         \/ NotCreated(r) \/ NotSaved(r) \/ CheckpointFix(r) \/ NotMerged(r)
  PROVE  LedgerKeeps(r)
<1>1. PICK i : i = lane[r].issue
  OBVIOUS
<1>2. TypeOK /\ OutOK /\ RunInv(r) /\ LaneOK(r)
  BY DEF Inv, RunInv
<1>3. /\ Goes(r, "free") /\ "free" \in Step
      /\ lane[r].step \in {"notCreated", "notSaved", "review", "notMerged"}
      /\ lane[r].step \notin Held \cup Removing
  BY DEF NotCreated, NotSaved, CheckpointFix, NotMerged, At, Step, Held, Removing
<1>4. /\ i \in Current(r) /\ i \in Issues /\ entry[i].status = "running"
      /\ status[r] # "PLANNING"
  BY <1>1, <1>2, <1>3, CreatingFacts, FinishingFacts DEF Creating, Finishing
<1>5. /\ UNCHANGED <<scoped, plan, round, tip, out, edits, made, torn, cuts,
                     restarts>>
  BY DEF NotCreated, NotSaved, CheckpointFix, NotMerged, ledger, git, bounds
<1>6. /\ \/ UNCHANGED entry
         \/ \E s \in {"pending", "failed"} :
              entry' = [entry EXCEPT ![i].status = s]
      /\ \/ UNCHANGED status
         \/ status' = [status EXCEPT ![r] = "FAILED"]
      /\ \/ UNCHANGED merging
         \/ merging' = [merging EXCEPT ![r] = FALSE]
      /\ \/ pc' = [j \in Issues |-> IF j \in Current(r) THEN "idle" ELSE pc[j]]
         \/ pc' = [pc EXCEPT ![i] = "idle"]
  BY <1>1 DEF NotCreated, NotSaved, CheckpointFix, NotMerged, Failed, ledger
<1>7. /\ \A j \in Issues : pc'[j] = pc[j] \/ (j \in Current(r) /\ pc'[j] = "idle")
      /\ pc'[i] = "idle"
      /\ pc' \in [Issues -> {"idle", "claimed", "executing", "succeeded", "broke"}]
  BY <1>2, <1>4, <1>6 DEF TypeOK
<1>8. /\ \A j \in Issues : j # i => entry'[j] = entry[j]
      /\ entry'[i].dir = entry[i].dir /\ entry'[i].base = entry[i].base
      /\ entry'[i].status # "done"
      /\ entry' \in [Issues -> Entries]
  <2>1. entry \in [Issues -> Entries] /\ entry[i] \in Entries
    BY <1>2, <1>4, EntriesTyped
  <2>2. CASE UNCHANGED entry
    BY <1>4, <2>1, <2>2
  <2>3. ASSUME NEW s \in {"pending", "failed"},
               entry' = [entry EXCEPT ![i].status = s]
        PROVE  <1>8
    <3>1. [entry[i] EXCEPT !.status = s] \in Entries
      BY <1>2, <1>4, EntriesTyped
    <3>2. /\ [entry[i] EXCEPT !.status = s].dir = entry[i].dir
          /\ [entry[i] EXCEPT !.status = s].base = entry[i].base
          /\ [entry[i] EXCEPT !.status = s].status = s
      BY <2>1 DEF Entries
    <3>3. /\ entry'[i] = [entry[i] EXCEPT !.status = s]
          /\ \A j \in Issues : j # i => entry'[j] = entry[j]
          /\ entry' \in [Issues -> Entries]
      BY <1>4, <2>1, <2>3, <3>1
    <3> QED BY <3>2, <3>3
  <2> QED BY <1>6, <2>2, <2>3
<1>9. /\ OthersStay(r) /\ lane'[r] = Idle /\ lane' \in [Runs -> Lanes]
  BY <1>2, <1>3, GoesTo, LaneTyped DEF LaneAt, Lanes
<1>10. /\ \A q \in Runs : q # r => status'[q] = status[q]
       /\ status'[r] \in {status[r], "FAILED"}
  BY <1>2, <1>6 DEF TypeOK
<1>11. LedgerOnly(r)
  BY <1>4, <1>5, <1>7, <1>8, <1>9, <1>10 DEF LedgerOnly
<1>12. TypeOK'
  <2>1. /\ status' \in [Runs -> {"READY", "EXECUTING", "FAILED",
                                 "INTEGRATION_REVIEW", "PLANNING"}]
        /\ merging' \in [Runs -> BOOLEAN]
    BY <1>2, <1>6 DEF TypeOK
  <2> QED BY <1>2, <1>5, <1>7, <1>8, <1>9, <2>1 DEF TypeOK, Lanes, Entries
<1>13. LaneOK(r)' /\ LaneGitOK(r)'
  BY <1>4, <1>9, <1>10, LaneFree
<1>14. MergeOK'
  BY <1>3, <1>9, <1>11, IdleFacts, LedgerMerges DEF MergeSteps
<1>15. \A j \in Current(r) : Settles(j)
  BY <1>2, <1>4, <1>7, <1>8, CurrentFacts DEF Settles
<1> QED BY <1>3, <1>4, <1>5, <1>10, <1>11, <1>12, <1>13, <1>14, <1>15,
           SettlingKeeps

\* A verdict that passes, and the marker of the merge.
LEMMA ReviewedKeeps ==
  ASSUME Inv, NEW r \in Runs, CheckpointPass(r) \/ Mark(r)
  PROVE  LedgerKeeps(r)
<1>1. PICK i : i = lane[r].issue
  OBVIOUS
<1>2. TypeOK /\ OutOK /\ RunInv(r) /\ LaneOK(r)
  BY DEF Inv, RunInv
<1>3. /\ lane[r].step \in {"review", "mark"}
      /\ lane[r].step \notin Held \cup Removing
  BY DEF CheckpointPass, Mark, At, Held, Removing
<1>4. /\ i \in Current(r) /\ i \in Issues /\ status[r] # "PLANNING"
      /\ LaneGitOK(r) /\ made[i] \subseteq On(i) \cup On(Target(r))
  BY <1>1, <1>2, <1>3, FinishingFacts DEF Finishing, LaneGitOK
<1>5. UNCHANGED <<scoped, status, plan, entry, pc, round, tip, out, edits, made,
                  torn, cuts, restarts>>
  BY DEF CheckpointPass, Mark, ledger, git, bounds
<1>6. lane \in [Runs -> Lanes] /\ lane[r] \in Lanes
  BY <1>2 DEF TypeOK, Lanes
<1>7. /\ lane' \in [Runs -> Lanes] /\ OthersStay(r)
      /\ lane'[r].step \in {"mark", "again", "notMerged"}
      /\ lane'[r].issue = i /\ lane'[r].todo = lane[r].todo
      /\ lane'[r].step = "notMerged" => lane'[r].hurt
      /\ merging' \in [Runs -> BOOLEAN]
  <2>1. CASE CheckpointPass(r)
    <3>1. Goes(r, "mark") /\ UNCHANGED merging
      BY <2>1 DEF CheckpointPass, ledger
    <3>2. /\ LaneAt(r, "mark", lane[r].hurt) /\ OthersStay(r)
          /\ lane' \in [Runs -> Lanes]
      BY <1>2, <3>1, GoesTo, LaneTyped DEF Step, Lanes
    <3> QED BY <1>1, <1>2, <3>1, <3>2 DEF LaneAt, TypeOK
  <2>2. CASE Mark(r)
    <3> DEFINE s == IF merging[r] THEN "notMerged" ELSE "again"
    <3>1. /\ lane' = [lane EXCEPT ![r].step = s, ![r].hurt = merging[r]]
          /\ merging' = [merging EXCEPT ![r] = TRUE]
      BY <2>2 DEF Mark
    <3>2. merging[r] \in BOOLEAN /\ s \in Step
      BY <1>2 DEF TypeOK, Step
    <3>3. [lane[r] EXCEPT !.step = s, !.hurt = merging[r]] \in Lanes
      BY <1>6, <3>2 DEF Lanes
    <3>4. /\ [lane[r] EXCEPT !.step = s, !.hurt = merging[r]].step = s
          /\ [lane[r] EXCEPT !.step = s, !.hurt = merging[r]].hurt = merging[r]
          /\ [lane[r] EXCEPT !.step = s, !.hurt = merging[r]].issue = i
          /\ [lane[r] EXCEPT !.step = s, !.hurt = merging[r]].todo = lane[r].todo
      BY <1>1, <1>6 DEF Lanes
    <3>5. /\ lane'[r] = [lane[r] EXCEPT !.step = s, !.hurt = merging[r]]
          /\ OthersStay(r)
      BY <1>6, <3>1 DEF OthersStay
    <3>6. lane' \in [Runs -> Lanes]
      BY <1>6, <3>1, <3>3
    <3>7. merging' \in [Runs -> BOOLEAN]
      BY <1>2, <3>1 DEF TypeOK
    <3>8. lane'[r].step = s /\ lane'[r].hurt = merging[r]
          /\ lane'[r].issue = i /\ lane'[r].todo = lane[r].todo
      BY <3>4, <3>5
    <3> QED BY <3>2, <3>5, <3>6, <3>7, <3>8
  <2> QED BY <2>1, <2>2
<1>8. LedgerOnly(r) /\ TypeOK'
  BY <1>2, <1>5, <1>7 DEF LedgerOnly, TypeOK, Lanes
<1>9. LaneOK(r)'
  <2>1. Current(r)' = Current(r) /\ status'[r] = status[r]
    BY <1>5 DEF Current
  <2>2. pc[i] = "succeeded" /\ lane[r].todo \subseteq Current(r)
    BY <1>1, <1>2, <1>3 DEF LaneOK, Finishing
  <2> QED BY <1>4, <1>5, <1>7, <2>1, <2>2
          DEF LaneOK, Creating, Finishing, Removing, Dropping
<1>10. LaneGitOK(r)'
  <2>1. made'[i] \subseteq On(i)' \cup On(Target(r))'
    BY <1>4, <1>5 DEF On, Target
  <2> QED BY <1>7, <2>1 DEF LaneGitOK, Removing, On
<1>11. MergeOK'
  BY <1>3, <1>7, <1>8, LedgerMerges DEF MergeSteps
<1>12. \A j \in Current(r) : Settles(j)
  BY <1>5 DEF Settles
<1> QED BY <1>3, <1>4, <1>5, <1>8, <1>9, <1>10, <1>11, <1>12, SettlingKeeps

LEMMA CreatedKeeps ==
  ASSUME Inv, NEW r \in Runs, Created(r)
  PROVE  LedgerKeeps(r)
<1>1. PICK i, base : i = lane[r].issue /\ base = lane[r].base
  OBVIOUS
<1>2. TypeOK /\ RunInv(r) /\ LaneOK(r) /\ RunOK(r)
  BY DEF Inv, RunInv
<1>3. /\ lane[r].step = "created" /\ lane[r].step \in Creating
      /\ lane[r].step \notin Held \cup Removing
      /\ Goes(r, "free") /\ "free" \in Step
      /\ entry' = [entry EXCEPT ![i].dir = TRUE, ![i].base = base]
  BY <1>1 DEF Created, At, Held, Removing, Creating, Step
<1>4. /\ i \in Current(r) /\ i \in Issues /\ entry[i].status = "running"
      /\ status[r] # "PLANNING" /\ pc[i] = "claimed"
      /\ LaneGitOK(r)
  BY <1>1, <1>2, <1>3, CreatingFacts
<1>5. /\ Has(i) /\ Target(r) \in DOMAIN tip /\ GoodBase(r, i, base)
  <2>1. Has(i) /\ Target(r) \in DOMAIN tip
    BY <1>1, <1>3, <1>4 DEF LaneGitOK, Has
  <2>2. GoodBase(r, i, base)
    BY <1>1, <1>3, <1>4 DEF LaneGitOK, GoodBase
  <2> QED BY <2>1, <2>2
<1>6. UNCHANGED <<scoped, status, plan, merging, pc, round, tip, out, edits,
                  made, torn, cuts, restarts>>
  BY DEF Created, git, bounds
<1>7. /\ \A j \in Issues : j # i => entry'[j] = entry[j]
      /\ entry'[i].dir /\ entry'[i].base = base
      /\ entry'[i].status = "running"
      /\ entry' \in [Issues -> Entries]
  <2>1. entry \in [Issues -> Entries] /\ entry[i] \in Entries
        /\ base \in SUBSET Works
    BY <1>1, <1>2, <1>4, EntriesTyped, WorksTyped
  <2> DEFINE e == [[entry[i] EXCEPT !.dir = TRUE] EXCEPT !.base = base]
  <2>2. e \in Entries
    BY <1>2, <1>4, <2>1, EntriesTyped
  <2>3. e.dir /\ e.base = base /\ e.status = "running"
    BY <1>4, <2>1 DEF Entries
  <2>4. entry' = [entry EXCEPT ![i] = e]
    BY <1>3, <1>4, <2>1 DEF Entries
  <2> HIDE DEF e
  <2>5. /\ entry'[i] = e /\ \A j \in Issues : j # i => entry'[j] = entry[j]
        /\ entry' \in [Issues -> Entries]
    BY <1>4, <2>1, <2>2, <2>4
  <2> QED BY <2>3, <2>5
<1>8. /\ OthersStay(r) /\ lane'[r] = Idle /\ lane' \in [Runs -> Lanes]
  BY <1>2, <1>3, GoesTo, LaneTyped DEF LaneAt, Lanes
<1>9. LedgerOnly(r)
  BY <1>4, <1>6, <1>7, <1>8 DEF LedgerOnly
<1>10. TypeOK'
  BY <1>2, <1>6, <1>7, <1>8 DEF TypeOK, Lanes, Entries
<1>11. LaneOK(r)' /\ LaneGitOK(r)'
  BY <1>4, <1>6, <1>8, LaneFree
<1>12. MergeOK'
  BY <1>3, <1>8, <1>9, IdleFacts, LedgerMerges DEF MergeSteps
<1>13. Current(r)' = Current(r) /\ status'[r] = status[r]
  BY <1>6 DEF Current
<1>14. ASSUME NEW j \in Current(r)
       PROVE  IssueOK(r, j)' /\ DepsOK(r, j)'
  <2>1. /\ j \in Issues /\ Deps[j] \subseteq Current(r)
        /\ IssueOK(r, j) /\ DepsOK(r, j)
    BY <1>2, <1>4, CurrentFacts DEF RunInv
  <2>2. DepsOK(r, j)'
    <3>1. \A d \in Deps[j] : d \in Issues
      BY <1>2, <2>1, CurrentFacts
    <3>2. /\ \A d \in Deps[j] : entry[d].status = "done" => entry'[d].status = "done"
          /\ entry'[j].status = "done" => entry[j].status = "done"
      BY <1>4, <1>7, <2>1, <3>1
    <3> QED BY <1>3, <1>6, <1>9, <2>1, <3>2, LedgerDeps
  <2>3. CASE j = i
    <3>1. GoodBase(r, i, base)' /\ Has(i)' /\ Target(r)' \in DOMAIN tip'
      BY <1>5, <1>6, <1>9, LedgerGit DEF GoodBase
    <3>2. /\ Target(r)' = Target(r) /\ On(Target(r))' = On(Target(r))
          /\ On(i)' = On(i)
      BY <1>9, LedgerGit
    <3> QED BY <1>4, <1>6, <1>7, <2>1, <2>2, <2>3, <3>1, <3>2
            DEF IssueOK, GoodBase
  <2>4. CASE j # i
    <3>1. entry'[j] = entry[j]
      BY <1>7, <2>1, <2>4
    <3>2. /\ pc'[j] # "idle" => entry'[j].status = "running" /\ round'[j] >= 1
          /\ pc'[j] \in {"executing", "succeeded", "broke"} => entry'[j].dir
      BY <1>6, <2>1, <3>1 DEF IssueOK
    <3> QED BY <1>6, <1>9, <2>1, <2>2, <3>1, <3>2, LedgerIssue
  <2> QED BY <2>3, <2>4
<1>15. RunOK(r)'
  <2>1. status'[r] = "INTEGRATION_REVIEW"
          => \A j \in Current(r) : entry'[j].status = "done"
    BY <1>2, <1>4, <1>6 DEF RunOK
  <2> QED BY <1>2, <1>4, <1>6, <1>9, <2>1, LaterPlans
<1> QED BY <1>9, <1>10, <1>11, <1>12, <1>13, <1>14, <1>15
        DEF LedgerKeeps, RunInv

LEMMA RecordKeeps ==
  ASSUME Inv, NEW r \in Runs, Record(r)
  PROVE  LedgerKeeps(r)
<1>1. PICK i : i = lane[r].issue
  OBVIOUS
<1>2. TypeOK /\ OutOK /\ RunInv(r) /\ LaneOK(r) /\ RunOK(r)
  BY DEF Inv, RunInv
<1>3. /\ lane[r].step = "record" /\ lane[r].step \in Finishing
      /\ lane[r].step \notin Held \cup Removing
      /\ Goes(r, "remove") /\ "remove" \in Step
      /\ entry' = [entry EXCEPT ![i].status = "done"]
      /\ merging' = [merging EXCEPT ![r] = FALSE]
      /\ status' = IF \A j \in Current(r) : entry'[j].status = "done"
                   THEN [status EXCEPT ![r] = "INTEGRATION_REVIEW"] ELSE status
      /\ pc' = [pc EXCEPT ![i] = "idle"]
  BY <1>1 DEF Record, At, Held, Removing, Finishing, Step
<1>4. /\ i \in Current(r) /\ i \in Issues /\ entry[i].status = "running"
      /\ status[r] # "PLANNING"
      /\ LaneGitOK(r) /\ IssueOK(r, i)
  BY <1>1, <1>2, <1>3, FinishingFacts
<1>5. Target(r) \in DOMAIN tip /\ made[i] \subseteq On(Target(r))
  BY <1>1, <1>3, <1>4 DEF LaneGitOK
<1>6. UNCHANGED <<scoped, plan, round, tip, out, edits, made, torn, cuts,
                  restarts>>
  BY DEF Record, git, bounds
<1>7. /\ \A j \in Issues : j # i => entry'[j] = entry[j]
      /\ entry'[i].status = "done"
      /\ entry' \in [Issues -> Entries]
  <2>1. entry \in [Issues -> Entries] /\ entry[i] \in Entries
        /\ [entry[i] EXCEPT !.status = "done"] \in Entries
    BY <1>2, <1>4, EntriesTyped
  <2>2. [entry[i] EXCEPT !.status = "done"].status = "done"
    BY <2>1 DEF Entries
  <2>3. /\ entry'[i] = [entry[i] EXCEPT !.status = "done"]
        /\ \A j \in Issues : j # i => entry'[j] = entry[j]
        /\ entry' \in [Issues -> Entries]
    BY <1>3, <1>4, <2>1
  <2> QED BY <2>2, <2>3
<1>8. /\ OthersStay(r) /\ lane' \in [Runs -> Lanes]
      /\ lane'[r].step = "remove" /\ lane'[r].issue = i
      /\ lane'[r].todo = lane[r].todo
  BY <1>1, <1>2, <1>3, GoesTo, LaneTyped DEF LaneAt, Lanes
<1>9. /\ \A q \in Runs : q # r => status'[q] = status[q]
      /\ status'[r] # "PLANNING"
      /\ status'[r] = "INTEGRATION_REVIEW"
           => \A j \in Current(r) : entry'[j].status = "done"
      /\ status' \in [Runs -> {"READY", "EXECUTING", "FAILED",
                               "INTEGRATION_REVIEW", "PLANNING"}]
  <2>1. status \in [Runs -> {"READY", "EXECUTING", "FAILED",
                             "INTEGRATION_REVIEW", "PLANNING"}]
    BY <1>2 DEF TypeOK
  <2>2. status[r] # "INTEGRATION_REVIEW"
    BY <1>2, <1>4 DEF RunOK
  <2> QED BY <1>3, <1>4, <2>1, <2>2
<1>10. /\ \A j \in Issues : j # i => pc'[j] = pc[j]
       /\ pc'[i] = "idle"
       /\ pc' \in [Issues -> {"idle", "claimed", "executing", "succeeded", "broke"}]
  BY <1>2, <1>3, <1>4 DEF TypeOK
<1>11. LedgerOnly(r)
  BY <1>4, <1>6, <1>7, <1>8, <1>9, <1>10 DEF LedgerOnly
<1>12. TypeOK'
  <2>1. merging' \in [Runs -> BOOLEAN]
    BY <1>2, <1>3 DEF TypeOK
  <2> QED BY <1>2, <1>6, <1>7, <1>8, <1>9, <1>10, <2>1
          DEF TypeOK, Lanes, Entries
<1>13. Current(r)' = Current(r)
  BY <1>6 DEF Current
<1>14. LaneOK(r)'
  BY <1>2, <1>4, <1>7, <1>8, <1>9, <1>10, <1>13
     DEF LaneOK, Creating, Finishing, Removing, Dropping
<1>15. LaneGitOK(r)'
  <2>1. Target(r)' \in DOMAIN tip' /\ made'[i] \subseteq On(Target(r))'
    BY <1>5, <1>6 DEF Target, On
  <2> QED BY <1>8, <2>1 DEF LaneGitOK, Removing
<1>16. MergeOK'
  BY <1>3, <1>8, <1>11, LedgerMerges DEF MergeSteps
<1>17. ASSUME NEW j \in Current(r)
       PROVE  IssueOK(r, j)' /\ DepsOK(r, j)'
  <2>1. /\ j \in Issues /\ Deps[j] \subseteq Current(r)
        /\ IssueOK(r, j) /\ DepsOK(r, j)
    BY <1>2, <1>4, CurrentFacts DEF RunInv
  <2>2. \A d \in Deps[j] : entry[d].status = "done" => entry'[d].status = "done"
    <3>1. \A d \in Deps[j] : d \in Issues
      BY <1>2, <2>1, CurrentFacts
    <3> QED BY <1>7, <3>1
  <2>3. DepsOK(r, j)'
    <3>1. pc'[j] # "idle" => pc[j] # "idle"
      BY <1>10, <2>1
    <3>2. CASE j = i
      <4>1. lane'[r].step \in Removing /\ lane'[r].issue = j
        BY <1>8, <3>2 DEF Removing
      <4> QED BY <1>6, <1>11, <2>1, <2>2, <3>1, <4>1, LedgerDeps
    <3>3. CASE j # i
      <4>1. entry'[j] = entry[j]
        BY <1>7, <2>1, <3>3
      <4> QED BY <1>3, <1>6, <1>11, <2>1, <2>2, <3>1, <4>1, LedgerDeps
    <3> QED BY <3>2, <3>3
  <2>4. IssueOK(r, j)'
    <3>1. CASE j = i
      <4>1. /\ Target(r)' = Target(r) /\ On(Target(r))' = On(Target(r))
            /\ On(i)' = On(i)
        BY <1>11, LedgerGit
      <4> QED BY <1>4, <1>5, <1>6, <1>7, <1>10, <3>1, <4>1 DEF IssueOK
    <3>2. CASE j # i
      <4>1. entry'[j] = entry[j] /\ pc'[j] = pc[j] /\ round'[j] = round[j]
        BY <1>6, <1>7, <1>10, <2>1, <3>2
      <4>2. /\ pc'[j] # "idle" => entry'[j].status = "running" /\ round'[j] >= 1
            /\ pc'[j] \in {"executing", "succeeded", "broke"} => entry'[j].dir
        BY <2>1, <4>1 DEF IssueOK
      <4> QED BY <1>6, <1>11, <2>1, <4>1, <4>2, LedgerIssue
    <3> QED BY <3>1, <3>2
  <2> QED BY <2>3, <2>4
<1>18. RunOK(r)'
  BY <1>2, <1>6, <1>9, <1>11, LaterPlans
<1> QED BY <1>11, <1>12, <1>13, <1>14, <1>15, <1>16, <1>17, <1>18
        DEF LedgerKeeps, RunInv

\* The plan is abandoned by a CHECKPOINT or the FINAL verdict.
LEMMA AbandonKeeps ==
  ASSUME Inv, NEW r \in Runs, NEW todo \in SUBSET Current(r), Abandon(r, todo),
         lane[r].step \in {"review", "free"}
  PROVE  LedgerKeeps(r)
<1>1. TypeOK /\ RunInv(r) /\ RunOK(r)
  BY DEF Inv, RunInv
<1>2. /\ plan[r] + 1 \in DOMAIN Plans[r]
      /\ status' = [status EXCEPT ![r] = "PLANNING"]
      /\ pc' = [i \in Issues |-> IF i \in Current(r) THEN "idle" ELSE pc[i]]
      /\ lane' = [lane EXCEPT ![r] = [Idle EXCEPT !.step = "dropNext",
                                                  !.todo = todo]]
      /\ UNCHANGED <<scoped, plan, entry, merging, round, tip, out, edits, made,
                     torn, cuts, restarts>>
  BY DEF Abandon, git, bounds
<1>3. todo \subseteq Issues
  BY <1>1, CurrentFacts
<1>4. [Idle EXCEPT !.step = "dropNext", !.todo = todo] \in Lanes
  BY <1>3, IdleFacts DEF Lanes, Step
<1>5. /\ lane'[r].step = "dropNext" /\ lane'[r].todo = todo
      /\ OthersStay(r) /\ lane' \in [Runs -> Lanes]
  BY <1>1, <1>2, <1>4 DEF TypeOK, OthersStay, Idle, Lanes
<1>6. /\ \A q \in Runs : q # r => status'[q] = status[q]
      /\ status'[r] = "PLANNING"
      /\ status' \in [Runs -> {"READY", "EXECUTING", "FAILED",
                               "INTEGRATION_REVIEW", "PLANNING"}]
      /\ pc' \in [Issues -> {"idle", "claimed", "executing", "succeeded", "broke"}]
      /\ \A i \in Current(r) : pc'[i] = "idle"
  BY <1>1, <1>2, CurrentFacts DEF TypeOK
<1>7. LedgerOnly(r)
  BY <1>2, <1>5, <1>6 DEF LedgerOnly
<1>8. TypeOK'
  BY <1>1, <1>2, <1>5, <1>6 DEF TypeOK, Lanes
<1>9. RunOK(r)'
  BY <1>1, <1>2, <1>6, <1>7, LaterPlans
<1>10. Current(r)' = Current(r)
  BY <1>2 DEF Current
<1>11. LaneOK(r)' /\ LaneGitOK(r)'
  BY <1>5, <1>6, <1>10
     DEF LaneOK, LaneGitOK, Creating, Finishing, Removing, Dropping
<1>12. MergeOK'
  BY <1>5, <1>7, LedgerMerges DEF MergeSteps, Held
<1> QED BY <1>6, <1>7, <1>8, <1>9, <1>11, <1>12 DEF LedgerKeeps, RunInv

LEMMA ReplanKeeps ==
  ASSUME Inv, NEW r \in Runs, CheckpointReplan(r) \/ FinalReplan(r)
  PROVE  LedgerKeeps(r)
<1>1. WithDir(r) \in SUBSET Current(r) /\ {} \in SUBSET Current(r)
  BY DEF WithDir
<1> QED BY <1>1, AbandonKeeps DEF CheckpointReplan, FinalReplan, At

LEMMA DropNextKeeps ==
  ASSUME Inv, NEW r \in Runs, DropNext(r)
  PROVE  LedgerKeeps(r)
<1>1. /\ TypeOK /\ RunInv(r) /\ LaneOK(r) /\ RunOK(r)
      /\ lane[r].step = "dropNext"
  BY DEF Inv, RunInv, DropNext, At
<1>2. /\ status[r] = "PLANNING" /\ lane[r].todo \subseteq Current(r)
  BY <1>1 DEF LaneOK, Dropping
<1>3. UNCHANGED <<scoped, status, plan, entry, merging, pc, round, tip, out,
                  edits, made, torn, cuts, restarts>>
  BY DEF DropNext, ledger, git, bounds
<1>4. lane \in [Runs -> Lanes] /\ lane[r] \in Lanes
  BY <1>1 DEF TypeOK, Lanes
<1>5. /\ lane' \in [Runs -> Lanes] /\ OthersStay(r)
      /\ lane'[r].step \in {"dropTree", "dropTarget", "planned"}
      /\ lane'[r].step = "dropTree" => lane'[r].issue \in Current(r)
      /\ lane'[r].step = "dropTarget" => scoped[r]
      /\ lane'[r].todo \subseteq lane[r].todo
  <2>1. ASSUME NEW i \in lane[r].todo,
               lane' = [lane EXCEPT ![r].step = "dropTree", ![r].issue = i,
                                    ![r].todo = @ \ {i}]
        PROVE  <1>5
    <3> DEFINE l == [lane[r] EXCEPT !.step = "dropTree", !.issue = i,
                                    !.todo = @ \ {i}]
    <3>1. i \in Issues
      BY <1>1, <1>2, CurrentFacts
    <3>2. l \in Lanes
      BY <1>4, <3>1 DEF Lanes, Step
    <3>3. l.step = "dropTree" /\ l.issue = i /\ l.todo = lane[r].todo \ {i}
      BY <1>4 DEF Lanes
    <3>4. lane' = [lane EXCEPT ![r] = l]
      BY <1>4, <2>1 DEF Lanes
    <3> HIDE DEF l
    <3> QED BY <1>2, <1>4, <3>2, <3>3, <3>4 DEF OthersStay
  <2>2. ASSUME Goes(r, IF scoped[r] THEN "dropTarget" ELSE "planned")
        PROVE  <1>5
    <3>1. PICK s : /\ s \in {"dropTarget", "planned"} /\ Goes(r, s)
                   /\ s = "dropTarget" => scoped[r]
      <4>1. CASE scoped[r]
        BY <2>2, <4>1
      <4>2. CASE ~scoped[r]
        BY <2>2, <4>2
      <4> QED BY <4>1, <4>2
    <3>2. s \in Step
      BY <3>1 DEF Step
    <3>3. LaneAt(r, s, lane[r].hurt) /\ OthersStay(r)
      BY <1>1, <3>1, <3>2, GoesTo
    <3>4. lane' \in [Runs -> Lanes]
      BY <1>1, <3>1, <3>2, LaneTyped DEF Lanes
    <3> QED BY <3>1, <3>3, <3>4 DEF LaneAt
  <2> QED BY <2>1, <2>2 DEF DropNext
<1>6. LedgerOnly(r) /\ TypeOK'
  BY <1>1, <1>3, <1>5 DEF LedgerOnly, TypeOK, Lanes
<1>7. Current(r)' = Current(r) /\ status'[r] = "PLANNING"
  BY <1>2, <1>3 DEF Current
<1>8. LaneOK(r)' /\ LaneGitOK(r)'
  BY <1>2, <1>3, <1>5, <1>7
     DEF LaneOK, LaneGitOK, Creating, Finishing, Removing, Dropping
<1>9. RunOK(r)'
  BY <1>1, <1>2, <1>3, <1>6, LaterPlans DEF RunOK
<1>10. MergeOK'
  BY <1>1, <1>5, <1>6, LedgerMerges DEF MergeSteps, Held
<1> QED BY <1>6, <1>7, <1>8, <1>9, <1>10 DEF LedgerKeeps, RunInv

\* The next plan starts with issues nothing was ever done for.
LEMMA PlannedKeeps ==
  ASSUME Inv, NEW r \in Runs, Planned(r)
  PROVE  LedgerKeeps(r)
<1>1. /\ TypeOK /\ RunInv(r) /\ LaneOK(r) /\ RunOK(r)
      /\ lane[r].step = "planned"
  BY DEF Inv, RunInv, Planned, At
<1>2. /\ status[r] = "PLANNING" /\ plan[r] + 1 \in DOMAIN Plans[r]
      /\ \A i \in Current(r) : pc[i] = "idle"
  BY <1>1 DEF LaneOK, RunOK, Dropping
<1>3. /\ plan' = [plan EXCEPT ![r] = @ + 1]
      /\ status' = [status EXCEPT ![r] = "EXECUTING"]
      /\ Goes(r, "free") /\ "free" \in Step
      /\ UNCHANGED <<scoped, entry, merging, pc, round, tip, out, edits, made,
                     torn, cuts, restarts>>
  BY DEF Planned, git, bounds, Step
<1>4. /\ lane' \in [Runs -> Lanes] /\ OthersStay(r) /\ lane'[r] = Idle
  BY <1>1, <1>3, GoesTo, LaneTyped DEF LaneAt, Lanes
<1>5. /\ \A q \in Runs : q # r => status'[q] = status[q]
      /\ status'[r] = "EXECUTING"
      /\ status' \in [Runs -> {"READY", "EXECUTING", "FAILED",
                               "INTEGRATION_REVIEW", "PLANNING"}]
  BY <1>1, <1>3 DEF TypeOK
<1>6. /\ \A q \in Runs : q # r => plan'[q] = plan[q]
      /\ plan'[r] = plan[r] + 1
      /\ plan' \in [Runs -> Nat]
      /\ \A q \in Runs : plan'[q] \in DOMAIN Plans[q]
  <2>1. plan \in [Runs -> Nat] /\ \A q \in Runs : plan[q] \in DOMAIN Plans[q]
    BY <1>1 DEF TypeOK
  <2> QED BY <1>2, <1>3, <2>1
<1>7. LedgerOnly(r)
  BY <1>3, <1>4, <1>5, <1>6 DEF LedgerOnly
<1>8. TypeOK'
  BY <1>1, <1>3, <1>4, <1>5, <1>6 DEF TypeOK, Lanes
<1>9. LaneOK(r)' /\ LaneGitOK(r)'
  BY <1>4, <1>5, LaneFree
<1>10. MergeOK'
  BY <1>1, <1>4, <1>7, IdleFacts, LedgerMerges DEF MergeSteps, Held
<1>11. plan[r] \in DOMAIN Plans[r] /\ DOMAIN Plans[r] \subseteq Nat
  BY <1>1, WorktreesAssumption DEF TypeOK
<1>12. RunOK(r)'
  <2>1. \A k \in DOMAIN Plans[r] : k > plan[r] + 1 => k > plan[r]
    BY <1>11
  <2>2. ASSUME NEW k \in DOMAIN Plans[r], NEW i \in Plans[r][k], k # plan[r] + 1
        PROVE  pc[i] = "idle"
    BY <1>1, <1>2, <2>2 DEF RunOK, Current
  <2> QED BY <1>1, <1>3, <1>5, <1>6, <2>1, <2>2 DEF RunOK
<1>13. Current(r)' = Plans[r][plan[r] + 1]
  BY <1>6 DEF Current
<1>14. ASSUME NEW i \in Plans[r][plan[r] + 1]
       PROVE  IssueOK(r, i)' /\ DepsOK(r, i)'
  <2>1. /\ entry[i] = Fresh /\ made[i] = {} /\ edits[i] = {}
        /\ i \notin DOMAIN tip /\ pc[i] = "idle"
    BY <1>1, <1>2, <1>11 DEF RunOK
  <2>2. /\ entry'[i].status = "pending" /\ ~entry'[i].dir /\ made'[i] = {}
        /\ edits'[i] = {} /\ i \notin DOMAIN tip' /\ pc'[i] = "idle"
    BY <1>3, <2>1 DEF Fresh
  <2>3. On(i)' = {}
    BY <2>2 DEF On
  <2> QED BY <2>2, <2>3 DEF IssueOK, DepsOK
<1> QED BY <1>5, <1>7, <1>8, <1>9, <1>10, <1>12, <1>13, <1>14
        DEF LedgerKeeps, RunInv

LEMMA RetryKeeps ==
  ASSUME Inv, NEW r \in Runs, Retry(r)
  PROVE  LedgerKeeps(r)
<1>1. TypeOK /\ RunInv(r) /\ LaneOK(r)
  BY DEF Inv, RunInv
<1>2. /\ status[r] = "FAILED"
      /\ status' = [status EXCEPT ![r] = "EXECUTING"]
      /\ entry' = [i \in Issues |->
                     IF i \in Current(r) /\ entry[i].status = "failed"
                     THEN [entry[i] EXCEPT !.status = "pending"] ELSE entry[i]]
      /\ UNCHANGED <<scoped, plan, merging, lane, pc, round, tip, out, edits, made,
                     torn, cuts, restarts>>
  BY DEF Retry, git, bounds
<1>3. /\ \A q \in Runs : q # r => status'[q] = status[q]
      /\ status'[r] = "EXECUTING"
      /\ status' \in [Runs -> {"READY", "EXECUTING", "FAILED",
                               "INTEGRATION_REVIEW", "PLANNING"}]
      /\ entry' \in [Issues -> Entries]
      /\ \A j \in Issues : j \notin Current(r) => entry'[j] = entry[j]
  BY <1>1, <1>2, EntriesTyped DEF TypeOK
<1>4. LedgerOnly(r)
  BY <1>2, <1>3 DEF LedgerOnly, OthersStay
<1>5. TypeOK'
  BY <1>1, <1>2, <1>3 DEF TypeOK, Entries
<1>6. ASSUME NEW i \in Current(r)
      PROVE  Settles(i)
  <2>1. i \in Issues /\ entry[i] \in Entries /\ IssueOK(r, i)
    BY <1>1, <1>2, CurrentFacts, EntriesTyped DEF RunInv
  <2>2. CASE entry[i].status = "failed"
    <3>1. pc'[i] = "idle"
      BY <1>2, <2>1, <2>2 DEF IssueOK
    <3>2. entry'[i] = [entry[i] EXCEPT !.status = "pending"]
      BY <1>2, <2>1, <2>2
    <3> QED BY <2>1, <2>2, <3>1, <3>2 DEF Settles, Entries
  <2>3. CASE entry[i].status # "failed"
    BY <1>2, <2>1, <2>3 DEF Settles
  <2> QED BY <2>2, <2>3
<1>7. Current(r)' = Current(r)
  BY <1>2 DEF Current
<1>8. LaneOK(r)'
  <2>1. \A i \in Current(r) : i \in Issues
    BY <1>1, CurrentFacts
  <2> QED BY <1>1, <1>2, <1>3, <1>6, <1>7, <2>1
          DEF LaneOK, Settles, Creating, Finishing, Removing, Dropping
<1>9. LaneGitOK(r)'
  <2>1. LaneGitOK(r)
    BY <1>1 DEF RunInv
  <2> QED BY <1>2, <2>1 DEF LaneGitOK, GoodBase, Target, On, Has
<1>10. MergeOK'
  BY <1>2 DEF Inv, MergeOK, MergeTree
<1> QED BY <1>2, <1>3, <1>4, <1>5, <1>6, <1>8, <1>9, <1>10, SettlingKeeps

\* The issues a FINAL FIX names start from nothing; all of the plan is done, so
\* none of them has a branch that a cleanup does not get to.
LEMMA FinalFixKeeps ==
  ASSUME Inv, NEW r \in Runs, FinalFix(r)
  PROVE  LedgerKeeps(r)
<1>1. TypeOK /\ RunInv(r) /\ LaneOK(r) /\ RunOK(r) /\ LaneGitOK(r)
  BY DEF Inv, RunInv
<1>2. PICK S \in SUBSET Current(r) :
        entry' = [i \in Issues |-> IF i \in S THEN Fresh ELSE entry[i]]
  BY DEF FinalFix
<1>3. /\ status[r] = "INTEGRATION_REVIEW"
      /\ status' = [status EXCEPT ![r] = "EXECUTING"]
      /\ UNCHANGED <<scoped, plan, merging, lane, pc, round, tip, out, edits, made,
                     torn, cuts, restarts>>
  BY DEF FinalFix, git, bounds
<1>4. /\ \A q \in Runs : q # r => status'[q] = status[q]
      /\ status'[r] = "EXECUTING"
      /\ status' \in [Runs -> {"READY", "EXECUTING", "FAILED",
                               "INTEGRATION_REVIEW", "PLANNING"}]
      /\ entry' \in [Issues -> Entries]
      /\ \A j \in Issues : j \notin S => entry'[j] = entry[j]
      /\ \A j \in S : j \in Issues => entry'[j] = Fresh
  BY <1>1, <1>2, <1>3, EntriesTyped DEF TypeOK
<1>5. LedgerOnly(r)
  BY <1>3, <1>4 DEF LedgerOnly, OthersStay
<1>6. TypeOK'
  BY <1>1, <1>3, <1>4 DEF TypeOK, Entries
<1>7. Current(r)' = Current(r)
  BY <1>3 DEF Current
<1>8. \A i \in Current(r) :
        /\ i \in Issues /\ entry[i].status = "done" /\ pc[i] = "idle"
        /\ IssueOK(r, i) /\ DepsOK(r, i)
        /\ \/ entry'[i] = entry[i]
           \/ ~entry'[i].dir /\ entry'[i].status = "pending"
  <2>1. \A i \in Current(r) : i \in Issues /\ entry[i].status = "done"
                               /\ IssueOK(r, i) /\ DepsOK(r, i)
    BY <1>1, <1>3, CurrentFacts DEF RunInv, RunOK
  <2>2. \A i \in Current(r) : pc[i] = "idle"
    BY <2>1 DEF IssueOK
  <2>3. ~Fresh.dir /\ Fresh.status = "pending"
    BY DEF Fresh
  <2> QED BY <1>4, <2>1, <2>2, <2>3
<1>9. ASSUME NEW i \in Current(r)
      PROVE  IssueOK(r, i)' /\ DepsOK(r, i)'
  <2>1. IssueOK(r, i)'
    <3>1. entry'[i].dir /\ entry'[i].status # "done" => FALSE
      BY <1>8
    <3> QED BY <1>3, <1>5, <1>8, <3>1, LedgerIssue
  <2>2. DepsOK(r, i)'
    BY <1>3, <1>8 DEF DepsOK
  <2> QED BY <2>1, <2>2
<1>10. LaneOK(r)'
  BY <1>1, <1>3, <1>4, <1>7, <1>8
     DEF LaneOK, Creating, Finishing, Removing, Dropping
<1>11. LaneGitOK(r)'
  BY <1>1, <1>3 DEF LaneGitOK, GoodBase, Target, On, Has
<1>12. RunOK(r)'
  BY <1>1, <1>3, <1>4, <1>5, LaterPlans
<1>13. MergeOK'
  BY <1>3 DEF Inv, MergeOK, MergeTree
<1> QED BY <1>5, <1>6, <1>7, <1>9, <1>10, <1>11, <1>12, <1>13
        DEF LedgerKeeps, RunInv

LEMMA LedgerInv ==
  ASSUME Inv, NEW r \in Runs, LedgerStep(r)
  PROVE  Inv'
<1>1. LedgerKeeps(r)
  BY ClaimKeeps, PrepareKeeps, CreatedKeeps, HandBackKeeps, ReviewedKeeps,
     ReplanKeeps, RecordKeeps, FinalFixKeeps, DropNextKeeps, PlannedKeeps,
     RetryKeeps
     DEF LedgerStep
<1> QED BY <1>1, LedgerOthers

-----------------------------------------------------------------------------
(* The executor, the outcome of a claim, and a stop of the host. *)

LEMMA ExecuteInv ==
  ASSUME Inv, NEW i \in Issues, Execute(i)
  PROVE  Inv'
<1>1. PICK r \in Runs : \E k \in DOMAIN Plans[r] : i \in Plans[r][k]
  BY IssueIsPlanned
<1>2. TypeOK /\ RunInv(r) /\ LaneOK(r) /\ RunOK(r) /\ LaneGitOK(r)
  BY DEF Inv, RunInv
<1>3. PICK new \in {{}, {<<i, round[i]>>}}, outcome \in {"succeeded", "broke"} :
        /\ edits' = [edits EXCEPT ![i] = @ \cup new]
        /\ made' = [made EXCEPT ![i] = @ \cup new]
        /\ pc' = [pc EXCEPT ![i] = outcome]
  BY DEF Execute
<1>4. /\ pc[i] = "executing"
      /\ UNCHANGED <<scoped, status, plan, entry, merging, lane, round, tip, out,
                     torn, cuts, restarts>>
  BY DEF Execute, ledger, git, bounds
<1>5. i \in Current(r)
  BY <1>1, <1>2, <1>4 DEF RunOK, Current
<1>6. status[r] # "PLANNING"
  BY <1>2, <1>4, <1>5 DEF RunOK
<1>7. \A j \in Current(r) : /\ j \in Issues /\ Deps[j] \subseteq Current(r)
                            /\ IssueOK(r, j) /\ DepsOK(r, j)
  BY <1>2, <1>6, CurrentFacts DEF RunInv
<1>8. entry[i].status = "running" /\ entry[i].dir /\ round[i] >= 1
  BY <1>4, <1>5, <1>7 DEF IssueOK
<1>9. new \subseteq WorksOf(i) /\ WorksOf(i) \subseteq Works
  <2>1. round[i] \in 0..MaxRounds[i] /\ MaxRounds[i] \in Nat
    BY <1>2, WorktreesAssumption DEF TypeOK
  <2>2. round[i] \in 1..MaxRounds[i]
    BY <1>8, <2>1
  <2> QED BY <2>2 DEF WorksOf, Works
<1>10. /\ \A j \in Issues : j # i => /\ edits'[j] = edits[j] /\ made'[j] = made[j]
                                     /\ pc'[j] = pc[j]
       /\ edits'[i] = edits[i] \cup new /\ made'[i] = made[i] \cup new
       /\ pc'[i] \in {"succeeded", "broke"}
       /\ edits' \in [Issues -> SUBSET Works] /\ made' \in [Issues -> SUBSET Works]
       /\ pc' \in [Issues -> {"idle", "claimed", "executing", "succeeded", "broke"}]
  BY <1>2, <1>3, <1>9 DEF TypeOK
<1>11. TypeOK'
  BY <1>2, <1>4, <1>10 DEF TypeOK
<1>12. OutOK' /\ MergeOK'
  BY <1>4 DEF Inv, OutOK, MergeOK, MergeTree
<1>13. ASSUME NEW q \in Runs, q # r
       PROVE  RunInv(q)'
  <2>1. \A j \in IssuesOf(q) : j \in Issues /\ j # i
    BY <1>2, <1>5, <1>13, IssuesOfIn, IssueFacts, CurrentFacts
  <2>2. \A j \in IssuesOf(q) : SameGit(j)
    BY <1>4, <1>10, <2>1 DEF SameGit, Has
  <2>3. Kept(q)
    BY <1>4, <1>10, <2>1, <2>2 DEF Kept, Grows
  <2> QED BY <1>2, <2>3, KeptRunInv DEF Inv
<1>14. Current(r)' = Current(r) /\ Target(r)' = Target(r)
  BY <1>4 DEF Current, Target
<1>15. \A j \in Current(r) : pc[j] # "idle" => i \notin Deps[j]
  BY <1>7, <1>8 DEF DepsOK
<1>16. lane[r].step \in Creating \cup Finishing \cup Removing => lane[r].issue # i
  BY <1>2, <1>4 DEF LaneOK
<1>17. LaneOK(r)'
  BY <1>2, <1>4, <1>7, <1>10, <1>14, <1>16
     DEF LaneOK, Creating, Finishing, Removing, Dropping
<1>18. LaneGitOK(r)'
  <2>1. CASE lane[r].step \in Creating \cup Finishing \cup Removing
    <3>1. PICK l \in Current(r) : l = lane[r].issue
      BY <1>2, <2>1 DEF LaneOK
    <3>2. l \in Issues /\ made'[l] = made[l] /\ On(l)' = On(l) /\ Has(l)' = Has(l)
      BY <1>4, <1>7, <1>10, <1>16, <2>1, <3>1 DEF On, Has
    <3>3. lane[r].step = "add" => \A d \in Deps[l] : made'[d] = made[d]
      <4>1. lane[r].step = "add" => pc[l] # "idle"
        BY <1>2, <3>1 DEF LaneOK, Creating
      <4> QED BY <1>7, <1>10, <1>15, <4>1
    <3>4. On(Target(r))' = On(Target(r))
      BY <1>4 DEF On, Target
    <3> QED BY <1>2, <1>4, <1>14, <3>1, <3>2, <3>3, <3>4
            DEF LaneGitOK, GoodBase, On, Has
  <2>2. CASE lane[r].step \notin Creating \cup Finishing \cup Removing
    BY <1>4, <2>2 DEF LaneGitOK, Creating, Finishing, Removing
  <2> QED BY <2>1, <2>2
<1>19. RunOK(r)'
  <2>1. \A k \in DOMAIN Plans[r] : k # plan[r] =>
          \A j \in Plans[r][k] : j \in Issues /\ j # i
    BY <1>2, <1>5, IssueFacts, CurrentFacts
  <2>2. plan[r] \in Nat /\ DOMAIN Plans[r] \subseteq Nat
    BY <1>2, WorktreesAssumption DEF TypeOK
  <2> QED BY <1>2, <1>4, <1>6, <1>10, <1>14, <2>1, <2>2 DEF RunOK
<1>20. ASSUME NEW j \in Current(r)
       PROVE  IssueOK(r, j)' /\ DepsOK(r, j)'
  <2>1. On(j)' = On(j) /\ Has(j)' = Has(j) /\ On(Target(r))' = On(Target(r))
    BY <1>4 DEF On, Has, Target
  <2>2. CASE j = i
    <3>1. IssueOK(r, i) /\ DepsOK(r, i)
      BY <1>7, <2>2
    <3>2. made'[i] \subseteq On(i)' \cup edits'[i] \cup On(Target(r))'
      BY <1>10, <2>1, <2>2, <3>1 DEF IssueOK
    <3>3. edits'[i] \subseteq WorksOf(i)
      BY <1>9, <1>10, <3>1 DEF IssueOK
    <3>4. IssueOK(r, i)'
      BY <1>4, <1>8, <1>10, <1>14, <2>1, <2>2, <3>1, <3>2, <3>3
         DEF IssueOK, GoodBase
    <3>5. \A d \in Deps[i] : made'[d] = made[d]
      BY <1>4, <1>5, <1>7, <1>10, <1>15
    <3>6. DepsOK(r, i)'
      BY <1>4, <3>1, <3>5 DEF DepsOK
    <3> QED BY <2>2, <3>4, <3>6
  <2>3. CASE j # i
    <3>1. IssueOK(r, j) /\ DepsOK(r, j) /\ j \in Issues
      BY <1>7
    <3>2. /\ made'[j] = made[j] /\ edits'[j] = edits[j] /\ pc'[j] = pc[j]
      BY <1>10, <2>3, <3>1
    <3>3. IssueOK(r, j)'
      BY <1>4, <1>14, <2>1, <3>1, <3>2 DEF IssueOK, GoodBase
    <3>4. \A d \in Deps[j] : made'[d] = made[d] \/ entry[d].status # "done"
      BY <1>7, <1>8, <1>10
    <3>5. DepsOK(r, j)'
      BY <1>4, <3>1, <3>2, <3>4 DEF DepsOK
    <3> QED BY <3>3, <3>5
  <2> QED BY <2>2, <2>3
<1>21. RunInv(r)'
  BY <1>14, <1>17, <1>18, <1>19, <1>20 DEF RunInv
<1> QED BY <1>11, <1>12, <1>13, <1>21 DEF Inv

LEMMA OutcomeInv ==
  ASSUME Inv, NEW i \in Issues, Outcome(i)
  PROVE  Inv'
<1>1. PICK r \in Runs : \E k \in DOMAIN Plans[r] : i \in Plans[r][k]
  BY IssueIsPlanned
<1>2. /\ TypeOK /\ RunInv(r) /\ LaneOK(r) /\ RunOK(r) /\ RunOf(i) = r
  BY <1>1, IssueFacts DEF Inv, RunInv
<1>3. /\ pc[i] \in {"succeeded", "broke"} /\ lane[r].step = "free"
      /\ lane[r].step \notin Held \cup Removing
      /\ UNCHANGED <<scoped, plan, round, tip, out, edits, made, torn, cuts,
                     restarts>>
  BY <1>2 DEF Outcome, At, git, bounds, Held, Removing
<1>4. i \in Current(r)
  BY <1>1, <1>2, <1>3 DEF RunOK, Current
<1>5. status[r] # "PLANNING"
  BY <1>2, <1>3, <1>4 DEF RunOK
<1>6. IssueOK(r, i) /\ entry[i].status = "running"
  BY <1>2, <1>3, <1>4, <1>5 DEF RunInv, IssueOK
<1>7. Current(r)' = Current(r)
  BY <1>3 DEF Current
<1>8. CASE /\ pc[i] = "succeeded" /\ status[r] = "EXECUTING"
           /\ lane' = [lane EXCEPT ![r] = [Idle EXCEPT !.step = "save", !.issue = i]]
           /\ UNCHANGED <<status, entry, merging, pc>>
  <2>1. [Idle EXCEPT !.step = "save", !.issue = i] \in Lanes
    BY IdleFacts DEF Lanes, Step
  <2>2. /\ lane'[r].step = "save" /\ lane'[r].issue = i /\ lane'[r].todo = {}
        /\ OthersStay(r) /\ lane' \in [Runs -> Lanes]
    BY <1>2, <1>8, <2>1 DEF TypeOK, OthersStay, Idle, Lanes
  <2>3. LedgerOnly(r)
    BY <1>3, <1>8, <2>2 DEF LedgerOnly
  <2>4. TypeOK'
    BY <1>2, <1>3, <1>8, <2>2 DEF TypeOK, Lanes
  <2>5. LaneOK(r)' /\ LaneGitOK(r)'
    BY <1>4, <1>5, <1>7, <1>8, <2>2
       DEF LaneOK, LaneGitOK, Creating, Finishing, Removing, Dropping
  <2>6. MergeOK'
    BY <1>3, <2>2, <2>3, LedgerMerges DEF MergeSteps
  <2>7. \A j \in Current(r) : Settles(j)
    BY <1>8 DEF Settles
  <2>8. LedgerKeeps(r)
    BY <1>3, <1>5, <1>8, <2>3, <2>4, <2>5, <2>6, <2>7, SettlingKeeps
  <2> QED BY <2>8, LedgerOthers
<1>9. ASSUME NEW s \in {"pending", "failed"},
             entry' = [entry EXCEPT ![i].status = s],
             merging' = [merging EXCEPT ![r] = FALSE],
             pc' = [pc EXCEPT ![i] = "idle"], UNCHANGED lane,
             status' = status \/ status' = [status EXCEPT ![r] = "FAILED"]
      PROVE  Inv'
  <2>1. /\ \A j \in Issues : j # i => entry'[j] = entry[j]
        /\ entry'[i].dir = entry[i].dir /\ entry'[i].base = entry[i].base
        /\ entry'[i].status # "done"
        /\ entry' \in [Issues -> Entries]
    <3>1. /\ entry \in [Issues -> Entries] /\ entry[i] \in Entries
          /\ [entry[i] EXCEPT !.status = s] \in Entries
      BY <1>2, EntriesTyped
    <3>2. /\ [entry[i] EXCEPT !.status = s].dir = entry[i].dir
          /\ [entry[i] EXCEPT !.status = s].base = entry[i].base
          /\ [entry[i] EXCEPT !.status = s].status = s
      BY <3>1 DEF Entries
    <3>3. /\ entry'[i] = [entry[i] EXCEPT !.status = s]
          /\ \A j \in Issues : j # i => entry'[j] = entry[j]
          /\ entry' \in [Issues -> Entries]
      BY <1>9, <3>1
    <3> QED BY <3>2, <3>3
  <2>2. /\ \A j \in Issues : j # i => pc'[j] = pc[j]
        /\ pc'[i] = "idle"
        /\ pc' \in [Issues -> {"idle", "claimed", "executing", "succeeded", "broke"}]
        /\ merging' \in [Runs -> BOOLEAN]
    BY <1>2, <1>9 DEF TypeOK
  <2>3. /\ \A q \in Runs : q # r => status'[q] = status[q]
        /\ status'[r] \in {status[r], "FAILED"}
        /\ status' \in [Runs -> {"READY", "EXECUTING", "FAILED",
                                 "INTEGRATION_REVIEW", "PLANNING"}]
    BY <1>2, <1>9 DEF TypeOK
  <2>4. LedgerOnly(r)
    BY <1>3, <1>4, <1>9, <2>1, <2>2, <2>3 DEF LedgerOnly, OthersStay
  <2>5. TypeOK'
    BY <1>2, <1>3, <1>9, <2>1, <2>2, <2>3 DEF TypeOK, Entries
  <2>6. LaneOK(r)' /\ LaneGitOK(r)'
    BY <1>2, <1>3, <1>5, <1>7, <1>9, <2>3
       DEF LaneOK, LaneGitOK, Creating, Finishing, Removing, Dropping
  <2>7. MergeOK'
    BY <1>3, <1>9 DEF Inv, MergeOK, MergeTree
  <2>8. \A j \in Current(r) : Settles(j)
    BY <1>2, <1>6, <2>1, <2>2, CurrentFacts DEF Settles
  <2>9. LedgerKeeps(r)
    BY <1>3, <1>5, <1>9, <2>3, <2>4, <2>5, <2>6, <2>7, <2>8, SettlingKeeps
  <2> QED BY <2>9, LedgerOthers
<1>10. CASE /\ entry' = [entry EXCEPT ![i].status = "pending"]
            /\ merging' = [merging EXCEPT ![r] = FALSE]
            /\ pc' = [pc EXCEPT ![i] = "idle"]
            /\ UNCHANGED <<status, lane>>
  BY <1>9, <1>10
<1>11. CASE /\ Failed(i, r) /\ pc' = [pc EXCEPT ![i] = "idle"] /\ UNCHANGED lane
  BY <1>9, <1>11 DEF Failed
<1> QED BY <1>2, <1>8, <1>10, <1>11 DEF Outcome

LEMMA RestartInv ==
  ASSUME Inv, Restart
  PROVE  Inv'
<1>1. TypeOK /\ OutOK /\ MergeOK
  BY DEF Inv
<1>2. /\ restarts < MaxRestarts /\ restarts' = restarts + 1
      /\ torn' = (torn \/ \E r \in Runs : lane[r].step \in TornByStop)
      /\ pc' = [i \in Issues |-> "idle"]
      /\ lane' = [r \in Runs |-> IF status[r] = "PLANNING"
                                 THEN [Idle EXCEPT !.step = "planned"] ELSE Idle]
      /\ entry' = [i \in Issues |->
                     IF status[RunOf(i)] = "EXECUTING" /\ entry[i].status = "running"
                     THEN [entry[i] EXCEPT !.status = "pending"] ELSE entry[i]]
      /\ merging' = [r \in Runs |-> merging[r] /\ status[r] # "EXECUTING"]
      /\ UNCHANGED <<scoped, status, plan, round, tip, out, edits, made, cuts>>
  BY DEF Restart, git
<1>3. \A i \in Issues :
        /\ pc'[i] = "idle"
        /\ entry'[i].dir = entry[i].dir /\ entry'[i].base = entry[i].base
        /\ entry'[i].status = "done" <=> entry[i].status = "done"
        /\ entry[i].status # "running" => entry'[i] = entry[i]
  <2>1. ASSUME NEW i \in Issues
        PROVE  /\ [entry[i] EXCEPT !.status = "pending"].dir = entry[i].dir
               /\ [entry[i] EXCEPT !.status = "pending"].base = entry[i].base
               /\ [entry[i] EXCEPT !.status = "pending"].status = "pending"
    <3>1. entry[i] \in Entries
      BY <1>1, EntriesTyped
    <3> QED BY <3>1 DEF Entries
  <2>2. ASSUME NEW i \in Issues
        PROVE  \/ entry'[i] = entry[i]
               \/ /\ entry[i].status = "running"
                  /\ entry'[i] = [entry[i] EXCEPT !.status = "pending"]
    BY <1>2
  <2> QED BY <1>2, <2>1, <2>2
<1>4. /\ entry' \in [Issues -> Entries]
      /\ pc' \in [Issues -> {"idle", "claimed", "executing", "succeeded", "broke"}]
      /\ merging' \in [Runs -> BOOLEAN]
  BY <1>1, <1>2, EntriesTyped DEF TypeOK
<1>5. \A r \in Runs :
        /\ lane'[r].step = IF status[r] = "PLANNING" THEN "planned" ELSE "free"
        /\ lane'[r].todo = {}
        /\ lane'[r] \in Lanes
  <2>1. /\ [Idle EXCEPT !.step = "planned"] \in Lanes
        /\ [Idle EXCEPT !.step = "planned"].step = "planned"
        /\ [Idle EXCEPT !.step = "planned"].todo = {}
    BY IdleFacts DEF Idle, Lanes, Step
  <2> QED BY <1>2, <2>1, IdleFacts
<1>6. lane' \in [Runs -> Lanes]
  BY <1>2, <1>5
<1>7. TypeOK'
  <2>1. restarts' \in 0..MaxRestarts
    <3>1. restarts \in 0..MaxRestarts /\ MaxRestarts \in Nat
      BY <1>1, WorktreesAssumption DEF TypeOK
    <3> QED BY <1>2, <3>1
  <2>2. torn' \in BOOLEAN
    BY <1>1, <1>2 DEF TypeOK
  <2> QED BY <1>1, <1>2, <1>4, <1>6, <2>1, <2>2 DEF TypeOK, Entries, Lanes
<1>8. OutOK'
  BY <1>1, <1>2 DEF OutOK
<1>9. MergeOK'
  <2>1. Held \subseteq TornByStop
    BY DEF Held, TornByStop
  <2>2. ~torn' => \A p \in DOMAIN out' : p[1] # "merge"
    BY <1>1, <1>2, <2>1 DEF MergeOK
  <2>3. \A r \in Runs : lane'[r].step \in {"free", "planned"}
    BY <1>5
  <2> QED BY <2>2, <2>3 DEF MergeOK, MergeSteps
<1>10. ASSUME NEW r \in Runs
       PROVE  RunInv(r)'
  <2>1. LaneOK(r) /\ RunOK(r) /\ LaneGitOK(r)
    BY DEF Inv, RunInv
  <2>2. /\ Current(r)' = Current(r) /\ Target(r)' = Target(r)
        /\ On(Target(r))' = On(Target(r))
    BY <1>2 DEF Current, Target, On
  <2>3. \A i \in Current(r) : i \in Issues /\ Deps[i] \subseteq Current(r)
    BY <1>1, CurrentFacts
  <2>4. LaneOK(r)' /\ LaneGitOK(r)'
    BY <1>2, <1>5, <2>2
       DEF LaneOK, LaneGitOK, Creating, Finishing, Removing, Dropping
  <2>5. RunOK(r)'
    <3>1. \A k \in DOMAIN Plans[r] : \A i \in Plans[r][k] : i \in Issues
      BY IssueFacts
    <3>2. Fresh.status = "pending"
      BY DEF Fresh
    <3> QED BY <1>2, <1>3, <2>1, <2>2, <2>3, <3>1, <3>2 DEF RunOK
  <2>6. ASSUME status'[r] # "PLANNING", NEW i \in Current(r)
        PROVE  IssueOK(r, i)' /\ DepsOK(r, i)'
    <3>1. /\ IssueOK(r, i) /\ DepsOK(r, i) /\ i \in Issues
          /\ Deps[i] \subseteq Issues
      BY <1>2, <2>3, <2>6 DEF Inv, RunInv
    <3>2. On(i)' = On(i) /\ Has(i)' = Has(i)
      BY <1>2 DEF On, Has
    <3>3. IssueOK(r, i)'
      <4>1. /\ pc'[i] = "idle"
            /\ entry'[i].dir = entry[i].dir /\ entry'[i].base = entry[i].base
            /\ entry'[i].status = "done" <=> entry[i].status = "done"
        BY <1>3, <3>1
      <4> QED BY <1>2, <2>2, <3>1, <3>2, <4>1 DEF IssueOK, GoodBase
    <3>4. DepsOK(r, i)'
      <4>1. ~torn' => lane[r].step \notin Removing /\ ~torn
        BY <1>2 DEF TornByStop, Removing
      <4>2. /\ pc'[i] = "idle"
            /\ entry'[i].status = "done" <=> entry[i].status = "done"
            /\ \A d \in Deps[i] : entry'[d].status = "done" <=> entry[d].status = "done"
        BY <1>3, <3>1
      <4> QED BY <1>2, <3>1, <4>1, <4>2 DEF DepsOK
    <3> QED BY <3>3, <3>4
  <2> QED BY <2>2, <2>4, <2>5, <2>6 DEF RunInv
<1> QED BY <1>7, <1>8, <1>9, <1>10 DEF Inv

LEMMA InitInv ==
  ASSUME Init
  PROVE  Inv
<1>1. PICK S \in Together :
        /\ status = [r \in Runs |-> IF r \in S THEN "EXECUTING" ELSE "READY"]
        /\ \E T \in SUBSET S : scoped = [r \in Runs |-> r \in T]
  BY DEF Init
<1>2. /\ plan = [r \in Runs |-> 1]
      /\ entry = [i \in Issues |-> Fresh]
      /\ merging = [r \in Runs |-> FALSE]
      /\ lane = [r \in Runs |-> Idle]
      /\ pc = [i \in Issues |-> "idle"]
      /\ round = [i \in Issues |-> 0]
      /\ DOMAIN tip = {} /\ DOMAIN out = {}
      /\ edits = [i \in Issues |-> {}]
      /\ made = [i \in Issues |-> {}]
      /\ torn = FALSE /\ cuts = 0 /\ restarts = 0
  BY DEF Init
<1>3. \A r \in Runs : 1 \in DOMAIN Plans[r] /\ DOMAIN Plans[r] \subseteq Nat
  BY WorktreesAssumption
<1>4. TypeOK
  <2>1. Fresh \in Entries
    BY DEF Fresh, Entries
  <2>2. entry \in [Issues -> Entries] /\ lane \in [Runs -> Lanes]
    BY <1>2, <2>1, IdleFacts
  <2>3. /\ \A i \in Issues : round[i] \in 0..MaxRounds[i]
        /\ cuts \in 0..MaxCuts /\ restarts \in 0..MaxRestarts
    BY <1>2, WorktreesAssumption
  <2>4. plan \in [Runs -> Nat] /\ \A r \in Runs : plan[r] \in DOMAIN Plans[r]
    BY <1>2, <1>3
  <2>5. /\ scoped \in [Runs -> BOOLEAN] /\ merging \in [Runs -> BOOLEAN]
        /\ status \in [Runs -> {"READY", "EXECUTING", "FAILED",
                                "INTEGRATION_REVIEW", "PLANNING"}]
        /\ pc \in [Issues -> {"idle", "claimed", "executing", "succeeded", "broke"}]
        /\ edits \in [Issues -> SUBSET Works] /\ made \in [Issues -> SUBSET Works]
    BY <1>1, <1>2
  <2> QED BY <1>2, <2>2, <2>3, <2>4, <2>5 DEF TypeOK, Entries, Lanes, Range
<1>5. OutOK /\ MergeOK
  <2>1. \A r \in Runs : lane[r].step = "free"
    BY <1>2, IdleFacts
  <2> QED BY <1>2, <2>1 DEF OutOK, MergeOK, MergeSteps
<1>6. ASSUME NEW r \in Runs
      PROVE  RunInv(r)
  <2>1. lane[r] = Idle /\ plan[r] = 1 /\ status[r] \in {"EXECUTING", "READY"}
    BY <1>1, <1>2
  <2>2. \A k \in DOMAIN Plans[r] : \A i \in Plans[r][k] :
          /\ i \in Issues /\ entry[i] = Fresh /\ pc[i] = "idle"
          /\ made[i] = {} /\ edits[i] = {} /\ i \notin DOMAIN tip
    BY <1>2, IssueFacts
  <2>3. LaneOK(r) /\ LaneGitOK(r)
    BY <2>1, IdleFacts
       DEF LaneOK, LaneGitOK, Creating, Finishing, Removing, Dropping
  <2>4. RunOK(r)
    BY <2>1, <2>2 DEF RunOK
  <2>5. ASSUME NEW i \in Current(r)
        PROVE  IssueOK(r, i) /\ DepsOK(r, i)
    <3>1. /\ entry[i] = Fresh /\ pc[i] = "idle"
          /\ made[i] = {} /\ edits[i] = {} /\ i \notin DOMAIN tip
      BY <1>3, <2>1, <2>2 DEF Current
    <3>2. On(i) = {} /\ ~Fresh.dir /\ Fresh.status = "pending"
      BY <3>1 DEF On, Fresh
    <3> QED BY <3>1, <3>2 DEF IssueOK, DepsOK
  <2> QED BY <2>3, <2>4, <2>5 DEF RunInv
<1> QED BY <1>4, <1>5, <1>6 DEF Inv

LEMMA NextInv ==
  ASSUME Inv, [Next]_vars
  PROVE  Inv'
<1>1. CASE \E r \in Runs : GitStep(r)
  BY <1>1, GitInv, GitStepTyped DEF Inv
<1>2. CASE \E r \in Runs : LedgerStep(r)
  BY <1>2, LedgerInv
<1>3. CASE \E i \in Issues : Execute(i) \/ Outcome(i)
  BY <1>3, ExecuteInv, OutcomeInv
<1>4. CASE Restart
  BY <1>4, RestartInv
<1>5. CASE UNCHANGED vars
  BY <1>5
     DEF vars, ledger, git, bounds, Inv, TypeOK, OutOK, MergeOK, MergeTree, RunInv,
         LaneOK, RunOK, LaneGitOK, IssueOK, DepsOK, GoodBase, On, Has, Target,
         Current
<1> QED BY <1>1, <1>2, <1>3, <1>4, <1>5 DEF Next

LEMMA InvAlways == Spec => []Inv
BY InitInv, NextInv, PTL DEF Spec

-----------------------------------------------------------------------------
(* What the invariant is for. *)

\* The executing, and the issue a sequence is about, are of the current plan.
LEMMA WorkingFacts ==
  ASSUME Inv, NEW r \in Runs, NEW i \in IssuesOf(r), pc[i] = "executing"
  PROVE  i \in Current(r) /\ status[r] # "PLANNING"
<1>1. RunOK(r)
  BY DEF Inv, RunInv
<1>2. PICK k \in DOMAIN Plans[r] : i \in Plans[r][k]
  BY IssuesOfIn
<1>3. i \in Current(r)
  BY <1>1, <1>2 DEF RunOK, Current
<1> QED BY <1>1, <1>3 DEF RunOK

\* Whatever is cut, stopped or in conflict, an issue that is executed has its
\* worktree, and all work of an issue recorded as done is on the integration
\* branch: what the forced removals of mergeIssueWorktree and
\* removeIssueWorktree delete is nowhere the only copy.
THEOREM NoWorkIsLost == Spec => []WorkIsKept
<1>1. Inv => WorkIsKept
  <2> SUFFICES ASSUME Inv, NEW r \in Runs, status[r] # "PLANNING",
                      NEW i \in Current(r)
               PROVE  /\ pc[i] = "executing" =>
                           /\ <<"issue", i>> \in DOMAIN out
                           /\ out[<<"issue", i>>] = i
                      /\ entry[i].status = "done" => made[i] \subseteq tip[Target(r)]
    BY DEF WorkIsKept
  <2>1. IssueOK(r, i) /\ OutOK
    BY DEF Inv, RunInv
  <2>2. pc[i] = "executing" => Has(i)
    BY <2>1 DEF IssueOK
  <2> QED BY <2>1, <2>2 DEF IssueOK, OutOK, Has, TreeOf, On
<1> QED BY <1>1, InvAlways, PTL

\* The range a CHECKPOINT reviewer is given lies on the issue's branch, holds
\* nobody else's work and everything of the issue that is not integrated, also
\* when createIssueWorktree found the worktree or the branch of an earlier
\* attempt.
THEOREM ReviewersSeeTheIssue == Spec => []ReviewSeesOwnWork
<1>1. Inv => ReviewSeesOwnWork
  <2> SUFFICES ASSUME Inv, NEW r \in Runs, lane[r].step = "review"
               PROVE  LET i == lane[r].issue
                      IN  /\ entry[i].base \subseteq tip[i]
                          /\ tip[i] \ entry[i].base \subseteq WorksOf(i)
                          /\ made[i] \ tip[Target(r)]
                               \subseteq tip[i] \ entry[i].base
    BY DEF ReviewSeesOwnWork, At
  <2>1. PICK i : i = lane[r].issue
    OBVIOUS
  <2>2. TypeOK /\ OutOK /\ RunInv(r) /\ lane[r].step \in Finishing
    BY DEF Inv, Finishing
  <2>3. /\ LaneGitOK(r) /\ i \in DOMAIN tip /\ Target(r) \in DOMAIN tip
        /\ GoodBase(r, i, entry[i].base)
    BY <2>1, <2>2, FinishingFacts
  <2>4. made[i] \subseteq On(i) \cup On(Target(r))
    BY <2>1, <2>3 DEF LaneGitOK
  <2> QED BY <2>1, <2>3, <2>4 DEF GoodBase, On
<1> QED BY <1>1, InvAlways, PTL

\* Unless a merge or a cleanup was torn, an issue is executed on everything its
\* dependencies did, also after a FINAL FIX that redid them: the branch
\* createIssueWorktree finds is never one of an older baseline.
THEOREM WorkBuildsOnDependencies == Spec => []BuildsOnDependencies
<1>1. Inv => BuildsOnDependencies
  <2> SUFFICES ASSUME Inv, ~torn, NEW i \in Issues, pc[i] = "executing",
                      NEW d \in Deps[i]
               PROVE  made[d] \subseteq tip[i]
    BY DEF BuildsOnDependencies
  <2>1. PICK r \in Runs : i \in IssuesOf(r)
    BY IssueIsPlanned DEF IssuesOf
  <2>2. i \in Current(r) /\ status[r] # "PLANNING"
    BY <2>1, WorkingFacts
  <2>3. TypeOK /\ OutOK /\ LaneOK(r) /\ IssueOK(r, i) /\ DepsOK(r, i)
    BY <2>2 DEF Inv, RunInv
  <2>4. Has(i) /\ out[TreeOf(i)] = i
    BY <2>3 DEF IssueOK, OutOK, Has, TreeOf
  <2>5. i \in DOMAIN tip
    BY <2>3, <2>4 DEF TypeOK, Range, Has
  <2>6. ~(lane[r].step \in Removing /\ lane[r].issue = i)
    BY <2>3 DEF LaneOK
  <2> QED BY <2>3, <2>5, <2>6 DEF DepsOK
<1> QED BY <1>1, InvAlways, PTL

\* Unless a merge or a cleanup was torn, a merge fails only because of a
\* conflict, of one of its own commands being cut, or of the marker of one that
\* failed so: mergeIssueWorktree leaves nothing that blocks the next merge.
THEOREM MergesFailForAReason == Spec => []OnlyConflictsFail
<1>1. Inv => OnlyConflictsFail
  BY DEF Inv, MergeOK, OnlyConflictsFail, At
<1> QED BY <1>1, InvAlways, PTL

\* The state of the worktree manager is well typed.
THEOREM TypesHold == Spec => []TypeOK
<1>1. Inv => TypeOK
  BY DEF Inv
<1> QED BY <1>1, InvAlways, PTL

=============================================================================
