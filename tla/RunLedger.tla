------------------------------ MODULE RunLedger -----------------------------
(***************************************************************************)
(* The ledger of runs: submit and its queue, deleteRun, and the planning   *)
(* flows of several runs side by side, from POST /plan to the published    *)
(* plan.  Every write goes through the domain's write chain: it is         *)
(* enqueued at once and commits later, in order, while reads see what has  *)
(* committed.                                                              *)
(*                                                                         *)
(* The rest of a run's life is TaskflowRun; here it is the moves of the    *)
(* transition table in Moves.  A host that stops loses the chain, the      *)
(* queue and the flows; resumePlanning asks again.                         *)
(***************************************************************************)
EXTENDS RunStatus, Plans

CONSTANTS
  IdempotencyKeys,  \* the explicit keys of submits
  NoKey,            \* a submit without one
  Requests,         \* title, description and repository, normalized
  Answers(_),       \* what the planner may answer for a run
  Moves,            \* the statuses other commands and flows move a run to
  MaxSubmits,       \* bound on the submits
  MaxAsked,         \* bound on the planning flows
  MaxWrites,        \* bound on the length of the write chain
  MaxStops          \* bound on the stops of the host

ASSUME LedgerAssumption ==
  /\ NoKey \notin IdempotencyKeys
  /\ Moves \subseteq Status \ {"RECEIVED", "READY"}
  /\ MaxSubmits \in Nat /\ MaxAsked \in Nat /\ MaxWrites \in Nat
  /\ MaxStops \in Nat
  /\ \A id \in 1 .. MaxSubmits : \A plan \in Answers(id) :
       /\ plan \in Seq(ToSet(plan))
       /\ \A i \in DOMAIN plan : plan[i].deps \in Seq(DepsIn(plan, i))

VARIABLES
  ledger,   \* the committed runs, by number
  tail,     \* submitTail: the submits that have not settled
  writes,   \* the write chain
  flow,     \* planFlows: the planning flow of each run that has one
  used      \* how much of each bound was used

vars == <<ledger, tail, writes, flow, used>>

RunIds == 1 .. MaxSubmits

NewRun(submit) ==
  [status |-> "RECEIVED", key |-> submit.key, request |-> submit.request,
   issues |-> <<>>]

Enqueue(w) == writes' = Append(writes, w)

\* The map f after set(x, v).
With(f, x, v) == [y \in DOMAIN f \cup {x} |-> IF y = x THEN v ELSE f[y]]

NextRunId == IF DOMAIN ledger = {} THEN 1 ELSE Max(DOMAIN ledger) + 1

-----------------------------------------------------------------------------
Init ==
  /\ ledger = <<>>
  /\ tail = <<>>
  /\ writes = <<>>
  /\ flow = <<>>
  /\ used = [submits |-> 0, asked |-> 0, stops |-> 0]

\* submit() queues a job behind the earlier ones.
Submit ==
  /\ used.submits < MaxSubmits
  /\ used' = [used EXCEPT !.submits = @ + 1]
  /\ \E key \in IdempotencyKeys \cup {NoKey}, request \in Requests :
       tail' = Append(tail, [key |-> key, request |-> request])
  /\ UNCHANGED <<ledger, writes, flow>>

\* Mutant: a submit does not wait for the ones before it.
JobMayStart_AtOnce == TRUE

\* A job runs when the one before it has settled.
JobMayStart == \A n \in DOMAIN writes : writes[n].op # "insert"

\* Mutant: a key is free again when its run was cancelled.
KeyTaken_Active(key) ==
  key # NoKey /\ \E id \in DOMAIN ledger :
    ledger[id].key = key /\ ledger[id].status # "CANCELLED"

KeyTaken(key) ==
  key # NoKey /\ \E id \in DOMAIN ledger : ledger[id].key = key

\* The first submit of the queue.  A key that is in use settles it, with the
\* run or with a conflict; otherwise its run is inserted.
SubmitJob ==
  /\ tail # <<>>
  /\ JobMayStart
  /\ tail' = Tail(tail)
  /\ IF KeyTaken(Head(tail).key) THEN UNCHANGED writes
     ELSE Enqueue([op |-> "insert", id |-> NextRunId,
                   run |-> NewRun(Head(tail))])
  /\ UNCHANGED <<ledger, flow, used>>

\* deleteRun() looks at the committed status.
Delete(id) ==
  /\ Len(writes) < MaxWrites
  /\ ledger[id].status \notin {"PLANNING", "EXECUTING", "INTEGRATION_REVIEW"}
  /\ Enqueue([op |-> "delete", id |-> id])
  /\ UNCHANGED <<ledger, tail, flow, used>>

\* Another command or flow of the run: it is started, fails, is cancelled,
\* retried, or its review asks for a new plan.  A run that was just received
\* can be cancelled; only its planning moves it otherwise.
MoveOn(id) ==
  /\ Len(writes) < MaxWrites
  /\ \E to \in Moves :
       /\ CanTransition(ledger[id].status, to)
       /\ ledger[id].status = "RECEIVED" => to = "CANCELLED"
       /\ Enqueue([op |-> "move", id |-> id, to |-> to])
  /\ UNCHANGED <<ledger, tail, flow, used>>

-----------------------------------------------------------------------------
(* Planning. *)

\* Mutant: the PLANNING write does not wait for the flow in flight.
SingleFlight_Not(id) == TRUE

SingleFlight(id) == id \notin DOMAIN flow

\* plan(): one flow per run; it starts with the PLANNING write when the run
\* is still RECEIVED.
PlanRequest(id) ==
  /\ used.asked < MaxAsked
  /\ ledger[id].status \in {"RECEIVED", "PLANNING"}
  /\ SingleFlight(id)
  /\ used' = [used EXCEPT !.asked = @ + 1]
  /\ flow' = [r \in DOMAIN flow \cup {id} |->
               IF r \in DOMAIN flow THEN flow[r]
               ELSE [stage |-> IF ledger[id].status = "RECEIVED"
                               THEN "starting" ELSE "asking",
                     request |-> ledger[id].request, aborted |-> FALSE]]
  /\ IF ledger[id].status = "RECEIVED"
     THEN Enqueue([op |-> "start", id |-> id, to |-> "PLANNING"])
     ELSE UNCHANGED writes
  /\ UNCHANGED <<ledger, tail>>

IssueNumbers ==
  UNION {KeysOf(ledger[id].issues) : id \in DOMAIN ledger}

HighestIssue == IF IssueNumbers = {} THEN 0 ELSE Max(IssueNumbers)

\* The planner's answer for a run that is still PLANNING: the plan is
\* rejected, or numbered and published.
PlannerAnswers(id) ==
  /\ flow[id].stage = "asking" /\ ~flow[id].aborted
  /\ id \in DOMAIN ledger
  /\ ledger[id].status = "PLANNING"
  /\ \E plan \in Answers(id) :
       Enqueue([op |-> IF Accepted(plan) THEN "publish" ELSE "reject",
                id |-> id, request |-> flow[id].request, plan |-> plan,
                issues |-> Numbered(plan, HighestIssue)])
  /\ flow' = [flow EXCEPT ![id].stage = "writing"]
  /\ UNCHANGED <<ledger, tail, used>>

FlowEnds(id) == [r \in DOMAIN flow \ {id} |-> flow[r]]

\* The planner's answer for a run that was deleted, was cancelled or has left
\* PLANNING.
PlannerStale(id) ==
  /\ flow[id].stage = "asking"
  /\ \/ flow[id].aborted
     \/ ~(id \in DOMAIN ledger /\ ledger[id].status = "PLANNING")
  /\ flow' = FlowEnds(id)
  /\ UNCHANGED <<ledger, tail, writes, used>>

FailedPlan(id) == [op |-> "fail", id |-> id]

\* The planner throws: whatever became of the run, its number is failed.
PlannerFails(id) ==
  /\ flow[id].stage = "asking" /\ ~flow[id].aborted
  /\ Enqueue(FailedPlan(id))
  /\ flow' = [flow EXCEPT ![id].stage = "writing"]
  /\ UNCHANGED <<ledger, tail, used>>

-----------------------------------------------------------------------------
(* The write chain. *)

Target(w) ==
  CASE w.op \in {"move", "start"} -> w.to
    [] w.op = "publish" -> "READY"
    [] w.op \in {"reject", "fail"} -> "FAILED"

\* updateRun throws when the run is gone or the table forbids the move.
Legal(w) ==
  w.id \in DOMAIN ledger /\ CanTransition(ledger[w.id].status, Target(w))

CommitUpdate(w) ==
  ledger' =
    IF ~Legal(w) THEN ledger
    ELSE [ledger EXCEPT ![w.id].status = Target(w),
                        ![w.id].issues = IF w.op = "publish" THEN w.issues
                                         ELSE @]

\* When a publication or a rejection is refused, the body's catch fails the
\* run, unless the planning was aborted.
CatchFails(w) ==
  /\ w.op \in {"publish", "reject"} /\ ~Legal(w)
  /\ ~(w.id \in DOMAIN flow /\ flow[w.id].aborted)

\* A cancellation that has committed aborts the planning in flight.
Aborts(w) ==
  Legal(w) /\ w.to = "CANCELLED" /\ w.id \in DOMAIN flow
    /\ flow[w.id].stage # "starting"

FlowAfter(w) ==
  CASE w.op \in {"insert", "delete"} -> flow
    [] w.op = "move" ->
         IF Aborts(w) THEN [flow EXCEPT ![w.id].aborted = TRUE] ELSE flow
    [] w.op = "start" ->
         IF Legal(w) THEN [flow EXCEPT ![w.id].stage = "asking"]
         ELSE FlowEnds(w.id)
    [] w.op \in {"publish", "reject", "fail"} ->
         IF CatchFails(w) THEN flow ELSE FlowEnds(w.id)

\* The oldest write commits, and whoever waited for it goes on.
Commit ==
  /\ writes # <<>>
  /\ LET w == Head(writes) IN
     /\ CASE w.op = "insert" -> ledger' = With(ledger, w.id, w.run)
          [] w.op = "delete" ->
               ledger' = [id \in DOMAIN ledger \ {w.id} |-> ledger[id]]
          [] OTHER -> CommitUpdate(w)
     /\ flow' = FlowAfter(w)
     /\ writes' = IF CatchFails(w) THEN Append(Tail(writes), FailedPlan(w.id))
                  ELSE Tail(writes)
  /\ UNCHANGED <<tail, used>>

\* The host stops; only what has committed is there when it starts again.
HostStops ==
  /\ used.stops < MaxStops
  /\ used' = [used EXCEPT !.stops = @ + 1]
  /\ tail' = <<>>
  /\ writes' = <<>>
  /\ flow' = <<>>
  /\ UNCHANGED ledger

Next ==
  \/ Submit
  \/ SubmitJob
  \/ \E id \in DOMAIN ledger : Delete(id) \/ MoveOn(id) \/ PlanRequest(id)
  \/ \E id \in DOMAIN flow :
       PlannerAnswers(id) \/ PlannerStale(id) \/ PlannerFails(id)
  \/ Commit
  \/ HostStops

Spec == Init /\ [][Next]_vars

-----------------------------------------------------------------------------
PlannerNames ==
  UNION {KeysOf(plan) : plan \in UNION {Answers(id) : id \in RunIds}}

Issue == [key : Nat, deps : Seq(Nat \cup PlannerNames)]

TypeOK ==
  /\ DOMAIN ledger \subseteq RunIds
  /\ \A id \in DOMAIN ledger :
       ledger[id] \in [status : Status, key : IdempotencyKeys \cup {NoKey},
                      request : Requests, issues : Seq(Issue)]
  /\ tail \in Seq([key : IdempotencyKeys \cup {NoKey}, request : Requests])
  /\ \A n \in DOMAIN writes :
       /\ writes[n].op \in {"insert", "delete", "move", "start", "publish",
                           "reject", "fail"}
       /\ writes[n].id \in RunIds
  /\ DOMAIN flow \subseteq RunIds
  /\ \A id \in DOMAIN flow :
       flow[id] \in [stage : {"starting", "asking", "writing"},
                    request : Requests, aborted : BOOLEAN]
  /\ used \in [submits : 0 .. MaxSubmits, asked : 0 .. MaxAsked,
               stops : 0 .. MaxStops]

\* However often a request is submitted under an idempotency key, and whatever
\* is deleted or lost in between, the ledger has one run for the key.
OneRunPerKey ==
  \A i, j \in DOMAIN ledger :
    ledger[i].key = ledger[j].key /\ ledger[i].key # NoKey => i = j

\* A run is never replaced by another one that was given its number, however
\* submits and deletions overlap.
RunsKeepTheirIdentity ==
  [][\A id \in DOMAIN ledger \cap DOMAIN ledger' :
       /\ ledger'[id].key = ledger[id].key
       /\ ledger'[id].request = ledger[id].request
       /\ ledger'[id].status = "RECEIVED" => ledger[id].status = "RECEIVED"
    ]_vars

Published == {n \in DOMAIN writes : writes[n].op = "publish"}

\* The search of validatePlan accepts exactly the sound plans (dag.ts:37).
VerdictIsRight ==
  \A n \in DOMAIN writes :
    writes[n].op \in {"publish", "reject"} =>
      (writes[n].op = "publish" <=> Sound(writes[n].plan))

\* The executors are offered exactly the issues that can be executed, each
\* once and after everything it needs (service.ts:2296).
OrderIsRight ==
  \A n \in Published :
    LET issues == writes[n].issues
        order  == Order(issues)
    IN /\ ToSet(order) = Executable(issues)
       /\ \A i, j \in DOMAIN order : order[i] = order[j] => i = j
       /\ \A i \in DOMAIN issues, m \in DOMAIN order :
            issues[i].key = order[m] =>
              DepsIn(issues, i) \subseteq {order[k] : k \in 1 .. m - 1}

\* A plan that lists dependencies first is published with its dependencies
\* intact, whatever names the planner used and whatever was numbered before.
PlanKeepsItsShape ==
  \A n \in Published :
    DependenciesListedFirst(writes[n].plan)
      => SameShape(writes[n].plan, writes[n].issues)

\* What the planning flows make of any plan the planner may answer: the right
\* verdict, the planner's shape under the run's names, and an order that can
\* be executed (dag.ts, normalizePlannedIssues).
PlansAreRight == VerdictIsRight /\ PlanKeepsItsShape /\ OrderIsRight

\* Every accepted plan is published with its dependencies intact: each one
\* references an existing issue of the plan (dag.ts:18).  It does not hold of
\* plans that list an issue before its dependency: see the README.
DependenciesSurvive ==
  \A n \in Published : SameShape(writes[n].plan, writes[n].issues)

\* A published plan answers the request of the run it is published to, even
\* when the run was deleted while it was planned and its number reused.
PlanAnswersItsRun ==
  \A n \in DOMAIN writes :
    writes[n].op = "publish" /\ n = 1 /\ Legal(writes[n]) =>
      ledger[writes[n].id].request = writes[n].request

=============================================================================
