-------------------------------- MODULE Plans -------------------------------
(***************************************************************************)
(* Plans as sequences of issues: what validatePlan accepts (dag.ts), how   *)
(* an accepted plan is renumbered for the ledger (normalizePlannedIssues), *)
(* and in which order its issues are offered to the executors              *)
(* (topologicalOrder).                                                     *)
(*                                                                         *)
(* The key `issue-NNN` is the number NNN; the planner may use any other    *)
(* name as well.  Numbers compare like the padded keys do below 1000.      *)
(***************************************************************************)
EXTENDS Integers, SequencesExt

\* Keys that are empty or do not match ISSUE_KEY_PATTERN.
CONSTANT UnsafeNames

\* The issues of a plan: key, deps, and whether the acceptance text is not
\* blank and the risk one of the known levels.
KeysOf(plan) == {plan[i].key : i \in DOMAIN plan}

DepsIn(plan, i) == ToSet(plan[i].deps)

-----------------------------------------------------------------------------
(* validatePlan *)

\* Mutant: issue keys may repeat.
GoodIssue_Repeated(plan, i) ==
  plan[i].key \notin UnsafeNames /\ plan[i].acceptance /\ plan[i].risk

GoodIssue(plan, i) ==
  /\ \A j \in 1 .. i - 1 : plan[j].key # plan[i].key
  /\ plan[i].key \notin UnsafeNames
  /\ plan[i].acceptance
  /\ plan[i].risk

GoodDeps(plan, i) == DepsIn(plan, i) \subseteq KeysOf(plan) \ {plan[i].key}

\* The dependencies of the issue a key names.
DepsOf(plan, key) == plan[CHOOSE i \in DOMAIN plan : plan[i].key = key].deps

\* The depth-first search: the calls and returns of visit that are still to
\* come, in order, and the color of each issue.
SearchState(plan) ==
  [agenda : Seq([op : {"visit", "leave"}, key : KeysOf(plan)]),
   color  : [KeysOf(plan) -> {"white", "grey", "black"}],
   cycle  : BOOLEAN]

Visits(keys) == [m \in DOMAIN keys |-> [op |-> "visit", key |-> keys[m]]]

SearchStart(plan) ==
  [agenda |-> Visits([i \in DOMAIN plan |-> plan[i].key]),
   color  |-> [key \in KeysOf(plan) |-> "white"],
   cycle  |-> FALSE]

\* Mutant: an issue is black as soon as the search reaches it.
Entered_Black(plan, s, key) ==
  [s EXCEPT !.color[key] = "black",
            !.agenda = Visits(DepsOf(plan, key)) \o Tail(@)]

\* A white issue is grey while the search is below it.
Entered(plan, s, key) ==
  [s EXCEPT !.color[key] = "grey",
            !.agenda = Visits(DepsOf(plan, key))
                         \o <<[op |-> "leave", key |-> key]>> \o Tail(@)]

\* A grey issue is below itself, and every call returns at once.
Searched(plan, s) ==
  LET task == Head(s.agenda) IN
  CASE task.op = "leave" ->
         [s EXCEPT !.color[task.key] = "black", !.agenda = Tail(@)]
    [] task.op = "visit" /\ s.color[task.key] = "black" ->
         [s EXCEPT !.agenda = Tail(@)]
    [] task.op = "visit" /\ s.color[task.key] = "grey" ->
         [s EXCEPT !.cycle = TRUE, !.agenda = <<>>]
    [] task.op = "visit" /\ s.color[task.key] = "white" ->
         Entered(plan, s, task.key)

HasCycle(plan) ==
  LET search[s \in SearchState(plan)] ==
        IF s.agenda = <<>> THEN s.cycle ELSE search[Searched(plan, s)]
  IN search[SearchStart(plan)]

Accepted(plan) ==
  /\ plan # <<>>
  /\ \A i \in DOMAIN plan : GoodIssue(plan, i)
  /\ \A i \in DOMAIN plan : GoodDeps(plan, i)
  /\ ~HasCycle(plan)

\* The rules of a plan, stated without the search: known, distinct keys, and
\* no set of issues that all wait for one another.
Sound(plan) ==
  /\ plan # <<>>
  /\ \A i, j \in DOMAIN plan : plan[i].key = plan[j].key => i = j
  /\ \A i \in DOMAIN plan :
       /\ plan[i].key \notin UnsafeNames /\ plan[i].acceptance /\ plan[i].risk
       /\ DepsIn(plan, i) \subseteq KeysOf(plan)
  /\ \A S \in (SUBSET DOMAIN plan) \ {{}} :
       \E i \in S : \A j \in S : plan[j].key \notin DepsIn(plan, i)

-----------------------------------------------------------------------------
(* normalizePlannedIssues *)

\* oldToNew holds the issues up to the current one, so a dependency on a
\* later issue keeps the name the planner gave it.
NewName(plan, i, dep, max) ==
  IF \E j \in 1 .. i : plan[j].key = dep
  THEN max + (CHOOSE j \in 1 .. i : plan[j].key = dep)
  ELSE dep

\* The published issues of a plan; max is the highest number in the ledger.
Numbered(plan, max) ==
  [i \in DOMAIN plan |->
     [key |-> max + i,
      deps |-> [m \in DOMAIN plan[i].deps |->
                  NewName(plan, i, plan[i].deps[m], max)]]]

\* Every dependency is listed before the issues that need it.
DependenciesListedFirst(plan) ==
  \A i \in DOMAIN plan :
    \A dep \in DepsIn(plan, i) : \E j \in 1 .. i - 1 : plan[j].key = dep

\* The issues are the plan, renamed: a dependency still names the issue that
\* the planner meant.
SameShape(plan, issues) ==
  /\ Len(issues) = Len(plan)
  /\ \A i \in DOMAIN plan :
       /\ Len(issues[i].deps) = Len(plan[i].deps)
       /\ \A m \in DOMAIN plan[i].deps : \E j \in DOMAIN plan :
            plan[j].key = plan[i].deps[m] /\ issues[j].key = issues[i].deps[m]

-----------------------------------------------------------------------------
(* topologicalOrder *)

Least(S) == CHOOSE k \in S : \A other \in S : k <= other

\* How often an issue names a dependency.
Uses(issue, key) ==
  Cardinality({m \in DOMAIN issue.deps : issue.deps[m] = key})

\* The issues whose last unordered dependency was key.
Freed(issues, waits, key) ==
  {issues[i].key : i \in {i \in DOMAIN issues :
                            Uses(issues[i], key) > 0 /\ waits[i] = 0}}

OrderState(issues) ==
  [order : Seq(KeysOf(issues)), waits : [DOMAIN issues -> Int],
   queue : SUBSET KeysOf(issues)]

OrderStart(issues) ==
  [order |-> <<>>,
   waits |-> [i \in DOMAIN issues |-> Len(issues[i].deps)],
   queue |-> {issues[i].key : i \in {i \in DOMAIN issues :
                                      issues[i].deps = <<>>}}]

\* The smallest free issue comes next; waits counts each issue's
\* dependencies that are not ordered yet.
Shifted(issues, s) ==
  LET key == Least(s.queue)
      waits == [i \in DOMAIN issues |-> s.waits[i] - Uses(issues[i], key)]
  IN [order |-> Append(s.order, key), waits |-> waits,
      queue |-> (s.queue \cup Freed(issues, waits, key)) \ {key}]

Order(issues) ==
  LET loop[s \in OrderState(issues)] ==
        IF s.queue = {} THEN s.order ELSE loop[Shifted(issues, s)]
  IN loop[OrderStart(issues)]

\* The issues that can be executed at all: nothing they need, directly or
\* not, is missing or needs them.
Executable(issues) ==
  KeysOf(issues) \
    UNION {S \in SUBSET KeysOf(issues) :
             \A i \in DOMAIN issues : issues[i].key \in S =>
               \E dep \in DepsIn(issues, i) :
                 dep \in S \/ dep \notin KeysOf(issues)}

=============================================================================
