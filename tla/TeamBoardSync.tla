--------------------------- MODULE TeamBoardSync ---------------------------
(***************************************************************************)
(* The one-way mirror of the task flow's board on a team board             *)
(* (team-board-sync.ts).  A notification of the ledger starts a cycle, or  *)
(* asks for one more if a cycle is running.  A cycle lists the team board's*)
(* tasks, binds those it knows to issues, reads the board, and then        *)
(* creates, updates and deletes tasks, awaiting one call after the other.  *)
(*                                                                         *)
(* The team board is another program: its users edit, move, copy and       *)
(* delete tasks, its calls fail, and it knows nothing of the ledger.  What *)
(* the mirror knows beyond the subject lines is lost when it starts again. *)
(***************************************************************************)
EXTENDS Integers, FiniteSets

CONSTANTS
  Issues,     \* keys of the issues of the run that is mirrored
  Deps,       \* Deps[k]: the issues k depends on
  Overlap,    \* a mirror may be replaced while its cycle runs
  MaxWrites,  \* bound: writes of the ledger that change the board
  MaxStarts,  \* bound: mirrors started
  MaxTasks,   \* bound: tasks created
  MaxEdits,   \* bound: edits of users
  MaxFaults   \* bound: calls of the team board that fail

\* The subject of a task nobody marked.
Other == "other"

ASSUME IssuesAssumption ==
  /\ IsFiniteSet(Issues) /\ Other \notin Issues
  /\ Deps \in [Issues -> SUBSET Issues]

VARIABLES
  run,      \* the run in the ledger
  due,      \* writes that have committed and will notify
  tasks,    \* the team board
  mirrors,  \* the mirrors started so far
  starts,   \* their number; the last one is subscribed
  made,     \* tasks created so far
  spoiled,  \* history: an edit or a failure since the last listing
  moved,    \* history: issues whose marker users wrote, or wrote over
  writes, edits, faults

bounds == <<moved, writes, edits, faults>>
vars == <<run, due, tasks, mirrors, starts, made, spoiled, bounds>>

Nobody == 0        \* no task, or no mirror

TaskIds == 1..MaxTasks
Mirrors == 1..MaxStarts
TaskStatus == {"todo", "doing", "done"}

\* origin and by are history: the issue a task was created for, if a mirror
\* created it, and the mirror that has it in its charge.
Task == [subject : Issues \cup {Other}, status : TaskStatus, deps : SUBSET TaskIds,
         origin : Issues \cup {Other}, by : {Nobody} \cup Mirrors]

-----------------------------------------------------------------------------
(* The ledger's side: buildBoard and teamBoardStatus. *)

RunState == [status : {"PLANNING", "EXECUTING", "INTEGRATION_REVIEW",
                       "ACCEPTED", "CANCELLED", "DELETED"},
             issues : SUBSET Issues,
             exec   : [Issues -> {"pending", "running", "done", "failed"}]]

Pending == [k \in Issues |-> "pending"]

boardColumnFor(r, k) ==
  CASE r.status = "CANCELLED" -> IF r.exec[k] = "done" THEN "done" ELSE "failed"
    [] r.status # "CANCELLED" /\ r.exec[k] = "pending" -> "todo"
    [] r.status # "CANCELLED" /\ r.exec[k] = "running" -> "doing"
    [] r.status # "CANCELLED" /\ r.exec[k] = "failed" -> "failed"
    [] OTHER -> IF r.status = "INTEGRATION_REVIEW" THEN "review" ELSE "done"

teamBoardStatus(column) ==
  CASE column \in {"doing", "review"} -> "doing"
    [] column = "done" -> "done"
    [] OTHER -> "todo"

\* The cards of the board, each with the status its task should have.
Board == [k \in run.issues |-> teamBoardStatus(boardColumnFor(run, k))]

Becomes(r) == run' = r

\* A write that changes the board.  It notifies once it has committed.
Write ==
  /\ writes < MaxWrites
  /\ writes' = writes + 1
  /\ due' = due + 1
  /\ \/ /\ run.status = "PLANNING"
        /\ \E s \in SUBSET Issues \ {{}} :
             Becomes([status |-> "EXECUTING", issues |-> s, exec |-> Pending])
     \/ /\ run.status = "EXECUTING"
        /\ \E k \in run.issues :
             \/ /\ run.exec[k] = "pending"
                /\ Becomes([run EXCEPT !.exec[k] = "running"])
             \/ /\ run.exec[k] = "running"
                /\ \E e \in {"done", "failed"} : Becomes([run EXCEPT !.exec[k] = e])
     \/ /\ run.status = "EXECUTING"
        /\ \A k \in run.issues : run.exec[k] = "done"
        /\ Becomes([run EXCEPT !.status = "INTEGRATION_REVIEW"])
     \/ /\ run.status = "INTEGRATION_REVIEW"
        /\ \/ Becomes([run EXCEPT !.status = "ACCEPTED"])
           \/ Becomes([run EXCEPT !.status = "PLANNING", !.exec = Pending])
     \/ /\ run.status \in {"EXECUTING", "INTEGRATION_REVIEW"}
        /\ Becomes([run EXCEPT !.status = "CANCELLED"])
     \/ /\ run.status \in {"ACCEPTED", "CANCELLED"}
        /\ Becomes([status |-> "DELETED", issues |-> {}, exec |-> Pending])
  /\ UNCHANGED <<tasks, mirrors, starts, made, spoiled, moved, edits, faults>>

-----------------------------------------------------------------------------
(* The mirror's side. *)

\* A cycle.  seen: the tasks as the mirror has them, from the listing and from
\* the answers to its own calls.  bound: tasksByKey.  cards: the board as read.
NoTasks == [t \in {} |-> {}]
Unbound == [k \in Issues |-> Nobody]
Idle == [pc |-> "idle", seen |-> NoTasks, bound |-> Unbound, cards |-> [k \in {} |-> ""]]
Asked == [Idle EXCEPT !.pc = "asked"]

\* A mirror that has been created, its first cycle on its way.
Fresh == [live |-> TRUE, known |-> Unbound, pending |-> FALSE, cycle |-> Asked]

Init ==
  /\ run \in {[status |-> "PLANNING", issues |-> {}, exec |-> Pending],
              [status |-> "EXECUTING", issues |-> Issues, exec |-> Pending],
              [status |-> "EXECUTING", issues |-> Issues, exec |-> [k \in Issues |-> "done"]]}
  /\ due = 0
  /\ tasks = NoTasks
  /\ starts = 1
  /\ mirrors = [m \in 1..1 |-> Fresh]
  /\ made = 0
  /\ spoiled = FALSE
  /\ moved = {}
  /\ writes = 0 /\ edits = 0 /\ faults = 0

\* Mutant: a notification during a cycle is not remembered.
Notified_Dropped(m) == IF m.cycle.pc = "idle" /\ m.live THEN [m EXCEPT !.cycle = Asked] ELSE m

\* run() of createTeamBoardSync.
Notified(m) ==
  IF ~m.live THEN m
  ELSE IF m.cycle.pc = "idle" THEN [m EXCEPT !.cycle = Asked]
  ELSE [m EXCEPT !.pending = TRUE]

Notify ==
  /\ due > 0
  /\ due' = due - 1
  /\ mirrors' = [mirrors EXCEPT ![starts] = Notified(@)]
  /\ UNCHANGED <<run, tasks, starts, made, spoiled, bounds>>

\* The cycle is over, by success or failure.
Ended(m) ==
  IF m.pending /\ m.live THEN [m EXCEPT !.pending = FALSE, !.cycle = Asked]
  ELSE [m EXCEPT !.cycle = Idle]

\* The team board answers listTasks.
List(m) ==
  /\ mirrors[m].cycle.pc = "asked"
  /\ mirrors' = [mirrors EXCEPT ![m].cycle = [@ EXCEPT !.pc = "listed", !.seen = tasks]]
  /\ spoiled' = FALSE
  /\ UNCHANGED <<run, due, tasks, starts, made, bounds>>

\* The task whose subject claims the issue, the last one listed if several do.
Claiming(seen, k) ==
  LET claims == {t \in DOMAIN seen : seen[t].subject = k}
  IN  IF claims = {} THEN Nobody ELSE CHOOSE t \in claims : \A u \in claims : u <= t

\* Mutant: a known task counts as its issue's whatever it claims by now.
BoundTo_Stale(seen, known, k) ==
  IF Claiming(seen, k) # Nobody THEN Claiming(seen, k)
  ELSE IF known[k] \in DOMAIN seen THEN known[k]
  ELSE Nobody

\* A known task that lost the marker is still its issue's, unless it is gone
\* or claims another issue.
BoundTo(seen, known, k) ==
  IF Claiming(seen, k) # Nobody THEN Claiming(seen, k)
  ELSE IF known[k] \in DOMAIN seen /\ seen[known[k]].subject = Other THEN known[k]
  ELSE Nobody

\* The continuation of listTasks: bind the tasks and read the board.
Bind(m) ==
  LET me == mirrors[m]
      bound == [k \in Issues |-> BoundTo(me.cycle.seen, me.known, k)]
  IN  /\ me.cycle.pc = "listed"
      /\ mirrors' = [mirrors EXCEPT ![m].known = bound,
                       ![m].cycle = [@ EXCEPT !.pc = "writing", !.bound = bound, !.cards = Board]]
      /\ tasks' = [t \in DOMAIN tasks |->
                     IF \E k \in Issues : bound[k] = t THEN [tasks[t] EXCEPT !.by = m] ELSE tasks[t]]
      /\ UNCHANGED <<run, due, starts, made, spoiled, bounds>>

\* The passes of a cycle: what is missing, what differs, what is left over.
Missing(c) == {k \in DOMAIN c.cards : c.bound[k] = Nobody}

DepsOf(c, k) == {c.bound[d] : d \in Deps[k] \cap DOMAIN c.cards} \ {Nobody}

Differs(c, k) ==
  LET task == c.seen[c.bound[k]]
  IN  \/ task.subject # k
      \/ task.status # c.cards[k]
      \/ task.deps # DepsOf(c, k)

Different(c) == {k \in DOMAIN c.cards \ Missing(c) : Differs(c, k)}
LeftOver(c) == {k \in Issues \ DOMAIN c.cards : c.bound[k] # Nobody}

NewTask(k, m) == [subject |-> k, status |-> "todo", deps |-> {}, origin |-> k, by |-> m]
With(f, t, v) == [x \in DOMAIN f \cup {t} |-> IF x = t THEN v ELSE f[x]]
Without(f, t) == [x \in DOMAIN f \ {t} |-> f[x]]

Writing(m) == mirrors[m].cycle.pc = "writing"

Create(m) ==
  /\ Writing(m)
  /\ made < MaxTasks
  /\ \E k \in Missing(mirrors[m].cycle) :
       LET new == NewTask(k, m) IN
       /\ tasks' = With(tasks, made + 1, new)
       /\ mirrors' = [mirrors EXCEPT ![m].known[k] = made + 1,
                        ![m].cycle.bound[k] = made + 1,
                        ![m].cycle.seen = With(@, made + 1, new)]
  /\ made' = made + 1
  /\ UNCHANGED <<run, due, starts, spoiled, bounds>>

\* updateTask sets everything that is mirrored.  A task that is gone makes
\* the call fail, which ends the cycle.
Update(m) ==
  LET c == mirrors[m].cycle IN
  /\ Writing(m) /\ Missing(c) = {}
  /\ \E k \in Different(c) :
       LET t == c.bound[k]
           Set(task) == [task EXCEPT !.subject = k, !.status = c.cards[k], !.deps = DepsOf(c, k)]
       IN  IF t \in DOMAIN tasks
           THEN /\ tasks' = [tasks EXCEPT ![t] = Set(@)]
                /\ mirrors' = [mirrors EXCEPT ![m].cycle.seen[t] = Set(@)]
           ELSE /\ mirrors' = [mirrors EXCEPT ![m] = Ended(@)]
                /\ UNCHANGED tasks
  /\ UNCHANGED <<run, due, starts, made, spoiled, bounds>>

\* The mirror forgets the task before it asks for its deletion.
Remove(m) ==
  LET c == mirrors[m].cycle IN
  /\ Writing(m) /\ Missing(c) = {} /\ Different(c) = {}
  /\ \E k \in LeftOver(c) :
       /\ tasks' = Without(tasks, c.bound[k])
       /\ mirrors' = [mirrors EXCEPT ![m].known[k] = Nobody, ![m].cycle.bound[k] = Nobody]
  /\ UNCHANGED <<run, due, starts, made, spoiled, bounds>>

Finish(m) ==
  LET c == mirrors[m].cycle IN
  /\ Writing(m) /\ Missing(c) = {} /\ Different(c) = {} /\ LeftOver(c) = {}
  /\ mirrors' = [mirrors EXCEPT ![m] = Ended(@)]
  /\ UNCHANGED <<run, due, tasks, starts, made, spoiled, bounds>>

\* A call of the team board is rejected: the cycle is abandoned.  A rejected
\* creation may have happened; a task whose deletion failed is nobody's.
Reject(m) ==
  LET me == mirrors[m]
      c == me.cycle
      Fails(known) == mirrors' = [mirrors EXCEPT ![m] = Ended([me EXCEPT !.known = known])]
  IN  /\ faults < MaxFaults
      /\ faults' = faults + 1
      /\ spoiled' = TRUE
      /\ \/ /\ c.pc = "asked" \/ (Writing(m) /\ Missing(c) \cup Different(c) # {})
            /\ Fails(me.known)
            /\ UNCHANGED <<tasks, made>>
         \/ /\ Writing(m) /\ made < MaxTasks
            /\ \E k \in Missing(c) : tasks' = With(tasks, made + 1, NewTask(k, Nobody))
            /\ made' = made + 1
            /\ Fails(me.known)
         \/ /\ Writing(m) /\ Missing(c) = {} /\ Different(c) = {}
            /\ \E k \in LeftOver(c) :
                 /\ Fails([me.known EXCEPT ![k] = Nobody])
                 /\ tasks' = [t \in DOMAIN tasks |->
                                IF t = c.bound[k] THEN [tasks[t] EXCEPT !.by = Nobody] ELSE tasks[t]]
            /\ UNCHANGED made
      /\ UNCHANGED <<run, due, starts, moved, writes, edits>>

-----------------------------------------------------------------------------
(* Users of the team board, and new mirrors. *)

\* A user writes a task's subject: without a marker, or with the marker of
\* any issue, which moves, copies or restores it.
Relabel(t, s) ==
  /\ tasks' = [tasks EXCEPT ![t].subject = s]
  /\ moved' = IF s = Other THEN moved ELSE moved \cup ({s, tasks[t].origin} \ {Other})
  /\ UNCHANGED made

\* A user creates a task with the marker of issue k.
AddCopy(k) ==
  /\ made < MaxTasks
  /\ made' = made + 1
  /\ tasks' = With(tasks, made + 1, [NewTask(k, Nobody) EXCEPT !.origin = Other])
  /\ moved' = moved \cup {k}

Edit ==
  /\ edits < MaxEdits
  /\ edits' = edits + 1
  /\ spoiled' = TRUE
  /\ \/ \E t \in DOMAIN tasks :
          \/ \E s \in Issues \cup {Other} : Relabel(t, s)
          \/ /\ \/ \E s \in TaskStatus : tasks' = [tasks EXCEPT ![t].status = s]
                \/ tasks' = Without(tasks, t)
             /\ UNCHANGED <<moved, made>>
     \/ \E k \in Issues : AddCopy(k)
  /\ UNCHANGED <<run, due, mirrors, starts, writes, faults>>

\* The team board's provider or the task flow is loaded again: the old
\* mirror is disposed, but a cycle of it goes on.
Reload ==
  /\ starts < MaxStarts
  /\ Overlap \/ mirrors[starts].cycle.pc = "idle"
  /\ starts' = starts + 1
  /\ mirrors' = [m \in 1..starts + 1 |->
                   IF m > starts THEN Fresh
                   ELSE IF m = starts THEN [mirrors[m] EXCEPT !.live = FALSE] ELSE mirrors[m]]
  /\ UNCHANGED <<run, due, tasks, made, spoiled, bounds>>

\* The host stops and starts again.
Restart ==
  /\ starts < MaxStarts
  /\ starts' = starts + 1
  /\ mirrors' = [m \in 1..starts + 1 |->
                   IF m > starts THEN Fresh
                   ELSE [live |-> FALSE, known |-> Unbound, pending |-> FALSE, cycle |-> Idle]]
  /\ due' = 0
  /\ UNCHANGED <<run, tasks, made, spoiled, bounds>>

CycleStep(m) ==
  List(m) \/ Bind(m) \/ Create(m) \/ Update(m) \/ Remove(m) \/ Finish(m)

Next ==
  \/ Write
  \/ Notify
  \/ \E m \in 1..starts : CycleStep(m) \/ Reject(m)
  \/ Edit
  \/ Reload
  \/ Restart

\* The service notifies, and the team board answers in the end.
Fairness ==
  /\ WF_vars(Notify)
  /\ \A m \in Mirrors : WF_vars(m <= starts /\ CycleStep(m))

Spec == Init /\ [][Next]_vars /\ Fairness

-----------------------------------------------------------------------------
(* Properties. *)

TypeOK ==
  /\ run \in RunState
  /\ due \in 0..MaxWrites
  /\ DOMAIN tasks \subseteq TaskIds
  /\ \A t \in DOMAIN tasks : tasks[t] \in Task
  /\ starts \in Mirrors /\ DOMAIN mirrors = 1..starts
  /\ \A m \in 1..starts :
       /\ mirrors[m].live = (m = starts)
       /\ mirrors[m].known \in [Issues -> {Nobody} \cup TaskIds]
       /\ mirrors[m].cycle.bound \in [Issues -> {Nobody} \cup TaskIds]
  /\ made \in 0..MaxTasks
  /\ moved \subseteq Issues

\* Whatever the board's users edit, whichever calls fail and whenever the
\* host stops, no mirror lets one task stand for two issues, also after a user
\* gave it another issue's marker; and unless users moved or copied an issue's
\* marker, no two tasks claim the issue, and a mirror has no more than one
\* task created for it in its charge, also when the subject was edited
\* (syncTaskflowToTeamBoard: "no task is created twice for the same
\* run/issue pair", "must not double-bind one task").
NoTaskTwice ==
  /\ \A m \in DOMAIN mirrors, j, k \in Issues : j # k =>
       mirrors[m].known[j] # mirrors[m].known[k] \/ mirrors[m].known[j] = Nobody
  /\ \A t, u \in DOMAIN tasks, k \in Issues \ moved : t # u =>
       /\ tasks[t].subject # k \/ tasks[u].subject # k
       /\ \/ tasks[t].origin # k \/ tasks[u].origin # k
          \/ tasks[t].by # tasks[u].by \/ tasks[t].by = Nobody

\* The team board shows the board: each card by the task that claims it, the
\* last one listed if users copied its marker, with the card's status and the
\* tasks of its dependencies; and other issues by no task, or by copies that
\* users made, of which a cycle removes one.
Mirrored ==
  LET TaskOf(k) == Claiming(tasks, k)
  IN  \A k \in Issues :
        IF k \notin DOMAIN Board THEN TaskOf(k) = Nobody \/ k \in moved
        ELSE /\ TaskOf(k) # Nobody
             /\ tasks[TaskOf(k)].status = Board[k]
             /\ tasks[TaskOf(k)].deps = {TaskOf(d) : d \in Deps[k] \cap DOMAIN Board}

\* When the ledger is at rest the team board comes to show it, and stays so,
\* although bursts of notifications are answered by one cycle and the board
\* is read before the calls that write it.  A failed call or an edit after
\* the last listing is only repaired after the next notification.
MirrorConverges == <>[](spoiled \/ Mirrored)

=============================================================================
