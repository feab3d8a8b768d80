------------------------ MODULE TeamBoardSyncProofs ------------------------
(***************************************************************************)
(* No task stands for two issues, and an issue has one task unless users   *)
(* moved or copied its marker: however they edit the team board, however   *)
(* often calls fail, and mirrors and hosts start again.  The hypothesis is *)
(* that a mirror is not replaced while its cycle runs (~Overlap).          *)
(*                                                                         *)
(* What has to hold for it, of the issues whose markers users left alone:  *)
(* the mirror knows the task of an issue whenever a task claims the issue  *)
(* or is in the mirror's charge; and while a cycle is between its listing  *)
(* and its binding, the listing still has every task that was created for  *)
(* such an issue, with a claim at least as strong.                         *)
(***************************************************************************)
EXTENDS TeamBoardSync, WellFoundedInduction, TLAPS

(* Types. *)

Record == [subject : Issues \cup {Other}, status : TaskStatus,
           deps : SUBSET Nat, origin : Issues \cup {Other}, by : Nat]
Listings == UNION {[D -> Record] : D \in SUBSET Nat}
Boards == UNION {[D -> TaskStatus] : D \in SUBSET Issues}
Bindings == [Issues -> Nat]
Cycle == [pc : {"idle", "asked", "listed", "writing"},
          seen : Listings, bound : Bindings, cards : Boards]

\* No task stands for two issues.
OneToOne(known) ==
  \A j, k \in Issues : j # k => known[j] # known[k] \/ known[j] = Nobody

Known == {known \in Bindings : OneToOne(known)}
Mirror == [live : BOOLEAN, known : Known, pending : BOOLEAN, cycle : Cycle]

Shape ==
  /\ run \in RunState
  /\ made \in Nat
  /\ tasks \in Listings /\ DOMAIN tasks \subseteq 1..made
  /\ starts \in Nat \ {0}
  /\ mirrors \in [1..starts -> Mirror]
  /\ \A m \in 1..starts : m # starts => mirrors[m].cycle.pc = "idle"

(* What holds of a list of tasks, and of a list and what a mirror knows, if *)
(* users moved the markers of the issues in free.                          *)

\* Only a marker that users moved may be on a task that was created for
\* another issue, or by users, and only on one whose own marker they moved.
Fits(free, k, origin) ==
  k = origin \/ (k \in free \cup {Other} /\ origin \in free \cup {Other})

Marked(free, list) ==
  \A t \in DOMAIN list :
    list[t].subject = Other \/ Fits(free, list[t].subject, list[t].origin)

\* No two tasks claim an issue.
OneEach(free, list) ==
  \A t, u \in DOMAIN list, k \in Issues \ free :
    list[t].subject = k /\ list[u].subject = k => t = u

\* The task a mirror knows for an issue has no rival.
OnlyKnown(free, list, known) ==
  \A t \in DOMAIN list, k \in Issues \ free :
    list[t].subject = k /\ known[k] # Nobody => known[k] = t

(* The inductive invariant. *)

Me == mirrors[starts]

\* The team board.
TasksOK ==
  /\ Marked(moved, tasks)
  /\ OneEach(moved, tasks)
  /\ \A t \in DOMAIN tasks : tasks[t].by \in 0..starts
  /\ \A t, u \in DOMAIN tasks, k \in Issues \ moved :
       /\ t # u
       /\ tasks[t].origin = k /\ tasks[u].origin = k
       /\ tasks[t].by = tasks[u].by
       => tasks[t].by = Nobody

\* The current mirror knows the tasks in its charge, and for what.
KnownOK ==
  /\ \A k \in Issues : Me.known[k] \in 0..made
  /\ \A k \in Issues :
       Me.known[k] \in DOMAIN tasks => Fits(moved, k, tasks[Me.known[k]].origin)
  /\ OnlyKnown(moved, tasks, Me.known)
  /\ \A t \in DOMAIN tasks, k \in Issues \ moved :
       tasks[t].by = starts /\ tasks[t].origin = k => Me.known[k] = t

\* A listing that was answered but not bound yet: users may have removed
\* tasks and subjects since, and what they added is theirs.
ListedOK ==
  Me.cycle.pc = "listed" =>
    /\ DOMAIN Me.cycle.seen \subseteq 1..made
    /\ Marked(moved, Me.cycle.seen)
    /\ OneEach(moved, Me.cycle.seen)
    /\ OnlyKnown(moved, Me.cycle.seen, Me.known)
    /\ \A t \in DOMAIN tasks :
         IF t \in DOMAIN Me.cycle.seen THEN tasks[t].origin = Me.cycle.seen[t].origin
         ELSE tasks[t].origin = Other
    /\ \A t \in DOMAIN tasks, k \in Issues \ moved :
         tasks[t].subject = k => t \in DOMAIN Me.cycle.seen /\ Me.cycle.seen[t].subject = k

\* While the cycle writes, an issue without a bound task is claimed by none.
WritingOK ==
  Me.cycle.pc = "writing" =>
    /\ Me.cycle.bound = Me.known
    /\ \A t \in DOMAIN tasks, k \in Issues \ moved :
         tasks[t].subject = k => Me.known[k] = t

Inv == Shape /\ TasksOK /\ KnownOK /\ ListedOK /\ WritingOK

-----------------------------------------------------------------------------
(* Lists of tasks. *)

\* Lists are the functions from numbers to records.
LEMMA ListingIs ==
  /\ \A s \in Listings : s \in [DOMAIN s -> Record] /\ DOMAIN s \subseteq Nat
  /\ \A D : \A s \in [D -> Record] : D \subseteq Nat => s \in Listings /\ DOMAIN s = D
BY DEF Listings

\* Adding a task to a list, and taking one away.
LEMMA WithIs ==
  ASSUME NEW s \in Listings, NEW t \in Nat, NEW v \in Record
  PROVE  /\ With(s, t, v) \in Listings
         /\ DOMAIN With(s, t, v) = DOMAIN s \cup {t}
         /\ With(s, t, v)[t] = v
         /\ \A x \in DOMAIN s : x # t => With(s, t, v)[x] = s[x]
<1>1. s \in [DOMAIN s -> Record] /\ DOMAIN s \subseteq Nat
  BY ListingIs
<1>2. With(s, t, v) \in [DOMAIN s \cup {t} -> Record] /\ DOMAIN s \cup {t} \subseteq Nat
  BY <1>1 DEF With
<1>3. With(s, t, v) \in Listings /\ DOMAIN With(s, t, v) = DOMAIN s \cup {t}
  BY <1>2, ListingIs
<1> QED
  BY <1>3 DEF With

\* Adding a task to the team board.
LEMMA AddedIs ==
  ASSUME made \in Nat, tasks \in Listings, DOMAIN tasks \subseteq 1..made,
         NEW v \in Record, tasks' = With(tasks, made + 1, v)
  PROVE  /\ tasks' \in Listings /\ DOMAIN tasks' = DOMAIN tasks \cup {made + 1}
         /\ tasks'[made + 1] = v
         /\ \A x \in DOMAIN tasks : tasks'[x] = tasks[x]
<1> DEFINE new == made + 1
<1>1. new \in Nat /\ new \notin DOMAIN tasks
  OBVIOUS
<1>2. tasks' = With(tasks, new, v)
  OBVIOUS
<1> HIDE DEF new
<1>3. /\ tasks' \in Listings /\ DOMAIN tasks' = DOMAIN tasks \cup {new}
      /\ tasks'[new] = v
      /\ \A x \in DOMAIN tasks : x # new => tasks'[x] = tasks[x]
  <2>1. /\ With(tasks, new, v) \in Listings
        /\ DOMAIN With(tasks, new, v) = DOMAIN tasks \cup {new}
        /\ With(tasks, new, v)[new] = v
        /\ \A x \in DOMAIN tasks : x # new => With(tasks, new, v)[x] = tasks[x]
    BY <1>1, WithIs
  <2> QED
    BY <1>2, <2>1
<1> QED
  BY <1>1, <1>3 DEF new

LEMMA WithoutIs ==
  ASSUME NEW s \in Listings, NEW t
  PROVE  /\ Without(s, t) \in Listings
         /\ DOMAIN Without(s, t) = DOMAIN s \ {t}
         /\ \A x \in DOMAIN s \ {t} : Without(s, t)[x] = s[x]
<1>1. s \in [DOMAIN s -> Record] /\ DOMAIN s \subseteq Nat
  BY ListingIs
<1>2. Without(s, t) \in [DOMAIN s \ {t} -> Record] /\ DOMAIN s \ {t} \subseteq Nat
  BY <1>1 DEF Without
<1>3. Without(s, t) \in Listings /\ DOMAIN Without(s, t) = DOMAIN s \ {t}
  BY <1>2, ListingIs
<1> QED
  BY <1>3 DEF Without

\* The board is a board.
LEMMA BoardIs ==
  ASSUME run \in RunState
  PROVE  Board \in Boards
<1>1. run.issues \subseteq Issues
  BY DEF RunState
<1>2. \A c : teamBoardStatus(c) \in TaskStatus
  BY DEF teamBoardStatus, TaskStatus
<1>3. Board \in [run.issues -> TaskStatus]
  BY <1>2 DEF Board
<1> QED
  BY <1>1, <1>3 DEF Boards

\* A bounded set of numbers that is not empty has a last one.
LEMMA LastIs ==
  ASSUME NEW S \in SUBSET Nat, S # {}, NEW n \in Nat, \A x \in S : x <= n
  PROVE  \E x \in S : \A y \in S : y <= x
<1> DEFINE T == {n - x : x \in S}
<1>1. T \subseteq Nat /\ T # {}
  <2>1. \A x \in S : n - x \in Nat /\ n - x \in T
    OBVIOUS
  <2>2. PICK x \in S : TRUE
    OBVIOUS
  <2> QED
    BY <2>1, <2>2
<1>2. PICK t \in T : \A u \in T : ~(<<u, t>> \in OpToRel(<, Nat))
  <2> HIDE DEF T
  <2> QED
    BY <1>1, WFMin, NatLessThanWellFounded
<1>3. PICK x \in S : t = n - x
  OBVIOUS
<1>4. ASSUME NEW y \in S, ~(y <= x)
      PROVE  FALSE
  <2>1. n - y \in T /\ n - y < t /\ n - y \in Nat /\ t \in Nat
    BY <1>1, <1>3, <1>4
  <2> HIDE DEF T
  <2> QED
    BY <1>2, <2>1 DEF OpToRel
<1> QED
  BY <1>4

\* Claiming finds a task that claims the issue if there is one.
LEMMA ClaimingIs ==
  ASSUME NEW s, NEW n \in Nat, DOMAIN s \subseteq 1..n, NEW k \in Issues
  PROVE  /\ Claiming(s, k) # Nobody => Claiming(s, k) \in DOMAIN s /\ s[Claiming(s, k)].subject = k
         /\ Claiming(s, k) = Nobody => \A t \in DOMAIN s : s[t].subject # k
<1> DEFINE claims == {t \in DOMAIN s : s[t].subject = k}
<1>1. CASE claims = {}
  BY <1>1 DEF Claiming
<1>2. CASE claims # {}
  <2>1. claims \in SUBSET Nat /\ (\A c \in claims : c <= n) /\ Nobody \notin claims
    BY DEF Nobody
  <2> HIDE DEF claims
  <2>2. \E c \in claims : \A u \in claims : u <= c
    BY <1>2, <2>1, LastIs
  <2>3. Claiming(s, k) \in claims
    BY <1>2, <2>2 DEF Claiming, claims
  <2> QED
    BY <2>1, <2>3 DEF claims
<1> QED
  BY <1>1, <1>2

\* The values a mirror takes are mirrors.
LEMMA MirrorValues ==
  /\ Idle \in Cycle /\ Idle.pc = "idle"
  /\ Asked \in Cycle /\ Asked.pc = "asked"
  /\ Fresh \in Mirror /\ Fresh.known = Unbound /\ Fresh.cycle = Asked
<1>1. NoTasks \in Listings
  <2>1. NoTasks \in [{} -> Record] /\ {} \subseteq Nat
    BY DEF NoTasks
  <2> QED
    BY <2>1, ListingIs
<1>2. [k \in {} |-> ""] \in Boards
  <2>1. [k \in {} |-> ""] \in [{} -> TaskStatus] /\ {} \subseteq Issues
    OBVIOUS
  <2> QED
    BY <2>1 DEF Boards
<1>3. Unbound \in Bindings /\ Unbound \in Known
  BY DEF Unbound, Bindings, Known, OneToOne, Nobody
<1>4. Idle \in Cycle /\ Idle.pc = "idle"
  BY <1>1, <1>2, <1>3 DEF Idle, Cycle
<1>5. Asked \in Cycle /\ Asked.pc = "asked"
  BY <1>4 DEF Asked, Cycle
<1> QED
  BY <1>3, <1>4, <1>5 DEF Fresh, Mirror

-----------------------------------------------------------------------------
(* What is left alone stays true: a step that touches neither the team     *)
(* board nor what the current mirror knows, and ends its cycle or keeps it.*)

Calm ==
  /\ UNCHANGED <<tasks, made, starts, moved>>
  /\ Me'.known = Me.known
  /\ Me'.cycle = Me.cycle \/ Me'.cycle \in {Idle, Asked}

LEMMA CalmKeeps ==
  ASSUME Inv, Calm
  PROVE  TasksOK' /\ KnownOK' /\ ListedOK' /\ WritingOK'
<1>1. TasksOK' /\ KnownOK'
  BY DEF Inv, Calm, TasksOK, KnownOK
<1>2. CASE Me'.cycle = Me.cycle
  <2>1. Me'.cycle.pc = Me.cycle.pc /\ Me'.cycle.seen = Me.cycle.seen
        /\ Me'.cycle.bound = Me.cycle.bound /\ Me'.known = Me.known
        /\ tasks' = tasks /\ made' = made /\ moved' = moved
    BY <1>2 DEF Calm
  <2>2. ListedOK'
    BY <2>1 DEF Inv, ListedOK
  <2>3. WritingOK'
    BY <2>1 DEF Inv, WritingOK
  <2> QED
    BY <1>1, <2>2, <2>3
<1>3. CASE Me'.cycle \in {Idle, Asked}
  <2>1. Me'.cycle.pc \in {"idle", "asked"}
    BY <1>3, MirrorValues
  <2> QED
    BY <1>1, <2>1 DEF ListedOK, WritingOK
<1> QED
  BY <1>1, <1>2, <1>3 DEF Calm

LEMMA EndedIs ==
  ASSUME NEW m \in Mirror
  PROVE  /\ Ended(m) \in Mirror /\ Ended(m).known = m.known
         /\ Ended(m).cycle \in {Idle, Asked}
BY MirrorValues DEF Ended, Mirror

LEMMA NotifiedIs ==
  ASSUME NEW m \in Mirror
  PROVE  /\ Notified(m) \in Mirror /\ Notified(m).known = m.known
         /\ Notified(m).cycle \in {m.cycle, Asked}
BY MirrorValues DEF Notified, Mirror

\* Replacing the current mirror keeps the shape.
LEMMA ShapeKept ==
  ASSUME Shape, NEW me \in Mirror, starts' = starts, run' = run,
         mirrors' = [mirrors EXCEPT ![starts] = me],
         made' \in Nat, tasks' \in Listings, DOMAIN tasks' \subseteq 1..made'
  PROVE  Shape' /\ Me' = me
<1>1. starts \in 1..starts
  BY DEF Shape
<1> QED
  BY <1>1 DEF Shape, Me

LEMMA MeIsMirror ==
  ASSUME Shape
  PROVE  Me \in Mirror /\ starts \in 1..starts
BY DEF Shape, Me

-----------------------------------------------------------------------------
(* The steps. *)

LEMMA InitInv ==
  ASSUME Init
  PROVE  Inv
<1>1. run \in RunState
  BY DEF Init, RunState, Pending
<1>2. NoTasks \in Listings /\ DOMAIN NoTasks = {}
  <2>1. NoTasks \in [{} -> Record] /\ {} \subseteq Nat
    BY DEF NoTasks
  <2> QED
    BY <2>1, ListingIs
<1>3. starts = 1 /\ mirrors = [m \in 1..1 |-> Fresh] /\ tasks = NoTasks /\ made = 0
  BY DEF Init
<1>4. mirrors \in [1..starts -> Mirror]
  BY <1>3, MirrorValues
<1>5. Shape
  BY <1>1, <1>2, <1>3, <1>4 DEF Shape
<1>6. Me = Fresh
  BY <1>3 DEF Me
<1>7. Me.known = Unbound /\ Me.cycle.pc = "asked"
  BY <1>6, MirrorValues
<1>8. TasksOK
  BY <1>2, <1>3 DEF TasksOK, Marked, OneEach
<1>9. KnownOK
  BY <1>2, <1>3, <1>7 DEF KnownOK, OnlyKnown, Unbound, Nobody
<1> QED
  BY <1>5, <1>7, <1>8, <1>9 DEF Inv, ListedOK, WritingOK

\* The writes of the ledger leave the mirror alone.
LEMMA WriteShape ==
  ASSUME run \in RunState, Write
  PROVE  run' \in RunState
<1> USE DEF RunState, Becomes, Pending
<1>1. CASE \E s \in SUBSET Issues \ {{}} :
             Becomes([status |-> "EXECUTING", issues |-> s, exec |-> Pending])
  BY <1>1
<1>2. CASE \E k \in run.issues :
             \/ /\ run.exec[k] = "pending"
                /\ Becomes([run EXCEPT !.exec[k] = "running"])
             \/ /\ run.exec[k] = "running"
                /\ \E e \in {"done", "failed"} : Becomes([run EXCEPT !.exec[k] = e])
  BY <1>2
<1>3. CASE Becomes([run EXCEPT !.status = "INTEGRATION_REVIEW"])
  BY <1>3
<1>4. CASE Becomes([run EXCEPT !.status = "ACCEPTED"])
  BY <1>4
<1>5. CASE Becomes([run EXCEPT !.status = "PLANNING", !.exec = Pending])
  BY <1>5
<1>6. CASE Becomes([run EXCEPT !.status = "CANCELLED"])
  BY <1>6
<1>7. CASE Becomes([status |-> "DELETED", issues |-> {}, exec |-> Pending])
  BY <1>7
<1> QED
  BY <1>1, <1>2, <1>3, <1>4, <1>5, <1>6, <1>7 DEF Write

LEMMA WriteKeeps ==
  ASSUME Inv, Write
  PROVE  Inv'
<1>1. UNCHANGED <<tasks, mirrors, starts, made, moved>>
  BY DEF Write
<1>2. Me' = Me
  BY <1>1 DEF Me
<1>3. Shape'
  BY <1>1, WriteShape DEF Inv, Shape
<1>4. Calm
  BY <1>1, <1>2 DEF Calm
<1> QED
  BY <1>3, <1>4, CalmKeeps DEF Inv

\* A notification starts a cycle at most.
LEMMA NotifyKeeps ==
  ASSUME Inv, Notify
  PROVE  Inv'
<1>1. UNCHANGED <<run, tasks, starts, made, moved>>
      /\ mirrors' = [mirrors EXCEPT ![starts] = Notified(Me)]
  BY DEF Notify, Me, bounds
<1>2. Notified(Me) \in Mirror /\ Notified(Me).known = Me.known
      /\ Notified(Me).cycle \in {Me.cycle, Asked}
  BY MeIsMirror, NotifiedIs DEF Inv
<1>3. Shape' /\ Me' = Notified(Me)
  <2>1. made' \in Nat /\ tasks' \in Listings /\ DOMAIN tasks' \subseteq 1..made'
    BY <1>1 DEF Inv, Shape
  <2> QED
    BY <1>1, <1>2, <2>1, ShapeKept DEF Inv
<1>4. Calm
  BY <1>1, <1>2, <1>3 DEF Calm
<1> QED
  BY <1>3, <1>4, CalmKeeps DEF Inv

\* Only the current mirror has a cycle.
LEMMA OnlyMe ==
  ASSUME Shape, NEW m \in 1..starts, mirrors[m].cycle.pc # "idle"
  PROVE  m = starts /\ mirrors[m] = Me
BY DEF Shape, Me

\* The team board lists its tasks.
LEMMA ListKeeps ==
  ASSUME Inv, NEW m \in 1..starts, List(m)
  PROVE  Inv'
<1>1. m = starts /\ mirrors[m] = Me
  BY OnlyMe DEF Inv, List
<1> DEFINE me == [Me EXCEPT !.cycle = [@ EXCEPT !.pc = "listed", !.seen = tasks]]
<1>2. UNCHANGED <<run, tasks, starts, made, moved>> /\ mirrors' = [mirrors EXCEPT ![starts] = me]
  BY <1>1 DEF List, bounds
<1>3. me \in Mirror /\ me.known = Me.known /\ me.cycle.pc = "listed" /\ me.cycle.seen = tasks
  <2>1. Me \in Mirror /\ tasks \in Listings
    BY MeIsMirror DEF Inv, Shape
  <2> QED
    BY <2>1 DEF Mirror, Cycle
<1> HIDE DEF me
<1>4. Shape' /\ Me' = me
  <2>1. made' \in Nat /\ tasks' \in Listings /\ DOMAIN tasks' \subseteq 1..made'
    BY <1>2 DEF Inv, Shape
  <2> QED
    BY <1>2, <1>3, <2>1, ShapeKept DEF Inv
<1>5. tasks' = tasks /\ made' = made /\ starts' = starts /\ moved' = moved
      /\ Me'.known = Me.known /\ Me'.cycle.pc = "listed" /\ Me'.cycle.seen = tasks
  BY <1>2, <1>3, <1>4
<1>6. TasksOK' /\ KnownOK'
  BY <1>5 DEF Inv, TasksOK, KnownOK
<1>7. ListedOK'
  BY <1>5 DEF Inv, Shape, TasksOK, KnownOK, ListedOK
<1>8. WritingOK'
  BY <1>5 DEF WritingOK
<1> QED
  BY <1>4, <1>6, <1>7, <1>8 DEF Inv

\* What the binding of a listing finds for an issue: the task that claims it,
\* or the task the mirror knew, or nothing, and then nobody claims it.
LEMMA BoundIs ==
  ASSUME Inv, Me.cycle.pc = "listed", NEW k \in Issues
  PROVE  LET b == BoundTo(Me.cycle.seen, Me.known, k)
         IN  /\ b \in 0..made
             /\ b \in DOMAIN tasks => Fits(moved, k, tasks[b].origin)
             /\ k \notin moved =>
                  /\ \A t \in DOMAIN tasks : tasks[t].subject = k => b = t
                  /\ Me.known[k] \in DOMAIN tasks => b = Me.known[k]
<1> DEFINE seen == Me.cycle.seen
<1> DEFINE c == Claiming(seen, k)
<1> DEFINE b == BoundTo(seen, Me.known, k)
<1>1. made \in Nat /\ DOMAIN seen \subseteq 1..made /\ k # Other
      /\ DOMAIN tasks \subseteq 1..made /\ Nobody = 0
  BY IssuesAssumption DEF Inv, Shape, ListedOK, Nobody
<1>2. /\ Marked(moved, seen) /\ OneEach(moved, seen) /\ OnlyKnown(moved, seen, Me.known)
      /\ \A t \in DOMAIN tasks :
           IF t \in DOMAIN seen THEN tasks[t].origin = seen[t].origin ELSE tasks[t].origin = Other
      /\ \A t \in DOMAIN tasks, j \in Issues \ moved :
           tasks[t].subject = j => t \in DOMAIN seen /\ seen[t].subject = j
  BY DEF Inv, ListedOK
<1>3. /\ c # Nobody => c \in DOMAIN seen /\ seen[c].subject = k
      /\ c = Nobody => \A t \in DOMAIN seen : seen[t].subject # k
  <2> HIDE DEF seen
  <2> QED
    BY <1>1, ClaimingIs
<1>4. /\ Me.known[k] \in 0..made
      /\ Me.known[k] \in DOMAIN tasks => Fits(moved, k, tasks[Me.known[k]].origin)
  BY DEF Inv, KnownOK
<1>5. CASE c # Nobody
  <2>1. b = c
    BY <1>5 DEF BoundTo
  <2>2. Fits(moved, k, seen[c].origin)
    BY <1>1, <1>2, <1>3, <1>5 DEF Marked
  <2>3. ASSUME k \notin moved, NEW t \in DOMAIN tasks, tasks[t].subject = k
        PROVE  t = c
    BY <1>2, <1>3, <1>5, <2>3 DEF OneEach
  <2>4. ASSUME k \notin moved, Me.known[k] \in DOMAIN tasks
        PROVE  c = Me.known[k]
    BY <1>1, <1>2, <1>3, <1>5, <2>4 DEF OnlyKnown
  <2> QED
    BY <1>1, <1>2, <1>3, <1>5, <2>1, <2>2, <2>3, <2>4
<1>6. CASE c = Nobody /\ Me.known[k] \in DOMAIN seen /\ seen[Me.known[k]].subject = Other
  <2>1. b = Me.known[k]
    BY <1>6 DEF BoundTo
  <2>2. ASSUME k \notin moved, NEW t \in DOMAIN tasks, tasks[t].subject = k
        PROVE  FALSE
    BY <1>2, <1>3, <1>6, <2>2
  <2> QED
    BY <1>4, <2>1, <2>2
<1>7. CASE c = Nobody /\ ~(Me.known[k] \in DOMAIN seen /\ seen[Me.known[k]].subject = Other)
  <2>1. b = Nobody
    BY <1>7 DEF BoundTo
  <2>2. ASSUME k \notin moved, NEW t \in DOMAIN tasks, tasks[t].subject = k
        PROVE  FALSE
    BY <1>2, <1>3, <1>7, <2>2
  <2>3. ASSUME k \notin moved, Me.known[k] \in DOMAIN tasks
        PROVE  FALSE
    <3>1. tasks[Me.known[k]].origin = k
      BY <1>1, <1>4, <2>3 DEF Fits
    <3>2. Me.known[k] \in DOMAIN seen /\ seen[Me.known[k]].origin = k
      BY <1>1, <1>2, <2>3, <3>1
    <3>3. seen[Me.known[k]].subject = k
      BY <1>1, <1>2, <1>7, <2>3, <3>2 DEF Marked, Fits
    <3> QED
      BY <1>3, <1>7, <3>2, <3>3
  <2> QED
    BY <1>1, <2>1, <2>2, <2>3
<1> QED
  BY <1>5, <1>6, <1>7

\* No task is bound to two issues: a listed task claims one issue at most, and
\* one that claims none is the one the mirror knew for an issue.
LEMMA BoundOneToOne ==
  ASSUME Inv, Me.cycle.pc = "listed"
  PROVE  OneToOne([k \in Issues |-> BoundTo(Me.cycle.seen, Me.known, k)])
<1> DEFINE seen == Me.cycle.seen
<1> DEFINE b(k) == BoundTo(seen, Me.known, k)
<1>1. made \in Nat /\ DOMAIN seen \subseteq 1..made /\ Other \notin Issues
  BY IssuesAssumption DEF Inv, Shape, ListedOK
<1>2. \A k \in Issues :
        Claiming(seen, k) # Nobody => seen[Claiming(seen, k)].subject = k
  <2> HIDE DEF seen
  <2> QED
    BY <1>1, ClaimingIs
<1>3. ASSUME NEW k \in Issues, b(k) # Nobody
      PROVE  seen[b(k)].subject = k \/ (seen[b(k)].subject = Other /\ b(k) = Me.known[k])
  BY <1>2, <1>3 DEF BoundTo
<1>4. OneToOne(Me.known)
  BY MeIsMirror DEF Inv, Mirror, Known
<1>5. ASSUME NEW j \in Issues, NEW k \in Issues, j # k, b(j) = b(k), b(j) # Nobody
      PROVE  FALSE
  <2> HIDE DEF b, seen
  <2> QED
    BY <1>1, <1>3, <1>4, <1>5 DEF OneToOne
<1> HIDE DEF b
<1>6. OneToOne([k \in Issues |-> b(k)])
  BY <1>5 DEF OneToOne
<1> QED
  BY <1>6 DEF b

\* Binding: the tasks the mirror knows are in its charge from here on.
LEMMA BindKeeps ==
  ASSUME Inv, NEW m \in 1..starts, Bind(m)
  PROVE  Inv'
<1>1. m = starts /\ mirrors[m] = Me /\ Me.cycle.pc = "listed"
  <2>1. mirrors[m].cycle.pc = "listed"
    BY DEF Bind
  <2> QED
    BY <2>1, OnlyMe DEF Inv
<1> DEFINE bound == [k \in Issues |-> BoundTo(Me.cycle.seen, Me.known, k)]
<1> DEFINE me == [Me EXCEPT !.known = bound,
                            !.cycle = [@ EXCEPT !.pc = "writing", !.bound = bound, !.cards = Board]]
<1>2. /\ UNCHANGED <<run, starts, made, moved>> /\ mirrors' = [mirrors EXCEPT ![starts] = me]
      /\ tasks' = [t \in DOMAIN tasks |->
                     IF \E k \in Issues : bound[k] = t THEN [tasks[t] EXCEPT !.by = starts]
                     ELSE tasks[t]]
  BY <1>1 DEF Bind, bounds
<1>3. \A k \in Issues :
        /\ bound[k] \in 0..made
        /\ bound[k] \in DOMAIN tasks => Fits(moved, k, tasks[bound[k]].origin)
        /\ k \notin moved =>
             /\ \A t \in DOMAIN tasks : tasks[t].subject = k => bound[k] = t
             /\ Me.known[k] \in DOMAIN tasks => bound[k] = Me.known[k]
  BY <1>1, BoundIs
<1>4. DOMAIN bound = Issues
  OBVIOUS
<1>5. made \in Nat /\ starts \in Nat \ {0} /\ tasks \in [DOMAIN tasks -> Record]
      /\ DOMAIN tasks \subseteq 1..made /\ Other \notin Issues
  BY ListingIs, IssuesAssumption DEF Inv, Shape
<1>6. bound \in Bindings /\ bound \in Known
  <2>1. bound \in Bindings
    BY <1>3, <1>5 DEF Bindings
  <2>2. OneToOne(bound)
    BY <1>1, BoundOneToOne
  <2> QED
    BY <2>1, <2>2 DEF Known
<1> HIDE DEF bound
<1>7. me \in Mirror /\ me.known = bound /\ me.cycle.pc = "writing" /\ me.cycle.bound = bound
  <2>1. Me \in Mirror /\ Board \in Boards
    BY MeIsMirror, BoardIs DEF Inv, Shape
  <2> QED
    BY <1>6, <2>1 DEF Mirror, Cycle
<1> HIDE DEF me
<1>8. tasks' \in [DOMAIN tasks -> Record] /\ DOMAIN tasks' = DOMAIN tasks
  BY <1>2, <1>5 DEF Record
<1>9. Shape' /\ Me' = me
  <2>1. made' \in Nat /\ tasks' \in Listings /\ DOMAIN tasks' \subseteq 1..made'
    <3>1. DOMAIN tasks \subseteq Nat
      BY <1>5
    <3> QED
      BY <1>2, <1>5, <1>8, <3>1, ListingIs
  <2> QED
    BY <1>2, <1>7, <2>1, ShapeKept DEF Inv
<1>10. \A t \in DOMAIN tasks :
         /\ tasks'[t].subject = tasks[t].subject /\ tasks'[t].origin = tasks[t].origin
         /\ tasks'[t].by = IF \E k \in Issues : bound[k] = t THEN starts ELSE tasks[t].by
  BY <1>2, <1>5 DEF Record
<1>11. \A t \in DOMAIN tasks, j \in Issues \ moved :
         tasks'[t].by = starts /\ tasks[t].origin = j => bound[j] = t
  <2>1. SUFFICES ASSUME NEW t \in DOMAIN tasks, NEW j \in Issues \ moved,
                        tasks'[t].by = starts, tasks[t].origin = j
                 PROVE  bound[j] = t
    OBVIOUS
  <2>2. CASE \E k \in Issues : bound[k] = t
    BY <1>3, <1>5, <2>1, <2>2 DEF Fits
  <2>3. CASE ~\E k \in Issues : bound[k] = t
    <3>1. tasks[t].by = starts
      BY <1>10, <2>1, <2>3
    <3>2. Me.known[j] = t
      BY <2>1, <3>1 DEF Inv, KnownOK
    <3> QED
      BY <1>3, <3>2
  <2> QED
    BY <2>2, <2>3
<1>12. TasksOK'
  <2>1. Marked(moved, tasks') /\ OneEach(moved, tasks')
    BY <1>8, <1>10 DEF Inv, TasksOK, Marked, OneEach
  <2>2. \A t \in DOMAIN tasks' : tasks'[t].by \in 0..starts
    BY <1>5, <1>8, <1>10 DEF Inv, TasksOK
  <2>3. ASSUME NEW t \in DOMAIN tasks', NEW u \in DOMAIN tasks', NEW k \in Issues \ moved,
               t # u, tasks'[t].origin = k, tasks'[u].origin = k, tasks'[t].by = tasks'[u].by
        PROVE  tasks'[t].by = Nobody
    <3>1. t \in DOMAIN tasks /\ u \in DOMAIN tasks /\ tasks[t].origin = k /\ tasks[u].origin = k
      BY <1>8, <1>10, <2>3
    <3>2. tasks'[t].by # starts
      BY <1>11, <2>3, <3>1
    <3>3. tasks[t].by = tasks'[t].by /\ tasks[u].by = tasks'[u].by
      BY <1>10, <2>3, <3>1, <3>2
    <3> QED
      BY <2>3, <3>1, <3>3 DEF Inv, TasksOK
  <2> QED
    BY <1>2, <2>1, <2>2, <2>3 DEF TasksOK
<1>13. KnownOK'
  <2>1. Me'.known = bound /\ made' = made /\ starts' = starts /\ moved' = moved
    BY <1>2, <1>7, <1>9
  <2>2. OnlyKnown(moved, tasks', bound)
    BY <1>3, <1>8, <1>10 DEF OnlyKnown
  <2>3. \A k \in Issues : bound[k] \in DOMAIN tasks' => Fits(moved, k, tasks'[bound[k]].origin)
    BY <1>3, <1>8, <1>10
  <2>4. \A t \in DOMAIN tasks', k \in Issues \ moved :
          tasks'[t].by = starts /\ tasks'[t].origin = k => bound[k] = t
    BY <1>8, <1>10, <1>11
  <2> QED
    BY <1>3, <2>1, <2>2, <2>3, <2>4 DEF KnownOK
<1>14. ListedOK'
  BY <1>7, <1>9 DEF ListedOK
<1>15. WritingOK'
  <2>1. \A t \in DOMAIN tasks', k \in Issues \ moved : tasks'[t].subject = k => bound[k] = t
    BY <1>3, <1>8, <1>10
  <2> QED
    BY <1>2, <1>7, <1>9, <2>1 DEF WritingOK
<1> QED
  BY <1>9, <1>12, <1>13, <1>14, <1>15 DEF Inv

\* While the cycle writes, it knows what it has bound.
LEMMA WritingIs ==
  ASSUME Inv, NEW m \in 1..starts, Writing(m)
  PROVE  /\ m = starts /\ mirrors[m] = Me /\ Me.cycle.pc = "writing"
         /\ Me.cycle.bound = Me.known
         /\ \A t \in DOMAIN tasks, k \in Issues \ moved :
              tasks[t].subject = k => Me.known[k] = t
         /\ DOMAIN Me.cycle.cards \subseteq Issues
<1>1. mirrors[m].cycle.pc = "writing"
  BY DEF Writing
<1>2. m = starts /\ mirrors[m] = Me
  BY <1>1, OnlyMe DEF Inv
<1>3. Me.cycle.cards \in Boards
  BY MeIsMirror DEF Inv, Mirror, Cycle
<1> QED
  BY <1>1, <1>2, <1>3 DEF Inv, WritingOK, Boards

\* A new task for an issue that the mirror knows no task of, in the charge of
\* the mirror, which then knows it, or of nobody.
LEMMA CreatedKeeps ==
  ASSUME Inv, NEW k \in Issues, NEW by \in {Nobody, starts},
         \A t \in DOMAIN tasks, j \in Issues \ moved :
           tasks[t].subject = j => Me.known[j] = t,
         Me.known[k] = Nobody,
         starts' = starts, moved' = moved, made' = made + 1,
         tasks' = With(tasks, made + 1, NewTask(k, by)),
         Me'.known = IF by = Nobody THEN Me.known ELSE [Me.known EXCEPT ![k] = made + 1]
  PROVE  /\ made' \in Nat /\ tasks' \in Listings /\ DOMAIN tasks' \subseteq 1..made'
         /\ TasksOK' /\ KnownOK'
<1> DEFINE new == made + 1
<1>1. made \in Nat /\ starts \in Nat \ {0} /\ tasks \in Listings /\ DOMAIN tasks \subseteq 1..made
      /\ new \in Nat /\ new \notin DOMAIN tasks /\ Nobody = 0 /\ k # Other
  BY IssuesAssumption DEF Inv, Shape, Nobody
<1>2. NewTask(k, by) \in Record
  BY <1>1 DEF NewTask, Record, TaskStatus
<1>3. /\ tasks' \in Listings /\ DOMAIN tasks' = DOMAIN tasks \cup {new}
      /\ tasks'[new] = NewTask(k, by)
      /\ \A x \in DOMAIN tasks : tasks'[x] = tasks[x]
  <2> DEFINE v == NewTask(k, by)
  <2>1. tasks' = With(tasks, made + 1, v) /\ v \in Record
    BY <1>2
  <2> HIDE DEF v
  <2>2. /\ tasks' \in Listings /\ DOMAIN tasks' = DOMAIN tasks \cup {made + 1}
        /\ tasks'[made + 1] = v
        /\ \A x \in DOMAIN tasks : tasks'[x] = tasks[x]
    BY <1>1, <2>1, AddedIs
  <2> QED
    BY <2>2 DEF v
<1>4. tasks'[new].subject = k /\ tasks'[new].origin = k /\ tasks'[new].by = by
  BY <1>3 DEF NewTask
<1>5. Me.known \in Bindings
  BY MeIsMirror DEF Inv, Mirror, Known
<1>6. /\ \A j \in Issues : j # k => Me'.known[j] = Me.known[j]
      /\ by = Nobody => Me'.known[k] = Nobody
      /\ by = starts => Me'.known[k] = new
  BY <1>1, <1>5 DEF Bindings
<1>7. \A t \in DOMAIN tasks : t # Nobody
  BY <1>1
<1>8. k \notin moved => \A t \in DOMAIN tasks :
        tasks[t].subject # k /\ (tasks[t].by = starts => tasks[t].origin # k)
  BY <1>1, <1>7 DEF Inv, KnownOK
<1>9. TasksOK'
  <2>1. Marked(moved, tasks')
    BY <1>3, <1>4 DEF Inv, TasksOK, Marked, Fits
  <2>2. OneEach(moved, tasks')
    BY <1>3, <1>4, <1>8 DEF Inv, TasksOK, OneEach
  <2>3. \A t \in DOMAIN tasks' : tasks'[t].by \in 0..starts
    BY <1>1, <1>3, <1>4 DEF Inv, TasksOK
  <2>4. ASSUME NEW t \in DOMAIN tasks', NEW u \in DOMAIN tasks', NEW j \in Issues \ moved,
               t # u, tasks'[t].origin = j, tasks'[u].origin = j, tasks'[t].by = tasks'[u].by
        PROVE  tasks'[t].by = Nobody
    <3>1. CASE t \in DOMAIN tasks /\ u \in DOMAIN tasks
      BY <1>3, <2>4, <3>1 DEF Inv, TasksOK
    <3>2. CASE t = new /\ u \in DOMAIN tasks
      BY <1>1, <1>3, <1>4, <1>8, <2>4, <3>2
    <3>3. CASE u = new /\ t \in DOMAIN tasks
      BY <1>1, <1>3, <1>4, <1>8, <2>4, <3>3
    <3> QED
      BY <1>3, <2>4, <3>1, <3>2, <3>3
  <2> QED
    BY <2>1, <2>2, <2>3, <2>4 DEF TasksOK
<1>10. KnownOK'
  <2>1. \A j \in Issues : Me'.known[j] \in 0..made'
    BY <1>1, <1>6 DEF Inv, KnownOK
  <2>2. ASSUME NEW j \in Issues, Me'.known[j] \in DOMAIN tasks'
        PROVE  Fits(moved, j, tasks'[Me'.known[j]].origin)
    <3>1. CASE j = k
      BY <1>1, <1>3, <1>4, <1>6, <2>2, <3>1 DEF Fits
    <3>2. CASE j # k
      <4>1. Me.known[j] \in 0..made
        BY DEF Inv, KnownOK
      <4>2. Me.known[j] \in DOMAIN tasks
        BY <1>1, <1>3, <1>6, <2>2, <3>2, <4>1
      <4>3. tasks'[Me'.known[j]] = tasks[Me.known[j]]
        BY <1>3, <1>6, <3>2, <4>2
      <4> QED
        BY <4>2, <4>3 DEF Inv, KnownOK
    <3> QED
      BY <3>1, <3>2
  <2>3. OnlyKnown(moved, tasks', Me'.known)
    <3>1. SUFFICES ASSUME NEW t \in DOMAIN tasks', NEW j \in Issues \ moved,
                          tasks'[t].subject = j, Me'.known[j] # Nobody
                   PROVE  Me'.known[j] = t
      BY DEF OnlyKnown
    <3>2. CASE t = new
      BY <1>4, <1>6, <3>1, <3>2
    <3>3. CASE t \in DOMAIN tasks
      BY <1>3, <1>6, <1>8, <3>1, <3>3
    <3> QED
      BY <1>3, <3>2, <3>3
  <2>4. \A t \in DOMAIN tasks', j \in Issues \ moved :
          tasks'[t].by = starts' /\ tasks'[t].origin = j => Me'.known[j] = t
    BY <1>1, <1>3, <1>4, <1>6, <1>8 DEF Inv, KnownOK
  <2> QED
    BY <2>1, <2>2, <2>3, <2>4 DEF KnownOK
<1> QED
  BY <1>1, <1>3, <1>9, <1>10

\* The creation of a missing task.
LEMMA CreateKeeps ==
  ASSUME Inv, NEW m \in 1..starts, Create(m)
  PROVE  Inv'
<1>1. /\ m = starts /\ mirrors[m] = Me /\ Me.cycle.pc = "writing" /\ Me.cycle.bound = Me.known
      /\ \A t \in DOMAIN tasks, k \in Issues \ moved : tasks[t].subject = k => Me.known[k] = t
      /\ DOMAIN Me.cycle.cards \subseteq Issues
  BY WritingIs DEF Create
<1>2. PICK k \in Missing(Me.cycle) :
        /\ tasks' = With(tasks, made + 1, NewTask(k, starts))
        /\ mirrors' = [mirrors EXCEPT ![starts].known[k] = made + 1,
                         ![starts].cycle.bound[k] = made + 1,
                         ![starts].cycle.seen = With(@, made + 1, NewTask(k, starts))]
  BY <1>1 DEF Create
<1>3. k \in Issues /\ Me.known[k] = Nobody
  BY <1>1 DEF Missing
<1>4. /\ made \in Nat /\ starts \in Nat \ {0} /\ Nobody = 0 /\ Me \in Mirror
      /\ made' = made + 1 /\ run' = run /\ starts' = starts /\ moved' = moved
      /\ DOMAIN tasks \subseteq 1..made
  BY MeIsMirror DEF Inv, Shape, Nobody, Create, bounds
<1> DEFINE new == made + 1
<1> DEFINE seen == With(Me.cycle.seen, new, NewTask(k, starts))
<1> DEFINE me == [Me EXCEPT !.known[k] = new, !.cycle.bound[k] = new, !.cycle.seen = seen]
<1>5. mirrors' = [mirrors EXCEPT ![starts] = me]
  BY <1>2 DEF Me
<1>6. seen \in Listings
  <2>1. NewTask(k, starts) \in Record /\ new \in Nat
    BY <1>3, <1>4 DEF NewTask, Record, TaskStatus
  <2>2. Me.cycle.seen \in Listings
    BY <1>4 DEF Mirror, Cycle
  <2> HIDE DEF new
  <2> QED
    BY <2>1, <2>2, WithIs
<1> HIDE DEF seen
<1>7. /\ me \in Mirror /\ me.known = [Me.known EXCEPT ![k] = new]
      /\ me.cycle.bound = [Me.cycle.bound EXCEPT ![k] = new] /\ me.cycle.pc = Me.cycle.pc
  <2>1. new \in Nat /\ \A j \in Issues : Me.known[j] # new
    BY <1>4 DEF Inv, KnownOK
  <2> HIDE DEF new
  <2> DEFINE known == [Me.known EXCEPT ![k] = new]
  <2>2. known \in Known
    <3>1. Me.known \in Bindings /\ OneToOne(Me.known)
      BY <1>4 DEF Mirror, Known
    <3>2. known \in Bindings
      BY <2>1, <3>1 DEF Bindings
    <3>3. OneToOne(known)
      BY <1>3, <2>1, <3>1 DEF OneToOne, Bindings
    <3> QED
      BY <3>2, <3>3 DEF Known
  <2>3. me = [Me EXCEPT !.known = known, !.cycle.bound[k] = new, !.cycle.seen = seen]
    <3>1. Me.known \in Bindings
      BY <1>4 DEF Mirror, Known
    <3> QED
      BY <1>4, <3>1 DEF Mirror
  <2>4. [Me.cycle.bound EXCEPT ![k] = new] \in Bindings
    BY <1>4, <2>1 DEF Mirror, Cycle, Bindings
  <2> HIDE DEF me, known
  <2>5. /\ me \in Mirror /\ me.known = known
        /\ me.cycle.bound = [Me.cycle.bound EXCEPT ![k] = new] /\ me.cycle.pc = Me.cycle.pc
    BY <1>4, <1>6, <2>2, <2>3, <2>4 DEF Mirror, Cycle
  <2> QED
    BY <2>5 DEF known
<1> HIDE DEF me
<1>8. \A t \in DOMAIN tasks, j \in Issues \ moved : tasks[t].subject = j => j # k
  <2>1. Nobody \notin DOMAIN tasks
    BY <1>4
  <2> QED
    BY <1>1, <1>3, <2>1
<1>9. Me' = me
  BY <1>4, <1>5 DEF Me, Inv, Shape
<1>10. /\ made' \in Nat /\ tasks' \in Listings /\ DOMAIN tasks' \subseteq 1..made'
       /\ TasksOK' /\ KnownOK'
  <2>1. starts # Nobody
    BY <1>4
  <2>2. Me'.known = IF starts = Nobody THEN Me.known ELSE [Me.known EXCEPT ![k] = made + 1]
    BY <1>7, <1>9, <2>1
  <2> QED
    BY <1>1, <1>2, <1>3, <1>4, <2>2, CreatedKeeps
<1>11. Shape'
  BY <1>4, <1>5, <1>7, <1>10, ShapeKept DEF Inv
<1>12. ListedOK'
  BY <1>1, <1>7, <1>9 DEF ListedOK
<1>13. WritingOK'
  <2>1. tasks \in Listings /\ new \in Nat /\ NewTask(k, starts) \in Record
    BY <1>3, <1>4 DEF NewTask, Record, TaskStatus, Inv, Shape
  <2>2. /\ DOMAIN tasks' = DOMAIN tasks \cup {new} /\ tasks'[new] = NewTask(k, starts)
        /\ \A x \in DOMAIN tasks : x # new => tasks'[x] = tasks[x]
    <3> HIDE DEF new
    <3>1. tasks' = With(tasks, new, NewTask(k, starts))
      BY <1>2 DEF new
    <3> QED
      BY <2>1, <3>1, WithIs
  <2>3. tasks'[new].subject = k
    BY <2>2 DEF NewTask
  <2>4. Me.known \in Bindings
    BY <1>4 DEF Mirror, Known
  <2>5. Me'.known[k] = new /\ \A j \in Issues : j # k => Me'.known[j] = Me.known[j]
    BY <1>3, <1>7, <1>9, <2>4 DEF Bindings
  <2>6. \A t \in DOMAIN tasks', j \in Issues \ moved : tasks'[t].subject = j => Me'.known[j] = t
    BY <1>1, <1>8, <2>2, <2>3, <2>5
  <2> QED
    BY <1>1, <1>4, <1>7, <1>9, <2>6 DEF WritingOK
<1> QED
  BY <1>10, <1>11, <1>12, <1>13 DEF Inv

\* Tasks that are gone, have lost their subject or are in nobody's charge any
\* more do not disturb the others, nor do tasks that users made or marked for
\* an issue.
Weaker ==
  /\ starts' = starts /\ made' \in Nat /\ made' >= made
  /\ moved \subseteq moved'
  /\ DOMAIN tasks' \subseteq DOMAIN tasks \cup (made + 1)..made'
  /\ \A t \in DOMAIN tasks' :
       IF t \in DOMAIN tasks
       THEN /\ tasks'[t].origin = tasks[t].origin
            /\ tasks'[t].by \in {tasks[t].by, Nobody}
            /\ \/ tasks'[t].subject \in {tasks[t].subject, Other}
               \/ tasks'[t].subject \in moved' /\ tasks[t].origin \in moved' \cup {Other}
       ELSE /\ tasks'[t].origin = Other
            /\ tasks'[t].by = Nobody
            /\ tasks'[t].subject \in moved'
  /\ \A k \in Issues :
       \/ Me'.known[k] = Me.known[k]
       \/ /\ Me'.known[k] = Nobody
          /\ k \notin moved =>
               \A t \in DOMAIN tasks' : tasks'[t].by = starts => tasks'[t].origin # k

\* A marker that users have not moved is where it was.
LEMMA StillClaims ==
  ASSUME Weaker, NEW k \in Issues \ moved', NEW t \in DOMAIN tasks', tasks'[t].subject = k
  PROVE  t \in DOMAIN tasks /\ tasks[t].subject = k /\ k \notin moved
BY IssuesAssumption DEF Weaker

LEMMA WeakerKeeps ==
  ASSUME Inv, Weaker
  PROVE  TasksOK' /\ KnownOK'
<1>1. made \in Nat /\ starts \in Nat \ {0} /\ Nobody = 0 /\ Nobody \notin DOMAIN tasks'
      /\ DOMAIN tasks \subseteq 1..made /\ Other \notin Issues
  BY IssuesAssumption DEF Inv, Shape, Nobody, Weaker
<1>2. TasksOK'
  <2>1. Marked(moved', tasks')
    BY DEF Weaker, Inv, TasksOK, Marked, Fits
  <2>2. OneEach(moved', tasks')
    BY StillClaims DEF Inv, TasksOK, OneEach
  <2>3. \A t \in DOMAIN tasks' : tasks'[t].by \in 0..starts
    BY <1>1 DEF Weaker, Inv, TasksOK
  <2>4. ASSUME NEW t \in DOMAIN tasks', NEW u \in DOMAIN tasks', NEW k \in Issues \ moved',
               t # u, tasks'[t].origin = k, tasks'[u].origin = k, tasks'[t].by = tasks'[u].by
        PROVE  tasks'[t].by = Nobody
    <3>1. k \notin moved /\ k # Other
      BY <1>1 DEF Weaker
    <3>2. /\ t \in DOMAIN tasks /\ tasks[t].origin = k /\ tasks'[t].by \in {tasks[t].by, Nobody}
          /\ u \in DOMAIN tasks /\ tasks[u].origin = k /\ tasks'[u].by \in {tasks[u].by, Nobody}
      BY <2>4, <3>1 DEF Weaker
    <3> QED
      BY <2>4, <3>1, <3>2 DEF Inv, TasksOK
  <2> QED
    BY <2>1, <2>2, <2>3, <2>4 DEF Weaker, TasksOK
<1>3. KnownOK'
  <2>1. \A k \in Issues : Me'.known[k] \in 0..made'
    BY <1>1 DEF Weaker, Inv, KnownOK
  <2>2. ASSUME NEW k \in Issues, Me'.known[k] \in DOMAIN tasks'
        PROVE  Fits(moved', k, tasks'[Me'.known[k]].origin)
    <3>1. Me'.known[k] = Me.known[k] /\ Me.known[k] \in 0..made
      BY <1>1, <2>2 DEF Weaker, Inv, KnownOK
    <3>2. Me.known[k] \in DOMAIN tasks /\ tasks'[Me.known[k]].origin = tasks[Me.known[k]].origin
      BY <1>1, <2>2, <3>1 DEF Weaker
    <3>3. Fits(moved, k, tasks[Me.known[k]].origin) /\ moved \subseteq moved'
      BY <3>2 DEF Weaker, Inv, KnownOK
    <3> QED
      BY <3>1, <3>2, <3>3 DEF Fits
  <2>3. OnlyKnown(moved', tasks', Me'.known)
    <3>1. SUFFICES ASSUME NEW t \in DOMAIN tasks', NEW k \in Issues \ moved',
                          tasks'[t].subject = k, Me'.known[k] # Nobody
                   PROVE  Me'.known[k] = t
      BY DEF OnlyKnown
    <3>2. Me'.known[k] = Me.known[k]
      BY <3>1 DEF Weaker
    <3> QED
      BY <3>1, <3>2, StillClaims DEF Inv, KnownOK, OnlyKnown
  <2>4. ASSUME NEW t \in DOMAIN tasks', NEW k \in Issues \ moved',
               tasks'[t].by = starts, tasks'[t].origin = k
        PROVE  Me'.known[k] = t
    <3>1. t \in DOMAIN tasks /\ tasks[t].origin = k /\ tasks[t].by = starts /\ k \notin moved
      BY <1>1, <2>4 DEF Weaker
    <3>2. Me'.known[k] = Me.known[k]
      BY <2>4, <3>1 DEF Weaker
    <3> QED
      BY <3>1, <3>2 DEF Inv, KnownOK
  <2> QED
    BY <2>1, <2>2, <2>3, <2>4 DEF Weaker, KnownOK
<1> QED
  BY <1>2, <1>3

\* The correction of a bound task.
LEMMA UpdateKeeps ==
  ASSUME Inv, NEW m \in 1..starts, Update(m)
  PROVE  Inv'
<1>1. /\ m = starts /\ mirrors[m] = Me /\ Me.cycle.pc = "writing" /\ Me.cycle.bound = Me.known
      /\ \A t \in DOMAIN tasks, k \in Issues \ moved : tasks[t].subject = k => Me.known[k] = t
      /\ DOMAIN Me.cycle.cards \subseteq Issues
  BY WritingIs DEF Update
<1> DEFINE c == Me.cycle
<1> DEFINE Set(task, k) == [task EXCEPT !.subject = k, !.status = c.cards[k], !.deps = DepsOf(c, k)]
<1>2. PICK k \in Different(c) :
        IF c.bound[k] \in DOMAIN tasks
        THEN /\ tasks' = [tasks EXCEPT ![c.bound[k]] = Set(@, k)]
             /\ mirrors' = [mirrors EXCEPT ![starts].cycle.seen[c.bound[k]] = Set(@, k)]
        ELSE mirrors' = [mirrors EXCEPT ![starts] = Ended(@)] /\ UNCHANGED tasks
  BY <1>1 DEF Update
<1>3. k \in Issues /\ k \in DOMAIN c.cards
  BY <1>1 DEF Different
<1>4. /\ made \in Nat /\ starts \in Nat \ {0} /\ Me \in Mirror
      /\ made' = made /\ run' = run /\ starts' = starts /\ moved' = moved
      /\ tasks \in Listings /\ DOMAIN tasks \subseteq 1..made
  BY MeIsMirror DEF Inv, Shape, Update, bounds
<1>5. CASE c.bound[k] \notin DOMAIN tasks
  <2>1. mirrors' = [mirrors EXCEPT ![starts] = Ended(Me)] /\ UNCHANGED tasks
    BY <1>2, <1>5 DEF Me
  <2>2. Ended(Me) \in Mirror /\ Ended(Me).known = Me.known /\ Ended(Me).cycle \in {Idle, Asked}
    BY <1>4, EndedIs
  <2>3. Shape' /\ Me' = Ended(Me)
    BY <1>4, <2>1, <2>2, ShapeKept DEF Inv
  <2>4. Calm
    BY <1>4, <2>1, <2>2, <2>3 DEF Calm
  <2> QED
    BY <2>3, <2>4, CalmKeeps DEF Inv
<1>6. CASE c.bound[k] \in DOMAIN tasks
  <2> DEFINE t == c.bound[k]
  <2>1. /\ c.seen \in Listings /\ c.bound \in Bindings
        /\ c.cards[k] \in TaskStatus /\ DepsOf(c, k) \subseteq Nat
    <3>1. c.seen \in Listings /\ c.bound \in Bindings /\ c.cards \in Boards
      BY <1>4 DEF Mirror, Cycle
    <3> QED
      BY <1>1, <1>3, <3>1 DEF Boards, Bindings, DepsOf
  <2>2. \A r \in Record : /\ Set(r, k) \in Record /\ Set(r, k).subject = k
                          /\ Set(r, k).origin = r.origin /\ Set(r, k).by = r.by
    BY <1>3, <2>1 DEF Record
  <2> DEFINE seen == [c.seen EXCEPT ![t] = Set(@, k)]
  <2> DEFINE me == [Me EXCEPT !.cycle.seen = seen]
  <2>3. /\ tasks' = [tasks EXCEPT ![t] = Set(@, k)]
        /\ mirrors' = [mirrors EXCEPT ![starts] = me]
    BY <1>2, <1>6 DEF Me
  <2> HIDE DEF Set, t
  <2>4. /\ tasks \in [DOMAIN tasks -> Record] /\ DOMAIN tasks \subseteq Nat
        /\ c.seen \in [DOMAIN c.seen -> Record] /\ DOMAIN c.seen \subseteq Nat
    BY <1>4, <2>1, ListingIs
  <2>5. tasks' \in Listings /\ DOMAIN tasks' = DOMAIN tasks
    <3>1. tasks' \in [DOMAIN tasks -> Record]
      BY <2>2, <2>3, <2>4
    <3> QED
      BY <2>4, <3>1, ListingIs
  <2>6. seen \in Listings
    <3>1. seen \in [DOMAIN c.seen -> Record]
      BY <2>2, <2>4
    <3> QED
      BY <2>4, <3>1, ListingIs
  <2> HIDE DEF seen
  <2>7. /\ me \in Mirror /\ me.known = Me.known
        /\ me.cycle.pc = "writing" /\ me.cycle.bound = c.bound
    BY <1>1, <1>4, <2>6 DEF Mirror, Cycle
  <2> HIDE DEF me
  <2>8. Shape' /\ Me' = me
    BY <1>4, <2>3, <2>5, <2>7, ShapeKept DEF Inv
  <2>9. t = Me.known[k] /\ t \in DOMAIN tasks
    BY <1>1, <1>6 DEF t
  <2>10. Fits(moved, k, tasks[t].origin)
    BY <1>3, <2>9 DEF Inv, KnownOK
  <2>11. /\ tasks'[t].subject = k /\ tasks'[t].origin = tasks[t].origin
         /\ tasks'[t].by = tasks[t].by
         /\ \A x \in DOMAIN tasks : x # t => tasks'[x] = tasks[x]
    BY <2>2, <2>3, <2>4, <2>9
  <2>12. \A x \in DOMAIN tasks : tasks'[x].origin = tasks[x].origin /\ tasks'[x].by = tasks[x].by
    BY <2>11
  <2>13. \A x \in DOMAIN tasks, j \in Issues \ moved : tasks'[x].subject = j => Me.known[j] = x
    BY <1>1, <2>9, <2>11
  <2>14. TasksOK'
    <3>1. Marked(moved, tasks')
      BY <2>5, <2>10, <2>11 DEF Inv, TasksOK, Marked
    <3>2. OneEach(moved, tasks')
      BY <2>5, <2>13 DEF OneEach
    <3> QED
      BY <1>4, <2>5, <2>12, <3>1, <3>2 DEF Inv, TasksOK
  <2>15. KnownOK'
    <3>1. Me'.known = Me.known /\ made' = made /\ starts' = starts /\ moved' = moved
      BY <1>4, <2>7, <2>8
    <3>2. OnlyKnown(moved, tasks', Me.known)
      BY <2>5, <2>13 DEF OnlyKnown
    <3> QED
      BY <2>5, <2>12, <3>1, <3>2 DEF Inv, KnownOK
  <2>16. ListedOK' /\ WritingOK'
    BY <1>1, <1>4, <2>5, <2>7, <2>8, <2>13 DEF ListedOK, WritingOK
  <2> QED
    BY <2>8, <2>14, <2>15, <2>16 DEF Inv
<1> QED
  BY <1>5, <1>6

\* The deletion of the task of an issue that has left the board.
LEMMA RemoveKeeps ==
  ASSUME Inv, NEW m \in 1..starts, Remove(m)
  PROVE  Inv'
<1>1. /\ m = starts /\ mirrors[m] = Me /\ Me.cycle.pc = "writing" /\ Me.cycle.bound = Me.known
      /\ \A t \in DOMAIN tasks, k \in Issues \ moved : tasks[t].subject = k => Me.known[k] = t
  BY WritingIs DEF Remove
<1>2. PICK k \in LeftOver(Me.cycle) :
        /\ tasks' = Without(tasks, Me.cycle.bound[k])
        /\ mirrors' = [mirrors EXCEPT ![starts].known[k] = Nobody, ![starts].cycle.bound[k] = Nobody]
  BY <1>1 DEF Remove
<1>3. k \in Issues
  BY DEF LeftOver
<1>4. /\ made \in Nat /\ starts \in Nat \ {0} /\ Me \in Mirror /\ Nobody \in Nat
      /\ made' = made /\ run' = run /\ starts' = starts /\ moved' = moved
      /\ tasks \in Listings /\ DOMAIN tasks \subseteq 1..made /\ Nobody = 0
  BY MeIsMirror DEF Inv, Shape, Nobody, Remove, bounds
<1> DEFINE me == [Me EXCEPT !.known[k] = Nobody, !.cycle.bound[k] = Nobody]
<1>5. mirrors' = [mirrors EXCEPT ![starts] = me]
  BY <1>2 DEF Me
<1>6. /\ me \in Mirror /\ me.known = [Me.known EXCEPT ![k] = Nobody]
      /\ me.cycle.bound = me.known /\ me.cycle.pc = "writing"
  <2>1. Me.known \in Bindings /\ OneToOne(Me.known)
    BY <1>4 DEF Mirror, Known
  <2> DEFINE known == [Me.known EXCEPT ![k] = Nobody]
  <2>2. known \in Known
    BY <1>3, <1>4, <2>1 DEF Known, OneToOne, Bindings
  <2>3. known \in Bindings /\ me = [Me EXCEPT !.known = known, !.cycle.bound = known]
    BY <1>1, <1>4, <2>1, <2>2 DEF Mirror, Cycle, Known
  <2> HIDE DEF me, known
  <2>4. me \in Mirror /\ me.known = known /\ me.cycle.bound = me.known /\ me.cycle.pc = "writing"
    BY <1>1, <1>4, <2>2, <2>3 DEF Mirror, Cycle
  <2> QED
    BY <2>4 DEF known
<1> HIDE DEF me
<1>7. /\ tasks' \in Listings /\ DOMAIN tasks' = DOMAIN tasks \ {Me.known[k]}
      /\ \A x \in DOMAIN tasks' : tasks'[x] = tasks[x]
  <2> DEFINE t == Me.known[k]
  <2>1. tasks' = Without(tasks, t)
    BY <1>1, <1>2
  <2> HIDE DEF t
  <2>2. /\ Without(tasks, t) \in Listings
        /\ DOMAIN Without(tasks, t) = DOMAIN tasks \ {t}
        /\ \A x \in DOMAIN tasks \ {t} : Without(tasks, t)[x] = tasks[x]
    BY <1>4, WithoutIs
  <2>3. /\ tasks' \in Listings /\ DOMAIN tasks' = DOMAIN tasks \ {t}
        /\ \A x \in DOMAIN tasks' : tasks'[x] = tasks[x]
    BY <2>1, <2>2
  <2> QED
    BY <2>3 DEF t
<1>8. Shape' /\ Me' = me
  BY <1>4, <1>5, <1>6, <1>7, ShapeKept DEF Inv
<1>9. Me'.known[k] = Nobody /\ \A j \in Issues : j # k => Me'.known[j] = Me.known[j]
  <2>1. Me.known \in Bindings
    BY <1>4 DEF Mirror, Known
  <2> QED
    BY <1>3, <1>6, <1>8, <2>1 DEF Bindings
<1>10. k \notin moved => \A t \in DOMAIN tasks' : tasks'[t].by = starts => tasks'[t].origin # k
  BY <1>3, <1>7 DEF Inv, KnownOK
<1>11. Weaker
  BY <1>4, <1>7, <1>9, <1>10 DEF Weaker
<1>12. \A t \in DOMAIN tasks', j \in Issues \ moved : tasks'[t].subject = j => Me'.known[j] = t
  BY <1>1, <1>7, <1>9
<1>13. ListedOK' /\ WritingOK'
  BY <1>4, <1>6, <1>8, <1>12 DEF ListedOK, WritingOK
<1> QED
  BY <1>8, <1>11, <1>13, WeakerKeeps DEF Inv

\* The end of a cycle.
LEMMA FinishKeeps ==
  ASSUME Inv, NEW m \in 1..starts, Finish(m)
  PROVE  Inv'
<1>1. m = starts /\ mirrors[m] = Me
  BY WritingIs DEF Finish
<1>2. /\ UNCHANGED <<run, tasks, starts, made, moved>>
      /\ mirrors' = [mirrors EXCEPT ![starts] = Ended(Me)]
  BY <1>1 DEF Finish, Me, bounds
<1>3. Ended(Me) \in Mirror /\ Ended(Me).known = Me.known /\ Ended(Me).cycle \in {Idle, Asked}
  BY MeIsMirror, EndedIs DEF Inv
<1>4. made' \in Nat /\ tasks' \in Listings /\ DOMAIN tasks' \subseteq 1..made'
  BY <1>2 DEF Inv, Shape
<1>5. Shape' /\ Me' = Ended(Me)
  BY <1>2, <1>3, <1>4, ShapeKept DEF Inv
<1>6. Calm
  BY <1>2, <1>3, <1>5 DEF Calm
<1> QED
  BY <1>5, <1>6, CalmKeeps DEF Inv

\* A rejected call ends the cycle; a creation may have happened all the same,
\* and a task whose deletion failed is in nobody's charge.
LEMMA RejectKeeps ==
  ASSUME Inv, NEW m \in 1..starts, Reject(m)
  PROVE  Inv'
<1> DEFINE c == Me.cycle
<1>1. m = starts /\ mirrors[m] = Me
  <2>1. mirrors[m].cycle.pc # "idle"
    BY DEF Reject, Writing
  <2> QED
    BY <2>1, OnlyMe DEF Inv
<1>2. /\ made \in Nat /\ starts \in Nat \ {0} /\ Me \in Mirror /\ Nobody = 0
      /\ run' = run /\ starts' = starts /\ moved' = moved
      /\ tasks \in Listings /\ DOMAIN tasks \subseteq 1..made
  BY MeIsMirror DEF Inv, Shape, Nobody, Reject
<1> DEFINE Left(known) == Ended([Me EXCEPT !.known = known])
<1>3. \A known \in Known :
        /\ Left(known) \in Mirror /\ Left(known).known = known
        /\ Left(known).cycle \in {Idle, Asked}
  <2>1. SUFFICES ASSUME NEW known \in Known
                 PROVE  /\ Left(known) \in Mirror /\ Left(known).known = known
                        /\ Left(known).cycle \in {Idle, Asked}
    OBVIOUS
  <2> DEFINE me == [Me EXCEPT !.known = known]
  <2>2. me \in Mirror /\ me.known = known
    BY <1>2 DEF Mirror
  <2> HIDE DEF me
  <2>3. Ended(me) \in Mirror /\ Ended(me).known = me.known /\ Ended(me).cycle \in {Idle, Asked}
    BY <2>2, EndedIs
  <2> QED
    BY <2>2, <2>3 DEF me
<1>4. Me.known \in Known
  BY <1>2 DEF Mirror
<1> HIDE DEF Left
<1>5. ASSUME NEW known \in Known, mirrors' = [mirrors EXCEPT ![starts] = Left(known)],
             made' \in Nat, tasks' \in Listings, DOMAIN tasks' \subseteq 1..made'
      PROVE  /\ Shape' /\ Me' = Left(known) /\ Me'.known = known
             /\ ListedOK' /\ WritingOK'
  <2> DEFINE me == Left(known)
  <2>1. me \in Mirror /\ me.known = known /\ me.cycle \in {Idle, Asked}
    BY <1>3
  <2>2. mirrors' = [mirrors EXCEPT ![starts] = me]
    BY <1>5
  <2> HIDE DEF me
  <2>3. Shape' /\ Me' = me
    BY <1>2, <1>5, <2>1, <2>2, ShapeKept DEF Inv
  <2>4. Me'.cycle.pc \in {"idle", "asked"}
    BY <2>1, <2>3, MirrorValues
  <2>5. ListedOK' /\ WritingOK'
    BY <2>4 DEF ListedOK, WritingOK
  <2> QED
    BY <2>1, <2>3, <2>5 DEF me
<1>6. CASE mirrors' = [mirrors EXCEPT ![starts] = Left(Me.known)] /\ UNCHANGED <<tasks, made>>
  <2>1. Shape' /\ Me'.known = Me.known /\ ListedOK' /\ WritingOK'
    BY <1>2, <1>4, <1>5, <1>6
  <2>2. Weaker
    BY <1>2, <1>6, <2>1 DEF Weaker
  <2> QED
    BY <2>1, <2>2, WeakerKeeps DEF Inv
<1>7. ASSUME NEW k \in Missing(c), Writing(m),
             tasks' = With(tasks, made + 1, NewTask(k, Nobody)),
             made' = made + 1, mirrors' = [mirrors EXCEPT ![starts] = Left(Me.known)]
      PROVE  Inv'
  <2>1. /\ Me.cycle.bound = Me.known
        /\ \A t \in DOMAIN tasks, j \in Issues \ moved : tasks[t].subject = j => Me.known[j] = t
        /\ DOMAIN Me.cycle.cards \subseteq Issues
    BY <1>7, WritingIs
  <2>2. k \in Issues /\ Me.known[k] = Nobody
    BY <2>1 DEF Missing
  <2> DEFINE me == Left(Me.known)
  <2>3. me.known = Me.known
    BY <1>3, <1>4
  <2>4. mirrors' = [mirrors EXCEPT ![starts] = me]
    BY <1>7
  <2> HIDE DEF me
  <2>5. Me' = me
    BY <1>2, <2>4 DEF Me, Inv, Shape
  <2>6. /\ made' \in Nat /\ tasks' \in Listings /\ DOMAIN tasks' \subseteq 1..made'
        /\ TasksOK' /\ KnownOK'
    <3>1. Me'.known = IF Nobody = Nobody THEN Me.known ELSE [Me.known EXCEPT ![k] = made + 1]
      BY <2>3, <2>5
    <3> QED
      BY <1>2, <1>7, <2>1, <2>2, <3>1, CreatedKeeps
  <2>7. Shape' /\ ListedOK' /\ WritingOK'
    BY <1>4, <1>5, <1>7, <2>6
  <2> QED
    BY <2>6, <2>7 DEF Inv
<1>8. ASSUME NEW k \in LeftOver(c), Writing(m),
             mirrors' = [mirrors EXCEPT ![starts] = Left([Me.known EXCEPT ![k] = Nobody])],
             tasks' = [t \in DOMAIN tasks |->
                         IF t = c.bound[k] THEN [tasks[t] EXCEPT !.by = Nobody] ELSE tasks[t]],
             made' = made
      PROVE  Inv'
  <2>1. Me.cycle.bound = Me.known
    BY <1>8, WritingIs
  <2>2. k \in Issues
    BY DEF LeftOver
  <2> DEFINE known == [Me.known EXCEPT ![k] = Nobody]
  <2>3. known \in Known /\ known[k] = Nobody /\ \A j \in Issues : j # k => known[j] = Me.known[j]
    BY <1>2, <1>4, <2>2 DEF Bindings, Known, OneToOne
  <2>4. tasks \in [DOMAIN tasks -> Record] /\ DOMAIN tasks \subseteq Nat
    BY <1>2, ListingIs
  <2>5. tasks' \in Listings /\ DOMAIN tasks' = DOMAIN tasks
    <3>1. tasks' \in [DOMAIN tasks -> Record]
      BY <1>2, <1>8, <2>4 DEF Record
    <3> QED
      BY <2>4, <3>1, ListingIs
  <2>6. \A t \in DOMAIN tasks :
          /\ tasks'[t].origin = tasks[t].origin /\ tasks'[t].subject = tasks[t].subject
          /\ tasks'[t].by = IF t = Me.known[k] THEN Nobody ELSE tasks[t].by
    BY <1>8, <2>1, <2>4 DEF Record
  <2>7. mirrors' = [mirrors EXCEPT ![starts] = Left(known)]
    BY <1>8
  <2> HIDE DEF known
  <2>8. Shape' /\ Me'.known = known /\ ListedOK' /\ WritingOK'
    BY <1>2, <1>5, <1>8, <2>3, <2>5, <2>7
  <2>9. k \notin moved => \A t \in DOMAIN tasks' : tasks'[t].by = starts => tasks'[t].origin # k
    BY <1>2, <2>2, <2>5, <2>6 DEF Inv, KnownOK
  <2>10. Weaker
    BY <1>2, <1>8, <2>3, <2>5, <2>6, <2>8, <2>9 DEF Weaker
  <2> QED
    BY <2>8, <2>10, WeakerKeeps DEF Inv
<1>9. \/ mirrors' = [mirrors EXCEPT ![starts] = Left(Me.known)] /\ UNCHANGED <<tasks, made>>
      \/ \E k \in Missing(c) :
           /\ Writing(m)
           /\ tasks' = With(tasks, made + 1, NewTask(k, Nobody))
           /\ made' = made + 1 /\ mirrors' = [mirrors EXCEPT ![starts] = Left(Me.known)]
      \/ \E k \in LeftOver(c) :
           /\ Writing(m)
           /\ mirrors' = [mirrors EXCEPT ![starts] = Left([Me.known EXCEPT ![k] = Nobody])]
           /\ tasks' = [t \in DOMAIN tasks |->
                          IF t = c.bound[k] THEN [tasks[t] EXCEPT !.by = Nobody] ELSE tasks[t]]
           /\ made' = made
  <2> DEFINE L(known) == Ended([mirrors[m] EXCEPT !.known = known])
  <2>1. \A known : Left(known) = L(known)
    BY <1>1 DEF Left
  <2>2. \/ mirrors' = [mirrors EXCEPT ![m] = L(mirrors[m].known)] /\ UNCHANGED <<tasks, made>>
        \/ \E k \in Missing(mirrors[m].cycle) :
             /\ Writing(m)
             /\ tasks' = With(tasks, made + 1, NewTask(k, Nobody))
             /\ made' = made + 1 /\ mirrors' = [mirrors EXCEPT ![m] = L(mirrors[m].known)]
        \/ \E k \in LeftOver(mirrors[m].cycle) :
             /\ Writing(m)
             /\ mirrors' = [mirrors EXCEPT ![m] = L([mirrors[m].known EXCEPT ![k] = Nobody])]
             /\ tasks' = [t \in DOMAIN tasks |->
                            IF t = mirrors[m].cycle.bound[k] THEN [tasks[t] EXCEPT !.by = Nobody]
                            ELSE tasks[t]]
             /\ made' = made
    BY DEF Reject
  <2> HIDE DEF L
  <2>3. CASE mirrors' = [mirrors EXCEPT ![m] = L(mirrors[m].known)] /\ UNCHANGED <<tasks, made>>
    BY <1>1, <2>1, <2>3
  <2>4. ASSUME NEW k \in Missing(mirrors[m].cycle), Writing(m),
               tasks' = With(tasks, made + 1, NewTask(k, Nobody)), made' = made + 1,
               mirrors' = [mirrors EXCEPT ![m] = L(mirrors[m].known)]
        PROVE  \E j \in Missing(c) :
                 /\ Writing(m)
                 /\ tasks' = With(tasks, made + 1, NewTask(j, Nobody))
                 /\ made' = made + 1 /\ mirrors' = [mirrors EXCEPT ![starts] = Left(Me.known)]
    <3>1. k \in Missing(c) /\ mirrors' = [mirrors EXCEPT ![starts] = Left(Me.known)]
      BY <1>1, <2>1, <2>4
    <3> QED
      BY <2>4, <3>1
  <2>5. ASSUME NEW k \in LeftOver(mirrors[m].cycle), Writing(m), made' = made,
               mirrors' = [mirrors EXCEPT ![m] = L([mirrors[m].known EXCEPT ![k] = Nobody])],
               tasks' = [t \in DOMAIN tasks |->
                           IF t = mirrors[m].cycle.bound[k] THEN [tasks[t] EXCEPT !.by = Nobody]
                           ELSE tasks[t]]
        PROVE  \E j \in LeftOver(c) :
                 /\ Writing(m)
                 /\ mirrors' = [mirrors EXCEPT ![starts] = Left([Me.known EXCEPT ![j] = Nobody])]
                 /\ tasks' = [t \in DOMAIN tasks |->
                                IF t = c.bound[j] THEN [tasks[t] EXCEPT !.by = Nobody] ELSE tasks[t]]
                 /\ made' = made
    <3>1. k \in LeftOver(c)
      BY <1>1
    <3>2. mirrors' = [mirrors EXCEPT ![starts] = Left([Me.known EXCEPT ![k] = Nobody])]
      BY <1>1, <2>1, <2>5
    <3>3. mirrors[m].cycle.bound[k] = c.bound[k]
      BY <1>1
    <3>4. tasks' = [t \in DOMAIN tasks |->
                      IF t = c.bound[k] THEN [tasks[t] EXCEPT !.by = Nobody] ELSE tasks[t]]
      BY <2>5, <3>3
    <3> QED
      BY <2>5, <3>1, <3>2, <3>4
  <2> QED
    BY <2>2, <2>3, <2>4, <2>5
<1> QED
  BY <1>6, <1>7, <1>8, <1>9

\* A user writes a subject.
LEMMA RelabelIs ==
  ASSUME tasks \in [DOMAIN tasks -> Record], DOMAIN tasks \subseteq Nat,
         NEW t \in DOMAIN tasks, NEW s \in Issues \cup {Other}, Relabel(t, s)
  PROVE  /\ tasks' \in Listings /\ DOMAIN tasks' = DOMAIN tasks /\ made' = made
         /\ moved \subseteq moved'
         /\ \A u \in DOMAIN tasks :
              /\ tasks'[u].origin = tasks[u].origin /\ tasks'[u].by = tasks[u].by
              /\ \/ tasks'[u].subject \in {tasks[u].subject, Other}
                 \/ tasks'[u].subject \in moved' /\ tasks[u].origin \in moved' \cup {Other}
<1>1. tasks' = [tasks EXCEPT ![t].subject = s] /\ made' = made
      /\ moved' = IF s = Other THEN moved ELSE moved \cup ({s, tasks[t].origin} \ {Other})
  BY DEF Relabel
<1>2. tasks' \in [DOMAIN tasks -> Record]
  BY <1>1 DEF Record
<1>3. tasks' \in Listings /\ DOMAIN tasks' = DOMAIN tasks
  BY <1>2, ListingIs
<1>4. /\ tasks'[t].subject = s /\ tasks'[t].origin = tasks[t].origin /\ tasks'[t].by = tasks[t].by
      /\ \A u \in DOMAIN tasks : u # t => tasks'[u] = tasks[u]
  BY <1>1 DEF Record
<1>5. s # Other => s \in moved' /\ tasks[t].origin \in moved' \cup {Other}
  BY <1>1
<1> QED
  BY <1>1, <1>3, <1>4, <1>5

\* Whatever users do, a marker that they have not moved is where it was.
LEMMA EditKeeps ==
  ASSUME Inv, Edit
  PROVE  Inv'
<1>1. /\ UNCHANGED <<run, mirrors, starts>> /\ Me' = Me /\ made \in Nat
      /\ tasks \in Listings /\ DOMAIN tasks \subseteq 1..made
      /\ tasks \in [DOMAIN tasks -> Record] /\ DOMAIN tasks \subseteq Nat
  BY ListingIs DEF Inv, Shape, Edit, Me
<1>2. tasks' \in Listings /\ DOMAIN tasks' \subseteq 1..made' /\ Weaker
  <2>1. CASE \E t \in DOMAIN tasks, s \in Issues \cup {Other} : Relabel(t, s)
    BY <1>1, <2>1, RelabelIs DEF Weaker
  <2>2. ASSUME NEW t \in DOMAIN tasks, NEW s \in TaskStatus,
               tasks' = [tasks EXCEPT ![t].status = s], UNCHANGED <<moved, made>>
        PROVE  tasks' \in Listings /\ DOMAIN tasks' \subseteq 1..made' /\ Weaker
    <3>1. tasks' \in [DOMAIN tasks -> Record]
      BY <1>1, <2>2 DEF Record
    <3>2. tasks' \in Listings /\ DOMAIN tasks' = DOMAIN tasks
      BY <1>1, <3>1, ListingIs
    <3>3. \A u \in DOMAIN tasks :
            /\ tasks'[u].origin = tasks[u].origin /\ tasks'[u].by = tasks[u].by
            /\ tasks'[u].subject = tasks[u].subject
      BY <1>1, <2>2 DEF Record
    <3> QED
      BY <1>1, <2>2, <3>2, <3>3 DEF Weaker
  <2>3. ASSUME NEW t \in DOMAIN tasks, tasks' = Without(tasks, t), UNCHANGED <<moved, made>>
        PROVE  tasks' \in Listings /\ DOMAIN tasks' \subseteq 1..made' /\ Weaker
    <3>1. /\ Without(tasks, t) \in Listings
          /\ DOMAIN Without(tasks, t) = DOMAIN tasks \ {t}
          /\ \A x \in DOMAIN tasks \ {t} : Without(tasks, t)[x] = tasks[x]
      BY <1>1, WithoutIs
    <3>2. /\ tasks' \in Listings /\ DOMAIN tasks' \subseteq DOMAIN tasks
          /\ \A x \in DOMAIN tasks' : tasks'[x] = tasks[x]
      BY <2>3, <3>1
    <3> QED
      BY <1>1, <2>3, <3>2 DEF Weaker
  <2>4. ASSUME NEW k \in Issues, AddCopy(k)
        PROVE  tasks' \in Listings /\ DOMAIN tasks' \subseteq 1..made' /\ Weaker
    <3> DEFINE v == [NewTask(k, Nobody) EXCEPT !.origin = Other]
    <3>1. tasks' = With(tasks, made + 1, v) /\ made' = made + 1 /\ moved' = moved \cup {k}
      BY <2>4 DEF AddCopy
    <3>2. v \in Record /\ v.subject = k /\ v.origin = Other /\ v.by = Nobody
      BY DEF NewTask, Record, TaskStatus, Nobody
    <3> HIDE DEF v
    <3>3. /\ tasks' \in Listings /\ DOMAIN tasks' = DOMAIN tasks \cup {made + 1}
          /\ tasks'[made + 1] = v
          /\ \A x \in DOMAIN tasks : tasks'[x] = tasks[x]
      BY <1>1, <3>1, <3>2, AddedIs
    <3>4. DOMAIN tasks' \subseteq 1..made' /\ DOMAIN tasks' \subseteq DOMAIN tasks \cup (made + 1)..made'
          /\ made' >= made /\ made' \in Nat /\ made + 1 \notin DOMAIN tasks
      BY <1>1, <3>1, <3>3
    <3> QED
      BY <1>1, <3>1, <3>2, <3>3, <3>4 DEF Weaker
  <2> QED
    BY <2>1, <2>2, <2>3, <2>4 DEF Edit
<1>3. Shape' /\ made' \in Nat /\ made' >= made /\ moved \subseteq moved'
  BY <1>1, <1>2 DEF Inv, Shape, Weaker
<1>4. ASSUME Me.cycle.pc = "listed"
      PROVE  ListedOK'
  <2> DEFINE seen == Me.cycle.seen
  <2>1. /\ DOMAIN seen \subseteq 1..made
        /\ Marked(moved, seen) /\ OneEach(moved, seen) /\ OnlyKnown(moved, seen, Me.known)
        /\ \A t \in DOMAIN tasks :
             IF t \in DOMAIN seen THEN tasks[t].origin = seen[t].origin ELSE tasks[t].origin = Other
        /\ \A t \in DOMAIN tasks, k \in Issues \ moved :
             tasks[t].subject = k => t \in DOMAIN seen /\ seen[t].subject = k
    BY <1>4 DEF Inv, ListedOK
  <2>2. Me'.cycle.seen = seen /\ Me'.known = Me.known
    BY <1>1
  <2> HIDE DEF seen
  <2>3. DOMAIN seen \subseteq 1..made'
    BY <1>1, <1>3, <2>1
  <2>4. Marked(moved', seen) /\ OneEach(moved', seen) /\ OnlyKnown(moved', seen, Me.known)
    BY <1>3, <2>1 DEF Marked, Fits, OneEach, OnlyKnown
  <2>5. \A t \in DOMAIN tasks' :
          IF t \in DOMAIN seen THEN tasks'[t].origin = seen[t].origin ELSE tasks'[t].origin = Other
    BY <1>1, <1>2, <1>3, <2>1 DEF Weaker
  <2>6. \A t \in DOMAIN tasks', k \in Issues \ moved' :
          tasks'[t].subject = k => t \in DOMAIN seen /\ seen[t].subject = k
    BY <1>2, <2>1, StillClaims
  <2> QED
    BY <2>2, <2>3, <2>4, <2>5, <2>6 DEF ListedOK
<1>5. ListedOK'
  BY <1>1, <1>4 DEF ListedOK
<1>6. WritingOK'
  BY <1>1, <1>2, StillClaims DEF Inv, WritingOK
<1> QED
  BY <1>2, <1>3, <1>5, <1>6, WeakerKeeps DEF Inv

\* A new mirror knows nothing and has no task in its charge.
LEMMA FreshKeeps ==
  ASSUME Inv, starts' = starts + 1, UNCHANGED <<tasks, made, moved>>, Me' = Fresh
  PROVE  TasksOK' /\ KnownOK' /\ ListedOK' /\ WritingOK'
<1>1. Me'.known = Unbound /\ Me'.cycle.pc = "asked"
  BY MirrorValues
<1>2. made \in Nat /\ starts \in Nat \ {0} /\ DOMAIN tasks \subseteq 1..made
  BY DEF Inv, Shape
<1>3. TasksOK'
  BY <1>2 DEF Inv, TasksOK, Marked, OneEach
<1>4. \A t \in DOMAIN tasks : tasks[t].by # starts'
  BY <1>2 DEF Inv, TasksOK
<1>5. KnownOK'
  BY <1>1, <1>2, <1>4 DEF KnownOK, OnlyKnown, Unbound, Nobody
<1> QED
  BY <1>1, <1>3, <1>5 DEF ListedOK, WritingOK

LEMMA ReloadKeeps ==
  ASSUME Inv, ~Overlap, Reload
  PROVE  Inv'
<1>1. /\ starts' = starts + 1 /\ UNCHANGED <<run, tasks, made, moved>>
      /\ mirrors' = [m \in 1..starts + 1 |->
                       IF m > starts THEN Fresh
                       ELSE IF m = starts THEN [mirrors[m] EXCEPT !.live = FALSE] ELSE mirrors[m]]
      /\ mirrors[starts].cycle.pc = "idle"
  BY DEF Reload, bounds
<1>2. starts \in Nat \ {0} /\ mirrors \in [1..starts -> Mirror]
  BY DEF Inv, Shape
<1>3. \A m \in 1..starts : [mirrors[m] EXCEPT !.live = FALSE] \in Mirror
                           /\ [mirrors[m] EXCEPT !.live = FALSE].cycle = mirrors[m].cycle
  BY <1>2 DEF Mirror
<1>4. /\ mirrors' \in [1..starts' -> Mirror] /\ mirrors'[starts'] = Fresh
      /\ \A m \in 1..starts : mirrors'[m].cycle.pc = mirrors[m].cycle.pc
  BY <1>1, <1>2, <1>3, MirrorValues
<1>5. \A m \in 1..starts' : m # starts' => mirrors'[m].cycle.pc = "idle"
  <2>1. \A m \in 1..starts' : m # starts' => m \in 1..starts
    BY <1>1, <1>2
  <2>2. \A m \in 1..starts : mirrors[m].cycle.pc = "idle"
    BY <1>1 DEF Inv, Shape
  <2> QED
    BY <1>4, <2>1, <2>2
<1>6. starts' \in Nat \ {0} /\ UNCHANGED <<run, tasks, made>>
  BY <1>1, <1>2
<1>7. Shape' /\ Me' = Fresh
  BY <1>4, <1>5, <1>6 DEF Inv, Shape, Me
<1> QED
  BY <1>1, <1>7, FreshKeeps DEF Inv

LEMMA RestartKeeps ==
  ASSUME Inv, Restart
  PROVE  Inv'
<1> DEFINE gone == [live |-> FALSE, known |-> Unbound, pending |-> FALSE, cycle |-> Idle]
<1>1. /\ starts' = starts + 1 /\ UNCHANGED <<run, tasks, made, moved>>
      /\ mirrors' = [m \in 1..starts + 1 |-> IF m > starts THEN Fresh ELSE gone]
  BY DEF Restart, bounds
<1>2. starts \in Nat \ {0}
  BY DEF Inv, Shape
<1>3. gone \in Mirror /\ gone.cycle.pc = "idle"
  <2>1. Unbound \in Known
    BY DEF Unbound, Bindings, Known, OneToOne, Nobody
  <2> QED
    BY <2>1, MirrorValues DEF Mirror
<1> HIDE DEF gone
<1>4. /\ mirrors' \in [1..starts' -> Mirror] /\ mirrors'[starts'] = Fresh
      /\ \A m \in 1..starts : mirrors'[m].cycle.pc = "idle"
  BY <1>1, <1>2, <1>3, MirrorValues
<1>5. \A m \in 1..starts' : m # starts' => mirrors'[m].cycle.pc = "idle"
  <2>1. \A m \in 1..starts' : m # starts' => m \in 1..starts
    BY <1>1, <1>2
  <2> QED
    BY <1>4, <2>1
<1>6. starts' \in Nat \ {0} /\ UNCHANGED <<run, tasks, made>>
  BY <1>1, <1>2
<1>7. Shape' /\ Me' = Fresh
  BY <1>4, <1>5, <1>6 DEF Inv, Shape, Me
<1> QED
  BY <1>1, <1>7, FreshKeeps DEF Inv

\* A step that changes nothing.
LEMMA StutterKeeps ==
  ASSUME Inv, UNCHANGED vars
  PROVE  Inv'
<1>1. UNCHANGED <<run, tasks, mirrors, starts, made, moved>> /\ Me' = Me
  BY DEF vars, bounds, Me
<1>2. Shape'
  BY <1>1 DEF Inv, Shape
<1>3. Calm
  BY <1>1 DEF Calm
<1> QED
  BY <1>2, <1>3, CalmKeeps DEF Inv

LEMMA NextInv ==
  ASSUME Inv, ~Overlap, [Next]_vars
  PROVE  Inv'
<1>1. CASE UNCHANGED vars
  BY <1>1, StutterKeeps
<1>2. CASE Write
  BY <1>2, WriteKeeps
<1>3. CASE Notify
  BY <1>3, NotifyKeeps
<1>4. ASSUME NEW m \in 1..starts, CycleStep(m)
      PROVE  Inv'
  BY <1>4, ListKeeps, BindKeeps, CreateKeeps, UpdateKeeps, RemoveKeeps, FinishKeeps DEF CycleStep
<1>5. ASSUME NEW m \in 1..starts, Reject(m)
      PROVE  Inv'
  BY <1>5, RejectKeeps
<1>6. CASE Edit
  BY <1>6, EditKeeps
<1>7. CASE Reload
  BY <1>7, ReloadKeeps
<1>8. CASE Restart
  BY <1>8, RestartKeeps
<1> QED
  BY <1>1, <1>2, <1>3, <1>4, <1>5, <1>6, <1>7, <1>8 DEF Next

-----------------------------------------------------------------------------
(* The theorem. *)

\* No mirror takes one task for two issues, and an issue whose marker users
\* neither moved nor copied has one task that claims it and at most one in a
\* mirror's charge: for any issues, writes, edits, failing calls, reloads and
\* restarts of the host, as long as a mirror is not replaced during its cycle.
THEOREM IssuesHaveOneTask == Spec /\ ~Overlap => []NoTaskTwice
<1>1. Inv => NoTaskTwice
  <2>1. ASSUME Inv, NEW m \in DOMAIN mirrors, NEW j \in Issues, NEW k \in Issues, j # k
        PROVE  mirrors[m].known[j] # mirrors[m].known[k] \/ mirrors[m].known[j] = Nobody
    <3>1. mirrors[m] \in Mirror
      BY <2>1 DEF Inv, Shape
    <3> QED
      BY <2>1, <3>1 DEF Mirror, Known, OneToOne
  <2>2. ASSUME Inv, NEW t \in DOMAIN tasks, NEW u \in DOMAIN tasks, NEW k \in Issues \ moved, t # u
        PROVE  /\ tasks[t].subject # k \/ tasks[u].subject # k
               /\ \/ tasks[t].origin # k \/ tasks[u].origin # k
                  \/ tasks[t].by # tasks[u].by \/ tasks[t].by = Nobody
    BY <2>2 DEF Inv, TasksOK, OneEach
  <2> QED
    BY <2>1, <2>2 DEF NoTaskTwice
<1>2. Init => Inv
  BY InitInv
<1>3. (~Overlap /\ Inv) /\ [Next]_vars => (~Overlap /\ Inv)'
  BY NextInv
<1> QED
  BY <1>1, <1>2, <1>3, PTL DEF Spec

=============================================================================
