-------------------------- MODULE RunLedgerProofs ---------------------------
(***************************************************************************)
(* Proofs about RunLedger, for any keys, requests, planners and bounds: an *)
(* idempotency key has one run, a run is never replaced by another, and a  *)
(* plan is published to the run whose request it answers.  For any plan:   *)
(* the search of validatePlan accepts exactly the sound ones, renumbering  *)
(* keeps the dependencies, and topologicalOrder offers what can be         *)
(* executed.                                                               *)
(***************************************************************************)
EXTENDS RunLedger, SequenceTheorems, FiniteSetTheorems, WellFoundedInduction,
        TLAPS

-----------------------------------------------------------------------------
(* Run numbers and the write chain. *)

\* A bounded set of numbers that is not empty has a greatest one.
LEMMA MaxIsGreatest ==
  ASSUME NEW S \in SUBSET Nat, S # {}, NEW b \in Nat, \A x \in S : x <= b
  PROVE  Max(S) \in S /\ \A x \in S : x <= Max(S)
<1> DEFINE T == {b - x : x \in S}
<1>1. T \subseteq Nat /\ T # {}
  <2>1. \A x \in S : b - x \in Nat
    OBVIOUS
  <2>2. PICK x \in S : TRUE
    OBVIOUS
  <2>3. b - x \in T
    OBVIOUS
  <2> QED BY <2>1, <2>3
<1>2. PICK t \in T : \A u \in T : ~(<<u, t>> \in OpToRel(<, Nat))
  <2> HIDE DEF T
  <2> QED BY <1>1, WFMin, NatLessThanWellFounded
<1>3. PICK x \in S : t = b - x
  OBVIOUS
<1>4. \A y \in S : y <= x
  <2> SUFFICES ASSUME NEW y \in S, y > x PROVE FALSE
    OBVIOUS
  <2>1. b - y \in T /\ b - y < t
    BY <1>3
  <2> QED BY <1>1, <1>2, <2>1 DEF OpToRel
<1> QED BY <1>4 DEF Max

\* Numbers are bounded, so that the next one is new.
Numbers ==
  /\ DOMAIN ledger \subseteq Nat
  /\ \E b \in Nat : \A id \in DOMAIN ledger : id <= b

LEMMA NextIsNew ==
  ASSUME Numbers
  PROVE  NextRunId \in Nat \ DOMAIN ledger
<1>1. CASE DOMAIN ledger = {}
  BY <1>1 DEF NextRunId
<1>2. CASE DOMAIN ledger # {}
  <2>1. /\ Max(DOMAIN ledger) \in DOMAIN ledger
        /\ \A id \in DOMAIN ledger : id <= Max(DOMAIN ledger)
    BY <1>2, MaxIsGreatest DEF Numbers
  <2> QED BY <1>2, <2>1 DEF NextRunId, Numbers
<1> QED BY <1>1, <1>2

Chain == writes \in Seq(Range(writes))

LEMMA Enqueued ==
  ASSUME Chain, NEW w, Enqueue(w)
  PROVE  /\ Chain'
         /\ Len(writes) \in Nat
         /\ DOMAIN writes = 1 .. Len(writes)
         /\ DOMAIN writes' = 1 .. Len(writes) + 1
         /\ \A n \in DOMAIN writes : writes'[n] = writes[n]
         /\ writes'[Len(writes) + 1] = w
<1> DEFINE S == Range(writes) \cup {w}
<1>1. writes \in Seq(S)
  BY SeqMonotonic DEF Chain
<1>2. /\ writes' \in Seq(S)
      /\ Len(writes') = Len(writes) + 1
      /\ \A n \in 1 .. Len(writes) : writes'[n] = writes[n]
      /\ writes'[Len(writes) + 1] = w
  <2> HIDE DEF S
  <2>1. w \in S
    BY DEF S
  <2> QED BY <1>1, <2>1, AppendProperties DEF Enqueue
<1>3. Chain'
  BY <1>2, SeqOfRange DEF Chain
<1> HIDE DEF S
<1>4. /\ Len(writes) \in Nat /\ DOMAIN writes = 1 .. Len(writes)
      /\ DOMAIN writes' = 1 .. Len(writes')
  BY <1>1, <1>2, LenProperties
<1> QED BY <1>2, <1>3, <1>4

\* A committed write leaves the chain; the write of the body's catch may join
\* it.
LEMMA Dequeued ==
  ASSUME Chain, Commit
  PROVE  /\ Chain'
         /\ Len(writes) \in Nat \ {0}
         /\ DOMAIN writes = 1 .. Len(writes)
         /\ DOMAIN writes' \subseteq 1 .. Len(writes)
         /\ \A n \in DOMAIN writes' :
              \/ n + 1 \in DOMAIN writes /\ writes'[n] = writes[n + 1]
              \/ /\ n = Len(writes) /\ CatchFails(Head(writes))
                 /\ writes'[n] = FailedPlan(Head(writes).id)
         /\ Head(writes) = writes[1]
<1> DEFINE T == Tail(writes)
           w == FailedPlan(Head(writes).id)
           S == Range(writes) \cup {w}
<1>1. writes \in Seq(S) /\ writes # <<>>
  BY SeqMonotonic DEF Chain, Commit
<1>2. w \in S
  OBVIOUS
<1>3. \/ CatchFails(Head(writes)) /\ writes' = Append(T, w)
      \/ writes' = T
  BY DEF Commit
<1> HIDE DEF S, w
<1>4. /\ T \in Seq(S)
      /\ Len(T) = Len(writes) - 1
      /\ \A n \in 1 .. Len(T) : T[n] = writes[n + 1]
  BY <1>1, HeadTailProperties
<1>5. Len(writes) \in Nat \ {0} /\ DOMAIN writes = 1 .. Len(writes)
  BY <1>1, LenProperties, EmptySeq
<1>6. CASE writes' = T
  <2>1. Chain' /\ DOMAIN writes' = 1 .. Len(writes) - 1
    BY <1>4, <1>6, LenProperties, SeqOfRange DEF Chain
  <2> QED BY <1>1, <1>4, <1>5, <1>6, <2>1
<1>7. CASE CatchFails(Head(writes)) /\ writes' = Append(T, w)
  <2>1. /\ writes' \in Seq(S)
        /\ Len(writes') = Len(T) + 1
        /\ \A n \in 1 .. Len(T) : writes'[n] = T[n]
        /\ writes'[Len(T) + 1] = w
    BY <1>2, <1>4, <1>7, AppendProperties
  <2>2. Chain' /\ DOMAIN writes' = 1 .. Len(writes)
    BY <1>4, <1>5, <2>1, LenProperties, SeqOfRange DEF Chain
  <2> QED BY <1>1, <1>4, <1>5, <1>7, <2>1, <2>2 DEF w
<1> QED BY <1>3, <1>6, <1>7

-----------------------------------------------------------------------------
(* What a step does to the runs. *)

\* A run has the fields every run has, and one of the statuses.
Shaped ==
  \A id \in DOMAIN ledger :
    /\ DOMAIN ledger[id] = {"status", "key", "request", "issues"}
    /\ ledger[id].status \in Status

\* The only insertion under way is of a new run under a free key, and behind it
\* only the end of a planning flow may concern the number it takes.
InsertInv ==
  \A n \in DOMAIN writes : writes[n].op = "insert" =>
    /\ writes[n].id \in Nat \ DOMAIN ledger
    /\ DOMAIN writes[n].run = {"status", "key", "request", "issues"}
    /\ writes[n].run.status = "RECEIVED"
    /\ ~KeyTaken(writes[n].run.key)
    /\ \A m \in DOMAIN writes :
         /\ writes[m].op = "insert" => m = n
         /\ m > n => writes[m].op = "fail" \/ writes[m].id # writes[n].id

Ops == {"insert", "delete", "move", "start", "publish", "reject", "fail"}
Updates == {"move", "start", "publish", "reject", "fail"}
OpsKnown == \A n \in DOMAIN writes : writes[n].op \in Ops

LedgerInv ==
  Chain /\ OpsKnown /\ Numbers /\ Shaped /\ InsertInv /\ OneRunPerKey

\* Nothing moves a run back to RECEIVED.
LEMMA NothingIsReceivedAgain ==
  ASSUME NEW w, Legal(w), Shaped
  PROVE  Target(w) \in Status \ {"RECEIVED"}
<1>1. /\ ledger[w.id].status \in Status
      /\ Target(w) \in Successors(ledger[w.id].status)
  BY DEF Legal, CanTransition, Shaped
<1> QED BY <1>1 DEF Successors, Terminal, Status

\* The oldest write, when it is not an insertion, removes a run or moves one
\* along the table; every other run is left as it is.
LEMMA Committed ==
  ASSUME Chain, OpsKnown, Shaped, Commit, Head(writes).op # "insert"
  PROVE  LET w == Head(writes)
         IN  /\ DOMAIN ledger' \subseteq DOMAIN ledger
             /\ \A id \in DOMAIN ledger' :
                  /\ DOMAIN ledger'[id] = {"status", "key", "request", "issues"}
                  /\ ledger'[id].status \in Status
                  /\ ledger'[id].key = ledger[id].key
                  /\ ledger'[id].request = ledger[id].request
                  /\ \/ ledger'[id].status = ledger[id].status
                     \/ /\ id = w.id /\ w.op # "delete" /\ Legal(w)
                        /\ ledger'[id].status = Target(w)
<1> DEFINE w == Head(writes)
<1>1. CASE w.op = "delete"
  BY <1>1 DEF Commit, Shaped
<1>2. CASE w.op \in Updates /\ Legal(w)
  <2>1. ledger' = [ledger EXCEPT ![w.id].status = Target(w),
                                 ![w.id].issues = IF w.op = "publish"
                                                  THEN w.issues ELSE @]
    BY <1>2 DEF Commit, CommitUpdate, Updates
  <2>2. \A id \in DOMAIN ledger : id # w.id => ledger'[id] = ledger[id]
    BY <2>1
  <2>3. w.id \in DOMAIN ledger
    BY <1>2 DEF Legal
  <2>4. /\ DOMAIN ledger'[w.id] = {"status", "key", "request", "issues"}
        /\ ledger'[w.id].key = ledger[w.id].key
        /\ ledger'[w.id].request = ledger[w.id].request
        /\ ledger'[w.id].status = Target(w)
    BY <2>1, <2>3 DEF Shaped
  <2>5. Target(w) \in Status
    BY <1>2, NothingIsReceivedAgain
  <2> QED BY <1>2, <2>1, <2>2, <2>4, <2>5 DEF Shaped, Updates
<1>3. CASE w.op \in Updates /\ ~Legal(w)
  <2>1. ledger' = ledger
    BY <1>3 DEF Commit, CommitUpdate, Updates
  <2> QED BY <2>1 DEF Shaped
<1>4. w.op \in Ops
  <2>1. w = writes[1] /\ 1 \in DOMAIN writes
    BY Dequeued
  <2> QED BY <2>1 DEF OpsKnown
<1> QED BY <1>1, <1>2, <1>3, <1>4 DEF Ops, Updates

\* An insertion adds the run it carries and nothing else.
LEMMA Inserted ==
  ASSUME Chain, InsertInv, Commit, Head(writes).op = "insert"
  PROVE  LET w == Head(writes)
         IN  /\ w.id \in Nat \ DOMAIN ledger
             /\ DOMAIN ledger' = DOMAIN ledger \cup {w.id}
             /\ ledger'[w.id] = w.run
             /\ DOMAIN w.run = {"status", "key", "request", "issues"}
             /\ w.run.status = "RECEIVED" /\ ~KeyTaken(w.run.key)
             /\ \A id \in DOMAIN ledger : ledger'[id] = ledger[id]
             /\ \A n \in DOMAIN writes' :
                  /\ writes'[n].op # "insert"
                  /\ writes'[n].op = "fail" \/ writes'[n].id # w.id
             /\ UNCHANGED flow
<1> DEFINE w == Head(writes)
<1>1. ~CatchFails(w)
  BY DEF CatchFails
<1>2. 1 \in DOMAIN writes /\ w = writes[1]
  BY Dequeued
<1>3. ledger' = With(ledger, w.id, w.run) /\ UNCHANGED flow
  BY DEF Commit, FlowAfter
<1>4. /\ w.id \in Nat \ DOMAIN ledger
      /\ DOMAIN w.run = {"status", "key", "request", "issues"}
      /\ w.run.status = "RECEIVED" /\ ~KeyTaken(w.run.key)
  BY <1>2 DEF InsertInv
<1>5. ASSUME NEW n \in DOMAIN writes'
      PROVE  /\ writes'[n].op # "insert"
             /\ writes'[n].op = "fail" \/ writes'[n].id # w.id
  <2>1. n + 1 \in DOMAIN writes /\ n + 1 > 1 /\ writes'[n] = writes[n + 1]
    BY <1>1, Dequeued
  <2> QED BY <1>2, <2>1 DEF InsertInv
<1>6. /\ DOMAIN ledger' = DOMAIN ledger \cup {w.id}
      /\ ledger'[w.id] = w.run
      /\ \A id \in DOMAIN ledger : ledger'[id] = ledger[id]
  BY <1>3, <1>4 DEF With
<1> QED BY <1>3, <1>4, <1>5, <1>6

\* A write that is not an insertion, for a run there is or from a planning flow
\* that failed, waits in the chain.
LEMMA Queued ==
  ASSUME LedgerInv, NEW w, w.op \in Ops \ {"insert"},
         w.op = "fail" \/ w.id \in DOMAIN ledger,
         Enqueue(w), UNCHANGED ledger
  PROVE  LedgerInv'
<1>1. Chain' /\ Numbers' /\ Shaped' /\ OneRunPerKey'
  BY Enqueued DEF LedgerInv, Numbers, Shaped, OneRunPerKey
<1>2. InsertInv' /\ OpsKnown'
  <2>1. /\ Len(writes) \in Nat
        /\ DOMAIN writes = 1 .. Len(writes)
        /\ DOMAIN writes' = 1 .. Len(writes) + 1
        /\ \A n \in DOMAIN writes : writes'[n] = writes[n]
        /\ writes'[Len(writes) + 1] = w
    BY Enqueued DEF LedgerInv
  <2> QED BY <2>1 DEF LedgerInv, InsertInv, KeyTaken, OpsKnown
<1> QED BY <1>1, <1>2 DEF LedgerInv

LEMMA LedgerStep == LedgerInv /\ [Next]_vars => LedgerInv'
<1> SUFFICES ASSUME LedgerInv, [Next]_vars PROVE LedgerInv'
  OBVIOUS
<1>1. CASE UNCHANGED <<ledger, writes>>
  BY <1>1 DEF LedgerInv, Chain, Numbers, Shaped, InsertInv, OneRunPerKey,
     KeyTaken, OpsKnown
<1>2. CASE SubmitJob /\ ~UNCHANGED writes
  <2> DEFINE w == [op |-> "insert", id |-> NextRunId,
                   run |-> NewRun(Head(tail))]
  <2>1. /\ Enqueue(w) /\ JobMayStart /\ ~KeyTaken(w.run.key)
        /\ UNCHANGED ledger
    BY <1>2 DEF SubmitJob, NewRun
  <2>2. NextRunId \in Nat \ DOMAIN ledger
    BY NextIsNew DEF LedgerInv
  <2>3. /\ Chain'
        /\ Len(writes) \in Nat
        /\ DOMAIN writes = 1 .. Len(writes)
        /\ DOMAIN writes' = 1 .. Len(writes) + 1
        /\ \A n \in DOMAIN writes : writes'[n] = writes[n]
        /\ writes'[Len(writes) + 1] = w
    BY <2>1, Enqueued DEF LedgerInv
  <2>4. \A n \in DOMAIN writes : writes'[n].op # "insert"
    BY <2>1, <2>3 DEF JobMayStart
  <2>5. \A key : KeyTaken(key)' <=> KeyTaken(key)
    BY <2>1 DEF KeyTaken
  <2>6. InsertInv'
    <3> SUFFICES ASSUME NEW n \in DOMAIN writes', writes'[n].op = "insert"
                 PROVE  /\ writes'[n].id \in Nat \ DOMAIN ledger'
                        /\ DOMAIN writes'[n].run
                             = {"status", "key", "request", "issues"}
                        /\ writes'[n].run.status = "RECEIVED"
                        /\ ~KeyTaken(writes[n].run.key)'
                        /\ \A m \in DOMAIN writes' :
                             /\ writes'[m].op = "insert" => m = n
                             /\ m > n => writes'[m].id # writes'[n].id
      BY DEF InsertInv
    <3>1. n = Len(writes) + 1 /\ writes'[n] = w
      BY <2>3, <2>4
    <3>2. KeyTaken(writes[n].run.key)' <=> KeyTaken(w.run.key)
      BY <2>5, <3>1
    <3> QED BY <3>2,  <2>1, <2>2, <2>3, <2>4, <2>5, <3>1 DEF NewRun
  <2>7. Numbers' /\ Shaped' /\ OneRunPerKey' /\ OpsKnown'
    BY <2>1, <2>3
       DEF LedgerInv, Numbers, Shaped, OneRunPerKey, OpsKnown, Ops
  <2> QED BY <2>3, <2>6, <2>7 DEF LedgerInv
<1>3. ASSUME NEW id \in DOMAIN ledger,
             Delete(id) \/ MoveOn(id) \/ (PlanRequest(id) /\ ~UNCHANGED writes)
      PROVE  LedgerInv'
  <2>1. CASE Delete(id)
    BY <2>1, Queued DEF Delete, Ops
  <2>2. CASE MoveOn(id)
    BY <2>2, Queued DEF MoveOn, Ops
  <2>3. CASE PlanRequest(id) /\ ~UNCHANGED writes
    BY <2>3, Queued DEF PlanRequest, Ops
  <2> QED BY <1>3, <2>1, <2>2, <2>3
<1>4. ASSUME NEW id \in DOMAIN flow, PlannerAnswers(id)
      PROVE  LedgerInv'
  BY <1>4, Queued DEF PlannerAnswers, Ops
<1>8. ASSUME NEW id \in DOMAIN flow, PlannerFails(id)
      PROVE  LedgerInv'
  BY <1>8, Queued DEF PlannerFails, FailedPlan, Ops, Updates
<1>5. CASE Commit /\ Head(writes).op = "insert"
  <2> DEFINE w == Head(writes)
  <2>1. /\ w.id \in Nat \ DOMAIN ledger
        /\ DOMAIN ledger' = DOMAIN ledger \cup {w.id}
        /\ ledger'[w.id] = w.run
        /\ DOMAIN w.run = {"status", "key", "request", "issues"}
        /\ w.run.status \in Status
        /\ ~KeyTaken(w.run.key)
        /\ \A id \in DOMAIN ledger : ledger'[id] = ledger[id]
        /\ \A n \in DOMAIN writes' : writes'[n].op # "insert"
    BY <1>5, Inserted DEF LedgerInv, Status
  <2>2. Chain' /\ OpsKnown'
    BY <1>5, Dequeued DEF LedgerInv, CatchFails, OpsKnown
  <2>3. Numbers'
    <3>1. PICK b \in Nat : \A id \in DOMAIN ledger : id <= b
      BY DEF LedgerInv, Numbers
    <3>2. \A id \in DOMAIN ledger' : id <= b + w.id
      BY <2>1, <3>1 DEF LedgerInv, Numbers
    <3>3. b + w.id \in Nat
      BY <2>1
    <3> QED BY <2>1, <3>2, <3>3 DEF LedgerInv, Numbers
  <2>4. Shaped' /\ InsertInv'
    BY <2>1 DEF LedgerInv, Shaped, InsertInv
  <2>5. OneRunPerKey'
    BY <2>1 DEF LedgerInv, OneRunPerKey, KeyTaken
  <2> QED BY <2>2, <2>3, <2>4, <2>5 DEF LedgerInv
<1>6. CASE Commit /\ Head(writes).op # "insert"
  <2>1. /\ DOMAIN ledger' \subseteq DOMAIN ledger
        /\ \A id \in DOMAIN ledger' :
             /\ DOMAIN ledger'[id] = {"status", "key", "request", "issues"}
             /\ ledger'[id].status \in Status
             /\ ledger'[id].key = ledger[id].key
    BY <1>6, Committed DEF LedgerInv
  <2>2. /\ Chain'
        /\ Len(writes) \in Nat \ {0}
        /\ DOMAIN writes = 1 .. Len(writes)
        /\ DOMAIN writes' \subseteq 1 .. Len(writes)
        /\ \A n \in DOMAIN writes' :
             \/ n + 1 \in DOMAIN writes /\ writes'[n] = writes[n + 1]
             \/ n = Len(writes) /\ writes'[n].op = "fail"
    BY <1>6, Dequeued DEF LedgerInv, FailedPlan
  <2>3. Numbers' /\ Shaped' /\ OneRunPerKey' /\ OpsKnown'
    BY <2>1, <2>2
       DEF LedgerInv, Numbers, Shaped, OneRunPerKey, OpsKnown, Ops
  <2>4. \A key : KeyTaken(key)' => KeyTaken(key)
    BY <2>1 DEF KeyTaken
  <2>5. InsertInv'
    BY <2>1, <2>2, <2>4 DEF LedgerInv, InsertInv
  <2> QED BY <2>2, <2>3, <2>5 DEF LedgerInv
<1>7. CASE HostStops
  <2>1. writes' = <<>> /\ UNCHANGED ledger
    BY <1>7 DEF HostStops
  <2>2. Chain' /\ DOMAIN writes' = {}
    BY <2>1, EmptySeq DEF Chain
  <2> QED BY <2>1, <2>2 DEF LedgerInv, Numbers, Shaped, InsertInv, OneRunPerKey,
     OpsKnown
<1> QED
  BY <1>1, <1>2, <1>3, <1>4, <1>5, <1>6, <1>7, <1>8
     DEF Next, Submit, SubmitJob, PlanRequest, PlannerStale, vars

LEMMA LedgerInit == Init => LedgerInv
<1> SUFFICES ASSUME Init PROVE LedgerInv
  OBVIOUS
<1>1. Chain /\ DOMAIN writes = {} /\ DOMAIN ledger = {}
  BY EmptySeq DEF Init, Chain
<1> QED
  BY <1>1 DEF LedgerInv, Numbers, Shaped, InsertInv, OneRunPerKey,
     OpsKnown

\* For any number of submits, deletions and stops: an idempotency key names
\* at most one run of the ledger.
THEOREM KeysAreUnique == Spec => []OneRunPerKey
<1>1. LedgerInv => OneRunPerKey
  BY DEF LedgerInv
<1> QED
  BY <1>1, LedgerInit, LedgerStep, PTL DEF Spec

-----------------------------------------------------------------------------
(* Runs keep their identity. *)

LEMMA IdentityStep ==
  ASSUME LedgerInv, [Next]_vars, NEW id \in DOMAIN ledger \cap DOMAIN ledger'
  PROVE  /\ ledger'[id].key = ledger[id].key
         /\ ledger'[id].request = ledger[id].request
         /\ ledger'[id].status = "RECEIVED" => ledger[id].status = "RECEIVED"
<1>1. CASE Commit /\ Head(writes).op = "insert"
  <2>1. ledger'[id] = ledger[id]
    BY <1>1, Inserted DEF LedgerInv
  <2> QED BY <2>1
<1>2. CASE Commit /\ Head(writes).op # "insert"
  <2> DEFINE w == Head(writes)
  <2>1. /\ ledger'[id].key = ledger[id].key
        /\ ledger'[id].request = ledger[id].request
        /\ \/ ledger'[id].status = ledger[id].status
           \/ Legal(w) /\ ledger'[id].status = Target(w)
    BY <1>2, Committed DEF LedgerInv
  <2> QED BY <2>1, NothingIsReceivedAgain DEF LedgerInv
<1>3. CASE UNCHANGED ledger
  BY <1>3
<1> QED
  BY <1>1, <1>2, <1>3
     DEF Next, Submit, SubmitJob, Delete, MoveOn, PlanRequest, PlannerAnswers,
         PlannerStale, PlannerFails, HostStops, vars

\* However submits, deletions, planning flows and stops overlap: a number of
\* the ledger keeps the key and the request of its run as long as it names
\* one, and no run is received again.
THEOREM RunsAreNotReplaced == Spec => RunsKeepTheirIdentity
<1>1. LedgerInv /\ [Next]_vars =>
        [\A id \in DOMAIN ledger \cap DOMAIN ledger' :
           /\ ledger'[id].key = ledger[id].key
           /\ ledger'[id].request = ledger[id].request
           /\ ledger'[id].status = "RECEIVED" => ledger[id].status = "RECEIVED"
        ]_vars
  BY IdentityStep
<1> QED
  BY <1>1, LedgerInit, LedgerStep, PTL DEF Spec, RunsKeepTheirIdentity

-----------------------------------------------------------------------------
(* Plans answer the request of their run. *)

PlanWrites == {"start", "publish", "reject", "fail"}

\* Every write of a planning flow is the only one of its flow, and says what
\* the flow waits for.
PlanWriteInv ==
  \A n \in DOMAIN writes : writes[n].op \in PlanWrites =>
    /\ writes[n].id \in DOMAIN flow
    /\ \A m \in DOMAIN writes :
         writes[m].op \in PlanWrites /\ writes[m].id = writes[n].id => m = n
    /\ writes[n].op = "start" =>
         /\ flow[writes[n].id].stage = "starting"
         /\ writes[n].to = "PLANNING"
         /\ writes[n].id \in DOMAIN ledger =>
              ledger[writes[n].id].request = flow[writes[n].id].request
    /\ writes[n].op # "start" =>
         /\ flow[writes[n].id].stage = "writing"
         /\ writes[n].op # "fail" =>
              writes[n].request = flow[writes[n].id].request

\* Nobody else plans or fails a run that was just received.
MoveInv ==
  \A n \in DOMAIN writes :
    /\ writes[n].op = "move"
    /\ writes[n].to \in {"PLANNING", "FAILED"}
    /\ writes[n].id \in DOMAIN ledger
    => ledger[writes[n].id].status # "RECEIVED"

\* A flow plans the run that has its number, or one that no plan can be
\* published to.
FlowInv ==
  /\ \A id \in DOMAIN flow : DOMAIN flow[id] = {"stage", "request", "aborted"}
  /\ \A id \in DOMAIN flow \cap DOMAIN ledger :
       \/ flow[id].request = ledger[id].request
       \/ ledger[id].status \in {"RECEIVED", "CANCELLED"}

PlanInv ==
  LedgerInv /\ PlanWriteInv /\ MoveInv /\ FlowInv

\* What Enqueued says of the chain.
Longer(w) ==
  /\ Len(writes) \in Nat
  /\ DOMAIN writes = 1 .. Len(writes)
  /\ DOMAIN writes' = 1 .. Len(writes) + 1
  /\ \A n \in DOMAIN writes : writes'[n] = writes[n]
  /\ writes'[Len(writes) + 1] = w

LEMMA PlanStep == PlanInv /\ [Next]_vars => PlanInv'
<1> SUFFICES ASSUME PlanInv, [Next]_vars PROVE PlanInv'
  OBVIOUS
<1> USE DEF PlanWrites
<1>1. LedgerInv'
  BY LedgerStep DEF PlanInv
<1>2. LedgerInv /\ Chain /\ OpsKnown /\ PlanWriteInv /\ MoveInv /\ FlowInv
  BY DEF PlanInv, LedgerInv
<1>3. ASSUME NEW w, Enqueue(w)
      PROVE  Longer(w)
  BY <1>2, <1>3, Enqueued DEF Longer
<1>4. CASE UNCHANGED <<ledger, writes, flow>>
  BY <1>1, <1>2, <1>4 DEF PlanInv, PlanWriteInv, MoveInv, FlowInv
<1>5. CASE SubmitJob /\ ~UNCHANGED writes
  <2> DEFINE w == [op |-> "insert", id |-> NextRunId,
                   run |-> NewRun(Head(tail))]
  <2>1. Enqueue(w) /\ UNCHANGED <<ledger, flow>>
    BY <1>5 DEF SubmitJob
  <2>2. Longer(w) /\ w.op = "insert"
    BY <2>1, <1>3
  <2> HIDE DEF w
  <2> QED BY <1>1, <1>2, <2>1, <2>2
             DEF PlanInv, PlanWriteInv, MoveInv, FlowInv, Longer
<1>6. ASSUME NEW id \in DOMAIN ledger, Delete(id) \/ MoveOn(id)
      PROVE  PlanInv'
  <2>1. PICK w : /\ Enqueue(w) /\ w.op \in {"delete", "move"} /\ w.id = id
                 /\ w.op = "move" /\ w.to \in {"PLANNING", "FAILED"} =>
                      ledger[id].status # "RECEIVED"
    <3>1. CASE Delete(id)
      BY <3>1 DEF Delete
    <3>2. CASE MoveOn(id)
      BY <3>2 DEF MoveOn
    <3> QED BY <1>6, <3>1, <3>2
  <2>2. Longer(w) /\ UNCHANGED <<ledger, flow>>
    BY <1>3, <1>6, <2>1 DEF Delete, MoveOn
  <2> QED BY <1>1, <1>2, <2>1, <2>2
             DEF PlanInv, PlanWriteInv, MoveInv, FlowInv, Longer
<1>7. ASSUME NEW id \in DOMAIN ledger, PlanRequest(id)
      PROVE  PlanInv'
  <2> DEFINE st == IF ledger[id].status = "RECEIVED" THEN "starting"
                   ELSE "asking"
  <2>1. /\ id \notin DOMAIN flow
        /\ DOMAIN flow' = DOMAIN flow \cup {id}
        /\ flow'[id] = [stage |-> st, request |-> ledger[id].request,
                        aborted |-> FALSE]
        /\ \A r \in DOMAIN flow : flow'[r] = flow[r]
        /\ UNCHANGED ledger
    BY <1>7 DEF PlanRequest, SingleFlight
  <2>2. FlowInv'
    BY <1>2, <2>1 DEF FlowInv
  <2>3. CASE ledger[id].status = "RECEIVED"
    <3> DEFINE w == [op |-> "start", id |-> id, to |-> "PLANNING"]
    <3>1. Longer(w) /\ flow'[id].stage = "starting"
      BY <1>3, <1>7, <2>1, <2>3 DEF PlanRequest
    <3>2. \A n \in DOMAIN writes :
            writes[n].op \in PlanWrites => writes[n].id # id
      BY <1>2, <2>1 DEF PlanWriteInv
    <3>3. PlanWriteInv'
      BY <1>2, <2>1, <3>1, <3>2 DEF PlanWriteInv, Longer
    <3>4. MoveInv'
      BY <1>2, <2>1, <3>1 DEF MoveInv, Longer
    <3> QED BY <1>1, <2>2, <3>3, <3>4 DEF PlanInv
  <2>4. CASE ledger[id].status # "RECEIVED"
    <3>1. UNCHANGED writes
      BY <1>7, <2>4 DEF PlanRequest
    <3> QED BY <1>1, <1>2, <2>1, <2>2, <3>1 DEF PlanInv, PlanWriteInv, MoveInv
  <2> QED BY <2>3, <2>4
<1>8. ASSUME NEW id \in DOMAIN flow, PlannerAnswers(id) \/ PlannerFails(id)
      PROVE  PlanInv'
  <2>1. PICK w : /\ Enqueue(w) /\ w.op \in {"publish", "reject", "fail"}
                 /\ w.id = id
                 /\ w.op # "fail" => w.request = flow[id].request
    <3>1. CASE PlannerAnswers(id)
      BY <3>1 DEF PlannerAnswers
    <3>2. CASE PlannerFails(id)
      BY <3>2 DEF PlannerFails, FailedPlan
    <3> QED BY <1>8, <3>1, <3>2
  <2>2. /\ flow[id].stage = "asking" /\ UNCHANGED ledger
        /\ flow' = [flow EXCEPT ![id].stage = "writing"]
    BY <1>8 DEF PlannerAnswers, PlannerFails
  <2>3. /\ DOMAIN flow' = DOMAIN flow
        /\ \A r \in DOMAIN flow : /\ DOMAIN flow'[r] = {"stage", "request", "aborted"}
                                  /\ flow'[r].request = flow[r].request
                                  /\ r # id => flow'[r] = flow[r]
        /\ flow'[id].stage = "writing"
    BY <1>2, <2>2 DEF FlowInv
  <2>4. Longer(w)
    BY <1>3, <2>1
  <2>5. \A n \in DOMAIN writes :
          writes[n].op \in PlanWrites => writes[n].id # id
    BY <1>2, <2>2 DEF PlanWriteInv
  <2>6. PlanWriteInv'
    BY <1>2, <2>1, <2>2, <2>3, <2>4, <2>5 DEF PlanWriteInv, Longer
  <2>7. MoveInv' /\ FlowInv'
    BY <1>2, <2>1, <2>2, <2>3, <2>4 DEF MoveInv, FlowInv, Longer
  <2> QED BY <1>1, <2>6, <2>7 DEF PlanInv
<1>9. ASSUME NEW id \in DOMAIN flow, PlannerStale(id)
      PROVE  PlanInv'
  <2>1. /\ flow[id].stage = "asking" /\ UNCHANGED <<ledger, writes>>
        /\ DOMAIN flow' = DOMAIN flow \ {id}
        /\ \A r \in DOMAIN flow' : flow'[r] = flow[r]
    BY <1>9 DEF PlannerStale, FlowEnds
  <2> QED BY <1>1, <1>2, <2>1 DEF PlanInv, PlanWriteInv, MoveInv, FlowInv
<1>10. CASE Commit /\ Head(writes).op = "insert"
  <2> DEFINE w == Head(writes)
  <2>1. /\ DOMAIN ledger' = DOMAIN ledger \cup {w.id}
        /\ ledger'[w.id].status = "RECEIVED"
        /\ \A id \in DOMAIN ledger : ledger'[id] = ledger[id]
        /\ \A n \in DOMAIN writes' :
             writes'[n].op = "fail" \/ writes'[n].id # w.id
        /\ UNCHANGED flow
    BY <1>2, <1>10, Inserted DEF LedgerInv
  <2>2. \A n \in DOMAIN writes' :
          n + 1 \in DOMAIN writes /\ writes'[n] = writes[n + 1]
    BY <1>2, <1>10, Dequeued DEF CatchFails
  <2>3. DOMAIN writes \subseteq Nat /\ DOMAIN writes' \subseteq Nat
    BY <1>2, <1>10, Dequeued
  <2>4. PlanWriteInv'
    BY <1>2, <2>1, <2>2, <2>3 DEF PlanWriteInv
  <2>5. MoveInv' /\ FlowInv'
    BY <1>2, <2>1, <2>2 DEF MoveInv, FlowInv
  <2> QED BY <1>1, <2>4, <2>5 DEF PlanInv
<1>11. CASE Commit /\ Head(writes).op # "insert"
  <2> DEFINE w == Head(writes)
  <2>1. /\ DOMAIN ledger' \subseteq DOMAIN ledger
        /\ \A id \in DOMAIN ledger' :
             /\ ledger'[id].request = ledger[id].request
             /\ \/ ledger'[id].status = ledger[id].status
                \/ /\ id = w.id /\ w.op # "delete" /\ Legal(w)
                   /\ ledger'[id].status = Target(w)
    BY <1>2, <1>11, Committed DEF LedgerInv
  <2>2. /\ 1 \in DOMAIN writes /\ w = writes[1]
        /\ DOMAIN writes \subseteq Nat /\ DOMAIN writes' \subseteq Nat \ {0}
        /\ \A n \in DOMAIN writes' :
             \/ n + 1 \in DOMAIN writes /\ writes'[n] = writes[n + 1]
             \/ /\ n = Len(writes) /\ CatchFails(w)
                /\ writes'[n].op = "fail" /\ writes'[n].id = w.id
        /\ \A n \in DOMAIN writes' : n <= Len(writes)
        /\ DOMAIN writes = 1 .. Len(writes) /\ Len(writes) \in Nat
    BY <1>2, <1>11, Dequeued DEF FailedPlan
  <2>3. w.op \in {"delete", "move", "start", "publish", "reject", "fail"}
    BY <1>2, <1>11, <2>2 DEF OpsKnown, Ops
  <2>4. \A id \in DOMAIN ledger' :
          ledger[id].status # "RECEIVED" => ledger'[id].status # "RECEIVED"
    BY <1>2, <2>1, NothingIsReceivedAgain DEF LedgerInv
  <2>5. MoveInv'
    BY <1>2, <2>1, <2>2, <2>4 DEF MoveInv
  <2>6. flow' = FlowAfter(w)
    BY <1>11 DEF Commit
  <2>7. CASE w.op \in {"delete", "move"}
    <3>1. /\ DOMAIN flow' = DOMAIN flow
          /\ \A r \in DOMAIN flow : /\ DOMAIN flow'[r] = {"stage", "request", "aborted"}
                                    /\ flow'[r].request = flow[r].request
                                    /\ flow'[r].stage = flow[r].stage
      BY <1>2, <2>6, <2>7 DEF FlowAfter, FlowInv
    <3>2. \A n \in DOMAIN writes' :
            n + 1 \in DOMAIN writes /\ writes'[n] = writes[n + 1]
      BY <2>2, <2>7 DEF CatchFails
    <3>3. PlanWriteInv'
      BY <1>2, <2>1, <2>2, <3>1, <3>2 DEF PlanWriteInv
    <3>4. FlowInv'
      <4> SUFFICES ASSUME NEW id \in DOMAIN flow \cap DOMAIN ledger',
                          flow[id].request # ledger[id].request
                   PROVE  ledger'[id].status \in {"RECEIVED", "CANCELLED"}
        BY <1>2, <2>1, <3>1 DEF FlowInv
      <4>1. ledger[id].status \in {"RECEIVED", "CANCELLED"}
        BY <1>2, <2>1 DEF FlowInv
      <4>2. CASE ledger'[id].status = ledger[id].status
        BY <4>1, <4>2
      <4>3. CASE /\ id = w.id /\ w.op # "delete" /\ Legal(w)
                 /\ ledger'[id].status = Target(w)
        <5>1. w.op = "move" /\ Target(w) = w.to
          BY <2>7, <4>3 DEF Target
        <5>2. w.to \in {"PLANNING", "FAILED"} => ledger[id].status # "RECEIVED"
          BY <1>2, <2>1, <2>2, <4>3, <5>1 DEF MoveInv
        <5>3. w.to \in Successors(ledger[id].status)
          BY <4>3, <5>1 DEF Legal, CanTransition
        <5> QED BY <4>1, <4>3, <5>1, <5>2, <5>3 DEF Successors, Terminal
      <4> QED BY <2>1, <4>2, <4>3
    <3> QED BY <1>1, <2>5, <3>3, <3>4 DEF PlanInv
  <2>8. CASE w.op \in PlanWrites /\ ~CatchFails(w)
    <3>1. \A n \in DOMAIN writes' :
            /\ n + 1 \in DOMAIN writes /\ writes'[n] = writes[n + 1]
            /\ writes'[n].op \in PlanWrites => writes'[n].id # w.id
      BY <1>2, <2>2, <2>8 DEF PlanWriteInv
    <3>2. w.id \in DOMAIN flow
      BY <1>2, <2>2, <2>8 DEF PlanWriteInv
    <3>3. \/ flow' = FlowEnds(w.id)
          \/ /\ w.op = "start" /\ Legal(w)
             /\ flow' = [flow EXCEPT ![w.id].stage = "asking"]
      BY <2>6, <2>8 DEF FlowAfter
    <3>4. /\ DOMAIN flow' \subseteq DOMAIN flow
          /\ DOMAIN flow \ {w.id} \subseteq DOMAIN flow'
          /\ \A r \in DOMAIN flow' : /\ DOMAIN flow'[r] = {"stage", "request", "aborted"}
                                     /\ flow'[r].request = flow[r].request
                                     /\ r # w.id => flow'[r] = flow[r]
          /\ w.id \in DOMAIN flow' => w.op = "start" /\ Legal(w)
      BY <1>2, <3>2, <3>3 DEF FlowInv, FlowEnds
    <3>5. PlanWriteInv'
      BY <1>2, <2>1, <2>2, <3>1, <3>4 DEF PlanWriteInv
    <3>6. FlowInv'
      <4> SUFFICES ASSUME NEW id \in DOMAIN flow' \cap DOMAIN ledger',
                          flow[id].request # ledger[id].request
                   PROVE  ledger'[id].status \in {"RECEIVED", "CANCELLED"}
        BY <2>1, <3>4 DEF FlowInv
      <4>1. ledger[id].status \in {"RECEIVED", "CANCELLED"}
        BY <1>2, <2>1, <3>4 DEF FlowInv
      <4>2. id # w.id
        BY <1>2, <2>1, <2>2, <2>8, <3>4 DEF PlanWriteInv
      <4> QED BY <2>1, <4>1, <4>2
    <3> QED BY <1>1, <2>5, <3>5, <3>6 DEF PlanInv
  <2>9. CASE CatchFails(w)
    <3>1. UNCHANGED flow /\ w.op \in {"publish", "reject"} /\ ~Legal(w)
      BY <2>6, <2>9 DEF FlowAfter, CatchFails
    <3>2. \A id \in DOMAIN ledger' : ledger'[id].status = ledger[id].status
      BY <2>1, <3>1
    <3>3. \A n, m \in DOMAIN writes' :
            /\ writes'[n].op \in PlanWrites /\ writes'[m].op \in PlanWrites
            /\ writes'[m].id = writes'[n].id
            => m = n
      BY <1>2, <2>2, <3>1 DEF PlanWriteInv
    <3>4. PlanWriteInv'
      BY <1>2, <2>1, <2>2, <3>1, <3>3 DEF PlanWriteInv
    <3>5. FlowInv'
      BY <1>2, <2>1, <3>1, <3>2 DEF FlowInv
    <3> QED BY <1>1, <2>5, <3>4, <3>5 DEF PlanInv
  <2> QED BY <2>3, <2>7, <2>8, <2>9
<1>12. CASE HostStops
  <2>1. DOMAIN writes' = {} /\ DOMAIN flow' = {}
    BY <1>12, EmptySeq DEF HostStops
  <2> QED BY <1>1, <2>1 DEF PlanInv, PlanWriteInv, MoveInv, FlowInv
<1> QED
  BY <1>4, <1>5, <1>6, <1>7, <1>8, <1>9, <1>10, <1>11, <1>12
     DEF Next, Submit, SubmitJob, vars

\* Whatever is planned, deleted, cancelled and lost in between: a plan that is
\* published answers the request of the run it is published to, also when the
\* run was deleted while it was planned and its number was given to another.
THEOREM PlansAnswerTheirRun == Spec => []PlanAnswersItsRun
<1>1. Init => PlanInv
  <2> SUFFICES ASSUME Init PROVE PlanInv
    OBVIOUS
  <2>1. DOMAIN writes = {} /\ DOMAIN flow = {}
    BY EmptySeq DEF Init
  <2> QED BY <2>1, LedgerInit DEF PlanInv, PlanWriteInv, MoveInv, FlowInv
<1>2. PlanInv => PlanAnswersItsRun
  <2> SUFFICES ASSUME PlanInv, NEW n \in DOMAIN writes,
                      writes[n].op = "publish", Legal(writes[n])
               PROVE  ledger[writes[n].id].request = writes[n].request
    BY DEF PlanAnswersItsRun
  <2> DEFINE id == writes[n].id
  <2>1. /\ id \in DOMAIN flow /\ id \in DOMAIN ledger
        /\ writes[n].request = flow[id].request
    BY DEF PlanInv, PlanWriteInv, PlanWrites, Legal
  <2>2. "READY" \in Successors(ledger[id].status)
    BY DEF Legal, CanTransition, Target
  <2>3. ledger[id].status \notin {"RECEIVED", "CANCELLED"}
    BY <2>2 DEF Successors, Terminal
  <2> QED BY <2>1, <2>3 DEF PlanInv, FlowInv
<1> QED BY <1>1, <1>2, PlanStep, PTL DEF Spec

-----------------------------------------------------------------------------
(* Plans keep their shape. *)

IsPlan(plan) ==
  /\ plan \in Seq(ToSet(plan))
  /\ \A i \in DOMAIN plan : plan[i].deps \in Seq(DepsIn(plan, i))

\* A function on 1 .. n is a list of length n.
LEMMA ListOf ==
  ASSUME NEW n \in Nat, NEW f, DOMAIN f = 1 .. n, NEW S,
         f \in [1 .. n -> S]
  PROVE  f \in Seq(S) /\ Len(f) = n
<1>1. f \in Seq(S)
  BY SeqDef
<1>2. Len(f) \in Nat /\ DOMAIN f = 1 .. Len(f)
  BY <1>1, LenProperties
<1> QED BY <1>1, <1>2

\* Renumbering leaves the lists as long as they were.
LEMMA NumberedIs ==
  ASSUME NEW plan, IsPlan(plan), NEW max
  PROVE  /\ Len(plan) \in Nat /\ DOMAIN plan = 1 .. Len(plan)
         /\ Len(Numbered(plan, max)) = Len(plan)
         /\ DOMAIN Numbered(plan, max) = 1 .. Len(plan)
         /\ \A i \in DOMAIN plan :
              /\ Numbered(plan, max)[i].key = max + i
              /\ DOMAIN plan[i].deps = 1 .. Len(plan[i].deps)
              /\ Numbered(plan, max)[i].deps
                   = [m \in DOMAIN plan[i].deps |->
                        NewName(plan, i, plan[i].deps[m], max)]
              /\ Len(Numbered(plan, max)[i].deps) = Len(plan[i].deps)
<1> DEFINE issues == Numbered(plan, max)
<1>1. Len(plan) \in Nat /\ DOMAIN plan = 1 .. Len(plan)
  BY LenProperties DEF IsPlan
<1>2. /\ DOMAIN issues = DOMAIN plan
      /\ \A i \in DOMAIN plan :
           issues[i] = [key |-> max + i,
                        deps |-> [m \in DOMAIN plan[i].deps |->
                                    NewName(plan, i, plan[i].deps[m], max)]]
  BY DEF Numbered
<1>3. Len(issues) = Len(plan)
  <2> DEFINE S == {issues[i] : i \in DOMAIN plan}
  <2>1. issues \in [1 .. Len(plan) -> S]
    BY <1>1, <1>2 DEF Numbered
  <2> HIDE DEF issues, S
  <2> QED BY <1>1, <1>2, <2>1, ListOf
<1>4. ASSUME NEW i \in DOMAIN plan
      PROVE  /\ DOMAIN plan[i].deps = 1 .. Len(plan[i].deps)
             /\ Len(issues[i].deps) = Len(plan[i].deps)
  <2> DEFINE d == plan[i].deps
             e == [m \in DOMAIN d |-> NewName(plan, i, d[m], max)]
             S == {e[m] : m \in DOMAIN d}
  <2>1. Len(d) \in Nat /\ DOMAIN d = 1 .. Len(d)
    BY LenProperties DEF IsPlan
  <2>2. issues[i].deps = e
    BY <1>2
  <2>3. e \in [DOMAIN d -> S]
    OBVIOUS
  <2>4. DOMAIN e = DOMAIN d
    OBVIOUS
  <2> HIDE DEF issues, e, d, S
  <2>5. Len(e) = Len(d)
    BY <2>1, <2>3, <2>4, ListOf
  <2> QED BY <2>1, <2>2, <2>5 DEF d
<1> QED BY <1>1, <1>2, <1>3, <1>4

\* Renumbering a plan that lists dependencies first only renames.
LEMMA NumberedKeepsShape ==
  ASSUME NEW plan, IsPlan(plan), DependenciesListedFirst(plan), NEW max
  PROVE  SameShape(plan, Numbered(plan, max))
<1> DEFINE issues == Numbered(plan, max)
<1>1. /\ Len(plan) \in Nat /\ DOMAIN plan = 1 .. Len(plan)
      /\ Len(issues) = Len(plan)
      /\ \A i \in DOMAIN plan :
           /\ issues[i].key = max + i
           /\ issues[i].deps = [m \in DOMAIN plan[i].deps |->
                                  NewName(plan, i, plan[i].deps[m], max)]
           /\ Len(issues[i].deps) = Len(plan[i].deps)
  BY NumberedIs
<1> HIDE DEF issues
<1>2. ASSUME NEW i \in DOMAIN plan, NEW m \in DOMAIN plan[i].deps
      PROVE  \E j \in DOMAIN plan :
               plan[j].key = plan[i].deps[m] /\ issues[j].key = issues[i].deps[m]
  <2> DEFINE dep == plan[i].deps[m]
             c == CHOOSE j \in 1 .. i : plan[j].key = dep
  <2>1. dep \in DepsIn(plan, i)
    BY DEF DepsIn, ToSet
  <2>2. \E j \in 1 .. i : plan[j].key = dep
    <3>1. PICK j \in 1 .. i - 1 : plan[j].key = dep
      BY <2>1 DEF DependenciesListedFirst
    <3>2. j \in 1 .. i
      BY <1>1
    <3> QED BY <3>1, <3>2
  <2>3. c \in 1 .. i /\ plan[c].key = dep
    BY <2>2
  <2>4. NewName(plan, i, dep, max) = max + c
    BY <2>2 DEF NewName
  <2>5. c \in DOMAIN plan
    BY <1>1, <2>3
  <2>6. issues[i].deps[m] = max + c
    BY <1>1, <2>4
  <2> HIDE DEF c
  <2> QED BY <1>1, <2>3, <2>5, <2>6
<1> QED BY <1>1, <1>2 DEF SameShape, issues

-----------------------------------------------------------------------------
(* Loops: what a recursive function returns when each call is its last.
   Sets of numbers stand for induction over data. *)

\* A set of numbers that is not empty has a least one.
LEMMA LeastNumber ==
  ASSUME NEW S \in SUBSET Nat, S # {}
  PROVE  \E m \in S : \A n \in S : m <= n
<1>1. PICK m \in S : \A n \in S : ~(<<n, m>> \in OpToRel(<, Nat))
  BY WFMin, NatLessThanWellFounded
<1>2. ASSUME NEW n \in S, n < m
      PROVE  FALSE
  BY <1>1, <1>2 DEF OpToRel
<1>3. m \in Nat /\ \A n \in S : n \in Nat
  OBVIOUS
<1> QED BY <1>2, <1>3

\* h is a run of the loop g from s to x, in n rounds, none of them from a
\* state in H.
LoopRun(T, H, g, s, x, n, h) ==
  /\ n \in Nat /\ h \in [Nat -> T] /\ h[0] = s /\ h[n] = x
  /\ \A m \in 0 .. n - 1 : h[m] \notin H /\ h[m + 1] = g[h[m]]

Ends(T, H, g, s) == {x \in H : \E n, h : LoopRun(T, H, g, s, x, n, h)}

\* A round does not change where a loop ends.
LEMMA EndsKept ==
  ASSUME NEW T, NEW H \in SUBSET T, NEW g \in [T -> T], NEW s \in T \ H
  PROVE  Ends(T, H, g, s) = Ends(T, H, g, g[s])
<1>1. ASSUME NEW x \in H, NEW n, NEW h, LoopRun(T, H, g, s, x, n, h)
      PROVE  \E l, k : LoopRun(T, H, g, g[s], x, l, k)
  <2> DEFINE k == [m \in Nat |-> h[m + 1]]
  <2>1. n \in Nat /\ n # 0
    BY <1>1 DEF LoopRun
  <2>2. k \in [Nat -> T] /\ k[0] = g[s] /\ k[n - 1] = x
    BY <1>1, <2>1 DEF LoopRun
  <2>3. \A m \in 0 .. (n - 1) - 1 : k[m] \notin H /\ k[m + 1] = g[k[m]]
    BY <1>1, <2>1 DEF LoopRun
  <2>4. n - 1 \in Nat
    BY <2>1
  <2> HIDE DEF k
  <2>5. LoopRun(T, H, g, g[s], x, n - 1, k)
    BY <2>2, <2>3, <2>4 DEF LoopRun
  <2> QED BY <2>5
<1>2. ASSUME NEW x \in H, NEW n, NEW h, LoopRun(T, H, g, g[s], x, n, h)
      PROVE  \E l, k : LoopRun(T, H, g, s, x, l, k)
  <2> DEFINE k == [m \in Nat |-> IF m = 0 THEN s ELSE h[m - 1]]
  <2>1. n \in Nat
    BY <1>2 DEF LoopRun
  <2>2. k \in [Nat -> T] /\ k[0] = s /\ k[n + 1] = x
    BY <1>2, <2>1 DEF LoopRun
  <2>3. \A m \in 0 .. (n + 1) - 1 : k[m] \notin H /\ k[m + 1] = g[k[m]]
    BY <1>2, <2>1 DEF LoopRun
  <2>4. n + 1 \in Nat
    BY <2>1
  <2> HIDE DEF k
  <2>5. LoopRun(T, H, g, s, x, n + 1, k)
    BY <2>2, <2>3, <2>4 DEF LoopRun
  <2> QED BY <2>5
<1> QED BY <1>1, <1>2 DEF Ends

\* r is what the loop g returns, with out for the states in H, where it ends.
LoopOf(T, H, g, out, r) ==
  \A s \in T : r[s] = IF s \in H THEN out[s] ELSE r[g[s]]

\* A loop defines a function, whether or not it ends everywhere.
LEMMA LoopExists ==
  ASSUME NEW T, NEW H \in SUBSET T, NEW g \in [T -> T],
         NEW O, NEW out \in [T -> O]
  PROVE  \E r : r = [s \in T |-> r[s]] /\ LoopOf(T, H, g, out, r)
<1> DEFINE r == [s \in T |-> CHOOSE v : \E x \in Ends(T, H, g, s) : v = out[x]]
<1>1. ASSUME NEW s \in H
      PROVE  r[s] = out[s]
  <2>1. Ends(T, H, g, s) = {s}
    <3>1. \A x \in Ends(T, H, g, s) : x = s
      <4> SUFFICES ASSUME NEW x \in H, NEW n, NEW h,
                          LoopRun(T, H, g, s, x, n, h)
                   PROVE  x = s
        BY DEF Ends
      <4> QED BY DEF LoopRun
    <3>2. LoopRun(T, H, g, s, s, 0, [m \in Nat |-> s])
      BY DEF LoopRun
    <3> QED BY <3>1, <3>2 DEF Ends
  <2>2. (\E x \in Ends(T, H, g, s) : TRUE) /\ s \in T
    BY <2>1
  <2>3. r[s] = CHOOSE v : \E x \in {s} : v = out[x]
    BY <2>1
  <2> QED BY <2>3
<1>2. ASSUME NEW s \in T \ H
      PROVE  r[s] = r[g[s]]
  BY EndsKept
<1> HIDE DEF r
<1>3. r = [s \in T |-> r[s]]
  BY DEF r
<1>4. LoopOf(T, H, g, out, r)
  BY <1>1, <1>2 DEF LoopOf
<1> QED BY <1>3, <1>4

LEMMA LeastBy ==
  ASSUME NEW T, NEW mu \in [T -> Nat], NEW S \in SUBSET T, S # {}
  PROVE  \E s \in S : \A t \in S : mu[s] <= mu[t]
<1> DEFINE M == {mu[s] : s \in S}
<1>1. \A s \in S : mu[s] \in Nat
  OBVIOUS
<1>2. M \in SUBSET Nat
  BY <1>1
<1>3. M # {}
  OBVIOUS
<1>4. PICK m \in M : \A n \in M : m <= n
  <2> HIDE DEF M
  <2> QED BY <1>2, <1>3, LeastNumber
<1>5. PICK s \in S : m = mu[s]
  BY <1>4
<1> QED BY <1>4, <1>5

\* The rule for loops that end: Inv holds of a round's state when it held
\* before, and each round brings down the first measure, or keeps it and brings
\* down the second.
LoopEnds(H, g, Inv, mu, nu) ==
  \A s \in Inv \ H :
    /\ g[s] \in Inv
    /\ \/ mu[g[s]] < mu[s]
       \/ mu[g[s]] = mu[s] /\ nu[g[s]] < nu[s]

LEMMA LoopResult ==
  ASSUME NEW T, NEW H, NEW g, NEW out, NEW r, LoopOf(T, H, g, out, r),
         NEW Inv \in SUBSET T, NEW mu \in [Inv -> Nat], NEW nu \in [Inv -> Nat],
         LoopEnds(H, g, Inv, mu, nu),
         NEW Good, \A s \in Inv \cap H : out[s] \in Good
  PROVE  \A s \in Inv : r[s] \in Good
<1> DEFINE Bad == {s \in Inv : r[s] \notin Good}
<1> SUFFICES ASSUME Bad # {} PROVE FALSE
  OBVIOUS
<1>1. PICK m \in Bad : \A t \in Bad : mu[m] <= mu[t]
  <2> HIDE DEF Bad
  <2>1. Bad \in SUBSET Inv
    BY DEF Bad
  <2> QED BY <2>1, LeastBy
<1> DEFINE Leasts == {s \in Bad : mu[s] = mu[m]}
<1>2. PICK s \in Leasts : \A t \in Leasts : nu[s] <= nu[t]
  <2>1. Leasts \in SUBSET Inv /\ Leasts # {}
    BY <1>1
  <2> HIDE DEF Leasts
  <2> QED BY <2>1, LeastBy
<1>3. s \in Inv \ H
  BY DEF LoopOf
<1>4. g[s] \in Bad
  BY <1>3 DEF LoopOf, LoopEnds
<1>5. /\ mu[g[s]] \in Nat /\ mu[s] \in Nat
      /\ nu[g[s]] \in Nat /\ nu[s] \in Nat
  BY <1>3, <1>4
<1>6. mu[s] <= mu[g[s]]
  BY <1>1, <1>2, <1>4
<1>7. mu[g[s]] = mu[s] /\ nu[g[s]] < nu[s]
  BY <1>3, <1>5, <1>6 DEF LoopEnds
<1>8. g[s] \in Leasts
  BY <1>2, <1>4, <1>7
<1>9. nu[s] <= nu[g[s]]
  BY <1>2, <1>8
<1> QED BY <1>5, <1>7, <1>9

-----------------------------------------------------------------------------
(* The search of validatePlan. *)

\* What the search is given: distinct keys, and dependencies among them.
Searchable(plan) ==
  /\ IsPlan(plan)
  /\ \A i, j \in DOMAIN plan : plan[i].key = plan[j].key => i = j
  /\ \A i \in DOMAIN plan : DepsIn(plan, i) \subseteq KeysOf(plan)

Needs(plan, key) == ToSet(DepsOf(plan, key))

LEMMA FiniteKeys ==
  ASSUME NEW plan, IsPlan(plan)
  PROVE  IsFiniteSet(KeysOf(plan))
<1>1. Len(plan) \in Nat /\ DOMAIN plan = 1 .. Len(plan)
  BY LenProperties DEF IsPlan
<1>2. IsFiniteSet(DOMAIN plan)
  BY <1>1, FS_Interval
<1>3. [i \in DOMAIN plan |-> plan[i].key] \in Surjection(DOMAIN plan, KeysOf(plan))
  BY DEF KeysOf, Surjection
<1> QED BY <1>2, <1>3, FS_Surjection

LEMMA DepsOfIs ==
  ASSUME NEW plan, Searchable(plan)
  PROVE  /\ \A i \in DOMAIN plan : DepsOf(plan, plan[i].key) = plan[i].deps
         /\ \A key \in KeysOf(plan) :
              /\ DepsOf(plan, key) \in Seq(KeysOf(plan))
              /\ Len(DepsOf(plan, key)) \in Nat
              /\ DOMAIN DepsOf(plan, key) = 1 .. Len(DepsOf(plan, key))
              /\ Needs(plan, key) \subseteq KeysOf(plan)
<1>1. ASSUME NEW i \in DOMAIN plan
      PROVE  DepsOf(plan, plan[i].key) = plan[i].deps
  <2>1. (CHOOSE j \in DOMAIN plan : plan[j].key = plan[i].key) = i
    BY DEF Searchable
  <2> QED BY <2>1 DEF DepsOf
<1>2. ASSUME NEW i \in DOMAIN plan
      PROVE  plan[i].deps \in Seq(KeysOf(plan))
  <2>1. plan[i].deps \in Seq(DepsIn(plan, i))
    BY DEF Searchable, IsPlan
  <2>2. DepsIn(plan, i) \subseteq KeysOf(plan)
    BY DEF Searchable
  <2> QED BY <2>1, <2>2, SeqMonotonic
<1>3. ASSUME NEW key \in KeysOf(plan)
      PROVE  DepsOf(plan, key) \in Seq(KeysOf(plan))
  BY <1>1, <1>2 DEF KeysOf
<1>4. ASSUME NEW key \in KeysOf(plan)
      PROVE  /\ Len(DepsOf(plan, key)) \in Nat
             /\ DOMAIN DepsOf(plan, key) = 1 .. Len(DepsOf(plan, key))
             /\ Needs(plan, key) \subseteq KeysOf(plan)
  <2>1. /\ Len(DepsOf(plan, key)) \in Nat
        /\ DOMAIN DepsOf(plan, key) = 1 .. Len(DepsOf(plan, key))
    BY <1>3, LenProperties
  <2>2. \A m \in 1 .. Len(DepsOf(plan, key)) :
          DepsOf(plan, key)[m] \in KeysOf(plan)
    BY <1>3, ElementOfSeq
  <2> QED BY <2>1, <2>2 DEF Needs, ToSet
<1> QED BY <1>1, <1>3, <1>4

Tasks(plan) == [op : {"visit", "leave"}, key : KeysOf(plan)]

LEMMA AgendaIs ==
  ASSUME NEW plan, NEW s \in SearchState(plan)
  PROVE  /\ s.agenda \in Seq(Tasks(plan))
         /\ Len(s.agenda) \in Nat
         /\ DOMAIN s.agenda = 1 .. Len(s.agenda)
         /\ \A p \in 1 .. Len(s.agenda) : s.agenda[p] \in Tasks(plan)
         /\ s.agenda # <<>> =>
              /\ Len(s.agenda) # 0
              /\ Head(s.agenda) = s.agenda[1]
              /\ Tail(s.agenda) \in Seq(Tasks(plan))
              /\ Len(Tail(s.agenda)) = Len(s.agenda) - 1
              /\ \A p \in 1 .. Len(s.agenda) - 1 :
                   Tail(s.agenda)[p] = s.agenda[p + 1]
         /\ s.color \in [KeysOf(plan) -> {"white", "grey", "black"}]
         /\ s.cycle \in BOOLEAN
<1>1. /\ s.agenda \in Seq(Tasks(plan))
      /\ s.color \in [KeysOf(plan) -> {"white", "grey", "black"}]
      /\ s.cycle \in BOOLEAN
  BY DEF SearchState, Tasks
<1> HIDE DEF Tasks
<1>2. /\ Len(s.agenda) \in Nat
      /\ DOMAIN s.agenda = 1 .. Len(s.agenda)
      /\ \A p \in 1 .. Len(s.agenda) : s.agenda[p] \in Tasks(plan)
  BY <1>1, LenProperties, ElementOfSeq
<1>3. ASSUME s.agenda # <<>>
      PROVE  /\ Len(s.agenda) # 0
             /\ Head(s.agenda) = s.agenda[1]
             /\ Tail(s.agenda) \in Seq(Tasks(plan))
             /\ Len(Tail(s.agenda)) = Len(s.agenda) - 1
             /\ \A p \in 1 .. Len(s.agenda) - 1 :
                  Tail(s.agenda)[p] = s.agenda[p + 1]
  BY <1>1, <1>2, <1>3, EmptySeq, HeadTailProperties
<1> QED BY <1>1, <1>2, <1>3

LEMMA VisitsAre ==
  ASSUME NEW plan, NEW keys \in Seq(KeysOf(plan))
  PROVE  /\ Visits(keys) \in Seq(Tasks(plan))
         /\ Len(Visits(keys)) = Len(keys)
         /\ \A m \in 1 .. Len(keys) :
              Visits(keys)[m] = [op |-> "visit", key |-> keys[m]]
<1>1. Len(keys) \in Nat /\ DOMAIN keys = 1 .. Len(keys)
  BY LenProperties
<1>2. \A m \in 1 .. Len(keys) : keys[m] \in KeysOf(plan)
  BY ElementOfSeq
<1>3. /\ DOMAIN Visits(keys) = 1 .. Len(keys)
      /\ \A m \in 1 .. Len(keys) :
           Visits(keys)[m] = [op |-> "visit", key |-> keys[m]]
      /\ Visits(keys) \in [1 .. Len(keys) -> Tasks(plan)]
  BY <1>1, <1>2 DEF Visits, Tasks
<1> QED BY <1>1, <1>3, ListOf

\* What an issue that is entered puts on the agenda.
LEMMA EnteredIs ==
  ASSUME NEW plan, Searchable(plan), NEW s \in SearchState(plan),
         s.agenda # <<>>, NEW key \in KeysOf(plan)
  PROVE  LET t == Entered(plan, s, key)
             n == Len(DepsOf(plan, key))
             l == Len(s.agenda)
         IN  /\ t \in SearchState(plan)
             /\ Len(t.agenda) = n + l
             /\ \A m \in 1 .. n : /\ t.agenda[m].op = "visit"
                                  /\ t.agenda[m].key = DepsOf(plan, key)[m]
             /\ t.agenda[n + 1].op = "leave" /\ t.agenda[n + 1].key = key
             /\ \A p \in 2 .. l : t.agenda[n + p] = s.agenda[p]
             /\ t.color[key] = "grey"
             /\ \A k \in KeysOf(plan) : k # key => t.color[k] = s.color[k]
             /\ t.cycle = s.cycle
<1> DEFINE d == DepsOf(plan, key)
           n == Len(d)
           l == Len(s.agenda)
           v == Visits(d)
           x == [op |-> "leave", key |-> key]
           w == Tail(s.agenda)
           u == v \o <<x>>
           a == u \o w
           t == Entered(plan, s, key)
<1>1. d \in Seq(KeysOf(plan)) /\ n \in Nat
  BY DepsOfIs
<1>2. /\ v \in Seq(Tasks(plan)) /\ Len(v) = n
      /\ \A m \in 1 .. n : v[m] = [op |-> "visit", key |-> d[m]]
  BY <1>1, VisitsAre
<1>3. <<x>> \in Seq(Tasks(plan)) /\ Len(<<x>>) = 1 /\ <<x>>[1] = x
  BY DEF Tasks
<1>4. /\ l \in Nat \ {0} /\ w \in Seq(Tasks(plan)) /\ Len(w) = l - 1
      /\ \A p \in 1 .. l - 1 : w[p] = s.agenda[p + 1]
  BY AgendaIs
<1> HIDE DEF x, v, d, w
<1>5. /\ u \in Seq(Tasks(plan)) /\ Len(u) = n + 1
      /\ \A m \in 1 .. n : u[m] = v[m]
      /\ u[n + 1] = x
  BY <1>1, <1>2, <1>3, ConcatProperties
<1>6. /\ a \in Seq(Tasks(plan)) /\ Len(a) = n + l
      /\ \A m \in 1 .. n + 1 : a[m] = u[m]
      /\ \A p \in 1 .. l - 1 : a[n + 1 + p] = w[p]
  <2> HIDE DEF u, n, l
  <2>1. /\ u \o w \in Seq(Tasks(plan)) /\ Len(u \o w) = Len(u) + Len(w)
        /\ \A i \in 1 .. Len(u) + Len(w) :
             (u \o w)[i] = IF i <= Len(u) THEN u[i] ELSE w[i - Len(u)]
    BY <1>4, <1>5, ConcatProperties
  <2>2. \A m \in 1 .. n + 1 :
          m \in 1 .. Len(u) + Len(w) /\ m <= Len(u)
    BY <1>1, <1>4, <1>5
  <2>3. ASSUME NEW p \in 1 .. l - 1
        PROVE  a[n + 1 + p] = w[p]
    <3>1. /\ n + 1 + p \in 1 .. Len(u) + Len(w) /\ ~(n + 1 + p <= Len(u))
          /\ (n + 1 + p) - Len(u) = p
      BY <1>1, <1>4, <1>5
    <3> QED BY <2>1, <3>1
  <2>4. Len(a) = n + l
    BY <1>1, <1>4, <1>5, <2>1
  <2> QED BY <2>1, <2>2, <2>3, <2>4
<1>7. /\ t.agenda = a /\ t.color = [s.color EXCEPT ![key] = "grey"]
      /\ t.cycle = s.cycle
      /\ t = [agenda |-> t.agenda, color |-> t.color, cycle |-> t.cycle]
  <2>1. s = [agenda |-> s.agenda, color |-> s.color, cycle |-> s.cycle]
    BY DEF SearchState
  <2>2. t = [s EXCEPT !.color[key] = "grey", !.agenda = a]
    BY DEF Entered, x, v, d, w
  <2> HIDE DEF a, t
  <2> QED BY <2>1, <2>2
<1>8. t \in SearchState(plan)
  <2>1. t.color \in [KeysOf(plan) -> {"white", "grey", "black"}]
    BY <1>7, AgendaIs
  <2> HIDE DEF t, a
  <2> QED BY <1>6, <1>7, <2>1, AgendaIs DEF SearchState, Tasks
<1>9. \A p \in 2 .. l : a[n + p] = s.agenda[p]
  <2> SUFFICES ASSUME NEW p \in 2 .. l PROVE a[n + p] = s.agenda[p]
    OBVIOUS
  <2>1. p - 1 \in 1 .. l - 1 /\ n + 1 + (p - 1) = n + p /\ (p - 1) + 1 = p
    BY <1>1, <1>4
  <2> QED BY <1>4, <1>6, <2>1
<1> HIDE DEF a, t, u
<1>10. /\ \A m \in 1 .. n : a[m].op = "visit" /\ a[m].key = d[m]
       /\ a[n + 1].op = "leave" /\ a[n + 1].key = key
  <2>1. \A m \in 1 .. n : m \in 1 .. n + 1
    BY <1>1
  <2>2. n + 1 \in 1 .. n + 1
    BY <1>1
  <2>3. x.op = "leave" /\ x.key = key
    BY DEF x
  <2> HIDE DEF n
  <2>4. a[n + 1] = x
    BY <1>5, <1>6, <2>2
  <2>5. \A m \in 1 .. n : a[m] = v[m]
    BY <1>5, <1>6, <2>1
  <2> QED BY <1>2, <2>3, <2>4, <2>5
<1>11. /\ t.color[key] = "grey"
       /\ \A k \in KeysOf(plan) : k # key => t.color[k] = s.color[k]
  BY <1>7, AgendaIs
<1> QED BY <1>6, <1>7, <1>8, <1>9, <1>10, <1>11 DEF d, t

\* Issues that all wait for one another, and issues among which there are none.
Knot(plan) ==
  \E S \in SUBSET KeysOf(plan) :
    S # {} /\ \A key \in S : \E dep \in Needs(plan, key) : dep \in S

Untangled(plan, B) ==
  \A S \in SUBSET B :
    S # {} => \E key \in S : \A dep \in Needs(plan, key) : dep \notin S

BlackIn(plan, s) == {key \in KeysOf(plan) : s.color[key] = "black"}

\* Every issue was left or is still to be visited or left.
NothingForgotten(plan, s) ==
  \A key \in KeysOf(plan) :
    \/ s.color[key] = "black"
    \/ \E p \in 1 .. Len(s.agenda) : s.agenda[p].key = key

\* A grey issue is still to be left.
GreyIsOpen(plan, s) ==
  \A key \in KeysOf(plan) : s.color[key] = "grey" =>
    \E p \in 1 .. Len(s.agenda) :
      s.agenda[p].op = "leave" /\ s.agenda[p].key = key

\* What was left needs only what was left, and none of it is in a knot.
BlackIsDone(plan, s) ==
  /\ \A key \in BlackIn(plan, s) : Needs(plan, key) \subseteq BlackIn(plan, s)
  /\ Untangled(plan, BlackIn(plan, s))

\* An issue is left after what it needs.
LeftAfterNeeds(plan, s) ==
  \A q \in 1 .. Len(s.agenda) : s.agenda[q].op = "leave" =>
    \A dep \in Needs(plan, s.agenda[q].key) :
      \/ s.color[dep] = "black"
      \/ \E p \in 1 .. q - 1 : s.agenda[p].key = dep

\* What is on the agenda before an issue is left is there for one of its
\* dependencies, which is named by it or is still to be left itself.
BelowTheGrey(plan, s) ==
  \A p, q \in 1 .. Len(s.agenda) : p < q /\ s.agenda[q].op = "leave" =>
    \E dep \in Needs(plan, s.agenda[q].key) :
      \/ dep = s.agenda[p].key
      \/ \E m \in p + 1 .. q - 1 :
           s.agenda[m].op = "leave" /\ s.agenda[m].key = dep

Searching(plan, s) ==
  /\ NothingForgotten(plan, s)
  /\ GreyIsOpen(plan, s)
  /\ BlackIsDone(plan, s)
  /\ LeftAfterNeeds(plan, s)
  /\ BelowTheGrey(plan, s)

SearchInv(plan, s) ==
  IF s.cycle THEN s.agenda = <<>> /\ Knot(plan) ELSE Searching(plan, s)

\* The first entry of the agenda is done with, and its issue is black.
LEMMA PoppedKeeps ==
  ASSUME NEW plan, NEW s \in SearchState(plan), NEW t \in SearchState(plan),
         s.agenda # <<>>, Searching(plan, s),
         t.agenda = Tail(s.agenda),
         t.color = [s.color EXCEPT ![Head(s.agenda).key] = "black"]
  PROVE  /\ NothingForgotten(plan, t)
         /\ GreyIsOpen(plan, t)
         /\ LeftAfterNeeds(plan, t)
         /\ BelowTheGrey(plan, t)
<1> DEFINE l == Len(s.agenda)
           k == s.agenda[1].key
<1>1. /\ l \in Nat \ {0} /\ Head(s.agenda) = s.agenda[1]
      /\ Len(t.agenda) = l - 1
      /\ \A p \in 1 .. l - 1 : t.agenda[p] = s.agenda[p + 1]
      /\ \A p \in 1 .. l : s.agenda[p] \in Tasks(plan)
  BY AgendaIs
<1>2. k \in KeysOf(plan)
  BY <1>1 DEF Tasks
<1>3. /\ t.color[k] = "black"
      /\ \A key \in KeysOf(plan) : key # k => t.color[key] = s.color[key]
  BY <1>1, <1>2, AgendaIs
<1>4. \A p \in 2 .. l : p - 1 \in 1 .. l - 1 /\ t.agenda[p - 1] = s.agenda[p]
  <2> SUFFICES ASSUME NEW p \in 2 .. l
               PROVE  p - 1 \in 1 .. l - 1 /\ t.agenda[p - 1] = s.agenda[p]
    OBVIOUS
  <2> HIDE DEF l
  <2>1. p - 1 \in 1 .. l - 1 /\ (p - 1) + 1 = p
    BY <1>1
  <2> QED BY <1>1, <2>1
<1> HIDE DEF l, k
<1>5. NothingForgotten(plan, t)
  <2> SUFFICES ASSUME NEW key \in KeysOf(plan), t.color[key] # "black"
               PROVE  \E p \in 1 .. l - 1 : t.agenda[p].key = key
    BY <1>1 DEF NothingForgotten
  <2>1. key # k /\ s.color[key] # "black"
    BY <1>3
  <2>2. PICK p \in 1 .. l : s.agenda[p].key = key
    BY <2>1 DEF Searching, NothingForgotten, l
  <2>3. p \in 2 .. l
    BY <1>1, <2>1, <2>2 DEF k
  <2> QED BY <1>4, <2>2, <2>3
<1>6. GreyIsOpen(plan, t)
  <2> SUFFICES ASSUME NEW key \in KeysOf(plan), t.color[key] = "grey"
               PROVE  \E p \in 1 .. l - 1 :
                        t.agenda[p].op = "leave" /\ t.agenda[p].key = key
    BY <1>1 DEF GreyIsOpen
  <2>1. key # k /\ s.color[key] = "grey"
    BY <1>3
  <2>2. PICK p \in 1 .. l : s.agenda[p].op = "leave" /\ s.agenda[p].key = key
    BY <2>1 DEF Searching, GreyIsOpen, l
  <2>3. p \in 2 .. l
    BY <1>1, <2>1, <2>2 DEF k
  <2> QED BY <1>4, <2>2, <2>3
<1>7. LeftAfterNeeds(plan, t)
  <2> SUFFICES ASSUME NEW q \in 1 .. l - 1, t.agenda[q].op = "leave",
                      NEW dep \in Needs(plan, t.agenda[q].key),
                      t.color[dep] # "black"
               PROVE  \E p \in 1 .. q - 1 : t.agenda[p].key = dep
    BY <1>1 DEF LeftAfterNeeds
  <2>1. t.agenda[q] = s.agenda[q + 1] /\ q + 1 \in 1 .. l
    BY <1>1
  <2>2. s.color[dep] = "black" \/ \E p \in 1 .. q : s.agenda[p].key = dep
    <3>1. \/ s.color[dep] = "black"
          \/ \E p \in 1 .. (q + 1) - 1 : s.agenda[p].key = dep
      BY <2>1 DEF Searching, LeftAfterNeeds, l
    <3> QED BY <3>1
  <2>3. s.color[dep] # "black"
    BY <1>2, <1>3, AgendaIs
  <2>4. PICK p \in 1 .. q : s.agenda[p].key = dep
    BY <2>2, <2>3
  <2>5. p # 1
    BY <1>3, <2>4 DEF k
  <2>6. p \in 2 .. l /\ p - 1 \in 1 .. q - 1
    BY <1>1, <2>5
  <2> QED BY <1>4, <2>4, <2>6
<1>8. BelowTheGrey(plan, t)
  <2>0. Len(t.agenda) = l - 1
    BY <1>1
  <2> SUFFICES ASSUME NEW p \in 1 .. l - 1, NEW q \in 1 .. l - 1, p < q,
                      t.agenda[q].op = "leave"
               PROVE  \E dep \in Needs(plan, t.agenda[q].key) :
                        \/ dep = t.agenda[p].key
                        \/ \E m \in p + 1 .. q - 1 :
                             t.agenda[m].op = "leave" /\ t.agenda[m].key = dep
    BY <2>0 DEF BelowTheGrey
  <2>1. /\ t.agenda[q] = s.agenda[q + 1] /\ q + 1 \in 1 .. l
        /\ t.agenda[p] = s.agenda[p + 1] /\ p + 1 \in 1 .. l
        /\ p + 1 < q + 1
    BY <1>1
  <2>2. PICK dep \in Needs(plan, t.agenda[q].key) :
               \/ dep = t.agenda[p].key
               \/ \E m \in (p + 1) + 1 .. (q + 1) - 1 :
                    s.agenda[m].op = "leave" /\ s.agenda[m].key = dep
    <3>1. \E dep \in Needs(plan, s.agenda[q + 1].key) :
            \/ dep = s.agenda[p + 1].key
            \/ \E m \in (p + 1) + 1 .. (q + 1) - 1 :
                 s.agenda[m].op = "leave" /\ s.agenda[m].key = dep
      <4> DEFINE P == p + 1
                 Q == q + 1
      <4>1. /\ P \in 1 .. Len(s.agenda) /\ Q \in 1 .. Len(s.agenda) /\ P < Q
            /\ s.agenda[Q].op = "leave"
        BY <2>1 DEF l
      <4> HIDE DEF P, Q
      <4>2. \E dep \in Needs(plan, s.agenda[Q].key) :
              \/ dep = s.agenda[P].key
              \/ \E m \in P + 1 .. Q - 1 :
                   s.agenda[m].op = "leave" /\ s.agenda[m].key = dep
        BY <4>1 DEF Searching, BelowTheGrey
      <4> QED BY <4>2 DEF P, Q
    <3> QED BY <2>1, <3>1
  <2>3. \A m \in (p + 1) + 1 .. (q + 1) - 1 :
          m \in 2 .. l /\ m - 1 \in p + 1 .. q - 1
    BY <1>1
  <2>4. CASE dep = t.agenda[p].key
    BY <2>4
  <2>5. ASSUME NEW m \in (p + 1) + 1 .. (q + 1) - 1,
               s.agenda[m].op = "leave", s.agenda[m].key = dep
        PROVE  \E o \in p + 1 .. q - 1 :
                 t.agenda[o].op = "leave" /\ t.agenda[o].key = dep
    <3>1. m - 1 \in p + 1 .. q - 1 /\ t.agenda[m - 1] = s.agenda[m]
      BY <1>4, <2>3
    <3> QED BY <2>5, <3>1
  <2> QED BY <2>2, <2>4, <2>5
<1> QED BY <1>5, <1>6, <1>7, <1>8

\* A white issue is entered.
LEMMA EnteredKeeps ==
  ASSUME NEW plan, Searchable(plan), NEW s \in SearchState(plan),
         s.agenda # <<>>, Searching(plan, s), NEW key \in KeysOf(plan),
         Head(s.agenda).key = key, s.color[key] = "white"
  PROVE  Searching(plan, Entered(plan, s, key))
<1> DEFINE t == Entered(plan, s, key)
           n == Len(DepsOf(plan, key))
           l == Len(s.agenda)
           d == DepsOf(plan, key)
<1>1. /\ l \in Nat \ {0} /\ Head(s.agenda) = s.agenda[1]
      /\ \A p \in 1 .. l : s.agenda[p] \in Tasks(plan)
  BY AgendaIs
<1>2. /\ n \in Nat /\ Needs(plan, key) = {d[m] : m \in 1 .. n}
      /\ \A k \in KeysOf(plan) : Needs(plan, k) \subseteq KeysOf(plan)
  BY DepsOfIs DEF Needs, ToSet
<1>3. /\ Len(t.agenda) = n + l
      /\ \A m \in 1 .. n :
           t.agenda[m].op = "visit" /\ t.agenda[m].key = d[m]
      /\ t.agenda[n + 1].op = "leave" /\ t.agenda[n + 1].key = key
      /\ \A p \in 2 .. l : t.agenda[n + p] = s.agenda[p]
      /\ t.color[key] = "grey"
      /\ \A k \in KeysOf(plan) : k # key => t.color[k] = s.color[k]
  BY EnteredIs
<1> HIDE DEF t, n, l, d
<1>4. s.agenda[1].key = key
  BY <1>1
<1>5. BlackIsDone(plan, t)
  <2>1. BlackIn(plan, t) = BlackIn(plan, s)
    BY <1>3 DEF BlackIn
  <2> QED BY <2>1 DEF Searching, BlackIsDone
<1>6. n + 1 \in 1 .. n + l /\ \A p \in 2 .. l : n + p \in 1 .. n + l
  BY <1>1, <1>2
<1>7. NothingForgotten(plan, t)
  <2> SUFFICES ASSUME NEW k \in KeysOf(plan), t.color[k] # "black", k # key
               PROVE  \E p \in 1 .. n + l : t.agenda[p].key = k
    BY <1>3, <1>6 DEF NothingForgotten
  <2>1. PICK p \in 1 .. l : s.agenda[p].key = k
    BY <1>3 DEF Searching, NothingForgotten, l
  <2>2. p \in 2 .. l
    BY <1>1, <1>4, <2>1
  <2> QED BY <1>3, <1>6, <2>1, <2>2
<1>8. GreyIsOpen(plan, t)
  <2> SUFFICES ASSUME NEW k \in KeysOf(plan), t.color[k] = "grey", k # key
               PROVE  \E p \in 1 .. n + l :
                        t.agenda[p].op = "leave" /\ t.agenda[p].key = k
    BY <1>3, <1>6 DEF GreyIsOpen
  <2>1. PICK p \in 1 .. l : s.agenda[p].op = "leave" /\ s.agenda[p].key = k
    BY <1>3 DEF Searching, GreyIsOpen, l
  <2>2. p \in 2 .. l
    BY <1>1, <1>4, <2>1
  <2> QED BY <1>3, <1>6, <2>1, <2>2
\* Where an entry of the agenda comes from.
<1>9. ASSUME NEW q \in 1 .. n + l
      PROVE  \/ q \in 1 .. n
             \/ q = n + 1
             \/ q - n \in 2 .. l /\ t.agenda[q] = s.agenda[q - n]
  <2>1. q \in 1 .. n \/ q = n + 1 \/ (q - n \in 2 .. l /\ n + (q - n) = q)
    BY <1>1, <1>2
  <2> QED BY <1>3, <2>1
<1>10. LeftAfterNeeds(plan, t)
  <2> SUFFICES ASSUME NEW q \in 1 .. n + l, t.agenda[q].op = "leave",
                      NEW dep \in Needs(plan, t.agenda[q].key),
                      t.color[dep] # "black"
               PROVE  \E p \in 1 .. q - 1 : t.agenda[p].key = dep
    BY <1>3 DEF LeftAfterNeeds
  <2>1. q \notin 1 .. n
    BY <1>3
  <2>2. CASE q = n + 1
    <3>1. PICK m \in 1 .. n : dep = d[m]
      BY <1>2, <1>3, <2>2
    <3>2. m \in 1 .. q - 1
      BY <1>2, <2>2
    <3> QED BY <1>3, <3>1, <3>2
  <2>3. CASE q - n \in 2 .. l /\ t.agenda[q] = s.agenda[q - n]
    <3> DEFINE Q == q - n
    <3>1. Q \in 2 .. l /\ s.agenda[Q].op = "leave"
          /\ dep \in Needs(plan, s.agenda[Q].key)
      BY <2>3
    <3>2. s.agenda[Q].key \in KeysOf(plan)
      BY <1>1, <3>1 DEF Tasks
    <3>3. dep \in KeysOf(plan)
      BY <1>2, <3>1, <3>2
    <3>4. s.color[dep] # "black"
      BY <1>3, <3>3
    <3> HIDE DEF Q
    <3>5. Q \in 1 .. l
      BY <1>1, <3>1
    <3>6. PICK p \in 1 .. Q - 1 : s.agenda[p].key = dep
      BY <3>1, <3>4, <3>5 DEF Searching, LeftAfterNeeds, l
    <3>7. CASE p = 1
      <4>1. dep = key /\ n + 1 \in 1 .. q - 1
        BY <1>1, <1>2, <1>4, <3>1, <3>6, <3>7 DEF Q
      <4> QED BY <1>3, <4>1
    <3>8. CASE p # 1
      <4>1. p \in 2 .. l /\ n + p \in 1 .. q - 1
        BY <1>1, <1>2, <3>1, <3>6, <3>8 DEF Q
      <4> QED BY <1>3, <3>6, <4>1
    <3> QED BY <3>7, <3>8
  <2> QED BY <1>9, <2>1, <2>2, <2>3
<1>11. BelowTheGrey(plan, t)
  <2> SUFFICES ASSUME NEW p \in 1 .. n + l, NEW q \in 1 .. n + l, p < q,
                      t.agenda[q].op = "leave"
               PROVE  \E dep \in Needs(plan, t.agenda[q].key) :
                        \/ dep = t.agenda[p].key
                        \/ \E m \in p + 1 .. q - 1 :
                             t.agenda[m].op = "leave" /\ t.agenda[m].key = dep
    BY <1>3 DEF BelowTheGrey
  <2>1. q \notin 1 .. n
    BY <1>3
  <2>2. CASE q = n + 1
    <3>1. p \in 1 .. n
      BY <1>2, <2>2
    <3>2. t.agenda[p].key = d[p] /\ t.agenda[q].key = key
      BY <1>3, <2>2, <3>1
    <3>3. d[p] \in Needs(plan, key)
      BY <1>2, <3>1
    <3> QED BY <3>2, <3>3
  <2>3. CASE q - n \in 2 .. l /\ t.agenda[q] = s.agenda[q - n]
    <3> DEFINE Q == q - n
    <3>1. Q \in 1 .. l /\ Q > 1 /\ s.agenda[Q].op = "leave"
      BY <1>1, <2>3
    <3>2. ASSUME NEW P \in 1 .. l, P < Q
          PROVE  \E dep \in Needs(plan, t.agenda[q].key) :
                   \/ dep = s.agenda[P].key
                   \/ \E m \in n + P + 1 .. q - 1 :
                        t.agenda[m].op = "leave" /\ t.agenda[m].key = dep
      <4> HIDE DEF Q
      <4>1. PICK dep \in Needs(plan, s.agenda[Q].key) :
                   \/ dep = s.agenda[P].key
                   \/ \E m \in P + 1 .. Q - 1 :
                        s.agenda[m].op = "leave" /\ s.agenda[m].key = dep
        BY <3>1, <3>2 DEF Searching, BelowTheGrey, l
      <4>2. t.agenda[q] = s.agenda[Q]
        BY <2>3 DEF Q
      <4>3. \A m \in P + 1 .. Q - 1 :
              /\ m \in 2 .. l
              /\ n + m \in n + P + 1 .. q - 1
        BY <1>1, <1>2, <3>1 DEF Q
      <4> QED BY <1>3, <4>1, <4>2, <4>3
    <3>3. CASE p \in 1 .. n
      <4>1. PICK dep \in Needs(plan, t.agenda[q].key) :
                   \/ dep = s.agenda[1].key
                   \/ \E m \in n + 1 + 1 .. q - 1 :
                        t.agenda[m].op = "leave" /\ t.agenda[m].key = dep
        BY <1>1, <3>1, <3>2
      <4>2. n + 1 \in p + 1 .. q - 1
        BY <1>1, <1>2, <3>1, <3>3
      <4>3. \A m \in n + 1 + 1 .. q - 1 : m \in p + 1 .. q - 1
        BY <1>1, <1>2, <3>3
      <4> QED BY <1>3, <1>4, <4>1, <4>2, <4>3
    <3>4. CASE p = n + 1
      <4>1. t.agenda[p].key = s.agenda[1].key /\ n + 1 + 1 = p + 1
        BY <1>2, <1>3, <1>4, <3>4
      <4>2. 1 \in 1 .. l /\ 1 < Q
        BY <1>1, <3>1
      <4> QED BY <3>2, <3>4, <4>1, <4>2
    <3>5. CASE p - n \in 2 .. l /\ t.agenda[p] = s.agenda[p - n]
      <4>1. p - n \in 1 .. l /\ p - n < Q /\ n + (p - n) + 1 = p + 1
        BY <1>1, <1>2, <3>5
      <4> HIDE DEF Q
      <4> QED BY <3>2, <3>5, <4>1
    <3> QED BY <1>9, <3>3, <3>4, <3>5
  <2> QED BY <1>9, <2>1, <2>2, <2>3
<1> QED BY <1>5, <1>7, <1>8, <1>10, <1>11 DEF Searching, t

WhiteIn(plan, s) == {key \in KeysOf(plan) : s.color[key] = "white"}

LEMMA HeadTask ==
  ASSUME NEW plan, NEW s \in SearchState(plan), s.agenda # <<>>
  PROVE  /\ Head(s.agenda).op \in {"visit", "leave"}
         /\ Head(s.agenda).key \in KeysOf(plan)
         /\ s.color[Head(s.agenda).key] \in {"white", "grey", "black"}
<1>1. /\ Head(s.agenda) \in Tasks(plan)
      /\ s.color \in [KeysOf(plan) -> {"white", "grey", "black"}]
  <2>1. Head(s.agenda) = s.agenda[1] /\ 1 \in 1 .. Len(s.agenda)
    BY AgendaIs
  <2> QED BY <2>1, AgendaIs
<1> QED BY <1>1 DEF Tasks

\* A round of the search leaves or passes the first issue, ends the search, or
\* enters the issue.
LEMMA SearchedIs ==
  ASSUME NEW plan, Searchable(plan), NEW s \in SearchState(plan),
         s.agenda # <<>>
  PROVE  LET t == Searched(plan, s)
             key == Head(s.agenda).key
         IN  /\ t \in SearchState(plan)
             /\ \/ /\ Head(s.agenda).op = "leave" \/ s.color[key] = "black"
                   /\ t.agenda = Tail(s.agenda) /\ t.cycle = s.cycle
                   /\ t.color = [s.color EXCEPT ![key] = "black"]
                \/ /\ s.color[key] = "grey" /\ Head(s.agenda).op = "visit"
                   /\ t.cycle = TRUE /\ t.agenda = <<>> /\ t.color = s.color
                \/ /\ s.color[key] = "white"
                   /\ t = Entered(plan, s, key)
<1> DEFINE t == Searched(plan, s)
           key == Head(s.agenda).key
           a == Tail(s.agenda)
           c == [s.color EXCEPT ![key] = "black"]
<1>1. /\ Head(s.agenda).op \in {"visit", "leave"}
      /\ key \in KeysOf(plan)
      /\ s.color[key] \in {"white", "grey", "black"}
  BY HeadTask
<1>2. /\ s = [agenda |-> s.agenda, color |-> s.color, cycle |-> s.cycle]
      /\ \A b \in Seq(Tasks(plan)), y \in BOOLEAN :
           \A d \in [KeysOf(plan) -> {"white", "grey", "black"}] :
             [agenda |-> b, color |-> d, cycle |-> y] \in SearchState(plan)
  BY DEF SearchState, Tasks
<1>3. /\ a \in Seq(Tasks(plan)) /\ s.cycle \in BOOLEAN
      /\ s.color \in [KeysOf(plan) -> {"white", "grey", "black"}]
      /\ c \in [KeysOf(plan) -> {"white", "grey", "black"}]
  BY <1>1, AgendaIs
<1>4. CASE Head(s.agenda).op = "leave"
  <2>1. t = [s EXCEPT !.color[key] = "black", !.agenda = a]
    BY <1>4 DEF Searched
  <2> HIDE DEF a, t
  <2>2. t = [agenda |-> a, color |-> c, cycle |-> s.cycle]
    BY <1>2, <2>1
  <2> HIDE DEF c, key
  <2>7. t \in SearchState(plan)
    BY <1>2, <1>3, <2>2
  <2>8. t.agenda = a /\ t.color = c /\ t.cycle = s.cycle
    BY <2>2
  <2> QED BY <1>4, <2>7, <2>8 DEF a, t, key, c
<1>5. CASE Head(s.agenda).op = "visit" /\ s.color[key] = "black"
  <2>1. t = [s EXCEPT !.agenda = a]
    BY <1>5 DEF Searched
  <2>2. c = s.color
    BY <1>1, <1>3, <1>5
  <2> HIDE DEF a, t
  <2>3. t = [agenda |-> a, color |-> c, cycle |-> s.cycle]
    BY <1>2, <2>1, <2>2
  <2> HIDE DEF c, key
  <2>7. t \in SearchState(plan)
    BY <1>2, <1>3, <2>3
  <2>8. t.agenda = a /\ t.color = c /\ t.cycle = s.cycle
    BY <2>3
  <2> QED BY <1>5, <2>7, <2>8 DEF a, t, key, c
<1>6. CASE Head(s.agenda).op = "visit" /\ s.color[key] = "grey"
  <2>1. t = [s EXCEPT !.cycle = TRUE, !.agenda = <<>>]
    BY <1>6 DEF Searched
  <2> HIDE DEF t
  <2>2. t = [agenda |-> <<>>, color |-> s.color, cycle |-> TRUE]
    BY <1>2, <2>1
  <2>3. <<>> \in Seq(Tasks(plan))
    OBVIOUS
  <2>4. t \in SearchState(plan)
    BY <1>2, <1>3, <2>2, <2>3
  <2>5. t.agenda = <<>> /\ t.color = s.color /\ t.cycle = TRUE
    BY <2>2
  <2> QED BY <1>6, <2>4, <2>5 DEF t
<1>7. CASE Head(s.agenda).op = "visit" /\ s.color[key] = "white"
  <2>1. t = Entered(plan, s, key)
    BY <1>7 DEF Searched
  <2>2. Entered(plan, s, key) \in SearchState(plan)
    BY <1>1, EnteredIs
  <2> HIDE DEF t
  <2> QED BY <1>7, <2>1, <2>2 DEF t
<1> QED BY <1>1, <1>4, <1>5, <1>6, <1>7

\* An issue that is grey when it is visited is in a knot: with the issues that
\* are left before it.
LEMMA GreyIsInKnot ==
  ASSUME NEW plan, Searchable(plan), NEW s \in SearchState(plan),
         s.agenda # <<>>, Searching(plan, s), Head(s.agenda).op = "visit",
         s.color[Head(s.agenda).key] = "grey"
  PROVE  Knot(plan)
<1> DEFINE l == Len(s.agenda)
           key == s.agenda[1].key
<1>1. /\ l \in Nat \ {0} /\ Head(s.agenda) = s.agenda[1]
      /\ \A p \in 1 .. l : s.agenda[p].key \in KeysOf(plan)
  BY AgendaIs DEF Tasks
<1>2. PICK q \in 1 .. l : s.agenda[q].op = "leave" /\ s.agenda[q].key = key
  BY <1>1 DEF Searching, GreyIsOpen
<1>3. q # 1
  BY <1>1, <1>2
<1> DEFINE S == {k \in KeysOf(plan) :
                   \E p \in 1 .. q :
                     s.agenda[p].op = "leave" /\ s.agenda[p].key = k}
<1> HIDE DEF l, key
<1>4. key \in S
  BY <1>1, <1>2 DEF key
<1>5. ASSUME NEW k \in S
      PROVE  \E dep \in Needs(plan, k) : dep \in S
  <2>1. PICK p \in 1 .. q : s.agenda[p].op = "leave" /\ s.agenda[p].key = k
    OBVIOUS
  <2>2. 1 \in 1 .. l /\ p \in 1 .. l /\ 1 < p
    BY <1>1, <2>1
  <2>3. PICK dep \in Needs(plan, k) :
               \/ dep = s.agenda[1].key
               \/ \E m \in 1 + 1 .. p - 1 :
                    s.agenda[m].op = "leave" /\ s.agenda[m].key = dep
    BY <2>1, <2>2 DEF Searching, BelowTheGrey, l
  <2>4. ASSUME NEW m \in 1 + 1 .. p - 1
        PROVE  m \in 1 .. l /\ m \in 1 .. q
    BY <1>1, <2>2
  <2> QED BY <1>1, <1>4, <2>3, <2>4 DEF key
<1>6. S \in SUBSET KeysOf(plan) /\ S # {}
  BY <1>4
<1> HIDE DEF S
<1> QED BY <1>5, <1>6 DEF Knot

\* An issue that is left needs only what was left before.
LEMMA LeftIsDone ==
  ASSUME NEW plan, Searchable(plan), NEW s \in SearchState(plan),
         s.agenda # <<>>, Searching(plan, s), NEW t \in SearchState(plan),
         Head(s.agenda).op = "leave" \/ s.color[Head(s.agenda).key] = "black",
         t.color = [s.color EXCEPT ![Head(s.agenda).key] = "black"]
  PROVE  BlackIsDone(plan, t)
<1> DEFINE key == Head(s.agenda).key
           B == BlackIn(plan, s)
           C == BlackIn(plan, t)
<1>1. key \in KeysOf(plan)
  BY HeadTask
<1>2. C = B \cup {key}
  <2>1. s.color \in [KeysOf(plan) -> {"white", "grey", "black"}]
    BY AgendaIs
  <2> QED BY <1>1, <2>1 DEF BlackIn
<1>3. CASE s.color[key] = "black"
  <2>1. C = B
    BY <1>1, <1>2, <1>3 DEF BlackIn
  <2> QED BY <2>1 DEF Searching, BlackIsDone
<1>4. CASE Head(s.agenda).op = "leave" /\ s.color[key] # "black"
  <2>1. Needs(plan, key) \subseteq B
    <3> SUFFICES ASSUME NEW dep \in Needs(plan, key)
                 PROVE  dep \in B
      OBVIOUS
    <3>1. Head(s.agenda) = s.agenda[1] /\ 1 \in 1 .. Len(s.agenda)
      BY AgendaIs
    <3>2. \/ s.color[dep] = "black"
          \/ \E p \in 1 .. 1 - 1 : s.agenda[p].key = dep
      BY <1>4, <3>1 DEF Searching, LeftAfterNeeds
    <3>3. dep \in KeysOf(plan)
      BY <1>1, DepsOfIs
    <3> QED BY <3>2, <3>3 DEF BlackIn
  <2>2. key \notin B
    BY <1>4 DEF BlackIn
  <2>3. /\ \A k \in B : Needs(plan, k) \subseteq B
        /\ Untangled(plan, B)
    BY DEF Searching, BlackIsDone
  <2> HIDE DEF key, B, C
  <2>4. \A k \in C : Needs(plan, k) \subseteq C
    BY <1>2, <2>1, <2>3
  <2>5. Untangled(plan, C)
    <3> SUFFICES ASSUME NEW S \in SUBSET C, S # {}
                 PROVE  \E k \in S : \A dep \in Needs(plan, k) : dep \notin S
      BY DEF Untangled
    <3>1. CASE S \cap B = {}
      BY <1>2, <2>1, <3>1
    <3>2. CASE S \cap B # {}
      <4>1. PICK k \in S \cap B : \A dep \in Needs(plan, k) : dep \notin S \cap B
        BY <2>3, <3>2 DEF Untangled
      <4> QED BY <1>2, <2>2, <2>3, <4>1
    <3> QED BY <3>1, <3>2
  <2> QED BY <2>4, <2>5 DEF BlackIsDone, C
<1> QED BY <1>3, <1>4

LEMMA SearchStep ==
  ASSUME NEW plan, Searchable(plan), NEW s \in SearchState(plan),
         s.agenda # <<>>, SearchInv(plan, s)
  PROVE  SearchInv(plan, Searched(plan, s))
<1> DEFINE t == Searched(plan, s)
           key == Head(s.agenda).key
<1>1. Searching(plan, s) /\ ~s.cycle
  BY DEF SearchInv
<1>2. t \in SearchState(plan)
  BY SearchedIs
<1>3. CASE /\ Head(s.agenda).op = "leave" \/ s.color[key] = "black"
           /\ t.agenda = Tail(s.agenda) /\ t.cycle = s.cycle
           /\ t.color = [s.color EXCEPT ![key] = "black"]
  <2> HIDE DEF t
  <2>1. BlackIsDone(plan, t)
    BY <1>1, <1>2, <1>3, LeftIsDone
  <2>2. Searching(plan, t)
    BY <1>1, <1>2, <1>3, <2>1, PoppedKeeps DEF Searching
  <2> QED BY <1>1, <1>3, <2>2 DEF SearchInv, t
<1>4. CASE /\ s.color[key] = "grey" /\ Head(s.agenda).op = "visit"
           /\ t.cycle = TRUE /\ t.agenda = <<>> /\ t.color = s.color
  <2>1. Knot(plan)
    BY <1>1, <1>4, GreyIsInKnot
  <2> HIDE DEF t
  <2> QED BY <1>4, <2>1 DEF SearchInv, t
<1>5. CASE s.color[key] = "white" /\ t = Entered(plan, s, key)
  <2>1. key \in KeysOf(plan)
    BY HeadTask
  <2>2. Searching(plan, Entered(plan, s, key))
    BY <1>1, <1>5, <2>1, EnteredKeeps
  <2>3. ~Entered(plan, s, key).cycle
    BY <1>1, <2>1, EnteredIs
  <2> QED BY <1>5, <2>2, <2>3 DEF SearchInv
<1> QED BY <1>3, <1>4, <1>5, SearchedIs

\* A round has fewer issues to enter, or as many and a shorter agenda.
LEMMA SearchShrinks ==
  ASSUME NEW plan, Searchable(plan), IsFiniteSet(KeysOf(plan)),
         NEW s \in SearchState(plan), s.agenda # <<>>
  PROVE  LET t == Searched(plan, s)
         IN  \/ Cardinality(WhiteIn(plan, t)) < Cardinality(WhiteIn(plan, s))
             \/ /\ Cardinality(WhiteIn(plan, t)) = Cardinality(WhiteIn(plan, s))
                /\ Len(t.agenda) < Len(s.agenda)
<1> DEFINE t == Searched(plan, s)
           key == Head(s.agenda).key
           V == WhiteIn(plan, s)
           W == WhiteIn(plan, t)
<1>1. /\ Len(s.agenda) \in Nat \ {0}
      /\ Len(Tail(s.agenda)) = Len(s.agenda) - 1
      /\ s.color \in [KeysOf(plan) -> {"white", "grey", "black"}]
  BY AgendaIs
<1>2. key \in KeysOf(plan)
  BY HeadTask
<1>3. IsFiniteSet(V) /\ Cardinality(V) \in Nat
  <2>1. V \in SUBSET KeysOf(plan)
    BY DEF WhiteIn
  <2> QED BY <2>1, FS_Subset, FS_CardinalityType
<1>4. ASSUME W \subseteq V, Len(t.agenda) < Len(s.agenda)
      PROVE  \/ Cardinality(W) < Cardinality(V)
             \/ Cardinality(W) = Cardinality(V) /\ Len(t.agenda) < Len(s.agenda)
  <2>1. Cardinality(W) \in Nat /\ Cardinality(W) <= Cardinality(V)
    BY <1>3, <1>4, FS_Subset, FS_CardinalityType
  <2> QED BY <1>3, <1>4, <2>1
<1>5. CASE t.agenda = Tail(s.agenda) /\ t.color = [s.color EXCEPT ![key] = "black"]
  <2>1. W \subseteq V
    BY <1>1, <1>2, <1>5 DEF WhiteIn
  <2>2. Len(t.agenda) < Len(s.agenda)
    <3> HIDE DEF t
    <3> QED BY <1>1, <1>5
  <2> QED BY <1>4, <2>1, <2>2
<1>6. CASE t.agenda = <<>> /\ t.color = s.color
  <2>1. W \subseteq V
    BY <1>6 DEF WhiteIn
  <2>2. Len(t.agenda) < Len(s.agenda)
    <3> HIDE DEF t
    <3>1. Len(t.agenda) = 0
      BY <1>6, EmptySeq
    <3> QED BY <1>1, <3>1
  <2> QED BY <1>4, <2>1, <2>2
<1>7. CASE s.color[key] = "white" /\ t = Entered(plan, s, key)
  <2>1. /\ t.color[key] = "grey"
        /\ \A k \in KeysOf(plan) : k # key => t.color[k] = s.color[k]
    BY <1>2, <1>7, EnteredIs
  <2>2. W = V \ {key} /\ key \in V
    <3> HIDE DEF t
    <3> QED BY <1>2, <1>7, <2>1 DEF WhiteIn
  <2>3. Cardinality(W) = Cardinality(V) - 1
    <3> HIDE DEF V, W, key
    <3> QED BY <1>3, <2>2, FS_RemoveElement
  <2> QED BY <1>3, <2>3
<1> QED BY <1>5, <1>6, <1>7, SearchedIs

LEMMA SearchStarts ==
  ASSUME NEW plan, Searchable(plan)
  PROVE  /\ SearchStart(plan) \in SearchState(plan)
         /\ SearchInv(plan, SearchStart(plan))
<1> DEFINE keys == [i \in DOMAIN plan |-> plan[i].key]
           s == SearchStart(plan)
<1>1. Len(plan) \in Nat /\ DOMAIN plan = 1 .. Len(plan)
  BY LenProperties DEF Searchable, IsPlan
<1>2. keys \in Seq(KeysOf(plan)) /\ Len(keys) = Len(plan)
  <2>1. keys \in [1 .. Len(plan) -> KeysOf(plan)] /\ DOMAIN keys = 1 .. Len(plan)
    BY <1>1 DEF KeysOf
  <2> HIDE DEF keys
  <2> QED BY <1>1, <2>1, ListOf
<1>3. /\ s.agenda \in Seq(Tasks(plan)) /\ Len(s.agenda) = Len(plan)
      /\ \A m \in 1 .. Len(plan) :
           s.agenda[m] = [op |-> "visit", key |-> plan[m].key]
  <2>1. s.agenda = Visits(keys)
    BY DEF SearchStart
  <2>2. \A m \in 1 .. Len(plan) : keys[m] = plan[m].key
    BY <1>1
  <2> HIDE DEF keys, s
  <2> QED BY <1>2, <2>1, <2>2, VisitsAre
<1>4. /\ s.color = [key \in KeysOf(plan) |-> "white"] /\ s.cycle = FALSE
      /\ s = [agenda |-> s.agenda, color |-> s.color, cycle |-> s.cycle]
  BY DEF SearchStart
<1> HIDE DEF s
<1>5. s \in SearchState(plan)
  BY <1>3, <1>4 DEF SearchState, Tasks
<1>6. Searching(plan, s)
  <2>1. /\ \A m \in 1 .. Len(s.agenda) :
             s.agenda[m].op = "visit" /\ s.agenda[m].key = plan[m].key
        /\ Len(s.agenda) = Len(plan)
    <3>1. \A m \in 1 .. Len(plan) :
            s.agenda[m].op = "visit" /\ s.agenda[m].key = plan[m].key
      <4> SUFFICES ASSUME NEW m \in 1 .. Len(plan)
                   PROVE  /\ s.agenda[m].op = "visit"
                          /\ s.agenda[m].key = plan[m].key
        OBVIOUS
      <4>1. s.agenda[m] = [op |-> "visit", key |-> plan[m].key]
        BY <1>3
      <4> QED BY <4>1
    <3> QED BY <1>3, <3>1
  <2>2. \A key \in KeysOf(plan) : s.color[key] = "white"
    BY <1>4
  <2>3. NothingForgotten(plan, s)
    BY <1>1, <2>1 DEF NothingForgotten, KeysOf
  <2>4. GreyIsOpen(plan, s) /\ LeftAfterNeeds(plan, s) /\ BelowTheGrey(plan, s)
    BY <2>1, <2>2 DEF GreyIsOpen, LeftAfterNeeds, BelowTheGrey
  <2>5. BlackIsDone(plan, s)
    BY <2>2 DEF BlackIsDone, Untangled, BlackIn
  <2> QED BY <2>3, <2>4, <2>5 DEF Searching
<1> QED BY <1>4, <1>5, <1>6 DEF SearchInv, s

LEMMA SearchEnds ==
  ASSUME NEW plan, Searchable(plan), NEW s \in SearchState(plan),
         s.agenda = <<>>, SearchInv(plan, s)
  PROVE  s.cycle <=> Knot(plan)
<1>1. CASE s.cycle
  BY <1>1 DEF SearchInv
<1>2. CASE ~s.cycle
  <2>1. Len(s.agenda) = 0
    BY EmptySeq
  <2>2. \A key \in KeysOf(plan) : s.color[key] = "black"
    BY <1>2, <2>1 DEF SearchInv, Searching, NothingForgotten
  <2>3. BlackIn(plan, s) = KeysOf(plan)
    BY <2>2 DEF BlackIn
  <2>4. Untangled(plan, KeysOf(plan))
    BY <1>2, <2>3 DEF SearchInv, Searching, BlackIsDone
  <2> QED BY <1>2, <2>4 DEF Knot, Untangled
<1> QED BY <1>1, <1>2

\* The search finds a cycle exactly when issues all wait for one another.
LEMMA SearchFinds ==
  ASSUME NEW plan, Searchable(plan)
  PROVE  HasCycle(plan) <=> Knot(plan)
<1> DEFINE T == SearchState(plan)
           H == {s \in T : s.agenda = <<>>}
           g == [s \in T |-> IF s \in H THEN s ELSE Searched(plan, s)]
           out == [s \in T |-> s.cycle]
           Loop(r) == [s \in T |-> IF s.agenda = <<>> THEN s.cycle
                                   ELSE r[Searched(plan, s)]]
           search == CHOOSE r : r = Loop(r)
           Inv == {s \in T : SearchInv(plan, s)}
           mu == [s \in Inv |-> Cardinality(WhiteIn(plan, s))]
           nu == [s \in Inv |-> Len(s.agenda)]
           Good == {b \in BOOLEAN : b <=> Knot(plan)}
<1>1. IsFiniteSet(KeysOf(plan))
  BY FiniteKeys DEF Searchable
<1>2. \A s \in T \ H : Searched(plan, s) \in T
  BY SearchedIs
<1>3. g \in [T -> T]
  BY <1>2
<1>4. ASSUME NEW r, NEW s \in T
      PROVE  (IF s.agenda = <<>> THEN s.cycle ELSE r[Searched(plan, s)])
               = IF s \in H THEN out[s] ELSE r[g[s]]
  OBVIOUS
<1>5. H \in SUBSET T
  OBVIOUS
<1>6. search = Loop(search)
  <2>1. PICK r : r = [s \in T |-> r[s]] /\ LoopOf(T, H, g, out, r)
    <3>1. out \in [T -> BOOLEAN]
      BY AgendaIs
    <3> HIDE DEF T, H, g, out
    <3> QED BY <1>3, <1>5, <3>1, LoopExists
  <2>2. \E x : x = Loop(x)
    <3>1. \A s \in T : r[s] = IF s.agenda = <<>> THEN s.cycle
                             ELSE r[Searched(plan, s)]
      BY <1>4, <2>1 DEF LoopOf
    <3>2. r = Loop(r)
      <4> HIDE DEF T
      <4> QED BY <2>1, <3>1
    <3> HIDE DEF Loop
    <3> QED BY <3>2
  <2> HIDE DEF Loop
  <2> QED BY <2>2
<1>7. LoopOf(T, H, g, out, search)
  <2> HIDE DEF search
  <2>1. \A s \in T : search[s] = IF s.agenda = <<>> THEN s.cycle
                                ELSE search[Searched(plan, s)]
    <3> HIDE DEF T
    <3> QED BY <1>6
  <2> QED BY <1>4, <2>1 DEF LoopOf
<1>8. \A s \in Inv : mu[s] \in Nat /\ nu[s] \in Nat
  <2> SUFFICES ASSUME NEW s \in Inv PROVE mu[s] \in Nat /\ nu[s] \in Nat
    OBVIOUS
  <2>1. WhiteIn(plan, s) \in SUBSET KeysOf(plan)
    BY DEF WhiteIn
  <2>2. Cardinality(WhiteIn(plan, s)) \in Nat
    BY <1>1, <2>1, FS_Subset, FS_CardinalityType
  <2>3. Len(s.agenda) \in Nat
    BY AgendaIs
  <2> QED BY <2>2, <2>3
<1>9. LoopEnds(H, g, Inv, mu, nu)
  <2> SUFFICES ASSUME NEW s \in Inv \ H
               PROVE  /\ g[s] \in Inv
                      /\ \/ mu[g[s]] < mu[s]
                         \/ mu[g[s]] = mu[s] /\ nu[g[s]] < nu[s]
    BY DEF LoopEnds
  <2>1. g[s] = Searched(plan, s) /\ s \in T /\ s.agenda # <<>>
    OBVIOUS
  <2>2. g[s] \in Inv
    BY <1>2, <2>1, SearchStep
  <2>3. /\ mu[s] = Cardinality(WhiteIn(plan, s)) /\ nu[s] = Len(s.agenda)
        /\ mu[g[s]] = Cardinality(WhiteIn(plan, g[s]))
        /\ nu[g[s]] = Len(g[s].agenda)
    BY <2>2
  <2> HIDE DEF mu, nu, g, Inv, H
  <2> QED BY <1>1, <2>1, <2>2, <2>3, SearchShrinks
<1>10. ASSUME NEW s \in Inv \cap H
       PROVE  out[s] \in Good
  <2>1. s.cycle \in BOOLEAN
    BY AgendaIs
  <2> QED BY <2>1, SearchEnds
<1>11. \A s \in Inv : search[s] \in Good
  <2>1. Inv \in SUBSET T
    OBVIOUS
  <2>2. mu \in [Inv -> Nat] /\ nu \in [Inv -> Nat]
    BY <1>8
  <2> HIDE DEF search, Inv, mu, nu, g, H, out, Good, T
  <2> QED BY <1>3, <1>5, <1>7, <1>9, <1>10, <2>1, <2>2, LoopResult
<1>12. HasCycle(plan) = search[SearchStart(plan)]
  BY DEF HasCycle
<1>13. SearchStart(plan) \in Inv
  BY SearchStarts
<1> HIDE DEF search, Inv
<1>14. search[SearchStart(plan)] \in Good
  BY <1>11, <1>13
<1> QED BY <1>12, <1>14

\* validatePlan accepts exactly the sound plans.
LEMMA AcceptedIsSound ==
  ASSUME NEW plan, IsPlan(plan)
  PROVE  Accepted(plan) <=> Sound(plan)
<1>1. Len(plan) \in Nat /\ DOMAIN plan = 1 .. Len(plan)
  BY LenProperties DEF IsPlan
<1>2. ASSUME Searchable(plan), NEW i \in DOMAIN plan
      PROVE  Needs(plan, plan[i].key) = DepsIn(plan, i)
  BY <1>2, DepsOfIs DEF Needs, DepsIn
<1>3. ASSUME Accepted(plan)
      PROVE  Sound(plan)
  <2>1. \A i, j \in DOMAIN plan : plan[i].key = plan[j].key => i = j
    <3> SUFFICES ASSUME NEW i \in DOMAIN plan, NEW j \in DOMAIN plan,
                        plan[i].key = plan[j].key, i # j
                 PROVE  FALSE
      OBVIOUS
    <3>1. i \in 1 .. j - 1 \/ j \in 1 .. i - 1
      BY <1>1
    <3> QED BY <1>3, <3>1 DEF Accepted, GoodIssue
  <2>2. Searchable(plan)
    BY <1>3, <2>1 DEF Accepted, GoodDeps, Searchable
  <2>3. ~Knot(plan)
    BY <1>3, <2>2, SearchFinds DEF Accepted
  <2>4. ASSUME NEW S \in SUBSET DOMAIN plan, S # {}
        PROVE  \E i \in S : \A j \in S : plan[j].key \notin DepsIn(plan, i)
    <3> DEFINE K == {plan[i].key : i \in S}
    <3>1. K \in SUBSET KeysOf(plan) /\ K # {}
      BY <2>4 DEF KeysOf
    <3>2. PICK key \in K : \A dep \in Needs(plan, key) : dep \notin K
      <4> HIDE DEF K
      <4> QED BY <2>3, <3>1 DEF Knot
    <3>3. PICK i \in S : key = plan[i].key
      OBVIOUS
    <3> QED BY <1>2, <2>2, <3>2, <3>3
  <2>5. \A i \in DOMAIN plan : GoodIssue(plan, i) /\ GoodDeps(plan, i)
    BY <1>3 DEF Accepted
  <2> QED BY <1>3, <2>1, <2>4, <2>5 DEF Sound, Accepted, GoodIssue, GoodDeps
<1>4. ASSUME Sound(plan)
      PROVE  Accepted(plan)
  <2>1. Searchable(plan)
    BY <1>4 DEF Sound, Searchable
  <2>2. ~Knot(plan)
    <3> SUFFICES ASSUME NEW S \in SUBSET KeysOf(plan), S # {},
                        \A key \in S : \E dep \in Needs(plan, key) : dep \in S
                 PROVE  FALSE
      BY DEF Knot
    <3> DEFINE I == {i \in DOMAIN plan : plan[i].key \in S}
    <3>1. I \in SUBSET DOMAIN plan /\ I # {}
      BY DEF KeysOf
    <3>2. PICK i \in I : \A j \in I : plan[j].key \notin DepsIn(plan, i)
      <4> HIDE DEF I
      <4> QED BY <1>4, <3>1 DEF Sound
    <3>3. PICK dep \in DepsIn(plan, i) : dep \in S
      BY <1>2, <2>1
    <3>4. PICK j \in DOMAIN plan : dep = plan[j].key
      BY <3>3 DEF KeysOf
    <3> QED BY <3>2, <3>3, <3>4
  <2>3. \A i \in DOMAIN plan : GoodDeps(plan, i)
    <3> SUFFICES ASSUME NEW i \in DOMAIN plan PROVE GoodDeps(plan, i)
      OBVIOUS
    <3>1. {i} \in (SUBSET DOMAIN plan) \ {{}}
      OBVIOUS
    <3>2. \E k \in {i} : \A j \in {i} : plan[j].key \notin DepsIn(plan, k)
      BY <1>4, <3>1 DEF Sound
    <3> QED BY <1>4, <3>2 DEF Sound, GoodDeps
  <2>4. \A i \in DOMAIN plan : GoodIssue(plan, i)
    BY <1>1, <1>4 DEF Sound, GoodIssue
  <2>5. ~HasCycle(plan)
    BY <2>1, <2>2, SearchFinds
  <2> QED BY <1>4, <2>3, <2>4, <2>5 DEF Sound, Accepted
<1> QED BY <1>3, <1>4

-----------------------------------------------------------------------------
(* The order of topologicalOrder. *)

Orderable(issues) ==
  /\ IsPlan(issues)
  /\ KeysOf(issues) \subseteq Nat
  /\ \A i, j \in DOMAIN issues : issues[i].key = issues[j].key => i = j

\* The dependencies of an issue that are not ordered yet, by their places.
Open(issues, i, order) ==
  {m \in DOMAIN issues[i].deps : issues[i].deps[m] \notin ToSet(order)}

OnceEach(order) == \A i, j \in DOMAIN order : order[i] = order[j] => i = j

AfterNeeds(issues, order) ==
  \A i \in DOMAIN issues, m \in DOMAIN order :
    issues[i].key = order[m] =>
      DepsIn(issues, i) \subseteq {order[k] : k \in 1 .. m - 1}

\* The free issues are those whose dependencies are ordered and that are not
\* ordered themselves.
Ordering(issues, s) ==
  /\ OnceEach(s.order)
  /\ AfterNeeds(issues, s.order)
  /\ \A i \in DOMAIN issues :
       s.waits[i] = Cardinality(Open(issues, i, s.order))
  /\ \A i \in DOMAIN issues :
       issues[i].key \in s.queue <=>
         issues[i].key \notin ToSet(s.order) /\ Open(issues, i, s.order) = {}

OrderedRight(issues, order) ==
  /\ ToSet(order) = Executable(issues)
  /\ OnceEach(order)
  /\ AfterNeeds(issues, order)

LEMMA OrderIs ==
  ASSUME NEW issues, NEW s \in OrderState(issues)
  PROVE  /\ s = [order |-> s.order, waits |-> s.waits, queue |-> s.queue]
         /\ s.order \in Seq(KeysOf(issues))
         /\ s.waits \in [DOMAIN issues -> Int]
         /\ s.queue \in SUBSET KeysOf(issues)
         /\ Len(s.order) \in Nat
         /\ DOMAIN s.order = 1 .. Len(s.order)
         /\ ToSet(s.order) = {s.order[m] : m \in 1 .. Len(s.order)}
         /\ ToSet(s.order) \subseteq KeysOf(issues)
<1>1. /\ s = [order |-> s.order, waits |-> s.waits, queue |-> s.queue]
      /\ s.order \in Seq(KeysOf(issues))
      /\ s.waits \in [DOMAIN issues -> Int]
      /\ s.queue \in SUBSET KeysOf(issues)
  BY DEF OrderState
<1>2. Len(s.order) \in Nat /\ DOMAIN s.order = 1 .. Len(s.order)
  BY <1>1, LenProperties
<1>3. \A m \in 1 .. Len(s.order) : s.order[m] \in KeysOf(issues)
  BY <1>1, ElementOfSeq
<1> QED BY <1>1, <1>2, <1>3 DEF ToSet

LEMMA IssueDeps ==
  ASSUME NEW issues, Orderable(issues), NEW i \in DOMAIN issues
  PROVE  /\ Len(issues[i].deps) \in Nat
         /\ DOMAIN issues[i].deps = 1 .. Len(issues[i].deps)
         /\ IsFiniteSet(DOMAIN issues[i].deps)
         /\ Cardinality(DOMAIN issues[i].deps) = Len(issues[i].deps)
         /\ DepsIn(issues, i)
              = {issues[i].deps[m] : m \in DOMAIN issues[i].deps}
<1>1. issues[i].deps \in Seq(DepsIn(issues, i))
  BY DEF Orderable, IsPlan
<1>2. /\ Len(issues[i].deps) \in Nat
      /\ DOMAIN issues[i].deps = 1 .. Len(issues[i].deps)
  BY <1>1, LenProperties
<1>3. /\ IsFiniteSet(1 .. Len(issues[i].deps))
      /\ Cardinality(1 .. Len(issues[i].deps)) = Len(issues[i].deps)
  BY <1>2, FS_Interval
<1> QED BY <1>2, <1>3 DEF DepsIn, ToSet

LEMMA OpenIs ==
  ASSUME NEW issues, Orderable(issues), NEW i \in DOMAIN issues, NEW order
  PROVE  /\ IsFiniteSet(Open(issues, i, order))
         /\ Cardinality(Open(issues, i, order)) \in Nat
         /\ Cardinality(Open(issues, i, order)) = 0
              <=> Open(issues, i, order) = {}
         /\ Open(issues, i, order) = {}
              <=> DepsIn(issues, i) \subseteq ToSet(order)
<1>1. Open(issues, i, order) \in SUBSET DOMAIN issues[i].deps
  BY DEF Open
<1>2. IsFiniteSet(DOMAIN issues[i].deps)
  BY IssueDeps
<1>3. IsFiniteSet(Open(issues, i, order))
  BY <1>1, <1>2, FS_Subset
<1>4. /\ Cardinality(Open(issues, i, order)) \in Nat
      /\ Cardinality(Open(issues, i, order)) = 0
           <=> Open(issues, i, order) = {}
  BY <1>3, FS_EmptySet, FS_CardinalityType
<1>5. DepsIn(issues, i) = {issues[i].deps[m] : m \in DOMAIN issues[i].deps}
  BY IssueDeps
<1>6. Open(issues, i, order) = {} <=> DepsIn(issues, i) \subseteq ToSet(order)
  BY <1>5 DEF Open
<1> QED BY <1>3, <1>4, <1>6

\* The free issue that is ordered next.
LEMMA LeastIs ==
  ASSUME NEW issues, Orderable(issues), NEW s \in OrderState(issues),
         s.queue # {}
  PROVE  Least(s.queue) \in s.queue
<1>1. s.queue \in SUBSET Nat
  BY OrderIs DEF Orderable
<1>2. \E k \in s.queue : \A other \in s.queue : k <= other
  BY <1>1, LeastNumber
<1> QED BY <1>2 DEF Least

\* One round: the order grows by a free issue.
LEMMA ShiftedIs ==
  ASSUME NEW issues, Orderable(issues), NEW s \in OrderState(issues),
         s.queue # {}
  PROVE  LET t == Shifted(issues, s)
             key == Least(s.queue)
         IN  /\ t \in OrderState(issues)
             /\ key \in s.queue /\ key \in KeysOf(issues)
             /\ Len(t.order) = Len(s.order) + 1
             /\ \A m \in 1 .. Len(s.order) : t.order[m] = s.order[m]
             /\ t.order[Len(s.order) + 1] = key
             /\ ToSet(t.order) = ToSet(s.order) \cup {key}
             /\ \A i \in DOMAIN issues :
                  t.waits[i] = s.waits[i] - Uses(issues[i], key)
             /\ t.queue = (s.queue \cup Freed(issues, t.waits, key)) \ {key}
<1> DEFINE t == Shifted(issues, s)
           key == Least(s.queue)
           o == Append(s.order, key)
           w == [i \in DOMAIN issues |-> s.waits[i] - Uses(issues[i], key)]
           q == (s.queue \cup Freed(issues, w, key)) \ {key}
           n == Len(s.order)
<1>1. key \in s.queue
  BY LeastIs
<1>2. key \in KeysOf(issues)
  BY <1>1, OrderIs
<1>3. t = [order |-> o, waits |-> w, queue |-> q]
  BY DEF Shifted
<1>4. s.order \in Seq(KeysOf(issues)) /\ n \in Nat
  BY OrderIs
<1> HIDE DEF key
<1>5. /\ o \in Seq(KeysOf(issues)) /\ Len(o) = n + 1
      /\ \A m \in 1 .. n : o[m] = s.order[m]
      /\ o[n + 1] = key
  BY <1>2, <1>4, AppendProperties
<1>6. w \in [DOMAIN issues -> Int]
  <2> SUFFICES ASSUME NEW i \in DOMAIN issues
               PROVE  s.waits[i] - Uses(issues[i], key) \in Int
    OBVIOUS
  <2>1. Uses(issues[i], key) \in Nat
    <3>1. {m \in DOMAIN issues[i].deps : issues[i].deps[m] = key}
            \in SUBSET DOMAIN issues[i].deps
      OBVIOUS
    <3>2. IsFiniteSet(DOMAIN issues[i].deps)
      BY IssueDeps
    <3> QED BY <3>1, <3>2, FS_Subset, FS_CardinalityType DEF Uses
  <2>2. s.waits[i] \in Int
    BY OrderIs
  <2> QED BY <2>1, <2>2
<1>7. q \in SUBSET KeysOf(issues)
  <2>1. Freed(issues, w, key) \subseteq KeysOf(issues)
    BY DEF Freed, KeysOf
  <2> QED BY <2>1, OrderIs
<1>8. /\ \A m \in DOMAIN o : m \in 1 .. n \/ m = n + 1
      /\ DOMAIN o = 1 .. n + 1
  <2> HIDE DEF o, n
  <2> QED BY <1>4, <1>5, LenProperties
<1>9. ToSet(o) = ToSet(s.order) \cup {key}
  <2>1. /\ ToSet(s.order) = {s.order[m] : m \in 1 .. n}
        /\ ToSet(o) = {o[m] : m \in 1 .. n + 1}
    BY <1>8, OrderIs DEF ToSet
  <2> HIDE DEF o, n
  <2>2. 1 .. n + 1 = (1 .. n) \cup {n + 1}
    BY <1>4
  <2> QED BY <1>5, <2>1, <2>2
<1>10. \A i \in DOMAIN issues : w[i] = s.waits[i] - Uses(issues[i], key)
  OBVIOUS
<1> HIDE DEF o, w, q, n, t
<1>11. /\ t.order = o /\ t.waits = w /\ t.queue = q
       /\ t \in OrderState(issues)
  BY <1>3, <1>5, <1>6, <1>7 DEF OrderState
<1> QED BY <1>1, <1>2, <1>5, <1>9, <1>10, <1>11 DEF t, key, q, n

LEMMA OrderStep ==
  ASSUME NEW issues, Orderable(issues), NEW s \in OrderState(issues),
         s.queue # {}, Ordering(issues, s)
  PROVE  Ordering(issues, Shifted(issues, s))
<1> DEFINE t == Shifted(issues, s)
           key == Least(s.queue)
           n == Len(s.order)
<1>1. /\ key \in s.queue /\ key \in KeysOf(issues)
      /\ Len(t.order) = n + 1
      /\ \A m \in 1 .. n : t.order[m] = s.order[m]
      /\ t.order[n + 1] = key
      /\ ToSet(t.order) = ToSet(s.order) \cup {key}
      /\ \A i \in DOMAIN issues :
           t.waits[i] = s.waits[i] - Uses(issues[i], key)
      /\ t.queue = (s.queue \cup Freed(issues, t.waits, key)) \ {key}
  <2>1. key \in s.queue /\ key \in KeysOf(issues)
    BY ShiftedIs
  <2>2. /\ Len(t.order) = n + 1
        /\ \A m \in 1 .. n : t.order[m] = s.order[m]
        /\ t.order[n + 1] = key
    BY ShiftedIs
  <2>3. ToSet(t.order) = ToSet(s.order) \cup {key}
    BY ShiftedIs
  <2>4. \A i \in DOMAIN issues :
          t.waits[i] = s.waits[i] - Uses(issues[i], key)
    BY ShiftedIs
  <2>5. t.queue = (s.queue \cup Freed(issues, t.waits, key)) \ {key}
    BY ShiftedIs
  <2> QED BY <2>1, <2>2, <2>3, <2>4, <2>5
<1>2. /\ n \in Nat /\ DOMAIN s.order = 1 .. n
      /\ ToSet(s.order) = {s.order[m] : m \in 1 .. n}
  BY OrderIs
<1>3. DOMAIN t.order = 1 .. n + 1
  <2>1. t \in OrderState(issues)
    BY ShiftedIs
  <2> HIDE DEF t, n
  <2> QED BY <1>1, <2>1, OrderIs
<1> HIDE DEF t, key, n
<1>4. PICK e \in DOMAIN issues : issues[e].key = key
  BY <1>1 DEF KeysOf
<1>5. key \notin ToSet(s.order) /\ DepsIn(issues, e) \subseteq ToSet(s.order)
  BY <1>1, <1>4, OpenIs DEF Ordering
<1>6. \A m \in 1 .. n + 1 : m \in 1 .. n \/ m = n + 1
  BY <1>2
<1>7. OnceEach(t.order)
  <2> SUFFICES ASSUME NEW i \in 1 .. n + 1, NEW j \in 1 .. n + 1,
                      t.order[i] = t.order[j]
               PROVE  i = j
    BY <1>3 DEF OnceEach
  <2>1. CASE i \in 1 .. n /\ j \in 1 .. n
    BY <1>1, <1>2, <2>1 DEF Ordering, OnceEach
  <2>2. CASE i = n + 1 /\ j \in 1 .. n
    BY <1>1, <1>2, <1>5, <2>2
  <2>3. CASE j = n + 1 /\ i \in 1 .. n
    BY <1>1, <1>2, <1>5, <2>3
  <2> QED BY <1>6, <2>1, <2>2, <2>3
<1>8. AfterNeeds(issues, t.order)
  <2> SUFFICES ASSUME NEW i \in DOMAIN issues, NEW m \in 1 .. n + 1,
                      issues[i].key = t.order[m]
               PROVE  DepsIn(issues, i) \subseteq {t.order[k] : k \in 1 .. m - 1}
    BY <1>3 DEF AfterNeeds
  <2>1. CASE m \in 1 .. n
    <3>1. DepsIn(issues, i) \subseteq {s.order[k] : k \in 1 .. m - 1}
      BY <1>1, <1>2, <2>1 DEF Ordering, AfterNeeds
    <3>2. \A k \in 1 .. m - 1 : k \in 1 .. n
      BY <1>2, <2>1
    <3> QED BY <1>1, <3>1, <3>2
  <2>2. CASE m = n + 1
    <3>1. i = e
      BY <1>1, <1>4, <2>2 DEF Orderable
    <3>2. m - 1 = n
      BY <1>2, <2>2
    <3>3. DepsIn(issues, i) \subseteq {s.order[k] : k \in 1 .. n}
      BY <1>2, <1>5, <3>1
    <3>4. \A k \in 1 .. n : t.order[k] = s.order[k]
      BY <1>1
    <3> QED BY <3>2, <3>3, <3>4
  <2> QED BY <1>6, <2>1, <2>2
<1>9. ASSUME NEW i \in DOMAIN issues
      PROVE  t.waits[i] = Cardinality(Open(issues, i, t.order))
  <2> DEFINE A == Open(issues, i, s.order)
             B == {m \in DOMAIN issues[i].deps : issues[i].deps[m] = key}
             C == Open(issues, i, t.order)
  <2>1. C = A \ B /\ B \subseteq A
    BY <1>1, <1>5 DEF Open
  <2>2. IsFiniteSet(A) /\ Cardinality(A) \in Nat
    BY OpenIs
  <2>3. t.waits[i] = Cardinality(A) - Cardinality(B)
    BY <1>1 DEF Ordering, Uses
  <2> HIDE DEF A, B, C
  <2>4. A \cap B = B
    BY <2>1
  <2> QED BY <2>1, <2>2, <2>3, <2>4, FS_Difference DEF C
<1>10. ASSUME NEW i \in DOMAIN issues
       PROVE  issues[i].key \in t.queue <=>
                issues[i].key \notin ToSet(t.order)
                  /\ Open(issues, i, t.order) = {}
  <2>1. t.waits[i] = 0 <=> Open(issues, i, t.order) = {}
    BY <1>9, OpenIs
  <2>2. issues[i].key \in Freed(issues, t.waits, key)
          <=> Uses(issues[i], key) > 0 /\ t.waits[i] = 0
    BY DEF Freed, Orderable
  <2>3. issues[i].key \in s.queue <=>
          issues[i].key \notin ToSet(s.order) /\ Open(issues, i, s.order) = {}
    BY DEF Ordering
  <2>4. Open(issues, i, t.order) \subseteq Open(issues, i, s.order)
    BY <1>1 DEF Open
  <2>5. ASSUME Uses(issues[i], key) > 0
        PROVE  \E m \in DOMAIN issues[i].deps : issues[i].deps[m] = key
    <3>1. Uses(issues[i], key) # 0
      BY <2>5
    <3>2. {m \in DOMAIN issues[i].deps : issues[i].deps[m] = key} # {}
      BY <3>1, FS_EmptySet DEF Uses
    <3> QED BY <3>2
  <2>6. ASSUME Uses(issues[i], key) > 0
        PROVE  issues[i].key \notin ToSet(s.order)
    <3>1. key \in DepsIn(issues, i)
      BY <2>5, <2>6, IssueDeps
    <3>2. \A m \in 1 .. n : \A k \in 1 .. m - 1 : k \in 1 .. n
      BY <1>2
    <3>3. \A m \in 1 .. n : issues[i].key = s.order[m] =>
            DepsIn(issues, i) \subseteq {s.order[k] : k \in 1 .. m - 1}
      BY <1>2 DEF Ordering, AfterNeeds
    <3> QED BY <1>2, <1>5, <3>1, <3>2, <3>3
  <2>7. ASSUME Open(issues, i, t.order) = {}, Open(issues, i, s.order) # {}
        PROVE  Uses(issues[i], key) > 0
    <3>1. PICK m \in DOMAIN issues[i].deps : issues[i].deps[m] = key
      BY <1>1, <2>7 DEF Open
    <3> DEFINE B == {x \in DOMAIN issues[i].deps : issues[i].deps[x] = key}
    <3>2. IsFiniteSet(B)
      <4>1. B \in SUBSET DOMAIN issues[i].deps
        OBVIOUS
      <4> QED BY <4>1, FS_Subset, IssueDeps
    <3>3. Cardinality(B) \in Nat /\ Cardinality(B) # 0
      <4>1. B # {}
        BY <3>1
      <4> HIDE DEF B
      <4> QED BY <3>2, <4>1, FS_EmptySet, FS_CardinalityType
    <3> QED BY <3>3 DEF Uses
  <2>8. t.queue = (s.queue \cup Freed(issues, t.waits, key)) \ {key}
        /\ ToSet(t.order) = ToSet(s.order) \cup {key}
    BY <1>1
  <2>9. CASE issues[i].key \in t.queue
    BY <2>1, <2>2, <2>3, <2>4, <2>6, <2>8, <2>9
  <2>10. CASE issues[i].key \notin ToSet(t.order) /\ Open(issues, i, t.order) = {}
    BY <2>1, <2>2, <2>3, <2>7, <2>8, <2>10
  <2> QED BY <2>9, <2>10
<1> QED BY <1>7, <1>8, <1>9, <1>10 DEF Ordering, t

LEMMA OrderStarts ==
  ASSUME NEW issues, Orderable(issues)
  PROVE  /\ OrderStart(issues) \in OrderState(issues)
         /\ Ordering(issues, OrderStart(issues))
<1> DEFINE s == OrderStart(issues)
           w == [i \in DOMAIN issues |-> Len(issues[i].deps)]
           q == {issues[i].key : i \in {i \in DOMAIN issues :
                                        issues[i].deps = <<>>}}
<1>1. s = [order |-> <<>>, waits |-> w, queue |-> q]
  BY DEF OrderStart
<1>2. w \in [DOMAIN issues -> Int]
  BY IssueDeps
<1>3. q \in SUBSET KeysOf(issues)
  BY DEF KeysOf
<1>4. ToSet(<<>>) = {} /\ DOMAIN <<>> = {}
  BY DEF ToSet
<1>5. ASSUME NEW i \in DOMAIN issues
      PROVE  /\ w[i] = Cardinality(Open(issues, i, <<>>))
             /\ issues[i].key \in q <=> Open(issues, i, <<>>) = {}
  <2>1. Open(issues, i, <<>>) = DOMAIN issues[i].deps
    BY <1>4 DEF Open
  <2>2. w[i] = Cardinality(Open(issues, i, <<>>))
    BY <2>1, IssueDeps
  <2>3. issues[i].key \in q <=> issues[i].deps = <<>>
    BY DEF Orderable
  <2>4. issues[i].deps = <<>> <=> DOMAIN issues[i].deps = {}
    <3> DEFINE d == issues[i].deps
    <3>1. d \in Seq(DepsIn(issues, i)) /\ DOMAIN d = 1 .. Len(d)
      BY IssueDeps DEF Orderable, IsPlan
    <3>2. Len(d) \in Nat
      BY IssueDeps
    <3> HIDE DEF d
    <3>3. 1 .. Len(d) = {} <=> Len(d) = 0
      BY <3>2
    <3>4. d = <<>> <=> Len(d) = 0
      BY <3>1, EmptySeq
    <3> QED BY <3>1, <3>3, <3>4 DEF d
  <2> QED BY <2>1, <2>2, <2>3, <2>4
<1> HIDE DEF w, q, s
<1>6. s.order = <<>> /\ s.waits = w /\ s.queue = q
  BY <1>1
<1>7. s \in OrderState(issues)
  BY <1>1, <1>2, <1>3 DEF OrderState
<1>8. Ordering(issues, s)
  BY <1>4, <1>5, <1>6 DEF Ordering, OnceEach, AfterNeeds
<1> QED BY <1>7, <1>8 DEF s

\* When no issue is free the ordered ones are those that can be executed: the
\* others all wait for one of them, or for an issue there is not.
LEMMA OrderEnds ==
  ASSUME NEW issues, Orderable(issues), NEW s \in OrderState(issues),
         s.queue = {}, Ordering(issues, s)
  PROVE  OrderedRight(issues, s.order)
<1> DEFINE K == KeysOf(issues)
           O == ToSet(s.order)
           n == Len(s.order)
           Stuck(S) == \A i \in DOMAIN issues : issues[i].key \in S =>
                         \E dep \in DepsIn(issues, i) : dep \in S \/ dep \notin K
<1>1. /\ n \in Nat /\ DOMAIN s.order = 1 .. n
      /\ O = {s.order[m] : m \in 1 .. n} /\ O \subseteq K
  BY OrderIs
<1>2. Executable(issues) = K \ UNION {S \in SUBSET K : Stuck(S)}
  BY DEF Executable
<1>3. AfterNeeds(issues, s.order) /\ OnceEach(s.order)
  BY DEF Ordering
<1> HIDE DEF n
<1>4. Stuck(K \ O)
  <2> SUFFICES ASSUME NEW i \in DOMAIN issues, issues[i].key \in K \ O
               PROVE  \E dep \in DepsIn(issues, i) :
                        dep \in K \ O \/ dep \notin K
    OBVIOUS
  <2>1. Open(issues, i, s.order) # {}
    BY DEF Ordering
  <2>2. ~(DepsIn(issues, i) \subseteq O)
    BY <2>1, OpenIs
  <2> QED BY <2>2
<1>5. ASSUME NEW S \in SUBSET K, Stuck(S), NEW k \in S, k \in O
      PROVE  FALSE
  <2> DEFINE M == {m \in 1 .. n : s.order[m] \in S}
  <2>1. M \in SUBSET Nat /\ M # {}
    BY <1>1, <1>5
  <2>2. PICK m \in M : \A l \in M : m <= l
    <3> HIDE DEF M
    <3> QED BY <2>1, LeastNumber
  <2>3. PICK i \in DOMAIN issues : issues[i].key = s.order[m]
    BY DEF KeysOf
  <2>4. DepsIn(issues, i) \subseteq {s.order[l] : l \in 1 .. m - 1}
    BY <1>1, <1>3, <2>3 DEF AfterNeeds
  <2>5. \A l \in 1 .. m - 1 : l \in 1 .. n /\ ~(m <= l)
    BY <1>1
  <2>6. PICK dep \in DepsIn(issues, i) : dep \in S \/ dep \notin K
    BY <1>5, <2>2, <2>3
  <2>7. PICK l \in 1 .. m - 1 : dep = s.order[l]
    BY <2>4, <2>6
  <2>8. dep \in O
    BY <1>1, <2>5, <2>7
  <2>9. dep \in S
    BY <1>1, <2>6, <2>8
  <2>10. l \in M
    BY <2>5, <2>7, <2>9
  <2> QED BY <2>2, <2>5, <2>10
<1>6. O = Executable(issues)
  <2> HIDE DEF Stuck, O, K
  <2>1. K \ O \in SUBSET K
    OBVIOUS
  <2> QED BY <1>1, <1>2, <1>4, <1>5, <2>1
<1> QED BY <1>3, <1>6 DEF OrderedRight

\* The loop of topologicalOrder ends, and what it returns is right.
LEMMA OrderOf ==
  ASSUME NEW issues, Orderable(issues)
  PROVE  OrderedRight(issues, Order(issues))
<1> DEFINE T == OrderState(issues)
           H == {s \in T : s.queue = {}}
           g == [s \in T |-> IF s \in H THEN s ELSE Shifted(issues, s)]
           out == [s \in T |-> s.order]
           Loop(r) == [s \in T |-> IF s.queue = {} THEN s.order
                                   ELSE r[Shifted(issues, s)]]
           loop == CHOOSE r : r = Loop(r)
           Inv == {s \in T : Ordering(issues, s)}
           Left(s) == KeysOf(issues) \ ToSet(s.order)
           mu == [s \in Inv |-> Cardinality(Left(s))]
           nu == [s \in Inv |-> 0]
           Good == {o \in Seq(KeysOf(issues)) : OrderedRight(issues, o)}
<1>1. IsFiniteSet(KeysOf(issues))
  BY FiniteKeys DEF Orderable
<1>2. \A s \in T \ H : Shifted(issues, s) \in T
  BY ShiftedIs
<1>3. g \in [T -> T]
  BY <1>2
<1>4. ASSUME NEW r, NEW s \in T
      PROVE  (IF s.queue = {} THEN s.order ELSE r[Shifted(issues, s)])
               = IF s \in H THEN out[s] ELSE r[g[s]]
  OBVIOUS
<1>5. H \in SUBSET T
  OBVIOUS
<1>6. loop = Loop(loop)
  <2>1. PICK r : r = [s \in T |-> r[s]] /\ LoopOf(T, H, g, out, r)
    <3>1. out \in [T -> Seq(KeysOf(issues))]
      BY OrderIs
    <3> HIDE DEF T, H, g, out
    <3> QED BY <1>3, <1>5, <3>1, LoopExists
  <2>2. \E x : x = Loop(x)
    <3>1. \A s \in T : r[s] = IF s.queue = {} THEN s.order
                             ELSE r[Shifted(issues, s)]
      BY <1>4, <2>1 DEF LoopOf
    <3>2. r = Loop(r)
      <4> HIDE DEF T
      <4> QED BY <2>1, <3>1
    <3> HIDE DEF Loop
    <3> QED BY <3>2
  <2> HIDE DEF Loop
  <2> QED BY <2>2
<1>7. LoopOf(T, H, g, out, loop)
  <2> HIDE DEF loop
  <2>1. \A s \in T : loop[s] = IF s.queue = {} THEN s.order
                              ELSE loop[Shifted(issues, s)]
    <3> HIDE DEF T
    <3> QED BY <1>6
  <2> QED BY <1>4, <2>1 DEF LoopOf
<1>8. \A s \in T : IsFiniteSet(Left(s)) /\ Cardinality(Left(s)) \in Nat
  <2> SUFFICES ASSUME NEW s \in T
               PROVE  IsFiniteSet(Left(s)) /\ Cardinality(Left(s)) \in Nat
    OBVIOUS
  <2>1. Left(s) \in SUBSET KeysOf(issues)
    OBVIOUS
  <2> HIDE DEF Left
  <2> QED BY <1>1, <2>1, FS_Subset, FS_CardinalityType
<1>9. LoopEnds(H, g, Inv, mu, nu)
  <2> SUFFICES ASSUME NEW s \in Inv \ H
               PROVE  g[s] \in Inv /\ mu[g[s]] < mu[s]
    BY DEF LoopEnds
  <2>1. g[s] = Shifted(issues, s) /\ s \in T /\ s.queue # {}
    OBVIOUS
  <2>2. g[s] \in Inv
    BY <1>2, <2>1, OrderStep
  <2> DEFINE key == Least(s.queue)
  <2>3. Left(g[s]) = Left(s) \ {key} /\ key \in Left(s)
    <3>1. /\ ToSet(g[s].order) = ToSet(s.order) \cup {key}
          /\ key \in s.queue /\ key \in KeysOf(issues)
      <4>1. /\ ToSet(Shifted(issues, s).order) = ToSet(s.order) \cup {key}
            /\ key \in s.queue /\ key \in KeysOf(issues)
        BY <2>1, ShiftedIs
      <4> HIDE DEF key, g
      <4> QED BY <2>1, <4>1
    <3>2. key \notin ToSet(s.order)
      <4>1. PICK i \in DOMAIN issues : issues[i].key = key
        BY <3>1 DEF KeysOf
      <4> QED BY <3>1, <4>1 DEF Ordering
    <3> QED BY <3>1, <3>2
  <2>4. mu[s] = Cardinality(Left(s)) /\ mu[g[s]] = Cardinality(Left(g[s]))
    BY <2>2
  <2>5. IsFiniteSet(Left(s)) /\ Cardinality(Left(s)) \in Nat
    BY <1>8, <2>1
  <2> DEFINE V == Left(s)
  <2>6. Cardinality(V \ {key}) = Cardinality(V) - 1
    <3> HIDE DEF V, key
    <3> QED BY <2>3, <2>5, FS_RemoveElement DEF V
  <2> HIDE DEF mu, g, Left, key
  <2> QED BY <2>2, <2>3, <2>4, <2>5, <2>6 DEF V
<1>10. ASSUME NEW s \in Inv \cap H
       PROVE  out[s] \in Good
  BY OrderEnds, OrderIs
<1>11. \A s \in Inv : loop[s] \in Good
  <2>1. Inv \in SUBSET T
    OBVIOUS
  <2>2. mu \in [Inv -> Nat] /\ nu \in [Inv -> Nat]
    BY <1>8
  <2> HIDE DEF loop, Inv, mu, nu, g, H, out, Good, T
  <2> QED BY <1>7, <1>9, <1>10, <2>1, <2>2, LoopResult
<1>12. Order(issues) = loop[OrderStart(issues)]
  BY DEF Order
<1>13. OrderStart(issues) \in Inv
  BY OrderStarts
<1> HIDE DEF loop, Inv
<1>14. loop[OrderStart(issues)] \in Good
  BY <1>11, <1>13
<1> QED BY <1>12, <1>14

-----------------------------------------------------------------------------
(* Types.  The number of a run is bounded by the submits that have settled, *)
(* and the numbers of issues have a bound, so that there is a highest one.  *)

Submitted == [key : IdempotencyKeys \cup {NoKey}, request : Requests]

LedgerRun ==
  [status : Status, key : IdempotencyKeys \cup {NoKey},
   request : Requests, issues : Seq(Issue)]

Flow ==
  [stage : {"starting", "asking", "writing"}, request : Requests,
   aborted : BOOLEAN]

Settled == used.submits - Len(tail)

UsedOK ==
  /\ used \in [submits : 0 .. MaxSubmits, asked : 0 .. MaxAsked,
               stops : 0 .. MaxStops]
  /\ tail \in Seq(Submitted)
  /\ Len(tail) <= used.submits

RunsOK ==
  \A id \in DOMAIN ledger : id \in 1 .. Settled /\ ledger[id] \in LedgerRun

Below(issues, b) == \A i \in DOMAIN issues : issues[i].key <= b

IssuesBounded == \E b \in Nat : \A id \in DOMAIN ledger : Below(ledger[id].issues, b)

WriteOK(w, settled) ==
  /\ w.id \in RunIds
  /\ w.op = "insert" =>
       w.id <= settled /\ w.run \in LedgerRun /\ w.run.issues = <<>>
  /\ w.op \in {"publish", "reject"} =>
       IsPlan(w.plan) /\ (w.op = "publish" <=> Accepted(w.plan))
  /\ w.op = "publish" =>
       /\ w.issues \in Seq(Issue)
       /\ \E b \in Nat : Below(w.issues, b)
       /\ \E max \in Nat : w.issues = Numbered(w.plan, max)

WritesOK == \A n \in DOMAIN writes : WriteOK(writes[n], Settled)

FlowsOK == DOMAIN flow \subseteq RunIds /\ \A id \in DOMAIN flow : flow[id] \in Flow

TypeInv ==
  LedgerInv /\ UsedOK /\ RunsOK /\ IssuesBounded /\ WritesOK /\ FlowsOK

LEMMA SettledIs ==
  ASSUME UsedOK
  PROVE  Settled \in Nat /\ Settled <= MaxSubmits /\ Len(tail) \in Nat
<1>1. used.submits \in Nat /\ used.submits <= MaxSubmits
  BY LedgerAssumption DEF UsedOK
<1>2. Len(tail) \in Nat
  BY LenProperties DEF UsedOK
<1> QED BY <1>1, <1>2, LedgerAssumption DEF UsedOK, Settled

LEMMA RunsAreNumbered ==
  ASSUME UsedOK, RunsOK
  PROVE  DOMAIN ledger \subseteq RunIds
BY SettledIs, LedgerAssumption DEF RunsOK, RunIds

\* The highest issue number is a number.
LEMMA HighestIssueIs ==
  ASSUME RunsOK, IssuesBounded
  PROVE  HighestIssue \in Nat
<1>1. ASSUME NEW id \in DOMAIN ledger, NEW i \in DOMAIN ledger[id].issues
      PROVE  ledger[id].issues[i].key \in Nat
  <2>1. ledger[id].issues \in Seq(Issue)
    BY DEF RunsOK, LedgerRun
  <2>2. ledger[id].issues[i] \in Issue
    BY <2>1, LenProperties, ElementOfSeq
  <2> QED BY <2>2 DEF Issue
<1>2. PICK b \in Nat : \A id \in DOMAIN ledger : Below(ledger[id].issues, b)
  BY DEF IssuesBounded
<1>3. IssueNumbers \subseteq Nat /\ \A x \in IssueNumbers : x <= b
  BY <1>1, <1>2 DEF IssueNumbers, KeysOf, Below
<1>4. CASE IssueNumbers = {}
  BY <1>4 DEF HighestIssue
<1>5. CASE IssueNumbers # {}
  <2>1. Max(IssueNumbers) \in IssueNumbers
    BY <1>3, <1>5, MaxIsGreatest
  <2> QED BY <1>3, <1>5, <2>1 DEF HighestIssue
<1> QED BY <1>4, <1>5

\* What is published of an accepted plan is a list of issues.
LEMMA NumberedIsIssues ==
  ASSUME NEW id \in RunIds, NEW plan \in Answers(id), Accepted(plan),
         NEW max \in Nat
  PROVE  /\ IsPlan(plan)
         /\ Numbered(plan, max) \in Seq(Issue)
         /\ \E b \in Nat : Below(Numbered(plan, max), b)
<1> DEFINE issues == Numbered(plan, max)
<1>1. IsPlan(plan)
  BY LedgerAssumption DEF IsPlan, RunIds
<1>2. /\ Len(plan) \in Nat /\ DOMAIN plan = 1 .. Len(plan)
      /\ DOMAIN issues = 1 .. Len(plan)
      /\ \A i \in DOMAIN plan :
           /\ issues[i].key = max + i
           /\ DOMAIN plan[i].deps = 1 .. Len(plan[i].deps)
           /\ issues[i].deps = [m \in DOMAIN plan[i].deps |->
                                  NewName(plan, i, plan[i].deps[m], max)]
  BY <1>1, NumberedIs
<1>3. ASSUME NEW i \in DOMAIN plan
      PROVE  issues[i] \in Issue
  <2> DEFINE d == plan[i].deps
             e == [m \in DOMAIN d |-> NewName(plan, i, d[m], max)]
  <2>1. Len(d) \in Nat
    BY <1>1, LenProperties DEF IsPlan
  <2>2. ASSUME NEW m \in DOMAIN d
        PROVE  NewName(plan, i, d[m], max) \in Nat \cup PlannerNames
    <3>1. CASE \E j \in 1 .. i : plan[j].key = d[m]
      <4>1. (CHOOSE j \in 1 .. i : plan[j].key = d[m]) \in Nat
        BY <1>2, <3>1
      <4> QED BY <3>1, <4>1 DEF NewName
    <3>2. CASE ~\E j \in 1 .. i : plan[j].key = d[m]
      <4>1. NewName(plan, i, d[m], max) = d[m]
        BY <3>2 DEF NewName
      <4>2. d[m] \in KeysOf(plan)
        BY DEF Accepted, GoodDeps, DepsIn, ToSet
      <4> QED BY <4>1, <4>2 DEF PlannerNames
    <3> QED BY <3>1, <3>2
  <2>3. e \in [1 .. Len(d) -> Nat \cup PlannerNames]
    BY <1>2, <2>2
  <2>4. issues[i].deps = e /\ issues[i].key \in Nat
    BY <1>2
  <2>5. issues[i] = [key |-> issues[i].key, deps |-> issues[i].deps]
    BY <1>2 DEF Numbered
  <2> HIDE DEF e, d, issues
  <2>6. e \in Seq(Nat \cup PlannerNames)
    BY <2>1, <2>3, SeqDef
  <2> QED BY <2>4, <2>5, <2>6 DEF Issue
<1>4. issues \in Seq(Issue)
  <2>1. issues \in [1 .. Len(plan) -> Issue]
    BY <1>2, <1>3 DEF Numbered
  <2> HIDE DEF issues
  <2> QED BY <1>2, <2>1, SeqDef
<1>5. Below(issues, max + Len(plan)) /\ max + Len(plan) \in Nat
  <2>1. \A i \in DOMAIN plan : max + i <= max + Len(plan)
    BY <1>2
  <2>2. DOMAIN issues = DOMAIN plan /\ max + Len(plan) \in Nat
    BY <1>2
  <2>3. \A i \in DOMAIN plan : issues[i].key = max + i
    BY <1>2
  <2> HIDE DEF issues
  <2> QED BY <2>1, <2>2, <2>3 DEF Below
<1> QED BY <1>1, <1>4, <1>5

\* A write waits in the chain and its submit, if it is one, has settled.
LEMMA TypeQueued ==
  ASSUME TypeInv, NEW w, Enqueue(w), WriteOK(w, Settled'), LedgerInv',
         UsedOK', Settled' >= Settled, UNCHANGED ledger, FlowsOK'
  PROVE  TypeInv'
<1>1. /\ DOMAIN writes = 1 .. Len(writes) /\ Len(writes) \in Nat
      /\ DOMAIN writes' = 1 .. Len(writes) + 1
      /\ \A n \in DOMAIN writes : writes'[n] = writes[n]
      /\ writes'[Len(writes) + 1] = w
  BY Enqueued DEF TypeInv, LedgerInv
<1>2. Settled \in Int /\ Settled' \in Int
  <2>1. Settled \in Nat
    BY SettledIs DEF TypeInv
  <2>2. used'.submits \in Int /\ Len(tail') \in Int
    BY LenProperties DEF UsedOK
  <2>3. Settled' = used'.submits - Len(tail')
    BY DEF Settled
  <2> QED BY <2>1, <2>2, <2>3
<1>3. WritesOK'
  <2>1. ASSUME NEW n \in DOMAIN writes
        PROVE  WriteOK(writes'[n], Settled')
    <3>1. WriteOK(writes[n], Settled) /\ writes[n].id \in Int
      BY DEF TypeInv, WritesOK, WriteOK, RunIds
    <3>2. WriteOK(writes[n], Settled')
      BY <1>2, <3>1 DEF WriteOK
    <3> QED BY <1>1, <3>2
  <2>2. ASSUME NEW n \in DOMAIN writes', n \notin DOMAIN writes
        PROVE  WriteOK(writes'[n], Settled')
    BY <1>1, <2>2
  <2> QED BY <2>1, <2>2 DEF WritesOK
<1>4. RunsOK' /\ IssuesBounded'
  BY <1>2 DEF TypeInv, RunsOK, IssuesBounded
<1> QED BY <1>3, <1>4 DEF TypeInv

\* The oldest write commits.
LEMMA TypeCommitted ==
  ASSUME TypeInv, Commit, LedgerInv'
  PROVE  TypeInv'
<1> DEFINE w == Head(writes)
<1>1. /\ UsedOK /\ RunsOK /\ IssuesBounded /\ WritesOK /\ FlowsOK
      /\ LedgerInv /\ Chain /\ Shaped /\ OpsKnown
      /\ UNCHANGED <<used, tail>>
  BY DEF TypeInv, LedgerInv, Commit
<1>2. UsedOK' /\ Settled' = Settled
  BY <1>1 DEF UsedOK, Settled
<1>3. /\ DOMAIN writes = 1 .. Len(writes) /\ Len(writes) \in Nat \ {0}
      /\ DOMAIN writes' \subseteq 1 .. Len(writes)
      /\ \A n \in DOMAIN writes' :
           \/ n + 1 \in DOMAIN writes /\ writes'[n] = writes[n + 1]
           \/ writes'[n] = FailedPlan(w.id)
      /\ w = writes[1]
  BY <1>1, Dequeued
<1>4. WriteOK(w, Settled) /\ w.op \in Ops
  BY <1>1, <1>3 DEF WritesOK, OpsKnown
<1>5. WritesOK'
  <2>1. WriteOK(FailedPlan(w.id), Settled)
    BY <1>4 DEF WriteOK, FailedPlan
  <2> QED BY <1>1, <1>2, <1>3, <2>1 DEF WritesOK
<1>6. CASE w.op = "insert"
  <2>1. /\ w.id \in Nat \ DOMAIN ledger
        /\ DOMAIN ledger' = DOMAIN ledger \cup {w.id}
        /\ ledger'[w.id] = w.run
        /\ \A id \in DOMAIN ledger : ledger'[id] = ledger[id]
        /\ flow' = flow
    BY <1>1, <1>6, Inserted DEF LedgerInv
  <2>2. w.id \in 1 .. Settled /\ w.run \in LedgerRun /\ w.run.issues = <<>>
    BY <1>1, <1>4, <1>6, SettledIs DEF WriteOK, RunIds
  <2>3. RunsOK'
    BY <1>1, <1>2, <2>1, <2>2 DEF RunsOK
  <2>4. IssuesBounded'
    <3>1. PICK b \in Nat : \A id \in DOMAIN ledger : Below(ledger[id].issues, b)
      BY <1>1 DEF IssuesBounded
    <3>2. Below(w.run.issues, b)
      BY <2>2, EmptySeq DEF Below
    <3> QED BY <2>1, <3>1, <3>2 DEF IssuesBounded
  <2>5. FlowsOK'
    BY <1>1, <2>1 DEF FlowsOK
  <2> QED BY <1>2, <1>5, <2>3, <2>4, <2>5 DEF TypeInv
<1>7. CASE w.op = "delete"
  <2>1. /\ ledger' = [id \in DOMAIN ledger \ {w.id} |-> ledger[id]]
        /\ flow' = flow
    BY <1>7 DEF Commit, FlowAfter
  <2> QED BY <1>1, <1>2, <1>5, <2>1 DEF TypeInv, RunsOK, IssuesBounded, FlowsOK
<1>8. CASE w.op \in Updates
  <2>1. CommitUpdate(w) /\ flow' = FlowAfter(w)
    BY <1>8 DEF Commit, Updates
  <2>2. FlowsOK'
    <3>1. \/ flow' = flow
          \/ flow' = FlowEnds(w.id)
          \/ flow' = [flow EXCEPT ![w.id].aborted = TRUE]
          \/ flow' = [flow EXCEPT ![w.id].stage = "asking"]
      BY <1>8, <2>1 DEF FlowAfter, Updates
    <3>2. CASE flow' = flow \/ flow' = FlowEnds(w.id)
      BY <1>1, <3>2 DEF FlowsOK, FlowEnds
    <3>3. CASE flow' = [flow EXCEPT ![w.id].aborted = TRUE]
      BY <1>1, <3>3 DEF FlowsOK, Flow
    <3>4. CASE flow' = [flow EXCEPT ![w.id].stage = "asking"]
      BY <1>1, <3>4 DEF FlowsOK, Flow
    <3> QED BY <3>1, <3>2, <3>3, <3>4
  <2>3. CASE ~Legal(w)
    <3>1. ledger' = ledger
      BY <2>1, <2>3 DEF CommitUpdate
    <3> QED BY <1>1, <1>2, <1>5, <2>2, <3>1 DEF TypeInv, RunsOK, IssuesBounded
  <2>4. CASE Legal(w)
    <3> DEFINE issues == IF w.op = "publish" THEN w.issues
                         ELSE ledger[w.id].issues
    <3>1. /\ w.id \in DOMAIN ledger
          /\ ledger' = [ledger EXCEPT ![w.id].status = Target(w),
                                      ![w.id].issues =
                                         IF w.op = "publish" THEN w.issues
                                         ELSE @]
      BY <2>1, <2>4 DEF Legal, CommitUpdate
    <3>2. Target(w) \in Status
      BY <1>1, <2>4, NothingIsReceivedAgain
    <3>3. /\ DOMAIN ledger' = DOMAIN ledger
          /\ \A id \in DOMAIN ledger : id # w.id => ledger'[id] = ledger[id]
          /\ ledger'[w.id] = [ledger[w.id] EXCEPT !.status = Target(w),
                                                  !.issues = issues]
      BY <3>1
    <3>4. issues \in Seq(Issue) /\ ledger[w.id] \in LedgerRun
      BY <1>1, <1>4, <3>1 DEF RunsOK, LedgerRun, WriteOK
    <3>5. PICK b \in Nat : \A id \in DOMAIN ledger : Below(ledger[id].issues, b)
      BY <1>1 DEF IssuesBounded
    <3>6. PICK c \in Nat : Below(issues, c)
      BY <1>4, <3>1, <3>5 DEF WriteOK
    <3> HIDE DEF issues
    <3>7. ledger'[w.id] \in LedgerRun /\ ledger'[w.id].issues = issues
      BY <3>2, <3>3, <3>4 DEF LedgerRun
    <3>8. RunsOK'
      BY <1>1, <1>2, <3>3, <3>7 DEF RunsOK
    <3>9. IssuesBounded'
      <4>1. \A id \in DOMAIN ledger' : Below(ledger'[id].issues, b + c)
        <5>1. \A id \in DOMAIN ledger' : ledger'[id].issues \in Seq(Issue)
          BY <3>8 DEF RunsOK, LedgerRun
        <5>2. ASSUME NEW id \in DOMAIN ledger', NEW i \in DOMAIN ledger'[id].issues
              PROVE  ledger'[id].issues[i].key <= b + c
          <6>1. ledger'[id].issues[i] \in Issue
            BY <5>1, LenProperties, ElementOfSeq
          <6>2. ledger'[id].issues[i].key \in Nat
            BY <6>1 DEF Issue
          <6>3. ledger'[id].issues[i].key <= b \/ ledger'[id].issues[i].key <= c
            BY <3>3, <3>5, <3>6, <3>7 DEF Below
          <6> QED BY <6>2, <6>3
        <5> QED BY <5>2 DEF Below
      <4>2. b + c \in Nat
        OBVIOUS
      <4> QED BY <4>1, <4>2 DEF IssuesBounded
    <3> QED BY <1>2, <1>5, <2>2, <3>8, <3>9 DEF TypeInv
  <2> QED BY <2>3, <2>4
<1> QED BY <1>4, <1>6, <1>7, <1>8 DEF Ops, Updates

LEMMA TypeStep == TypeInv /\ [Next]_vars => TypeInv'
<1> SUFFICES ASSUME TypeInv, [Next]_vars PROVE TypeInv'
  OBVIOUS
<1>0. /\ LedgerInv' /\ LedgerInv /\ UsedOK /\ RunsOK /\ IssuesBounded
      /\ WritesOK /\ FlowsOK /\ Settled \in Nat /\ DOMAIN ledger \subseteq RunIds
  BY LedgerStep, SettledIs, RunsAreNumbered DEF TypeInv
<1>1. ASSUME UNCHANGED <<used, tail>>
      PROVE  UsedOK' /\ Settled' = Settled
  BY <1>0, <1>1 DEF UsedOK, Settled
<1>2. CASE UNCHANGED vars
  BY <1>0, <1>1, <1>2 DEF vars, TypeInv, RunsOK, IssuesBounded, WritesOK, FlowsOK
<1>3. CASE Submit
  <2>1. PICK s \in Submitted : tail' = Append(tail, s)
    BY <1>3 DEF Submit, Submitted
  <2>2. /\ tail \in Seq(Submitted) /\ tail' \in Seq(Submitted)
        /\ Len(tail') = Len(tail) + 1 /\ Len(tail) \in Nat
    BY <1>0, <2>1, AppendProperties, LenProperties DEF UsedOK
  <2>3. /\ used.submits \in Nat /\ used.submits < MaxSubmits
        /\ used' = [used EXCEPT !.submits = used.submits + 1]
        /\ Len(tail) <= used.submits
    BY <1>0, <1>3, LedgerAssumption DEF Submit, UsedOK
  <2>4. used'.submits = used.submits + 1
    BY <1>0, <2>3 DEF UsedOK
  <2>5. UsedOK'
    BY <1>0, <2>2, <2>3, <2>4, LedgerAssumption DEF UsedOK
  <2>6. Settled' = Settled
    BY <2>2, <2>3, <2>4 DEF Settled
  <2>7. UNCHANGED <<ledger, writes, flow>>
    BY <1>3 DEF Submit
  <2> QED BY <1>0, <2>5, <2>6, <2>7 DEF TypeInv, RunsOK, IssuesBounded, WritesOK, FlowsOK
<1>4. CASE SubmitJob
  <2>1. /\ tail # <<>> /\ tail' = Tail(tail) /\ tail \in Seq(Submitted)
        /\ UNCHANGED <<ledger, flow, used>>
    BY <1>0, <1>4 DEF SubmitJob, UsedOK
  <2>2. /\ tail' \in Seq(Submitted) /\ Len(tail') = Len(tail) - 1
        /\ Len(tail) \in Nat \ {0} /\ Head(tail) \in Submitted
    BY <2>1, HeadTailProperties, EmptySeq
  <2>3. UsedOK' /\ used.submits \in Nat /\ Len(tail) <= used.submits
    BY <1>0, <2>1, <2>2, LedgerAssumption DEF UsedOK
  <2>4. Settled' = Settled + 1
    BY <2>1, <2>2, <2>3 DEF Settled
  <2>5. Settled' <= MaxSubmits
    BY <1>0, <2>1, <2>2, <2>3, LedgerAssumption DEF UsedOK, Settled
  <2>6. FlowsOK'
    BY <1>0, <2>1 DEF FlowsOK
  <2>7. CASE UNCHANGED writes
    BY <1>0, <2>1, <2>3, <2>4, <2>6, <2>7
       DEF TypeInv, RunsOK, IssuesBounded, WritesOK, WriteOK, RunIds
  <2>8. CASE ~UNCHANGED writes
    <3> DEFINE w == [op |-> "insert", id |-> NextRunId,
                     run |-> NewRun(Head(tail))]
    <3>1. Enqueue(w)
      BY <1>4, <2>8 DEF SubmitJob
    <3>2. NextRunId \in 1 .. Settled + 1
      <4>1. CASE DOMAIN ledger = {}
        BY <1>0, <4>1 DEF NextRunId
      <4>2. CASE DOMAIN ledger # {}
        <5>1. DOMAIN ledger \subseteq Nat /\ \A id \in DOMAIN ledger : id <= Settled
          BY <1>0 DEF RunsOK
        <5>2. Max(DOMAIN ledger) \in DOMAIN ledger
          BY <1>0, <4>2, <5>1, MaxIsGreatest
        <5> QED BY <1>0, <4>2, <5>2 DEF NextRunId, RunsOK
      <4> QED BY <4>1, <4>2
    <3>3. NewRun(Head(tail)) \in LedgerRun /\ NewRun(Head(tail)).issues = <<>>
      BY <2>2, EmptySeq DEF NewRun, LedgerRun, Submitted, Status
    <3>4. WriteOK(w, Settled')
      BY <1>0, <2>4, <2>5, <3>2, <3>3, LedgerAssumption DEF WriteOK, RunIds
    <3> HIDE DEF w
    <3> QED BY <1>0, <2>1, <2>3, <2>4, <2>6, <3>1, <3>4, TypeQueued
  <2> QED BY <2>7, <2>8
<1>5. ASSUME NEW id \in DOMAIN ledger, Delete(id) \/ MoveOn(id)
      PROVE  TypeInv'
  <2>1. PICK w : Enqueue(w) /\ w.op \in {"delete", "move"} /\ w.id = id
    <3>1. CASE Delete(id)
      BY <3>1 DEF Delete
    <3>2. CASE MoveOn(id)
      <4>1. PICK to \in Moves : Enqueue([op |-> "move", id |-> id, to |-> to])
        BY <3>2 DEF MoveOn
      <4> QED BY <4>1
    <3> QED BY <1>5, <3>1, <3>2
  <2>2. WriteOK(w, Settled)
    BY <1>0, <2>1 DEF WriteOK
  <2>3. UNCHANGED <<ledger, tail, flow, used>>
    BY <1>5 DEF Delete, MoveOn
  <2>4. FlowsOK' /\ UsedOK' /\ Settled' = Settled
    BY <1>0, <1>1, <2>3 DEF FlowsOK
  <2> QED BY <1>0, <2>1, <2>2, <2>3, <2>4, TypeQueued
<1>6. ASSUME NEW id \in DOMAIN ledger, PlanRequest(id)
      PROVE  TypeInv'
  <2>1. /\ UNCHANGED <<ledger, tail>> /\ used' = [used EXCEPT !.asked = @ + 1]
        /\ used.asked < MaxAsked /\ ledger[id].request \in Requests
        /\ id \in RunIds
    BY <1>0, <1>6 DEF PlanRequest, RunsOK, LedgerRun
  <2>2. UsedOK' /\ Settled' = Settled
    BY <1>0, <2>1, LedgerAssumption DEF UsedOK, Settled
  <2>3. FlowsOK'
    <3>1. PICK f \in Flow :
            flow' = [r \in DOMAIN flow \cup {id} |->
                       IF r \in DOMAIN flow THEN flow[r] ELSE f]
      <4> DEFINE f == [stage |-> IF ledger[id].status = "RECEIVED"
                                 THEN "starting" ELSE "asking",
                       request |-> ledger[id].request, aborted |-> FALSE]
      <4>1. f \in Flow
        BY <2>1 DEF Flow
      <4>2. flow' = [r \in DOMAIN flow \cup {id} |->
                       IF r \in DOMAIN flow THEN flow[r] ELSE f]
        BY <1>6 DEF PlanRequest
      <4> HIDE DEF f
      <4> QED BY <4>1, <4>2
    <3> QED BY <1>0, <2>1, <3>1 DEF FlowsOK
  <2>4. CASE UNCHANGED writes
    BY <1>0, <2>1, <2>2, <2>3, <2>4 DEF TypeInv, RunsOK, IssuesBounded, WritesOK
  <2>5. CASE ~UNCHANGED writes
    <3>1. PICK w : Enqueue(w) /\ w.op = "start" /\ w.id = id
      BY <1>6, <2>5 DEF PlanRequest
    <3>2. WriteOK(w, Settled)
      BY <2>1, <3>1 DEF WriteOK
    <3> QED BY <1>0, <2>1, <2>2, <2>3, <3>1, <3>2, TypeQueued
  <2> QED BY <2>4, <2>5
<1>7. ASSUME NEW id \in DOMAIN flow, PlannerAnswers(id) \/ PlannerFails(id)
      PROVE  TypeInv'
  <2>1. /\ UNCHANGED <<ledger, tail, used>> /\ id \in RunIds
        /\ flow' = [flow EXCEPT ![id].stage = "writing"]
    BY <1>0, <1>7 DEF PlannerAnswers, PlannerFails, FlowsOK
  <2>2. FlowsOK' /\ UsedOK' /\ Settled' = Settled
    BY <1>0, <1>1, <2>1 DEF FlowsOK, Flow
  <2>3. CASE PlannerFails(id)
    <3>1. Enqueue(FailedPlan(id)) /\ WriteOK(FailedPlan(id), Settled)
      BY <2>1, <2>3 DEF PlannerFails, WriteOK, FailedPlan
    <3> QED BY <1>0, <2>1, <2>2, <3>1, TypeQueued
  <2>4. CASE PlannerAnswers(id)
    <3>1. PICK plan \in Answers(id) :
            Enqueue([op |-> IF Accepted(plan) THEN "publish" ELSE "reject",
                     id |-> id, request |-> flow[id].request, plan |-> plan,
                     issues |-> Numbered(plan, HighestIssue)])
      BY <2>4 DEF PlannerAnswers
    <3> DEFINE w == [op |-> IF Accepted(plan) THEN "publish" ELSE "reject",
                     id |-> id, request |-> flow[id].request, plan |-> plan,
                     issues |-> Numbered(plan, HighestIssue)]
    <3>2. HighestIssue \in Nat
      BY <1>0, HighestIssueIs
    <3>3. WriteOK(w, Settled)
      <4>1. /\ w.id = id /\ w.plan = plan
            /\ w.issues = Numbered(plan, HighestIssue)
            /\ w.op = IF Accepted(plan) THEN "publish" ELSE "reject"
        OBVIOUS
      <4> HIDE DEF w
      <4>2. IsPlan(plan)
        BY <2>1, LedgerAssumption DEF IsPlan, RunIds
      <4>3. CASE Accepted(plan)
        BY <2>1, <3>2, <4>1, <4>2, <4>3, NumberedIsIssues DEF WriteOK
      <4>4. CASE ~Accepted(plan)
        BY <2>1, <4>1, <4>2, <4>4 DEF WriteOK
      <4> QED BY <4>3, <4>4
    <3>4. Enqueue(w)
      BY <3>1
    <3> HIDE DEF w
    <3> QED BY <1>0, <2>1, <2>2, <3>3, <3>4, TypeQueued
  <2> QED BY <1>7, <2>3, <2>4
<1>8. ASSUME NEW id \in DOMAIN flow, PlannerStale(id)
      PROVE  TypeInv'
  <2>1. UNCHANGED <<ledger, tail, writes, used>> /\ flow' = FlowEnds(id)
    BY <1>8 DEF PlannerStale
  <2>2. FlowsOK' /\ UsedOK' /\ Settled' = Settled
    BY <1>0, <1>1, <2>1 DEF FlowsOK, FlowEnds
  <2> QED BY <1>0, <2>1, <2>2 DEF TypeInv, RunsOK, IssuesBounded, WritesOK
<1>9. CASE Commit
  BY <1>0, <1>9, TypeCommitted
<1>10. CASE HostStops
  <2>1. /\ tail' = <<>> /\ writes' = <<>> /\ flow' = <<>> /\ UNCHANGED ledger
        /\ used' = [used EXCEPT !.stops = @ + 1] /\ used.stops < MaxStops
    BY <1>10 DEF HostStops
  <2>2. /\ tail' \in Seq(Submitted) /\ Len(tail') = 0
        /\ DOMAIN writes' = {} /\ DOMAIN flow' = {}
    BY <2>1, EmptySeq
  <2>3. used.submits \in Nat /\ used.submits = used'.submits
    BY <1>0, <2>1, LedgerAssumption DEF UsedOK
  <2>4. UsedOK'
    BY <1>0, <2>1, <2>2, <2>3, LedgerAssumption DEF UsedOK
  <2>5. Settled' >= Settled /\ Settled' \in Nat
    BY <1>0, <2>2, <2>3, SettledIs DEF Settled
  <2>6. RunsOK' /\ IssuesBounded'
    BY <1>0, <2>1, <2>5 DEF RunsOK, IssuesBounded
  <2> QED BY <1>0, <2>2, <2>4, <2>6 DEF TypeInv, WritesOK, FlowsOK
<1> QED
  BY <1>2, <1>3, <1>4, <1>5, <1>6, <1>7, <1>8, <1>9, <1>10 DEF Next

LEMMA TypeInit == Init => TypeInv
<1> SUFFICES ASSUME Init PROVE TypeInv
  OBVIOUS
<1>1. LedgerInv /\ DOMAIN ledger = {} /\ DOMAIN writes = {} /\ DOMAIN flow = {}
  BY LedgerInit, EmptySeq DEF Init
<1>2. UsedOK
  BY EmptySeq, LedgerAssumption DEF Init, UsedOK
<1> QED BY <1>1, <1>2 DEF TypeInv, RunsOK, IssuesBounded, WritesOK, FlowsOK

\* Runs, submits, writes, flows and bounds have their types; in particular a
\* run's number never exceeds the number of submits.
THEOREM TypeCorrect == Spec => []TypeOK
<1>1. TypeInv => TypeOK
  <2> SUFFICES ASSUME TypeInv PROVE TypeOK
    OBVIOUS
  <2>1. DOMAIN ledger \subseteq RunIds
    BY RunsAreNumbered DEF TypeInv
  <2>2. \A n \in DOMAIN writes : writes[n].op \in Ops /\ writes[n].id \in RunIds
    BY DEF TypeInv, LedgerInv, OpsKnown, WritesOK, WriteOK
  <2>3. /\ \A id \in DOMAIN ledger : ledger[id] \in LedgerRun
        /\ tail \in Seq(Submitted)
        /\ used \in [submits : 0 .. MaxSubmits, asked : 0 .. MaxAsked,
                     stops : 0 .. MaxStops]
        /\ FlowsOK
    BY DEF TypeInv, RunsOK, UsedOK
  <2> QED BY <2>1, <2>2, <2>3
             DEF TypeOK, LedgerRun, Submitted, FlowsOK, Flow, Ops
<1> QED BY <1>1, TypeInit, TypeStep, PTL DEF Spec

\* A plan that lists dependencies first is published with its dependencies
\* intact, for any planner, any names and any numbers given before.
THEOREM PlansKeepTheirShape == Spec => []PlanKeepsItsShape
<1>1. TypeInv => PlanKeepsItsShape
  <2> SUFFICES ASSUME TypeInv, NEW n \in Published,
                      DependenciesListedFirst(writes[n].plan)
               PROVE  SameShape(writes[n].plan, writes[n].issues)
    BY DEF PlanKeepsItsShape
  <2>1. /\ IsPlan(writes[n].plan)
        /\ \E max \in Nat : writes[n].issues = Numbered(writes[n].plan, max)
    BY DEF TypeInv, WritesOK, WriteOK, Published
  <2> QED BY <2>1, NumberedKeepsShape
<1> QED BY <1>1, TypeInit, TypeStep, PTL DEF Spec

\* The search of validatePlan accepts exactly the sound plans: whatever the
\* planner answers, it is published when its keys are known and distinct and no
\* issues all wait for one another, and rejected otherwise.
THEOREM VerdictsAreRight == Spec => []VerdictIsRight
<1>1. TypeInv => VerdictIsRight
  <2> SUFFICES ASSUME TypeInv, NEW n \in DOMAIN writes,
                      writes[n].op \in {"publish", "reject"}
               PROVE  writes[n].op = "publish" <=> Sound(writes[n].plan)
    BY DEF VerdictIsRight
  <2>1. /\ IsPlan(writes[n].plan)
        /\ writes[n].op = "publish" <=> Accepted(writes[n].plan)
    BY DEF TypeInv, WritesOK, WriteOK
  <2>2. Accepted(writes[n].plan) <=> Sound(writes[n].plan)
    BY <2>1, AcceptedIsSound
  <2> QED BY <2>1, <2>2
<1> QED BY <1>1, TypeInit, TypeStep, PTL DEF Spec

\* A plan under the run's numbers can be ordered.
LEMMA NumberedIsOrderable ==
  ASSUME NEW plan, IsPlan(plan), NEW max \in Nat
  PROVE  Orderable(Numbered(plan, max))
<1> DEFINE issues == Numbered(plan, max)
<1>1. /\ Len(plan) \in Nat /\ DOMAIN plan = 1 .. Len(plan)
      /\ DOMAIN issues = 1 .. Len(plan)
      /\ \A i \in DOMAIN plan :
           /\ issues[i].key = max + i
           /\ DOMAIN plan[i].deps = 1 .. Len(plan[i].deps)
           /\ issues[i].deps = [m \in DOMAIN plan[i].deps |->
                                  NewName(plan, i, plan[i].deps[m], max)]
  BY NumberedIs
<1>2. issues \in [1 .. Len(plan) -> ToSet(issues)]
  BY <1>1 DEF Numbered, ToSet
<1> HIDE DEF issues
<1>3. issues \in Seq(ToSet(issues))
  BY <1>1, <1>2, SeqDef
<1>4. ASSUME NEW i \in DOMAIN issues
      PROVE  issues[i].deps \in Seq(DepsIn(issues, i))
  <2> DEFINE d == plan[i].deps
             e == [m \in DOMAIN d |-> NewName(plan, i, d[m], max)]
  <2>1. issues[i].deps = e /\ DOMAIN d = 1 .. Len(d)
    BY <1>1
  <2>2. Len(d) \in Nat
    BY <1>1, LenProperties DEF IsPlan
  <2>3. e \in [1 .. Len(d) -> ToSet(e)]
    BY <2>1 DEF ToSet
  <2> HIDE DEF d, e
  <2>4. e \in Seq(ToSet(e))
    BY <2>2, <2>3, SeqDef
  <2> QED BY <2>1, <2>4 DEF DepsIn
<1>5. /\ KeysOf(issues) \subseteq Nat
      /\ \A i, j \in DOMAIN issues : issues[i].key = issues[j].key => i = j
  <2>1. ASSUME NEW i \in DOMAIN issues
        PROVE  i \in Nat /\ issues[i].key = max + i
    <3>1. i \in DOMAIN plan /\ DOMAIN plan \subseteq Nat
      BY <1>1
    <3> QED BY <1>1, <3>1
  <2>2. ASSUME NEW i \in DOMAIN issues
        PROVE  issues[i].key \in Nat
    BY <2>1
  <2>3. KeysOf(issues) \subseteq Nat
    BY <2>2 DEF KeysOf
  <2>4. ASSUME NEW i \in DOMAIN issues, NEW j \in DOMAIN issues,
               issues[i].key = issues[j].key
        PROVE  i = j
    <3>1. max + i = max + j /\ i \in Nat /\ j \in Nat
      BY <2>1, <2>4
    <3> QED BY <3>1
  <2> QED BY <2>3, <2>4
<1> QED BY <1>3, <1>4, <1>5 DEF Orderable, IsPlan, issues

\* What is published, and what Order makes of it.
LEMMA PublishedIs ==
  ASSUME TypeInv, NEW n \in Published
  PROVE  /\ IsPlan(writes[n].plan) /\ Accepted(writes[n].plan)
         /\ \E max \in Nat : writes[n].issues = Numbered(writes[n].plan, max)
         /\ OrderedRight(writes[n].issues, Order(writes[n].issues))
<1>1. /\ IsPlan(writes[n].plan) /\ Accepted(writes[n].plan)
      /\ \E max \in Nat : writes[n].issues = Numbered(writes[n].plan, max)
  BY DEF TypeInv, WritesOK, WriteOK, Published
<1>2. Orderable(writes[n].issues)
  BY <1>1, NumberedIsOrderable
<1> QED BY <1>1, <1>2, OrderOf

\* The executors are offered exactly the issues that can be executed, each
\* once and after everything it needs, whatever was published.
THEOREM OrdersAreRight == Spec => []OrderIsRight
<1>1. TypeInv => OrderIsRight
  <2> SUFFICES ASSUME TypeInv, NEW n \in Published
               PROVE  OrderedRight(writes[n].issues, Order(writes[n].issues))
    BY DEF OrderIsRight, OrderedRight, OnceEach, AfterNeeds
  <2> QED BY PublishedIs
<1> QED BY <1>1, TypeInit, TypeStep, PTL DEF Spec

\* The planning flows make of any plan what they should: the verdict, the shape
\* under the run's names, and the order.
THEOREM PlansAreCorrect == Spec => []PlansAreRight
<1>1. VerdictIsRight /\ PlanKeepsItsShape /\ OrderIsRight => PlansAreRight
  BY DEF PlansAreRight
<1> QED BY <1>1, VerdictsAreRight, PlansKeepTheirShape, OrdersAreRight, PTL

OffersAreRight ==
  \A id \in DOMAIN ledger :
    OrderedRight(ledger[id].issues, Order(ledger[id].issues))

IssuesOrderable == \A id \in DOMAIN ledger : Orderable(ledger[id].issues)

LEMMA IssuesStep ==
  ASSUME TypeInv, IssuesOrderable, [Next]_vars
  PROVE  IssuesOrderable'
<1> DEFINE w == Head(writes)
<1>1. ASSUME Commit
      PROVE  w \in {writes[n] : n \in DOMAIN writes} /\ WriteOK(w, Settled)
  <2>1. 1 \in DOMAIN writes /\ w = writes[1]
    BY <1>1, Dequeued DEF TypeInv, LedgerInv
  <2> QED BY <2>1 DEF TypeInv, WritesOK
<1>2. CASE Commit /\ w.op = "insert"
  <2>1. /\ DOMAIN ledger' = DOMAIN ledger \cup {w.id}
        /\ ledger'[w.id] = w.run
        /\ \A id \in DOMAIN ledger : ledger'[id] = ledger[id]
    BY <1>2, Inserted DEF TypeInv, LedgerInv
  <2>2. ledger'[w.id].issues = <<>>
    BY <1>1, <1>2, <2>1 DEF WriteOK
  <2>3. Orderable(<<>>)
    BY DEF Orderable, IsPlan, KeysOf, ToSet
  <2> QED BY <2>1, <2>2, <2>3 DEF IssuesOrderable
<1>3. CASE Commit /\ w.op = "delete"
  <2>1. \A id \in DOMAIN ledger' : id \in DOMAIN ledger /\ ledger'[id] = ledger[id]
    BY <1>3 DEF Commit
  <2> QED BY <2>1 DEF IssuesOrderable
<1>4. CASE Commit /\ w.op \notin {"insert", "delete"} /\ ~Legal(w)
  <2>1. ledger' = ledger
    BY <1>4 DEF Commit, CommitUpdate
  <2> QED BY <2>1 DEF IssuesOrderable
<1>5. CASE Commit /\ w.op \notin {"insert", "delete"} /\ Legal(w)
  <2>1. ledger' = [ledger EXCEPT ![w.id].status = Target(w),
                                 ![w.id].issues = IF w.op = "publish"
                                                  THEN w.issues ELSE @]
    BY <1>5 DEF Commit, CommitUpdate
  <2>2. DOMAIN ledger[w.id] = {"status", "key", "request", "issues"}
    BY <1>5 DEF Legal, TypeInv, LedgerInv, Shaped
  <2>3. /\ DOMAIN ledger' = DOMAIN ledger
        /\ \A id \in DOMAIN ledger : id # w.id => ledger'[id] = ledger[id]
        /\ ledger'[w.id].issues = IF w.op = "publish" THEN w.issues
                                  ELSE ledger[w.id].issues
    BY <1>5, <2>1, <2>2 DEF Legal
  <2>4. w.op = "publish" => Orderable(w.issues)
    BY <1>1, <1>5, NumberedIsOrderable DEF WriteOK
  <2> QED BY <2>3, <2>4 DEF IssuesOrderable
<1>6. CASE UNCHANGED ledger
  BY <1>6 DEF IssuesOrderable
<1> QED
  BY <1>2, <1>3, <1>4, <1>5, <1>6
     DEF Next, Submit, SubmitJob, Delete, MoveOn, PlanRequest, PlannerAnswers,
         PlannerStale, PlannerFails, HostStops, vars

\* What topologicalOrder makes of any run of the ledger, when an executor asks
\* for work, is right, whatever was published, moved, deleted or lost since.
THEOREM OffersStayRight == Spec => []OffersAreRight
<1>1. Init => IssuesOrderable
  BY DEF Init, IssuesOrderable
<1>2. TypeInv /\ IssuesOrderable /\ [Next]_vars => IssuesOrderable'
  BY IssuesStep
<1>3. IssuesOrderable => OffersAreRight
  <2> SUFFICES ASSUME NEW id \in DOMAIN ledger, Orderable(ledger[id].issues)
               PROVE  OrderedRight(ledger[id].issues, Order(ledger[id].issues))
    BY DEF IssuesOrderable, OffersAreRight
  <2> QED BY OrderOf
<1> QED BY <1>1, <1>2, <1>3, TypeInit, TypeStep, PTL DEF Spec

\* Every issue of a plan that lists dependencies first can be executed.
LEMMA ListedFirstIsExecutable ==
  ASSUME NEW plan, IsPlan(plan), Accepted(plan), DependenciesListedFirst(plan),
         NEW max \in Nat
  PROVE  Executable(Numbered(plan, max)) = KeysOf(Numbered(plan, max))
<1> DEFINE issues == Numbered(plan, max)
           K == KeysOf(issues)
           Stuck(S) == \A i \in DOMAIN issues : issues[i].key \in S =>
                         \E dep \in DepsIn(issues, i) : dep \in S \/ dep \notin K
<1>1. /\ Len(plan) \in Nat /\ DOMAIN plan = 1 .. Len(plan)
      /\ DOMAIN issues = 1 .. Len(plan)
      /\ \A i \in DOMAIN plan :
           /\ issues[i].key = max + i
           /\ issues[i].deps = [m \in DOMAIN plan[i].deps |->
                                  NewName(plan, i, plan[i].deps[m], max)]
  BY NumberedIs
<1>2. ASSUME NEW i \in DOMAIN plan, NEW dep \in DepsIn(issues, i)
      PROVE  \E j \in 1 .. i - 1 : dep = issues[j].key
  <2>1. PICK m \in DOMAIN plan[i].deps :
               dep = NewName(plan, i, plan[i].deps[m], max)
    <3>1. issues[i].deps = [m \in DOMAIN plan[i].deps |->
                              NewName(plan, i, plan[i].deps[m], max)]
      BY <1>1
    <3> HIDE DEF issues
    <3>2. PICK m \in DOMAIN issues[i].deps : dep = issues[i].deps[m]
      BY DEF DepsIn, ToSet
    <3> QED BY <3>1, <3>2
  <2>2. PICK j \in 1 .. i - 1 : plan[j].key = plan[i].deps[m]
    BY DEF DependenciesListedFirst, DepsIn, ToSet
  <2>3. (CHOOSE l \in 1 .. i : plan[l].key = plan[i].deps[m]) = j
    <3>1. j \in 1 .. i /\ \A l \in 1 .. i : l \in DOMAIN plan
      BY <1>1
    <3>2. \A x, y \in DOMAIN plan : plan[x].key = plan[y].key => x = y
      BY AcceptedIsSound DEF Sound
    <3> QED BY <2>2, <3>1, <3>2
  <2>4. dep = max + j
    <3>1. j \in 1 .. i
      BY <1>1
    <3> QED BY <2>1, <2>2, <2>3, <3>1 DEF NewName
  <2>5. j \in DOMAIN plan
    BY <1>1
  <2>6. issues[j].key = max + j
    BY <1>1, <2>5
  <2> QED BY <2>4, <2>6
<1> HIDE DEF issues
<1>3. ASSUME NEW S \in SUBSET K, Stuck(S), S # {}
      PROVE  FALSE
  <2> DEFINE M == {i \in 1 .. Len(plan) : issues[i].key \in S}
  <2>1. M \in SUBSET Nat /\ M # {}
    BY <1>1, <1>3 DEF KeysOf
  <2>2. PICK i \in M : \A j \in M : i <= j
    <3> HIDE DEF M
    <3> QED BY <2>1, LeastNumber
  <2>3. PICK dep \in DepsIn(issues, i) : dep \in S \/ dep \notin K
    BY <1>1, <1>3
  <2>4. PICK j \in 1 .. i - 1 : dep = issues[j].key
    BY <1>1, <1>2
  <2>5. j \in 1 .. Len(plan) /\ ~(i <= j)
    BY <1>1
  <2>6. dep \in K
    BY <1>1, <2>4, <2>5 DEF KeysOf
  <2> QED BY <2>2, <2>3, <2>4, <2>5, <2>6
<1>4. Executable(issues) = K \ UNION {S \in SUBSET K : Stuck(S)}
  BY DEF Executable
<1> HIDE DEF Stuck, K
<1>5. UNION {S \in SUBSET K : Stuck(S)} = {}
  BY <1>3
<1> QED BY <1>4, <1>5 DEF issues, K

WholePlansOffered ==
  \A n \in Published :
    DependenciesListedFirst(writes[n].plan) =>
      ToSet(Order(writes[n].issues)) = KeysOf(writes[n].issues)

\* Of a plan that lists dependencies first every issue is offered to the
\* executors: no run is left with an issue that topologicalOrder passes over.
THEOREM WholePlansAreOffered == Spec => []WholePlansOffered
<1>1. TypeInv => WholePlansOffered
  <2> SUFFICES ASSUME TypeInv, NEW n \in Published,
                      DependenciesListedFirst(writes[n].plan)
               PROVE  ToSet(Order(writes[n].issues)) = KeysOf(writes[n].issues)
    BY DEF WholePlansOffered
  <2>1. /\ IsPlan(writes[n].plan) /\ Accepted(writes[n].plan)
        /\ OrderedRight(writes[n].issues, Order(writes[n].issues))
    BY PublishedIs
  <2>2. PICK max \in Nat : writes[n].issues = Numbered(writes[n].plan, max)
    BY PublishedIs
  <2>3. Executable(writes[n].issues) = KeysOf(writes[n].issues)
    BY <2>1, <2>2, ListedFirstIsExecutable
  <2> QED BY <2>1, <2>3 DEF OrderedRight
<1> QED BY <1>1, TypeInit, TypeStep, PTL DEF Spec

=============================================================================
