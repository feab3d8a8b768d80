---------------------------- MODULE EventStream ----------------------------
(***************************************************************************)
(* The durable events of the runs and their way to the browser: appendEvent*)
(* keeps the newest ones in the run, notify and emitEvent hand every       *)
(* subscription what it has not seen, and handleEvents replays the latest  *)
(* ones to a new connection and subscribes it.                             *)
(*                                                                         *)
(* A write commits in one step and notifies in a later one, after the      *)
(* await of the write; some writes append an event and do not notify at    *)
(* all.  Times are those of a clock that counts the writes.  Subscriptions *)
(* do not know of each other, so the module follows one stream.            *)
(***************************************************************************)
EXTENDS Integers, Sequences, FiniteSets, SequencesExt

CONSTANTS
  All, Off,     \* what the stream is about: every run, nothing, or one run
  KeepEvents,   \* newest events kept in a run (200)
  ReplayEvents, \* events replayed to a new connection (100)
  MaxRuns,      \* bound: runs in the ledger at a time
  MaxWrites     \* bound: submits, deletions and writes

ASSUME StreamAssumption ==
  /\ KeepEvents \in Nat \ {0} /\ ReplayEvents \in Nat
  /\ MaxRuns \in Nat /\ MaxWrites \in Nat
  /\ All # Off /\ All \notin 1..MaxRuns /\ Off \notin 1..MaxRuns

RunIds == 1..MaxRuns
None == -1

VARIABLES
  runs,     \* the ledger: the runs there are, with their events
  changed,  \* when each id was last submitted, written or deleted
  clock,    \* number of writes
  due,      \* writes that have committed and will notify
  told,     \* history: the clock at the last notification
  reused,   \* history: ids deleted and given out again
  source    \* the server's side of the stream

ledger == <<runs, changed, clock, told, reused>>
eventVars == <<ledger, due, source>>

Event == [run : RunIds, born : 1..MaxWrites, seq : Nat, at : 1..MaxWrites]

\* about: the run filter of the request.  since: when it was connected.
\* seen: of each run, the last event the subscription has been given.  sent:
\* the frames written to it; the first `read' have been handled.
Closed == [open |-> FALSE, about |-> Off, since |-> 0,
           seen |-> [r \in RunIds |-> None], sent |-> <<>>, read |-> 0]

EventTypeOK ==
  /\ DOMAIN runs \subseteq RunIds
  /\ \A r \in DOMAIN runs : /\ runs[r].born \in 1..MaxWrites
                            /\ runs[r].events \in Seq(Event)
                            /\ Len(runs[r].events) <= KeepEvents
  /\ changed \in [RunIds -> 0..MaxWrites]
  /\ clock \in 0..MaxWrites /\ due \in 0..MaxWrites /\ told \in 0..MaxWrites
  /\ reused \subseteq RunIds
  /\ source.open \in BOOLEAN
  /\ source.about \in RunIds \cup {All, Off}
  /\ source.seen \in [RunIds -> Nat \cup {None}]
  /\ source.sent \in Seq(Event)
  /\ source.read \in 0..Len(source.sent)

EventInit ==
  /\ runs = [r \in {} |-> {}]
  /\ changed = [r \in RunIds |-> 0]
  /\ clock = 0
  /\ due = 0
  /\ told = 0
  /\ reused = {}
  /\ source = Closed

-----------------------------------------------------------------------------
(* The ledger. *)

Written(r) ==
  /\ clock < MaxWrites
  /\ clock' = clock + 1
  /\ changed' = [changed EXCEPT ![r] = clock + 1]
  /\ UNCHANGED <<told, source>>

LastSeq(events) == IF events = <<>> THEN None ELSE Last(events).seq

\* Mutant: the number of an event is its place in the run's bounded list.
NextSeq_Length(events) == Len(events)

NextSeq(events) == LastSeq(events) + 1

Newest(n, s) == SubSeq(s, IF Len(s) > n THEN Len(s) - n + 1 ELSE 1, Len(s))

Appended(r) ==
  LET events == runs[r].events
  IN  Newest(KeepEvents, Append(events, [run |-> r, born |-> runs[r].born,
                                         seq |-> NextSeq(events), at |-> clock + 1]))

\* nextRunId: one more than the highest id there is.
Submit ==
  LET r == 1 + Cardinality({n \in RunIds : \E m \in DOMAIN runs : n <= m})
  IN  /\ r \in RunIds
      /\ Written(r)
      /\ runs' = [n \in DOMAIN runs \cup {r} |->
                    IF n = r THEN [born |-> clock + 1, events |-> <<>>] ELSE runs[n]]
      /\ reused' = IF changed[r] > 0 THEN reused \cup {r} ELSE reused
      /\ due' = due + 1

Delete(r) ==
  /\ Written(r)
  /\ runs' = [n \in DOMAIN runs \ {r} |-> runs[n]]
  /\ due' = due + 1
  /\ UNCHANGED reused

\* A write with an event notifies (most do) or not (review.started); one
\* without may be silent as well (merge marker, attempt id, worktree).
Write(r, event, notifies) ==
  /\ Written(r)
  /\ runs' = IF event THEN [runs EXCEPT ![r].events = Appended(r)] ELSE runs
  /\ due' = IF notifies THEN due + 1 ELSE due
  /\ UNCHANGED reused

-----------------------------------------------------------------------------
(* notify, emitEvent, handleEvents. *)

EventsOf(r) == IF r \in DOMAIN runs THEN runs[r].events ELSE <<>>
Concerns(about, r) == about \in {All, r}

EventsAbout(about) ==
  UNION {ToSet(EventsOf(r)) : r \in {n \in RunIds : Concerns(about, n)}}

\* What emitEvent hands to the subscription and its listener lets pass.
Unseen == {e \in EventsAbout(source.about) : e.seq > source.seen[e.run]}

\* The order of notify: run by run, and in a run the order of its list.
InTurn(e, f) == e.run < f.run \/ (e.run = f.run /\ e.at < f.at)

Emissions(events) ==
  {s \in [1..Cardinality(events) -> events] :
     /\ ToSet(s) = events
     /\ \A i, j \in DOMAIN s : i < j => InTurn(s[i], s[j])}

SeenAfter ==
  [r \in RunIds |-> IF LastSeq(EventsOf(r)) > source.seen[r] THEN LastSeq(EventsOf(r))
                    ELSE source.seen[r]]

Notify ==
  /\ due > 0
  /\ due' = due - 1
  /\ told' = clock
  /\ IF ~source.open THEN UNCHANGED source
     ELSE \E frames \in Emissions(Unseen) :
            source' = [source EXCEPT !.sent = @ \o frames, !.seen = SeenAfter]
  /\ UNCHANGED <<runs, changed, clock, reused>>

\* The latest events the request is about, in the order they happened.
Replays(about) ==
  LET events == EventsAbout(about)
      n == Cardinality(events)
  IN  {s \in [1..(IF n > ReplayEvents THEN ReplayEvents ELSE n) -> events] :
         /\ \A i, j \in DOMAIN s : i < j => s[i].at < s[j].at
         /\ \A e \in events \ ToSet(s) : \A i \in DOMAIN s : e.at < s[i].at}

\* subscribeEvents: what is in the ledger counts as seen.
SeenAtStart == [r \in RunIds |-> LastSeq(EventsOf(r))]

\* handleEvents, which does not await anything between the replay and the
\* subscription.
Connect(about) ==
  /\ ~source.open
  /\ \E frames \in Replays(about) :
       source' = [open |-> TRUE, about |-> about, since |-> clock,
                  seen |-> SeenAtStart, sent |-> frames, read |-> 0]
  /\ UNCHANGED <<ledger, due>>

LedgerNext ==
  \/ Submit
  \/ \E r \in DOMAIN runs :
       \/ Delete(r)
       \/ \E event, notifies \in BOOLEAN : Write(r, event, notifies)

-----------------------------------------------------------------------------
(* Properties. *)

\* Once a stream is connected its frames of a run come in the order of its
\* events and none twice, and after a notification every event that was
\* committed before it has been sent (unless it fell out of the newest ones
\* first), whatever was replayed and whichever writes did not notify.  Runs
\* under a reused id are exempt: see the README.
StreamIsFaithful ==
  source.open =>
    /\ \A i, j \in 1..Len(source.sent) :
         i < j /\ source.sent[i].run = source.sent[j].run
           => source.sent[i].at < source.sent[j].at
    /\ \A r \in DOMAIN runs \ reused : Concerns(source.about, r) =>
         \A e \in ToSet(runs[r].events) :
           source.since < e.at /\ e.at <= told => e \in ToSet(source.sent)

=============================================================================
