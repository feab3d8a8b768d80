----------------------------- MODULE RunConsole -----------------------------
(***************************************************************************)
(* A browser's view of the runs (TaskFlowStatus): the chip, which polls    *)
(* the state of all runs, or the drawer, which polls one run while it is   *)
(* open.  Each has an EventSource of its own; an event makes its view      *)
(* abandon the request it has in flight and ask again (useJsonPoll,        *)
(* useSseRefresh, useRunSse).  The two share nothing, so the module        *)
(* follows one of them; Init chooses which.                                *)
(***************************************************************************)
EXTENDS EventStream

CONSTANTS
  MaxMoves       \* bound: clicks, requests that fail, connections that break

VARIABLES
  chip,   \* whether the view is the chip
  path,   \* what it shows: all runs, a run, or nothing
  bumped, \* whether its revision is past zero
  shown,  \* the answer on the screen
  fetch,  \* the request in flight
  late,   \* the last request abandoned in flight
  moves   \* clicks and failures so far

view == <<chip, path, bumped, shown, fetch, late>>
vars == <<eventVars, view, moves>>

\* An answer is what the ledger was at a time; null follows a request that
\* failed.
Answer == [kind : {"empty", "null", "answer"}, path : RunIds \cup {All, Off},
           asOf : 0..MaxWrites]
Empty == [kind |-> "empty", path |-> Off, asOf |-> 0]
Null == [Empty EXCEPT !.kind = "null"]

Request == [state : {"none", "asked", "answered"}, path : RunIds \cup {All, Off},
            asOf : 0..MaxWrites, live : BOOLEAN]
NoRequest == [state |-> "none", path |-> Off, asOf |-> 0, live |-> TRUE]
Asked(p) == [NoRequest EXCEPT !.state = "asked", !.path = p]

TypeOK ==
  /\ EventTypeOK
  /\ chip \in BOOLEAN /\ bumped \in BOOLEAN
  /\ path \in RunIds \cup {All, Off}
  /\ shown \in Answer
  /\ fetch \in Request /\ late \in Request
  /\ moves \in 0..MaxMoves

\* The chip polls as soon as it is mounted.
Init ==
  /\ EventInit
  /\ chip \in BOOLEAN
  /\ path = IF chip THEN All ELSE Off
  /\ bumped = FALSE
  /\ shown = Empty
  /\ fetch = IF chip THEN Asked(All) ELSE NoRequest
  /\ late = NoRequest
  /\ moves = 0

Moves == moves < MaxMoves /\ moves' = moves + 1

-----------------------------------------------------------------------------
(* Polling. *)

\* Mutant: the cleanup leaves the request live.
Abandoned_Live(q) == q

\* The cleanup clears `live': what the request still brings is dropped, and
\* what it asked for is not kept here.
Abandoned(q) == [NoRequest EXCEPT !.state = "answered", !.live = FALSE]

\* The effect of useJsonPoll is cleaned up and runs again: its request in
\* flight is abandoned, and a view that shows something asks at once.
Refetch(p) ==
  /\ late' = IF fetch.state = "none" THEN late ELSE Abandoned(fetch)
  /\ fetch' = IF p = Off THEN NoRequest ELSE Asked(p)

Bump ==
  /\ bumped' = TRUE
  /\ Refetch(path)
  /\ UNCHANGED <<chip, path, shown>>

\* A frame arrives.
ReadFrame ==
  /\ source.open
  /\ source.read < Len(source.sent)
  /\ source' = [source EXCEPT !.read = @ + 1]
  /\ Bump
  /\ UNCHANGED <<ledger, due, moves>>

\* confirmAction, confirmDelete: the command was accepted.
Confirm ==
  /\ Moves
  /\ Bump
  /\ UNCHANGED eventVars

\* The interval timer, or the page becoming visible; skipped while a request
\* is in flight.
Tick ==
  /\ path # Off
  /\ fetch.state = "none"
  /\ fetch' = Asked(path)
  /\ UNCHANGED <<eventVars, chip, path, bumped, shown, late, moves>>

\* handleState, handleRunDetail: the answer is the ledger at that moment.
Answered(q) == [q EXCEPT !.state = "answered", !.asOf = clock]

Serve ==
  /\ fetch.state = "asked"
  /\ fetch' = Answered(fetch)
  /\ UNCHANGED <<eventVars, chip, path, bumped, shown, late, moves>>

Shows(q) ==
  shown' = [kind |-> "answer", path |-> q.path, asOf |-> q.asOf]

\* Mutant: the poll forgets that it is over.
Finished_Stuck == fetch

Finished == NoRequest

Arrive ==
  /\ fetch.state = "answered"
  /\ Shows(fetch)
  /\ fetch' = Finished
  /\ UNCHANGED <<eventVars, chip, path, bumped, late, moves>>

ArriveLate ==
  /\ late.state # "none"
  /\ late' = NoRequest
  /\ IF ~late.live THEN UNCHANGED shown
     ELSE Shows(IF late.state = "asked" THEN Answered(late) ELSE late)
  /\ UNCHANGED <<eventVars, chip, path, bumped, fetch, moves>>

RequestFails ==
  /\ Moves
  /\ fetch.state # "none"
  /\ shown' = Null
  /\ fetch' = Finished
  /\ UNCHANGED <<eventVars, chip, path, bumped, late>>

-----------------------------------------------------------------------------
(* Streams and drawers. *)

\* EventSource connects, and reconnects by itself.
Reconnect ==
  /\ path # Off
  /\ Connect(path)
  /\ UNCHANGED <<view, moves>>

\* The connection breaks; the server's side closes with it, frames that were
\* not handled are lost.
StreamBreaks ==
  /\ Moves
  /\ source.open
  /\ source' = Closed
  /\ UNCHANGED <<ledger, due, view>>

\* openRun, closeRun: the drawer forgets what it showed and its revision.  A
\* change of either path or revision abandons the request in flight; a change
\* of path closes the stream.
ShowRun(p) ==
  /\ ~chip
  /\ Moves
  /\ path' = p
  /\ bumped' = FALSE
  /\ shown' = Empty
  /\ source' = IF p = path THEN source ELSE Closed
  /\ IF p = path /\ ~bumped THEN UNCHANGED <<fetch, late>> ELSE Refetch(p)
  /\ UNCHANGED <<ledger, due, chip>>

\* A card may be clicked that the board still shows after its run is gone.
OpenRun == \E r \in RunIds : changed[r] > 0 /\ ShowRun(r)
CloseRun == path # Off /\ ShowRun(Off)

Quietly == UNCHANGED <<view, moves>>

Next ==
  \/ LedgerNext /\ Quietly
  \/ Notify /\ Quietly
  \/ ReadFrame \/ Confirm \/ Tick \/ Serve \/ Arrive \/ ArriveLate
  \/ RequestFails \/ Reconnect \/ StreamBreaks
  \/ OpenRun
  \/ CloseRun

\* The timer keeps firing, and a request is answered in the end.  Nothing
\* makes a user click, a run move, or a stream connect.
Fairness ==
  WF_vars(Tick) /\ WF_vars(Serve) /\ WF_vars(Arrive)

Spec == Init /\ [][Next]_vars /\ Fairness

-----------------------------------------------------------------------------
(* Properties. *)

\* A view shows what it was opened for, and every event it has handled is
\* either on the screen or on its way there in a request that is not
\* answered yet or was answered late enough: neither a request that was in
\* flight when the event came, nor the late answer of an abandoned one, nor
\* a switch of drawers leaves an older picture (useJsonPoll).
NoRefreshLost ==
  /\ shown.kind = "answer" => shown.path = path
  /\ \A k \in 1..source.read :
       LET at == source.sent[k].at
       IN  \/ shown.kind \in {"empty", "null"}
           \/ shown.kind = "answer" /\ shown.asOf >= at
           \/ fetch.state = "asked"
           \/ fetch.state = "answered" /\ fetch.asOf >= at

UpToDate ==
  /\ shown.kind = "answer"
  /\ \A r \in RunIds : Concerns(path, r) => shown.asOf >= changed[r]

\* When the ledger is at rest and the user stops clicking, an open view
\* comes to show the ledger, and stays so: also writes that never notify and
\* streams that never connect are made up for by the timer.
ScreenCatchesUp == <>[](path = Off \/ UpToDate)

=============================================================================
