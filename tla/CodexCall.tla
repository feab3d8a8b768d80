------------------------------ MODULE CodexCall -----------------------------
(***************************************************************************)
(* One call of the planner, the reviewer or the issue executor: the Codex  *)
(* processes it spawns (spawnCodexProcess), its retries and its            *)
(* cancellation.                                                           *)
(*                                                                         *)
(* What Codex prints is abstracted to whether the adapter can parse it,    *)
(* and the files each adapter writes its schema to are left out.           *)
(* The process tree, its pipes and the timers are the outside world: a     *)
(* process may end by itself at any time, and one that was killed need not *)
(* close its pipes.                                                        *)
(***************************************************************************)
EXTENDS Integers, FiniteSets

CONSTANT MaxRetries
ASSUME RetriesAssumption == MaxRetries \in Nat

Attempts == 1 .. MaxRetries + 1

VARIABLES
  adapter,  \* "reader" (planner and reviewer) or "executor"
  signal,   \* the caller's signal is aborted
  call,     \* "new", "calling", "returned"
  n,        \* the current attempt
  result,   \* what the call returned or threw
  at        \* the spawned run of each attempt

vars == <<adapter, signal, call, n, result, at>>

(***************************************************************************)
(* proc: the process tree.  code: how it ended.  flags: why it was killed. *)
(* timers: the timers that are armed.  listening: onAbort is registered.   *)
(* answer: the exit code the run has settled with ("null" when the process *)
(* was killed or never ran).                                               *)
(***************************************************************************)
Run ==
  [ proc : {"none", "running", "killed", "gone"},
    code : {"none", "zero", "nonzero"},
    flags : SUBSET {"aborted", "over", "timedOut"},
    timers : SUBSET {"timeout", "kill"},
    listening : BOOLEAN,
    answer : {"open", "zero", "nonzero", "null"} ]

NoRun == [proc |-> "none", code |-> "none", flags |-> {}, timers |-> {},
          listening |-> FALSE, answer |-> "open"]

Init ==
  /\ adapter \in {"reader", "executor"}
  /\ signal = FALSE
  /\ call = "new"
  /\ n = 0
  /\ result = "none"
  /\ at = [k \in Attempts |-> NoRun]

-----------------------------------------------------------------------------
(* One spawned run. *)

\* Mutant: a run is spawned without a look at the signal.
Refused_Never == FALSE

Refused == signal

Spawned == [NoRun EXCEPT !.proc = "running", !.timers = {"timeout"},
                         !.listening = TRUE]

\* What spawnCodexProcess does before its first await.  A signal that is
\* already aborted starts nothing.
Spawn(k) ==
  at' = [at EXCEPT ![k] =
           IF Refused THEN [NoRun EXCEPT !.flags = {"aborted"},
                                         !.answer = "null"]
           ELSE Spawned]

Open(k) == at[k].proc # "none" /\ at[k].answer = "open"

\* cleanup(): settle() always removes the timers and the abort listener.
CleanedUp(r) == [r EXCEPT !.timers = {}, !.listening = FALSE]

Settle(k, r, answer) ==
  at' = [at EXCEPT ![k] = [CleanedUp(r) EXCEPT !.answer = answer]]

\* Mutant: a killed run waits for its 'close'.
Killed_AwaitsClose(r, flag) ==
  [r EXCEPT !.proc = IF @ = "running" THEN "killed" ELSE @,
            !.flags = @ \cup {flag}]

\* killProcessTree and armKillFallback.
Killed(r, flag) ==
  [r EXCEPT !.proc = IF @ = "running" THEN "killed" ELSE @,
            !.flags = @ \cup {flag}, !.timers = @ \cup {"kill"}]

\* Mutant: output that arrives after the run has settled is still counted.
CountsOutput_Always(k) == at[k].proc # "none" /\ "over" \notin at[k].flags

\* Chunks are ignored once the run has settled or exceeded the cap.
CountsOutput(k) == Open(k) /\ "over" \notin at[k].flags

OutputExceedsCap(k) ==
  /\ CountsOutput(k)
  /\ at' = [at EXCEPT ![k] = Killed(@, "over")]
  /\ UNCHANGED <<adapter, signal, call, n, result>>

TimedOut(r) == [Killed(r, "timedOut") EXCEPT !.timers = @ \ {"timeout"}]

TimeoutFires(k) ==
  /\ "timeout" \in at[k].timers
  /\ at' = [at EXCEPT ![k] = TimedOut(@)]
  /\ UNCHANGED <<adapter, signal, call, n, result>>

\* The grace period of a killed run ends without its 'close'.
FallbackFires(k) ==
  /\ "kill" \in at[k].timers
  /\ Settle(k, at[k], "null")
  /\ UNCHANGED <<adapter, signal, call, n, result>>

\* 'error': the process could not be started.
SpawnFails(k) ==
  /\ Open(k)
  /\ at[k].proc # "gone"
  /\ Settle(k, [at[k] EXCEPT !.proc = "gone"], "null")
  /\ UNCHANGED <<adapter, signal, call, n, result>>

\* Mutant: a run that was killed reports the exit code of its process.
ExitCode_Raw(r) == IF r.code = "none" THEN "null" ELSE r.code

ExitCode(r) == IF r.flags # {} \/ r.code = "none" THEN "null" ELSE r.code

\* 'close': the process has ended and its pipes are closed.
Closes(k) ==
  /\ Open(k)
  /\ at[k].proc = "gone"
  /\ Settle(k, at[k], ExitCode(at[k]))
  /\ UNCHANGED <<adapter, signal, call, n, result>>

\* The process tree ends, by itself or because it was killed.
ProcessEnds(k) ==
  /\ at[k].proc \in {"running", "killed"}
  /\ \E code \in IF at[k].proc = "running" THEN {"zero", "nonzero"}
                 ELSE {"none"} :
       at' = [at EXCEPT ![k].proc = "gone", ![k].code = code]
  /\ UNCHANGED <<adapter, signal, call, n, result>>

-----------------------------------------------------------------------------
(* The adapters. *)

Returns(r) == call' = "returned" /\ result' = r

\* plan() and review() go straight to their first attempt.
ReaderCalled ==
  /\ call = "new"
  /\ adapter = "reader"
  /\ call' = "calling"
  /\ n' = 1
  /\ Spawn(1)
  /\ UNCHANGED <<adapter, signal, result>>

\* execute() rejects an aborted signal itself.
ExecutorCalled ==
  /\ call = "new"
  /\ adapter = "executor"
  /\ IF signal
     THEN Returns("aborted") /\ UNCHANGED <<n, at>>
     ELSE call' = "calling" /\ n' = 1 /\ Spawn(1) /\ UNCHANGED result
  /\ UNCHANGED <<adapter, signal>>

\* Mutant: a run that was both aborted and timed out is tried again.
TriesAgain_TimeoutFirst(r) == "timedOut" \in r.flags

TriesAgain(r) == r.flags = {"timedOut"}

\* The errors and the result of an attempt that is not repeated.
Outcomes(r) ==
  CASE "aborted" \in r.flags  -> {"aborted"}
    [] "over" \in r.flags     -> {"outputLimit"}
    [] "timedOut" \in r.flags -> {"timeout"}
    [] r.answer # "zero"      -> {"failed"}
    [] OTHER                  -> {"ok", "unparsable"}

AttemptsLeft == n <= MaxRetries

\* The adapter reads the result of its attempt: only a plain timeout is tried
\* again, up to MaxRetries times.
Continues ==
  /\ call = "calling"
  /\ at[n].answer # "open"
  /\ IF TriesAgain(at[n]) /\ AttemptsLeft
     THEN n' = n + 1 /\ Spawn(n + 1) /\ UNCHANGED <<call, result>>
     ELSE /\ \E r \in Outcomes(at[n]) : Returns(r)
          /\ UNCHANGED <<n, at>>
  /\ UNCHANGED <<adapter, signal>>

\* Mutant: aborting an executor's call does not reach its process.
Reached_ReaderOnly(k) == at[k].listening /\ adapter = "reader"

Reached(k) == at[k].listening

\* The caller aborts the signal.  Its listeners run at once: the one of a
\* spawned run kills the process tree, and an executor whose attempt is still
\* open rejects without waiting for it to settle.
Abort ==
  /\ ~signal
  /\ signal' = TRUE
  /\ at' = [k \in Attempts |->
              IF Reached(k)
              THEN [Killed(at[k], "aborted") EXCEPT !.listening = FALSE]
              ELSE at[k]]
  /\ IF adapter = "executor" /\ call = "calling" /\ at[n].answer = "open"
     THEN Returns("aborted") ELSE UNCHANGED <<call, result>>
  /\ UNCHANGED <<adapter, n>>

-----------------------------------------------------------------------------
World(k) == OutputExceedsCap(k) \/ SpawnFails(k) \/ ProcessEnds(k)
Timers(k) == TimeoutFires(k) \/ FallbackFires(k)
Calls == ReaderCalled \/ ExecutorCalled \/ Continues

Next ==
  \/ Calls
  \/ Abort
  \/ \E k \in Attempts : World(k) \/ Timers(k) \/ Closes(k)

Spec == Init /\ [][Next]_vars

\* Timers fire and continuations run; processes owe nothing.
FairSpec ==
  /\ Spec
  /\ WF_vars(Calls)
  /\ \A k \in Attempts : WF_vars(Timers(k))

-----------------------------------------------------------------------------
TypeOK ==
  /\ adapter \in {"reader", "executor"}
  /\ signal \in BOOLEAN
  /\ call \in {"new", "calling", "returned"}
  /\ n \in 0 .. MaxRetries + 1
  /\ result \in {"none", "ok", "unparsable", "failed", "timeout",
                 "outputLimit", "aborted"}
  /\ at \in [Attempts -> Run]

\* A run that has settled has nothing armed: no timer, no fallback and no
\* abort listener, whatever arrives afterwards (planner.ts:134).
SettledIsClean ==
  \A k \in Attempts : at[k].answer # "open" =>
    at[k].timers = {} /\ ~at[k].listening

\* When the call has returned, whichever way, no process it spawned is left
\* to itself: each has ended or was killed (planner.ts:132-133).
NoProcessLeftBehind ==
  call = "returned" => \A k \in Attempts : at[k].proc # "running"

\* A run that was given up reports no exit code, even if its process ended
\* with 0 while the timeout fired or the abort arrived.
KilledIsNoSuccess ==
  \A k \in Attempts : at[k].flags # {} => at[k].answer \in {"open", "null"}

\* No process is started for a caller that has aborted, in a retry neither.
NoSpawnAfterAbort ==
  [][\A k \in Attempts : at[k].proc = "none" /\ at'[k].proc = "running"
       => ~signal]_vars

\* An attempt is repeated only after a plain timeout: a cancelled run and one
\* that flooded its output are not (tests/planner.spec.ts:254, 267).
OnlyTimeoutsRetry ==
  \A k \in Attempts : k < n => at[k].flags = {"timedOut"}

\* Every call returns and every run it spawned settles, even if a process
\* cannot be killed or keeps its pipes open.
CallEnds ==
  <>(/\ call = "returned"
     /\ \A k \in Attempts : at[k].proc = "none" \/ at[k].answer # "open")

=============================================================================
