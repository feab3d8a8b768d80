--------------------------- MODULE CodexCallProofs --------------------------
(***************************************************************************)
(* Proofs about CodexCall, for any number of retries.                      *)
(***************************************************************************)
EXTENDS CodexCall, TLAPS

\* What holds of every attempt.  A run whose process is alive still listens
\* to the signal and has not settled; a run that waits for the end of its
\* grace period was killed; a settled run has nothing armed.
RunInv ==
  \A k \in Attempts :
    /\ at[k].proc = "running" => at[k].listening /\ at[k].answer = "open"
    /\ at[k].listening => at[k].answer = "open"
    /\ at[k].timers # {} => at[k].answer = "open"
    /\ "kill" \in at[k].timers => at[k].proc # "running"

\* How the attempts follow each other: those before the current one timed
\* out and have settled, those after it have not begun.
CallInv ==
  /\ call = "new" => n = 0
  /\ call = "calling" => n \in Attempts
  /\ \A k \in Attempts : k > n => at[k] = NoRun
  /\ \A k \in Attempts : k < n => /\ at[k].flags = {"timedOut"}
                                  /\ at[k].answer # "open"
  /\ call = "returned" => \A k \in Attempts : at[k].proc # "running"

Inductive == TypeOK /\ RunInv /\ CallInv

LEMMA TypeOfRun ==
  ASSUME TypeOK, NEW k \in Attempts
  PROVE  at[k] \in Run
BY DEF TypeOK

\* A step of one run that only changes it in the ways runs change after they
\* were spawned.
LEMMA RunStep ==
  ASSUME Inductive, NEW k \in Attempts, NEW r \in Run,
         at[k].proc # "none" \/ at[k].timers # {},
         at' = [at EXCEPT ![k] = r],
         UNCHANGED <<adapter, signal, call, n, result>>,
         r.proc = "running" => at[k].proc = "running",
         r.proc = "running" => r.listening /\ r.answer = "open",
         r.listening => r.answer = "open",
         r.timers # {} => r.answer = "open",
         "kill" \in r.timers => r.proc # "running",
         at[k].answer # "open" => r.answer # "open" /\ r.flags = at[k].flags
  PROVE  Inductive'
<1>1. TypeOK'
  BY DEF Inductive, TypeOK
<1>2. \A j \in Attempts : at'[j] = IF j = k THEN r ELSE at[j]
  BY DEF Inductive, TypeOK
<1>3. RunInv'
  BY <1>2 DEF Inductive, RunInv
<1>4. k <= n
  BY DEF Inductive, CallInv, NoRun, TypeOK, Attempts
<1>5. CallInv'
  BY <1>2, <1>4 DEF Inductive, CallInv, TypeOK, Attempts
<1> QED BY <1>1, <1>3, <1>5 DEF Inductive

LEMMA KilledRun ==
  ASSUME NEW r \in Run, NEW flag \in {"aborted", "over", "timedOut"}
  PROVE  /\ Killed(r, flag) \in Run
         /\ Killed(r, flag).proc = IF r.proc = "running" THEN "killed"
                                   ELSE r.proc
         /\ Killed(r, flag).flags = r.flags \cup {flag}
         /\ Killed(r, flag).timers = r.timers \cup {"kill"}
         /\ Killed(r, flag).listening = r.listening
         /\ Killed(r, flag).answer = r.answer
         /\ Killed(r, flag).code = r.code
BY DEF Killed, Run

LEMMA SettledRun ==
  ASSUME NEW r \in Run, NEW a \in {"zero", "nonzero", "null"}
  PROVE  LET s == [CleanedUp(r) EXCEPT !.answer = a]
         IN  /\ s \in Run
             /\ s.proc = r.proc /\ s.flags = r.flags /\ s.timers = {}
             /\ ~s.listening /\ s.answer = a
BY DEF CleanedUp, Run

\* Spawning the attempt k, the next one.
LEMMA SpawnStep ==
  ASSUME Inductive, NEW k \in Attempts, k = n + 1, Spawn(k),
         \A j \in Attempts : j < k => /\ at[j].flags = {"timedOut"}
                                      /\ at[j].answer # "open",
         n' = k, call' = "calling", UNCHANGED <<adapter, signal, result>>
  PROVE  Inductive'
<1> DEFINE r == at'[k]
<1>1. at' = [at EXCEPT ![k] = r] /\ r \in Run
  BY DEF Spawn, Spawned, NoRun, Run, Inductive, TypeOK
<1>2. /\ r.proc = "running" => r.listening /\ r.answer = "open"
      /\ r.listening => r.answer = "open"
      /\ r.timers # {} => r.answer = "open"
      /\ "kill" \notin r.timers
  BY DEF Spawn, Spawned, NoRun, Inductive, TypeOK
<1> HIDE DEF r
<1>3. TypeOK'
  BY <1>1 DEF Inductive, TypeOK, Attempts
<1>4. \A j \in Attempts : at'[j] = IF j = k THEN r ELSE at[j]
  BY <1>1 DEF Inductive, TypeOK
<1>5. RunInv'
  BY <1>2, <1>4 DEF Inductive, RunInv
<1>6. CallInv'
  BY <1>4, RetriesAssumption DEF Inductive, CallInv, TypeOK, Attempts
<1> QED BY <1>3, <1>5, <1>6 DEF Inductive

\* Returning from an attempt that has settled.
LEMMA ReturnStep ==
  ASSUME Inductive, NEW r, Returns(r),
         r \in {"ok", "unparsable", "failed", "timeout", "outputLimit",
                "aborted"},
         \A k \in Attempts : at[k].proc # "running",
         UNCHANGED <<adapter, signal, n, at>>
  PROVE  Inductive'
BY DEF Inductive, TypeOK, RunInv, CallInv, Returns, Run

LEMMA InitHolds == Init => Inductive
<1> SUFFICES ASSUME Init PROVE Inductive
  OBVIOUS
<1>1. NoRun \in Run
  BY DEF NoRun, Run
<1>2. n \in 0 .. MaxRetries + 1 /\ \A k \in Attempts : ~(k < n)
  BY RetriesAssumption DEF Init, Attempts
<1>3. \A k \in Attempts : at[k] = NoRun
  BY DEF Init
<1>4. TypeOK
  BY <1>1, <1>2 DEF Init, TypeOK
<1>5. RunInv
  BY <1>3 DEF RunInv, NoRun
<1>6. CallInv
  BY <1>2, <1>3 DEF Init, CallInv
<1> QED BY <1>4, <1>5, <1>6 DEF Inductive

\* Everybody whose attempt is not the current one has settled or not begun.
LEMMA OnlyCurrentRuns ==
  ASSUME Inductive, NEW k \in Attempts, k # n
  PROVE  at[k].proc # "running" /\ (k < n => at[k].answer # "open")
BY DEF Inductive, TypeOK, RunInv, CallInv, NoRun, Attempts

LEMMA NextHolds == Inductive /\ [Next]_vars => Inductive'
<1> SUFFICES ASSUME Inductive, [Next]_vars PROVE Inductive'
  OBVIOUS
<1>1. CASE UNCHANGED vars
  BY <1>1 DEF Inductive, TypeOK, RunInv, CallInv, vars
<1>2. CASE ReaderCalled
  <2>1. n = 0 /\ 1 \in Attempts
    BY <1>2, RetriesAssumption DEF ReaderCalled, Inductive, CallInv, Attempts
  <2> QED BY <1>2, <2>1, SpawnStep DEF ReaderCalled, Attempts
<1>3. CASE ExecutorCalled
  <2>1. n = 0 /\ 1 \in Attempts
    BY <1>3, RetriesAssumption
       DEF ExecutorCalled, Inductive, CallInv, Attempts
  <2>2. \A k \in Attempts : at[k].proc # "running"
    BY <2>1, OnlyCurrentRuns DEF Attempts
  <2>3. CASE signal
    BY <1>3, <2>2, <2>3, ReturnStep DEF ExecutorCalled
  <2>4. CASE ~signal
    BY <1>3, <2>1, <2>4, SpawnStep DEF ExecutorCalled, Attempts
  <2> QED BY <2>3, <2>4
<1>4. CASE Continues
  <2>1. n \in Attempts /\ at[n].answer # "open" /\ call = "calling"
    BY <1>4 DEF Continues, Inductive, CallInv
  <2>2. \A k \in Attempts : at[k].proc # "running"
    BY <2>1, OnlyCurrentRuns DEF Inductive, RunInv
  <2>3. CASE TriesAgain(at[n]) /\ AttemptsLeft
    <3>1. n + 1 \in Attempts
      BY <2>1, <2>3, RetriesAssumption DEF AttemptsLeft, Attempts
    <3>2. \A j \in Attempts : j < n + 1 => /\ at[j].flags = {"timedOut"}
                                           /\ at[j].answer # "open"
      BY <2>1, <2>3 DEF TriesAgain, Inductive, CallInv, Attempts
    <3>3. /\ n' = n + 1 /\ Spawn(n + 1)
          /\ UNCHANGED <<call, result, adapter, signal>>
      BY <1>4, <2>3 DEF Continues
    <3> QED BY <2>1, <3>1, <3>2, <3>3, SpawnStep
  <2>4. CASE ~(TriesAgain(at[n]) /\ AttemptsLeft)
    <3>1. PICK r \in Outcomes(at[n]) : Returns(r)
      BY <1>4, <2>4 DEF Continues
    <3>2. r \in {"ok", "unparsable", "failed", "timeout", "outputLimit",
                 "aborted"}
      BY DEF Outcomes
    <3>3. UNCHANGED <<adapter, signal, n, at>>
      BY <1>4, <2>4 DEF Continues
    <3> QED BY <2>2, <3>1, <3>2, <3>3, ReturnStep
  <2> QED BY <2>3, <2>4
<1>5. CASE Abort
  <2>1. \A k \in Attempts :
          at'[k] = IF at[k].listening
                   THEN [Killed(at[k], "aborted") EXCEPT !.listening = FALSE]
                   ELSE at[k]
    BY <1>5 DEF Abort, Reached
  <2>2. \A k \in Attempts :
          /\ at'[k] \in Run
          /\ at'[k].proc # "running"
          /\ ~at'[k].listening
          /\ at'[k].answer = at[k].answer
          /\ at'[k].timers # {} => at[k].answer = "open"
          /\ at[k].answer # "open" => at'[k] = at[k]
    <3> TAKE k \in Attempts
    <3> USE <2>1, TypeOfRun, KilledRun DEF Inductive, RunInv
    <3>1. CASE at[k].listening
      <4> DEFINE q == Killed(at[k], "aborted")
      <4>1. q \in Run /\ q.proc # "running" /\ q.answer = at[k].answer
        OBVIOUS
      <4>2. at'[k] = [q EXCEPT !.listening = FALSE]
        BY <3>1
      <4> HIDE DEF q
      <4>3. /\ at'[k] \in Run /\ at'[k].proc = q.proc
            /\ at'[k].answer = q.answer /\ ~at'[k].listening
        BY <4>1, <4>2, ZenonT(60) DEF Run
      <4> QED BY <3>1, <4>1, <4>3
    <3>2. CASE ~at[k].listening
      BY <3>2
    <3> QED BY <3>1, <3>2
  <2>3. TypeOK'
    <3>1. DOMAIN at' = Attempts /\ at' = [k \in Attempts |-> at'[k]]
      BY <1>5 DEF Abort
    <3> QED BY <1>5, <2>2, <3>1 DEF Abort, Returns, Inductive, TypeOK
  <2>4. RunInv'
    BY <2>2 DEF RunInv
  <2>5. CallInv'
    <3>1. \A k \in Attempts : k > n => at'[k] = NoRun
      <4> TAKE k \in Attempts
      <4> HAVE k > n
      <4>1. at[k] = NoRun
        BY DEF Inductive, CallInv
      <4>2. ~at[k].listening
        BY <4>1 DEF NoRun
      <4> QED BY <2>1, <4>1, <4>2
    <3>2. \A k \in Attempts : k < n => at'[k] = at[k]
      BY <2>2, OnlyCurrentRuns DEF Inductive, TypeOK, Attempts
    <3>3. n' = n /\ call' \in {call, "returned"} /\ (call = "new" => call' = "new")
      BY <1>5 DEF Abort, Returns
    <3> QED BY <2>2, <3>1, <3>2, <3>3 DEF Inductive, CallInv
  <2> QED BY <2>3, <2>4, <2>5 DEF Inductive
<1>6. ASSUME NEW k \in Attempts, World(k) \/ Timers(k) \/ Closes(k)
      PROVE  Inductive'
  <2> USE TypeOfRun DEF Inductive
  <2>1. CASE OutputExceedsCap(k)
    <3> DEFINE r == Killed(at[k], "over")
    <3>1. at[k].answer = "open" /\ at[k].proc # "none"
      BY <2>1 DEF OutputExceedsCap, CountsOutput, Open
    <3>2. /\ at' = [at EXCEPT ![k] = r]
          /\ UNCHANGED <<adapter, signal, call, n, result>>
      BY <2>1 DEF OutputExceedsCap
    <3>3. /\ r \in Run /\ r.proc # "running" /\ r.answer = "open"
          /\ r.listening = at[k].listening
      BY <3>1, KilledRun
    <3> HIDE DEF r
    <3> QED BY <3>1, <3>2, <3>3, RunStep DEF RunInv
  <2>2. CASE TimeoutFires(k)
    <3> DEFINE q == Killed(at[k], "timedOut")
               r == [q EXCEPT !.timers = @ \ {"timeout"}]
    <3>1. at[k].answer = "open" /\ at[k].timers # {}
      BY <2>2 DEF TimeoutFires, RunInv
    <3>2. /\ at' = [at EXCEPT ![k] = r]
          /\ UNCHANGED <<adapter, signal, call, n, result>>
      BY <2>2 DEF TimeoutFires, TimedOut
    <3>3. /\ q \in Run /\ q.proc # "running" /\ q.answer = "open"
          /\ q.listening = at[k].listening
      BY <3>1, KilledRun
    <3> HIDE DEF q
    <3>4. r \in Run /\ r.proc # "running" /\ r.answer = "open"
      BY <3>3 DEF Run
    <3> HIDE DEF r
    <3> QED BY <3>1, <3>2, <3>4, RunStep
  <2>3. CASE FallbackFires(k)
    <3> DEFINE r == [CleanedUp(at[k]) EXCEPT !.answer = "null"]
    <3>1. at[k].answer = "open" /\ at[k].timers # {} /\ at[k].proc # "running"
      BY <2>3 DEF FallbackFires, RunInv
    <3>2. /\ at' = [at EXCEPT ![k] = r]
          /\ UNCHANGED <<adapter, signal, call, n, result>>
      BY <2>3 DEF FallbackFires, Settle
    <3>3. /\ r \in Run /\ r.proc = at[k].proc /\ r.timers = {}
          /\ ~r.listening
      BY SettledRun
    <3> HIDE DEF r
    <3> QED BY <3>1, <3>2, <3>3, RunStep
  <2>4. CASE SpawnFails(k)
    <3> DEFINE q == [at[k] EXCEPT !.proc = "gone"]
               r == [CleanedUp(q) EXCEPT !.answer = "null"]
    <3>1. at[k].answer = "open" /\ at[k].proc # "none"
      BY <2>4 DEF SpawnFails, Open
    <3>2. /\ at' = [at EXCEPT ![k] = r]
          /\ UNCHANGED <<adapter, signal, call, n, result>>
      BY <2>4 DEF SpawnFails, Settle
    <3>3. q \in Run /\ q.proc = "gone"
      BY DEF Run
    <3> HIDE DEF q
    <3>4. r \in Run /\ r.proc = "gone" /\ r.timers = {} /\ ~r.listening
      BY <3>3, SettledRun
    <3> HIDE DEF r
    <3> QED BY <3>1, <3>2, <3>4, RunStep
  <2>5. CASE Closes(k)
    <3> DEFINE a == ExitCode(at[k])
               r == [CleanedUp(at[k]) EXCEPT !.answer = a]
    <3>1. at[k].answer = "open" /\ at[k].proc = "gone"
      BY <2>5 DEF Closes, Open
    <3>2. /\ at' = [at EXCEPT ![k] = r]
          /\ UNCHANGED <<adapter, signal, call, n, result>>
      BY <2>5 DEF Closes, Settle
    <3>3. a \in {"zero", "nonzero", "null"}
      BY DEF ExitCode, Run
    <3> HIDE DEF a
    <3>4. r \in Run /\ r.proc = "gone" /\ r.timers = {} /\ ~r.listening
      BY <3>1, <3>3, SettledRun
    <3> HIDE DEF r
    <3> QED BY <3>1, <3>2, <3>4, RunStep
  <2>6. CASE ProcessEnds(k)
    <3>1. PICK code \in {"zero", "nonzero", "none"} :
            at' = [at EXCEPT ![k] = [@ EXCEPT !.proc = "gone", !.code = code]]
      BY <2>6 DEF ProcessEnds
    <3> DEFINE r == [at[k] EXCEPT !.proc = "gone", !.code = code]
    <3>2. /\ at' = [at EXCEPT ![k] = r]
          /\ UNCHANGED <<adapter, signal, call, n, result>>
          /\ at[k].proc # "none"
      BY <2>6, <3>1 DEF ProcessEnds
    <3>3. /\ r \in Run /\ r.proc = "gone" /\ r.listening = at[k].listening
          /\ r.answer = at[k].answer /\ r.timers = at[k].timers
          /\ r.flags = at[k].flags
      BY DEF Run
    <3> HIDE DEF r
    <3> QED BY <3>2, <3>3, RunStep DEF RunInv
  <2> QED BY <1>6, <2>1, <2>2, <2>3, <2>4, <2>5, <2>6 DEF World, Timers
<1> QED BY <1>1, <1>2, <1>3, <1>4, <1>5, <1>6 DEF Next, Calls

\* The inductive invariant: types, what a spawned run may still have armed,
\* and how attempts follow each other.
THEOREM Invariance == Spec => []Inductive
BY InitHolds, NextHolds, PTL DEF Spec

\* A settled run has no timer, no fallback and no listener left, for any
\* number of retries (planner.ts:134).
THEOREM SettledRunsAreClean == Spec => []SettledIsClean
<1>1. Inductive => SettledIsClean
  BY DEF Inductive, RunInv, SettledIsClean
<1> QED BY <1>1, Invariance, PTL

\* However a call ends, none of its processes is left to itself, for any
\* number of retries (planner.ts:132-133).
THEOREM NobodyIsLeftBehind == Spec => []NoProcessLeftBehind
<1>1. Inductive => NoProcessLeftBehind
  BY DEF Inductive, CallInv, NoProcessLeftBehind
<1> QED BY <1>1, Invariance, PTL

\* Only plain timeouts are tried again, for any number of retries.
THEOREM RetriesAreTimeouts == Spec => []OnlyTimeoutsRetry
<1>1. Inductive => OnlyTimeoutsRetry
  BY DEF Inductive, CallInv, OnlyTimeoutsRetry
<1> QED BY <1>1, Invariance, PTL

\* No process starts after the caller has aborted, for any number of retries.
THEOREM NothingStartsAborted == Spec => NoSpawnAfterAbort
<1>1. ASSUME Inductive, Next, NEW k \in Attempts,
             at[k].proc = "none", at'[k].proc = "running"
      PROVE  ~signal
  <2>1. at[k] \in Run
    BY <1>1, TypeOfRun DEF Inductive
  <2>2. ASSUME NEW j \in Attempts, Spawn(j)
        PROVE  ~signal
    BY <1>1, <2>2 DEF Spawn, Refused, NoRun, Inductive, TypeOK
  <2>3. CASE Calls
    <3>1. CASE ReaderCalled \/ ExecutorCalled
      <4>1. 1 \in Attempts
        BY RetriesAssumption DEF Attempts
      <4>2. Spawn(1) \/ UNCHANGED at
        BY <3>1 DEF ReaderCalled, ExecutorCalled
      <4> QED BY <1>1, <2>2, <4>1, <4>2
    <3>2. CASE Continues
      <4>1. n \in Attempts
        BY <1>1, <3>2 DEF Continues, Inductive, CallInv
      <4>2. (Spawn(n + 1) /\ AttemptsLeft) \/ UNCHANGED at
        BY <3>2 DEF Continues
      <4>3. AttemptsLeft => n + 1 \in Attempts
        BY <4>1, RetriesAssumption DEF AttemptsLeft, Attempts
      <4> QED BY <1>1, <2>2, <4>2, <4>3
    <3> QED BY <2>3, <3>1, <3>2 DEF Calls
  <2>4. CASE Abort
    BY <2>4 DEF Abort
  <2>5. ASSUME NEW j \in Attempts, NEW r, at' = [at EXCEPT ![j] = r],
               r.proc = "running" => at[j].proc = "running"
        PROVE  FALSE
    BY <1>1, <2>5 DEF Inductive, TypeOK
  <2>6. ASSUME NEW j \in Attempts, World(j) \/ Timers(j) \/ Closes(j)
        PROVE  FALSE
    <3>0. at[j] \in Run
      BY <1>1, TypeOfRun DEF Inductive
    <3>1. CASE OutputExceedsCap(j)
      <4>1. Killed(at[j], "over").proc # "running"
        BY <3>0, KilledRun
      <4> QED BY <2>5, <3>1, <4>1 DEF OutputExceedsCap
    <3>2. CASE TimeoutFires(j)
      <4>1. TimedOut(at[j]).proc = Killed(at[j], "timedOut").proc
        BY DEF TimedOut, Killed
      <4>2. TimedOut(at[j]).proc # "running"
        BY <3>0, <4>1, KilledRun
      <4> QED BY <2>5, <3>2, <4>2 DEF TimeoutFires
    <3>3. CASE FallbackFires(j)
      <4> DEFINE r == [CleanedUp(at[j]) EXCEPT !.answer = "null"]
      <4>1. r.proc = at[j].proc
        BY <3>0, SettledRun
      <4>2. at' = [at EXCEPT ![j] = r]
        BY <3>3 DEF FallbackFires, Settle
      <4> HIDE DEF r
      <4> QED BY <2>5, <4>1, <4>2
    <3>4. CASE SpawnFails(j)
      <4> DEFINE q == [at[j] EXCEPT !.proc = "gone"]
                 r == [CleanedUp(q) EXCEPT !.answer = "null"]
      <4>1. q \in Run /\ q.proc = "gone"
        BY <3>0 DEF Run
      <4>2. at' = [at EXCEPT ![j] = r]
        BY <3>4 DEF SpawnFails, Settle
      <4> HIDE DEF q
      <4>3. r.proc # "running"
        BY <4>1, SettledRun
      <4> HIDE DEF r
      <4> QED BY <2>5, <4>2, <4>3
    <3>5. CASE Closes(j)
      <4> DEFINE a == ExitCode(at[j])
                 r == [CleanedUp(at[j]) EXCEPT !.answer = a]
      <4>1. a \in {"zero", "nonzero", "null"}
        BY <3>0 DEF ExitCode, Run
      <4>2. at' = [at EXCEPT ![j] = r]
        BY <3>5 DEF Closes, Settle
      <4> HIDE DEF a
      <4>3. r.proc = at[j].proc
        BY <3>0, <4>1, SettledRun
      <4> HIDE DEF r
      <4> QED BY <2>5, <4>2, <4>3
    <3>6. CASE ProcessEnds(j)
      BY <1>1, <3>6, TypeOfRun DEF ProcessEnds, Inductive, TypeOK, Run
    <3> QED BY <2>6, <3>1, <3>2, <3>3, <3>4, <3>5, <3>6 DEF World, Timers
  <2> QED BY <1>1, <2>3, <2>4, <2>6 DEF Next
<1>2. Inductive /\ [Next]_vars =>
        [\A k \in Attempts : at[k].proc = "none" /\ at'[k].proc = "running"
           => ~signal]_vars
  BY <1>1
<1> QED BY <1>2, Invariance, PTL DEF Spec, NoSpawnAfterAbort

\* A run gets a flag only while it is open, and an exit code only without one.
LEMMA KilledStep ==
  Inductive /\ KilledIsNoSuccess /\ [Next]_vars => KilledIsNoSuccess'
<1> SUFFICES ASSUME Inductive, KilledIsNoSuccess, [Next]_vars,
                    NEW k \in Attempts
             PROVE  at'[k].flags # {} => at'[k].answer \in {"open", "null"}
  BY DEF KilledIsNoSuccess
<1> USE DEF KilledIsNoSuccess, Inductive
<1>1. /\ at[k] \in Run
      /\ at[k].flags # {} => at[k].answer \in {"open", "null"}
  BY TypeOfRun
<1>2. CASE UNCHANGED at
  BY <1>1, <1>2
<1>3. ASSUME NEW j \in Attempts, Spawn(j)
      PROVE  at'[k].flags # {} => at'[k].answer \in {"open", "null"}
  <2>1. at'[k] \in {at[k], Spawned, [NoRun EXCEPT !.flags = {"aborted"},
                                                 !.answer = "null"]}
    BY <1>3 DEF Spawn, TypeOK
  <2> QED BY <1>1, <2>1 DEF Spawned, NoRun
<1>4. CASE Calls
  <2>1. CASE ReaderCalled \/ ExecutorCalled
    <3>1. 1 \in Attempts
      BY RetriesAssumption DEF Attempts
    <3> QED BY <1>2, <1>3, <2>1, <3>1 DEF ReaderCalled, ExecutorCalled
  <2>2. CASE Continues
    <3>1. n \in Attempts /\ (AttemptsLeft => n + 1 \in Attempts)
      BY <2>2, RetriesAssumption
         DEF Continues, CallInv, AttemptsLeft, Attempts
    <3> QED BY <1>2, <1>3, <2>2, <3>1 DEF Continues
  <2> QED BY <1>4, <2>1, <2>2 DEF Calls
<1>5. CASE Abort
  <2>1. CASE at[k].listening
    <3> DEFINE q == Killed(at[k], "aborted")
    <3>1. q \in Run /\ q.answer = "open"
      BY <1>1, <2>1, KilledRun DEF RunInv
    <3>2. at'[k] = [q EXCEPT !.listening = FALSE]
      BY <1>5, <2>1 DEF Abort, Reached
    <3> HIDE DEF q
    <3> QED BY <3>1, <3>2 DEF Run
  <2> QED BY <1>1, <1>5, <2>1 DEF Abort, Reached
\* The steps of a run that is still open, or keeps its flags and its answer.
<1>6. ASSUME NEW j \in Attempts, NEW r, at' = [at EXCEPT ![j] = r],
             \/ r.answer \in {"open", "null"}
             \/ r.flags = at[j].flags /\ r.answer = at[j].answer
             \/ r.flags = {}
      PROVE  at'[k].flags # {} => at'[k].answer \in {"open", "null"}
  BY <1>1, <1>6 DEF TypeOK
<1>7. ASSUME NEW j \in Attempts, World(j) \/ Timers(j) \/ Closes(j)
      PROVE  at'[k].flags # {} => at'[k].answer \in {"open", "null"}
  <2>0. at[j] \in Run
    BY TypeOfRun
  <2>1. CASE OutputExceedsCap(j)
    <3>1. Killed(at[j], "over").answer = "open"
      BY <2>0, <2>1, KilledRun DEF OutputExceedsCap, CountsOutput, Open
    <3> QED BY <1>6, <2>1, <3>1 DEF OutputExceedsCap
  <2>2. CASE TimeoutFires(j)
    <3> DEFINE q == Killed(at[j], "timedOut")
    <3>1. q \in Run /\ q.answer = "open"
      BY <2>0, <2>2, KilledRun DEF TimeoutFires, RunInv
    <3>2. at' = [at EXCEPT ![j] = [q EXCEPT !.timers = @ \ {"timeout"}]]
      BY <2>2 DEF TimeoutFires, TimedOut
    <3> HIDE DEF q
    <3>3. [q EXCEPT !.timers = @ \ {"timeout"}].answer = "open"
      BY <3>1 DEF Run
    <3> QED BY <1>6, <3>2, <3>3
  <2>3. CASE FallbackFires(j)
    <3> DEFINE r == [CleanedUp(at[j]) EXCEPT !.answer = "null"]
    <3>1. r.answer = "null"
      BY <2>0, SettledRun
    <3>2. at' = [at EXCEPT ![j] = r]
      BY <2>3 DEF FallbackFires, Settle
    <3> HIDE DEF r
    <3> QED BY <1>6, <3>1, <3>2
  <2>4. CASE SpawnFails(j)
    <3> DEFINE q == [at[j] EXCEPT !.proc = "gone"]
               r == [CleanedUp(q) EXCEPT !.answer = "null"]
    <3>1. q \in Run
      BY <2>0 DEF Run
    <3>2. at' = [at EXCEPT ![j] = r]
      BY <2>4 DEF SpawnFails, Settle
    <3> HIDE DEF q
    <3>3. r.answer = "null"
      BY <3>1, SettledRun
    <3> HIDE DEF r
    <3> QED BY <1>6, <3>2, <3>3
  <2>5. CASE Closes(j)
    <3> DEFINE a == ExitCode(at[j])
               r == [CleanedUp(at[j]) EXCEPT !.answer = a]
    <3>1. /\ a \in {"zero", "nonzero", "null"}
          /\ at[j].flags # {} => a = "null"
      BY <2>0 DEF ExitCode, Run
    <3>2. at' = [at EXCEPT ![j] = r]
      BY <2>5 DEF Closes, Settle
    <3> HIDE DEF a
    <3>3. r.answer = a /\ r.flags = at[j].flags
      BY <2>0, <3>1, SettledRun
    <3> HIDE DEF r
    <3> QED BY <1>6, <3>1, <3>2, <3>3
  <2>6. CASE ProcessEnds(j)
    <3>1. PICK code \in {"zero", "nonzero", "none"} :
            at' = [at EXCEPT ![j] = [@ EXCEPT !.proc = "gone", !.code = code]]
      BY <2>6 DEF ProcessEnds
    <3> DEFINE r == [at[j] EXCEPT !.proc = "gone", !.code = code]
    <3>2. r.answer = at[j].answer /\ r.flags = at[j].flags
      BY <2>0 DEF Run
    <3>3. at' = [at EXCEPT ![j] = r]
      BY <3>1
    <3> HIDE DEF r
    <3> QED BY <1>6, <3>2, <3>3
  <2> QED
    BY <1>7, <2>1, <2>2, <2>3, <2>4, <2>5, <2>6 DEF World, Timers
<1> QED BY <1>2, <1>4, <1>5, <1>7 DEF Next, vars

\* A process that was killed is never taken for one that succeeded, for any
\* number of retries and whatever exit code it left behind.
THEOREM KilledNeverSucceeds == Spec => []KilledIsNoSuccess
<1>1. Init => KilledIsNoSuccess
  BY DEF Init, KilledIsNoSuccess, NoRun
<1> QED BY <1>1, KilledStep, Invariance, PTL DEF Spec

=============================================================================
