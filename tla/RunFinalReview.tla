--------------------------- MODULE RunFinalReview --------------------------
(***************************************************************************)
(* startReview() and runReviewBody(): the FINAL review of the integrated   *)
(* work, which ends in AWAITING_HUMAN, or sends issues back for rework, or *)
(* asks for a new plan, or, at the review-cycle limit, for a decision.     *)
(***************************************************************************)
EXTENDS RunRecord

Verdicts == {"PASS", "FIX", "REPLAN"}

FinRec == [step : {"idle", "reviewing", "deciding"},
           verdict : Verdicts \cup {"none"},
           rework : SUBSET Issues, aborted : BOOLEAN]

\* Mutant: only the issues the reviewer named are reworked.
ReworkClosure_Named(keys) == IF keys = {} THEN Issues ELSE keys

\* reworkClosure: the named issues, or all of them when none is named, and
\* every issue that depends on one of them.
ReworkClosure(keys) ==
  LET selected == IF keys = {} THEN Issues ELSE keys
      closed(S) == \A i \in Issues : Deps[i] \cap S # {} => i \in S
  IN  {i \in Issues : \A S \in SUBSET Issues :
                        selected \subseteq S /\ closed(S) => i \in S}

\* resetReworkExecutions: a reworked issue starts over without its worktree.
Reworked(r, keys) ==
  LET reset(i) == i \in keys /\ r.exec[i] \in {"done", "failed"}
  IN  [r EXCEPT
         !.exec = [i \in Issues |-> IF reset(i) THEN "pending" ELSE @[i]],
         !.worktree = [i \in Issues |-> ~reset(i) /\ @[i]]]

\* POST /review.  A request that finds a flow in flight joins it.
ReviewRequest ==
  /\ "review" \in UserCommands
  /\ run.status = "INTEGRATION_REVIEW"
  /\ fin.step = "idle"
  /\ fin' = Reviewing
  /\ UNCHANGED <<run, planFlow, cleanup, flow, ensure, pc, aborted, waveOk,
                 lane, branch, approved>>

\* The reviewer's answer counts only if the review was not aborted and the
\* run is still in INTEGRATION_REVIEW.
ReviewerReturns(verdict, keys) ==
  /\ fin.step = "reviewing"
  /\ fin' = IF fin.aborted \/ run.status # "INTEGRATION_REVIEW"
            THEN IdleReview
            ELSE [fin EXCEPT !.step = "deciding", !.verdict = verdict,
                    !.rework = IF verdict = "PASS" THEN {}
                               ELSE ReworkClosure(keys)]
  /\ UNCHANGED <<run, planFlow, cleanup, flow, ensure, pc, aborted, waveOk,
                 lane, branch, approved>>

\* Mutant: a failed review fails the run without consulting the table.
ReviewFailed_Anyway(r) == Moved(r, "FAILED")

\* The catch of runReviewBody: fail the run where the table allows it.
ReviewFailed(r) ==
  IF fin.aborted \/ ~CanTransition(r.status, "FAILED") THEN r
  ELSE Moved(r, "FAILED")

ReviewerFails ==
  /\ "reviewer" \in Faults
  /\ fin.step = "reviewing"
  /\ fin' = IdleReview
  /\ run' = ReviewFailed(run)
  /\ UNCHANGED <<planFlow, cleanup, flow, ensure, pc, aborted, waveOk, lane,
                 branch, approved>>

\* Mutant: at the cycle limit the run is handed to its human as it is.
Target_ToHuman(verdict) ==
  IF verdict = "PASS" \/ LimitReached THEN "AWAITING_HUMAN"
  ELSE IF verdict = "REPLAN" THEN "PLANNING" ELSE "EXECUTING"

\* Where the run goes: a revision past the limit needs a human decision.
Target(verdict) ==
  IF verdict = "PASS" THEN "AWAITING_HUMAN"
  ELSE IF LimitReached THEN "WAITING_DECISION"
  ELSE IF verdict = "REPLAN" THEN "PLANNING" ELSE "EXECUTING"

FinalReview(verdict) ==
  [stage |-> "FINAL", next |-> IF verdict = "PASS" THEN "CONTINUE" ELSE verdict]

\* Mutant: the review-cycle limit is not counted against a FINAL revision.
Decided_Uncounted ==
  LET to == Target(fin.verdict)
      moved == [Moved(run, to) EXCEPT !.review = FinalReview(fin.verdict)]
  IN  CASE to = "AWAITING_HUMAN" -> moved
        [] to = "PLANNING" -> [moved EXCEPT !.planDone = FALSE,
                                            !.replanEntry = TRUE]
        [] OTHER -> Reworked(moved, fin.rework)

\* The record after the decision write.  A replan keeps the executions until
\* the new plan replaces them.
Decided ==
  LET to == Target(fin.verdict)
      moved == [Moved(run, to) EXCEPT !.review = FinalReview(fin.verdict)]
  IN  CASE to = "AWAITING_HUMAN" -> moved
        [] to = "PLANNING" -> [moved EXCEPT !.cycles = CountCycle,
                                 !.planDone = FALSE, !.replanEntry = TRUE]
        [] OTHER -> Reworked([moved EXCEPT !.cycles = CountCycle], fin.rework)

\* The decision write, which the table may refuse by now, and what follows
\* it: a FIX restarts the wave loop, a REPLAN schedules the clean-up.
ReviewDecided ==
  /\ fin.step = "deciding"
  /\ fin' = IdleReview
  /\ LET to == Target(fin.verdict)
         legal == CanTransition(run.status, to)
     IN  /\ run' = IF legal THEN Decided ELSE ReviewFailed(run)
         /\ ensure' = (ensure \/ (legal /\ to = "EXECUTING"))
         /\ IF legal /\ to = "PLANNING"
            THEN cleanup' = "replan" /\ aborted' = ExecutorsAborted
            ELSE UNCHANGED <<cleanup, aborted>>
  /\ UNCHANGED <<planFlow, flow, pc, waveOk, lane, branch, approved>>

ReviewSystem ==
  \/ \E v \in Verdicts, keys \in SUBSET Issues : ReviewerReturns(v, keys)
  \/ ReviewerFails
  \/ ReviewDecided

=============================================================================
