----------------------------- MODULE RunContract ---------------------------
(***************************************************************************)
(* What a run promises whoever submitted it, without flows, locks, merges  *)
(* or controls: issues are finished one at a time and after what they      *)
(* depend on; only complete work is reviewed; only reviewed work reaches a *)
(* human; a revision takes back an issue together with everything built on *)
(* it; a failed run is retried in the phase that failed, with its work     *)
(* kept; a new plan starts from nothing.                                   *)
(***************************************************************************)
EXTENDS FiniteSets

CONSTANTS Issues, Deps

VARIABLES
  stage, \* where the run is in its life
  done   \* the issues of the current plan that are finished and integrated

contractVars == <<stage, done>>

Stages == {"planning", "work", "review", "human", "accepted", "failed",
           "cancelled"}

\* Nothing in S is built on an issue outside S.
Grounded(S) == \A i \in S : Deps[i] \subseteq S

ContractInit == stage = "planning" /\ done = {}

Publish == stage = "planning" /\ stage' = "work" /\ UNCHANGED done

\* An issue whose sibling failed first may still finish in a failed run.
FinishOne(i) ==
  /\ stage \in {"work", "failed"}
  /\ i \notin done
  /\ Deps[i] \subseteq done
  /\ done' = done \cup {i}
  /\ stage' = IF stage = "work" /\ done' = Issues THEN "review" ELSE stage

Pass == stage = "review" /\ stage' = "human" /\ UNCHANGED done

\* The kept work stands on its own.
Revise(kept) ==
  /\ stage = "review"
  /\ stage' = "work"
  /\ kept # Issues
  /\ Grounded(kept)
  /\ done' = kept

Replan ==
  /\ stage \in {"work", "review", "human"}
  /\ stage' = "planning"
  /\ done' = {}

Accept == stage = "human" /\ stage' = "accepted" /\ UNCHANGED done

Fail ==
  /\ stage \in {"planning", "work", "review"}
  /\ stage' = "failed"
  /\ UNCHANGED done

Retry ==
  /\ stage = "failed"
  /\ \/ done = {} /\ stage' = "planning"
     \/ done # Issues /\ stage' = "work"
     \/ done = Issues /\ stage' = "review"
  /\ UNCHANGED done

Abandon ==
  /\ stage \in {"planning", "work", "review", "human"}
  /\ stage' = "cancelled"
  /\ done' = {}

ContractNext ==
  \/ Publish
  \/ \E i \in Issues : FinishOne(i)
  \/ Pass
  \/ \E kept \in SUBSET done : Revise(kept)
  \/ Replan
  \/ Accept
  \/ Fail
  \/ Retry
  \/ Abandon

ContractSpec == ContractInit /\ [][ContractNext]_contractVars

-----------------------------------------------------------------------------
ContractTypeOK == stage \in Stages /\ done \subseteq Issues

\* Finished work is grounded at every moment, and whatever is under review,
\* before its human or accepted is the whole plan.
ContractHolds ==
  /\ Grounded(done)
  /\ stage \in {"review", "human", "accepted"} => done = Issues

=============================================================================
