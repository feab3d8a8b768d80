---------------------------- MODULE MCTaskflowRun --------------------------
(***************************************************************************)
(* Small instances of TaskflowRun: two or three issues, independent or     *)
(* with dependencies, and the sets of requests and faults the runs use.    *)
(***************************************************************************)
EXTENDS TaskflowRun

CONSTANTS a, b, c

TwoIssues == {a, b}
Independent == [i \in {a, b} |-> {}]

\* b builds on a; c is independent of both.
ThreeIssues == {a, b, c}
ChainAndOne == [i \in {a, b, c} |-> IF i = b THEN {a} ELSE {}]

\* A POST /plan during the clean-up of a rework races it: see README.md.
NoPlanRequest == UserActions \ {"plan"}

\* The actions of users who wait for a run to ask them: no retry (it may
\* overtake the settlement of a wave) and no /execute (it may overtake the
\* permission gate: README.md, Disagreements).
Attended == UserActions \ {"plan", "execute", "retry"}

\* The requests the transition table and the merge marker are a guard of by
\* themselves; rework looks at the table only.
Unguarded == UserActions \ {"rework"}

\* The actions that do not lead to one of the dead ends README.md lists.
Unattended == {"takeover", "release", "cancel", "accept", "execute", "retry",
               "review"}

=============================================================================
