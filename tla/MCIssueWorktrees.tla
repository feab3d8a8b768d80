-------------------------- MODULE MCIssueWorktrees --------------------------
\* Instances of IssueWorktrees for TLC.
EXTENDS IssueWorktrees, TLC

CONSTANTS r1, r2, r3, r4, a, b, c, d, e, f, g

\* Run r1 plans a and b, which builds on a, and then c; r2 and r3 plan one
\* issue each; r4 plans two that are executed side by side.
ThePlans == r1 :> <<{a, b}, {c}>> @@ r2 :> <<{d}>> @@ r3 :> <<{e}>> @@ r4 :> <<{f, g}>>
TheDeps == [i \in {a, b, c, d, e, f, g} |-> IF i = b THEN {a} ELSE {}]
TheRounds == [i \in {a, b, c, d, e, f, g} |-> IF i \in {a, b, d} THEN 2 ELSE 1]

\* Either r1 or r4 alone is executed, or r2 and r3 at the same time.
Worlds == {{r1}, {r2, r3}, {r4}}
=============================================================================
