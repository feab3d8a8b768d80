--------------------------- MODULE MCServiceLocks ---------------------------
(***************************************************************************)
(* Two runs of one repository: two claims and an outside report of the     *)
(* first run, two claims of the second, over two executor slots.           *)
(***************************************************************************)
EXTENDS ServiceLocks

CONSTANTS c1, c2, c3, c4, report, r1, r2, repo

FourClaims == {c1, c2, c3, c4}
OneReport == {report}
TwoRuns == [c \in {c1, c2, c3, c4, report} |->
              IF c \in {c3, c4} THEN r2 ELSE r1]
OneRepo == [r \in {r1, r2} |-> repo]

=============================================================================
