-------------------------- MODULE MCTeamBoardSync --------------------------
(* Two issues, the second of which depends on the first. *)
EXTENDS TeamBoardSync

CONSTANTS k1, k2

MCIssues == {k1, k2}
MCDeps == [k \in MCIssues |-> IF k = k2 THEN {k1} ELSE {}]

=============================================================================
