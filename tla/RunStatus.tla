----------------------------- MODULE RunStatus -----------------------------
(***************************************************************************)
(* The run lifecycle table of src/state.ts: the twelve statuses, the legal *)
(* transitions, and the two predicates every writer of a run consults.     *)
(***************************************************************************)

Status == {"RECEIVED", "PLANNING", "READY", "EXECUTING",
           "INTEGRATION_REVIEW", "WAITING_PERMISSION", "WAITING_DECISION",
           "PAUSED", "AWAITING_HUMAN", "ACCEPTED", "FAILED", "CANCELLED"}

\* FAILED is not terminal: retry leaves it.
Terminal == {"ACCEPTED", "CANCELLED"}

\* RUN_TRANSITIONS: the statuses each status may move to.
Successors(from) ==
  CASE from = "RECEIVED" -> {"PLANNING", "CANCELLED", "FAILED"}
    [] from = "PLANNING" -> {"READY", "CANCELLED", "FAILED"}
    [] from = "READY" -> {"EXECUTING", "WAITING_PERMISSION", "CANCELLED",
                          "FAILED"}
    [] from = "EXECUTING" ->
         {"PLANNING", "INTEGRATION_REVIEW", "WAITING_PERMISSION",
          "WAITING_DECISION", "PAUSED", "FAILED", "CANCELLED"}
    [] from = "INTEGRATION_REVIEW" ->
         {"PLANNING", "AWAITING_HUMAN", "EXECUTING", "WAITING_DECISION",
          "FAILED", "CANCELLED"}
    [] from = "WAITING_PERMISSION" -> {"EXECUTING", "CANCELLED", "FAILED"}
    [] from = "WAITING_DECISION" ->
         {"PLANNING", "READY", "EXECUTING", "INTEGRATION_REVIEW",
          "CANCELLED", "FAILED"}
    [] from = "PAUSED" -> {"EXECUTING", "WAITING_PERMISSION", "CANCELLED",
                           "FAILED"}
    [] from = "AWAITING_HUMAN" -> {"ACCEPTED", "PLANNING", "CANCELLED"}
    [] from = "FAILED" -> {"PLANNING", "EXECUTING", "INTEGRATION_REVIEW"}
    [] from \in Terminal -> {}

CanTransition(from, to) == to \in Successors(from)

=============================================================================
