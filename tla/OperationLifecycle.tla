-------------------------- MODULE OperationLifecycle --------------------------
(***************************************************************************)
(* The durable operation lifecycle of the management ledger                *)
(* (management/operations/lifecycle.ts): the statuses an operation can     *)
(* have, the forward edges between them, and the coarser status its        *)
(* idempotency key carries meanwhile.                                      *)
(***************************************************************************)

OperationStatuses ==
  {"submitted", "accepted", "running", "partially_completed",
   "failed", "compensating", "completed"}

TerminalStatuses == {"completed", "failed"}

AllowedTransitions ==
  {<<"submitted", "accepted">>, <<"submitted", "failed">>,
   <<"accepted", "running">>, <<"accepted", "failed">>,
   <<"running", "partially_completed">>, <<"running", "completed">>,
   <<"running", "failed">>,
   <<"partially_completed", "compensating">>,
   <<"partially_completed", "completed">>, <<"partially_completed", "failed">>,
   <<"compensating", "completed">>, <<"compensating", "failed">>}

IsValidTransition(from, to) == <<from, to>> \in AllowedTransitions

KeyStatuses == {"in_progress", "completed", "failed"}

\* A replay is safe from the moment an operation leaves the in-flight set.
ToIdempotencyKeyStatus(status) ==
  CASE status = "failed" -> "failed"
    [] status \in {"completed", "partially_completed"} -> "completed"
    [] OTHER -> "in_progress"
===============================================================================
