---------------------------- MODULE TenantLifecycle ----------------------------
(***************************************************************************)
(* The desired lifecycle of a tenant (operations/tenantLifecycle.ts): the  *)
(* states of its projection row in governance.commissioned_tenants and the *)
(* edges between them.                                                     *)
(***************************************************************************)

TenantLifecycleStates ==
  {"draft", "requested", "approved", "provisioning", "active", "suspended",
   "decommission_requested", "decommissioning", "decommissioned", "failed"}

TenantTransitions ==
  {<<"draft", "requested">>, <<"requested", "approved">>,
   <<"approved", "provisioning">>, <<"provisioning", "active">>,
   <<"active", "suspended">>, <<"suspended", "active">>,
   <<"active", "decommission_requested">>, <<"suspended", "decommission_requested">>,
   <<"decommission_requested", "decommissioning">>,
   <<"decommissioning", "decommissioned">>}
  \cup {<<state, "failed">> : state \in TenantLifecycleStates \ {"decommissioned", "failed"}}

IsValidTenantLifecycleTransition(from, to) == <<from, to>> \in TenantTransitions

\* transitionLifecycleState also lets a row be written in the state it has.
MayTransition(from, to) == from = to \/ IsValidTenantLifecycleTransition(from, to)
===============================================================================
