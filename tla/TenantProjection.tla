---------------------------- MODULE TenantProjection ----------------------------
(***************************************************************************)
(* What Governance keeps of tenants that exist: the rows of                *)
(* commissioned_tenants, written by suspend, resume and decommission, by   *)
(* the repair of a projection, and by a commission that binds its tenant;  *)
(* and the drift report that compares them with the owner.                 *)
(*                                                                         *)
(* A tenant has at most two rows: the one of its commission request, bound *)
(* to it once its id is known, and a legacy_existing one.  Of the ledger,  *)
(* this module has the operations of a commission request: the commission  *)
(* and its repairs.  TenantCommission has what comes before their call of  *)
(* the owner.                                                              *)
(***************************************************************************)
EXTENDS Naturals, RequestHandlers, TenantLifecycle

CONSTANTS
  Tenants,
  NoProjection,  \* the absence of a row
  MaxCommands,   \* bound: commissions, repairs, suspends, resumes and decommissions
  MaxAttempts    \* bound: a commission and its repairs

VARIABLES
  rows,        \* commissioned_tenants: the rows of a tenant, by provenance
  commission,  \* the operations of a tenant's commission request, by attempt
  wire,        \* commission attempts whose request is on its way
  platform,    \* the owner's platform_access_state of a tenant
  receipt,     \* the owner's receipts, by attempt
  late,        \* commands whose request nobody waits for any more
  commands,    \* how many commands there have been
  interrupted  \* history: tenants a request about which did not come to its end

ownerRecords == <<platform, receipt>>
projectionVars == <<rows, commission, wire, ownerRecords, late, commands, interrupted, proc>>

Provenances == {"governance_commissioned", "legacy_existing"}

AccessStates == {"active", "suspended", "decommissioned"}

\* CommissionedTenantRecord: its names, its timestamps and its links are left out.
Rows ==
  [state : TenantLifecycleStates, bound : BOOLEAN, observed : AccessStates \cup {"unknown"}]

\* The commission and its repairs: idempotency keys of one commission request.
Attempts == 1..MaxAttempts

\* An operation's status; "ambiguous" is partially_completed at the stage
\* "mutation-call", "partial" at the stage "commission-partial".
AttemptStatuses == {"none", "running", "ambiguous", "partial", "completed", "failed"}

Receipts == {"none", "partially_completed", "completed", "failed"}

ASSUME ProjectionAssumption ==
  NoProjection \notin Rows /\ MaxCommands \in Nat /\ MaxAttempts \in Nat

(***************************************************************************)
(* The calls of the handlers                                               *)
(***************************************************************************)
\* One transition of a row: its check, and then its write.
Check(provenance, to, binds, observed) ==
  [call |-> "check", provenance |-> provenance, to |-> to, binds |-> binds, observed |-> observed]
Write(change) == [change EXCEPT !.call = "write"]
AwaitTransition(to) == [call |-> "await", to |-> to]
AwaitCommission(a) == [call |-> "awaitCommission", attempt |-> a]
\* A ledger transition, of the executor or of a sweep.
Record(a, to) == [call |-> "record", attempt |-> a, to |-> to, sweep |-> FALSE]
Resolve(a, to) == [call |-> "record", attempt |-> a, to |-> to, sweep |-> TRUE]
Find(to) == [call |-> "find", to |-> to]
FindFor(observed) == [call |-> "findFor", observed |-> observed]
InsertLegacy(observed) == [call |-> "insertLegacy", observed |-> observed]
Refresh(provenance, observed) ==
  [call |-> "refresh", provenance |-> provenance, observed |-> observed]
ReadReceipt(a, listed) == [call |-> "receipt", attempt |-> a, listed |-> listed]
Sync(outcome) == [call |-> "sync", outcome |-> outcome]

ProjectionCalls ==
  LET changes == {Check(p, to, b, o) : p \in Provenances, to \in TenantLifecycleStates,
                                       b \in BOOLEAN, o \in AccessStates \cup {"unknown"}}
  IN  changes \cup {Write(c) : c \in changes}
        \cup {AwaitCommission(a) : a \in Attempts} \cup {AwaitTransition(to) : to \in AccessStates}
        \cup {Record(a, to) : a \in Attempts, to \in AttemptStatuses}
        \cup {Resolve(a, to) : a \in Attempts, to \in AttemptStatuses}
        \cup {ReadReceipt(a, listed) : a \in Attempts, listed \in AttemptStatuses}
        \cup {Find(to) : to \in AccessStates} \cup {FindFor(o) : o \in AccessStates}
        \cup {InsertLegacy(o) : o \in AccessStates}
        \cup {Refresh(p, o) : p \in Provenances, o \in AccessStates}
        \cup {Sync(outcome) : outcome \in Receipts}

ProjectionTypeOK ==
  /\ rows \in [Tenants -> [Provenances -> Rows \cup {NoProjection}]]
  /\ commission \in [Tenants -> [Attempts -> AttemptStatuses]]
  /\ wire \subseteq Tenants \X Attempts
  /\ platform \in [Tenants -> AccessStates \cup {"none"}]
  /\ receipt \in [Tenants -> [Attempts -> Receipts]]
  /\ late \subseteq Tenants \X AccessStates
  /\ commands \in 0..MaxCommands
  /\ interrupted \subseteq Tenants
  /\ HandlersOK(Tenants, ProjectionCalls)

\* A tenant exists from before Governance, or is one to be commissioned.
ProjectionInit ==
  /\ rows = [t \in Tenants |-> [p \in Provenances |-> NoProjection]]
  /\ commission = [t \in Tenants |-> [a \in Attempts |-> "none"]]
  /\ wire = {}
  /\ platform \in [Tenants -> {"none", "active"}]
  /\ receipt = [t \in Tenants |-> [a \in Attempts |-> "none"]]
  /\ late = {}
  /\ commands = 0
  /\ interrupted = {}
  /\ proc = [h \in Handlers |-> Idle]

(***************************************************************************)
(* CommissionedTenantsRepository                                           *)
(***************************************************************************)
IsBound(t, provenance) == rows[t][provenance] # NoProjection /\ rows[t][provenance].bound

\* getByTenantId: tenant_id is unique, so this is one row or none.
HasProjection(t) == \E p \in Provenances : IsBound(t, p)

ProvenanceOf(t) == CHOOSE p \in Provenances : IsBound(t, p)

Projection(t) == rows[t][ProvenanceOf(t)]

\* Mutant: the index is not unique.
IndexAllows_Always(t, provenance) == TRUE

\* The unique index on tenant_id.
IndexAllows(t, provenance) == \A p \in Provenances \ {provenance} : ~IsBound(t, p)

\* transitionLifecycleState checks the edge from the state it reads ...
CheckTransition(h) ==
  /\ Calls(h, "check")
  /\ LET change == Argument(h)
     IN  IF MayTransition(rows[About(h)][change.provenance].state, change.to)
           THEN Continue(h, <<Write(change)>> \o Rest(h))
           ELSE Stop(h)
  /\ UNCHANGED <<rows, commission, wire, ownerRecords, late, commands, interrupted>>

\* The SET clauses of the UPDATE.
Changed(row, change) ==
  [state |-> change.to, bound |-> row.bound \/ change.binds,
   observed |-> IF change.observed = "unknown" THEN row.observed ELSE change.observed]

\* ... and updates the row whatever it has become; the index can refuse it.
WriteTransition(h) ==
  /\ Calls(h, "write")
  /\ LET t == About(h)
         change == Argument(h)
         row == Changed(rows[t][change.provenance], change)
     IN  IF row.bound /\ ~IndexAllows(t, change.provenance)
           THEN Stop(h) /\ UNCHANGED rows
           ELSE /\ rows' = [rows EXCEPT ![t][change.provenance] = row]
                /\ Continue(h, Rest(h))
  /\ UNCHANGED <<commission, wire, ownerRecords, late, commands, interrupted>>

\* getOrCreateLegacyExisting: a row that got there first is left as it is.
CreateLegacyExisting(h) ==
  /\ Calls(h, "insertLegacy")
  /\ LET t == About(h)
         seen == Argument(h).observed
     IN  IF IndexAllows(t, "legacy_existing") /\ rows[t]["legacy_existing"] = NoProjection
           THEN rows' = [rows EXCEPT ![t]["legacy_existing"] =
                           [state |-> seen, bound |-> TRUE, observed |-> seen]]
           ELSE UNCHANGED rows
  /\ Continue(h, Rest(h))
  /\ UNCHANGED <<commission, wire, ownerRecords, late, commands, interrupted>>

\* refreshObservedState: the observation alone.
Refreshed(row, seen) == [row EXCEPT !.observed = seen]

RefreshObservedState(h) ==
  /\ Calls(h, "refresh")
  /\ rows' = [rows EXCEPT ![About(h)][Argument(h).provenance] =
                Refreshed(@, Argument(h).observed)]
  /\ Continue(h, Rest(h))
  /\ UNCHANGED <<commission, wire, ownerRecords, late, commands, interrupted>>

(***************************************************************************)
(* Suspend, resume, decommission: requestTenantTransition                  *)
(***************************************************************************)
\* What the owner does when asked; a decommissioned tenant stays one.
OwnerAgrees(t, to) ==
  platform[t] # "none" /\ (platform[t] = "decommissioned" => to = "decommissioned")

RequestTransition(h, t, to) ==
  /\ ~Busy(h)
  /\ platform[t] # "none"
  /\ commands < MaxCommands
  /\ commands' = commands + 1
  /\ Begin(h, t, <<AwaitTransition(to)>>)
  /\ UNCHANGED <<rows, commission, wire, ownerRecords, late, interrupted>>

\* The owner carries the command out and answers with the state that results,
\* or refuses.
TransitionAnswered(h) ==
  /\ Calls(h, "await")
  /\ LET t == About(h)
         to == Argument(h).to
     IN  \/ /\ OwnerAgrees(t, to)
            /\ platform' = [platform EXCEPT ![t] = to]
            /\ Continue(h, <<Find(to)>>)
         \/ Stop(h) /\ UNCHANGED platform
  /\ UNCHANGED <<rows, commission, wire, receipt, late, commands, interrupted>>

\* The request waits no longer; the command may still arrive.
TransitionTimesOut(h) ==
  /\ Calls(h, "await")
  /\ late' = late \cup {<<About(h), Argument(h).to>>}
  /\ Stop(h)
  /\ UNCHANGED <<rows, commission, wire, ownerRecords, commands, interrupted>>

LateCommandArrives(t, to) ==
  /\ <<t, to>> \in late
  /\ late' = late \ {<<t, to>>}
  /\ platform' = [platform EXCEPT ![t] = IF OwnerAgrees(t, to) THEN to ELSE @]
  /\ UNCHANGED <<rows, commission, wire, receipt, commands, interrupted, proc>>

\* projectionTransitionsFor: a decommission takes three transitions.
Transitions(provenance, to) ==
  IF to = "decommissioned"
    THEN <<Check(provenance, "decommission_requested", FALSE, "unknown"),
           Check(provenance, "decommissioning", FALSE, "unknown"),
           Check(provenance, to, FALSE, to)>>
    ELSE <<Check(provenance, to, FALSE, to)>>

\* One that is refused leaves the projection stale and the operation completed.
FindProjection(h) ==
  /\ Calls(h, "find")
  /\ LET t == About(h)
     IN  Continue(h, IF HasProjection(t)
                       THEN Transitions(ProvenanceOf(t), Argument(h).to) ELSE <<>>)
  /\ UNCHANGED <<rows, commission, wire, ownerRecords, late, commands, interrupted>>

(***************************************************************************)
(* The commission of a tenant, from the call of the owner on               *)
(***************************************************************************)
Unbound == [state |-> "provisioning", bound |-> FALSE, observed |-> "unknown"]

SendAttempt(h, t, a) ==
  /\ commands < MaxCommands
  /\ commands' = commands + 1
  /\ commission' = [commission EXCEPT ![t][a] = "running"]
  /\ wire' = wire \cup {<<t, a>>}
  /\ Begin(h, t, <<AwaitCommission(a)>>)

RequestCommission(h, t) ==
  /\ ~Busy(h)
  /\ platform[t] = "none"
  /\ 1 \in Attempts /\ \A a \in Attempts : commission[t][a] = "none"
  /\ rows' = [rows EXCEPT ![t]["governance_commissioned"] = Unbound]
  /\ SendAttempt(h, t, 1)
  /\ UNCHANGED <<ownerRecords, late, interrupted>>

\* The repair route: only of a row still provisioning, and once its tenant is
\* known only if a fresh read of the owner says "active" (ownerRepairability).
RequestRepair(h, t, a) ==
  /\ ~Busy(h)
  /\ a > 1 /\ commission[t][a] = "none" /\ commission[t][a - 1] # "none"
  /\ LET row == rows[t]["governance_commissioned"]
     IN  row.state = "provisioning" /\ (row.bound => platform[t] = "active")
  /\ SendAttempt(h, t, a)
  /\ UNCHANGED <<rows, ownerRecords, late, interrupted>>

\* The owner creates the tenant, or goes on from what an earlier attempt left,
\* whether or not somebody waits.  It may fail, with a receipt; a request it
\* refuses, or that never left, has none.
OwnerCommissions(t, a) ==
  /\ <<t, a>> \in wire
  /\ wire' = wire \ {<<t, a>>}
  /\ \E outcome \in Receipts :
       /\ receipt' = [receipt EXCEPT ![t][a] = outcome]
       /\ IF outcome \in {"completed", "partially_completed"}
            THEN /\ platform[t] \in {"none", "active"}
                 /\ platform' = [platform EXCEPT ![t] = "active"]
            ELSE UNCHANGED platform
  /\ UNCHANGED <<rows, commission, late, commands, interrupted, proc>>

\* The transition an outcome calls for.
Bind(outcome) ==
  IF outcome = "completed"
    THEN Check("governance_commissioned", "active", TRUE, "active")
    ELSE Check("governance_commissioned", "provisioning", TRUE, "unknown")

Fail == Check("governance_commissioned", "failed", FALSE, "unknown")

\* A tenant that was created is bound first, and then the operation leaves
\* "running"; a refusal is recorded first, and then fails the projection.
CommissionAnswered(h) ==
  /\ Calls(h, "awaitCommission")
  /\ LET t == About(h)
         a == Argument(h).attempt
         outcome == receipt[t][a]
     IN  /\ <<t, a>> \notin wire
         /\ Continue(h,
              CASE outcome = "completed" -> <<Bind(outcome), Record(a, "completed")>>
                [] outcome = "partially_completed" -> <<Bind(outcome), Record(a, "partial")>>
                [] OTHER -> <<Record(a, "failed"), Fail>>)
  /\ UNCHANGED <<rows, commission, wire, ownerRecords, late, commands, interrupted>>

CommissionTimesOut(h) ==
  /\ Calls(h, "awaitCommission")
  /\ Continue(h, <<Record(Argument(h).attempt, "ambiguous")>>)
  /\ UNCHANGED <<rows, commission, wire, ownerRecords, late, commands, interrupted>>

\* The edges of the operation lifecycle that can be asked for here.
MayRecord(from, to) ==
  \/ from = "running" /\ to \in {"ambiguous", "partial", "completed", "failed"}
  \/ from \in {"ambiguous", "partial"} /\ to \in {"completed", "failed"}

\* transitionOperation, which throws when another request has settled the operation.
RecordAttempt(h) ==
  /\ Calls(h, "record")
  /\ LET t == About(h)
         a == Argument(h).attempt
         to == Argument(h).to
     IN  IF MayRecord(commission[t][a], to)
           THEN /\ commission' = [commission EXCEPT ![t][a] = to]
                /\ Continue(h, Rest(h))
           ELSE Stop(h) /\ UNCHANGED commission
  /\ UNCHANGED <<rows, wire, ownerRecords, late, commands, interrupted>>

(***************************************************************************)
(* Reconciliation                                                          *)
(***************************************************************************)
\* reconcileTenant, its repairProjection: a fresh read of the owner ...
ReconcileTenant(h, t) ==
  /\ ~Busy(h)
  /\ platform[t] # "none"
  /\ Begin(h, t, <<FindFor(platform[t])>>)
  /\ UNCHANGED <<rows, commission, wire, ownerRecords, late, commands, interrupted>>

\* Mutant: the observation is compared with the desired state.
NeedsRefresh_Desired(row, seen) == row.state \in AccessStates /\ row.state # seen

\* EXPECTED_OBSERVED_STATE has an entry for these states only.
NeedsRefresh(row, seen) == row.state \in AccessStates /\ row.observed # seen

\* ... and what it calls for.  (The operation that records it is under way
\* between this and the write.)
RepairProjection(h) ==
  /\ Calls(h, "findFor")
  /\ LET t == About(h)
         seen == Argument(h).observed
     IN  Continue(h,
           CASE ~HasProjection(t) -> <<InsertLegacy(seen)>>
             [] HasProjection(t) /\ NeedsRefresh(Projection(t), seen) ->
                  <<Refresh(ProvenanceOf(t), seen)>>
             [] OTHER -> <<>>)
  /\ UNCHANGED <<rows, commission, wire, ownerRecords, late, commands, interrupted>>

\* Whether the request that made an attempt has not recorded its outcome.
Driven(t, a) ==
  \E h \in Handlers :
    /\ Busy(h) /\ About(h) = t
    /\ \E i \in DOMAIN proc[h].todo :
         \/ proc[h].todo[i] = AwaitCommission(a)
         \/ \E to \in AttemptStatuses : proc[h].todo[i] = Record(a, to)

\* reconcileCommissionRequest: an attempt stranded while running, or ambiguous.
RecheckCommission(h, t, a) ==
  /\ ~Busy(h)
  /\ \/ commission[t][a] = "ambiguous"
     \/ commission[t][a] = "running" /\ ~Driven(t, a)
  /\ Begin(h, t, <<ReadReceipt(a, commission[t][a])>>)
  /\ UNCHANGED <<rows, commission, wire, ownerRecords, late, commands, interrupted>>

\* resolveStuckOperation: the ledger first, then the projection; for a partial
\* outcome the other way round, and the ledger only if it was listed as running.
ResolveByReceipt(h) ==
  /\ Calls(h, "receipt")
  /\ LET a == Argument(h).attempt
         outcome == receipt[About(h)][a]
     IN  Continue(h,
           CASE outcome = "completed" -> <<Resolve(a, "completed"), Sync(outcome)>>
             [] outcome = "partially_completed" ->
                  <<Sync(outcome)>> \o
                    (IF Argument(h).listed = "running" THEN <<Resolve(a, "partial")>> ELSE <<>>)
             [] OTHER -> <<Resolve(a, "failed"), Sync(outcome)>>)
  /\ UNCHANGED <<rows, commission, wire, ownerRecords, late, commands, interrupted>>

\* What an outcome read from a receipt does to the row of the commission
\* request; it observes nothing, and fails no row whose tenant is known.
Synced(row, outcome) ==
  CASE row.state # "provisioning" -> <<>>
    [] outcome = "completed" \/ (outcome = "partially_completed" /\ ~row.bound) ->
         <<[Bind(outcome) EXCEPT !.observed = "unknown"]>>
    [] outcome \in {"failed", "none"} /\ ~row.bound -> <<Fail>>
    [] OTHER -> <<>>

SyncCommissionProjection(h) ==
  /\ Calls(h, "sync")
  /\ Continue(h, Synced(rows[About(h)]["governance_commissioned"], Argument(h).outcome) \o Rest(h))
  /\ UNCHANGED <<rows, commission, wire, ownerRecords, late, commands, interrupted>>

\* A crash, or a database call that fails.
Interrupt(h) ==
  /\ Busy(h)
  /\ interrupted' = interrupted \cup {About(h)}
  /\ Stop(h)
  /\ UNCHANGED <<rows, commission, wire, ownerRecords, late, commands>>

(***************************************************************************)
(* The drift report                                                        *)
(***************************************************************************)
\* Mutant: a provisioning row is never drift.
IsLifecycleDrift_Transitional(state, observed) ==
  state \in AccessStates /\ observed # state

IsLifecycleDrift(state, observed) ==
  \/ state \in AccessStates /\ observed # state
  \/ state = "provisioning" /\ observed # "active"

\* What listDrift says of a tenant's projection.
Drift(t) ==
  CASE platform[t] = "none" -> "none"
    [] platform[t] # "none" /\ ~HasProjection(t) -> "projectionMissing"
    [] HasProjection(t) /\ IsLifecycleDrift(Projection(t).state, platform[t]) ->
         "lifecycleMismatch"
    [] OTHER -> "none"

(***************************************************************************)
(* Specification                                                           *)
(***************************************************************************)
\* Suspend, resume and decommission, for whichever state.
TransitionRoutes(h, t) == \E to \in AccessStates : RequestTransition(h, t, to)

RecheckRoutes(h, t) ==
  ReconcileTenant(h, t) \/ \E a \in Attempts : RecheckCommission(h, t, a)

CommissionRoutes(h, t) ==
  RequestCommission(h, t) \/ \E a \in Attempts : RequestRepair(h, t, a)

ProjectionStep(h) ==
  \/ CheckTransition(h) \/ WriteTransition(h) \/ CreateLegacyExisting(h)
  \/ RefreshObservedState(h) \/ TransitionAnswered(h) \/ TransitionTimesOut(h)
  \/ FindProjection(h) \/ CommissionAnswered(h) \/ CommissionTimesOut(h) \/ RecordAttempt(h)
  \/ RepairProjection(h) \/ ResolveByReceipt(h) \/ SyncCommissionProjection(h)

ProjectionNext ==
  \/ \E h \in Handlers :
       \/ ProjectionStep(h) \/ Interrupt(h)
       \/ \E t \in Tenants :
            CommissionRoutes(h, t) \/ TransitionRoutes(h, t) \/ RecheckRoutes(h, t)
  \/ \E t \in Tenants :
       (\E a \in Attempts : OwnerCommissions(t, a)) \/ (\E to \in AccessStates : LateCommandArrives(t, to))

ProjectionSpec == ProjectionInit /\ [][ProjectionNext]_projectionVars

\* Requests go on, and late commands arrive; for every tenant somebody asks for
\* a recheck again and again, and crashes do not stop every recheck.
ProjectionFairness ==
  /\ \A h \in Handlers :
       /\ WF_projectionVars(ProjectionStep(h))
       /\ SF_projectionVars(RepairProjection(h))
       /\ SF_projectionVars(RefreshObservedState(h))
  /\ \A t \in Tenants :
       /\ SF_projectionVars(\E h \in Handlers : ReconcileTenant(h, t))
       /\ \A to \in AccessStates : WF_projectionVars(LateCommandArrives(t, to))

LiveProjectionSpec == ProjectionSpec /\ ProjectionFairness

(***************************************************************************)
(* Properties                                                              *)
(***************************************************************************)
\* However the writers of a tenant's rows race, one row at most has its id, and
\* an owner who is final is final in the cache: nothing observed it
\* decommissioned before it was (migration 0005, requestTenantTransition).
ObservedDecommissionIsTrue ==
  \A t \in Tenants :
    /\ \A p, q \in Provenances : IsBound(t, p) /\ IsBound(t, q) => p = q
    /\ HasProjection(t) /\ Projection(t).observed = "decommissioned" =>
         platform[t] = "decommissioned"

\* Left alone, a disagreement between a projection and the owner is on the
\* drift report, however commands, commissions and repairs have raced
\* (isLifecycleDrift, "Without it the M4 stranded projection is invisible"): what
\* the report passes over is a request that was interrupted, and a row that was
\* failed after an attempt of its commission was recorded as failed.
DisagreementIsListed ==
  \A t \in Tenants :
    HasProjection(t) /\ ~AtWork(t) /\ t \notin interrupted
      /\ Projection(t).state # platform[t]
      /\ ~(Projection(t).state = "provisioning" /\ platform[t] = "active")
      => \/ Drift(t) = "lifecycleMismatch"
         \/ /\ Projection(t).state = "failed"
            /\ \E a \in Attempts : commission[t][a] = "failed"

\* Once commands stop, rechecks bring the observation of a settled row to what
\* the owner has, whatever crashed, timed out or was overwritten before
\* (repairProjection, refreshObservedState).
ObservationCatchesUp ==
  \A t \in Tenants :
    <>[](HasProjection(t) /\ Projection(t).state \in AccessStates
           => Projection(t).observed = platform[t])

\* "This sweeps that commission request's own stuck operations from the owner
\* receipts ..., settling the projection as it goes": a commission whose
\* operation it has completed has its row bound (reconcileCommissionRequest).
SettledCommissionIsBound ==
  \A t \in Tenants :
    (\E a \in Attempts : commission[t][a] = "completed") /\ ~AtWork(t) /\ t \notin interrupted =>
      IsBound(t, "governance_commissioned")
===============================================================================
