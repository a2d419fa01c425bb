--------------------------- MODULE TenantCommission ---------------------------
(***************************************************************************)
(* The commissioning of one tenant: the request, its repairs, and the      *)
(* reconciliation of what they left open, writing one projection row       *)
(* (requestTenantCommission, the repair route, syncCommissionProjection,   *)
(* CommissionedTenantsRepository).                                         *)
(*                                                                         *)
(* A process is a request at work.  It works down "todo", the calls its    *)
(* handler has still to make; every call is an action of its own, and the  *)
(* first that throws ends the request.  A transition of the projection is  *)
(* two actions, its check and its unguarded UPDATE.  A ledger transition   *)
(* is one: GovernedCommand has its races, and the loser ends its request.  *)
(***************************************************************************)
EXTENDS Sequences, OperationLifecycle, TenantLifecycle

CONSTANTS
  Keys,       \* idempotency keys: the commission and its repairs
  Executors,  \* commission and repair requests
  Sweepers,   \* reconciliation requests
  NoRow       \* the absence of a row

VARIABLES
  operations,  \* the ledger: status, and the stage of a partial failure
  projection,  \* the row of the commission request: state, whether tenant_id is set
  tenant,      \* whether the owner has created the tenant
  receipts,    \* the owner's receipts
  proc         \* requests at work

vars == <<operations, projection, tenant, receipts, proc>>

\* The stages reconciliation tells apart; every other one is "none".
Stages == {"none", "mutation-call", "commission-partial"}

OperationRows == [status : OperationStatuses, stage : Stages]

Projections == [state : TenantLifecycleStates, hasTenant : BOOLEAN]

ASSUME CommissionAssumption ==
  /\ NoRow \notin OperationRows \cup Projections
  /\ Executors \cap Sweepers = {}

ReceiptStatuses == {"none", "executing", "partially_completed", "completed", "failed"}

\* The calls of a handler.  "listed" is the status reconciliation listed the
\* operation with.
Create == [call |-> "create"]
Ledger(to, stage) == [call |-> "ledger", to |-> to, stage |-> stage]
Project(to, binds) == [call |-> "project", to |-> to, binds |-> binds]
Dispatch == [call |-> "dispatch"]
Await == [call |-> "await"]
ReadReceipt(listed) == [call |-> "receipt", listed |-> listed]
Sync(outcome) == [call |-> "sync", outcome |-> outcome]

HandlerCalls ==
  {Create, Dispatch, Await}
    \cup {Ledger(to, stage) : to \in OperationStatuses, stage \in Stages}
    \cup {Project(to, binds) : to \in TenantLifecycleStates, binds \in BOOLEAN}
    \cup {ReadReceipt(listed) : listed \in OperationStatuses}
    \cup {Sync(outcome) : outcome \in ReceiptStatuses}

Idle == [todo |-> <<>>]

\* "checked" is whether the transition of the projection at the head of todo
\* has passed its check.
IsWork(w) ==
  /\ w.key \in Keys
  /\ w.checked \in BOOLEAN
  /\ w.todo # <<>>
  /\ \A i \in DOMAIN w.todo : w.todo[i] \in HandlerCalls

TypeOK ==
  /\ operations \in [Keys -> OperationRows \cup {NoRow}]
  /\ projection \in Projections \cup {NoRow}
  /\ tenant \in BOOLEAN
  /\ receipts \in [Keys -> ReceiptStatuses]
  /\ DOMAIN proc = Executors \cup Sweepers
  /\ \A p \in DOMAIN proc : proc[p] = Idle \/ IsWork(proc[p])

Init ==
  /\ operations = [k \in Keys |-> NoRow]
  /\ projection = NoRow
  /\ tenant = FALSE
  /\ receipts = [k \in Keys |-> "none"]
  /\ proc = [p \in Executors \cup Sweepers |-> Idle]

Busy(p) == proc[p] # Idle

Calls(p, call) == Busy(p) /\ Head(proc[p].todo).call = call

Argument(p) == Head(proc[p].todo)

Begin(p, k, todo) == proc' = [proc EXCEPT ![p] = [key |-> k, todo |-> todo, checked |-> FALSE]]

\* The handler goes on with these calls; it is done when none is left.
Continue(p, todo) ==
  IF todo = <<>> THEN proc' = [proc EXCEPT ![p] = Idle] ELSE Begin(p, proc[p].key, todo)

Rest(p) == Tail(proc[p].todo)

Stop(p) == proc' = [proc EXCEPT ![p] = Idle]

(***************************************************************************)
(* The handlers of the two routes                                          *)
(***************************************************************************)
Attempt == <<Ledger("accepted", "none"), Ledger("running", "none"), Dispatch, Await>>

Submit(k) == operations' = [operations EXCEPT ![k] = [status |-> "submitted", stage |-> "none"]]

\* The commission request arrives; a second one under its key is a replay and
\* does nothing, and one under another key is another commission.
Commission(e, k) ==
  /\ ~Busy(e)
  /\ \A l \in Keys : operations[l] = NoRow
  /\ Submit(k)
  /\ Begin(e, k,
       <<Create, Project("approved", FALSE), Project("provisioning", FALSE)>> \o Attempt)
  /\ UNCHANGED <<projection, tenant, receipts>>

\* The repair route: a new key for a projection still provisioning.
Repair(e, k) ==
  /\ ~Busy(e)
  /\ projection # NoRow /\ projection.state = "provisioning"
  /\ operations[k] = NoRow
  /\ Submit(k)
  /\ Begin(e, k, Attempt)
  /\ UNCHANGED <<projection, tenant, receipts>>

CreateProjection(e) ==
  /\ Calls(e, "create")
  /\ projection' = [state |-> "requested", hasTenant |-> FALSE]
  /\ Continue(e, Rest(e))
  /\ UNCHANGED <<operations, tenant, receipts>>

\* transitionOperation: an edge that does not exist throws.
WriteLedger(p) ==
  /\ Calls(p, "ledger")
  /\ LET k == proc[p].key
         change == Argument(p)
     IN  IF IsValidTransition(operations[k].status, change.to)
           THEN /\ operations' = [operations EXCEPT
                     ![k] = [status |-> change.to,
                             stage |-> IF change.stage = "none" THEN @.stage ELSE change.stage]]
                /\ Continue(p, Rest(p))
           ELSE Stop(p) /\ UNCHANGED operations
  /\ UNCHANGED <<projection, tenant, receipts>>

\* transitionLifecycleState checks the edge from the state it reads ...
CheckProjection(p) ==
  /\ Calls(p, "project")
  /\ ~proc[p].checked
  /\ IF MayTransition(projection.state, Argument(p).to)
       THEN proc' = [proc EXCEPT ![p].checked = TRUE]
       ELSE Stop(p)
  /\ UNCHANGED <<operations, projection, tenant, receipts>>

\* ... and writes the new one, whatever the row has become.
WriteProjection(p) ==
  /\ Calls(p, "project")
  /\ proc[p].checked
  /\ projection' = [state |-> Argument(p).to,
                    hasTenant |-> projection.hasTenant \/ Argument(p).binds]
  /\ Continue(p, Rest(p))
  /\ UNCHANGED <<operations, tenant, receipts>>

Fail == <<Ledger("failed", "none"), Project("failed", FALSE)>>

Send(e) ==
  /\ Calls(e, "dispatch")
  /\ Continue(e, Rest(e)) \/ Continue(e, Fail)
  /\ UNCHANGED <<operations, projection, tenant, receipts>>

\* Mutant: the owner's word that it has begun is taken for its answer.
ReceiveReply_Hopeful(e) ==
  /\ Calls(e, "await")
  /\ IF receipts[proc[e].key] \in {"executing", "completed"}
       THEN Continue(e, <<Project("active", TRUE), Ledger("completed", "none")>>)
       ELSE Continue(e, Fail)
  /\ UNCHANGED <<operations, projection, tenant, receipts>>

\* The owner's answer; "none" is the receipt of a request it refused.
ReceiveReply(e) ==
  /\ Calls(e, "await")
  /\ LET receipt == receipts[proc[e].key]
     IN  \/ /\ receipt = "completed"
            /\ Continue(e, <<Project("active", TRUE), Ledger("completed", "none")>>)
         \/ /\ receipt = "partially_completed"
            /\ Continue(e, <<Project("provisioning", TRUE),
                             Ledger("partially_completed", "commission-partial")>>)
         \/ receipt \in {"none", "failed"} /\ Continue(e, Fail)
  /\ UNCHANGED <<operations, projection, tenant, receipts>>

\* Mutant: a timeout is taken for a failure.
CallTimesOut_Fails(e) ==
  /\ Calls(e, "await")
  /\ Continue(e, Fail)
  /\ UNCHANGED <<operations, projection, tenant, receipts>>

\* Mutant: a timeout leaves the operation open and gives the projection up.
CallTimesOut_GivesUp(e) ==
  /\ Calls(e, "await")
  /\ Continue(e, <<Ledger("partially_completed", "mutation-call"), Project("failed", FALSE)>>)
  /\ UNCHANGED <<operations, projection, tenant, receipts>>

CallTimesOut(e) ==
  /\ Calls(e, "await")
  /\ Continue(e, <<Ledger("partially_completed", "mutation-call")>>)
  /\ UNCHANGED <<operations, projection, tenant, receipts>>

\* A crash, or a database call that fails, anywhere in a handler.
Abandon(p) ==
  /\ Busy(p)
  /\ Stop(p)
  /\ UNCHANGED <<operations, projection, tenant, receipts>>

(***************************************************************************)
(* The owner: an accepted command leaves a receipt, and an attempt resumes *)
(* what an earlier one of the same commission request has created.         *)
(***************************************************************************)
OwnerAccepts(k) ==
  /\ receipts[k] = "none"
  /\ \E e \in Executors : Calls(e, "await") /\ proc[e].key = k
  /\ receipts' = [receipts EXCEPT ![k] = "executing"]
  /\ UNCHANGED <<operations, projection, tenant, proc>>

OwnerFinishes(k) ==
  /\ receipts[k] = "executing"
  /\ \E outcome \in {"completed", "partially_completed", "failed"} :
       /\ receipts' = [receipts EXCEPT ![k] = outcome]
       /\ tenant' = (tenant \/ outcome # "failed")
  /\ UNCHANGED <<operations, projection, proc>>

(***************************************************************************)
(* Reconciliation: reconcileCommissionRequest, and the commission          *)
(* operations of reconcileTenant                                           *)
(***************************************************************************)
\* An operation with no handler at work on it is stranded in the end.
Driven(k) == \E e \in Executors : Busy(e) /\ proc[e].key = k

\* listStuckOperationCandidates, and resolveStuckOperation up to the receipt.
List(s, k) ==
  /\ ~Busy(s)
  /\ operations[k] # NoRow
  /\ LET listed == operations[k].status
     IN  \/ /\ listed \in {"submitted", "accepted"}
            /\ ~Driven(k)
            /\ Begin(s, k, <<Ledger("failed", "none"), Sync("none")>>)
         \/ /\ \/ listed = "running" /\ ~Driven(k)
               \/ listed = "partially_completed" /\ operations[k].stage = "mutation-call"
            /\ Begin(s, k, <<ReadReceipt(listed)>>)
  /\ UNCHANGED <<operations, projection, tenant, receipts>>

\* What the receipt settles; one that cannot be read settles nothing.
ResolveByReceipt(s) ==
  /\ Calls(s, "receipt")
  /\ LET receipt == receipts[proc[s].key]
         partial == <<Ledger("partially_completed", "commission-partial")>>
     IN  \/ receipt = "executing" /\ Stop(s)
         \/ /\ receipt = "completed"
            /\ Continue(s, <<Ledger("completed", "none"), Sync(receipt)>>)
         \/ /\ receipt \in {"none", "failed"}
            /\ Continue(s, <<Ledger("failed", "none"), Sync(receipt)>>)
         \/ /\ receipt = "partially_completed"
            /\ Continue(s, <<Sync(receipt)>>
                 \o IF Argument(s).listed = "running" THEN partial ELSE <<>>)
  /\ UNCHANGED <<operations, projection, tenant, receipts>>

\* Mutant: a partial commission is shown as active.
SyncTransition_PartialIsActive(outcome) ==
  IF projection = NoRow \/ projection.state # "provisioning"
    THEN <<>>
    ELSE IF outcome \in {"completed", "partially_completed"}
           THEN <<Project("active", TRUE)>>
           ELSE IF projection.hasTenant THEN <<>> ELSE <<Project("failed", FALSE)>>

\* The transition of the projection that the outcome of an operation calls for.
SyncTransition(outcome) ==
  IF projection = NoRow \/ projection.state # "provisioning"
    THEN <<>>
    ELSE CASE outcome = "completed" -> <<Project("active", TRUE)>>
           [] outcome = "partially_completed" /\ ~projection.hasTenant ->
                <<Project("provisioning", TRUE)>>
           [] outcome \in {"failed", "none"} /\ ~projection.hasTenant ->
                <<Project("failed", FALSE)>>
           [] OTHER -> <<>>

\* syncCommissionProjection up to the transition it makes.
SyncProjection(s) ==
  /\ Calls(s, "sync")
  /\ Continue(s, SyncTransition(Argument(s).outcome) \o Rest(s))
  /\ UNCHANGED <<operations, projection, tenant, receipts>>

(***************************************************************************)
(* Specification                                                           *)
(***************************************************************************)
HandlerStep(p) == WriteLedger(p) \/ CheckProjection(p) \/ WriteProjection(p)

ExecutorStep(e) ==
  CreateProjection(e) \/ HandlerStep(e) \/ Send(e) \/ ReceiveReply(e) \/ CallTimesOut(e)

SweeperStep(s) == HandlerStep(s) \/ ResolveByReceipt(s) \/ SyncProjection(s)

Next ==
  \/ \E e \in Executors :
       \/ \E k \in Keys : Commission(e, k) \/ Repair(e, k)
       \/ ExecutorStep(e) \/ Abandon(e)
  \/ \E s \in Sweepers : SweeperStep(s) \/ Abandon(s) \/ \E k \in Keys : List(s, k)
  \/ \E k \in Keys : OwnerAccepts(k) \/ OwnerFinishes(k)

Spec == Init /\ [][Next]_vars

(***************************************************************************)
(* Properties                                                              *)
(***************************************************************************)
\* "active" is never fabricated: the owner has completed the commission under
\* some attempt and the row is bound to its tenant (requestTenantCommission,
\* syncCommissionProjection).
ActiveMeansCommissioned ==
  projection # NoRow /\ projection.state = "active" =>
    projection.hasTenant /\ tenant /\ \E k \in Keys : receipts[k] = "completed"

\* The row never names a tenant the owner did not create, and an operation in
\* the ledger as completed or as a partial commission means there is one.
RecordedTenantExists ==
  /\ projection # NoRow /\ projection.hasTenant => tenant
  /\ \A k \in Keys :
       /\ operations[k] # NoRow
       /\ operations[k].status = "completed" \/ operations[k].stage = "commission-partial"
       => tenant

\* Whether the commission has been repaired, or a repair of it requested.
Repaired == \E k, l \in Keys : k # l /\ operations[k] # NoRow /\ operations[l] # NoRow

\* Crashes, lost answers and concurrent sweeps of the commission alone never
\* give it up while the owner has, or is creating, its tenant, if no request
\* arrives that nobody waits for any more (requestTenantCommission,
\* syncCommissionProjection).
FailedMeansNoTenant ==
  projection # NoRow /\ projection.state = "failed" /\ ~Repaired => ~tenant

\* Nor does any of its late writers take a failed projection up again
\* (transitionLifecycleState, whose UPDATE would let it).
FailedStaysFailed ==
  [][projection # NoRow /\ projection.state = "failed" /\ ~Repaired =>
       projection'.state = "failed"]_projection

===============================================================================
