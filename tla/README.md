# Formal models of the Governance panel

The repository is the control panel of Infrakinetic: a TypeScript/Express
backend over PostgreSQL, and a Next.js console, through which operators issue
*governed commands* (commission a tenant, suspend it, reset an identity, disable an
engine, restore a configuration) to the **owner**, the Infrakinetic management API,
which carries them out. The backend keeps a durable ledger of every command and, for
dangerous ones, a maker-checker approval. Its hard part is not computation. It is that
several parties (the console, a request handler, the owner, a reconciliation sweep)
act on one command at different times, across crashes, timeouts and lost replies, with no lock
held over the conversation.

Paths below are relative to the repository root; `ops/` stands for
`backend/src/management/operations/`.

## 1. Inventory

| component | state it keeps | operations | interacts with |
|---|---|---|---|
| **Operation ledger** `ops/managementOperationLedger.ts`, `ops/lifecycle.ts`, migrations 0002/0003/0014 | `management_idempotency_keys`, `management_operations`, `operator_audit_log` | create-or-replay, transition, attach rollback reference, reads | every command module, reconciliation |
| **Approval store** `ops/managementApprovalStore.ts`, migration 0012 | `management_approvals` | create, decide, mark executed | approval routes, approved commands |
| **Command families** identity, credentials, payment adapters, entitlements, engine states, AI (`ops/*Operation.ts`, `ops/*Approval*.ts`) | none of their own | request, decide, execute, observe, recover | ledger, approval store, owner |
| **Owner client** `backend/src/management/managementApiClient.ts`, assertion issuer | a request on the wire with a 30 s deadline; an assertion valid for 120 s | call, classify a network error | owner |
| **Owner** (external) | receipts, tenants, states of engines and AI, configuration rows | accept, finish, refuse, report | client, reconciliation |
| **Reconciliation** `ops/reconciliationOperation.ts`, `ops/reconciliationQuery.ts` | none of its own | list stuck operations, settle them by receipt, sync and repair projections, report drift | ledger, projection, owner |
| **Tenant projection** `ops/commissionedTenants.ts`, `ops/tenantLifecycle.ts`, `ops/tenantLifecycleOperation.ts` | `commissioned_tenants` | create, transition, refresh, backfill | commission, suspend, resume, decommission, reconciliation |
| **Global configuration restore** `ops/globalConfigRestoreOperation.ts`, migration 0016 | packages and restore operations | submit, snapshot, dry-run, request, apply, roll back | ledger, approvals, owner |
| **FinOps allocation policy** `ops/finOpsAllocationPolicy.ts`, migration 0017 | one active policy and its predecessors | replace, allocate costs | ledger |
| **Browser login, sessions, step-up** `backend/src/identity/adapters/postgresBrowserAuthStore.ts`, `backend/src/routes/auth/index.ts`, `backend/src/middleware/` | transactions, sessions, step-up and revocation markers, cookies | begin, callback, check, revoke | every route, the console |
| **Operator directory** `backend/src/identity/adapters/postgresOperatorDirectory.ts` | operators: pending, active, disabled | look up, activate | login |
| **Console** `frontend/components/`, `frontend/app/(product)/` | per dialog or panel: a key, what it shows, what it says | open, read, submit, retry, close | routes |
| **Migration runner** `backend/src/db/migrationRunner.ts` | `schema_migrations` | run, by hand | database |
| **Database client** `backend/src/db/pgDbClient.ts` | connections | query, transaction | all stores |
| Read-only queries, pure data functions, roles, scripts | - | - | - |

**What is hard.** `hazards` in `PROJECT.json` has every one at its line. In short:

- *Ledger*: a key is reserved in a statement of its own, before the operation exists, and
  released by another if the insert fails; a COMMIT may succeed while its caller is told
  of an error; a status is read outside the transaction that updates it.
- *Approvals*: the row is judged on a read; part of that judgement is repeated by the guarded
  UPDATE. An approval is spent before its operation exists, and what it was approved on
  may have changed.
- *Commands*: the outcome of a timed-out call is unknown; a retry must not send it again;
  a sweep may settle the operation while its executor still works on it; a fresh read
  that verifies an effect races with other changes.
- *Projections*: their UPDATE is not guarded at all; a command, its repair and two sweeps
  may be writing one row, and a tenant may have two rows.
- *Restores*: package, restore row and ledger are three writes; the package's status is unguarded.
- *Sessions*: cookies are shared by tabs; a session, its marker and the operator are read one by one.
- *Console*: an answer is lost and the operator tries again; reads overtake each other.

**What makes each component correct.** Ledger: a key is bound once, and its operation moves
along lifecycle edges only, with a complete audit trail. Approvals: one execution, of what was
approved, by someone other than the maker. Commands: sent at most once; `completed` and
`failed` are true; nothing whose receipt has an outcome stays open, but for partial ones, which an operator
resolves. Projection: never shows a tenant that does not exist, never loses one that does, and a disagreement
is on the report. Restores: what is shown is what
the owner did. Policies: one chain, no cost lost. Sessions: who acts is who is shown. Console: one
intent, one command, an honest outcome.

## 2. Modules

| module | models | state, and how an action corresponds to code |
|---|---|---|
| `OperationLifecycle` | `ops/lifecycle.ts` | statuses, edges, the key's coarser status, as constant operators |
| `OperationRegistry` | the *promise* of the ledger | one variable: per key nothing, or a payload with a growing history; `Bind`, `Advance` |
| `ManagementOperationLedger` | the ledger over its tables | three tables, undecided commits, and per handler the call it is in. One action per `await`: `Reserve`, `InsertCommits`/`InsertRollsBack`/`InsertReplyLost`, `ReleaseRead`, `ReleaseDelete`, `ReadKey`, `PollFindsOperation`/`PollGivesUp`; `ReadOperation`, `UpdateCommits`/`UpdateIsStale`/`UpdateIsRejected`; `AttachRead`, `AttachUpdate`, `AttachAudit` |
| `ManagementApprovalStore` | approvals, with time | the table, a clock, per handler the call it is in; `DecideRead`/`DecideUpdate`/`DecideUpdateMisses`, `ExecuteRead`/`ExecuteUpdate`/`ExecuteUpdateMisses`, `Tick` |
| `RequestHandlers` | a request at work | per handler: what it is about and the calls it has still to make (`Begin`, `Calls`, `Continue`, `Stop`); extended by `CommandFamilies`, `TenantProjection`, `GlobalConfigRestore`, `FinOpsAllocationPolicy` and `BrowserSessions` |
| `GovernedCommand` | one command end to end, with the owner and the sweep | composes the ledger (as its registry: a history per operation), spent approvals, the network, receipts (partial ones included) and effects, executors, sweepers |
| `CommandFamilies` | the six families and their approvals | a command is a record of what its function does differently (reads first, takes partial answers, verifies, binds facts); the variables are the ledger rows, the approvals, the target's state at the owner |
| `TenantLifecycle` | `ops/tenantLifecycle.ts` | states and edges of a projection |
| `TenantCommission` | commission, repair route, reconciliation of one commission request | ledger rows, the projection row, the owner's tenant and receipts; a request is the list of calls its handler has still to make |
| `TenantProjection` | a commission from its call on, its repairs, suspend, resume, decommission, legacy backfill, `repairProjection`, `reconcileCommissionRequest`, drift report | the rows of a tenant by provenance, the operations of its commission by attempt with their receipts, the owner's access state, late commands. A transition is `CheckTransition` and `WriteTransition`, as in the code; an attempt that is refused or never leaves fails the row (`Fail`) |
| `GlobalConfigRestore` | packages, approvals, restores | four tables and the owner's rows; `StorePackage` (its SELECT) and `InsertPackage` (its INSERT), `DryRunAnswers`, `WriteStatus`, `WriteLedger`, `ApplyAnswers`, `FinishRestore`: each write of `ops/globalConfigRestoreOperation.ts` is an action |
| `FinOpsAllocationPolicy` | policies and allocation | policies by the key of their operation; the transaction is its read (`BeginReplace`) and its commit (`CommitReplace`). A cost is allocated in hundredths, share by share, charge or credit, by the first rule that matches it; rules and costs are constants |
| `BrowserSessions` | login, step-up, sessions, checks, tabs | five tables, the browser's cookie jar, what each tab shows; a request passes `FindSession`, `CheckMarker`, `CheckStepUp`, `Run` one by one |
| `OperatorConsole` | every dialog, panel and drawer that submits | a component is a record of when it takes a key, how it reads, which buttons are busy apart (its lanes) and what it says; `Submit`, `Lost`, `Answered`, `ReadServed`, `HeadersArrive`, `ReadAnswered`, `Retarget`, `CloseView` |
| `*Proofs` | - | the theorems of section 6 |
| `MC*` | - | symmetry sets and data for TLC |

**How they fit.** `ManagementOperationLedger` *implements* `OperationRegistry`
(`RegistrySpec`, proved). `GovernedCommand` uses the registry in place of the ledger
(create-or-replay is one action there) and is itself shown to implement
`OperationRegistry` although executors and sweeps race (checked and proved). `TenantCommission`,
`CommandFamilies`, `GlobalConfigRestore` and `FinOpsAllocationPolicy` abstract once more: a ledger call
is one action, because its races are `ManagementOperationLedger`'s and `GovernedCommand`'s and the loser
ends its request either way; in exchange they have their own tables in full. `TenantProjection`
takes over where a commission's call goes out and keeps of its operations the status, by attempt. `OperatorConsole` relies on the ledger's promise: one operation per
key, replayed for the same key.

**External behaviour.** The owner is modelled as the code relies on it
(`ops/reconciliationOperation.ts:160-166`): it reserves a receipt before it carries a
command out and otherwise refuses without a trace; the receipt ends as completed, failed or
partially completed; one key never runs twice. In `CommandFamilies` a command it reports
as done may be without effect, and others change the target. In `GlobalConfigRestore` an apply may
deviate from its package, which counts among the changes that nobody approved (`MaxChanges`). The identity provider is modelled by what is asked of its tokens: whose
they are, and whether that operator authenticated after the transaction began. These definitions are
external in the map. An answer is always the owner's own: a 502 of a proxy, which the code records
as failed like any non-200, is outside the models.

**Abstractions.** A payload is its hash and hashes are model values: equal exactly
when the payloads are (canonicalisation is left out). Operation ids are their keys
(`idempotency_key` is UNIQUE). Evidence snapshots, results and most timestamps are data no
property tells apart. `GovernedCommand` shortens the stages of a partial failure (`never-dispatched` for
`mutation-call-never-dispatched`). Only `GovernedCommand` and `TenantProjection` deliver requests
whose sender no longer waits; the other modules leave late delivery to them. In `CommandFamilies` a sweep
does not touch an operation whose request is at work (the stale sweep is `GovernedCommand`'s subject). The
repair route's check and its submission are one action in `TenantCommission`: a projection that changes in
between is the behaviour in which it changes right after. AI commands whose effect no read shows, and which
`ops/aiOperation.ts:224-235` verifies by the owner's receipt, are completed in `CommandFamilies` without
`verified`: there the word is kept for an effect that a read of the target has shown. The package status
"superseded" of migration 0016 is never written. `OperatorConsole` leaves out form fields
and layout; a refusal or a network error, which `ActionDialog` shows in the tone of a failed operation, is "error"
there, a lane is free as soon as its answer is in; `TenantDetailDrawer` clears what it shows when its list is
reloaded, the model keeps it.

## 3. Runs

| run | instance | shows |
|---|---|---|
| `Ledger` | 1 key, 2 payloads, 2 rollback references, 2 handlers | two calls of any kind race on one key with every failure: key, operation and audit trail stay one story, a reservation without an operation is accounted for, terminal operations are frozen |
| `Approvals` | 1 approval, 3 operators, 2 payloads, 2 handlers, clock to 2 with lifetime 1 | single use, finality, maker is not checker, payload binding |
| `Command` | 1 key, 1 approval, 1 executor (a new request after each end), 2 sweepers, late delivery and slow executors, fairness | `completed` is true, one dispatch, one lifecycle path whoever writes it (the registry is implemented), every operation reaches a terminal status |
| `CommandTimely` | 2 keys, 1 approval, 2 executors, 1 sweeper, no late delivery, no slow executor | one operation per approval under racing requests; `failed` and `stranded` are true under the timing assumption |
| `Commission` | 3 keys (a commission and two repairs), 2 executors, 2 sweepers | `active` is never fabricated, a recorded tenant exists; until a repair is requested, a failed projection has no tenant and stays failed |
| `Projection` | 1 tenant, 2 handlers, 2 commands of which 2 may be a commission and its repair, fairness | what reconciliation saw was so, a settled disagreement is on the drift report unless a failed attempt gave the row up, and repeated rechecks make the projection see what the owner has |
| `ProjectionLegacy` | 1 tenant, 2 handlers, 1 command: the commission | **violation**: a recheck of the tenant turns a timed-out commission into a legacy row, and the commission's own row stays unbound for good |
| `Families` | 2 keys, 1 approval, 2 values of which 1 needs an approval, 2 handlers, 1 other change | outcomes are what happened (`verified` means the effect was there after the command was sent), what runs under an approval is what was approved on facts that held, a recovery is complete when it says so |
| `GlobalConfig` | 2 packages, 2 approvals, 2 contents, 2 handlers, 1 change nobody approved | restore row, package and ledger tell what the owner did; one content is staged once |
| `FinOps` | 3 keys, 3 handlers | one chain of policies with one active end; every valid policy hands out the whole of each cost |
| `Browser` | 2 operators, 2 transactions, 2 sessions, 2 tabs, 2 handlers | a command runs under the operator its tab shows, a step-up is proven by the session's operator, a login opens one session, a disabled operator stays so, a logout holds |
| `Console` | 2 targets, 2 openings, 3 keys, 3 reads, 2 submissions under way | one command per intent, honest outcomes, a refusal is definitive, a view whose reads are cancelled until they are shown does not go back |

**Why the bounds suffice.** Rows of different keys share nothing in the ledger and different
approvals share nothing in the store, so one is enough; two appear where a property relates
them. Two handlers are needed to race; a third only repeats the role of one of
them, except in `FinOps`, where a chain needs three replacements to have an inner link. Two packages of two
contents are the fewest that can clash; a rollback package is the second. Two tabs and two operators
are the fewest that can be mistaken for each other. Counters: `MaxTime` is before, at and after an
expiry; `MaxGrants` and `MaxDispatches` are one more than the properties allow, so a second one is
seen; `MaxAttempts` is a commission and its repair; `MaxCommands`, `MaxChanges`, `MaxOpenings` and
`MaxReads` allow an event and one that overtakes it.
Histories are bounded by the acyclic lifecycle. Symmetry is used in safety runs only, over
interchangeable handlers, payloads, keys, operators and targets. What a bound could hide from a safety or an
action property is excluded by the proofs, which have no bounds (section 6); the two liveness properties
have only their instances.

Deadlock is checked in `Ledger`, `Approvals`, `Command` and `CommandTimely`. In the others the system may
really stop: every key, transaction or command of the instance is used up and settled.

## 4. Fairness

`GovernedCommand` (`FairSpec`, run `Command`) and `TenantProjection` (`LiveProjectionSpec`, run `Projection`)
state fairness. No request, failure or crash is ever owed.

`Command`: executors run on unless they are abandoned; the owner finishes what it accepted; ten
minutes without an update pass. Sweeps are operator-initiated (the two reconcile routes), not scheduled:
`OperationSettles` says *if operators repeat the sweep, it settles everything*, which is why listing
is strongly fair. A step of a sweep is strongly fair too because a sweep may be interrupted, but
not at the same step for ever. `HasReceipts` is true in that run: nothing is claimed of operations
whose family has no receipt (engine states, payment adapters, AI, global configuration, FinOps;
`receiptFamilyFor` returns undefined) nor of what a sweep leaves to an operator: the stages
`owner-reported-partial`, `effective-observation`, `effective-mismatch`, and an operation that is
`partially_completed` when its receipt says so too (`ops/reconciliationOperation.ts:437-451`), which every later
sweep returns as remaining.

`Projection`: handlers go on (weak fairness of their steps), a late command arrives or is lost, and operators
keep rechecking; `ReconcileTenant`, `RepairProjection` and `RefreshObservedState` are strongly fair because
a recheck may be interrupted, but not every one of them.

## 5. What the models show of the code

**The finding** (`ProjectionLegacy`). `resolveStuckOperation` completes a commission's operation
(`ops/reconciliationOperation.ts:415-421`) before it binds the commission's row to its tenant. A recheck of
that tenant in between finds no row for it and creates a `legacy_existing` one; the
binding then violates `UNIQUE (tenant_id)`, and a completed operation is no candidate of a later sweep.

**Limits of what holds.** These behaviours are reached by the models. They are why some properties are
stated with a condition; where the code or its documents say otherwise, the words are quoted.

*Ledger and approvals*
- A replay compares the hash (`ops/managementOperationLedger.ts:460-466`) before it reads the operation (474): a
  release and a new reservation fit in between, so a replay may return another payload's operation.
- `partially_completed -> compensating` is always refused by the CHECK of migration 0002 (37-40):
  `completed_at` of the key is never cleared (635). No command takes that edge.
- An approval can be approved after it expired between the check and the UPDATE (`ops/managementApprovalStore.ts:241`).

*Commands and sweeps*
- A missing receipt is not final: a timed-out request may arrive after the sweep has read
  "no receipt" (`ops/reconciliationOperation.ts:424`) and recorded `failed`. `FailedMeansNotExecuted`
  is therefore stated without late delivery and slow executors.
- The owner's receipt may say `partially_completed`. A sweep records that on an operation that is running and leaves
  one that is `partially_completed` as it is, for good.
- A sweep judges the listed row (386) and transitions the current one: an executor that dispatches in
  between is called stranded. `StrandedNeverDispatched` has the same condition.
- Approved identity and credential executions record an owner's 200 with `commandStatus`
  "partially_completed" as completed; the direct commands keep it partial
  (`identityOperation.test.ts:122`). `OutcomeIsTrue` and `CompletedMeansExecuted` make that exception for them.
- `ops/aiOperation.ts` (about 455) says the owner's receipt resolves an ambiguous AI command;
  `receiptFamilyFor` has no AI family.
- Reconciliation writes the stage "owner-partial", commands write "owner-reported-partial" and
  "owner-response-unsafe"; `classifyStuckOperation` reports all three as "unclassified".
- An engine approval is spent before its facts are compared the second time; a change in between uses it up.
  A crash between a recovery's completion and its reference (`ops/engineStateOperation.ts:404`) leaves none.

*Tenants*
- A repair that is refused or never dispatched fails a projection whose tenant exists
  (`ops/tenantLifecycleOperation.ts:220-228`, 239-246), and a repair's `active` can overwrite a sweep's `failed`
  (`ops/commissionedTenants.ts:305`). `FailedMeansNoTenant` and `FailedStaysFailed` are stated until a
  repair is requested, and for requests that arrive while they are waited for.
- Such a failed projection disagrees with the owner and is not reported: `isLifecycleDrift` is false of "failed"
  (`ops/reconciliationQuery.ts:142-156`). `DisagreementIsListed` excepts a failed row with a failed attempt, and
  nothing else. The repair route reads the owner's state first, "so an owner-side rejection can
  never push the stale projection down the failed-response path" (`backend/src/routes/management/index.ts:1094`),
  which holds of a state the owner has before the repair and not of one it takes up after the check, nor of a call that
  never leaves; a sweep has the rule "Never fail a projection whose tenant an EARLIER attempt already created"
  (`ops/reconciliationOperation.ts:361`), a commission's own answer has not.
- A crash while a projection is `requested` or `approved` leaves it so: the repair route refuses it.
- Suspend, resume and decommission race on an unguarded UPDATE; a crash inside a decommission
  leaves `decommission_requested` or `decommissioning`, which is neither on the drift report nor refreshed.
  `DisagreementIsListed` speaks of tenants without such an interruption, `ObservationCatchesUp` of rows that
  are in a settled state.
- `repairProjection` reports `observedRefreshed: true` on a replay that refreshed nothing
  (`recordProjectionReconcile` returns at 256).

*Global configuration*
- A rejected or expired approval, or an ambiguous timeout, leaves the package in `approval_requested` for
  good, and the same content is refused as a duplicate from then on.
- A dry run that answers late, or a second execution that fails, takes an applied package back to
  `dry_run`; `AppliedWasApplied` therefore says that what is *shown* as applied was applied, not the converse.

- Two submissions of one content may both find no duplicate (`ops/globalConfigRestoreOperation.ts:219-224`);
  the partial unique index of migration 0016 (48-56) refuses the second INSERT.

*Sessions*
- A login's callback that throws clears the session cookie the browser held before
  (`backend/src/routes/auth/index.ts:294`), also when that session is still open.

*Console*
- `ConfirmDialog`'s backdrop closes it while a submission is under way.
- Command routes answer 200 for failed and partial operations too; `IdentityPanel`, `CredentialPanel`, invitations
  and entitlements close without a word on `res.ok`. `OutcomeIsHonest` is stated for the dialogs that
  explain the operation.
- `IdentityPanel` and `CredentialPanel` have no React key and unguarded reads: a slow read of one
  target can end under another's name.
- `AiTenantPanel` tests for a newer read when the headers arrive (88) and shows the body when it has been read (91);
  `refetchTenant` (`tenants/page.tsx:699-711`) does not test at all, and a recheck and a suspension read apart. Both can
  bring an older state back after a newer one. `GuardedViewAdvances` is stated for the lists of
  `TenantDetailDrawer` and for `RepairCommissionDialog`, whose reads are cancelled until they are shown.
  (`IntegrationsPanel` reads as `AiTenantPanel` does, and submits nothing.)
- A refusal before there is an operation keeps the dialog's key, a failed operation renews it: with a new key after any
  refusal, an answer that comes late would be of an operation the dialog has given up (`RefusalIsDefinitive`).
- Panels execute approvals under a new random key, so a retry after a lost answer is refused as already
  executed (compare the comment at `ops/aiOperation.ts:769`).
- `tenants/page.tsx:209` says an effect "Only reacts to `tenants` finishing its first load"; it runs
  again on each reload.
- `ProviderStateDialog` sends a narrowing, and `EngineDetailDrawer` a disable, to the direct routes, which
  always refuse them (409); no console code requests an engine-disable approval.

## 6. What is proved

TLAPS checks, for every value of the constants:

| module | theorems |
|---|---|
| `ManagementOperationLedgerProofs` | `TypeCorrect`, `KeysAgree`, `ReservationsAccounted`, `AuditComplete`, `TerminalFrozen`, `LedgerImplementsRegistry` (`Spec => RegistrySpec`) |
| `ManagementApprovalStoreProofs` | `TypeCorrect`, `SingleUse`, `RowsAreSound`, `DecisionsAreFinal`, `ExecutionsMatch` |
| `GovernedCommandProofs` | `TypeCorrect`, `DispatchedOnce`, `ApprovalUsedOnce`, `CompletedIsTrue`, `CommandImplementsRegistry`; under `Timely == ~LateDelivery /\ ~SlowExecutors` also `StrandedIsTrue`, `FailedIsTrue` |
| `TenantCommissionProofs` | `CommissionTypesHold`, `ActiveIsTrue`, `RecordedIsTrue`, `FailedIsTrue`, `FailedIsFinal` |
| `OwnerCommandProofs` | of `CommandFamilies`: `FamilyTypesHold`, `OutcomesAreTrue`, `ApprovalsBind`, `RecoveriesAreComplete`, `OutcomesFollowLifecycle`; of `TenantProjection`: `ProjectionTypesHold`, `FinalStatesAreFinal`, `DisagreementsAreListed` |
| `ConfigurationProofs` | of `FinOpsAllocationPolicy`: `PolicyTypesHold`, `PolicyIsChain`, `CostAddsUp`, `ReplacementsFollowLifecycle`; of `GlobalConfigRestore`: `RestoreTypesHold`, `RestoreOutcomeIsTrue`, `RowFollowsLedger`, `ShownIsApplied`, `ContentStagedOnce` |
| `BrowserProofs` | of `BrowserSessions`: `SessionRowsTyped`, `RunsAsShown`, `StepUpProven`, `LoginOpensOnce`, `DisabledForCauseStays`, `SignedOutStaysOut`; of `OperatorConsole`: `ConsoleTypes`, `OneIntentOneCommand`, `HonestOutcome`, `DefinitiveRefusal`, `ViewAdvances` |
| `RequestHandlersProofs` | lemmas on `Begin`, `Continue`, `Stop`, on short lists of calls and on their types, for the three modules above |

Every invariant and every action property of a passing run is one of these. Two theorems have no run of their
own, because they justify an abstraction. `CommandFamilies` writes the outcome of an operation without the
check that `transitionOperation` makes of the edge, and `FinOpsAllocationPolicy` does so in its sweep and
where a completion takes effect but is reported as failed (its other writes make the check).
`OutcomesFollowLifecycle` and `ReplacementsFollowLifecycle` say that the check would have let each of these
writes pass, so no operation that has ended is reopened.

**Assumed**: that what stands for nothing (`NoRow`, `None`, `NoVersion`, `NoProjection`, `Nothing`) is not itself a
row, a key, a payload or an operator; that executors and sweepers, packages and approvals, and a console's targets
and numbers, are different; that rules and costs have the fields of rules and costs, a command's guarded values are
values, and bounds are numbers. Each is a named ASSUME of the module that declares the constants, evaluated by its
runs. Only the console's targets are assumed finite, to count their completed commands; no other set is.

**The argument.** None of the properties is inductive. Each module of proofs defines an `IInv`: the types,
what holds between the rows, and for each request what its remaining calls may rely on. It is
shown to hold initially and to be kept by every action (one lemma or step per action), and each
property follows from it. What the strengthening has to say differs:

- *Ledger*. `KeyAgreesWithOperation` depends on who may delete a key. A caller between reservation and insert
  *holds* the key (the row is there, in progress, bound to the caller's payload); no two hold it; an undecided
  commit belongs to a key whose operation does not exist and whose holder can no longer insert; a key that is not
  reserved has neither. The refinement maps `InsertCommits` and a commit resolved late to `Bind`, `UpdateCommits`
  and `UpdateReplyLost` to `Advance`, every other step to a stutter.
- *Approvals*. "A row that passed the read of a decision was written by someone other than the checker", and
  "a row that passed the read of an execution is approved under the caller's payload", carry the judgement
  of the read over to the UPDATE: payload and maker are never written again, and a decision is final.
- *Command*. One request at most drives an operation from its creation to its dispatch; what is on the wire or at the
  owner belongs to a dispatched key; an answer in hand, a receipt that was read and a completed row are each
  backed by the owner's effect. Under `Timely` an operation is listed only when no request drives it, and a
  receipt read as missing stays missing.
- *Commission*. A request is *early* until it has the owner's answer or gave up, and *late* from then on; at most
  one early request drives a key and none takes it up again, so what a late one read of the receipt is final.
- *Families*. Every list of calls says where its request is: it compares the approved facts, spends the approval, is
  on its way with an approval spent and unused, or works for the operation it has reserved. Its own steps lead from
  one of these to the next. Those of others, of sweeps and of the owner leave it where it is: they undo nothing, leave an
  operation at work alone, and use no approval that another has spent.
- *Projection*. A list of calls moves the tenant's own row towards what the owner has been seen to be, binds a
  commission's row, or makes one call with something that is still true; and a row in a state it may not stay in has a
  request about to take it out, unless one was interrupted. No transition that finishes is refused, neither by its
  edge nor by `UNIQUE (tenant_id)`. That binding transitions may be refused is the finding of section 5.
- *Policies*. A transaction that read no active policy, or one that another commit has superseded, is
  refused by the partial unique index when it commits; so each version is superseded by at most one.
- *Costs*. `PartialSums` is a recursive function over the length of a list. Instead of an induction, the first length
  at which the sum of the products is not the product of the sum is shown not to exist, because the
  well-ordering of the naturals can be cited. The floats of the code and the tolerance of 0.000001 in its check
  of the total are left out: percentages are whole numbers, and amounts are of the smallest unit.
- *Restores*. The remaining calls of an execution are one of a few suffixes, each with the ledger status, the
  restore row and the owner's answer it is only reached with.
- *Sessions*. A request carries its cookie's session and its anti-CSRF token from the tab; a transaction is
  open until one callback has consumed it, and what a callback carries was read from its transaction.
- *Console*. A key belongs to one opening; an opening moves on to another key only when the operation of the one it
  had has failed, and nothing has been submitted under the one it then has while it says so; only the newest
  submission is listened for; and where reads are cancelled, the newest was served no earlier than what is shown.
- *Types*. The types of variables rest on the invariants above: that a list of calls consists of calls of the
  handlers follows from the forms the invariant gives it.

**Model-checked only.** Liveness under fairness, and ENABLED, are out of TLAPS's reach: `OperationSettles` and
`ObservationCatchesUp` hold on their instances. `SettledCommissionIsBound` is the finding, and false.
`BrowserSessions` has no type invariant of its own; `SessionRowsTyped` states the types of its rows with a definition
of the proofs.

## 7. What could follow

A composition of `OperatorConsole` with `CommandFamilies` in place of the one-step backend it has now, and a statement
that `CommandFamilies` implements `OperationRegistry`, for which it would have to keep a history per operation.

## 8. Not modelled

- *Migration runner*: run by hand by one operator. Two runs at once would both apply a migration until
  the primary key of `schema_migrations` refuses the second.
- *Read-only queries*, `requestCredentialTest`, `previewCommissioningMode`, `observeRestoreOperation`: they read and
  write nothing that steps could disagree about. Paging of candidates: the models have fewer rows than a page.
- *Pure data functions*: hashing, redaction, risk classes, the command envelope, the AI contract, validation of bodies.
- *Cryptography*: assertion signing, JWKS, verification of tokens; bearer and development tokens.
- *Roles and scopes*: tables that no step of the program changes; a refusal for a missing scope is a refusal.
- *Console pages that only list*, form fields, layout and wording; scripts, provisioning SQL, pool configuration.
