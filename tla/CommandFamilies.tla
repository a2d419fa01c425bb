---------------------------- MODULE CommandFamilies ----------------------------
(***************************************************************************)
(* The families of governed commands: identity, credentials, payment       *)
(* adapters, engine entitlements, engine states and AI.  Each reserves an  *)
(* operation, calls the owner and records the outcome; they differ in what *)
(* they read first, in how they take the owner's answer, in whether they   *)
(* look at the effect, and in what an approval binds.  A command is a      *)
(* record of those differences.                                            *)
(*                                                                         *)
(* The commands of a behaviour are of one family and about one target,     *)
(* whose state is a value.  Races on one ledger row, and late requests,    *)
(* are the subject of GovernedCommand: here a ledger call is one step, and *)
(* a request that is lost does not arrive later.                           *)
(***************************************************************************)
EXTENDS Naturals, RequestHandlers, OperationLifecycle

CONSTANTS
  Keys,       \* idempotency keys
  Approvals,  \* approval ids
  Values,     \* the states of the target, and what a command asks it to be
  Guarded,    \* those asked for under an approval only: an engine disabled, AI narrowed
  NoRow,      \* the absence of a row, an approval or a value
  MaxChanges  \* bound: changes of the target that are not commands

VARIABLES
  family,      \* the family of the commands
  operations,  \* the ledger
  approvals,   \* management_approvals
  state,       \* the owner's state of the target
  sent,        \* what became of the call of a key
  changes,     \* how often the target has changed otherwise
  seen,        \* history: keys whose value the target has had since they were sent
  held         \* history: approvals whose facts have held, by their status

stored == <<family, operations, approvals>>
owner == <<state, sent, changes>>
history == <<seen, held>>
vars == <<stored, owner, history, proc>>

(***************************************************************************)
(* Commands                                                                *)
(***************************************************************************)
\* reads: the target is read before the operation is reserved.  partial: the
\* stage recorded when the owner answers that it has done a part.  verifies:
\* the target is read after the owner has answered.  (An assertion that cannot
\* be minted ends the request, or is recorded like a request that was lost;
\* both can happen to every command here.)
Command(of, reads, partial, verifies) ==
  [family |-> of, reads |-> reads, partial |-> partial, verifies |-> verifies]

\* executeIdentityCommand
IdentityCommand == Command("identity", FALSE, "owner-reported-partial", FALSE)

\* executeIdentityR3Approval takes any 200 for success.
IdentityExecution == Command("identity", FALSE, "none", FALSE)

\* executeCredentialCommand
CredentialCommand == Command("credential", FALSE, "owner-reported-partial", FALSE)

\* executeCredentialR3Approval takes any 200 for success.
CredentialExecution == Command("credential", FALSE, "none", FALSE)

\* executeAdapterCommand
AdapterCommand == Command("adapter", FALSE, "none", FALSE)

\* requestTenantEngineEntitlementChange
EntitlementCommand == Command("entitlement", TRUE, "none", TRUE)

\* requestEngineStateChange
EngineCommand == Command("engine", TRUE, "none", TRUE)

\* runAiCommand
AiCommand == Command("ai", FALSE, "none", TRUE)

Commands ==
  {IdentityCommand, IdentityExecution, CredentialCommand, CredentialExecution,
   AdapterCommand, EntitlementCommand, EngineCommand, AiCommand}

Families == {command.family : command \in Commands}

\* receiptFamilyFor: the families whose receipts reconciliation can read.
ReceiptFamilies == {"identity", "credential", "entitlement"}

\* What an approval's facts are compared with before it is spent.
BindingFamilies == {"engine", "ai"}

Stages ==
  {"none", "never-dispatched", "mutation-call", "mutation-response",
   "owner-reported-partial", "owner-response-unsafe", "effective-observation",
   "effective-mismatch", "stranded-before-dispatch", "resolved-not-dispatched",
   "owner-partial"}

\* verified: a read of the target has shown the effect.
OperationRows ==
  [status : OperationStatuses, stage : Stages, approval : Approvals \cup {NoRow},
   payload : Values, before : Values \cup {NoRow}, verified : BOOLEAN,
   undoneBy : Keys \cup {NoRow}]

ApprovalRows ==
  [payload : Values, facts : Values,
   status : {"pending", "approved", "rejected", "executed"}]

ASSUME FamiliesAssumption ==
  /\ NoRow \notin OperationRows \cup ApprovalRows \cup Approvals \cup Values \cup Keys
  /\ Guarded \subseteq Values
  /\ MaxChanges \in Nat

(***************************************************************************)
(* The calls of the handlers                                               *)
(***************************************************************************)
CompareFacts(a) == [approval |-> a, call |-> "compare"]
Spend(a, payload) == [approval |-> a, payload |-> payload, call |-> "spend"]
ReadBefore(command, a, payload) ==
  [command |-> command, approval |-> a, payload |-> payload, call |-> "read"]
Start(a, payload, before) ==
  [approval |-> a, payload |-> payload, before |-> before, call |-> "start"]
Send(command) == [command |-> command, call |-> "send"]
Await(command) == [command |-> command, call |-> "await"]
Observe == [call |-> "observe"]
Attach(k) == [call |-> "attach", original |-> k]

HandlerCalls ==
  {Observe} \cup {CompareFacts(a) : a \in Approvals}
    \cup {Spend(a, v) : a \in Approvals, v \in Values}
    \cup {ReadBefore(c, a, v) : c \in Commands, a \in Approvals \cup {NoRow}, v \in Values}
    \cup {Start(a, v, w) : a \in Approvals \cup {NoRow}, v \in Values, w \in Values \cup {NoRow}}
    \cup {Send(c) : c \in Commands} \cup {Await(c) : c \in Commands}
    \cup {Attach(k) : k \in Keys}

\* From the reservation of the operation to the call of the owner.
Carry(command, a, payload, before) ==
  <<Start(a, payload, before), Send(command)>>

Program(command, a, payload) ==
  IF command.reads THEN <<ReadBefore(command, a, payload)>>
                   ELSE Carry(command, a, payload, NoRow)

TypeOK ==
  /\ family \in Families
  /\ operations \in [Keys -> OperationRows \cup {NoRow}]
  /\ approvals \in [Approvals -> ApprovalRows \cup {NoRow}]
  /\ state \in Values
  /\ sent \in [Keys -> {"no", "sent", "refused", "done", "partial", "unsafe"}]
  /\ changes \in 0..MaxChanges
  /\ seen \subseteq Keys
  /\ held \subseteq Approvals \X {"approved", "executed"}
  /\ HandlersOK(Keys, HandlerCalls)

Init ==
  /\ family \in Families
  /\ operations = [k \in Keys |-> NoRow]
  /\ approvals = [a \in Approvals |-> NoRow]
  /\ state \in Values
  /\ sent = [k \in Keys |-> "no"]
  /\ changes = 0
  /\ seen = {} /\ held = {}
  /\ proc = [h \in Handlers |-> Idle]

Exists(k) == operations[k] # NoRow

\* The families whose commands look at the target.
ObservedFamilies == {command.family : command \in {c \in Commands : c.verifies}}

\* The history after a step: what the target now is.
Remember ==
  IF family \in ObservedFamilies
    THEN /\ seen' = seen \cup {k \in Keys : sent'[k] # "no" /\ operations[k].payload = state'}
         /\ held' = held \cup
              {<<a, approvals'[a].status>> : a \in {a \in Approvals :
                 /\ approvals'[a] # NoRow /\ approvals'[a].facts = state'
                 /\ approvals'[a].status \in {"approved", "executed"}}}
    ELSE UNCHANGED history

(***************************************************************************)
(* Requests                                                                *)
(***************************************************************************)
\* A request under a key that has an operation is a replay or a conflict
\* (findApprovalExecutionReplay, createOrReplayOperation) and changes nothing;
\* two requests under one key may both find no operation.
Request(h, k, of, todo) ==
  /\ ~Busy(h)
  /\ ~Exists(k)
  /\ family = of
  /\ Begin(h, k, todo)
  /\ UNCHANGED <<stored, owner, history>>

Ask(h, k, v, command) == Request(h, k, command.family, Program(command, NoRow, v))

\* requestIdentityInvitation, ...InvitationResend, ...Cancel, and the user
\* actions that need no approval.
RequestIdentity(h, k, v) == Ask(h, k, v, IdentityCommand)

RequestCredentialReplace(h, k, v) == Ask(h, k, v, CredentialCommand)

\* submitPaymentAdapter, certifyPaymentAdapter, deprecatePaymentAdapter
RequestAdapter(h, k, v) == Ask(h, k, v, AdapterCommand)

RequestEntitlement(h, k, v) == Ask(h, k, v, EntitlementCommand)

RequestEngineState(h, k, v) == Ask(h, k, v, EngineCommand)

ExecuteAiCommand(h, k, v) == Ask(h, k, v, AiCommand)

\* recoverEngineState: the state before an earlier operation is asked for, and
\* the earlier operation refers to this one when it has completed.
RecoverEngineState(h, k, original) ==
  /\ Exists(original) /\ operations[original].before # NoRow
  /\ Request(h, k, "engine",
       Program(EngineCommand, NoRow, operations[original].before) \o <<Attach(original)>>)

\* The routes.  What needs an approval is refused without one (409
\* ENGINE_APPROVAL_REQUIRED, AI_APPROVAL_REQUIRED); a recovery is not asked for one.
IdentityRoutes(h, k) == \E v \in Values : RequestIdentity(h, k, v)

CredentialRoutes(h, k) == \E v \in Values : RequestCredentialReplace(h, k, v)

AdapterRoutes(h, k) == \E v \in Values : RequestAdapter(h, k, v)

EntitlementRoute(h, k) == \E v \in Values : RequestEntitlement(h, k, v)

EngineStateRoute(h, k) == \E v \in Values \ Guarded : RequestEngineState(h, k, v)

RecoverRoute(h, k) == \E original \in Keys : RecoverEngineState(h, k, original)

AiRoutes(h, k) == \E v \in Values \ Guarded : ExecuteAiCommand(h, k, v)

(***************************************************************************)
(* Approvals                                                               *)
(***************************************************************************)
\* An approval of a value, made with the facts the owner reports.
RequestApproval(a, v, of) ==
  /\ family = of
  /\ approvals[a] = NoRow
  /\ approvals' = [approvals EXCEPT ![a] = [payload |-> v, facts |-> state, status |-> "pending"]]
  /\ UNCHANGED <<family, operations, owner, history, proc>>

\* requestIdentityR3Approval
RequestIdentityApproval(a, v) == RequestApproval(a, v, "identity")

\* requestCredentialR3Approval: the value stands for the digest of the material.
RequestCredentialApproval(a, v) == RequestApproval(a, v, "credential")

\* requestPaymentAdapterApproval
RequestAdapterApproval(a, v) == RequestApproval(a, v, "adapter")

\* requestEngineDisableApproval: an engine that is disabled already is refused.
RequestEngineApproval(a, v) == v # state /\ RequestApproval(a, v, "engine")

\* requestAiApproval and summaryFor
RequestAiApproval(a, v) == v # state /\ RequestApproval(a, v, "ai")

\* The routes under which approvals are requested.
IdentityApprovalRoutes(a) == \E v \in Values : RequestIdentityApproval(a, v)

CredentialApprovalRoutes(a) == \E v \in Values : RequestCredentialApproval(a, v)

AdapterApprovalRoutes(a) == \E v \in Values : RequestAdapterApproval(a, v)

EngineDisableRoute(a) == \E v \in Guarded : RequestEngineApproval(a, v)

AiApprovalRoutes(a) == \E v \in Guarded : RequestAiApproval(a, v)

Decide(a) ==
  /\ approvals[a] # NoRow /\ approvals[a].status = "pending"
  /\ \E decision \in {"approved", "rejected"} :
       approvals' = [approvals EXCEPT ![a].status = decision]
  /\ UNCHANGED <<family, operations, owner, proc>>
  /\ Remember

\* The approval is checked and spent before the command is carried out.
Execute(h, k, a, command, payload, checks) ==
  /\ approvals[a] # NoRow
  /\ Request(h, k, command.family,
       checks \o <<Spend(a, payload)>> \o Program(command, a, payload))

ExecuteIdentityApproval(h, k, a) ==
  Execute(h, k, a, IdentityExecution, approvals[a].payload, <<>>)

\* The executor supplies the material again.
ExecuteCredentialApproval(h, k, a) ==
  \E material \in Values : Execute(h, k, a, CredentialExecution, material, <<>>)

ExecuteAdapterApproval(h, k, a) ==
  Execute(h, k, a, AdapterCommand, approvals[a].payload, <<>>)

ExecuteEngineApproval(h, k, a) ==
  Execute(h, k, a, EngineCommand, approvals[a].payload, <<CompareFacts(a)>>)

\* fieldsFromSummary: what is asked of the owner is what was approved.
ExecuteAiApproval(h, k, a) ==
  Execute(h, k, a, AiCommand, approvals[a].payload, <<CompareFacts(a)>>)

\* Mutant: the summary is not compared with the owner's current facts.
FactsCompared_Skipped(h) ==
  /\ Calls(h, "compare")
  /\ Continue(h, Rest(h))
  /\ UNCHANGED <<stored, owner, history>>

\* assertApprovedFactsStillHold, and the catalog read of the engine approval.
FactsCompared(h) ==
  /\ Calls(h, "compare")
  /\ LET approval == approvals[Argument(h).approval]
     IN  Continue(h,
           IF approval.status = "approved" /\ approval.facts = state THEN Rest(h) ELSE <<>>)
  /\ UNCHANGED <<stored, owner, history>>

\* markExecuted, with the hash of what is to be executed.
ApprovalSpent(h) ==
  /\ Calls(h, "spend")
  /\ LET a == Argument(h).approval
         fits == approvals[a].status = "approved" /\ approvals[a].payload = Argument(h).payload
     IN  /\ approvals' = [approvals EXCEPT ![a].status = IF fits THEN "executed" ELSE @]
         /\ Continue(h, IF fits THEN Rest(h) ELSE <<>>)
  /\ UNCHANGED <<family, operations, owner>>
  /\ Remember

(***************************************************************************)
(* The command                                                             *)
(***************************************************************************)
\* The read before the operation; an approved engine change is refused if the
\* state is no longer the one that was approved (ApprovedEngineStateChangedError).
BeforeRead(h) ==
  /\ Calls(h, "read")
  /\ LET ask == Argument(h)
         stale == ask.approval # NoRow /\ approvals[ask.approval].facts # state
     IN  Continue(h,
           IF stale THEN <<>> ELSE Carry(ask.command, ask.approval, ask.payload, state) \o Rest(h))
  /\ UNCHANGED <<stored, owner, history>>

\* createOrReplayOperation and the two transitions before the call: only the
\* request that has created the operation goes on, and it may stop on its way.
\* The state before is recorded with the first transition.
OperationStarted(h) ==
  /\ Calls(h, "start")
  /\ LET k == About(h)
         row(status) ==
           [status |-> status, stage |-> "none", approval |-> Argument(h).approval,
            payload |-> Argument(h).payload, verified |-> FALSE, undoneBy |-> NoRow,
            before |-> IF status = "submitted" THEN NoRow ELSE Argument(h).before]
     IN  \/ Exists(k) /\ Stop(h) /\ UNCHANGED operations
         \/ /\ ~Exists(k)
            /\ operations' = [operations EXCEPT ![k] = row("running")]
            /\ Continue(h, Rest(h))
         \/ /\ ~Exists(k)
            /\ \E status \in {"submitted", "accepted"} :
                 operations' = [operations EXCEPT ![k] = row(status)]
            /\ Stop(h)
  /\ UNCHANGED <<family, approvals, owner, history>>

\* transitionOperation, which keeps the stage of an earlier transition.
Recorded(row, to, stage, verified) ==
  [row EXCEPT !.status = to, !.verified = verified,
              !.stage = IF stage = "none" THEN @ ELSE stage]

\* Mutant: what follows a completed command follows any.
Settle_GoesOn(h, to, stage, verified) ==
  /\ operations' = [operations EXCEPT ![About(h)] = Recorded(@, to, stage, verified)]
  /\ Continue(h, Rest(h))

\* The outcome of a command; only a completed one is followed by more calls.
Settle(h, to, stage, verified) ==
  /\ operations' = [operations EXCEPT ![About(h)] = Recorded(@, to, stage, verified)]
  /\ Continue(h, IF to = "completed" THEN Rest(h) ELSE <<>>)

\* callInfrakineticManagementApi: the owner gets the request ...
CallSent(h) ==
  /\ Calls(h, "send")
  /\ Continue(h, <<Await(Argument(h).command)>> \o Rest(h))
  /\ sent' = [sent EXCEPT ![About(h)] = "sent"]
  /\ UNCHANGED <<stored, state, changes>>
  /\ Remember

\* ... or it provably did not leave (isNeverDispatchedNetworkError) ...
NeverDispatched(h) ==
  /\ Calls(h, "send")
  /\ Settle(h, "failed", "never-dispatched", FALSE)
  /\ UNCHANGED <<family, approvals, owner, history>>

\* ... or it is lost on its way.
CallLost(h) ==
  /\ Calls(h, "send")
  /\ Settle(h, "partially_completed", "mutation-call", FALSE)
  /\ UNCHANGED <<family, approvals, owner, history>>

CallTimesOut(h) ==
  /\ Calls(h, "await")
  /\ Settle(h, "partially_completed", "mutation-call", FALSE)
  /\ UNCHANGED <<family, approvals, owner, history>>

\* The stage a command records for an answer that is not a success to it.
StageOf(command, answer) ==
  CASE answer = "refused" -> "mutation-response"
    [] answer = "unsafe" -> "owner-response-unsafe"
    [] answer = "partial" -> command.partial
    [] OTHER -> "none"

AnswerTaken(h) ==
  /\ Calls(h, "await")
  /\ sent[About(h)] \notin {"no", "sent"}
  /\ LET command == Argument(h).command
         stage == StageOf(command, sent[About(h)])
     IN  \/ stage = "mutation-response" /\ Settle(h, "failed", stage, FALSE)
         \/ /\ stage \notin {"none", "mutation-response"}
            /\ Settle(h, "partially_completed", stage, FALSE)
         \/ stage = "none" /\ ~command.verifies /\ Settle(h, "completed", "none", FALSE)
         \/ /\ stage = "none" /\ command.verifies
            /\ Continue(h, <<Observe>> \o Rest(h))
            /\ UNCHANGED operations
  /\ UNCHANGED <<family, approvals, owner, history>>

\* Mutant: the owner's 200 is taken for the effect.
EffectObserved_Trusting(h) ==
  /\ Calls(h, "observe")
  /\ Settle(h, "completed", "none", TRUE)
  /\ UNCHANGED <<family, approvals, owner, history>>

\* The fresh read agrees with what was asked for, or it does not.
EffectObserved(h) ==
  /\ Calls(h, "observe")
  /\ IF operations[About(h)].payload = state
       THEN Settle(h, "completed", "none", TRUE)
       ELSE Settle(h, "partially_completed", "effective-mismatch", FALSE)
  /\ UNCHANGED <<family, approvals, owner, history>>

\* The fresh read fails; or an AI operator may not make it, or no read shows the
\* effect, and the owner's receipt of the command stands for it (observeReceipt).
EffectUnobserved(h) ==
  /\ Calls(h, "observe")
  /\ \/ Settle(h, "partially_completed", "effective-observation", FALSE)
     \/ family = "ai" /\ Settle(h, "completed", "none", FALSE)
  /\ UNCHANGED <<family, approvals, owner, history>>

RollbackAttached(h) ==
  /\ Calls(h, "attach")
  /\ operations' = [operations EXCEPT ![Argument(h).original].undoneBy = About(h)]
  /\ Continue(h, Rest(h))
  /\ UNCHANGED <<family, approvals, owner, history>>

\* A crash, a call that throws, or an assertion that cannot be minted.
Abandon(h) ==
  /\ Busy(h)
  /\ Stop(h)
  /\ UNCHANGED <<stored, owner, history>>

(***************************************************************************)
(* Reconciliation: resolveStuckOperation                                   *)
(***************************************************************************)
Sweep(k, to, stage) ==
  /\ operations' = [operations EXCEPT ![k] = Recorded(@, to, stage, FALSE)]
  /\ UNCHANGED <<family, approvals, owner, history, proc>>

SweepStranded(k) ==
  /\ Exists(k) /\ ~AtWork(k)
  /\ operations[k].status \in {"submitted", "accepted"}
  /\ Sweep(k, "failed", "stranded-before-dispatch")

\* Ambiguous operations of a family with receipts, by the receipt.
SweepAmbiguous(k) ==
  /\ Exists(k)
  /\ family \in ReceiptFamilies
  /\ \/ operations[k].status = "running" /\ ~AtWork(k)
     \/ operations[k].status = "partially_completed" /\ operations[k].stage = "mutation-call"
  /\ \/ sent[k] = "done" /\ Sweep(k, "completed", "none")
     \/ sent[k] \in {"no", "refused"} /\ Sweep(k, "failed", "resolved-not-dispatched")
     \/ /\ sent[k] = "partial" /\ operations[k].status = "running"
        /\ Sweep(k, "partially_completed", "owner-partial")

(***************************************************************************)
(* The owner                                                               *)
(***************************************************************************)
\* A command the owner reports as done may have been without effect.  The
\* target is left alone where no command looks at it.
OwnerAnswers(k) ==
  /\ sent[k] = "sent"
  /\ \/ sent' = [sent EXCEPT ![k] = "refused"] /\ UNCHANGED state
     \/ /\ \E answer \in {"done"}
             \cup (IF family = "ai" THEN {"unsafe"} ELSE {})
             \cup (IF family \in {"identity", "credential"} THEN {"partial"} ELSE {}) :
               sent' = [sent EXCEPT ![k] = answer]
        /\ state' \in {state} \cup
             (IF family \in ObservedFamilies THEN {operations[k].payload} ELSE {})
  /\ UNCHANGED <<stored, changes, proc>>
  /\ Remember

OwnerChanges ==
  /\ family \in ObservedFamilies
  /\ changes < MaxChanges
  /\ changes' = changes + 1
  /\ \E v \in Values \ {state} : state' = v
  /\ UNCHANGED <<stored, sent, proc>>
  /\ Remember

(***************************************************************************)
(* Specification                                                           *)
(***************************************************************************)
RequestStep(h, k) ==
  \/ IdentityRoutes(h, k) \/ CredentialRoutes(h, k) \/ AdapterRoutes(h, k)
  \/ EntitlementRoute(h, k) \/ EngineStateRoute(h, k) \/ RecoverRoute(h, k) \/ AiRoutes(h, k)

\* The one route of all executions, by the approval's action.
ExecuteRoute(h, k, a) ==
  \/ ExecuteIdentityApproval(h, k, a) \/ ExecuteCredentialApproval(h, k, a)
  \/ ExecuteAdapterApproval(h, k, a) \/ ExecuteEngineApproval(h, k, a)
  \/ ExecuteAiApproval(h, k, a)

ApprovalStep(a) ==
  \/ IdentityApprovalRoutes(a) \/ CredentialApprovalRoutes(a) \/ AdapterApprovalRoutes(a)
  \/ EngineDisableRoute(a) \/ AiApprovalRoutes(a) \/ Decide(a)

HandlerStep(h) ==
  \/ FactsCompared(h) \/ ApprovalSpent(h) \/ BeforeRead(h)
  \/ OperationStarted(h) \/ CallSent(h) \/ NeverDispatched(h)
  \/ CallLost(h) \/ CallTimesOut(h) \/ AnswerTaken(h) \/ EffectObserved(h)
  \/ EffectUnobserved(h) \/ RollbackAttached(h) \/ Abandon(h)

Next ==
  \/ \E h \in Handlers :
       \/ HandlerStep(h)
       \/ \E k \in Keys :
            RequestStep(h, k) \/ \E a \in Approvals : ExecuteRoute(h, k, a)
  \/ \E a \in Approvals : ApprovalStep(a)
  \/ \E k \in Keys : SweepStranded(k) \/ SweepAmbiguous(k) \/ OwnerAnswers(k)
  \/ OwnerChanges

Spec == Init /\ [][Next]_vars

(***************************************************************************)
(* Properties                                                              *)
(***************************************************************************)
\* What the ledger says of a command is so, whoever has written it: completed
\* commands were answered as done, those verified by a read of the target had
\* their effect after they were sent, whatever raced with the read, and failed
\* ones were not carried out (the outcome branches of every command,
\* resolveStuckOperation).
OutcomeIsTrue ==
  \A k \in Keys : Exists(k) =>
    LET row == operations[k]
    IN  /\ row.status = "completed" =>
             sent[k] \in {"done"} \cup (IF row.approval = NoRow THEN {} ELSE {"partial"})
        /\ row.verified => row.status = "completed" /\ k \in seen
        /\ row.status = "completed" /\ family = "engine" => row.verified
        /\ row.status = "failed" => sent[k] \in {"no", "refused"}

\* What is done under an approval is what was approved, once, and the facts the
\* checker saw have held since the decision; an engine change was also looked at
\* after the approval was spent (markExecuted, assertApprovedFactsStillHold,
\* expectedBeforeState).
ExecutedAsApproved ==
  /\ \A k \in Keys : Exists(k) /\ operations[k].approval # NoRow =>
       LET a == operations[k].approval
       IN  /\ approvals[a].status = "executed"
           /\ approvals[a].payload = operations[k].payload
           /\ \A l \in Keys : Exists(l) /\ operations[l].approval = a => l = k
           /\ family = "engine" => <<a, "executed">> \in held
  /\ family \in BindingFamilies =>
       \A a \in Approvals : approvals[a] # NoRow /\ approvals[a].status = "executed" =>
         <<a, "approved">> \in held

\* An operation that refers to its recovery was recovered: the state before it
\* was asked for and was seen (recoverEngineState, attachRollbackReference).
RecoveryIsComplete ==
  \A k \in Keys : Exists(k) /\ operations[k].undoneBy # NoRow =>
    LET recovery == operations[operations[k].undoneBy]
    IN  /\ recovery.status = "completed" /\ recovery.verified
        /\ recovery.payload = operations[k].before
===============================================================================
