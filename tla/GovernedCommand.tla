---------------------------- MODULE GovernedCommand ----------------------------
(***************************************************************************)
(* One governed command from request to recorded outcome: the approval     *)
(* gate, the operation ledger, the call to the owner (Infrakinetic), and   *)
(* the reconciliation that settles what a crash or a timeout left open.    *)
(*                                                                         *)
(* Every command module has this shape; the executor below is              *)
(* executeIdentityR3Approval (identityApprovalOperation.ts), and without   *)
(* an approval requestTenantTransition (tenantLifecycleOperation.ts).  The *)
(* sweeper is resolveStuckOperations (reconciliationOperation.ts).         *)
(*                                                                         *)
(* createOrReplayOperation is one action here: ManagementOperationLedger   *)
(* implements the OperationRegistry it stands for.  A ledger transition is *)
(* a read and a guarded update, two actions, wherever another status than  *)
(* the one expected could be read.                                         *)
(***************************************************************************)
EXTENDS Naturals, Sequences, OperationLifecycle

CONSTANTS
  Keys,           \* idempotency keys, one command of one target each
  Approvals,      \* approved requests, each for one execution
  Executors,      \* requests executing a command
  Sweepers,       \* reconciliation requests
  HasReceipts,    \* whether the owner keeps receipts for this command family
  LateDelivery,   \* whether a request may arrive after its sender gave up
  SlowExecutors,  \* whether an executor may stall past DEFAULT_STRANDED_AFTER_SECONDS
  MaxDispatches,  \* bound of the dispatch counter
  NoRow           \* the absence of a row, or of an approval

VARIABLES
  operations,  \* the ledger: history of statuses, approval, recorded stage
  spent,       \* approvals whose executed_at is set
  aged,        \* operations not updated for the stranding threshold
  receipts,    \* the owner's command receipts
  effects,     \* commands the owner has carried out completely
  wire,        \* requests travelling to the owner
  replies,     \* the owner's answers travelling back
  exec,        \* executors
  sweep,       \* sweepers
  dispatches   \* history: requests sent per key

vars == <<operations, spent, aged, receipts, effects, wire, replies, exec,
          sweep, dispatches>>

Stages == {"none", "never-dispatched", "mutation-call", "mutation-response",
           "owner-reported-partial", "owner-partial",
           "stranded-before-dispatch", "resolved-not-dispatched"}

OperationRows ==
  [approval : Approvals \cup {NoRow}, history : Seq(OperationStatuses), stage : Stages]

ASSUME CommandAssumption ==
  /\ NoRow \notin OperationRows \cup Approvals
  /\ NoRow \notin [hash : Approvals \cup {NoRow}, history : Seq(OperationStatuses)]
  /\ HasReceipts \in BOOLEAN /\ LateDelivery \in BOOLEAN /\ SlowExecutors \in BOOLEAN
  /\ MaxDispatches \in Nat \ {0}

\* "accepted" and "executing" are told apart by nothing here.
ReceiptStatuses == {"none", "executing", "partially_completed", "completed", "failed"}

\* The answers: a 200, a 200 whose commandStatus is partially_completed, any other.
Answers == {"completed", "partially_completed", "refused"}

Idle == [step |-> "idle"]

\* An executor works on one command; "to" and "stage" are the outcome it is
\* about to record, "observed" the status read for it.
ExecutorSteps ==
  {"replayCheck", "consume", "reserve", "accept", "run", "dispatch", "wait",
   "settleRead", "settleUpdate"}
Executions ==
  [step : ExecutorSteps, key : Keys, approval : Approvals \cup {NoRow},
   to : OperationStatuses, stage : Stages, observed : OperationStatuses]

SweepSteps == {"receipt", "settleRead", "settleUpdate"}
Sweeps ==
  [step : SweepSteps, key : Keys,
   to : OperationStatuses, stage : Stages, observed : OperationStatuses]

Requests == [executor : Executors, key : Keys]
Replies == [executor : Executors, key : Keys, answer : Answers]

TypeOK ==
  /\ operations \in [Keys -> OperationRows \cup {NoRow}]
  /\ spent \subseteq Approvals
  /\ aged \subseteq Keys
  /\ receipts \in [Keys -> ReceiptStatuses]
  /\ effects \subseteq Keys
  /\ wire \subseteq Requests
  /\ replies \subseteq Replies
  /\ exec \in [Executors -> {Idle} \cup Executions]
  /\ sweep \in [Sweepers -> {Idle} \cup Sweeps]
  /\ dispatches \in [Keys -> Nat]

Init ==
  /\ operations = [k \in Keys |-> NoRow]
  /\ spent = {}
  /\ aged = {}
  /\ receipts = [k \in Keys |-> "none"]
  /\ effects = {}
  /\ wire = {}
  /\ replies = {}
  /\ exec = [e \in Executors |-> Idle]
  /\ sweep = [s \in Sweepers |-> Idle]
  /\ dispatches = [k \in Keys |-> 0]

ownerVars == <<receipts, effects, wire, replies, dispatches>>

Exists(k) == operations[k] # NoRow

Status(k) == operations[k].history[Len(operations[k].history)]

\* The writes of one ledger transition; updated_at is refreshed with them.
Record(k, to, stage) ==
  /\ operations' = [operations EXCEPT
       ![k].history = Append(@, to),
       ![k].stage = IF stage = "none" THEN @ ELSE stage]
  /\ aged' = aged \ {k}

Goto(e, step) == exec' = [exec EXCEPT ![e].step = step]

Stop(e) == exec' = [exec EXCEPT ![e] = Idle]

(***************************************************************************)
(* The executor                                                            *)
(***************************************************************************)
\* A command comes in, with the approval it executes or with none.
Start(e, k, a) ==
  /\ exec[e].step = "idle"
  /\ exec' = [exec EXCEPT ![e] =
       [step |-> IF a = NoRow THEN "reserve" ELSE "replayCheck", key |-> k,
        approval |-> a, to |-> "failed", stage |-> "none", observed |-> "running"]]
  /\ UNCHANGED <<operations, spent, aged, sweep, ownerVars>>

\* findApprovalExecutionReplay: an operation under the key ends the request,
\* as a replay or as a conflict.
ReplayCheck(e) ==
  /\ exec[e].step = "replayCheck"
  /\ IF Exists(exec[e].key) THEN Stop(e) ELSE Goto(e, "consume")
  /\ UNCHANGED <<operations, spent, aged, sweep, ownerVars>>

\* Mutant: a spent approval is accepted.
Consume_Respends(e) ==
  /\ exec[e].step = "consume"
  /\ spent' = spent \cup {exec[e].approval}
  /\ Goto(e, "reserve")
  /\ UNCHANGED <<operations, aged, sweep, ownerVars>>

\* markExecuted, decided by its guarded UPDATE.
Consume(e) ==
  /\ exec[e].step = "consume"
  /\ IF exec[e].approval \in spent
       THEN Stop(e) /\ UNCHANGED spent
       ELSE Goto(e, "reserve") /\ spent' = spent \cup {exec[e].approval}
  /\ UNCHANGED <<operations, aged, sweep, ownerVars>>

ConsumeReplyLost(e) ==
  /\ exec[e].step = "consume"
  /\ spent' = spent \cup {exec[e].approval}
  /\ Stop(e)
  /\ UNCHANGED <<operations, aged, sweep, ownerVars>>

NewOperation(e) ==
  operations' = [operations EXCEPT ![exec[e].key] =
    [approval |-> exec[e].approval, history |-> <<"submitted">>, stage |-> "none"]]

\* Mutant: a replay carries the command out again.
Reserve_ReplayDispatches(e) ==
  /\ exec[e].step = "reserve"
  /\ IF Exists(exec[e].key)
       THEN Goto(e, "dispatch") /\ UNCHANGED operations
       ELSE Goto(e, "accept") /\ NewOperation(e)
  /\ UNCHANGED <<spent, aged, sweep, ownerVars>>

\* createOrReplayOperation: only the caller that created the operation goes on.
Reserve(e) ==
  /\ exec[e].step = "reserve"
  /\ IF Exists(exec[e].key)
       THEN Stop(e) /\ UNCHANGED operations
       ELSE Goto(e, "accept") /\ NewOperation(e)
  /\ UNCHANGED <<spent, aged, sweep, ownerVars>>

\* The operation is created and its caller told of a database error.
ReserveReplyLost(e) ==
  /\ exec[e].step = "reserve"
  /\ ~Exists(exec[e].key)
  /\ NewOperation(e)
  /\ Stop(e)
  /\ UNCHANGED <<spent, aged, sweep, ownerVars>>

\* A transition with one possible predecessor; any other status throws.
Advance(e, step, from, to, next) ==
  /\ exec[e].step = step
  /\ IF Status(exec[e].key) = from
       THEN Record(exec[e].key, to, "none") /\ Goto(e, next)
       ELSE Stop(e) /\ UNCHANGED <<operations, aged>>
  /\ UNCHANGED <<spent, sweep, ownerVars>>

Accept(e) == Advance(e, "accept", "submitted", "accepted", "run")

Run(e) == Advance(e, "run", "accepted", "running", "dispatch")

Outcome(e, to, stage) ==
  exec' = [exec EXCEPT ![e].step = "settleRead", ![e].to = to, ![e].stage = stage]

\* callInfrakineticManagementApi puts the request on the wire ...
Dispatch(e) ==
  /\ exec[e].step = "dispatch"
  /\ dispatches[exec[e].key] < MaxDispatches
  /\ wire' = wire \cup {[executor |-> e, key |-> exec[e].key]}
  /\ dispatches' = [dispatches EXCEPT ![exec[e].key] = @ + 1]
  /\ Goto(e, "wait")
  /\ UNCHANGED <<operations, spent, aged, receipts, effects, replies, sweep>>

\* ... or fails before any byte could leave (isNeverDispatchedNetworkError).
NeverDispatched(e) ==
  /\ exec[e].step = "dispatch"
  /\ Outcome(e, "failed", "never-dispatched")
  /\ UNCHANGED <<operations, spent, aged, sweep, ownerVars>>

\* A direct command's executor reads commandStatus in a 200 (executeIdentityCommand,
\* executeCredentialCommand); an approval's takes every 200 for completion.
ReceiveReply(e) ==
  /\ exec[e].step = "wait"
  /\ \E r \in replies :
       /\ r.executor = e /\ r.key = exec[e].key
       /\ replies' = replies \ {r}
       /\ CASE r.answer = "refused" -> Outcome(e, "failed", "mutation-response")
            [] r.answer = "partially_completed" /\ exec[e].approval = NoRow ->
                 Outcome(e, "partially_completed", "owner-reported-partial")
            [] OTHER -> Outcome(e, "completed", "none")
  /\ UNCHANGED <<operations, spent, aged, receipts, effects, wire, sweep, dispatches>>

\* Mutant: a timeout is taken for a failure.
CallTimesOut_Fails(e) ==
  /\ exec[e].step = "wait"
  /\ Outcome(e, "failed", "mutation-call")
  /\ UNCHANGED <<operations, spent, aged, sweep, ownerVars>>

\* MANAGEMENT_API_TIMEOUT_MS, or a connection that broke: the outcome is unknown.
CallTimesOut(e) ==
  /\ exec[e].step = "wait"
  /\ Outcome(e, "partially_completed", "mutation-call")
  /\ UNCHANGED <<operations, spent, aged, sweep, ownerVars>>

\* transitionOperation reads the current status and validates the edge ...
SettleRead(e) ==
  /\ exec[e].step = "settleRead"
  /\ LET status == Status(exec[e].key)
     IN  IF IsValidTransition(status, exec[e].to)
           THEN exec' = [exec EXCEPT ![e].step = "settleUpdate", ![e].observed = status]
           ELSE Stop(e)
  /\ UNCHANGED <<operations, spent, aged, sweep, ownerVars>>

\* ... and updates the row if it still has that status.
SettleUpdate(e) ==
  /\ exec[e].step = "settleUpdate"
  /\ IF Status(exec[e].key) = exec[e].observed
       THEN Record(exec[e].key, exec[e].to, exec[e].stage)
       ELSE UNCHANGED <<operations, aged>>
  /\ Stop(e)
  /\ UNCHANGED <<spent, sweep, ownerVars>>

\* The process stops, the assertion cannot be minted, or a database call
\* fails: the request ends where it is.
Abandon(e) ==
  /\ exec[e].step # "idle"
  /\ Stop(e)
  /\ UNCHANGED <<operations, spent, aged, sweep, ownerVars>>

(***************************************************************************)
(* The owner, as the code relies on it: it reserves a receipt before it    *)
(* carries a command out, and refuses a request without a trace otherwise. *)
(***************************************************************************)
\* A request that nobody waits for any more arrives only if LateDelivery.
Arrives(r) ==
  /\ r \in wire
  /\ LateDelivery \/ (exec[r.executor].step = "wait" /\ exec[r.executor].key = r.key)

OwnerAccepts(r) ==
  /\ Arrives(r)
  /\ receipts[r.key] = "none"
  /\ receipts' = [receipts EXCEPT ![r.key] = "executing"]
  /\ UNCHANGED <<operations, spent, aged, effects, wire, replies, exec, sweep, dispatches>>

Answer(r, answer) ==
  /\ wire' = wire \ {r}
  /\ replies' = replies \cup {[executor |-> r.executor, key |-> r.key, answer |-> answer]}

\* It may end a command partially, and then says so in the receipt as well.
OwnerFinishes(r) ==
  /\ r \in wire
  /\ receipts[r.key] = "executing"
  /\ \E ended \in {"completed", "partially_completed", "failed"} :
       /\ receipts' = [receipts EXCEPT ![r.key] = ended]
       /\ effects' = IF ended = "completed" THEN effects \cup {r.key} ELSE effects
       /\ Answer(r, IF ended = "failed" THEN "refused" ELSE ended)
  /\ UNCHANGED <<operations, spent, aged, exec, sweep, dispatches>>

OwnerRefuses(r) ==
  /\ Arrives(r)
  /\ receipts[r.key] = "none"
  /\ Answer(r, "refused")
  /\ UNCHANGED <<operations, spent, aged, receipts, effects, exec, sweep, dispatches>>

(***************************************************************************)
(* Reconciliation                                                          *)
(***************************************************************************)
Drives(e, k) ==
  /\ exec[e].step \in {"accept", "run", "dispatch", "wait", "settleRead", "settleUpdate"}
  /\ exec[e].key = k

\* Ten minutes pass without an update of the operation, and the assertion of a
\* request that has not arrived expires (ASSERTION_TTL_SECONDS).
Age(k) ==
  /\ Exists(k)
  /\ Status(k) \in {"submitted", "accepted", "running"}
  /\ SlowExecutors \/ \A e \in Executors : ~Drives(e, k)
  /\ k \notin aged
  /\ aged' = aged \cup {k}
  /\ wire' = {r \in wire : r.key # k \/ receipts[k] = "executing"}
  /\ UNCHANGED <<operations, spent, receipts, effects, replies, exec, sweep, dispatches>>

\* Mutant: an operation stranded while running is not listed.
IsCandidate_NotRunning(k) ==
  /\ Exists(k)
  /\ \/ Status(k) = "partially_completed"
     \/ Status(k) \in {"submitted", "accepted"} /\ k \in aged

\* listStuckOperationCandidates
IsCandidate(k) ==
  /\ Exists(k)
  /\ \/ Status(k) = "partially_completed"
     \/ Status(k) \in {"submitted", "accepted", "running"} /\ k \in aged

\* Mutant: a running operation is failed as one that was never sent.
List_RunningIsStranded(s, k) ==
  /\ sweep[s].step = "idle"
  /\ IsCandidate(k)
  /\ sweep' = [sweep EXCEPT ![s] =
       [step |-> "settleRead", key |-> k, to |-> "failed",
        stage |-> "stranded-before-dispatch", observed |-> "running"]]
  /\ UNCHANGED <<operations, spent, aged, exec, ownerVars>>

\* resolveStuckOperation on the row as it was listed: an operation that never
\* ran is failed, an ambiguous one waits for its receipt, any other is left.
List(s, k) ==
  /\ sweep[s].step = "idle"
  /\ IsCandidate(k)
  /\ LET status == Status(k)
         stranded == status \in {"submitted", "accepted"}
         ambiguous == \/ status = "running"
                      \/ status = "partially_completed"
                           /\ operations[k].stage = "mutation-call"
     IN  /\ stranded \/ (ambiguous /\ HasReceipts)
         /\ sweep' = [sweep EXCEPT ![s] =
              [step |-> IF stranded THEN "settleRead" ELSE "receipt",
               key |-> k, to |-> "failed",
               stage |-> IF stranded THEN "stranded-before-dispatch"
                                     ELSE "resolved-not-dispatched",
               observed |-> status]]
  /\ UNCHANGED <<operations, spent, aged, exec, ownerVars>>

\* Mutant: a command the owner is still at is taken for done.
ReadReceipt_Hopeful(s) ==
  /\ sweep[s].step = "receipt"
  /\ LET receipt == receipts[sweep[s].key]
     IN  sweep' = [sweep EXCEPT ![s] =
           IF receipt \in {"executing", "completed"}
             THEN [@ EXCEPT !.step = "settleRead", !.to = "completed", !.stage = "none"]
             ELSE [@ EXCEPT !.step = "settleRead"]]
  /\ UNCHANGED <<operations, spent, aged, exec, ownerVars>>

\* readCommandReceipt: only a receipt, or its confirmed absence, resolves.  A
\* partial outcome is recorded on an operation listed as running; one listed as
\* partially_completed remains, for an operator.
ReadReceipt(s) ==
  /\ sweep[s].step = "receipt"
  /\ LET receipt == receipts[sweep[s].key]
     IN  sweep' = [sweep EXCEPT ![s] =
           CASE receipt = "completed" ->
                  [@ EXCEPT !.step = "settleRead", !.to = "completed", !.stage = "none"]
             [] receipt \in {"none", "failed"} -> [@ EXCEPT !.step = "settleRead"]
             [] receipt = "partially_completed" /\ sweep[s].observed = "running" ->
                  [@ EXCEPT !.step = "settleRead", !.to = "partially_completed",
                            !.stage = "owner-partial"]
             [] OTHER -> Idle]
  /\ UNCHANGED <<operations, spent, aged, exec, ownerVars>>

SweepSettleRead(s) ==
  /\ sweep[s].step = "settleRead"
  /\ LET status == Status(sweep[s].key)
     IN  sweep' = [sweep EXCEPT ![s] =
           IF IsValidTransition(status, @.to)
             THEN [@ EXCEPT !.step = "settleUpdate", !.observed = status]
             ELSE Idle]
  /\ UNCHANGED <<operations, spent, aged, exec, ownerVars>>

\* Mutant: the sweep overwrites whatever the status has become.
SweepSettleUpdate_Unguarded(s) ==
  /\ sweep[s].step = "settleUpdate"
  /\ Record(sweep[s].key, sweep[s].to, sweep[s].stage)
  /\ sweep' = [sweep EXCEPT ![s] = Idle]
  /\ UNCHANGED <<spent, exec, ownerVars>>

SweepSettleUpdate(s) ==
  /\ sweep[s].step = "settleUpdate"
  /\ IF Status(sweep[s].key) = sweep[s].observed
       THEN Record(sweep[s].key, sweep[s].to, sweep[s].stage)
       ELSE UNCHANGED <<operations, aged>>
  /\ sweep' = [sweep EXCEPT ![s] = Idle]
  /\ UNCHANGED <<spent, exec, ownerVars>>

\* The receipt could not be read, or the sweep stopped.
SweepAbandons(s) ==
  /\ sweep[s].step # "idle"
  /\ sweep' = [sweep EXCEPT ![s] = Idle]
  /\ UNCHANGED <<operations, spent, aged, exec, ownerVars>>

(***************************************************************************)
(* Specification                                                           *)
(***************************************************************************)
ExecutorStep(e) ==
  \/ ReplayCheck(e) \/ Consume(e) \/ Reserve(e) \/ Accept(e) \/ Run(e)
  \/ Dispatch(e) \/ NeverDispatched(e) \/ ReceiveReply(e) \/ CallTimesOut(e)
  \/ SettleRead(e) \/ SettleUpdate(e)

ExecutorFailure(e) == ConsumeReplyLost(e) \/ ReserveReplyLost(e) \/ Abandon(e)

OwnerStep == \E r \in Requests : OwnerAccepts(r) \/ OwnerFinishes(r) \/ OwnerRefuses(r)

SweepStep(s) == ReadReceipt(s) \/ SweepSettleRead(s) \/ SweepSettleUpdate(s)

Next ==
  \/ \E e \in Executors :
       \/ \E k \in Keys, a \in Approvals \cup {NoRow} : Start(e, k, a)
       \/ ExecutorStep(e)
       \/ ExecutorFailure(e)
  \/ OwnerStep
  \/ \E s \in Sweepers :
       SweepStep(s) \/ SweepAbandons(s) \/ \E k \in Keys : List(s, k)
  \/ \E k \in Keys : Age(k)

Spec == Init /\ [][Next]_vars

\* Executors that are not interrupted go on, the owner finishes what it
\* accepted and time passes.  Operators run the reconciliation route again and
\* again, and a repeated sweep is not interrupted at the same step for ever.
Fairness ==
  /\ \A e \in Executors : WF_vars(ExecutorStep(e))
  /\ \A r \in Requests : WF_vars(OwnerFinishes(r))
  /\ \A k \in Keys :
       /\ WF_vars(Age(k))
       /\ SF_vars(\E s \in Sweepers : List(s, k))
  /\ \A s \in Sweepers :
       SF_vars(ReadReceipt(s)) /\ SF_vars(SweepSettleRead(s)) /\ SF_vars(SweepSettleUpdate(s))

FairSpec == Spec /\ Fairness

(***************************************************************************)
(* Properties                                                              *)
(***************************************************************************)
\* "completed" is never recorded on hope: the owner carried the command out,
\* whether the executor learnt it from the reply or reconciliation from a
\* receipt (executeIdentityR3Approval, resolveStuckOperation).  The one
\* exception is an approved command the owner ended partially, whose executor
\* does not read commandStatus.
CompletedMeansExecuted ==
  \A k \in Keys :
    Exists(k) /\ Status(k) = "completed" =>
      \/ k \in effects
      \/ operations[k].approval # NoRow /\ receipts[k] = "partially_completed"

\* A command is sent to the owner once per idempotency key, however often it
\* is requested again after a crash, a timeout or a lost reply (the replay
\* returns of createOrReplayOperation and findApprovalExecutionReplay).
OneDispatchPerKey == \A k \in Keys : dispatches[k] <= 1

\* One approval authorises one operation, under whatever keys its execution is
\* attempted (markExecuted before createOrReplayOperation).
OneCommandPerApproval ==
  \A k, l \in Keys :
    Exists(k) /\ Exists(l) /\ operations[k].approval = operations[l].approval =>
      operations[k].approval = NoRow \/ k = l

\* An operation failed as stranded "never reached the owner mutation call"
\* (resolveStuckOperation, DEFAULT_STRANDED_AFTER_SECONDS).
StrandedNeverDispatched ==
  \A k \in Keys :
    Exists(k) /\ operations[k].stage \in {"stranded-before-dispatch", "never-dispatched"}
      => dispatches[k] = 0

\* "failed" is safe to act on: the owner has carried out no part of the command
\* and will not (ReceiptLookup: "a genuine absence means the request never
\* reached that point").
FailedMeansNotExecuted ==
  \A k \in Keys :
    Exists(k) /\ Status(k) = "failed" =>
      k \notin effects /\ receipts[k] # "partially_completed"

\* The recorded histories, each under the approval it was started with.
Recorded ==
  [k \in Keys |->
     IF Exists(k)
       THEN [hash |-> operations[k].approval, history |-> operations[k].history]
       ELSE NoRow]

\* Executors, replays and sweeps racing on one operation still give it one
\* lifecycle path (transitionOperation): the histories implement the registry.
Registry ==
  INSTANCE OperationRegistry WITH
    Hashes <- Approvals \cup {NoRow}, Unbound <- NoRow, registry <- Recorded

RegistrySpec == Registry!Spec

\* With receipts to read, what a crash, a timeout or a lost reply left open is
\* settled by a sweep (resolveStuckOperations): every operation comes to its
\* end, or to partially_completed with a receipt that says the same, which no
\* sweep takes further.
OperationSettles ==
  \A k \in Keys :
    Exists(k) ~>
      /\ Exists(k)
      /\ \/ Status(k) \in TerminalStatuses
         \/ Status(k) = "partially_completed" /\ receipts[k] = "partially_completed"
===============================================================================
