------------------------ MODULE GovernedCommandProofs ------------------------
(***************************************************************************)
(* Theorems about one governed command, for every set of keys, approvals,  *)
(* executors and sweepers.                                                 *)
(***************************************************************************)
EXTENDS GovernedCommand, TLAPS

ExecStates == {Idle} \cup Executions
SweepStates == {Idle} \cup Sweeps

\* A history is never empty, so an operation has a status.
HistoriesOK == \A k \in Keys : Exists(k) => operations[k].history # <<>>

-----------------------------------------------------------------------------
\* The absence of a row is no row and no approval.
LEMMA NoRowIsNone == NoRow \notin OperationRows /\ NoRow \notin Approvals
  BY CommandAssumption

\* An executor that is at a step has a command.
LEMMA ExecShape ==
  ASSUME TypeOK, NEW e \in Executors, exec[e].step # "idle"
  PROVE  /\ exec[e] \in Executions
         /\ exec[e].key \in Keys /\ exec[e].approval \in Approvals \cup {NoRow}
         /\ exec[e].to \in OperationStatuses /\ exec[e].stage \in Stages
         /\ exec[e].observed \in OperationStatuses
  BY DEF TypeOK, Executions, Idle

LEMMA SweepShape ==
  ASSUME TypeOK, NEW s \in Sweepers, sweep[s].step # "idle"
  PROVE  /\ sweep[s] \in Sweeps
         /\ sweep[s].key \in Keys
         /\ sweep[s].to \in OperationStatuses /\ sweep[s].stage \in Stages
         /\ sweep[s].observed \in OperationStatuses
  BY DEF TypeOK, Sweeps, Idle

\* The status of an operation is the last of its history.
LEMMA StatusOK ==
  ASSUME TypeOK, HistoriesOK, NEW k \in Keys, Exists(k)
  PROVE  Status(k) \in OperationStatuses
<1>1. operations[k] \in OperationRows
  BY DEF TypeOK, Exists
<1>2. operations[k].history \in Seq(OperationStatuses) /\ operations[k].history # <<>>
  BY <1>1 DEF OperationRows, HistoriesOK
<1> QED
  BY <1>2 DEF Status

\* What a transition writes.
LEMMA RecordOK ==
  ASSUME TypeOK, HistoriesOK, NEW k \in Keys, Exists(k),
         NEW to \in OperationStatuses, NEW stage \in Stages, Record(k, to, stage)
  PROVE  /\ operations' \in [Keys -> OperationRows \cup {NoRow}]
         /\ HistoriesOK'
         /\ \A l \in Keys : Exists(l)' <=> Exists(l)
         /\ \A l \in Keys \ {k} : operations'[l] = operations[l]
         /\ operations'[k].approval = operations[k].approval
         /\ operations'[k].history = Append(operations[k].history, to)
         /\ operations'[k].stage = IF stage = "none" THEN operations[k].stage ELSE stage
         /\ Status(k)' = to
<1> DEFINE row == [operations[k] EXCEPT !.history = Append(operations[k].history, to),
                     !.stage = IF stage = "none" THEN operations[k].stage ELSE stage]
<1>1. operations[k] \in OperationRows
  BY DEF TypeOK, Exists
<1>2. operations[k].history \in Seq(OperationStatuses) /\ operations[k].history # <<>>
  BY <1>1 DEF OperationRows, HistoriesOK
<1>3. Append(operations[k].history, to) \in Seq(OperationStatuses)
        /\ Append(operations[k].history, to) # <<>>
  BY <1>2
<1>4. row \in OperationRows
  BY <1>1, <1>3 DEF OperationRows
<1>5. operations' = [operations EXCEPT ![k] = row]
  BY DEF Record, TypeOK
<1>6. operations' \in [Keys -> OperationRows \cup {NoRow}]
  BY <1>4, <1>5 DEF TypeOK
<1>7. /\ operations'[k] = row
      /\ \A l \in Keys \ {k} : operations'[l] = operations[l]
  BY <1>5 DEF TypeOK
<1>8. /\ row.history = Append(operations[k].history, to)
      /\ row.approval = operations[k].approval
      /\ row.stage = IF stage = "none" THEN operations[k].stage ELSE stage
  BY <1>1 DEF OperationRows
<1>9. \A l \in Keys : Exists(l)' <=> Exists(l)
  BY <1>4, <1>7, NoRowIsNone DEF Exists
<1>10. HistoriesOK'
  BY <1>3, <1>7, <1>8, <1>9 DEF HistoriesOK
<1>11. Append(operations[k].history, to)[Len(Append(operations[k].history, to))] = to
  BY <1>2
<1> QED
  BY <1>6, <1>7, <1>8, <1>9, <1>10, <1>11 DEF Status

\* What the creation of an operation writes.
LEMMA NewOperationOK ==
  ASSUME TypeOK, HistoriesOK, NEW e \in Executors, exec[e].step # "idle",
         NEW k \in Keys, k = exec[e].key, ~Exists(k), NewOperation(e)
  PROVE  /\ operations' \in [Keys -> OperationRows \cup {NoRow}]
         /\ HistoriesOK'
         /\ \A l \in Keys : Exists(l)' <=> (Exists(l) \/ l = k)
         /\ \A l \in Keys \ {k} : operations'[l] = operations[l]
         /\ operations'[k].approval = exec[e].approval
         /\ operations'[k].history = <<"submitted">> /\ operations'[k].stage = "none"
         /\ operations'[k] =
              [approval |-> exec[e].approval, history |-> <<"submitted">>, stage |-> "none"]
         /\ Status(k)' = "submitted"
<1> DEFINE row == [approval |-> exec[e].approval, history |-> <<"submitted">>, stage |-> "none"]
<1>1. exec[e].approval \in Approvals \cup {NoRow}
  BY ExecShape
<1>2. row \in OperationRows
  BY <1>1 DEF OperationRows, OperationStatuses, Stages
<1>3. operations' = [operations EXCEPT ![k] = row]
  BY DEF NewOperation
<1>4. operations'[k] = row /\ \A l \in Keys \ {k} : operations'[l] = operations[l]
  BY <1>3 DEF TypeOK
<1>5. \A l \in Keys : Exists(l)' <=> (Exists(l) \/ l = k)
  BY <1>2, <1>4, NoRowIsNone DEF Exists
<1>6. HistoriesOK'
  BY <1>4, <1>5 DEF HistoriesOK
<1>7. operations'[k].history = <<"submitted">>
  BY <1>4
<1>8. Status(k)' = "submitted"
  BY <1>7 DEF Status
<1> QED
  BY <1>2, <1>3, <1>4, <1>5, <1>6, <1>8 DEF TypeOK

\* What the steps of an executor leave it at.
LEMMA GotoOK ==
  ASSUME TypeOK, NEW e \in Executors, exec[e].step # "idle",
         NEW step \in ExecutorSteps, Goto(e, step)
  PROVE  /\ exec' \in [Executors -> ExecStates]
         /\ \A f \in Executors \ {e} : exec'[f] = exec[f]
         /\ exec'[e] = [exec[e] EXCEPT !.step = step]
         /\ exec'[e].step = step /\ exec'[e].key = exec[e].key
         /\ exec'[e].approval = exec[e].approval
         /\ exec'[e].to = exec[e].to /\ exec'[e].stage = exec[e].stage
         /\ exec'[e].observed = exec[e].observed
  BY ExecShape DEF TypeOK, ExecStates, Goto, Executions

LEMMA StopOK ==
  ASSUME TypeOK, NEW e \in Executors, Stop(e)
  PROVE  /\ exec' \in [Executors -> ExecStates]
         /\ \A f \in Executors \ {e} : exec'[f] = exec[f]
         /\ exec'[e] = Idle /\ exec'[e].step = "idle"
  BY DEF TypeOK, ExecStates, Stop, Idle

LEMMA OutcomeOK ==
  ASSUME TypeOK, NEW e \in Executors, exec[e].step # "idle",
         NEW to \in OperationStatuses, NEW stage \in Stages, Outcome(e, to, stage)
  PROVE  /\ exec' \in [Executors -> ExecStates]
         /\ \A f \in Executors \ {e} : exec'[f] = exec[f]
         /\ exec'[e].step = "settleRead" /\ exec'[e].key = exec[e].key
         /\ exec'[e].approval = exec[e].approval
         /\ exec'[e].to = to /\ exec'[e].stage = stage
         /\ exec'[e].observed = exec[e].observed
<1>1. exec[e] \in Executions
  BY ExecShape
<1>2. exec' = [exec EXCEPT ![e] = [exec[e] EXCEPT !.step = "settleRead", !.to = to, !.stage = stage]]
  BY DEF Outcome, TypeOK
<1> QED
  BY <1>1, <1>2 DEF TypeOK, ExecStates, Executions, ExecutorSteps

-----------------------------------------------------------------------------
(***************************************************************************)
(* The inductive invariant                                                 *)
(***************************************************************************)
\* The steps of an executor that has created its operation.
DrivingSteps == {"accept", "run", "dispatch", "wait", "settleRead", "settleUpdate"}

\* What makes a recorded "completed" true.
Done(k) ==
  \/ k \in effects
  \/ operations[k].approval # NoRow /\ receipts[k] = "partially_completed"

\* What the state x of an executor relies on.
ExecClaims(x) ==
  /\ x.step \in {"replayCheck", "consume"} => x.approval # NoRow
  /\ x.step \in DrivingSteps => Exists(x.key) /\ operations[x.key].approval = x.approval
  /\ x.step \in {"accept", "run", "dispatch"} => dispatches[x.key] = 0
  /\ x.step = "reserve" /\ x.approval # NoRow =>
       /\ x.approval \in spent
       /\ \A k \in Keys : Exists(k) => operations[k].approval # x.approval
  /\ x.step # "idle" /\ x.to = "completed" =>
       x.step \in {"settleRead", "settleUpdate"} /\ Done(x.key)
  /\ x.step = "settleUpdate" => IsValidTransition(x.observed, x.to)

\* Two executors never drive one operation, nor hold one approval.
Apart(x, y) ==
  /\ x.step \in DrivingSteps /\ y.step \in DrivingSteps => x.key # y.key
  /\ x.step = "reserve" /\ y.step = "reserve" => x.approval = NoRow \/ x.approval # y.approval

\* What the state x of a sweeper relies on.
SweepClaims(x) ==
  x.step # "idle" =>
    /\ Exists(x.key)
    /\ x.to = "completed" => x.key \in effects
    /\ x.step = "settleUpdate" => IsValidTransition(x.observed, x.to)

ExecsOK ==
  /\ \A e \in Executors : ExecClaims(exec[e])
  /\ \A e, f \in Executors : e # f => Apart(exec[e], exec[f])

SweepsOK == \A s \in Sweepers : SweepClaims(sweep[s])

\* A request goes out for an existing operation, and an operation's approval is spent.
LedgerOK ==
  \A k \in Keys :
    /\ dispatches[k] # 0 => Exists(k)
    /\ Exists(k) /\ operations[k].approval # NoRow => operations[k].approval \in spent

\* The owner's answers are true.
OwnerOK ==
  /\ \A k \in Keys : receipts[k] = "completed" => k \in effects
  /\ \A r \in replies :
       /\ r.answer = "completed" => r.key \in effects
       /\ r.answer = "partially_completed" => receipts[r.key] = "partially_completed"

IInv ==
  /\ TypeOK
  /\ HistoriesOK
  /\ ExecsOK
  /\ SweepsOK
  /\ LedgerOK
  /\ OwnerOK
  /\ OneDispatchPerKey
  /\ OneCommandPerApproval
  /\ CompletedMeansExecuted

LEMMA InitIInv == Init => IInv
<1> SUFFICES ASSUME Init PROVE IInv
  OBVIOUS
<1>1. TypeOK
  BY DEF Init, TypeOK, ReceiptStatuses
<1>2. HistoriesOK /\ LedgerOK /\ OneCommandPerApproval /\ CompletedMeansExecuted
  BY DEF Init, HistoriesOK, LedgerOK, OneCommandPerApproval, CompletedMeansExecuted, Exists
<1>3. ExecsOK
  BY DEF Init, ExecsOK, ExecClaims, Apart, Idle, DrivingSteps
<1>4. SweepsOK /\ OwnerOK /\ OneDispatchPerKey
  BY DEF Init, SweepsOK, SweepClaims, OwnerOK, Idle, OneDispatchPerKey
<1> QED
  BY <1>1, <1>2, <1>3, <1>4 DEF IInv

-----------------------------------------------------------------------------
(***************************************************************************)
(* Steps that write neither the ledger nor the owner's state               *)
(***************************************************************************)
\* Executor e moves to a state x whose claims hold.
LEMMA ExecStep ==
  ASSUME IInv, NEW e \in Executors, NEW x \in ExecStates,
         exec' = [exec EXCEPT ![e] = x],
         spent \subseteq spent', spent' \subseteq Approvals,
         UNCHANGED <<operations, aged, sweep, ownerVars>>,
         ExecClaims(x)',
         \A f \in Executors \ {e} : Apart(x, exec[f])
  PROVE  IInv'
<1>1. TypeOK'
  BY DEF IInv, TypeOK, ownerVars, ExecStates
<1>2. /\ exec'[e] = x
      /\ \A f \in Executors \ {e} : exec'[f] = exec[f]
  BY DEF IInv, TypeOK
<1>3. \A f \in Executors \ {e} : ExecClaims(exec[f])'
  BY <1>2 DEF IInv, ExecsOK, ExecClaims, Done, Exists, ownerVars
<1>4. ExecsOK'
  BY <1>2, <1>3 DEF IInv, ExecsOK, Apart
<1>5. SweepsOK' /\ HistoriesOK'
  BY DEF IInv, SweepsOK, SweepClaims, HistoriesOK, Exists, ownerVars
<1>6. LedgerOK' /\ OwnerOK' /\ OneDispatchPerKey'
  BY DEF IInv, LedgerOK, OwnerOK, OneDispatchPerKey, Exists, ownerVars
<1>7. OneCommandPerApproval' /\ CompletedMeansExecuted'
  BY DEF IInv, OneCommandPerApproval, CompletedMeansExecuted, Exists, Status, ownerVars
<1> QED
  BY <1>1, <1>4, <1>5, <1>6, <1>7 DEF IInv

\* Sweeper s moves to a state x whose claims hold.
LEMMA SweepMove ==
  ASSUME IInv, NEW s \in Sweepers, NEW x \in SweepStates,
         sweep' = [sweep EXCEPT ![s] = x],
         UNCHANGED <<operations, spent, aged, exec, ownerVars>>,
         SweepClaims(x)
  PROVE  IInv'
<1>1. TypeOK'
  BY DEF IInv, TypeOK, ownerVars, SweepStates
<1>2. SweepsOK'
  BY DEF IInv, TypeOK, SweepsOK, SweepClaims, Exists, ownerVars
<1>3. ExecsOK'
  BY DEF IInv, ExecsOK, ExecClaims, Done, Apart, Exists, ownerVars
<1>4. LedgerOK' /\ OwnerOK' /\ OneDispatchPerKey' /\ HistoriesOK'
  BY DEF IInv, LedgerOK, OwnerOK, OneDispatchPerKey, HistoriesOK, Exists, ownerVars
<1>5. OneCommandPerApproval' /\ CompletedMeansExecuted'
  BY DEF IInv, OneCommandPerApproval, CompletedMeansExecuted, Exists, Status, ownerVars
<1> QED
  BY <1>1, <1>2, <1>3, <1>4, <1>5 DEF IInv

\* A state that has ended claims nothing.
LEMMA IdleClaims ==
  /\ Idle \in ExecStates /\ Idle \in SweepStates
  /\ ExecClaims(Idle) /\ ExecClaims(Idle)' /\ SweepClaims(Idle)
  /\ \A y : Apart(Idle, y)
  BY DEF Idle, ExecStates, SweepStates, ExecClaims, SweepClaims, Apart, DrivingSteps

LEMMA ExecStops ==
  ASSUME IInv, NEW e \in Executors, Stop(e), spent \subseteq spent', spent' \subseteq Approvals,
         UNCHANGED <<operations, aged, sweep, ownerVars>>
  PROVE  IInv'
  BY ExecStep, IdleClaims DEF Stop

\* A command comes in.
LEMMA StartStep ==
  ASSUME IInv, NEW e \in Executors, NEW k \in Keys, NEW a \in Approvals \cup {NoRow},
         Start(e, k, a)
  PROVE  IInv'
<1> DEFINE x == [step |-> IF a = NoRow THEN "reserve" ELSE "replayCheck", key |-> k,
                 approval |-> a, to |-> "failed", stage |-> "none", observed |-> "running"]
<1>1. x \in ExecStates
  BY DEF ExecStates, Executions, ExecutorSteps, OperationStatuses, Stages
<1>2. ExecClaims(x)'
  BY DEF ExecClaims, DrivingSteps
<1>3. \A f \in Executors \ {e} : Apart(x, exec[f])
  BY DEF Apart, DrivingSteps
<1> QED
  BY <1>1, <1>2, <1>3, ExecStep DEF Start, IInv, TypeOK

\* The state of an executor after a step.
LEMMA Stepped ==
  ASSUME TypeOK, NEW e \in Executors, exec[e].step # "idle", NEW step \in ExecutorSteps
  PROVE  \E x \in Executions :
           /\ x = [exec[e] EXCEPT !.step = step]
           /\ x.step = step /\ x.key = exec[e].key /\ x.approval = exec[e].approval
           /\ x.to = exec[e].to /\ x.stage = exec[e].stage /\ x.observed = exec[e].observed
<1> DEFINE y == [exec[e] EXCEPT !.step = step]
<1>1. exec[e] \in Executions
  BY ExecShape
<1>2. y \in Executions
  BY <1>1 DEF Executions
<1>3. /\ y.step = step /\ y.key = exec[e].key /\ y.approval = exec[e].approval
      /\ y.to = exec[e].to /\ y.stage = exec[e].stage /\ y.observed = exec[e].observed
  BY <1>1 DEF Executions
<1> HIDE DEF y
<1>4. \E x \in Executions :
        /\ x = y
        /\ x.step = step /\ x.key = exec[e].key /\ x.approval = exec[e].approval
        /\ x.to = exec[e].to /\ x.stage = exec[e].stage /\ x.observed = exec[e].observed
  BY <1>2, <1>3
<1> QED
  BY <1>4 DEF y

LEMMA ReplayCheckStep ==
  ASSUME IInv, NEW e \in Executors, ReplayCheck(e)
  PROVE  IInv'
<1>1. CASE Stop(e)
  BY <1>1, ExecStops DEF ReplayCheck, IInv, TypeOK
<1>2. CASE Goto(e, "consume")
  <2>1. PICK x \in Executions : /\ x = [exec[e] EXCEPT !.step = "consume"]
                                /\ x.step = "consume" /\ x.to = exec[e].to /\ x.key = exec[e].key
    BY Stepped DEF ReplayCheck, IInv, ExecutorSteps
  <2>2. ExecClaims(x)' /\ \A f \in Executors \ {e} : Apart(x, exec[f])
    BY <2>1 DEF ReplayCheck, IInv, ExecsOK, ExecClaims, Apart, DrivingSteps, ownerVars
  <2> QED
    BY <1>2, <2>1, <2>2, ExecStep DEF ReplayCheck, Goto, IInv, TypeOK, ExecStates
<1> QED
  BY <1>1, <1>2 DEF ReplayCheck

\* Only one execution spends the approval, so it alone holds it.
LEMMA ConsumeStep ==
  ASSUME IInv, NEW e \in Executors, Consume(e)
  PROVE  IInv'
<1>1. CASE Stop(e) /\ UNCHANGED spent
  BY <1>1, ExecStops DEF Consume, IInv, TypeOK
<1>2. CASE /\ exec[e].approval \notin spent
           /\ Goto(e, "reserve") /\ spent' = spent \cup {exec[e].approval}
  <2>1. PICK x \in Executions :
          /\ x = [exec[e] EXCEPT !.step = "reserve"]
          /\ x.step = "reserve" /\ x.to = exec[e].to /\ x.key = exec[e].key
          /\ x.approval = exec[e].approval
    BY Stepped DEF Consume, IInv, ExecutorSteps
  <2>2. x.approval \in Approvals \cup {NoRow}
    BY DEF Executions
  <2>3. ExecClaims(x)'
    BY <1>2, <2>1 DEF Consume, IInv, ExecsOK, ExecClaims, LedgerOK, DrivingSteps, Exists, ownerVars
  <2>4. \A f \in Executors \ {e} : Apart(x, exec[f])
    BY <1>2, <2>1 DEF IInv, ExecsOK, ExecClaims, Apart, DrivingSteps
  <2>5. exec[e].approval \in Approvals
    BY <2>1, <2>2 DEF Consume, IInv, ExecsOK, ExecClaims
  <2> QED
    BY <1>2, <2>1, <2>3, <2>4, <2>5, ExecStep DEF Consume, Goto, IInv, TypeOK, ExecStates
<1> QED
  BY <1>1, <1>2 DEF Consume

LEMMA ConsumeReplyLostStep ==
  ASSUME IInv, NEW e \in Executors, ConsumeReplyLost(e)
  PROVE  IInv'
<1>1. exec[e].approval \in Approvals
  BY ExecShape DEF ConsumeReplyLost, IInv, ExecsOK, ExecClaims
<1> QED
  BY <1>1, ExecStops DEF ConsumeReplyLost, IInv, TypeOK

LEMMA AbandonStep ==
  ASSUME IInv, NEW e \in Executors, Abandon(e)
  PROVE  IInv'
  BY ExecStops DEF Abandon, IInv, TypeOK

\* An executor that drives its operation goes on driving it.
LEMMA DrivesOn ==
  ASSUME IInv, NEW e \in Executors, exec[e].step \in DrivingSteps,
         NEW x, x.step \in DrivingSteps, x.key = exec[e].key
  PROVE  \A f \in Executors \ {e} : Apart(x, exec[f])
  BY DEF IInv, ExecsOK, Apart, DrivingSteps

\* An executor about to record an outcome: true, if it is "completed".
LEMMA OutcomeStep ==
  ASSUME IInv, NEW e \in Executors, exec[e].step \in {"dispatch", "wait"},
         NEW to \in OperationStatuses, NEW stage \in Stages, Outcome(e, to, stage),
         to = "completed" => Done(exec[e].key),
         UNCHANGED <<operations, spent, aged, sweep, ownerVars>>
  PROVE  IInv'
<1>1. exec'[e].step = "settleRead" /\ exec'[e].key = exec[e].key /\ exec'[e].to = to
        /\ exec'[e].approval = exec[e].approval /\ exec' \in [Executors -> ExecStates]
  BY OutcomeOK DEF IInv
<1>2. PICK x \in ExecStates : x = exec'[e]
  BY <1>1
<1>3. exec' = [exec EXCEPT ![e] = x]
  BY <1>1, <1>2 DEF Outcome, IInv, TypeOK
<1>4. Exists(x.key) /\ operations[x.key].approval = x.approval
  BY <1>1, <1>2 DEF IInv, ExecsOK, ExecClaims, DrivingSteps
<1>5. ExecClaims(x)'
  BY <1>1, <1>2, <1>4 DEF ExecClaims, Done, DrivingSteps, ownerVars, Exists
<1>6. \A f \in Executors \ {e} : Apart(x, exec[f])
  BY <1>1, <1>2, DrivesOn DEF DrivingSteps
<1> QED
  BY <1>3, <1>5, <1>6, ExecStep DEF IInv, TypeOK

LEMMA NeverDispatchedStep ==
  ASSUME IInv, NEW e \in Executors, NeverDispatched(e)
  PROVE  IInv'
  BY OutcomeStep DEF NeverDispatched, OperationStatuses, Stages

LEMMA CallTimesOutStep ==
  ASSUME IInv, NEW e \in Executors, CallTimesOut(e)
  PROVE  IInv'
  BY OutcomeStep DEF CallTimesOut, OperationStatuses, Stages

LEMMA SettleReadStep ==
  ASSUME IInv, NEW e \in Executors, SettleRead(e)
  PROVE  IInv'
<1> DEFINE status == Status(exec[e].key)
<1>1. CASE ~IsValidTransition(status, exec[e].to)
  BY <1>1, ExecStops DEF SettleRead, IInv, TypeOK
<1>2. CASE IsValidTransition(status, exec[e].to)
  <2>1. exec[e] \in Executions /\ exec[e].key \in Keys
    BY ExecShape DEF SettleRead, IInv
  <2>2. Exists(exec[e].key)
    BY DEF SettleRead, IInv, ExecsOK, ExecClaims, DrivingSteps
  <2>3. status \in OperationStatuses
    BY <2>1, <2>2, StatusOK DEF IInv
  <2>4. PICK x : x = [exec[e] EXCEPT !.step = "settleUpdate", !.observed = status]
    OBVIOUS
  <2>5. /\ x \in Executions /\ x.step = "settleUpdate" /\ x.observed = status
        /\ x.key = exec[e].key /\ x.to = exec[e].to /\ x.approval = exec[e].approval
    BY <2>1, <2>3, <2>4 DEF Executions, ExecutorSteps
  <2>6. exec' = [exec EXCEPT ![e] = x]
    BY <1>2, <2>4 DEF SettleRead, IInv, TypeOK
  <2>7. ExecClaims(x)'
    BY <1>2, <2>2, <2>5
    DEF SettleRead, IInv, ExecsOK, ExecClaims, Done, DrivingSteps, Exists, ownerVars
  <2>8. \A f \in Executors \ {e} : Apart(x, exec[f])
    BY <2>5, DrivesOn DEF SettleRead, DrivingSteps
  <2> QED
    BY <2>5, <2>6, <2>7, <2>8, ExecStep DEF SettleRead, IInv, TypeOK, ExecStates
<1> QED
  BY <1>1, <1>2

-----------------------------------------------------------------------------
(***************************************************************************)
(* Sweeps, up to their write                                               *)
(***************************************************************************)
LEMMA ListStep ==
  ASSUME IInv, NEW s \in Sweepers, NEW k \in Keys, List(s, k)
  PROVE  IInv'
<1> DEFINE stranded == Status(k) \in {"submitted", "accepted"}
<1>1. PICK x : x = [step |-> IF stranded THEN "settleRead" ELSE "receipt",
                    key |-> k, to |-> "failed",
                    stage |-> IF stranded THEN "stranded-before-dispatch"
                                          ELSE "resolved-not-dispatched",
                    observed |-> Status(k)]
  OBVIOUS
<1>2. sweep' = [sweep EXCEPT ![s] = x] /\ Status(k) \in OperationStatuses
  BY <1>1, StatusOK DEF List, IsCandidate, IInv
<1>3. /\ x \in Sweeps /\ x.key = k /\ x.to = "failed"
      /\ x.step \in {"settleRead", "receipt"}
  BY <1>1, <1>2 DEF Sweeps, SweepSteps, OperationStatuses, Stages
<1>4. SweepClaims(x)
  BY <1>3 DEF SweepClaims, List, IsCandidate
<1> QED
  BY <1>2, <1>3, <1>4, SweepMove DEF List, SweepStates

LEMMA SweepStops ==
  ASSUME IInv, NEW s \in Sweepers, sweep' = [sweep EXCEPT ![s] = Idle],
         UNCHANGED <<operations, spent, aged, exec, ownerVars>>
  PROVE  IInv'
  BY SweepMove, IdleClaims

\* A receipt that says "completed" is true.
LEMMA ReadReceiptStep ==
  ASSUME IInv, NEW s \in Sweepers, ReadReceipt(s)
  PROVE  IInv'
<1> DEFINE receipt == receipts[sweep[s].key]
<1>1. sweep[s] \in Sweeps /\ sweep[s].key \in Keys /\ Exists(sweep[s].key)
  BY SweepShape DEF ReadReceipt, IInv, SweepsOK, SweepClaims
<1>2. CASE receipt = "completed"
  <2>1. PICK x : x = [sweep[s] EXCEPT !.step = "settleRead", !.to = "completed", !.stage = "none"]
    OBVIOUS
  <2>2. x \in Sweeps /\ x.step = "settleRead" /\ x.key = sweep[s].key /\ x.to = "completed"
    BY <1>1, <2>1 DEF Sweeps, SweepSteps, OperationStatuses, Stages
  <2>3. sweep' = [sweep EXCEPT ![s] = x]
    BY <1>2, <2>1 DEF ReadReceipt, IInv, TypeOK
  <2>4. SweepClaims(x)
    BY <1>1, <1>2, <2>2 DEF IInv, OwnerOK, SweepClaims
  <2> QED
    BY <2>2, <2>3, <2>4, SweepMove DEF ReadReceipt, SweepStates
<1>3. CASE receipt \in {"none", "failed"}
  <2>1. PICK x : x = [sweep[s] EXCEPT !.step = "settleRead"]
    OBVIOUS
  <2>2. x \in Sweeps /\ x.step = "settleRead" /\ x.key = sweep[s].key /\ x.to = sweep[s].to
    BY <1>1, <2>1 DEF Sweeps, SweepSteps
  <2>3. sweep' = [sweep EXCEPT ![s] = x]
    BY <1>3, <2>1 DEF ReadReceipt, IInv, TypeOK
  <2>4. SweepClaims(x)
    BY <1>1, <2>2 DEF ReadReceipt, IInv, SweepsOK, SweepClaims
  <2> QED
    BY <2>2, <2>3, <2>4, SweepMove DEF ReadReceipt, SweepStates
<1>4. CASE receipt = "partially_completed" /\ sweep[s].observed = "running"
  <2>1. PICK x : x = [sweep[s] EXCEPT !.step = "settleRead", !.to = "partially_completed",
                                      !.stage = "owner-partial"]
    OBVIOUS
  <2>2. /\ x \in Sweeps /\ x.step = "settleRead" /\ x.key = sweep[s].key
        /\ x.to = "partially_completed" /\ x.stage = "owner-partial"
    BY <1>1, <2>1 DEF Sweeps, SweepSteps, OperationStatuses, Stages
  <2>3. sweep' = [sweep EXCEPT ![s] = x]
    BY <1>4, <2>1 DEF ReadReceipt, IInv, TypeOK
  <2>4. SweepClaims(x)
    BY <1>1, <2>2 DEF SweepClaims
  <2> QED
    BY <2>2, <2>3, <2>4, SweepMove DEF ReadReceipt, SweepStates
<1>5. CASE receipt \notin {"none", "failed", "completed"}
           /\ ~(receipt = "partially_completed" /\ sweep[s].observed = "running")
  BY <1>5, SweepStops DEF ReadReceipt
<1> QED
  BY <1>2, <1>3, <1>4, <1>5

LEMMA SweepSettleReadStep ==
  ASSUME IInv, NEW s \in Sweepers, SweepSettleRead(s)
  PROVE  IInv'
<1> DEFINE status == Status(sweep[s].key)
<1>1. sweep[s] \in Sweeps /\ sweep[s].key \in Keys /\ Exists(sweep[s].key)
  BY SweepShape DEF SweepSettleRead, IInv, SweepsOK, SweepClaims
<1>2. CASE ~IsValidTransition(status, sweep[s].to)
  BY <1>2, SweepStops DEF SweepSettleRead, IInv, TypeOK
<1>3. CASE IsValidTransition(status, sweep[s].to)
  <2>1. status \in OperationStatuses
    BY <1>1, StatusOK DEF IInv
  <2>2. PICK x : x = [sweep[s] EXCEPT !.step = "settleUpdate", !.observed = status]
    OBVIOUS
  <2>3. /\ x \in Sweeps /\ x.step = "settleUpdate" /\ x.observed = status
        /\ x.key = sweep[s].key /\ x.to = sweep[s].to
    BY <1>1, <2>1, <2>2 DEF Sweeps, SweepSteps
  <2>4. sweep' = [sweep EXCEPT ![s] = x]
    BY <1>3, <2>2 DEF SweepSettleRead, IInv, TypeOK
  <2>5. SweepClaims(x)
    BY <1>1, <1>3, <2>3 DEF SweepSettleRead, IInv, SweepsOK, SweepClaims
  <2> QED
    BY <2>3, <2>4, <2>5, SweepMove DEF SweepSettleRead, SweepStates
<1> QED
  BY <1>2, <1>3

LEMMA SweepAbandonsStep ==
  ASSUME IInv, NEW s \in Sweepers, SweepAbandons(s)
  PROVE  IInv'
  BY SweepStops DEF SweepAbandons

-----------------------------------------------------------------------------
(***************************************************************************)
(* Steps that write the ledger                                             *)
(***************************************************************************)
\* Executor e creates its operation and goes on to a state x.
LEMMA CreateStep ==
  ASSUME IInv, NEW e \in Executors, exec[e].step = "reserve",
         NEW k \in Keys, k = exec[e].key, ~Exists(k), NewOperation(e),
         NEW x \in ExecStates, exec' = [exec EXCEPT ![e] = x],
         x = Idle \/ /\ x.step = "accept" /\ x.key = k /\ x.to = exec[e].to
                     /\ x.approval = exec[e].approval,
         UNCHANGED <<spent, aged, sweep, ownerVars>>
  PROVE  IInv'
<1>1. /\ operations' \in [Keys -> OperationRows \cup {NoRow}]
      /\ HistoriesOK'
      /\ \A l \in Keys : Exists(l)' <=> (Exists(l) \/ l = k)
      /\ \A l \in Keys \ {k} : operations'[l] = operations[l]
      /\ operations'[k].approval = exec[e].approval
      /\ Status(k)' = "submitted"
  BY NewOperationOK DEF IInv
<1>2. TypeOK'
  BY <1>1 DEF IInv, TypeOK, ownerVars, ExecStates
<1>3. exec'[e] = x /\ \A f \in Executors \ {e} : exec'[f] = exec[f]
  BY DEF IInv, TypeOK
<1>4. \A f \in Executors : exec[f].step # "idle" => exec[f].key \in Keys
  BY ExecShape DEF IInv
<1>5. \A f \in Executors \ {e} : ExecClaims(exec[f])'
  <2> SUFFICES ASSUME NEW f \in Executors \ {e} PROVE ExecClaims(exec[f])'
    OBVIOUS
  <2>1. ExecClaims(exec[f]) /\ Apart(exec[e], exec[f])
    BY DEF IInv, ExecsOK
  <2> QED
    BY <1>1, <1>3, <1>4, <2>1 DEF ExecClaims, Done, Apart, DrivingSteps, ownerVars
<1>6. ExecClaims(x)'
  BY <1>1 DEF IInv, ExecsOK, ExecClaims, LedgerOK, DrivingSteps, Idle, ownerVars
<1>7. \A f \in Executors \ {e} : Apart(x, exec[f])
  BY DEF IInv, ExecsOK, ExecClaims, Apart, DrivingSteps, Idle
<1>8. ExecsOK'
  BY <1>3, <1>5, <1>6, <1>7 DEF IInv, ExecsOK, Apart
<1>9. SweepsOK' /\ LedgerOK' /\ OneCommandPerApproval' /\ CompletedMeansExecuted'
  <2>1. SweepsOK'
    BY <1>1, SweepShape DEF IInv, SweepsOK, SweepClaims, ownerVars
  <2>2. exec[e].approval # NoRow =>
          /\ exec[e].approval \in spent
          /\ \A l \in Keys : Exists(l) => operations[l].approval # exec[e].approval
    BY DEF IInv, ExecsOK, ExecClaims
  <2>3. LedgerOK'
    BY <1>1, <2>2 DEF IInv, LedgerOK, ownerVars
  <2>4. OneCommandPerApproval'
    BY <1>1, <2>2 DEF IInv, OneCommandPerApproval
  <2>5. CompletedMeansExecuted'
    BY <1>1 DEF IInv, CompletedMeansExecuted, Status, ownerVars
  <2> QED
    BY <2>1, <2>3, <2>4, <2>5
<1>10. OwnerOK' /\ OneDispatchPerKey'
  BY DEF IInv, OwnerOK, OneDispatchPerKey, ownerVars
<1> QED
  BY <1>1, <1>2, <1>8, <1>9, <1>10 DEF IInv

LEMMA ReserveStep ==
  ASSUME IInv, NEW e \in Executors, Reserve(e)
  PROVE  IInv'
<1>1. CASE Exists(exec[e].key)
  BY <1>1, ExecStops DEF Reserve, IInv, TypeOK
<1>2. CASE ~Exists(exec[e].key)
  <2>1. PICK x \in Executions : /\ x = [exec[e] EXCEPT !.step = "accept"]
                                /\ x.step = "accept" /\ x.to = exec[e].to /\ x.key = exec[e].key
                                /\ x.approval = exec[e].approval
    BY Stepped DEF Reserve, IInv, ExecutorSteps
  <2>2. PICK k \in Keys : k = exec[e].key
    BY ExecShape DEF Reserve, IInv
  <2> QED
    BY <1>2, <2>1, <2>2, CreateStep DEF Reserve, Goto, IInv, TypeOK, ExecStates
<1> QED
  BY <1>1, <1>2

LEMMA ReserveReplyLostStep ==
  ASSUME IInv, NEW e \in Executors, ReserveReplyLost(e)
  PROVE  IInv'
<1>1. PICK k \in Keys : k = exec[e].key
  BY ExecShape DEF ReserveReplyLost, IInv
<1> QED
  BY <1>1, IdleClaims, CreateStep DEF ReserveReplyLost, Stop

\* A transition that is honest: it leaves the claims of everyone as they are.
LEMMA RecordStep ==
  ASSUME IInv, NEW k \in Keys, Exists(k), NEW to \in OperationStatuses, NEW stage \in Stages,
         Record(k, to, stage), to = "completed" => Done(k),
         UNCHANGED <<spent, ownerVars>>
  PROVE  /\ HistoriesOK' /\ LedgerOK' /\ OwnerOK' /\ OneDispatchPerKey'
         /\ OneCommandPerApproval' /\ CompletedMeansExecuted'
         /\ operations' \in [Keys -> OperationRows \cup {NoRow}] /\ aged' \subseteq Keys
         /\ \A l \in Keys : Exists(l)' <=> Exists(l)
         /\ \A x \in ExecStates : ExecClaims(x) => ExecClaims(x)'
         /\ \A x \in SweepStates : SweepClaims(x) => SweepClaims(x)'
<1>1. /\ operations' \in [Keys -> OperationRows \cup {NoRow}]
      /\ HistoriesOK'
      /\ \A l \in Keys : Exists(l)' <=> Exists(l)
      /\ \A l \in Keys \ {k} : operations'[l] = operations[l]
      /\ operations'[k].approval = operations[k].approval
      /\ Status(k)' = to
  BY RecordOK DEF IInv
<1>2. aged' \subseteq Keys
  BY DEF Record, IInv, TypeOK
<1>3. \A l \in Keys : operations'[l].approval = operations[l].approval
  BY <1>1
<1>4. LedgerOK' /\ OneCommandPerApproval'
  BY <1>1, <1>3 DEF IInv, LedgerOK, OneCommandPerApproval, ownerVars
<1>5. CompletedMeansExecuted'
  BY <1>1, <1>3 DEF IInv, CompletedMeansExecuted, Done, Status, ownerVars
<1>6. OwnerOK' /\ OneDispatchPerKey'
  BY DEF IInv, OwnerOK, OneDispatchPerKey, ownerVars
<1>7. \A x \in ExecStates : ExecClaims(x) => ExecClaims(x)'
  BY <1>1, <1>3 DEF ExecStates, Executions, Idle, ExecClaims, Done, DrivingSteps, ownerVars
<1>8. \A x \in SweepStates : SweepClaims(x) => SweepClaims(x)'
  BY <1>1 DEF SweepStates, Sweeps, Idle, SweepClaims, ownerVars
<1> QED
  BY <1>1, <1>2, <1>4, <1>5, <1>6, <1>7, <1>8

\* Executor e records a transition of its operation and goes on to a state x.
LEMMA ExecRecords ==
  ASSUME IInv, NEW e \in Executors, NEW k \in Keys, exec[e].step \in DrivingSteps, k = exec[e].key,
         NEW to \in OperationStatuses, NEW stage \in Stages,
         Record(k, to, stage), to = "completed" => Done(k),
         NEW x \in ExecStates, exec' = [exec EXCEPT ![e] = x], ExecClaims(x),
         x = Idle \/ (x.step \in DrivingSteps /\ x.key = k),
         UNCHANGED <<spent, sweep, ownerVars>>
  PROVE  IInv'
<1>1. Exists(k)
  BY DEF IInv, ExecsOK, ExecClaims
<1>2. /\ HistoriesOK' /\ LedgerOK' /\ OwnerOK' /\ OneDispatchPerKey'
      /\ OneCommandPerApproval' /\ CompletedMeansExecuted'
      /\ operations' \in [Keys -> OperationRows \cup {NoRow}] /\ aged' \subseteq Keys
      /\ \A l \in Keys : Exists(l)' <=> Exists(l)
      /\ \A y \in ExecStates : ExecClaims(y) => ExecClaims(y)'
      /\ \A y \in SweepStates : SweepClaims(y) => SweepClaims(y)'
  BY <1>1, RecordStep
<1>3. TypeOK'
  BY <1>2 DEF IInv, TypeOK, ownerVars, ExecStates
<1>4. exec'[e] = x /\ \A f \in Executors \ {e} : exec'[f] = exec[f]
  BY DEF IInv, TypeOK
<1>5. \A f \in Executors : exec[f] \in ExecStates /\ ExecClaims(exec[f])
  BY DEF IInv, TypeOK, ExecStates, ExecsOK
<1>6. \A f \in Executors : ExecClaims(exec[f])'
  <2> SUFFICES ASSUME NEW f \in Executors PROVE ExecClaims(exec[f])'
    OBVIOUS
  <2>1. PICK y \in ExecStates : y = exec'[f] /\ ExecClaims(y)
    BY <1>4, <1>5
  <2>2. ExecClaims(y)'
    BY <1>2, <2>1
  <2> QED
    BY <2>1, <2>2
<1>7. \A f \in Executors \ {e} : Apart(x, exec[f])
  BY DrivesOn, IdleClaims
<1>8. ExecsOK'
  BY <1>4, <1>6, <1>7 DEF IInv, ExecsOK, Apart
<1>9. SweepsOK'
  <2> SUFFICES ASSUME NEW s \in Sweepers PROVE SweepClaims(sweep[s])'
    BY DEF SweepsOK
  <2>1. PICK y \in SweepStates : y = sweep'[s] /\ SweepClaims(y)
    BY DEF IInv, TypeOK, SweepStates, SweepsOK
  <2>2. SweepClaims(y)'
    BY <1>2, <2>1
  <2> QED
    BY <2>1, <2>2
<1> QED
  BY <1>2, <1>3, <1>8, <1>9 DEF IInv

\* accept and run.
LEMMA AdvanceStep ==
  ASSUME IInv, NEW e \in Executors, NEW step \in {"accept", "run"}, NEW from,
         NEW to \in OperationStatuses \ {"completed"}, NEW next \in {"run", "dispatch"},
         Advance(e, step, from, to, next)
  PROVE  IInv'
<1>1. PICK k \in Keys : k = exec[e].key
  BY ExecShape DEF Advance, IInv
<1>2. CASE Status(exec[e].key) = from
  <2>1. PICK x \in Executions :
          /\ x = [exec[e] EXCEPT !.step = next]
          /\ x.step = next /\ x.to = exec[e].to /\ x.key = exec[e].key
          /\ x.approval = exec[e].approval
    BY Stepped DEF Advance, IInv, ExecutorSteps
  <2>2. ExecClaims(x)
    BY <2>1 DEF Advance, IInv, ExecsOK, ExecClaims, DrivingSteps
  <2>3. Record(k, to, "none") /\ "none" \in Stages /\ exec' = [exec EXCEPT ![e] = x]
    BY <1>1, <1>2, <2>1 DEF Advance, Stages, Goto, IInv, TypeOK
  <2> QED
    BY <1>1, <2>1, <2>2, <2>3, ExecRecords DEF Advance, DrivingSteps, ExecStates
<1>3. CASE Status(exec[e].key) # from
  BY <1>3, ExecStops DEF Advance, IInv, TypeOK
<1> QED
  BY <1>2, <1>3

LEMMA AcceptStep ==
  ASSUME IInv, NEW e \in Executors, Accept(e) PROVE IInv'
  BY AdvanceStep DEF Accept, OperationStatuses

LEMMA RunStep ==
  ASSUME IInv, NEW e \in Executors, Run(e) PROVE IInv'
  BY AdvanceStep DEF Run, OperationStatuses

LEMMA SettleUpdateStep ==
  ASSUME IInv, NEW e \in Executors, SettleUpdate(e)
  PROVE  IInv'
<1>1. PICK k \in Keys : k = exec[e].key
  BY ExecShape DEF SettleUpdate, IInv
<1>2. PICK to \in OperationStatuses, stage \in Stages : to = exec[e].to /\ stage = exec[e].stage
  BY ExecShape DEF SettleUpdate, IInv
<1>3. CASE Record(exec[e].key, exec[e].to, exec[e].stage)
  <2>1. to = "completed" => Done(k)
    BY <1>1, <1>2 DEF SettleUpdate, IInv, ExecsOK, ExecClaims
  <2>2. Record(k, to, stage)
    BY <1>1, <1>2, <1>3
  <2> QED
    BY <1>1, <2>1, <2>2, IdleClaims, ExecRecords DEF SettleUpdate, Stop, DrivingSteps
<1>4. CASE UNCHANGED <<operations, aged>>
  BY <1>4, ExecStops DEF SettleUpdate, IInv, TypeOK
<1> QED
  BY <1>3, <1>4 DEF SettleUpdate

LEMMA SweepSettleUpdateStep ==
  ASSUME IInv, NEW s \in Sweepers, SweepSettleUpdate(s)
  PROVE  IInv'
<1>1. PICK k \in Keys, to \in OperationStatuses, stage \in Stages :
        k = sweep[s].key /\ to = sweep[s].to /\ stage = sweep[s].stage
  BY SweepShape DEF SweepSettleUpdate, IInv
<1>2. CASE UNCHANGED <<operations, aged>>
  BY <1>2, SweepStops DEF SweepSettleUpdate
<1>3. CASE Record(sweep[s].key, sweep[s].to, sweep[s].stage)
  <2>1. Exists(k) /\ (to = "completed" => Done(k))
    BY <1>1 DEF SweepSettleUpdate, IInv, SweepsOK, SweepClaims, Done
  <2>2. Record(k, to, stage)
    BY <1>1, <1>3
  <2>3. /\ HistoriesOK' /\ LedgerOK' /\ OwnerOK' /\ OneDispatchPerKey'
        /\ OneCommandPerApproval' /\ CompletedMeansExecuted'
        /\ operations' \in [Keys -> OperationRows \cup {NoRow}] /\ aged' \subseteq Keys
        /\ \A y \in ExecStates : ExecClaims(y) => ExecClaims(y)'
        /\ \A y \in SweepStates : SweepClaims(y) => SweepClaims(y)'
    BY <2>1, <2>2, RecordStep DEF SweepSettleUpdate
  <2>4. TypeOK'
    BY <2>3 DEF SweepSettleUpdate, IInv, TypeOK, ownerVars
  <2>5. ExecsOK'
    <3>1. \A f \in Executors : ExecClaims(exec[f])'
      <4> SUFFICES ASSUME NEW f \in Executors PROVE ExecClaims(exec[f])'
        OBVIOUS
      <4>1. PICK y \in ExecStates : y = exec'[f] /\ ExecClaims(y)
        BY DEF SweepSettleUpdate, IInv, TypeOK, ExecStates, ExecsOK
      <4>2. ExecClaims(y)'
        BY <2>3, <4>1
      <4> QED
        BY <4>1, <4>2
    <3> QED
      BY <3>1 DEF SweepSettleUpdate, IInv, ExecsOK, Apart
  <2>6. SweepsOK'
    <3> SUFFICES ASSUME NEW r \in Sweepers PROVE SweepClaims(sweep[r])'
      BY DEF SweepsOK
    <3>1. PICK y \in SweepStates : y = sweep'[r] /\ SweepClaims(y)
      BY IdleClaims DEF SweepSettleUpdate, IInv, TypeOK, SweepStates, SweepsOK
    <3>2. SweepClaims(y)'
      BY <2>3, <3>1
    <3> QED
      BY <3>1, <3>2
  <2> QED
    BY <2>3, <2>4, <2>5, <2>6 DEF IInv
<1> QED
  BY <1>2, <1>3 DEF SweepSettleUpdate

-----------------------------------------------------------------------------
(***************************************************************************)
(* Steps about the owner                                                   *)
(***************************************************************************)
\* Only the driver of an operation dispatches it, and only before it waits.
LEMMA DispatchStep ==
  ASSUME IInv, NEW e \in Executors, Dispatch(e)
  PROVE  IInv'
<1>1. PICK k \in Keys : k = exec[e].key
  BY ExecShape DEF Dispatch, IInv
<1>2. /\ exec' \in [Executors -> ExecStates]
      /\ \A f \in Executors \ {e} : exec'[f] = exec[f]
      /\ exec'[e].step = "wait" /\ exec'[e].key = k /\ exec'[e].to = exec[e].to
      /\ exec'[e].approval = exec[e].approval
  BY <1>1, GotoOK DEF Dispatch, IInv, ExecutorSteps
<1>3. Exists(k) /\ dispatches[k] = 0 /\ operations[k].approval = exec[e].approval
  BY <1>1 DEF Dispatch, IInv, ExecsOK, ExecClaims, DrivingSteps
<1>4. /\ dispatches' \in [Keys -> Nat] /\ dispatches'[k] = 1
      /\ \A l \in Keys \ {k} : dispatches'[l] = dispatches[l]
  BY <1>1, <1>3 DEF Dispatch, IInv, TypeOK
<1>5. TypeOK'
  BY <1>1, <1>2, <1>4 DEF Dispatch, IInv, TypeOK, ExecStates, Requests
<1>6. \A f \in Executors \ {e} : ExecClaims(exec[f])'
  <2> SUFFICES ASSUME NEW f \in Executors \ {e} PROVE ExecClaims(exec[f])'
    OBVIOUS
  <2>1. exec[f].step \in DrivingSteps => exec[f].key \in Keys \ {k}
    BY <1>1, ExecShape DEF Dispatch, IInv, ExecsOK, Apart, DrivingSteps
  <2>2. ExecClaims(exec[f])
    BY DEF IInv, ExecsOK
  <2> QED
    BY <1>2, <1>4, <2>1, <2>2 DEF Dispatch, ExecClaims, Done, Exists, DrivingSteps
<1>7. ExecClaims(exec[e])'
  BY <1>1, <1>2, <1>3 DEF Dispatch, IInv, ExecsOK, ExecClaims, Done, Exists
<1>8. \A f \in Executors \ {e} : Apart(exec[e], exec[f])' /\ Apart(exec[f], exec[e])'
  <2> SUFFICES ASSUME NEW f \in Executors \ {e}
               PROVE  Apart(exec[e], exec[f])' /\ Apart(exec[f], exec[e])'
    OBVIOUS
  <2> QED
    BY <1>1, <1>2 DEF Dispatch, IInv, ExecsOK, Apart, DrivingSteps
<1>9. ExecsOK'
  BY <1>2, <1>6, <1>7, <1>8 DEF IInv, ExecsOK, Apart
<1>10. LedgerOK' /\ OneDispatchPerKey'
  BY <1>3, <1>4 DEF Dispatch, IInv, LedgerOK, OneDispatchPerKey, Exists
<1>11. SweepsOK' /\ HistoriesOK' /\ OwnerOK' /\ OneCommandPerApproval' /\ CompletedMeansExecuted'
  BY DEF Dispatch, IInv, SweepsOK, SweepClaims, HistoriesOK, OwnerOK, OneCommandPerApproval,
         CompletedMeansExecuted, Exists, Status
<1> QED
  BY <1>5, <1>9, <1>10, <1>11 DEF IInv

\* A step of the owner, or of time, that unmakes no effect and no partial receipt.
LEMMA OwnerMove ==
  ASSUME IInv, TypeOK', OwnerOK', effects \subseteq effects',
         \A k \in Keys : receipts[k] = "partially_completed" =>
                         receipts'[k] = "partially_completed",
         UNCHANGED <<operations, spent, exec, sweep, dispatches>>
  PROVE  IInv'
<1>1. ExecsOK' /\ SweepsOK'
  <2>1. \A e \in Executors : exec[e].step # "idle" /\ Done(exec[e].key) => Done(exec[e].key)'
    BY ExecShape DEF IInv, Done
  <2>2. ExecsOK'
    BY <2>1 DEF IInv, ExecsOK, ExecClaims, Apart, Exists
  <2>3. SweepsOK'
    BY DEF IInv, SweepsOK, SweepClaims, Exists
  <2> QED
    BY <2>2, <2>3
<1>2. HistoriesOK' /\ LedgerOK' /\ OneDispatchPerKey' /\ OneCommandPerApproval'
        /\ CompletedMeansExecuted'
  BY DEF IInv, HistoriesOK, LedgerOK, OneDispatchPerKey, OneCommandPerApproval,
         CompletedMeansExecuted, Exists, Status
<1> QED
  BY <1>1, <1>2 DEF IInv

LEMMA ReceiveReplyStep ==
  ASSUME IInv, NEW e \in Executors, ReceiveReply(e)
  PROVE  IInv'
<1>1. PICK r \in replies :
        /\ r.key = exec[e].key /\ replies' = replies \ {r}
        /\ \/ r.answer = "refused" /\ Outcome(e, "failed", "mutation-response")
           \/ /\ r.answer = "partially_completed" /\ exec[e].approval = NoRow
              /\ Outcome(e, "partially_completed", "owner-reported-partial")
           \/ /\ r.answer # "refused"
              /\ r.answer = "partially_completed" => exec[e].approval # NoRow
              /\ Outcome(e, "completed", "none")
  BY DEF ReceiveReply
<1>0. r.answer \in Answers /\ Exists(exec[e].key) /\ operations[exec[e].key].approval = exec[e].approval
  BY DEF ReceiveReply, IInv, TypeOK, Replies, ExecsOK, ExecClaims, DrivingSteps
<1>2. PICK to \in OperationStatuses, stage \in Stages :
        Outcome(e, to, stage) /\ (to = "completed" => Done(exec[e].key))
  <2>1. r.answer = "completed" => Done(exec[e].key)
    BY <1>1 DEF IInv, OwnerOK, Done
  <2>2. r.answer = "partially_completed" /\ exec[e].approval # NoRow => Done(exec[e].key)
    BY <1>0, <1>1 DEF IInv, OwnerOK, Done
  <2> QED
    BY <1>0, <1>1, <2>1, <2>2 DEF Answers, OperationStatuses, Stages
<1>3. /\ exec' \in [Executors -> ExecStates]
      /\ \A f \in Executors \ {e} : exec'[f] = exec[f]
      /\ exec'[e].step = "settleRead" /\ exec'[e].key = exec[e].key /\ exec'[e].to = to
      /\ exec'[e].approval = exec[e].approval
  BY <1>2, OutcomeOK DEF ReceiveReply, IInv
<1>4. TypeOK'
  BY <1>1, <1>3 DEF ReceiveReply, IInv, TypeOK, ExecStates
<1>5. \A f \in Executors : ExecClaims(exec[f])'
  <2> SUFFICES ASSUME NEW f \in Executors PROVE ExecClaims(exec[f])'
    OBVIOUS
  <2>1. CASE f = e
    BY <1>0, <1>2, <1>3, <2>1 DEF ReceiveReply, ExecClaims, Done, Exists, DrivingSteps
  <2>2. CASE f # e
    BY <1>3, <2>2 DEF ReceiveReply, IInv, ExecsOK, ExecClaims, Done, Exists
  <2> QED
    BY <2>1, <2>2
<1>6. ExecsOK'
  BY <1>3, <1>5 DEF ReceiveReply, IInv, ExecsOK, Apart, DrivingSteps
<1>7. OwnerOK'
  BY <1>1 DEF ReceiveReply, IInv, OwnerOK
<1>8. /\ SweepsOK' /\ HistoriesOK' /\ LedgerOK' /\ OneDispatchPerKey'
      /\ OneCommandPerApproval' /\ CompletedMeansExecuted'
  BY DEF ReceiveReply, IInv, SweepsOK, SweepClaims, HistoriesOK, LedgerOK, OneDispatchPerKey,
         OneCommandPerApproval, CompletedMeansExecuted, Exists, Status
<1> QED
  BY <1>4, <1>6, <1>7, <1>8 DEF IInv

LEMMA OwnerAcceptsStep ==
  ASSUME IInv, NEW r \in Requests, OwnerAccepts(r)
  PROVE  IInv'
<1>1. TypeOK'
  BY DEF OwnerAccepts, IInv, TypeOK, ReceiptStatuses
<1>2. OwnerOK'
  BY DEF OwnerAccepts, IInv, TypeOK, OwnerOK, Replies
<1>3. \A k \in Keys : receipts[k] = "partially_completed" => receipts'[k] = "partially_completed"
  BY DEF OwnerAccepts, IInv, TypeOK
<1> QED
  BY <1>1, <1>2, <1>3, OwnerMove DEF OwnerAccepts

\* The answers of the owner are those of the receipt.
LEMMA AnswerStep ==
  ASSUME IInv, NEW r \in Requests, NEW answer \in Answers, Answer(r, answer), TypeOK',
         effects \subseteq effects',
         receipts[r.key] # "partially_completed",
         \A k \in Keys \ {r.key} : receipts'[k] = receipts[k],
         receipts'[r.key] = "completed" => r.key \in effects',
         answer = "completed" => r.key \in effects',
         answer = "partially_completed" => receipts'[r.key] = "partially_completed",
         UNCHANGED <<operations, spent, exec, sweep, dispatches>>
  PROVE  IInv'
<1>1. PICK a : a = [executor |-> r.executor, key |-> r.key, answer |-> answer]
  OBVIOUS
<1>2. a.key = r.key /\ a.answer = answer /\ replies' = replies \cup {a}
  BY <1>1 DEF Answer
<1>3. \A q \in replies : q.key \in Keys
  BY DEF IInv, TypeOK, Replies
<1>4. \A k \in Keys : receipts'[k] = "completed" => k \in effects'
  BY DEF IInv, OwnerOK
<1>5. \A q \in replies' :
        /\ q.answer = "completed" => q.key \in effects'
        /\ q.answer = "partially_completed" => receipts'[q.key] = "partially_completed"
  BY <1>2, <1>3 DEF IInv, OwnerOK
<1>6. OwnerOK'
  BY <1>4, <1>5 DEF OwnerOK
<1> QED
  BY <1>6, OwnerMove

LEMMA OwnerFinishesStep ==
  ASSUME IInv, NEW r \in Requests, OwnerFinishes(r)
  PROVE  IInv'
<1>1. PICK ended \in {"completed", "partially_completed", "failed"} :
        /\ receipts' = [receipts EXCEPT ![r.key] = ended]
        /\ effects' = IF ended = "completed" THEN effects \cup {r.key} ELSE effects
        /\ Answer(r, IF ended = "failed" THEN "refused" ELSE ended)
  BY DEF OwnerFinishes
<1>2. PICK answer \in Answers :
        answer = (IF ended = "failed" THEN "refused" ELSE ended) /\ Answer(r, answer)
  BY <1>1 DEF Answers
<1>3. /\ r.key \in Keys /\ r.executor \in Executors
      /\ [executor |-> r.executor, key |-> r.key, answer |-> answer] \in Replies
  BY DEF Requests, Replies
<1>4. /\ receipts'[r.key] = ended
      /\ \A k \in Keys \ {r.key} : receipts'[k] = receipts[k]
  BY <1>1, <1>3 DEF IInv, TypeOK
<1>5. TypeOK'
  BY <1>1, <1>2, <1>3 DEF OwnerFinishes, Answer, IInv, TypeOK, ReceiptStatuses
<1> QED
  BY <1>1, <1>2, <1>4, <1>5, AnswerStep DEF OwnerFinishes

LEMMA OwnerRefusesStep ==
  ASSUME IInv, NEW r \in Requests, OwnerRefuses(r)
  PROVE  IInv'
<1> [executor |-> r.executor, key |-> r.key, answer |-> "refused"] \in Replies
      /\ "refused" \in Answers
  BY DEF Replies, Requests, Answers
<1>1. TypeOK'
  BY DEF OwnerRefuses, Answer, IInv, TypeOK
<1> QED
  BY <1>1, AnswerStep DEF OwnerRefuses

LEMMA AgeStep ==
  ASSUME IInv, NEW k \in Keys, Age(k)
  PROVE  IInv'
<1>1. TypeOK' /\ OwnerOK'
  BY DEF Age, IInv, TypeOK, OwnerOK
<1> QED
  BY <1>1, OwnerMove DEF Age

-----------------------------------------------------------------------------
(***************************************************************************)
(* Invariance                                                              *)
(***************************************************************************)
LEMMA StutterStep == IInv /\ UNCHANGED vars => IInv'
<1> SUFFICES ASSUME IInv, UNCHANGED vars PROVE IInv'
  OBVIOUS
<1>1. TypeOK' /\ OwnerOK'
  BY DEF IInv, vars, TypeOK, OwnerOK
<1> QED
  BY <1>1, OwnerMove DEF vars

LEMMA NextIInv == IInv /\ [Next]_vars => IInv'
<1> SUFFICES ASSUME IInv, Next PROVE IInv'
  BY StutterStep
<1>1. ASSUME NEW e \in Executors, NEW k \in Keys, NEW a \in Approvals \cup {NoRow}, Start(e, k, a)
      PROVE  IInv'
  BY <1>1, StartStep
<1>2. ASSUME NEW e \in Executors, ExecutorStep(e) PROVE IInv'
  BY <1>2, ReplayCheckStep, ConsumeStep, ReserveStep, AcceptStep, RunStep, DispatchStep,
     NeverDispatchedStep, ReceiveReplyStep, CallTimesOutStep, SettleReadStep, SettleUpdateStep
  DEF ExecutorStep
<1>3. ASSUME NEW e \in Executors, ExecutorFailure(e) PROVE IInv'
  BY <1>3, ConsumeReplyLostStep, ReserveReplyLostStep, AbandonStep DEF ExecutorFailure
<1>4. ASSUME NEW r \in Requests, OwnerAccepts(r) \/ OwnerFinishes(r) \/ OwnerRefuses(r)
      PROVE  IInv'
  BY <1>4, OwnerAcceptsStep, OwnerFinishesStep, OwnerRefusesStep
<1>5. ASSUME NEW s \in Sweepers, SweepStep(s) \/ SweepAbandons(s) PROVE IInv'
  BY <1>5, ReadReceiptStep, SweepSettleReadStep, SweepSettleUpdateStep, SweepAbandonsStep
  DEF SweepStep
<1>6. ASSUME NEW s \in Sweepers, NEW k \in Keys, List(s, k) PROVE IInv'
  BY <1>6, ListStep
<1>7. ASSUME NEW k \in Keys, Age(k) PROVE IInv'
  BY <1>7, AgeStep
<1> QED
  BY <1>1, <1>2, <1>3, <1>4, <1>5, <1>6, <1>7 DEF Next, OwnerStep

\* The strengthening holds in every state.
THEOREM Invariance == Spec => []IInv
  BY InitIInv, NextIInv, PTL DEF Spec

\* The variables of a command keep their types (TypeOK).
THEOREM TypeCorrect == Spec => []TypeOK
  BY Invariance, PTL DEF IInv

\* A key is sent to the owner at most once, whatever crashes, times out or is
\* requested again (the replay returns of createOrReplayOperation).
THEOREM DispatchedOnce == Spec => []OneDispatchPerKey
  BY Invariance, PTL DEF IInv

\* An approval authorises one operation, under whatever keys and by whatever
\* racing requests it is executed (markExecuted).
THEOREM ApprovalUsedOnce == Spec => []OneCommandPerApproval
  BY Invariance, PTL DEF IInv

\* "completed" is recorded only of what the owner carried out, by an executor
\* or by a sweep (executeIdentityR3Approval, resolveStuckOperation), but for an
\* approved command the owner reported as partial.
THEOREM CompletedIsTrue == Spec => []CompletedMeansExecuted
  BY Invariance, PTL DEF IInv

-----------------------------------------------------------------------------
(***************************************************************************)
(* The registry                                                            *)
(***************************************************************************)
\* What the registry is told of one key.
LEMMA RecordedAt ==
  /\ Recorded = [k \in Keys |->
       IF Exists(k) THEN [hash |-> operations[k].approval, history |-> operations[k].history]
                    ELSE NoRow]
  /\ Recorded' = [k \in Keys |->
       IF Exists(k)' THEN [hash |-> operations'[k].approval, history |-> operations'[k].history]
                     ELSE NoRow]
  BY DEF Recorded

\* An entry is a record, and so not NoRow.
LEMMA RecordIsBound ==
  ASSUME TypeOK, NEW k \in Keys, Exists(k) PROVE Recorded[k] # NoRow
<1>1. operations[k] \in OperationRows
  BY DEF TypeOK, Exists
<1> QED
  BY <1>1, CommandAssumption DEF Recorded, OperationRows

\* A step that keeps the ledger stutters.
LEMMA QuietRefines == UNCHANGED operations => UNCHANGED Recorded
  BY DEF Recorded, Exists

\* The creation of an operation binds its key.
LEMMA CreateRefines ==
  ASSUME IInv, NEW e \in Executors, exec[e].step = "reserve",
         ~Exists(exec[e].key), NewOperation(e)
  PROVE  Registry!Next
<1>1. PICK k \in Keys : k = exec[e].key
  BY ExecShape DEF IInv
<1>2. PICK x \in Approvals \cup {NoRow} : x = exec[e].approval
  BY ExecShape DEF IInv
<1>3. /\ \A l \in Keys : Exists(l)' <=> (Exists(l) \/ l = k)
      /\ \A l \in Keys \ {k} : operations'[l] = operations[l]
      /\ operations'[k].approval = x
      /\ operations'[k].history = <<"submitted">>
  BY <1>1, <1>2, NewOperationOK DEF IInv
<1>4. Recorded[k] = NoRow
  BY <1>1 DEF Recorded
<1>5. Recorded' = [Recorded EXCEPT ![k] = [hash |-> x, history |-> <<"submitted">>]]
  BY <1>3, RecordedAt
<1>6. Registry!Bind(k, x)
  BY <1>4, <1>5 DEF Registry!Bind
<1> QED
  BY <1>6 DEF Registry!Next

\* A transition along an edge advances the history of its key.
LEMMA RecordRefines ==
  ASSUME IInv, NEW k \in Keys, Exists(k), NEW to \in OperationStatuses, NEW stage \in Stages,
         Record(k, to, stage), IsValidTransition(Status(k), to)
  PROVE  Registry!Next
<1>1. /\ \A l \in Keys : Exists(l)' <=> Exists(l)
      /\ \A l \in Keys \ {k} : operations'[l] = operations[l]
      /\ operations'[k].approval = operations[k].approval
      /\ operations'[k].history = Append(operations[k].history, to)
  BY RecordOK DEF IInv
<1>2. Recorded[k] # NoRow
  BY RecordIsBound DEF IInv
<1>3. Recorded[k] = [hash |-> operations[k].approval, history |-> operations[k].history]
  BY RecordedAt
<1>4. Recorded' = [Recorded EXCEPT ![k].history = Append(operations[k].history, to)]
  BY <1>1, <1>3, RecordedAt
<1>5. IsValidTransition(operations[k].history[Len(operations[k].history)], to)
  BY DEF Status
<1>6. Registry!Advance(k, to)
  BY <1>2, <1>3, <1>4, <1>5 DEF Registry!Advance, Registry!IsValidTransition, IsValidTransition,
     Registry!AllowedTransitions, AllowedTransitions
<1> QED
  BY <1>6 DEF Registry!Next, Registry!OperationStatuses, OperationStatuses

LEMMA AdvanceRefines ==
  ASSUME IInv, NEW e \in Executors, NEW step \in {"accept", "run"}, NEW from,
         NEW to \in OperationStatuses, NEW next, Advance(e, step, from, to, next),
         IsValidTransition(from, to)
  PROVE  Registry!Next \/ UNCHANGED Recorded
<1>1. PICK k \in Keys : k = exec[e].key
  BY ExecShape DEF Advance, IInv
<1>2. Exists(k)
  BY <1>1 DEF Advance, IInv, ExecsOK, ExecClaims, DrivingSteps
<1> QED
  BY <1>1, <1>2, RecordRefines, QuietRefines DEF Advance, Stages

\* Every step is one of the registry, or a stutter.
LEMMA StepRefines ==
  ASSUME IInv, Next
  PROVE  Registry!Next \/ UNCHANGED Recorded
<1>1. ASSUME NEW e \in Executors, NEW k \in Keys, NEW a \in Approvals \cup {NoRow}, Start(e, k, a)
      PROVE  UNCHANGED Recorded
  BY <1>1, QuietRefines DEF Start
<1>2. ASSUME NEW e \in Executors, ExecutorStep(e) PROVE Registry!Next \/ UNCHANGED Recorded
  <2>1. CASE ReplayCheck(e) \/ Consume(e) \/ Dispatch(e) \/ NeverDispatched(e) \/ ReceiveReply(e)
               \/ CallTimesOut(e) \/ SettleRead(e)
    BY <2>1, QuietRefines DEF ReplayCheck, Consume, Dispatch, NeverDispatched, ReceiveReply,
       CallTimesOut, SettleRead
  <2>2. CASE Reserve(e)
    BY <2>2, CreateRefines, QuietRefines DEF Reserve
  <2>3. CASE Accept(e)
    BY <2>3, AdvanceRefines DEF Accept, IsValidTransition, AllowedTransitions, OperationStatuses
  <2>4. CASE Run(e)
    BY <2>4, AdvanceRefines DEF Run, IsValidTransition, AllowedTransitions, OperationStatuses
  <2>5. CASE SettleUpdate(e)
    <3>1. PICK k \in Keys, to \in OperationStatuses, stage \in Stages :
            k = exec[e].key /\ to = exec[e].to /\ stage = exec[e].stage
      BY <2>5, ExecShape DEF SettleUpdate, IInv
    <3>2. Exists(k) /\ IsValidTransition(exec[e].observed, to)
      BY <2>5, <3>1 DEF SettleUpdate, IInv, ExecsOK, ExecClaims, DrivingSteps
    <3> QED
      BY <2>5, <3>1, <3>2, RecordRefines, QuietRefines DEF SettleUpdate
  <2> QED
    BY <1>2, <2>1, <2>2, <2>3, <2>4, <2>5 DEF ExecutorStep
<1>3. ASSUME NEW e \in Executors, ExecutorFailure(e) PROVE Registry!Next \/ UNCHANGED Recorded
  BY <1>3, CreateRefines, QuietRefines
  DEF ExecutorFailure, ConsumeReplyLost, ReserveReplyLost, Abandon
<1>4. ASSUME NEW r \in Requests, OwnerAccepts(r) \/ OwnerFinishes(r) \/ OwnerRefuses(r)
      PROVE  UNCHANGED Recorded
  BY <1>4, QuietRefines DEF OwnerAccepts, OwnerFinishes, OwnerRefuses
<1>5. ASSUME NEW s \in Sweepers, SweepStep(s) \/ SweepAbandons(s)
      PROVE  Registry!Next \/ UNCHANGED Recorded
  <2>1. CASE SweepSettleUpdate(s)
    <3>1. PICK k \in Keys, to \in OperationStatuses, stage \in Stages :
            k = sweep[s].key /\ to = sweep[s].to /\ stage = sweep[s].stage
      BY <2>1, SweepShape DEF SweepSettleUpdate, IInv
    <3>2. Exists(k) /\ IsValidTransition(sweep[s].observed, to)
      BY <2>1, <3>1 DEF SweepSettleUpdate, IInv, SweepsOK, SweepClaims
    <3> QED
      BY <2>1, <3>1, <3>2, RecordRefines, QuietRefines DEF SweepSettleUpdate
  <2>2. CASE ReadReceipt(s) \/ SweepSettleRead(s) \/ SweepAbandons(s)
    BY <2>2, QuietRefines DEF ReadReceipt, SweepSettleRead, SweepAbandons
  <2> QED
    BY <1>5, <2>1, <2>2 DEF SweepStep
<1>6. ASSUME NEW s \in Sweepers, NEW k \in Keys, List(s, k) PROVE UNCHANGED Recorded
  BY <1>6, QuietRefines DEF List
<1>7. ASSUME NEW k \in Keys, Age(k) PROVE UNCHANGED Recorded
  BY <1>7, QuietRefines DEF Age
<1> QED
  BY <1>1, <1>2, <1>3, <1>4, <1>5, <1>6, <1>7 DEF Next, OwnerStep

\* Executors, replays and sweeps racing on an operation implement the abstract
\* registry: one binding per key, one lifecycle path per operation.
THEOREM CommandImplementsRegistry == Spec => RegistrySpec
<1>1. Init => Registry!Init
  BY DEF Init, Registry!Init, Recorded, Exists
<1>2. IInv /\ [Next]_vars => [Registry!Next]_Recorded
  BY StepRefines, QuietRefines DEF vars
<1> QED
  BY <1>1, <1>2, Invariance, PTL DEF Spec, RegistrySpec, Registry!Spec

-----------------------------------------------------------------------------
(***************************************************************************)
(* Timely requests: none arrives after its sender gave up, and no executor *)
(* stalls for ten minutes.  Then "failed" can be acted on.                 *)
(***************************************************************************)
Timely == ~LateDelivery /\ ~SlowExecutors

\* Nobody is between the creation of operation k and its outcome.
NotDriven(k) == \A e \in Executors : ~Drives(e, k)

Unexecuted(k) == receipts[k] \in {"none", "failed"}

TimelyExec(x) ==
  x.step # "idle" =>
    /\ x.to \in {"completed", "failed", "partially_completed"}
    /\ x.stage # "stranded-before-dispatch"
    /\ x.stage = "never-dispatched" =>
         x.step \in {"settleRead", "settleUpdate"} /\ dispatches[x.key] = 0
    /\ x.step = "dispatch" => Status(x.key) \notin {"submitted", "accepted"}
    /\ x.step \in {"settleRead", "settleUpdate"} /\ x.to = "failed" => Unexecuted(x.key)

TimelySweep(x) ==
  x.step # "idle" =>
    /\ NotDriven(x.key)
    /\ x.to \in {"completed", "failed", "partially_completed"}
    /\ x.stage # "never-dispatched"
    /\ x.stage = "stranded-before-dispatch" => dispatches[x.key] = 0
    /\ x.step # "receipt" /\ x.to = "failed" => Unexecuted(x.key)

TimelyOperation(k) ==
  Exists(k) =>
    /\ Status(k) \in {"submitted", "accepted"} => dispatches[k] = 0
    /\ Status(k) \notin {"submitted", "accepted", "running"} => NotDriven(k)
    /\ Status(k) = "failed" => Unexecuted(k)
    /\ operations[k].stage \in {"stranded-before-dispatch", "never-dispatched"} =>
         dispatches[k] = 0 /\ NotDriven(k)

\* One request at most is on its way, or answered, and the answer is the receipt's.
TimelyOwner ==
  /\ \A k \in Keys : dispatches[k] = 0 => receipts[k] = "none"
  /\ \A r \in wire : dispatches[r.key] # 0 /\ receipts[r.key] \in {"none", "executing"}
  /\ \A r, q \in wire : r.key = q.key => r = q
  /\ \A q \in replies :
       /\ dispatches[q.key] # 0
       /\ q.answer = "refused" => Unexecuted(q.key)
       /\ \A r \in wire : r.key # q.key
  /\ \A k \in effects : receipts[k] = "completed"

TInv ==
  /\ \A e \in Executors : TimelyExec(exec[e])
  /\ \A s \in Sweepers : TimelySweep(sweep[s])
  /\ \A k \in Keys : TimelyOperation(k)
  /\ \A k \in aged : Exists(k) /\ NotDriven(k)
  /\ TimelyOwner

LEMMA InitTInv == Init => TInv
  BY DEF Init, TInv, TimelyExec, TimelySweep, TimelyOperation, TimelyOwner, Exists, Idle

\* Drives, by the steps it names.
LEMMA DrivesAt ==
  \A e, k : Drives(e, k) <=> exec[e].step \in DrivingSteps /\ exec[e].key = k
  BY DEF Drives, DrivingSteps

\* Executor e moves to a state x and drives nothing new.
LEMMA ExecStepTimely ==
  ASSUME IInv, TInv, NEW e \in Executors, NEW x \in ExecStates,
         exec' = [exec EXCEPT ![e] = x],
         UNCHANGED <<operations, aged, sweep, ownerVars>>,
         TimelyExec(x),
         x.step \in DrivingSteps =>
           exec[e].step \in DrivingSteps /\ exec[e].key = x.key
  PROVE  TInv'
<1>1. exec'[e] = x /\ \A f \in Executors \ {e} : exec'[f] = exec[f]
  BY DEF IInv, TypeOK
<1>2. \A k \in Keys : NotDriven(k) => NotDriven(k)'
  BY <1>1 DEF NotDriven, Drives, DrivingSteps
<1>3. \A f \in Executors : TimelyExec(exec[f])'
  BY <1>1 DEF TInv, TimelyExec, Status, Unexecuted, ownerVars
<1>4. \A s \in Sweepers : TimelySweep(sweep[s])'
  BY <1>2, SweepShape DEF IInv, TInv, TimelySweep, Unexecuted, ownerVars
<1>5. \A k \in Keys : TimelyOperation(k)'
  BY <1>2 DEF TInv, TimelyOperation, Exists, Status, Unexecuted, ownerVars
<1>6. \A k \in aged : Exists(k)' /\ NotDriven(k)'
  BY <1>2 DEF TInv, IInv, TypeOK, Exists
<1>7. TimelyOwner'
  BY DEF TInv, TimelyOwner, Unexecuted, ownerVars
<1> QED
  BY <1>3, <1>4, <1>5, <1>6, <1>7 DEF TInv

LEMMA ExecStopsTimely ==
  ASSUME IInv, TInv, NEW e \in Executors, Stop(e),
         UNCHANGED <<operations, aged, sweep, ownerVars>>
  PROVE  TInv'
  BY ExecStepTimely, IdleClaims DEF Stop, Idle, TimelyExec, DrivingSteps

\* Sweeper s moves to a state x.
LEMMA SweepMoveTimely ==
  ASSUME IInv, TInv, NEW s \in Sweepers, NEW x \in SweepStates,
         sweep' = [sweep EXCEPT ![s] = x],
         UNCHANGED <<operations, aged, exec, ownerVars>>, TimelySweep(x)
  PROVE  TInv'
<1>1. sweep'[s] = x /\ \A r \in Sweepers \ {s} : sweep'[r] = sweep[r]
  BY DEF IInv, TypeOK
<1>2. \A r \in Sweepers : TimelySweep(sweep[r])'
  BY <1>1 DEF TInv, TimelySweep, NotDriven, Drives, Unexecuted, ownerVars
<1>3. \A f \in Executors : TimelyExec(exec[f])'
  BY DEF TInv, TimelyExec, Status, Unexecuted, ownerVars
<1>4. \A k \in Keys : TimelyOperation(k)'
  BY DEF TInv, TimelyOperation, NotDriven, Drives, Exists, Status, Unexecuted, ownerVars
<1>5. (\A k \in aged : Exists(k) /\ NotDriven(k))'
  BY DEF TInv, Exists, NotDriven, Drives
<1>6. TimelyOwner'
  BY DEF TInv, TimelyOwner, Unexecuted, ownerVars
<1> QED
  BY <1>2, <1>3, <1>4, <1>5, <1>6 DEF TInv

LEMMA SweepStopsTimely ==
  ASSUME IInv, TInv, NEW s \in Sweepers, sweep' = [sweep EXCEPT ![s] = Idle],
         UNCHANGED <<operations, aged, exec, ownerVars>>
  PROVE  TInv'
  BY SweepMoveTimely, IdleClaims DEF TimelySweep, Idle

LEMMA StartTimely ==
  ASSUME IInv, TInv, NEW e \in Executors, NEW k \in Keys, NEW a \in Approvals \cup {NoRow},
         Start(e, k, a)
  PROVE  TInv'
<1>1. PICK x : x = [step |-> IF a = NoRow THEN "reserve" ELSE "replayCheck", key |-> k,
                    approval |-> a, to |-> "failed", stage |-> "none", observed |-> "running"]
  OBVIOUS
<1>2. x \in ExecStates /\ x.step \in {"reserve", "replayCheck"} /\ x.to = "failed" /\ x.stage = "none"
  BY <1>1 DEF ExecStates, Executions, ExecutorSteps, OperationStatuses, Stages
<1>3. exec' = [exec EXCEPT ![e] = x]
  BY <1>1 DEF Start
<1> QED
  BY <1>2, <1>3, ExecStepTimely DEF Start, TimelyExec, DrivingSteps

\* An executor that goes on to a step before its dispatch.
LEMMA GotoTimely ==
  ASSUME IInv, TInv, NEW e \in Executors, exec[e].step \in {"replayCheck", "consume"},
         NEW step \in {"consume", "reserve"}, Goto(e, step),
         UNCHANGED <<operations, aged, sweep, ownerVars>>
  PROVE  TInv'
<1>1. PICK x \in Executions :
        /\ x = [exec[e] EXCEPT !.step = step]
        /\ x.step = step /\ x.key = exec[e].key /\ x.to = exec[e].to /\ x.stage = exec[e].stage
  BY Stepped DEF IInv, ExecutorSteps
<1>2. TimelyExec(x)
  BY <1>1 DEF TInv, TimelyExec
<1> QED
  BY <1>1, <1>2, ExecStepTimely DEF Goto, DrivingSteps, ExecStates

LEMMA OutcomeTimely ==
  ASSUME IInv, TInv, NEW e \in Executors, exec[e].step \in {"dispatch", "wait"},
         NEW to \in {"failed", "partially_completed"}, NEW stage \in Stages, Outcome(e, to, stage),
         stage # "stranded-before-dispatch",
         stage = "never-dispatched" => dispatches[exec[e].key] = 0,
         to = "failed" => Unexecuted(exec[e].key),
         UNCHANGED <<operations, aged, sweep, ownerVars>>
  PROVE  TInv'
<1>1. /\ exec'[e].step = "settleRead" /\ exec'[e].key = exec[e].key /\ exec'[e].to = to
      /\ exec'[e].stage = stage /\ exec' \in [Executors -> ExecStates]
  BY OutcomeOK DEF IInv, OperationStatuses
<1>2. PICK x \in ExecStates : x = exec'[e]
  BY <1>1
<1>3. exec' = [exec EXCEPT ![e] = x]
  BY <1>1, <1>2 DEF Outcome, IInv, TypeOK
<1>4. TimelyExec(x)
  BY <1>1, <1>2 DEF TimelyExec
<1> QED
  BY <1>1, <1>2, <1>3, <1>4, ExecStepTimely DEF DrivingSteps

LEMMA NeverDispatchedTimely ==
  ASSUME IInv, TInv, NEW e \in Executors, NeverDispatched(e)
  PROVE  TInv'
<1>1. dispatches[exec[e].key] = 0 /\ exec[e].key \in Keys
  BY ExecShape DEF NeverDispatched, IInv, ExecsOK, ExecClaims
<1>2. Unexecuted(exec[e].key)
  BY <1>1 DEF TInv, TimelyOwner, Unexecuted
<1> QED
  BY <1>1, <1>2, OutcomeTimely DEF NeverDispatched, Stages

LEMMA CallTimesOutTimely ==
  ASSUME IInv, TInv, NEW e \in Executors, CallTimesOut(e)
  PROVE  TInv'
  BY OutcomeTimely DEF CallTimesOut, Stages

LEMMA SettleReadTimely ==
  ASSUME IInv, TInv, NEW e \in Executors, SettleRead(e)
  PROVE  TInv'
<1> DEFINE status == Status(exec[e].key)
<1>1. CASE ~IsValidTransition(status, exec[e].to)
  BY <1>1, ExecStopsTimely DEF SettleRead
<1>2. CASE IsValidTransition(status, exec[e].to)
  <2>1. exec[e] \in Executions /\ exec[e].key \in Keys
    BY ExecShape DEF SettleRead, IInv
  <2>2. Exists(exec[e].key)
    BY DEF SettleRead, IInv, ExecsOK, ExecClaims, DrivingSteps
  <2>3. status \in OperationStatuses
    BY <2>1, <2>2, StatusOK DEF IInv
  <2>4. PICK x : x = [exec[e] EXCEPT !.step = "settleUpdate", !.observed = status]
    OBVIOUS
  <2>5. /\ x \in Executions /\ x.step = "settleUpdate"
        /\ x.key = exec[e].key /\ x.to = exec[e].to /\ x.stage = exec[e].stage
    BY <2>1, <2>3, <2>4 DEF Executions, ExecutorSteps
  <2>6. exec' = [exec EXCEPT ![e] = x]
    BY <1>2, <2>4 DEF SettleRead, IInv, TypeOK
  <2>7. TimelyExec(x)
    BY <2>5 DEF SettleRead, TInv, TimelyExec
  <2> QED
    BY <2>5, <2>6, <2>7, ExecStepTimely DEF SettleRead, DrivingSteps, ExecStates
<1> QED
  BY <1>1, <1>2

\* Creation: nobody drove the operation, and nothing of it is at the owner.
LEMMA CreateTimely ==
  ASSUME IInv, TInv, NEW e \in Executors, exec[e].step = "reserve",
         NEW k \in Keys, k = exec[e].key, ~Exists(k), NewOperation(e),
         NEW x \in ExecStates, exec' = [exec EXCEPT ![e] = x], TimelyExec(x),
         x = Idle \/ (x.step = "accept" /\ x.key = k),
         UNCHANGED <<aged, sweep, ownerVars>>
  PROVE  TInv'
<1>1. /\ \A l \in Keys : Exists(l)' <=> (Exists(l) \/ l = k)
      /\ \A l \in Keys \ {k} : operations'[l] = operations[l]
      /\ operations'[k].stage = "none"
      /\ Status(k)' = "submitted"
  BY NewOperationOK DEF IInv
<1>2. exec'[e] = x /\ \A f \in Executors \ {e} : exec'[f] = exec[f]
  BY DEF IInv, TypeOK
<1>3. \A l \in Keys \ {k} : NotDriven(l) => NotDriven(l)'
  BY <1>2 DEF NotDriven, Drives, Idle
<1>4. \A f \in Executors : TimelyExec(exec[f])'
  <2> SUFFICES ASSUME NEW f \in Executors PROVE TimelyExec(exec[f])'
    OBVIOUS
  <2>1. CASE f = e
    BY <1>2, <2>1 DEF TimelyExec, Unexecuted, ownerVars, Idle
  <2>2. CASE f # e
    <3>1. exec'[f] = exec[f] /\ TimelyExec(exec[f])
      BY <1>2, <2>2 DEF TInv
    <3>2. exec[f].step = "dispatch" => exec[f].key \in Keys \ {k}
      BY ExecShape DEF IInv, ExecsOK, ExecClaims, DrivingSteps
    <3>3. exec[f].step = "dispatch" => Status(exec[f].key)' = Status(exec[f].key)
      BY <1>1, <3>1, <3>2 DEF Status
    <3> QED
      BY <3>1, <3>3 DEF TimelyExec, Unexecuted, ownerVars
  <2> QED
    BY <2>1, <2>2
<1>5. \A s \in Sweepers : TimelySweep(sweep[s])'
  <2>1. \A s \in Sweepers : sweep[s].step # "idle" => sweep[s].key \in Keys \ {k}
    BY SweepShape DEF IInv, SweepsOK, SweepClaims
  <2> QED
    BY <1>3, <2>1 DEF TInv, TimelySweep, Unexecuted, ownerVars
<1>6. \A l \in Keys : TimelyOperation(l)'
  <2> SUFFICES ASSUME NEW l \in Keys PROVE TimelyOperation(l)'
    OBVIOUS
  <2>1. CASE l = k
    BY <1>1, <2>1 DEF IInv, LedgerOK, TimelyOperation, ownerVars
  <2>2. CASE l # k
    BY <1>1, <1>3, <2>2 DEF TInv, TimelyOperation, Status, Unexecuted, ownerVars
  <2> QED
    BY <2>1, <2>2
<1>7. (\A l \in aged : Exists(l) /\ NotDriven(l))'
  BY <1>1, <1>3 DEF TInv, IInv, TypeOK
<1>8. TimelyOwner'
  BY DEF TInv, TimelyOwner, Unexecuted, ownerVars
<1> QED
  BY <1>4, <1>5, <1>6, <1>7, <1>8 DEF TInv

LEMMA ReserveTimely ==
  ASSUME IInv, TInv, NEW e \in Executors, Reserve(e)
  PROVE  TInv'
<1>1. CASE Exists(exec[e].key)
  BY <1>1, ExecStopsTimely DEF Reserve
<1>2. CASE ~Exists(exec[e].key)
  <2>1. PICK x \in Executions :
          /\ x = [exec[e] EXCEPT !.step = "accept"]
          /\ x.step = "accept" /\ x.to = exec[e].to /\ x.key = exec[e].key /\ x.stage = exec[e].stage
    BY Stepped DEF Reserve, IInv, ExecutorSteps
  <2>2. PICK k \in Keys : k = exec[e].key
    BY ExecShape DEF Reserve, IInv
  <2>3. TimelyExec(x)
    BY <2>1 DEF Reserve, TInv, TimelyExec
  <2> QED
    BY <1>2, <2>1, <2>2, <2>3, CreateTimely DEF Reserve, Goto, ExecStates
<1> QED
  BY <1>1, <1>2

LEMMA ReserveReplyLostTimely ==
  ASSUME IInv, TInv, NEW e \in Executors, ReserveReplyLost(e)
  PROVE  TInv'
<1>1. PICK k \in Keys : k = exec[e].key
  BY ExecShape DEF ReserveReplyLost, IInv
<1>2. TimelyExec(Idle)
  BY DEF TimelyExec, Idle
<1> QED
  BY <1>1, <1>2, IdleClaims, CreateTimely DEF ReserveReplyLost, Stop

\* Executor e records a transition of its operation and goes on to a state x,
\* or ends with the outcome.
LEMMA ExecRecordsTimely ==
  ASSUME IInv, TInv, NEW e \in Executors, NEW k \in Keys, exec[e].step \in DrivingSteps, k = exec[e].key,
         NEW to \in OperationStatuses, NEW stage \in Stages, Record(k, to, stage),
         NEW x \in ExecStates, exec' = [exec EXCEPT ![e] = x], TimelyExec(x)',
         x = Idle \/ (x.step \in DrivingSteps /\ x.key = k),
         to \in {"submitted", "accepted"} => dispatches[k] = 0,
         to \notin {"submitted", "accepted", "running"} => x = Idle,
         to = "failed" => Unexecuted(k),
         stage \in {"stranded-before-dispatch", "never-dispatched"} => dispatches[k] = 0 /\ x = Idle,
         UNCHANGED <<sweep, ownerVars>>
  PROVE  TInv'
<1>1. Exists(k)
  BY DEF IInv, ExecsOK, ExecClaims
<1>2. /\ \A l \in Keys : Exists(l)' <=> Exists(l)
      /\ \A l \in Keys \ {k} : operations'[l] = operations[l]
      /\ operations'[k].stage = IF stage = "none" THEN operations[k].stage ELSE stage
      /\ Status(k)' = to
  BY <1>1, RecordOK DEF IInv
<1>3. exec'[e] = x /\ \A f \in Executors \ {e} : exec'[f] = exec[f]
  BY DEF IInv, TypeOK
<1>4. \A l \in Keys : NotDriven(l) => NotDriven(l)'
  BY <1>3 DEF NotDriven, Drives, DrivingSteps, Idle
<1>5. \A f \in Executors \ {e} : exec[f].step \in DrivingSteps => exec[f].key \in Keys \ {k}
  BY ExecShape DEF IInv, ExecsOK, Apart, DrivingSteps
<1>6. x = Idle => NotDriven(k)'
  BY <1>3, <1>5 DEF NotDriven, Drives, DrivingSteps, Idle
<1>7. ~NotDriven(k)
  BY DrivesAt DEF NotDriven
<1>8. \A f \in Executors : TimelyExec(exec[f])'
  <2> SUFFICES ASSUME NEW f \in Executors PROVE TimelyExec(exec[f])'
    OBVIOUS
  <2>1. CASE f = e
    BY <1>3, <2>1 DEF TimelyExec
  <2>2. CASE f # e
    <3>1. exec'[f] = exec[f] /\ TimelyExec(exec[f])
      BY <1>3, <2>2 DEF TInv
    <3>2. exec[f].step = "dispatch" => Status(exec[f].key)' = Status(exec[f].key)
      BY <1>2, <1>5, <2>2, <3>1 DEF Status, DrivingSteps
    <3> QED
      BY <3>1, <3>2 DEF TimelyExec, Unexecuted, ownerVars
  <2> QED
    BY <2>1, <2>2
<1>9. \A s \in Sweepers : TimelySweep(sweep[s])'
  BY <1>4, SweepShape DEF IInv, TInv, TimelySweep, Unexecuted, ownerVars
<1>10. \A l \in Keys : TimelyOperation(l)'
  <2> SUFFICES ASSUME NEW l \in Keys PROVE TimelyOperation(l)'
    OBVIOUS
  <2>1. CASE l = k
    BY <1>1, <1>2, <1>6, <1>7, <2>1 DEF TInv, TimelyOperation, Unexecuted, ownerVars
  <2>2. CASE l # k
    BY <1>2, <1>4, <2>2 DEF TInv, TimelyOperation, Status, Unexecuted, ownerVars
  <2> QED
    BY <2>1, <2>2
<1>11. (\A l \in aged : Exists(l) /\ NotDriven(l))'
  BY <1>2, <1>4 DEF TInv, IInv, TypeOK, Record
<1>12. TimelyOwner'
  BY DEF TInv, TimelyOwner, Unexecuted, ownerVars
<1> QED
  BY <1>8, <1>9, <1>10, <1>11, <1>12 DEF TInv

LEMMA AdvanceTimely ==
  ASSUME IInv, TInv, NEW e \in Executors, NEW step \in {"accept", "run"}, NEW from,
         NEW to \in {"accepted", "running"}, NEW next \in {"run", "dispatch"},
         next = "dispatch" => to = "running",
         Advance(e, step, from, to, next)
  PROVE  TInv'
<1>1. PICK k \in Keys : k = exec[e].key
  BY ExecShape DEF Advance, IInv
<1>2. CASE Status(exec[e].key) = from
  <2>1. PICK x \in Executions :
          /\ x = [exec[e] EXCEPT !.step = next]
          /\ x.step = next /\ x.to = exec[e].to /\ x.key = exec[e].key /\ x.stage = exec[e].stage
    BY Stepped DEF Advance, IInv, ExecutorSteps
  <2>2. Record(k, to, "none") /\ "none" \in Stages /\ exec' = [exec EXCEPT ![e] = x]
    BY <1>1, <1>2, <2>1 DEF Advance, Stages, Goto
  <2>3. dispatches[k] = 0 /\ Exists(k)
    BY <1>1 DEF Advance, IInv, ExecsOK, ExecClaims, DrivingSteps
  <2>4. Status(k)' = to
    BY <2>2, <2>3, RecordOK DEF IInv, OperationStatuses
  <2>5. TimelyExec(x)'
    BY <1>1, <2>1, <2>4 DEF Advance, TInv, TimelyExec
  <2>6. /\ exec[e].step \in DrivingSteps /\ UNCHANGED <<sweep, ownerVars>>
        /\ x \in ExecStates /\ x.step \in DrivingSteps /\ x.key = k
        /\ to \in OperationStatuses /\ to \in {"submitted", "accepted", "running"} /\ to # "failed"
    BY <1>1, <2>1 DEF Advance, DrivingSteps, ExecStates, OperationStatuses
  <2>7. "none" \notin {"stranded-before-dispatch", "never-dispatched"}
    OBVIOUS
  <2> QED
    BY <1>1, <2>2, <2>3, <2>5, <2>6, <2>7, ExecRecordsTimely
<1>3. CASE Status(exec[e].key) # from
  BY <1>3, ExecStopsTimely DEF Advance
<1> QED
  BY <1>2, <1>3

LEMMA SettleUpdateTimely ==
  ASSUME IInv, TInv, NEW e \in Executors, SettleUpdate(e)
  PROVE  TInv'
<1>1. PICK k \in Keys, to \in OperationStatuses, stage \in Stages :
        k = exec[e].key /\ to = exec[e].to /\ stage = exec[e].stage
  BY ExecShape DEF SettleUpdate, IInv
<1>2. CASE Record(exec[e].key, exec[e].to, exec[e].stage)
  <2>1. /\ to \in {"completed", "failed", "partially_completed"}
        /\ to = "failed" => Unexecuted(k)
        /\ stage # "stranded-before-dispatch"
        /\ stage = "never-dispatched" => dispatches[k] = 0
    BY <1>1 DEF SettleUpdate, TInv, TimelyExec
  <2>2. PICK x \in ExecStates : x = Idle /\ TimelyExec(x)'
    BY IdleClaims DEF TimelyExec, Idle
  <2>3. exec' = [exec EXCEPT ![e] = x] /\ Record(k, to, stage)
    BY <1>1, <1>2, <2>2 DEF SettleUpdate, Stop
  <2>4. /\ exec[e].step \in DrivingSteps /\ UNCHANGED <<sweep, ownerVars>>
        /\ to \notin {"submitted", "accepted"}
    BY <2>1 DEF SettleUpdate, DrivingSteps
  <2>5. /\ to = "failed" => Unexecuted(k)
        /\ x = Idle \/ (x.step \in DrivingSteps /\ x.key = k)
        /\ to \in {"submitted", "accepted"} => dispatches[k] = 0
        /\ to \notin {"submitted", "accepted", "running"} => x = Idle
        /\ stage \in {"stranded-before-dispatch", "never-dispatched"} =>
             dispatches[k] = 0 /\ x = Idle
    BY <2>1, <2>2, <2>4
  <2>6. k = exec[e].key /\ TimelyExec(x)'
    BY <1>1, <2>2
  <2> QED
    BY <2>3, <2>4, <2>5, <2>6, ExecRecordsTimely, Zenon
<1>3. CASE UNCHANGED <<operations, aged>>
  BY <1>3, ExecStopsTimely DEF SettleUpdate
<1> QED
  BY <1>2, <1>3 DEF SettleUpdate

\* A sweep records the outcome of an operation nobody drives.
LEMMA SweepSettleUpdateTimely ==
  ASSUME IInv, TInv, NEW s \in Sweepers, SweepSettleUpdate(s)
  PROVE  TInv'
<1>1. PICK k \in Keys, to \in OperationStatuses, stage \in Stages :
        k = sweep[s].key /\ to = sweep[s].to /\ stage = sweep[s].stage
  BY SweepShape DEF SweepSettleUpdate, IInv
<1>2. CASE UNCHANGED <<operations, aged>>
  BY <1>2, SweepStopsTimely DEF SweepSettleUpdate
<1>3. CASE Record(sweep[s].key, sweep[s].to, sweep[s].stage)
  <2>1. /\ Exists(k) /\ NotDriven(k)
        /\ to \in {"completed", "failed", "partially_completed"}
        /\ to = "failed" => Unexecuted(k)
        /\ stage # "never-dispatched"
        /\ stage = "stranded-before-dispatch" => dispatches[k] = 0
    BY <1>1 DEF SweepSettleUpdate, IInv, SweepsOK, SweepClaims, TInv, TimelySweep
  <2>2. /\ \A l \in Keys : Exists(l)' <=> Exists(l)
        /\ \A l \in Keys \ {k} : operations'[l] = operations[l]
        /\ operations'[k].stage = IF stage = "none" THEN operations[k].stage ELSE stage
        /\ Status(k)' = to
    BY <1>1, <1>3, <2>1, RecordOK DEF IInv
  <2>3. \A l \in Keys : NotDriven(l)' <=> NotDriven(l)
    BY DEF SweepSettleUpdate, NotDriven, Drives
  <2>4. \A f \in Executors : TimelyExec(exec[f])'
    <3>1. \A f \in Executors : exec[f].step = "dispatch" => exec[f].key \in Keys \ {k}
      BY <2>1, ExecShape DEF IInv, NotDriven, Drives
    <3>2. \A f \in Executors :
            exec[f].step = "dispatch" => Status(exec[f].key)' = Status(exec[f].key)
      BY <2>2, <3>1 DEF SweepSettleUpdate, Status
    <3> QED
      BY <3>2 DEF SweepSettleUpdate, TInv, TimelyExec, Unexecuted, ownerVars
  <2>5. \A r \in Sweepers : TimelySweep(sweep[r])'
    <3>1. \A r \in Sweepers : sweep'[r] = sweep[r] \/ sweep'[r] = Idle
      BY DEF SweepSettleUpdate, IInv, TypeOK
    <3> QED
      BY <2>3, <3>1, SweepShape
      DEF SweepSettleUpdate, IInv, TInv, TimelySweep, Unexecuted, ownerVars, Idle
  <2>6. \A l \in Keys : TimelyOperation(l)'
    <3> SUFFICES ASSUME NEW l \in Keys PROVE TimelyOperation(l)'
      OBVIOUS
    <3>1. CASE l = k
      BY <2>1, <2>2, <2>3, <3>1
      DEF SweepSettleUpdate, TInv, TimelyOperation, Unexecuted, ownerVars
    <3>2. CASE l # k
      BY <2>2, <2>3, <3>2
      DEF SweepSettleUpdate, TInv, TimelyOperation, Status, Unexecuted, ownerVars
    <3> QED
      BY <3>1, <3>2
  <2>7. (\A l \in aged : Exists(l) /\ NotDriven(l))'
    BY <1>3, <2>2, <2>3 DEF TInv, IInv, TypeOK, Record
  <2>8. TimelyOwner'
    BY DEF SweepSettleUpdate, TInv, TimelyOwner, Unexecuted, ownerVars
  <2> QED
    BY <2>4, <2>5, <2>6, <2>7, <2>8 DEF TInv
<1> QED
  BY <1>2, <1>3 DEF SweepSettleUpdate

\* What a sweep lists has no driver, and was not sent if it is called stranded.
LEMMA ListTimely ==
  ASSUME IInv, TInv, NEW s \in Sweepers, NEW k \in Keys, List(s, k)
  PROVE  TInv'
<1> DEFINE stranded == Status(k) \in {"submitted", "accepted"}
<1>1. PICK x : x = [step |-> IF stranded THEN "settleRead" ELSE "receipt",
                    key |-> k, to |-> "failed",
                    stage |-> IF stranded THEN "stranded-before-dispatch"
                                          ELSE "resolved-not-dispatched",
                    observed |-> Status(k)]
  OBVIOUS
<1>2. sweep' = [sweep EXCEPT ![s] = x] /\ Status(k) \in OperationStatuses
  BY <1>1, StatusOK DEF List, IsCandidate, IInv
<1>3. /\ x \in Sweeps /\ x.key = k /\ x.to = "failed"
      /\ \/ x.step = "receipt" /\ x.stage = "resolved-not-dispatched"
         \/ x.step = "settleRead" /\ x.stage = "stranded-before-dispatch" /\ stranded
  BY <1>1, <1>2 DEF Sweeps, SweepSteps, OperationStatuses, Stages
<1>4. Exists(k) /\ NotDriven(k)
  BY DEF List, IsCandidate, TInv, TimelyOperation
<1>5. stranded => dispatches[k] = 0 /\ Unexecuted(k)
  BY <1>4 DEF TInv, TimelyOperation, TimelyOwner, Unexecuted
<1>6. TimelySweep(x)
  BY <1>3, <1>4, <1>5 DEF TimelySweep
<1> QED
  BY <1>2, <1>3, <1>6, SweepMoveTimely DEF List, SweepStates

LEMMA ReadReceiptTimely ==
  ASSUME IInv, TInv, NEW s \in Sweepers, ReadReceipt(s)
  PROVE  TInv'
<1> DEFINE receipt == receipts[sweep[s].key]
<1>1. sweep[s] \in Sweeps
  BY SweepShape DEF ReadReceipt, IInv
<1>2. CASE receipt = "completed"
  <2>1. PICK x : x = [sweep[s] EXCEPT !.step = "settleRead", !.to = "completed", !.stage = "none"]
    OBVIOUS
  <2>2. /\ x \in Sweeps /\ x.step = "settleRead" /\ x.key = sweep[s].key /\ x.to = "completed"
        /\ x.stage = "none"
    BY <1>1, <2>1 DEF Sweeps, SweepSteps, OperationStatuses, Stages
  <2>3. sweep' = [sweep EXCEPT ![s] = x]
    BY <1>2, <2>1 DEF ReadReceipt, IInv, TypeOK
  <2>4. TimelySweep(x)
    BY <2>2 DEF ReadReceipt, TInv, TimelySweep
  <2> QED
    BY <2>2, <2>3, <2>4, SweepMoveTimely DEF ReadReceipt, SweepStates
<1>3. CASE receipt \in {"none", "failed"}
  <2>1. PICK x : x = [sweep[s] EXCEPT !.step = "settleRead"]
    OBVIOUS
  <2>2. /\ x \in Sweeps /\ x.step = "settleRead" /\ x.key = sweep[s].key /\ x.to = sweep[s].to
        /\ x.stage = sweep[s].stage
    BY <1>1, <2>1 DEF Sweeps, SweepSteps
  <2>3. sweep' = [sweep EXCEPT ![s] = x]
    BY <1>3, <2>1 DEF ReadReceipt, IInv, TypeOK
  <2>4. TimelySweep(x)
    BY <1>3, <2>2 DEF ReadReceipt, TInv, TimelySweep, Unexecuted
  <2> QED
    BY <2>2, <2>3, <2>4, SweepMoveTimely DEF ReadReceipt, SweepStates
<1>4. CASE receipt = "partially_completed" /\ sweep[s].observed = "running"
  <2>1. PICK x : x = [sweep[s] EXCEPT !.step = "settleRead", !.to = "partially_completed",
                                      !.stage = "owner-partial"]
    OBVIOUS
  <2>2. /\ x \in Sweeps /\ x.step = "settleRead" /\ x.key = sweep[s].key
        /\ x.to = "partially_completed" /\ x.stage = "owner-partial"
    BY <1>1, <2>1 DEF Sweeps, SweepSteps, OperationStatuses, Stages
  <2>3. sweep' = [sweep EXCEPT ![s] = x]
    BY <1>4, <2>1 DEF ReadReceipt, IInv, TypeOK
  <2>4. TimelySweep(x)
    BY <2>2 DEF ReadReceipt, TInv, TimelySweep
  <2> QED
    BY <2>2, <2>3, <2>4, SweepMoveTimely DEF ReadReceipt, SweepStates
<1>5. CASE receipt \notin {"none", "failed", "completed"}
           /\ ~(receipt = "partially_completed" /\ sweep[s].observed = "running")
  BY <1>5, SweepStopsTimely DEF ReadReceipt
<1> QED
  BY <1>2, <1>3, <1>4, <1>5

LEMMA SweepSettleReadTimely ==
  ASSUME IInv, TInv, NEW s \in Sweepers, SweepSettleRead(s)
  PROVE  TInv'
<1> DEFINE status == Status(sweep[s].key)
<1>1. sweep[s] \in Sweeps /\ sweep[s].key \in Keys /\ Exists(sweep[s].key)
  BY SweepShape DEF SweepSettleRead, IInv, SweepsOK, SweepClaims
<1>2. CASE ~IsValidTransition(status, sweep[s].to)
  BY <1>2, SweepStopsTimely DEF SweepSettleRead, IInv, TypeOK
<1>3. CASE IsValidTransition(status, sweep[s].to)
  <2>1. status \in OperationStatuses
    BY <1>1, StatusOK DEF IInv
  <2>2. PICK x : x = [sweep[s] EXCEPT !.step = "settleUpdate", !.observed = status]
    OBVIOUS
  <2>3. /\ x \in Sweeps /\ x.step = "settleUpdate"
        /\ x.key = sweep[s].key /\ x.to = sweep[s].to /\ x.stage = sweep[s].stage
    BY <1>1, <2>1, <2>2 DEF Sweeps, SweepSteps
  <2>4. sweep' = [sweep EXCEPT ![s] = x]
    BY <1>3, <2>2 DEF SweepSettleRead, IInv, TypeOK
  <2>5. TimelySweep(x)
    BY <2>3 DEF SweepSettleRead, TInv, TimelySweep
  <2> QED
    BY <2>3, <2>4, <2>5, SweepMoveTimely DEF SweepSettleRead, SweepStates
<1> QED
  BY <1>2, <1>3

\* The only request of its key goes out.
LEMMA DispatchTimely ==
  ASSUME IInv, TInv, NEW e \in Executors, Dispatch(e)
  PROVE  TInv'
<1>1. PICK k \in Keys : k = exec[e].key
  BY ExecShape DEF Dispatch, IInv
<1>2. /\ \A f \in Executors \ {e} : exec'[f] = exec[f]
      /\ exec'[e].step = "wait" /\ exec'[e].key = k /\ exec'[e].to = exec[e].to
      /\ exec'[e].stage = exec[e].stage
  BY <1>1, GotoOK DEF Dispatch, IInv, ExecutorSteps
<1>3. /\ Exists(k) /\ dispatches[k] = 0 /\ ~NotDriven(k)
      /\ Status(k) \notin {"submitted", "accepted"}
  BY <1>1 DEF Dispatch, IInv, ExecsOK, ExecClaims, DrivingSteps, NotDriven, Drives, TInv, TimelyExec
<1>4. /\ dispatches'[k] = 1
      /\ \A l \in Keys \ {k} : dispatches'[l] = dispatches[l]
  BY <1>1, <1>3 DEF Dispatch, IInv, TypeOK
<1>5. \A l \in Keys : NotDriven(l) => NotDriven(l)'
  BY <1>1, <1>2 DEF Dispatch, NotDriven, Drives
<1>6. \A f \in Executors : TimelyExec(exec[f])'
  <2> SUFFICES ASSUME NEW f \in Executors PROVE TimelyExec(exec[f])'
    OBVIOUS
  <2>1. CASE f = e
    BY <1>1, <1>2, <2>1 DEF Dispatch, TInv, TimelyExec
  <2>2. CASE f # e
    <3>1. exec'[f] = exec[f] /\ TimelyExec(exec[f])
      BY <1>2, <2>2 DEF TInv
    <3>2. exec[f].step \in DrivingSteps => exec[f].key \in Keys \ {k}
      BY <1>1, <2>2, ExecShape DEF Dispatch, IInv, ExecsOK, Apart, DrivingSteps
    <3> QED
      BY <1>4, <3>1, <3>2 DEF Dispatch, TimelyExec, Status, Unexecuted, DrivingSteps
  <2> QED
    BY <2>1, <2>2
<1>7. \A s \in Sweepers : TimelySweep(sweep[s])'
  <2>1. \A s \in Sweepers : sweep[s].step # "idle" => sweep[s].key \in Keys \ {k}
    BY <1>3, SweepShape DEF IInv, TInv, TimelySweep
  <2> QED
    BY <1>4, <1>5, <2>1 DEF Dispatch, TInv, TimelySweep, Unexecuted
<1>8. \A l \in Keys : TimelyOperation(l)'
  BY <1>3, <1>4, <1>5 DEF Dispatch, TInv, TimelyOperation, Exists, Status, Unexecuted
<1>9. (\A l \in aged : Exists(l) /\ NotDriven(l))'
  BY <1>5 DEF Dispatch, TInv, IInv, TypeOK, Exists
<1>10. TimelyOwner'
  <2>1. receipts[k] = "none"
    BY <1>3 DEF TInv, TimelyOwner
  <2>2. \A r \in wire : r.key \in Keys \ {k}
    BY <1>3 DEF TInv, TimelyOwner, IInv, TypeOK, Requests
  <2>3. \A q \in replies : q.key \in Keys \ {k}
    BY <1>3 DEF TInv, TimelyOwner, IInv, TypeOK, Replies
  <2>4. PICK n : n = [executor |-> e, key |-> k]
    OBVIOUS
  <2>5. wire' = wire \cup {n} /\ n.key = k
    BY <1>1, <2>4 DEF Dispatch
  <2>6. (\A r \in wire : dispatches[r.key] # 0 /\ receipts[r.key] \in {"none", "executing"})'
    BY <1>4, <2>1, <2>2, <2>5 DEF Dispatch, TInv, TimelyOwner
  <2>7. (\A r, q \in wire : r.key = q.key => r = q)'
    BY <2>2, <2>5 DEF TInv, TimelyOwner
  <2>8. (\A q \in replies : /\ dispatches[q.key] # 0
                            /\ q.answer = "refused" => Unexecuted(q.key)
                            /\ \A r \in wire : r.key # q.key)'
    BY <1>4, <2>3, <2>5 DEF Dispatch, TInv, TimelyOwner, Unexecuted
  <2>9. (\A l \in Keys : dispatches[l] = 0 => receipts[l] = "none")'
    BY <1>4 DEF Dispatch, TInv, TimelyOwner
  <2>10. (\A l \in effects : receipts[l] = "completed")'
    BY DEF Dispatch, TInv, TimelyOwner
  <2> QED
    BY <2>6, <2>7, <2>8, <2>9, <2>10, Zenon DEF TimelyOwner
<1> QED
  BY <1>6, <1>7, <1>8, <1>9, <1>10 DEF TInv

LEMMA ReceiveReplyTimely ==
  ASSUME IInv, TInv, NEW e \in Executors, ReceiveReply(e)
  PROVE  TInv'
<1>1. PICK r \in replies :
        /\ r.key = exec[e].key /\ replies' = replies \ {r}
        /\ \/ r.answer = "refused" /\ Outcome(e, "failed", "mutation-response")
           \/ Outcome(e, "partially_completed", "owner-reported-partial")
           \/ Outcome(e, "completed", "none")
  BY DEF ReceiveReply
<1>2. PICK to \in {"completed", "failed", "partially_completed"},
           stage \in {"none", "mutation-response", "owner-reported-partial"} :
        Outcome(e, to, stage) /\ (to = "failed" => Unexecuted(exec[e].key))
  BY <1>1 DEF TInv, TimelyOwner
<1>3. /\ \A f \in Executors \ {e} : exec'[f] = exec[f]
      /\ exec'[e].step = "settleRead" /\ exec'[e].key = exec[e].key /\ exec'[e].to = to
      /\ exec'[e].stage = stage
  BY <1>2, OutcomeOK DEF ReceiveReply, IInv, OperationStatuses, Stages
<1>4. \A l \in Keys : NotDriven(l) => NotDriven(l)'
  BY <1>3 DEF ReceiveReply, NotDriven, Drives
<1>5. \A f \in Executors : TimelyExec(exec[f])'
  <2> SUFFICES ASSUME NEW f \in Executors PROVE TimelyExec(exec[f])'
    OBVIOUS
  <2>1. CASE f = e
    BY <1>2, <1>3, <2>1 DEF ReceiveReply, TimelyExec, Unexecuted
  <2>2. CASE f # e
    BY <1>3, <2>2 DEF ReceiveReply, TInv, TimelyExec, Status, Unexecuted
  <2> QED
    BY <2>1, <2>2
<1>6. \A s \in Sweepers : TimelySweep(sweep[s])'
  BY <1>4, SweepShape DEF ReceiveReply, IInv, TInv, TimelySweep, Unexecuted
<1>7. \A l \in Keys : TimelyOperation(l)'
  BY <1>4 DEF ReceiveReply, TInv, TimelyOperation, Exists, Status, Unexecuted
<1>8. (\A l \in aged : Exists(l) /\ NotDriven(l))'
  BY <1>4 DEF ReceiveReply, TInv, IInv, TypeOK, Exists
<1>9. TimelyOwner'
  BY <1>1 DEF ReceiveReply, TInv, TimelyOwner, Unexecuted
<1> QED
  BY <1>5, <1>6, <1>7, <1>8, <1>9 DEF TInv

\* A step of the owner, or of time: a command not executed stays so, unless an
\* executor is waiting for it.
LEMMA OwnerMoveTimely ==
  ASSUME IInv, TInv, TimelyOwner', UNCHANGED <<operations, exec, sweep, dispatches>>,
         \A k \in aged' : k \in aged \/ (k \in Keys /\ Exists(k) /\ NotDriven(k)),
         \A k \in Keys : Unexecuted(k) =>
           \/ Unexecuted(k)'
           \/ \E f \in Executors : exec[f].step = "wait" /\ exec[f].key = k
  PROVE  TInv'
<1>1. \A k \in Keys : NotDriven(k)' <=> NotDriven(k)
  BY DEF NotDriven, Drives
<1>2. \A k \in Keys : NotDriven(k) /\ Unexecuted(k) => Unexecuted(k)'
  BY DEF NotDriven, Drives
<1>3. \A f \in Executors : TimelyExec(exec[f])'
  <2> SUFFICES ASSUME NEW f \in Executors PROVE TimelyExec(exec[f])'
    OBVIOUS
  <2>1. ASSUME exec[f].step \in {"settleRead", "settleUpdate"}, Unexecuted(exec[f].key)
        PROVE  Unexecuted(exec[f].key)'
    <3>1. PICK k \in Keys : k = exec[f].key
      BY <2>1, ExecShape DEF IInv
    <3>2. \A g \in Executors : exec[g].step = "wait" => exec[g].key # k
      BY <2>1, <3>1 DEF IInv, ExecsOK, Apart, DrivingSteps
    <3>3. Unexecuted(k)'
      BY <2>1, <3>1, <3>2
    <3> QED
      BY <3>1, <3>3 DEF Unexecuted
  <2> QED
    BY <2>1 DEF TInv, TimelyExec, Status, Unexecuted
<1>4. \A s \in Sweepers : TimelySweep(sweep[s])'
  BY <1>1, <1>2, SweepShape DEF IInv, TInv, TimelySweep, Unexecuted
<1>5. \A k \in Keys : TimelyOperation(k)'
  BY <1>1, <1>2 DEF TInv, TimelyOperation, Exists, Status, Unexecuted
<1>6. (\A k \in aged : Exists(k) /\ NotDriven(k))'
  BY <1>1 DEF TInv, IInv, TypeOK, Exists
<1> QED
  BY <1>3, <1>4, <1>5, <1>6 DEF TInv

\* The owner accepts only a request its sender waits for.
LEMMA OwnerAcceptsTimely ==
  ASSUME Timely, IInv, TInv, NEW r \in Requests, OwnerAccepts(r)
  PROVE  TInv'
<1>1. /\ r \in wire /\ r.key \in Keys /\ r.executor \in Executors
      /\ exec[r.executor].step = "wait" /\ exec[r.executor].key = r.key
  BY DEF Timely, OwnerAccepts, Arrives, Requests
<1>2. /\ receipts'[r.key] = "executing"
      /\ \A k \in Keys \ {r.key} : receipts'[k] = receipts[k]
  BY <1>1 DEF OwnerAccepts, IInv, TypeOK
<1>3. TimelyOwner'
  <2>1. r.key \notin effects /\ \A q \in replies : q.key \in Keys \ {r.key}
    BY <1>1 DEF OwnerAccepts, TInv, TimelyOwner, IInv, TypeOK, Replies
  <2>2. (\A q \in wire : dispatches[q.key] # 0 /\ receipts[q.key] \in {"none", "executing"})'
    BY <1>2 DEF OwnerAccepts, TInv, TimelyOwner, IInv, TypeOK, Requests
  <2>3. (\A q, p \in wire : q.key = p.key => q = p)'
    BY DEF OwnerAccepts, TInv, TimelyOwner
  <2>4. (\A q \in replies : /\ dispatches[q.key] # 0
                            /\ q.answer = "refused" => Unexecuted(q.key)
                            /\ \A p \in wire : p.key # q.key)'
    BY <1>2, <2>1 DEF OwnerAccepts, TInv, TimelyOwner, Unexecuted
  <2>5. (\A k \in Keys : dispatches[k] = 0 => receipts[k] = "none")'
    BY <1>1, <1>2 DEF OwnerAccepts, TInv, TimelyOwner
  <2>6. (\A k \in effects : receipts[k] = "completed")'
    BY <1>2, <2>1 DEF OwnerAccepts, TInv, TimelyOwner, IInv, TypeOK
  <2> QED
    BY <2>2, <2>3, <2>4, <2>5, <2>6, Zenon DEF TimelyOwner
<1>4. \A k \in Keys : Unexecuted(k) =>
        \/ Unexecuted(k)'
        \/ \E f \in Executors : exec[f].step = "wait" /\ exec[f].key = k
  BY <1>1, <1>2 DEF Unexecuted
<1> QED
  BY <1>3, <1>4, OwnerMoveTimely DEF OwnerAccepts

\* An answer takes its request, the only one of its key, off the wire.
LEMMA AnswerTimely ==
  ASSUME IInv, TInv, NEW r \in wire, NEW answer \in Answers,
         NEW status \in {"none", "completed", "partially_completed", "failed"},
         Answer(r, answer),
         receipts' = [receipts EXCEPT ![r.key] = status],
         effects' = effects \/ effects' = effects \cup {r.key},
         r.key \in effects' => status = "completed",
         answer = "refused" => status \in {"none", "failed"},
         status = "none" => receipts[r.key] = "none",
         status # "none" => receipts[r.key] = "executing",
         UNCHANGED dispatches
  PROVE  TimelyOwner'
<1>1. r.key \in Keys /\ r.executor \in Executors
  BY DEF IInv, TypeOK, Requests
<1>2. /\ receipts'[r.key] = status
      /\ \A k \in Keys \ {r.key} : receipts'[k] = receipts[k]
  BY <1>1 DEF IInv, TypeOK
<1>3. \A q \in replies : q.key \in Keys \ {r.key}
  BY <1>1 DEF TInv, TimelyOwner, IInv, TypeOK, Replies
<1>4. \A q \in wire' : q.key \in Keys \ {r.key} /\ q \in wire
  BY DEF Answer, TInv, TimelyOwner, IInv, TypeOK, Requests
<1>5. (\A q \in wire : dispatches[q.key] # 0 /\ receipts[q.key] \in {"none", "executing"})'
  BY <1>2, <1>4 DEF TInv, TimelyOwner
<1>6. (\A q, p \in wire : q.key = p.key => q = p)'
  BY <1>4 DEF TInv, TimelyOwner
<1>7. PICK a : a = [executor |-> r.executor, key |-> r.key, answer |-> answer]
  OBVIOUS
<1>8. a.key = r.key /\ a.answer = answer /\ replies' = replies \cup {a}
  BY <1>7 DEF Answer
<1>9. (\A q \in replies : /\ dispatches[q.key] # 0
                          /\ q.answer = "refused" => Unexecuted(q.key)
                          /\ \A p \in wire : p.key # q.key)'
  BY <1>2, <1>3, <1>4, <1>8 DEF TInv, TimelyOwner, Unexecuted
<1>10. (\A k \in Keys : dispatches[k] = 0 => receipts[k] = "none")'
  BY <1>2 DEF TInv, TimelyOwner
<1>11. (\A k \in effects : receipts[k] = "completed")'
  BY <1>1, <1>2 DEF TInv, TimelyOwner, IInv, TypeOK
<1> QED
  BY <1>5, <1>6, <1>9, <1>10, <1>11, Zenon DEF TimelyOwner

LEMMA OwnerFinishesTimely ==
  ASSUME IInv, TInv, NEW r \in Requests, OwnerFinishes(r)
  PROVE  TInv'
<1>1. r \in wire /\ r.key \in Keys /\ receipts[r.key] = "executing" /\ r.key \notin effects
  BY DEF OwnerFinishes, Requests, TInv, TimelyOwner
<1>2. TimelyOwner'
  <2>1. PICK ended \in {"completed", "partially_completed", "failed"} :
          /\ receipts' = [receipts EXCEPT ![r.key] = ended]
          /\ effects' = IF ended = "completed" THEN effects \cup {r.key} ELSE effects
          /\ Answer(r, IF ended = "failed" THEN "refused" ELSE ended)
    BY DEF OwnerFinishes
  <2>2. PICK answer \in Answers :
          answer = (IF ended = "failed" THEN "refused" ELSE ended) /\ Answer(r, answer)
    BY <2>1 DEF Answers
  <2>3. r.key \in effects' => ended = "completed"
    BY <1>1, <2>1
  <2> QED
    BY <1>1, <2>1, <2>2, <2>3, AnswerTimely DEF OwnerFinishes
<1>3. \A k \in Keys : Unexecuted(k) => Unexecuted(k)'
  BY <1>1 DEF OwnerFinishes, Unexecuted, IInv, TypeOK
<1> QED
  BY <1>2, <1>3, OwnerMoveTimely DEF OwnerFinishes

LEMMA OwnerRefusesTimely ==
  ASSUME IInv, TInv, NEW r \in Requests, OwnerRefuses(r)
  PROVE  TInv'
<1>1. /\ r \in wire /\ r.key \in Keys /\ receipts[r.key] = "none" /\ r.key \notin effects
      /\ receipts' = [receipts EXCEPT ![r.key] = "none"]
  BY DEF OwnerRefuses, Arrives, Requests, TInv, TimelyOwner, IInv, TypeOK
<1>2. TimelyOwner'
  BY <1>1, AnswerTimely DEF OwnerRefuses, Answers
<1>3. \A k \in Keys : Unexecuted(k) => Unexecuted(k)'
  BY DEF OwnerRefuses, Unexecuted
<1> QED
  BY <1>2, <1>3, OwnerMoveTimely DEF OwnerRefuses

\* Only an operation nobody works on ages.
LEMMA AgeTimely ==
  ASSUME Timely, IInv, TInv, NEW k \in Keys, Age(k)
  PROVE  TInv'
<1>1. NotDriven(k) /\ Exists(k) /\ aged' = aged \cup {k}
  BY DEF Timely, Age, NotDriven
<1>2. TimelyOwner'
  BY DEF Age, TInv, TimelyOwner, Unexecuted
<1>3. \A l \in Keys : Unexecuted(l) => Unexecuted(l)'
  BY DEF Age, Unexecuted
<1> QED
  BY <1>1, <1>2, <1>3, OwnerMoveTimely DEF Age

LEMMA NextTInv == Timely /\ IInv /\ TInv /\ [Next]_vars => TInv'
<1> SUFFICES ASSUME Timely, IInv, TInv, [Next]_vars PROVE TInv'
  OBVIOUS
<1>1. CASE UNCHANGED vars
  <2>1. TimelyOwner' /\ \A k \in Keys : Unexecuted(k) => Unexecuted(k)'
    BY <1>1 DEF vars, TInv, TimelyOwner, Unexecuted
  <2> QED
    BY <1>1, <2>1, OwnerMoveTimely DEF vars
<1>2. ASSUME NEW e \in Executors, NEW k \in Keys, NEW a \in Approvals \cup {NoRow}, Start(e, k, a)
      PROVE  TInv'
  BY <1>2, StartTimely
<1>3. ASSUME NEW e \in Executors, ExecutorStep(e) PROVE TInv'
  <2>1. CASE ReplayCheck(e) \/ Consume(e)
    BY <2>1, GotoTimely, ExecStopsTimely DEF ReplayCheck, Consume
  <2>2. CASE Accept(e) \/ Run(e)
    BY <2>2, AdvanceTimely DEF Accept, Run
  <2> QED
    BY <1>3, <2>1, <2>2, ReserveTimely, DispatchTimely, NeverDispatchedTimely, ReceiveReplyTimely,
       CallTimesOutTimely, SettleReadTimely, SettleUpdateTimely
    DEF ExecutorStep
<1>4. ASSUME NEW e \in Executors, ExecutorFailure(e) PROVE TInv'
  BY <1>4, ExecStopsTimely, ReserveReplyLostTimely DEF ExecutorFailure, ConsumeReplyLost, Abandon
<1>5. ASSUME NEW r \in Requests, OwnerAccepts(r) \/ OwnerFinishes(r) \/ OwnerRefuses(r)
      PROVE  TInv'
  BY <1>5, OwnerAcceptsTimely, OwnerFinishesTimely, OwnerRefusesTimely
<1>6. ASSUME NEW s \in Sweepers, SweepStep(s) \/ SweepAbandons(s) PROVE TInv'
  BY <1>6, ReadReceiptTimely, SweepSettleReadTimely, SweepSettleUpdateTimely, SweepStopsTimely
  DEF SweepStep, SweepAbandons
<1>7. ASSUME NEW s \in Sweepers, NEW k \in Keys, List(s, k) PROVE TInv'
  BY <1>7, ListTimely
<1>8. ASSUME NEW k \in Keys, Age(k) PROVE TInv'
  BY <1>8, AgeTimely
<1> QED
  BY <1>1, <1>2, <1>3, <1>4, <1>5, <1>6, <1>7, <1>8 DEF Next, OwnerStep

LEMMA TInvIsTrue == TInv => StrandedNeverDispatched /\ FailedMeansNotExecuted
  BY DEF TInv, TimelyOperation, TimelyOwner, Unexecuted, StrandedNeverDispatched,
         FailedMeansNotExecuted

\* Where requests are timely, an operation recorded as stranded or as never
\* dispatched was not sent (resolveStuckOperation, isNeverDispatchedNetworkError).
THEOREM StrandedIsTrue ==
  ASSUME Timely PROVE Spec => []StrandedNeverDispatched
  BY Invariance, InitTInv, NextTInv, TInvIsTrue, PTL DEF Spec

\* Where requests are timely, an operation recorded as failed was carried out
\* in no part and will not be: it is safe to ask again (ReceiptLookup).
THEOREM FailedIsTrue ==
  ASSUME Timely PROVE Spec => []FailedMeansNotExecuted
  BY Invariance, InitTInv, NextTInv, TInvIsTrue, PTL DEF Spec
===============================================================================
