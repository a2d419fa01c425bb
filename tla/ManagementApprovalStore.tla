------------------------ MODULE ManagementApprovalStore ------------------------
(***************************************************************************)
(* The maker-checker approval substrate                                    *)
(* (management/operations/managementApprovalStore.ts) over the table of    *)
(* migration 0012.  An operator (the maker) requests a high-risk action,   *)
(* another (the checker) decides the request before it expires, and an     *)
(* approved request grants one execution.                                  *)
(*                                                                         *)
(* Deciding and executing read the row, judge it, and then update it with  *)
(* a guarded statement: each is two actions, and calls of different        *)
(* handlers interleave between them.  Time passes in Tick.                 *)
(***************************************************************************)
EXTENDS Naturals

CONSTANTS Approvals,  \* approval ids
          Operators,  \* operator ids
          Hashes,     \* canonical hashes of the requested action and target
          Handlers,   \* requests in service
          Ttl,        \* lifetime of a pending approval
          MaxTime,    \* bound of the clock
          MaxGrants,  \* bound of the execution counter
          NoRow       \* the absence of a row or of a checker

VARIABLES
  approvals,  \* management_approvals
  now,        \* the clock
  call,       \* the call each handler is making
  answer,     \* the answer to the handler's last call
  grants      \* history: executions granted per approval

vars == <<approvals, now, call, answer, grants>>

Decisions == {"approved", "rejected"}

ApprovalRows ==
  [hash : Hashes, maker : Operators, checker : Operators \cup {NoRow},
   status : {"pending"} \cup Decisions, executed : BOOLEAN, expiresAt : Nat]

ASSUME ApprovalAssumption ==
  /\ NoRow \notin ApprovalRows \cup Operators
  /\ Ttl \in Nat \ {0} /\ MaxTime \in Nat /\ MaxGrants \in Nat \ {0}

Idle == [step |-> "idle"]

DecideCalls ==
  [step : {"decideRead", "decideUpdate"}, approval : Approvals,
   checker : Operators, decision : Decisions]

ExecuteCalls ==
  [step : {"executeRead", "executeUpdate"}, approval : Approvals, hash : Hashes]

Answers == {"none", "decided", "executed", "not_found", "expired", "not_pending",
            "self_approval", "not_approved", "already_executed", "mismatch",
            "unavailable"}

TypeOK ==
  /\ approvals \in [Approvals -> ApprovalRows \cup {NoRow}]
  /\ now \in Nat
  /\ call \in [Handlers -> {Idle} \cup DecideCalls \cup ExecuteCalls]
  /\ answer \in [Handlers -> Answers]
  /\ grants \in [Approvals -> Nat]

Init ==
  /\ approvals = [a \in Approvals |-> NoRow]
  /\ now = 0
  /\ call = [h \in Handlers |-> Idle]
  /\ answer = [h \in Handlers |-> "none"]
  /\ grants = [a \in Approvals |-> 0]

At(h, step) == call[h].step = step

Begin(h, c) ==
  /\ At(h, "idle")
  /\ call' = [call EXCEPT ![h] = c]
  /\ answer' = [answer EXCEPT ![h] = "none"]
  /\ UNCHANGED <<approvals, now, grants>>

Return(h, value) ==
  /\ call' = [call EXCEPT ![h] = Idle]
  /\ answer' = [answer EXCEPT ![h] = value]

Goto(h, step) ==
  /\ call' = [call EXCEPT ![h].step = step]
  /\ UNCHANGED answer

\* A pending row past its time is expired although its status is not changed.
IsPastExpiry(row) == row.status = "pending" /\ row.expiresAt <= now

\* createApproval: one INSERT, under an id minted for the call.
CreateApproval(a, x, maker) ==
  /\ approvals[a] = NoRow
  /\ approvals' = [approvals EXCEPT ![a] =
       [hash |-> x, maker |-> maker, checker |-> NoRow, status |-> "pending",
        executed |-> FALSE, expiresAt |-> now + Ttl]]
  /\ UNCHANGED <<now, call, answer, grants>>

(***************************************************************************)
(* decideApproval                                                          *)
(***************************************************************************)
BeginDecide(h, a, checker, decision) ==
  Begin(h, [step |-> "decideRead", approval |-> a, checker |-> checker,
            decision |-> decision])

\* Why the row read for a decision refuses it, or "none".
DecideRefusal(row, checker) ==
  IF row = NoRow                  THEN "not_found"
  ELSE IF IsPastExpiry(row)       THEN "expired"
  ELSE IF row.status # "pending"  THEN "not_pending"
  ELSE IF row.maker = checker     THEN "self_approval"
  ELSE "none"

DecideRead(h) ==
  /\ At(h, "decideRead")
  /\ LET refusal == DecideRefusal(approvals[call[h].approval], call[h].checker)
     IN  IF refusal = "none" THEN Goto(h, "decideUpdate") ELSE Return(h, refusal)
  /\ UNCHANGED <<approvals, now, grants>>

\* Mutant: the UPDATE does not ask for a pending row.
ApplyDecision_Unguarded(h) ==
  approvals' = [approvals EXCEPT ![call[h].approval].status = call[h].decision,
                                 ![call[h].approval].checker = call[h].checker]

\* UPDATE ... WHERE status = 'pending'
ApplyDecision(h) ==
  LET a == call[h].approval
  IN  /\ approvals[a].status = "pending"
      /\ approvals' = [approvals EXCEPT ![a].status = call[h].decision,
                                        ![a].checker = call[h].checker]

DecideUpdate(h) ==
  /\ At(h, "decideUpdate")
  /\ ApplyDecision(h)
  /\ Return(h, "decided")
  /\ UNCHANGED <<now, grants>>

DecideUpdateReplyLost(h) ==
  /\ At(h, "decideUpdate")
  /\ ApplyDecision(h)
  /\ Return(h, "unavailable")
  /\ UNCHANGED <<now, grants>>

DecideUpdateMisses(h) ==
  /\ At(h, "decideUpdate")
  /\ approvals[call[h].approval].status # "pending"
  /\ Return(h, "not_pending")
  /\ UNCHANGED <<approvals, now, grants>>

(***************************************************************************)
(* markExecuted                                                            *)
(***************************************************************************)
BeginExecute(h, a, x) ==
  Begin(h, [step |-> "executeRead", approval |-> a, hash |-> x])

\* Mutant: the hash of the execution is not compared with the approved one.
ExecuteRefusal_AnyHash(row, x) ==
  IF row = NoRow                   THEN "not_found"
  ELSE IF IsPastExpiry(row)        THEN "expired"
  ELSE IF row.status # "approved"  THEN "not_approved"
  ELSE IF row.executed             THEN "already_executed"
  ELSE "none"

ExecuteRefusal(row, x) ==
  IF row = NoRow                   THEN "not_found"
  ELSE IF IsPastExpiry(row)        THEN "expired"
  ELSE IF row.status # "approved"  THEN "not_approved"
  ELSE IF row.executed             THEN "already_executed"
  ELSE IF row.hash # x             THEN "mismatch"
  ELSE "none"

ExecuteRead(h) ==
  /\ At(h, "executeRead")
  /\ LET refusal == ExecuteRefusal(approvals[call[h].approval], call[h].hash)
     IN  IF refusal = "none" THEN Goto(h, "executeUpdate") ELSE Return(h, refusal)
  /\ UNCHANGED <<approvals, now, grants>>

\* Mutant: the UPDATE does not ask for executed_at IS NULL.
Executable_Again(row) == row.status = "approved"

\* The rows the statement UPDATE ... SET executed_at matches.
Executable(row) == row.status = "approved" /\ ~row.executed

ExecuteUpdate(h) ==
  /\ At(h, "executeUpdate")
  /\ LET a == call[h].approval
     IN  /\ Executable(approvals[a])
         /\ grants[a] < MaxGrants
         /\ approvals' = [approvals EXCEPT ![a].executed = TRUE]
         /\ grants' = [grants EXCEPT ![a] = @ + 1]
  /\ Return(h, "executed")
  /\ UNCHANGED now

\* The approval is spent and its executor does not learn that it may go on.
ExecuteUpdateReplyLost(h) ==
  /\ At(h, "executeUpdate")
  /\ Executable(approvals[call[h].approval])
  /\ approvals' = [approvals EXCEPT ![call[h].approval].executed = TRUE]
  /\ Return(h, "unavailable")
  /\ UNCHANGED <<now, grants>>

ExecuteUpdateMisses(h) ==
  /\ At(h, "executeUpdate")
  /\ ~Executable(approvals[call[h].approval])
  /\ Return(h, "already_executed")
  /\ UNCHANGED <<approvals, now, grants>>

(***************************************************************************)
(* Failures and time                                                       *)
(***************************************************************************)
\* A statement fails without effect, or the process stops: nothing is written.
CallFails(h) ==
  /\ ~At(h, "idle")
  /\ Return(h, "unavailable")
  /\ UNCHANGED <<approvals, now, grants>>

Tick ==
  /\ now < MaxTime
  /\ now' = now + 1
  /\ UNCHANGED <<approvals, call, answer, grants>>

Step(h) ==
  \/ DecideRead(h) \/ DecideUpdate(h) \/ DecideUpdateReplyLost(h)
  \/ DecideUpdateMisses(h)
  \/ ExecuteRead(h) \/ ExecuteUpdate(h) \/ ExecuteUpdateReplyLost(h)
  \/ ExecuteUpdateMisses(h)
  \/ CallFails(h)

Request(h, a) ==
  \/ \E checker \in Operators, decision \in Decisions :
       BeginDecide(h, a, checker, decision)
  \/ \E x \in Hashes : BeginExecute(h, a, x)

Next ==
  \/ \E a \in Approvals, x \in Hashes, maker \in Operators :
       CreateApproval(a, x, maker)
  \/ \E h \in Handlers : Step(h) \/ \E a \in Approvals : Request(h, a)
  \/ Tick

Spec == Init /\ [][Next]_vars

(***************************************************************************)
(* Properties                                                              *)
(***************************************************************************)
\* An approval authorises one execution, however many executors race for it
\* and whatever replies are lost (markExecuted, "grants exactly one execution").
OneExecutionPerApproval ==
  \A a \in Approvals :
    grants[a] <= IF approvals[a] # NoRow /\ approvals[a].executed THEN 1 ELSE 0

\* The CHECK constraints of migration 0012 are a backstop no code path needs:
\* every row the store writes already satisfies them.
BackstopNeverFires ==
  \A a \in Approvals : approvals[a] # NoRow =>
    LET row == approvals[a]
    IN  /\ row.checker # row.maker
        /\ (row.status = "pending") = (row.checker = NoRow)
        /\ row.executed => row.status = "approved"

\* Of two checkers racing on one request, the first decides it for good, and
\* what was requested stays what was decided (decideApproval).
DecisionIsFinal ==
  [][\A a \in Approvals :
       /\ approvals[a] # NoRow => /\ approvals'[a] # NoRow
                                  /\ approvals'[a].hash = approvals[a].hash
                                  /\ approvals'[a].maker = approvals[a].maker
       /\ approvals[a] # NoRow /\ approvals[a].status # "pending"
            => /\ approvals'[a].status = approvals[a].status
               /\ approvals'[a].checker = approvals[a].checker]_vars

\* An execution is granted only for the very request a second operator
\* approved, although the row is judged at the read and not at the update
\* (markExecuted).
ExecutionMatchesApproval ==
  [][\A h \in Handlers :
       At(h, "executeUpdate") /\ answer'[h] = "executed" =>
         LET row == approvals[call[h].approval]
         IN  row.status = "approved" /\ row.checker # row.maker /\ row.hash = call[h].hash]_vars

===============================================================================
