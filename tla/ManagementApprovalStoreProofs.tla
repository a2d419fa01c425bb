--------------------- MODULE ManagementApprovalStoreProofs ---------------------
(***************************************************************************)
(* Theorems about the approval store, for every set of approvals,          *)
(* operators, hashes and handlers.                                         *)
(*                                                                         *)
(* The store judges a row when it reads it and writes it later.  What it   *)
(* judged still holds at the write because a row keeps its maker and hash, *)
(* and once decided its status: this is the strengthening (CallsChecked).  *)
(***************************************************************************)
EXTENDS ManagementApprovalStore, TLAPS

\* What the read of a call established and its update relies on.
Checked(c) ==
  /\ c.step = "decideUpdate" =>
       approvals[c.approval] # NoRow /\ approvals[c.approval].maker # c.checker
  /\ c.step = "executeUpdate" =>
       /\ approvals[c.approval] # NoRow
       /\ approvals[c.approval].status = "approved"
       /\ approvals[c.approval].hash = c.hash

CallsChecked == \A h \in Handlers : Checked(call[h])

\* The inductive invariant.
IInv ==
  /\ TypeOK
  /\ OneExecutionPerApproval
  /\ BackstopNeverFires
  /\ CallsChecked

\* What no step takes back from a row.
RowsEndure ==
  \A a \in Approvals : approvals[a] # NoRow =>
    /\ approvals'[a] # NoRow
    /\ approvals'[a].hash = approvals[a].hash
    /\ approvals'[a].maker = approvals[a].maker
    /\ approvals[a].status # "pending" =>
         /\ approvals'[a].status = approvals[a].status
         /\ approvals'[a].checker = approvals[a].checker

Calls == {Idle} \cup DecideCalls \cup ExecuteCalls

-----------------------------------------------------------------------------
\* The absence of a row is no row, and of a checker no operator.
LEMMA NoRowIsNone == NoRow \notin ApprovalRows /\ NoRow \notin Operators
  BY ApprovalAssumption

\* A call of decideApproval carries the checker and the decision.
LEMMA DecideShape ==
  ASSUME NEW c \in Calls, c.step \in {"decideRead", "decideUpdate"}
  PROVE  c \in DecideCalls
  BY DEF Calls, DecideCalls, ExecuteCalls, Idle

\* A call of markExecuted carries the hash of the request to execute.
LEMMA ExecuteShape ==
  ASSUME NEW c \in Calls, c.step \in {"executeRead", "executeUpdate"}
  PROVE  c \in ExecuteCalls
  BY DEF Calls, DecideCalls, ExecuteCalls, Idle

\* The initial state satisfies the inductive invariant.
LEMMA InitIInv == Init => IInv
<1> SUFFICES ASSUME Init PROVE IInv
  OBVIOUS
<1>1. TypeOK
  BY DEF Init, TypeOK, Answers
<1>2. OneExecutionPerApproval /\ BackstopNeverFires
  BY DEF Init, OneExecutionPerApproval, BackstopNeverFires
<1>3. CallsChecked
  BY DEF Init, CallsChecked, Checked, Idle
<1> QED
  BY <1>1, <1>2, <1>3 DEF IInv

\* What a call checked stays true while rows endure.
LEMMA CheckedEndures ==
  ASSUME IInv, RowsEndure, NEW c \in Calls, Checked(c),
         NEW h \in Handlers, call'[h] = c
  PROVE  Checked(call[h])'
<1>1. ASSUME c.step \in {"decideUpdate", "executeUpdate"}
      PROVE  c.approval \in Approvals
  BY <1>1, DecideShape, ExecuteShape DEF DecideCalls, ExecuteCalls
<1> QED
  BY <1>1 DEF RowsEndure, Checked

\* A step that moves at most handler h, to a call c it has checked, preserves
\* CallsChecked.
LEMMA CallsStayChecked ==
  ASSUME IInv, RowsEndure, NEW h \in Handlers, NEW c \in Calls, Checked(c),
         call' = [call EXCEPT ![h] = c]
  PROVE  CallsChecked' /\ call' \in [Handlers -> Calls]
<1>1. \A g \in Handlers : call'[g] \in Calls /\ Checked(call'[g])
  BY DEF IInv, TypeOK, Calls, CallsChecked
<1>2. \A g \in Handlers : Checked(call[g])'
  <2> TAKE g \in Handlers
  <2>1. PICK d \in Calls : d = call'[g] /\ Checked(d)
    BY <1>1
  <2> QED
    BY <2>1, CheckedEndures
<1> QED
  BY <1>1, <1>2 DEF CallsChecked, IInv, TypeOK, Calls

\* A step that writes no row preserves the invariant.
LEMMA QuietStep ==
  ASSUME IInv, UNCHANGED <<approvals, grants>>, now' \in Nat,
         NEW h \in Handlers, NEW c \in Calls, Checked(c), NEW v \in Answers,
         call' = [call EXCEPT ![h] = c],
         answer' = [answer EXCEPT ![h] = v] \/ UNCHANGED answer
  PROVE  IInv'
<1>1. RowsEndure
  BY DEF RowsEndure
<1>2. CallsChecked' /\ call' \in [Handlers -> Calls]
  BY <1>1, CallsStayChecked
<1>3. TypeOK'
  BY <1>2 DEF IInv, TypeOK, Calls
<1>4. OneExecutionPerApproval' /\ BackstopNeverFires'
  BY DEF IInv, OneExecutionPerApproval, BackstopNeverFires
<1> QED
  BY <1>2, <1>3, <1>4 DEF IInv

\* Idle claims nothing.
LEMMA IdleIsChecked == Idle \in Calls /\ Checked(Idle)
  BY DEF Calls, Idle, Checked

-----------------------------------------------------------------------------
(***************************************************************************)
(* Steps that write a row                                                  *)
(***************************************************************************)
\* A row the schema accepts (the CHECK constraints of migration 0012).
Sound(row) ==
  /\ row.checker # row.maker
  /\ (row.status = "pending") = (row.checker = NoRow)
  /\ row.executed => row.status = "approved"

\* A step that writes the row of approval a, counts at most its first
\* execution and moves at most handler h.
LEMMA WriteStep ==
  ASSUME IInv, NEW a \in Approvals, NEW row \in ApprovalRows, Sound(row),
         approvals' = [approvals EXCEPT ![a] = row], UNCHANGED now,
         approvals[a] # NoRow =>
           /\ row.hash = approvals[a].hash /\ row.maker = approvals[a].maker
           /\ approvals[a].status # "pending" =>
                row.status = approvals[a].status /\ row.checker = approvals[a].checker
           /\ approvals[a].executed => row.executed,
         grants' = grants \/
           /\ approvals[a] # NoRow /\ approvals[a].executed = FALSE
           /\ row.executed = TRUE
           /\ grants' = [grants EXCEPT ![a] = @ + 1],
         NEW h \in Handlers, NEW c \in Calls, Checked(c), NEW v \in Answers,
         call' = [call EXCEPT ![h] = c],
         answer' = [answer EXCEPT ![h] = v] \/ UNCHANGED answer
  PROVE  IInv'
<1>1. /\ approvals' \in [Approvals -> ApprovalRows \cup {NoRow}]
      /\ approvals'[a] = row /\ row # NoRow
      /\ \A b \in Approvals : b # a => approvals'[b] = approvals[b]
  BY NoRowIsNone DEF IInv, TypeOK
<1>2. RowsEndure
  BY <1>1 DEF RowsEndure
<1>3. CallsChecked' /\ call' \in [Handlers -> Calls]
  BY <1>2, CallsStayChecked
<1>4. TypeOK'
  BY <1>1, <1>3 DEF IInv, TypeOK, Calls
<1>5. OneExecutionPerApproval'
  <2> SUFFICES ASSUME NEW b \in Approvals
               PROVE  grants'[b] <= IF approvals'[b] # NoRow /\ approvals'[b].executed THEN 1 ELSE 0
    BY DEF OneExecutionPerApproval
  <2>1. /\ grants[b] \in Nat
        /\ grants[b] <= IF approvals[b] # NoRow /\ approvals[b].executed THEN 1 ELSE 0
    BY DEF IInv, TypeOK, OneExecutionPerApproval
  <2>2. CASE b = a
    BY <1>1, <2>1, <2>2 DEF IInv, TypeOK
  <2>3. CASE b # a
    BY <1>1, <2>1, <2>3 DEF IInv, TypeOK
  <2> QED
    BY <2>2, <2>3
<1>6. BackstopNeverFires'
  BY <1>1 DEF IInv, BackstopNeverFires, Sound
<1> QED
  BY <1>3, <1>4, <1>5, <1>6 DEF IInv

\* createApproval: a pending row of its maker.
LEMMA CreateStep ==
  ASSUME IInv, NEW a \in Approvals, NEW x \in Hashes, NEW maker \in Operators,
         CreateApproval(a, x, maker)
  PROVE  IInv'
<1>1. PICK row : row = [hash |-> x, maker |-> maker, checker |-> NoRow, status |-> "pending",
                        executed |-> FALSE, expiresAt |-> now + Ttl]
  OBVIOUS
<1>2. row \in ApprovalRows
  <2>1. now + Ttl \in Nat
    BY ApprovalAssumption DEF IInv, TypeOK
  <2> QED
    BY <1>1, <2>1 DEF ApprovalRows
<1>3. Sound(row)
  BY <1>1, NoRowIsNone DEF Sound
<1>4. /\ approvals[a] = NoRow /\ approvals' = [approvals EXCEPT ![a] = row]
      /\ UNCHANGED <<now, call, answer, grants>>
  BY <1>1 DEF CreateApproval
<1>5. /\ approvals' \in [Approvals -> ApprovalRows \cup {NoRow}]
      /\ approvals'[a] = row /\ row # NoRow
      /\ \A b \in Approvals : b # a => approvals'[b] = approvals[b]
  BY <1>2, <1>4, NoRowIsNone DEF IInv, TypeOK
<1>6. RowsEndure
  BY <1>4, <1>5 DEF RowsEndure
<1>7. TypeOK'
  BY <1>4, <1>5 DEF IInv, TypeOK
<1>8. OneExecutionPerApproval'
  BY <1>1, <1>4, <1>5 DEF IInv, TypeOK, OneExecutionPerApproval
<1>9. BackstopNeverFires'
  BY <1>3, <1>5 DEF IInv, BackstopNeverFires, Sound
<1>10. CallsChecked'
  <2> SUFFICES ASSUME NEW h \in Handlers PROVE Checked(call[h])'
    BY DEF CallsChecked
  <2>1. PICK d \in Calls : d = call[h] /\ d = call'[h]
    BY <1>4 DEF IInv, TypeOK, Calls
  <2>2. Checked(d)
    BY <2>1 DEF IInv, CallsChecked
  <2> QED
    BY <1>6, <2>1, <2>2, CheckedEndures
<1> QED
  BY <1>7, <1>8, <1>9, <1>10 DEF IInv

\* The UPDATE of decideApproval, whether or not its reply arrives.
LEMMA DecideStep ==
  ASSUME IInv, NEW h \in Handlers, At(h, "decideUpdate"), ApplyDecision(h),
         NEW v \in Answers, Return(h, v), UNCHANGED <<now, grants>>
  PROVE  IInv'
<1>1. call[h] \in DecideCalls /\ Checked(call[h]) /\ call[h].step = "decideUpdate"
  BY DecideShape DEF At, IInv, TypeOK, CallsChecked, Calls
<1>2. PICK a \in Approvals, checker \in Operators, decision \in Decisions :
        /\ call[h].approval = a /\ call[h].checker = checker /\ call[h].decision = decision
  BY <1>1 DEF DecideCalls
<1>3. /\ approvals[a] # NoRow /\ approvals[a].maker # checker
      /\ approvals[a].status = "pending" /\ approvals[a] \in ApprovalRows
  BY <1>1, <1>2 DEF Checked, ApplyDecision, IInv, TypeOK
<1>4. PICK row : row = [approvals[a] EXCEPT !.status = decision, !.checker = checker]
  OBVIOUS
<1>5. row = [hash |-> approvals[a].hash, maker |-> approvals[a].maker, checker |-> checker,
             status |-> decision, executed |-> approvals[a].executed,
             expiresAt |-> approvals[a].expiresAt]
  BY <1>3, <1>4 DEF ApprovalRows
<1>6. row \in ApprovalRows
  BY <1>3, <1>5 DEF ApprovalRows
<1>7. approvals[a].executed = FALSE
  BY <1>3 DEF IInv, BackstopNeverFires, ApprovalRows
<1>8. Sound(row)
  BY <1>3, <1>5, <1>7, NoRowIsNone DEF Sound, Decisions
<1>9. approvals' = [approvals EXCEPT ![a] = row]
  BY <1>2, <1>4 DEF ApplyDecision, IInv, TypeOK
<1>10. call' = [call EXCEPT ![h] = Idle] /\ answer' = [answer EXCEPT ![h] = v]
  BY DEF Return
<1> QED
  BY <1>3, <1>5, <1>6, <1>7, <1>8, <1>9, <1>10, WriteStep, IdleIsChecked

\* The UPDATE of markExecuted: the first execution, granted or lost.
LEMMA ExecuteStep ==
  ASSUME IInv, NEW h \in Handlers, ExecuteUpdate(h) \/ ExecuteUpdateReplyLost(h)
  PROVE  IInv'
<1>1. call[h] \in ExecuteCalls /\ Checked(call[h]) /\ call[h].step = "executeUpdate"
  BY ExecuteShape
     DEF At, IInv, TypeOK, CallsChecked, Calls, ExecuteUpdate, ExecuteUpdateReplyLost
<1>2. PICK a \in Approvals : call[h].approval = a
  BY <1>1 DEF ExecuteCalls
<1>3. /\ approvals[a] # NoRow /\ approvals[a] \in ApprovalRows
      /\ approvals[a].status = "approved" /\ approvals[a].executed = FALSE
  BY <1>1, <1>2 DEF Checked, ExecuteUpdate, ExecuteUpdateReplyLost, Executable, IInv, TypeOK,
     ApprovalRows
<1>4. PICK row : row = [approvals[a] EXCEPT !.executed = TRUE]
  OBVIOUS
<1>5. row = [hash |-> approvals[a].hash, maker |-> approvals[a].maker,
             checker |-> approvals[a].checker, status |-> approvals[a].status,
             executed |-> TRUE, expiresAt |-> approvals[a].expiresAt]
  BY <1>3, <1>4 DEF ApprovalRows
<1>6. row \in ApprovalRows
  BY <1>3, <1>5 DEF ApprovalRows
<1>7. Sound(row)
  BY <1>3, <1>5 DEF Sound, IInv, BackstopNeverFires
<1>8. /\ approvals' = [approvals EXCEPT ![a] = row] /\ UNCHANGED now
      /\ grants' = grants \/ grants' = [grants EXCEPT ![a] = @ + 1]
  BY <1>2, <1>4 DEF ExecuteUpdate, ExecuteUpdateReplyLost, IInv, TypeOK
<1>9. PICK v \in Answers :
        call' = [call EXCEPT ![h] = Idle] /\ answer' = [answer EXCEPT ![h] = v]
  BY DEF ExecuteUpdate, ExecuteUpdateReplyLost, Return, Answers
<1>10. row.executed = TRUE
  BY <1>5
<1> QED
  BY <1>3, <1>5, <1>6, <1>7, <1>8, <1>9, <1>10, WriteStep, IdleIsChecked

-----------------------------------------------------------------------------
(***************************************************************************)
(* The inductive invariant                                                 *)
(***************************************************************************)
\* Ending a call without writing.
LEMMA ReturnStep ==
  ASSUME IInv, UNCHANGED <<approvals, now, grants>>, NEW h \in Handlers,
         NEW v \in Answers, Return(h, v)
  PROVE  IInv'
<1>1. now' \in Nat /\ call' = [call EXCEPT ![h] = Idle] /\ answer' = [answer EXCEPT ![h] = v]
  BY DEF IInv, TypeOK, Return
<1> QED
  BY <1>1, IdleIsChecked, QuietStep

\* Opening a call.
LEMMA RequestStep ==
  ASSUME IInv, NEW h \in Handlers, NEW a \in Approvals, Request(h, a)
  PROVE  IInv'
<1>1. PICK c \in Calls : Checked(c) /\ Begin(h, c)
  <2>1. ASSUME NEW checker \in Operators, NEW decision \in Decisions,
               BeginDecide(h, a, checker, decision)
        PROVE  \E c \in Calls : Checked(c) /\ Begin(h, c)
    <3> DEFINE c == [step |-> "decideRead", approval |-> a, checker |-> checker,
                     decision |-> decision]
    <3>1. c \in Calls /\ Checked(c)
      BY DEF Calls, DecideCalls, Checked
    <3> QED
      BY <2>1, <3>1 DEF BeginDecide
  <2>2. ASSUME NEW x \in Hashes, BeginExecute(h, a, x)
        PROVE  \E c \in Calls : Checked(c) /\ Begin(h, c)
    <3> DEFINE c == [step |-> "executeRead", approval |-> a, hash |-> x]
    <3>1. c \in Calls /\ Checked(c)
      BY DEF Calls, ExecuteCalls, Checked
    <3> QED
      BY <2>2, <3>1 DEF BeginExecute
  <2> QED
    BY <2>1, <2>2 DEF Request
<1>2. "none" \in Answers /\ now' \in Nat
  BY <1>1 DEF Answers, Begin, IInv, TypeOK
<1> QED
  BY <1>1, <1>2, QuietStep DEF Begin

\* The read of decideApproval: a call goes on only to what it may decide.
LEMMA DecideReadStep ==
  ASSUME IInv, NEW h \in Handlers, DecideRead(h)
  PROVE  IInv'
<1>1. call[h] \in DecideCalls /\ UNCHANGED <<approvals, now, grants>>
  BY DecideShape DEF DecideRead, At, IInv, TypeOK, Calls
<1> DEFINE row == approvals[call[h].approval]
<1>2. CASE DecideRefusal(row, call[h].checker) = "none"
  <2>1. row # NoRow /\ row.maker # call[h].checker
    BY <1>2 DEF DecideRefusal
  <2>2. PICK c : c = [call[h] EXCEPT !.step = "decideUpdate"]
    OBVIOUS
  <2>3. c = [step |-> "decideUpdate", approval |-> call[h].approval,
             checker |-> call[h].checker, decision |-> call[h].decision]
    BY <1>1, <2>2 DEF DecideCalls
  <2>4. c \in Calls /\ Checked(c)
    BY <1>1, <2>1, <2>3 DEF DecideCalls, Calls, Checked
  <2>5. call' = [call EXCEPT ![h] = c] /\ UNCHANGED answer
    BY <1>2, <2>2 DEF DecideRead, Goto, IInv, TypeOK
  <2> QED
    BY <1>1, <2>4, <2>5, QuietStep DEF IInv, TypeOK, Answers
<1>3. CASE DecideRefusal(row, call[h].checker) # "none"
  <2>1. PICK v \in Answers : Return(h, v)
    BY <1>3 DEF DecideRead, DecideRefusal, Answers
  <2> QED
    BY <1>1, <2>1, ReturnStep
<1> QED
  BY <1>2, <1>3

\* The read of markExecuted: a call goes on only to what it may execute.
LEMMA ExecuteReadStep ==
  ASSUME IInv, NEW h \in Handlers, ExecuteRead(h)
  PROVE  IInv'
<1>1. call[h] \in ExecuteCalls /\ UNCHANGED <<approvals, now, grants>>
  BY ExecuteShape DEF ExecuteRead, At, IInv, TypeOK, Calls
<1> DEFINE row == approvals[call[h].approval]
<1>2. CASE ExecuteRefusal(row, call[h].hash) = "none"
  <2>1. row # NoRow /\ row.status = "approved" /\ row.hash = call[h].hash
    BY <1>2 DEF ExecuteRefusal
  <2>2. PICK c : c = [call[h] EXCEPT !.step = "executeUpdate"]
    OBVIOUS
  <2>3. c = [step |-> "executeUpdate", approval |-> call[h].approval, hash |-> call[h].hash]
    BY <1>1, <2>2 DEF ExecuteCalls
  <2>4. c \in Calls /\ Checked(c)
    BY <1>1, <2>1, <2>3 DEF ExecuteCalls, Calls, Checked
  <2>5. call' = [call EXCEPT ![h] = c] /\ UNCHANGED answer
    BY <1>2, <2>2 DEF ExecuteRead, Goto, IInv, TypeOK
  <2> QED
    BY <1>1, <2>4, <2>5, QuietStep DEF IInv, TypeOK, Answers
<1>3. CASE ExecuteRefusal(row, call[h].hash) # "none"
  <2>1. PICK v \in Answers : Return(h, v)
    BY <1>3 DEF ExecuteRead, ExecuteRefusal, Answers
  <2> QED
    BY <1>1, <2>1, ReturnStep
<1> QED
  BY <1>2, <1>3

\* Every step of a call.
LEMMA StepIInv ==
  ASSUME IInv, NEW h \in Handlers, Step(h)
  PROVE  IInv'
<1>0. {"decided", "unavailable", "not_pending", "already_executed"} \subseteq Answers
  BY DEF Answers
<1>1. CASE DecideUpdate(h) \/ DecideUpdateReplyLost(h)
  <2>1. /\ At(h, "decideUpdate") /\ ApplyDecision(h) /\ UNCHANGED <<now, grants>>
        /\ Return(h, "decided") \/ Return(h, "unavailable")
    BY <1>1 DEF DecideUpdate, DecideUpdateReplyLost
  <2> QED
    BY <1>0, <2>1, DecideStep
<1>2. CASE DecideUpdateMisses(h) \/ ExecuteUpdateMisses(h) \/ CallFails(h)
  <2>1. UNCHANGED <<approvals, now, grants>>
    BY <1>2 DEF DecideUpdateMisses, ExecuteUpdateMisses, CallFails
  <2>2. PICK v \in Answers : Return(h, v)
    BY <1>0, <1>2 DEF DecideUpdateMisses, ExecuteUpdateMisses, CallFails
  <2> QED
    BY <2>1, <2>2, ReturnStep
<1> QED
  BY <1>1, <1>2, DecideReadStep, ExecuteReadStep, ExecuteStep DEF Step

\* Time passes.
LEMMA TickStep == ASSUME IInv, Tick PROVE IInv'
<1>1. TypeOK'
  BY DEF Tick, IInv, TypeOK
<1>2. OneExecutionPerApproval' /\ BackstopNeverFires' /\ CallsChecked'
  BY DEF Tick, IInv, OneExecutionPerApproval, BackstopNeverFires, CallsChecked, Checked
<1> QED
  BY <1>1, <1>2 DEF IInv

\* The invariant is inductive.
LEMMA NextIInv == IInv /\ [Next]_vars => IInv'
<1> SUFFICES ASSUME IInv, [Next]_vars PROVE IInv'
  OBVIOUS
<1>1. CASE UNCHANGED vars
  BY <1>1 DEF IInv, vars, TypeOK, OneExecutionPerApproval, BackstopNeverFires, CallsChecked,
     Checked
<1>2. CASE Next
  BY <1>2, CreateStep, StepIInv, RequestStep, TickStep DEF Next
<1> QED
  BY <1>1, <1>2

\* The inductive invariant holds of every reachable state.
THEOREM Invariance == Spec => []IInv
  BY InitIInv, NextIInv, PTL DEF Spec

-----------------------------------------------------------------------------
(***************************************************************************)
(* What the approval store guarantees                                      *)
(***************************************************************************)
\* Every variable keeps its type.
THEOREM TypeCorrect == Spec => []TypeOK
<1>1. IInv => TypeOK
  BY DEF IInv
<1> QED
  BY <1>1, Invariance, PTL

\* However many executors race and whatever replies are lost, an approval is
\* granted to at most one of them (markExecuted).
THEOREM SingleUse == Spec => []OneExecutionPerApproval
<1>1. IInv => OneExecutionPerApproval
  BY DEF IInv
<1> QED
  BY <1>1, Invariance, PTL

\* No row the store writes is one the schema would refuse (migration 0012).
THEOREM RowsAreSound == Spec => []BackstopNeverFires
<1>1. IInv => BackstopNeverFires
  BY DEF IInv
<1> QED
  BY <1>1, Invariance, PTL

\* A row keeps its maker and its request, and once decided its decision.
LEMMA NextRowsEndure == IInv /\ [Next]_vars => RowsEndure
<1> SUFFICES ASSUME IInv, [Next]_vars PROVE RowsEndure
  OBVIOUS
<1>1. CASE UNCHANGED approvals
  BY <1>1 DEF RowsEndure
<1>2. ASSUME NEW a \in Approvals, NEW x \in Hashes, NEW maker \in Operators,
             CreateApproval(a, x, maker)
      PROVE  RowsEndure
  BY <1>2 DEF CreateApproval, RowsEndure, IInv, TypeOK
<1>3. ASSUME NEW h \in Handlers, At(h, "decideUpdate"), ApplyDecision(h)
      PROVE  RowsEndure
  <2>1. call[h] \in DecideCalls
    BY <1>3, DecideShape DEF At, IInv, TypeOK, Calls
  <2>2. PICK a \in Approvals : a = call[h].approval
    BY <2>1 DEF DecideCalls
  <2>3. PICK row : row = [approvals[a] EXCEPT !.status = call[h].decision,
                                              !.checker = call[h].checker]
    OBVIOUS
  <2>4. Checked(call[h])
    BY DEF IInv, CallsChecked
  <2>5. approvals[a] # NoRow /\ approvals[a] \in ApprovalRows /\ approvals[a].status = "pending"
    BY <1>3, <2>2, <2>4 DEF Checked, At, ApplyDecision, IInv, TypeOK
  <2>6. row.hash = approvals[a].hash /\ row.maker = approvals[a].maker /\ row \in ApprovalRows
    BY <2>1, <2>3, <2>5 DEF ApprovalRows, DecideCalls
  <2>7. approvals' = [approvals EXCEPT ![a] = row]
    BY <1>3, <2>2, <2>3 DEF ApplyDecision, IInv, TypeOK
  <2> QED
    BY <2>5, <2>6, <2>7, NoRowIsNone DEF RowsEndure, IInv, TypeOK
<1>4. ASSUME NEW h \in Handlers, ExecuteUpdate(h) \/ ExecuteUpdateReplyLost(h)
      PROVE  RowsEndure
  <2>1. call[h] \in ExecuteCalls /\ Checked(call[h]) /\ call[h].step = "executeUpdate"
    BY <1>4, ExecuteShape
       DEF At, IInv, TypeOK, CallsChecked, Calls, ExecuteUpdate, ExecuteUpdateReplyLost
  <2>2. PICK a \in Approvals : a = call[h].approval
    BY <2>1 DEF ExecuteCalls
  <2>3. PICK row : row = [approvals[a] EXCEPT !.executed = TRUE]
    OBVIOUS
  <2>4. approvals[a] # NoRow /\ approvals[a] \in ApprovalRows
    BY <2>1, <2>2 DEF Checked, IInv, TypeOK
  <2>5. /\ row.hash = approvals[a].hash /\ row.maker = approvals[a].maker
        /\ row.status = approvals[a].status /\ row.checker = approvals[a].checker
        /\ row \in ApprovalRows
    BY <2>3, <2>4 DEF ApprovalRows
  <2>6. approvals' = [approvals EXCEPT ![a] = row]
    BY <1>4, <2>2, <2>3 DEF ExecuteUpdate, ExecuteUpdateReplyLost, IInv, TypeOK
  <2> QED
    BY <2>4, <2>5, <2>6, NoRowIsNone DEF RowsEndure, IInv, TypeOK
<1>5. CASE UNCHANGED vars
  BY <1>1, <1>5 DEF vars
<1>6. CASE Next
  <2>1. ASSUME NEW h \in Handlers, Step(h) PROVE RowsEndure
    BY <1>1, <1>3, <1>4, <2>1 DEF Step, DecideRead, DecideUpdate, DecideUpdateReplyLost,
       DecideUpdateMisses, ExecuteRead, ExecuteUpdateMisses, CallFails
  <2>2. ASSUME NEW h \in Handlers, NEW a \in Approvals, Request(h, a) PROVE RowsEndure
    BY <1>1, <2>2 DEF Request, BeginDecide, BeginExecute, Begin
  <2>3. ASSUME Tick PROVE RowsEndure
    BY <1>1, <2>3 DEF Tick
  <2> QED
    BY <1>2, <1>6, <2>1, <2>2, <2>3 DEF Next
<1> QED
  BY <1>5, <1>6

\* Of two checkers racing on one request the first decides it for good, and
\* the request they judged cannot change under them (decideApproval).
THEOREM DecisionsAreFinal == Spec => DecisionIsFinal
<1> DEFINE Final ==
      \A a \in Approvals :
        /\ approvals[a] # NoRow => /\ approvals'[a] # NoRow
                                   /\ approvals'[a].hash = approvals[a].hash
                                   /\ approvals'[a].maker = approvals[a].maker
        /\ approvals[a] # NoRow /\ approvals[a].status # "pending"
             => /\ approvals'[a].status = approvals[a].status
                /\ approvals'[a].checker = approvals[a].checker
<1>1. IInv /\ [Next]_vars => Final
  BY NextRowsEndure DEF RowsEndure
<1>2. []IInv /\ [][Next]_vars => [][Final]_vars
  BY <1>1, PTL
<1> QED
  BY <1>2, Invariance DEF Spec, DecisionIsFinal

\* Whatever happened between the read of markExecuted and its update, what it
\* executes is the request a second operator approved.
THEOREM ExecutionsMatch == Spec => ExecutionMatchesApproval
<1> DEFINE Matches ==
      \A h \in Handlers :
        At(h, "executeUpdate") /\ answer'[h] = "executed" =>
          LET row == approvals[call[h].approval]
          IN  row.status = "approved" /\ row.checker # row.maker /\ row.hash = call[h].hash
<1>1. IInv /\ [Next]_vars => Matches
  <2> SUFFICES ASSUME IInv, NEW h \in Handlers, At(h, "executeUpdate")
               PROVE  LET row == approvals[call[h].approval]
                      IN  row.status = "approved" /\ row.checker # row.maker
                            /\ row.hash = call[h].hash
    OBVIOUS
  <2>1. Checked(call[h]) /\ call[h].approval \in Approvals /\ call[h].step = "executeUpdate"
    BY ExecuteShape DEF At, IInv, TypeOK, CallsChecked, Calls, ExecuteCalls
  <2> QED
    BY <2>1 DEF Checked, IInv, BackstopNeverFires
<1>2. []IInv /\ [][Next]_vars => [][Matches]_vars
  BY <1>1, PTL
<1> QED
  BY <1>2, Invariance DEF Spec, ExecutionMatchesApproval
===============================================================================
