-------------------- MODULE ManagementOperationLedgerProofs --------------------
(***************************************************************************)
(* Theorems about the operation ledger, for every set of keys, payload     *)
(* hashes, rollback references and handlers.                               *)
(*                                                                         *)
(* The invariants are proved together: the types rest on a transition      *)
(* finding the rows it was opened for, which rests on no release deleting  *)
(* a key in use, which rests on each reservation having one holder.        *)
(***************************************************************************)
EXTENDS ManagementOperationLedger, TLAPS

TransitionSteps == {"read", "update"}
AttachSteps == {"attachRead", "attachUpdate", "attachAudit"}

\* A reserved key whose operation does not exist yet has not been completed.
BareKeyInProgress ==
  \A k \in Keys : keys[k] # NoRow /\ operations[k] = NoRow =>
    keys[k].status = "in_progress" /\ keys[k].completedAt = FALSE

\* An undecided insert belongs to a reservation of the same payload, which it
\* keeps from being released.
InDoubtIsReserved ==
  \A k \in Keys : inDoubt[k] # NoRow =>
    keys[k] # NoRow /\ keys[k].hash = inDoubt[k] /\ operations[k] = NoRow

\* What a call relies on between two of its database calls.
FindsItsRows(c) ==
  /\ c.step \in ReservingSteps => keys[c.key] # NoRow /\ keys[c.key].hash = c.hash
  /\ c.step = "insert" => operations[c.key] = NoRow /\ inDoubt[c.key] = NoRow
  /\ c.step \in TransitionSteps \cup AttachSteps => operations[c.key] # NoRow
  /\ c.step = "update" => IsValidTransition(c.observed, c.to)

CallsFindTheirRows == \A h \in Handlers : FindsItsRows(call[h])

\* The inductive invariant.
IInv ==
  /\ TypeOK
  /\ KeyAgreesWithOperation
  /\ ReservationAccounted
  /\ AuditIsHistory
  /\ BareKeyInProgress
  /\ InDoubtIsReserved
  /\ CallsFindTheirRows

-----------------------------------------------------------------------------
(***************************************************************************)
(* Shapes: the step of a call tells which fields it has.                   *)
(***************************************************************************)
\* A call of createOrReplayOperation carries a key and a payload hash.
LEMMA CreateShape ==
  ASSUME NEW c \in Calls, c.step \in CreateSteps
  PROVE  c \in CreateCalls
  BY DEF Calls, CreateCalls, TransitionCalls, AttachCalls, CreateSteps, Idle

\* A call of transitionOperation carries the target and the observed status.
LEMMA TransitionShape ==
  ASSUME NEW c \in Calls, c.step \in TransitionSteps
  PROVE  c \in TransitionCalls
  BY DEF Calls, CreateCalls, TransitionCalls, AttachCalls, CreateSteps, Idle,
         TransitionSteps

\* A call of attachRollbackReference carries the reference and the status read.
LEMMA AttachShape ==
  ASSUME NEW c \in Calls, c.step \in AttachSteps
  PROVE  c \in AttachCalls
  BY DEF Calls, CreateCalls, TransitionCalls, AttachCalls, CreateSteps, Idle,
         AttachSteps

\* The absence of a row is no row, hash or reference.
LEMMA NoRowIsNone ==
  NoRow \notin KeyRows /\ NoRow \notin OperationRows /\ NoRow \notin Hashes
  /\ NoRow \notin Refs
  BY NoRowAssumption

\* The initial state satisfies the inductive invariant.
LEMMA InitIInv == Init => IInv
<1> SUFFICES ASSUME Init PROVE IInv
  OBVIOUS
<1>1. TypeOK
  BY DEF Init, TypeOK, Calls, Answers
<1>2. KeyAgreesWithOperation /\ ReservationAccounted
  BY DEF Init, KeyAgreesWithOperation, ReservationAccounted, Holds, ReservingSteps, Idle
<1>3. AuditIsHistory
  BY DEF Init, AuditIsHistory
<1>4. BareKeyInProgress /\ InDoubtIsReserved
  BY DEF Init, BareKeyInProgress, InDoubtIsReserved
<1>5. CallsFindTheirRows
  BY DEF Init, CallsFindTheirRows, FindsItsRows, Idle, ReservingSteps,
         TransitionSteps, AttachSteps
<1> QED
  BY <1>1, <1>2, <1>3, <1>4, <1>5 DEF IInv

-----------------------------------------------------------------------------
(***************************************************************************)
(* Steps that write no table                                               *)
(***************************************************************************)
\* A step that only moves handler h from its call to c preserves the
\* invariant, if c finds its rows, starts holding no reservation, and stops
\* holding one only once the operation exists.
LEMMA QuietStep ==
  ASSUME IInv, UNCHANGED <<tables, burned>>,
         NEW h \in Handlers, NEW c \in Calls, NEW v \in Answers,
         call' = [call EXCEPT ![h] = c],
         answer' = [answer EXCEPT ![h] = v] \/ UNCHANGED answer,
         FindsItsRows(c),
         c.step \in ReservingSteps =>
           call[h].step \in ReservingSteps /\ c.key = call[h].key,
         call[h].step \in ReservingSteps =>
           \/ c.step \in ReservingSteps
           \/ operations[call[h].key] # NoRow
  PROVE  IInv'
<1>1. TypeOK'
  BY DEF IInv, TypeOK, tables
<1>2. KeyAgreesWithOperation' /\ AuditIsHistory' /\ BareKeyInProgress' /\ InDoubtIsReserved'
  BY DEF IInv, tables, KeyAgreesWithOperation, AuditIsHistory, BareKeyInProgress,
         InDoubtIsReserved
<1>3. CallsFindTheirRows'
  <2>1. \A g \in Handlers : FindsItsRows(call'[g])
    BY DEF IInv, TypeOK, CallsFindTheirRows
  <2> QED
    BY <2>1 DEF CallsFindTheirRows, FindsItsRows, tables
<1>4. ReservationAccounted'
  <2>1. \A g \in Handlers, k \in Keys : Holds(g, k)' => Holds(g, k)
    BY DEF Holds, IInv, TypeOK
  <2>2. \A g \in Handlers, k \in Keys :
          Holds(g, k) => Holds(g, k)' \/ operations[k] # NoRow
    BY DEF Holds, IInv, TypeOK
  <2> QED
    BY <2>1, <2>2 DEF ReservationAccounted, IInv, tables
<1> QED
  BY <1>1, <1>2, <1>3, <1>4 DEF IInv

\* Opening a call.
LEMMA RequestStep ==
  ASSUME IInv, NEW h \in Handlers, Request(h)
  PROVE  IInv'
<1>0. call[h].step = "idle" /\ "none" \in Answers /\ call[h].step \notin ReservingSteps
  BY DEF Request, BeginCreate, BeginTransition, BeginAttach, Begin, At, Answers,
         ReservingSteps
<1>1. CASE \E k \in Keys, x \in Hashes : BeginCreate(h, k, x)
  <2> PICK k \in Keys, x \in Hashes : BeginCreate(h, k, x)
    BY <1>1
  <2> DEFINE c == [step |-> "reserve", key |-> k, hash |-> x]
  <2>1. c \in Calls /\ FindsItsRows(c) /\ c.step \notin ReservingSteps
    BY DEF Calls, CreateCalls, CreateSteps, FindsItsRows, ReservingSteps,
           TransitionSteps, AttachSteps
  <2> QED
    BY <1>0, <2>1, QuietStep DEF BeginCreate, Begin
<1>2. CASE \E k \in Keys, to \in OperationStatuses : BeginTransition(h, k, to)
  <2> PICK k \in Keys, to \in OperationStatuses : BeginTransition(h, k, to)
    BY <1>2
  <2> DEFINE c == [step |-> "read", key |-> k, to |-> to, observed |-> "submitted"]
  <2>1. c \in Calls /\ FindsItsRows(c) /\ c.step \notin ReservingSteps
    BY DEF Calls, TransitionCalls, OperationStatuses, BeginTransition, FindsItsRows,
           ReservingSteps
  <2> QED
    BY <1>0, <2>1, QuietStep DEF BeginTransition, Begin
<1>3. CASE \E k \in Keys, ref \in Refs : BeginAttach(h, k, ref)
  <2> PICK k \in Keys, ref \in Refs : BeginAttach(h, k, ref)
    BY <1>3
  <2> DEFINE c == [step |-> "attachRead", key |-> k, ref |-> ref, observed |-> "submitted"]
  <2>1. c \in Calls /\ FindsItsRows(c) /\ c.step \notin ReservingSteps
    BY DEF Calls, AttachCalls, OperationStatuses, BeginAttach, FindsItsRows,
           ReservingSteps
  <2> QED
    BY <1>0, <2>1, QuietStep DEF BeginAttach, Begin
<1> QED
  BY <1>1, <1>2, <1>3 DEF Request

\* Ending a call that holds no reservation, with any answer.
LEMMA ReturnStep ==
  ASSUME IInv, UNCHANGED <<tables, burned>>,
         NEW h \in Handlers, NEW v \in Answers, Return(h, v),
         call[h].step \in ReservingSteps => operations[call[h].key] # NoRow
  PROVE  IInv'
<1>1. Idle \in Calls /\ FindsItsRows(Idle) /\ Idle.step \notin ReservingSteps
  BY DEF Calls, Idle, FindsItsRows, ReservingSteps, TransitionSteps, AttachSteps
<1> QED
  BY <1>1, QuietStep DEF Return

\* Moving a call of createOrReplayOperation on to another of its steps.
LEMMA GotoStep ==
  ASSUME IInv, UNCHANGED <<tables, burned>>,
         NEW h \in Handlers, call[h].step \in CreateSteps,
         NEW step \in CreateSteps, Goto(h, step), step # "insert",
         step \in ReservingSteps <=> call[h].step \in ReservingSteps
  PROVE  IInv'
<1> DEFINE c == [call[h] EXCEPT !.step = step]
<1>1. call[h] \in CreateCalls
  BY CreateShape DEF IInv, TypeOK
<1>2. c \in Calls /\ c.step = step /\ c.key = call[h].key /\ c.hash = call[h].hash
  BY <1>1 DEF Calls, CreateCalls
<1>3. FindsItsRows(call[h])
  BY DEF IInv, CallsFindTheirRows
<1>4. FindsItsRows(c)
  BY <1>2, <1>3 DEF FindsItsRows, TransitionSteps, AttachSteps, CreateSteps
<1>5. call' = [call EXCEPT ![h] = c] /\ UNCHANGED answer /\ "none" \in Answers
  BY DEF Goto, Answers
<1>6. ASSUME call[h].step \in ReservingSteps
      PROVE  c.step \in ReservingSteps
  BY <1>2, <1>6
<1> HIDE DEF c
<1> QED
  BY <1>2, <1>4, <1>5, <1>6, QuietStep

-----------------------------------------------------------------------------
(***************************************************************************)
(* createOrReplayOperation                                                 *)
(***************************************************************************)
\* What becomes of a key that is reserved: nobody else works on it.
LEMMA FreeKey ==
  ASSUME IInv, NEW k \in Keys, keys[k] = NoRow
  PROVE  /\ operations[k] = NoRow /\ inDoubt[k] = NoRow
         /\ \A g \in Handlers : ~Holds(g, k)
         /\ \A g \in Handlers :
              call[g].step \in TransitionSteps \cup AttachSteps => call[g].key # k
<1>1. operations[k] = NoRow /\ inDoubt[k] = NoRow
  BY DEF IInv, KeyAgreesWithOperation, InDoubtIsReserved
<1>2. \A g \in Handlers : FindsItsRows(call[g])
  BY DEF IInv, CallsFindTheirRows
<1> QED
  BY <1>1, <1>2 DEF FindsItsRows, Holds

\* The reservation INSERT preserves the invariant, whether its caller goes on
\* to the insert transaction or never learns of it.
LEMMA ReserveStep ==
  ASSUME IInv, NEW h \in Handlers, Reserve(h) \/ ReserveReplyLost(h)
  PROVE  IInv'
<1>1. call[h] \in CreateCalls /\ call[h].step = "reserve" /\ call[h].step \in CreateSteps
  BY CreateShape DEF IInv, TypeOK, Reserve, ReserveReplyLost, At, CreateSteps
<1>2. PICK k \in Keys, x \in Hashes : call[h].key = k /\ call[h].hash = x
  BY <1>1 DEF CreateCalls
<1> DEFINE row == [hash |-> x, status |-> "in_progress", completedAt |-> FALSE]
<1>0. row \in KeyRows /\ row # NoRow
  <2>1. row \in KeyRows
    BY DEF KeyRows, KeyStatuses
  <2> QED
    BY <2>1, NoRowIsNone
<1>3. CASE keys[k] # NoRow
  <2>1. Goto(h, "readKey") /\ UNCHANGED <<tables, burned>>
    BY <1>2, <1>3 DEF Reserve, ReserveReplyLost, tables
  <2> QED
    BY <1>1, <2>1, GotoStep DEF CreateSteps, ReservingSteps
<1>4. CASE keys[k] = NoRow
  <2>0. /\ operations[k] = NoRow /\ inDoubt[k] = NoRow
        /\ \A g \in Handlers : ~Holds(g, k)
        /\ \A g \in Handlers :
             call[g].step \in TransitionSteps \cup AttachSteps => call[g].key # k
    BY <1>2, <1>4, FreeKey
  <2>1. /\ keys' = [keys EXCEPT ![k] = row]
        /\ UNCHANGED <<operations, auditLog, linkLog, inDoubt>>
    BY <1>2, <1>4 DEF Reserve, ReserveReplyLost
  <2>2. \/ /\ call' = [call EXCEPT ![h].step = "insert"]
           /\ UNCHANGED <<answer, burned>>
        \/ /\ call' = [call EXCEPT ![h] = Idle]
           /\ answer' = [answer EXCEPT ![h] = "unavailable"]
           /\ burned' = burned \cup {k}
    BY <1>2, <1>4 DEF Reserve, ReserveReplyLost, Goto, Return
  <2>3. TypeOK'
    <3>1. [call[h] EXCEPT !.step = "insert"] \in Calls /\ Idle \in Calls
      BY <1>1 DEF Calls, CreateCalls, CreateSteps
    <3>2. call' \in [Handlers -> Calls]
      BY <2>2, <3>1 DEF IInv, TypeOK
    <3>3. keys' \in [Keys -> KeyRows \cup {NoRow}]
      BY <1>0, <2>1 DEF IInv, TypeOK
    <3>4. answer' \in [Handlers -> Answers] /\ burned' \subseteq Keys
      BY <1>2, <2>2 DEF IInv, TypeOK, Answers
    <3> QED
      BY <2>1, <3>2, <3>3, <3>4 DEF IInv, TypeOK
  <2>4. KeyAgreesWithOperation' /\ AuditIsHistory' /\ BareKeyInProgress' /\ InDoubtIsReserved'
    BY <1>0, <2>0, <2>1 DEF IInv, TypeOK, KeyAgreesWithOperation, AuditIsHistory,
       BareKeyInProgress, InDoubtIsReserved, CompletionConsistent
  <2>5. \A g \in Handlers, j \in Keys : Holds(g, j)' => Holds(g, j) \/ (g = h /\ j = k)
    BY <1>1, <1>2, <2>2 DEF IInv, TypeOK, Holds, Idle, ReservingSteps, CreateCalls
  <2>6. \A g \in Handlers, j \in Keys : Holds(g, j) => Holds(g, j)'
    BY <1>1, <1>2, <2>2 DEF IInv, TypeOK, Holds, Idle, ReservingSteps
  <2>7. k \in burned' \/ Holds(h, k)'
    BY <1>1, <1>2, <2>2 DEF IInv, TypeOK, Holds, Idle, ReservingSteps, CreateCalls
  <2>8. burned \subseteq burned'
    BY <2>2
  <2>9. ReservationAccounted'
    <3>1. \A j \in Keys : keys'[j] # NoRow /\ operations'[j] = NoRow =>
            j \in burned' \/ \E g \in Handlers : Holds(g, j)'
      <4> TAKE j \in Keys
      <4>1. CASE j = k
        BY <2>7, <4>1
      <4>2. CASE j # k
        BY <2>1, <2>6, <2>8, <4>2 DEF IInv, TypeOK, ReservationAccounted
      <4> QED
        BY <4>1, <4>2
    <3>2. \A j \in Keys : \A g, f \in Handlers : Holds(g, j)' /\ Holds(f, j)' => g = f
      BY <2>0, <2>5 DEF IInv, ReservationAccounted
    <3> QED
      BY <3>1, <3>2 DEF ReservationAccounted
  <2>10. CallsFindTheirRows'
    <3> SUFFICES ASSUME NEW g \in Handlers PROVE FindsItsRows(call[g])'
      BY DEF CallsFindTheirRows
    <3>1. FindsItsRows(call[g])
      BY DEF IInv, CallsFindTheirRows
    <3>2. CASE g = h
      BY <1>0, <1>1, <1>2, <2>0, <2>1, <2>2, <3>2
         DEF IInv, TypeOK, FindsItsRows, Idle, ReservingSteps, TransitionSteps,
             AttachSteps, CreateCalls
    <3>3. CASE g # h
      <4>1. call'[g] = call[g] /\ call[g] \in Calls
        BY <2>2, <3>3 DEF IInv, TypeOK
      <4>2. UNCHANGED <<operations, inDoubt>> /\ \A j \in Keys : j # k => keys'[j] = keys[j]
        BY <2>1 DEF IInv, TypeOK
      <4>3. ASSUME call[g].step \in ReservingSteps
            PROVE  call[g].key \in Keys /\ call[g].key # k
        BY <2>0, <4>1, <4>3, CreateShape DEF Holds, ReservingSteps, CreateSteps, CreateCalls
      <4> QED
        BY <3>1, <4>1, <4>2, <4>3 DEF FindsItsRows, ReservingSteps
    <3> QED
      BY <3>2, <3>3
  <2> QED
    BY <2>3, <2>4, <2>9, <2>10 DEF IInv
<1> QED
  BY <1>3, <1>4

\* The rows an insert transaction writes for a reserved key agree with it.
LEMMA InsertedRows ==
  ASSUME IInv, NEW k \in Keys, NEW x \in Hashes,
         operations[k] = NoRow, keys[k] # NoRow, keys[k].hash = x,
         InsertOperation(k, x), UNCHANGED <<keys, linkLog>>
  PROVE  /\ operations' \in [Keys -> OperationRows \cup {NoRow}]
         /\ auditLog' \in [Keys -> Seq(OperationStatuses)]
         /\ operations'[k] # NoRow
         /\ \A j \in Keys : j # k => operations'[j] = operations[j]
         /\ KeyAgreesWithOperation' /\ AuditIsHistory' /\ BareKeyInProgress'
<1> DEFINE row == [hash |-> x, status |-> "submitted", rollback |-> NoRow]
<1>1. row \in OperationRows /\ <<"submitted">> \in Seq(OperationStatuses)
  BY DEF OperationRows, OperationStatuses
<1>2. row # NoRow
  BY <1>1, NoRowIsNone
<1>3. operations' = [operations EXCEPT ![k] = row] /\ auditLog' = [auditLog EXCEPT ![k] = <<"submitted">>]
  BY DEF InsertOperation
<1>4. row.hash = x /\ row.status = "submitted"
  OBVIOUS
<1> HIDE DEF row
<1>5. /\ operations' \in [Keys -> OperationRows \cup {NoRow}]
      /\ auditLog' \in [Keys -> Seq(OperationStatuses)]
      /\ operations'[k] = row /\ auditLog'[k] = <<"submitted">>
      /\ \A j \in Keys : j # k => operations'[j] = operations[j] /\ auditLog'[j] = auditLog[j]
  BY <1>1, <1>3 DEF IInv, TypeOK
<1>6. keys[k].status = "in_progress" /\ keys[k].completedAt = FALSE
  BY DEF IInv, BareKeyInProgress
<1>7. KeyAgreesWithOperation'
  BY <1>4, <1>5, <1>6 DEF IInv, KeyAgreesWithOperation, CompletionConsistent,
     ToIdempotencyKeyStatus
<1>8. AuditIsHistory'
  <2> SUFFICES ASSUME NEW j \in Keys PROVE
        LET log == auditLog'[j]
        IN  IF operations'[j] = NoRow
              THEN log = <<>>
              ELSE /\ Len(log) > 0
                   /\ log[1] = "submitted"
                   /\ log[Len(log)] = operations'[j].status
                   /\ \A i \in 1 .. Len(log) - 1 : IsValidTransition(log[i], log[i + 1])
    BY DEF AuditIsHistory
  <2>1. CASE j = k
    BY <1>2, <1>4, <1>5, <2>1
  <2>2. CASE j # k
    BY <1>5, <2>2 DEF IInv, AuditIsHistory
  <2> QED
    BY <2>1, <2>2
<1>9. BareKeyInProgress'
  BY <1>2, <1>5 DEF IInv, BareKeyInProgress
<1> QED
  BY <1>2, <1>5, <1>7, <1>8, <1>9

\* The insert transaction commits and its caller has its operation.
LEMMA InsertCommitsStep ==
  ASSUME IInv, NEW h \in Handlers, InsertCommits(h)
  PROVE  IInv'
<1>1. call[h] \in CreateCalls /\ call[h].step = "insert" /\ FindsItsRows(call[h])
  BY CreateShape DEF IInv, TypeOK, CallsFindTheirRows, InsertCommits, At, CreateSteps
<1>2. PICK k \in Keys, x \in Hashes : call[h].key = k /\ call[h].hash = x
  BY <1>1 DEF CreateCalls
<1>3. /\ operations[k] = NoRow /\ inDoubt[k] = NoRow /\ keys[k] # NoRow
      /\ keys[k].hash = x
  BY <1>1, <1>2 DEF FindsItsRows, ReservingSteps
<1>4. /\ InsertOperation(k, x) /\ UNCHANGED <<keys, linkLog, inDoubt, burned>>
      /\ call' = [call EXCEPT ![h] = Idle]
      /\ answer' = [answer EXCEPT ![h] = "created"]
  BY <1>2 DEF InsertCommits, Return
<1>5. /\ operations' \in [Keys -> OperationRows \cup {NoRow}]
      /\ auditLog' \in [Keys -> Seq(OperationStatuses)]
      /\ operations'[k] # NoRow
      /\ \A j \in Keys : j # k => operations'[j] = operations[j]
      /\ KeyAgreesWithOperation' /\ AuditIsHistory' /\ BareKeyInProgress'
  BY <1>3, <1>4, InsertedRows
<1>6. Idle \in Calls /\ "created" \in Answers /\ FindsItsRows(Idle)'
  BY DEF Calls, Answers, Idle, FindsItsRows, ReservingSteps, TransitionSteps, AttachSteps
<1>7. TypeOK'
  BY <1>4, <1>5, <1>6 DEF IInv, TypeOK
<1>8. \A g \in Handlers : g # h => call'[g] = call[g]
  BY <1>4 DEF IInv, TypeOK
<1>9. call'[h] = Idle
  BY <1>4 DEF IInv, TypeOK
<1>10. Holds(h, k)
  BY <1>1, <1>2 DEF Holds, ReservingSteps
<1>11. \A g \in Handlers, j \in Keys : Holds(g, j)' <=> Holds(g, j) /\ g # h
  BY <1>8, <1>9 DEF Holds, Idle, ReservingSteps
<1>12. ReservationAccounted'
  <2>1. ASSUME NEW g \in Handlers, NEW i \in Handlers, NEW j \in Keys,
              Holds(g, j)', Holds(i, j)'
        PROVE  g = i
    BY <1>11, <2>1 DEF IInv, ReservationAccounted
  <2>2. ASSUME NEW j \in Keys, keys'[j] # NoRow, operations'[j] = NoRow
        PROVE  j \in burned' \/ \E g \in Handlers : Holds(g, j)'
    <3>1. j # k /\ keys[j] # NoRow /\ operations[j] = NoRow /\ burned' = burned
      BY <1>4, <1>5, <2>2
    <3>2. CASE j \in burned
      BY <3>1, <3>2
    <3>3. CASE j \notin burned
      <4>1. PICK g \in Handlers : Holds(g, j)
        BY <3>1, <3>3 DEF IInv, ReservationAccounted
      <4>2. g # h
        BY <1>10, <3>1, <4>1 DEF Holds
      <4> QED
        BY <1>11, <4>1, <4>2
    <3> QED
      BY <3>2, <3>3
  <2> QED
    BY <2>1, <2>2 DEF ReservationAccounted
<1>13. InDoubtIsReserved'
  BY <1>3, <1>4, <1>5 DEF IInv, InDoubtIsReserved
<1>14. CallsFindTheirRows'
  <2> SUFFICES ASSUME NEW g \in Handlers PROVE FindsItsRows(call[g])'
    BY DEF CallsFindTheirRows
  <2>1. CASE g = h
    BY <1>6, <1>9, <2>1 DEF FindsItsRows
  <2>2. CASE g # h
    <3>1. call'[g] = call[g] /\ FindsItsRows(call[g]) /\ call[g] \in Calls
      BY <1>8, <2>2 DEF IInv, TypeOK, CallsFindTheirRows
    <3>2. ASSUME call[g].step = "insert" PROVE call[g].key \in Keys /\ call[g].key # k
      <4>1. call[g].key \in Keys /\ Holds(g, call[g].key)
        BY <3>1, <3>2, CreateShape DEF CreateSteps, CreateCalls, Holds, ReservingSteps
      <4> QED
        BY <1>10, <2>2, <4>1 DEF IInv, ReservationAccounted
    <3>3. ASSUME call[g].step \in TransitionSteps \cup AttachSteps
          PROVE  call[g].key \in Keys
      BY <3>1, <3>3, TransitionShape, AttachShape DEF TransitionCalls, AttachCalls
    <3> QED
      BY <1>4, <1>5, <3>1, <3>2, <3>3 DEF FindsItsRows
  <2> QED
    BY <2>1, <2>2
<1> QED
  BY <1>5, <1>7, <1>12, <1>13, <1>14 DEF IInv

\* The reply to COMMIT is lost: the insert is undecided, its caller releases.
LEMMA InsertReplyLostStep ==
  ASSUME IInv, NEW h \in Handlers, InsertReplyLost(h)
  PROVE  IInv'
<1>1. call[h] \in CreateCalls /\ call[h].step = "insert" /\ FindsItsRows(call[h])
  BY CreateShape DEF IInv, TypeOK, CallsFindTheirRows, InsertReplyLost, At, CreateSteps
<1>2. PICK k \in Keys, x \in Hashes : call[h].key = k /\ call[h].hash = x
  BY <1>1 DEF CreateCalls
<1>3. /\ operations[k] = NoRow /\ keys[k] # NoRow /\ keys[k].hash = x
  BY <1>1, <1>2 DEF FindsItsRows, ReservingSteps
<1>4. /\ inDoubt' = [inDoubt EXCEPT ![k] = x]
      /\ UNCHANGED <<keys, operations, auditLog, linkLog, burned, answer>>
      /\ call' = [call EXCEPT ![h].step = "releaseRead"]
  BY <1>2 DEF InsertReplyLost, Goto
<1>5. /\ call'[h].step = "releaseRead" /\ call'[h].key = k /\ call'[h].hash = x
      /\ call'[h] \in Calls
      /\ \A g \in Handlers : g # h => call'[g] = call[g]
  BY <1>1, <1>2, <1>4 DEF IInv, TypeOK, Calls, CreateCalls, CreateSteps
<1>6. TypeOK'
  BY <1>4, <1>5 DEF IInv, TypeOK
<1>7. KeyAgreesWithOperation' /\ AuditIsHistory' /\ BareKeyInProgress'
  BY <1>4 DEF IInv, KeyAgreesWithOperation, AuditIsHistory, BareKeyInProgress
<1>8. Holds(h, k)
  BY <1>1, <1>2 DEF Holds, ReservingSteps
<1>9. \A g \in Handlers, j \in Keys : Holds(g, j)' <=> Holds(g, j)
  BY <1>1, <1>2, <1>5 DEF Holds, ReservingSteps
<1>10. ReservationAccounted'
  BY <1>4, <1>9 DEF IInv, ReservationAccounted
<1>11. InDoubtIsReserved'
  BY <1>3, <1>4 DEF IInv, TypeOK, InDoubtIsReserved
<1>12. CallsFindTheirRows'
  <2> SUFFICES ASSUME NEW g \in Handlers PROVE FindsItsRows(call[g])'
    BY DEF CallsFindTheirRows
  <2>1. CASE g = h
    BY <1>3, <1>4, <1>5, <2>1 DEF FindsItsRows, ReservingSteps, TransitionSteps, AttachSteps
  <2>2. CASE g # h
    <3>1. call'[g] = call[g] /\ FindsItsRows(call[g]) /\ call[g] \in Calls
      BY <1>5, <2>2 DEF IInv, TypeOK, CallsFindTheirRows
    <3>2. ASSUME call[g].step = "insert" PROVE call[g].key \in Keys /\ call[g].key # k
      <4>1. call[g].key \in Keys /\ Holds(g, call[g].key)
        BY <3>1, <3>2, CreateShape DEF CreateSteps, CreateCalls, Holds, ReservingSteps
      <4> QED
        BY <1>8, <2>2, <4>1 DEF IInv, ReservationAccounted
    <3>3. \A j \in Keys : j # k => inDoubt'[j] = inDoubt[j]
      BY <1>4 DEF IInv, TypeOK
    <3>4. UNCHANGED <<keys, operations>>
      BY <1>4
    <3> QED
      BY <3>1, <3>2, <3>3, <3>4 DEF FindsItsRows
  <2> QED
    BY <2>1, <2>2
<1> QED
  BY <1>6, <1>7, <1>10, <1>11, <1>12 DEF IInv

\* The database decides an undecided insert, one way or the other.
LEMMA ResolveInDoubtStep ==
  ASSUME IInv, NEW k \in Keys, ResolveInDoubt(k)
  PROVE  IInv'
<1>1. PICK x \in Hashes : inDoubt[k] = x /\ x # NoRow
  BY DEF ResolveInDoubt, IInv, TypeOK
<1>2. operations[k] = NoRow /\ keys[k] # NoRow /\ keys[k].hash = x
  BY <1>1 DEF IInv, InDoubtIsReserved
<1>3. /\ inDoubt' = [inDoubt EXCEPT ![k] = NoRow]
      /\ UNCHANGED <<keys, linkLog, call, answer, burned>>
      /\ InsertOperation(k, x) \/ UNCHANGED <<operations, auditLog>>
  BY <1>1 DEF ResolveInDoubt
<1>4. /\ operations' \in [Keys -> OperationRows \cup {NoRow}]
      /\ auditLog' \in [Keys -> Seq(OperationStatuses)]
      /\ \A j \in Keys : j # k => operations'[j] = operations[j]
      /\ KeyAgreesWithOperation' /\ AuditIsHistory' /\ BareKeyInProgress'
  <2>1. CASE InsertOperation(k, x)
    BY <1>2, <1>3, <2>1, InsertedRows
  <2>2. CASE UNCHANGED <<operations, auditLog>>
    BY <1>3, <2>2 DEF IInv, TypeOK, KeyAgreesWithOperation, AuditIsHistory,
       BareKeyInProgress
  <2> QED
    BY <1>3, <2>1, <2>2
<1>5. /\ inDoubt'[k] = NoRow /\ inDoubt' \in [Keys -> Hashes \cup {NoRow}]
      /\ \A j \in Keys : j # k => inDoubt'[j] = inDoubt[j]
  BY <1>3 DEF IInv, TypeOK
<1>6. TypeOK'
  BY <1>3, <1>4, <1>5 DEF IInv, TypeOK
<1>7. InDoubtIsReserved'
  BY <1>3, <1>4, <1>5 DEF IInv, InDoubtIsReserved
<1>8. \A j \in Keys : operations'[j] = NoRow => operations[j] = NoRow
  BY <1>2, <1>4
<1>9. ReservationAccounted'
  BY <1>3, <1>8 DEF IInv, ReservationAccounted, Holds
<1>10. CallsFindTheirRows'
  <2> SUFFICES ASSUME NEW g \in Handlers PROVE FindsItsRows(call[g])'
    BY DEF CallsFindTheirRows
  <2>1. FindsItsRows(call[g]) /\ call[g] \in Calls
    BY DEF IInv, TypeOK, CallsFindTheirRows
  <2>2. ASSUME call[g].step = "insert" PROVE call[g].key \in Keys /\ call[g].key # k
    BY <1>1, <2>1, <2>2, CreateShape DEF CreateSteps, CreateCalls, FindsItsRows
  <2>3. ASSUME call[g].step \in TransitionSteps \cup AttachSteps
        PROVE  call[g].key \in Keys /\ call[g].key # k
    BY <1>2, <2>1, <2>3, TransitionShape, AttachShape
       DEF TransitionCalls, AttachCalls, FindsItsRows
  <2> QED
    BY <1>3, <1>4, <1>5, <2>1, <2>2, <2>3 DEF FindsItsRows
<1> QED
  BY <1>4, <1>6, <1>7, <1>9, <1>10 DEF IInv

\* The key of an insert that failed is given back, unless its operation exists.
LEMMA ReleaseDeleteStep ==
  ASSUME IInv, NEW h \in Handlers, ReleaseDelete(h)
  PROVE  IInv'
<1>1. call[h] \in CreateCalls /\ call[h].step = "releaseDelete"
  BY CreateShape DEF IInv, TypeOK, ReleaseDelete, At, CreateSteps
<1>2. PICK k \in Keys : call[h].key = k
  BY <1>1 DEF CreateCalls
<1>3. inDoubt[k] = NoRow /\ Holds(h, k)
  BY <1>1, <1>2 DEF ReleaseDelete, Holds, ReservingSteps
<1>4. /\ UNCHANGED <<operations, auditLog, linkLog, inDoubt, burned>>
      /\ call' = [call EXCEPT ![h] = Idle]
      /\ answer' = [answer EXCEPT ![h] = "unavailable"]
  BY DEF ReleaseDelete, Return
<1>5. \/ keys' = [keys EXCEPT ![k] = NoRow] /\ operations[k] = NoRow
      \/ keys' = keys /\ operations[k] # NoRow
  <2>1. keys[k] # NoRow
    BY <1>1, <1>2 DEF IInv, CallsFindTheirRows, FindsItsRows, ReservingSteps
  <2>2. operations[k] = NoRow => keys[k].status = "in_progress"
    BY <2>1 DEF IInv, BareKeyInProgress
  <2>3. keys' = IF keys[k].status = "in_progress" /\ operations[k] = NoRow
                  THEN [keys EXCEPT ![k] = NoRow]
                  ELSE keys
    BY <1>2 DEF ReleaseDelete
  <2> QED
    BY <2>2, <2>3
<1>6. /\ keys' \in [Keys -> KeyRows \cup {NoRow}]
      /\ \A j \in Keys : j # k => keys'[j] = keys[j]
      /\ operations[k] = NoRow => keys'[k] = NoRow
      /\ operations[k] # NoRow => keys' = keys
  BY <1>5 DEF IInv, TypeOK
<1>7. /\ call'[h] = Idle /\ call' \in [Handlers -> Calls]
      /\ \A g \in Handlers : g # h => call'[g] = call[g]
  BY <1>4 DEF IInv, TypeOK, Calls
<1>8. TypeOK'
  BY <1>4, <1>6, <1>7 DEF IInv, TypeOK, Answers
<1>9. \A j \in Keys : operations[j] # NoRow => keys'[j] = keys[j]
  BY <1>6
<1>10. KeyAgreesWithOperation' /\ AuditIsHistory'
  BY <1>4, <1>9 DEF IInv, KeyAgreesWithOperation, AuditIsHistory
<1>11. BareKeyInProgress' /\ InDoubtIsReserved'
  BY <1>3, <1>4, <1>6 DEF IInv, BareKeyInProgress, InDoubtIsReserved
<1>12. \A g \in Handlers, j \in Keys : Holds(g, j)' <=> Holds(g, j) /\ g # h
  BY <1>7 DEF Holds, Idle, ReservingSteps
<1>13. ReservationAccounted'
  BY <1>2, <1>4, <1>6, <1>12 DEF IInv, ReservationAccounted, Holds
<1>14. CallsFindTheirRows'
  <2> SUFFICES ASSUME NEW g \in Handlers PROVE FindsItsRows(call[g])'
    BY DEF CallsFindTheirRows
  <2>1. CASE g = h
    BY <1>7, <2>1 DEF FindsItsRows, Idle, ReservingSteps, TransitionSteps, AttachSteps
  <2>2. CASE g # h
    <3>1. call'[g] = call[g] /\ FindsItsRows(call[g]) /\ call[g] \in Calls
      BY <1>7, <2>2 DEF IInv, TypeOK, CallsFindTheirRows
    <3>2. ASSUME call[g].step \in ReservingSteps
          PROVE  call[g].key \in Keys /\ call[g].key # k
      <4>1. call[g].key \in Keys /\ Holds(g, call[g].key)
        BY <3>1, <3>2, CreateShape DEF CreateSteps, CreateCalls, Holds, ReservingSteps
      <4> QED
        BY <1>3, <2>2, <4>1 DEF IInv, ReservationAccounted
    <3> QED
      BY <1>4, <1>6, <3>1, <3>2 DEF FindsItsRows, ReservingSteps
  <2> QED
    BY <2>1, <2>2
<1> QED
  BY <1>8, <1>10, <1>11, <1>13, <1>14 DEF IInv

-----------------------------------------------------------------------------
(***************************************************************************)
(* transitionOperation                                                     *)
(***************************************************************************)
\* A transition in its update step knows its rows, and the edge it takes.
LEMMA TransitionFindsRows ==
  ASSUME IInv, NEW h \in Handlers, call[h].step = "update"
  PROVE  \E k \in Keys, to \in OperationStatuses :
           /\ call[h].key = k /\ call[h].to = to
           /\ operations[k] \in OperationRows /\ keys[k] \in KeyRows
           /\ operations[k] # NoRow /\ keys[k] # NoRow
           /\ IsValidTransition(call[h].observed, to)
<1>1. call[h] \in TransitionCalls /\ FindsItsRows(call[h])
  BY TransitionShape DEF IInv, TypeOK, CallsFindTheirRows, TransitionSteps
<1>2. call[h].key \in Keys /\ call[h].to \in OperationStatuses
  BY <1>1 DEF TransitionCalls
<1>3. operations[call[h].key] # NoRow /\ IsValidTransition(call[h].observed, call[h].to)
  BY <1>1 DEF FindsItsRows, TransitionSteps
<1>4. keys[call[h].key] # NoRow
  BY <1>2, <1>3 DEF IInv, KeyAgreesWithOperation
<1> QED
  BY <1>2, <1>3, <1>4 DEF IInv, TypeOK

\* The transaction of transitionOperation, whether or not its reply arrives.
LEMMA ApplyTransitionStep ==
  ASSUME IInv, NEW h \in Handlers, call[h].step = "update", ApplyTransition(h),
         NEW v \in Answers, Return(h, v)
  PROVE  IInv'
<1>1. PICK k \in Keys, to \in OperationStatuses :
        /\ call[h].key = k /\ call[h].to = to
        /\ operations[k] \in OperationRows /\ keys[k] \in KeyRows
        /\ operations[k] # NoRow /\ keys[k] # NoRow
        /\ IsValidTransition(call[h].observed, to)
  BY TransitionFindsRows
<1>2. PICK row : row = KeyRowAfter(keys[k], to)
  OBVIOUS
<1>3. PICK op : op = [operations[k] EXCEPT !.status = to]
  OBVIOUS
<1>4. /\ row \in KeyRows /\ row # NoRow
      /\ row.hash = keys[k].hash /\ row.status = ToIdempotencyKeyStatus(to)
  <2>1. ToIdempotencyKeyStatus(to) \in KeyStatuses
    BY DEF ToIdempotencyKeyStatus, KeyStatuses, OperationStatuses
  <2>2. row = [hash |-> keys[k].hash, status |-> ToIdempotencyKeyStatus(to),
               completedAt |-> keys[k].completedAt \/ ToIdempotencyKeyStatus(to) # "in_progress"]
    BY <1>1, <1>2 DEF KeyRowAfter, KeyRows
  <2>3. row \in KeyRows
    BY <1>1, <2>1, <2>2 DEF KeyRows
  <2> QED
    BY <2>2, <2>3, NoRowIsNone
<1>5. /\ op \in OperationRows /\ op # NoRow
      /\ op.hash = operations[k].hash /\ op.status = to
  <2>1. op = [hash |-> operations[k].hash, status |-> to, rollback |-> operations[k].rollback]
    BY <1>1, <1>3 DEF OperationRows
  <2>2. op \in OperationRows
    BY <1>1, <2>1 DEF OperationRows
  <2> QED
    BY <2>1, <2>2, NoRowIsNone
<1>6. /\ operations[k].status = call[h].observed /\ CompletionConsistent(row)
      /\ operations' = [operations EXCEPT ![k] = op]
      /\ keys' = [keys EXCEPT ![k] = row]
      /\ auditLog' = [auditLog EXCEPT ![k] = Append(auditLog[k], to)]
      /\ UNCHANGED <<linkLog, inDoubt, burned>>
  BY <1>1, <1>2, <1>3 DEF ApplyTransition, IInv, TypeOK
<1>7. /\ operations' \in [Keys -> OperationRows \cup {NoRow}]
      /\ keys' \in [Keys -> KeyRows \cup {NoRow}]
      /\ auditLog' \in [Keys -> Seq(OperationStatuses)]
      /\ operations'[k] = op /\ keys'[k] = row
      /\ auditLog'[k] = Append(auditLog[k], to)
      /\ \A j \in Keys : j # k => /\ operations'[j] = operations[j]
                                  /\ keys'[j] = keys[j]
                                  /\ auditLog'[j] = auditLog[j]
  BY <1>4, <1>5, <1>6 DEF IInv, TypeOK
<1>8. /\ call' \in [Handlers -> Calls] /\ call'[h] = Idle
      /\ \A g \in Handlers : g # h => call'[g] = call[g]
      /\ answer' \in [Handlers -> Answers]
  BY DEF Return, IInv, TypeOK, Calls
<1>9. TypeOK'
  BY <1>6, <1>7, <1>8 DEF IInv, TypeOK
<1>10. KeyAgreesWithOperation'
  <2>1. keys[k].hash = operations[k].hash
    BY <1>1 DEF IInv, KeyAgreesWithOperation
  <2> QED
    BY <1>4, <1>5, <1>6, <1>7, <2>1 DEF IInv, KeyAgreesWithOperation, CompletionConsistent
<1>11. AuditIsHistory'
  <2> SUFFICES ASSUME NEW j \in Keys PROVE
        LET log == auditLog'[j]
        IN  IF operations'[j] = NoRow
              THEN log = <<>>
              ELSE /\ Len(log) > 0
                   /\ log[1] = "submitted"
                   /\ log[Len(log)] = operations'[j].status
                   /\ \A i \in 1 .. Len(log) - 1 : IsValidTransition(log[i], log[i + 1])
    BY DEF AuditIsHistory
  <2>1. CASE j = k
    <3>1. PICK log \in Seq(OperationStatuses) : log = auditLog[k]
      BY DEF IInv, TypeOK
    <3>2. /\ Len(log) > 0 /\ log[1] = "submitted"
          /\ log[Len(log)] = call[h].observed
          /\ \A i \in 1 .. Len(log) - 1 : IsValidTransition(log[i], log[i + 1])
      BY <1>1, <1>6, <3>1 DEF IInv, AuditIsHistory
    <3>3. PICK new : new = Append(log, to)
      OBVIOUS
    <3>4. /\ Len(new) = Len(log) + 1 /\ new[Len(new)] = to
          /\ \A i \in 1 .. Len(log) : new[i] = log[i]
      BY <3>3
    <3>5. \A i \in 1 .. Len(new) - 1 : IsValidTransition(new[i], new[i + 1])
      <4> TAKE i \in 1 .. Len(new) - 1
      <4>1. CASE i = Len(log)
        BY <1>1, <3>2, <3>4, <4>1
      <4>2. CASE i # Len(log)
        <5>1. i \in 1 .. Len(log) - 1 /\ i \in 1 .. Len(log) /\ i + 1 \in 1 .. Len(log)
          BY <3>4, <4>2
        <5> QED
          BY <3>2, <3>4, <5>1
      <4> QED
        BY <4>1, <4>2
    <3>6. new[1] = "submitted" /\ Len(new) > 0
      BY <3>2, <3>4
    <3>7. operations'[j] # NoRow /\ operations'[j].status = to /\ auditLog'[j] = new
      BY <1>5, <1>7, <2>1, <3>1, <3>3
    <3> QED
      BY <3>4, <3>5, <3>6, <3>7
  <2>2. CASE j # k
    BY <1>7, <2>2 DEF IInv, AuditIsHistory
  <2> QED
    BY <2>1, <2>2
<1>12. \A j \in Keys : /\ operations'[j] = NoRow <=> operations[j] = NoRow
                       /\ keys'[j] = NoRow <=> keys[j] = NoRow
                       /\ keys[j] # NoRow => keys'[j].hash = keys[j].hash
  BY <1>1, <1>4, <1>5, <1>7
<1>13. BareKeyInProgress' /\ InDoubtIsReserved'
  BY <1>1, <1>6, <1>7, <1>12 DEF IInv, BareKeyInProgress, InDoubtIsReserved
<1>14. \A g \in Handlers, j \in Keys : Holds(g, j)' <=> Holds(g, j)
  BY <1>8 DEF Holds, Idle, ReservingSteps
<1>15. ReservationAccounted'
  BY <1>6, <1>12, <1>14 DEF IInv, ReservationAccounted
<1>16. CallsFindTheirRows'
  <2> SUFFICES ASSUME NEW g \in Handlers PROVE FindsItsRows(call[g])'
    BY DEF CallsFindTheirRows
  <2>1. CASE g = h
    BY <1>8, <2>1 DEF FindsItsRows, Idle, ReservingSteps, TransitionSteps, AttachSteps
  <2>2. CASE g # h
    <3>1. call'[g] = call[g] /\ FindsItsRows(call[g]) /\ call[g] \in Calls
      BY <1>8, <2>2 DEF IInv, TypeOK, CallsFindTheirRows
    <3>2. ASSUME call[g].step \in ReservingSteps PROVE call[g].key \in Keys
      BY <3>1, <3>2, CreateShape DEF CreateSteps, CreateCalls, ReservingSteps
    <3>3. ASSUME call[g].step \in TransitionSteps \cup AttachSteps
          PROVE  call[g].key \in Keys
      BY <3>1, <3>3, TransitionShape, AttachShape DEF TransitionCalls, AttachCalls
    <3>4. UNCHANGED inDoubt
      BY <1>6
    <3> QED
      BY <1>12, <3>1, <3>2, <3>3, <3>4 DEF FindsItsRows, ReservingSteps
  <2> QED
    BY <2>1, <2>2
<1> QED
  BY <1>9, <1>10, <1>11, <1>13, <1>15, <1>16 DEF IInv

-----------------------------------------------------------------------------
(***************************************************************************)
(* attachRollbackReference and failures                                    *)
(***************************************************************************)
\* The UPDATE of the rollback reference leaves hash and status alone.
LEMMA AttachUpdateStep ==
  ASSUME IInv, NEW h \in Handlers, AttachUpdate(h)
  PROVE  IInv'
<1>1. call[h] \in AttachCalls /\ call[h].step = "attachUpdate" /\ FindsItsRows(call[h])
  BY AttachShape DEF IInv, TypeOK, CallsFindTheirRows, AttachUpdate, At, AttachSteps
<1>2. PICK k \in Keys, ref \in Refs : call[h].key = k /\ call[h].ref = ref
  BY <1>1 DEF AttachCalls
<1>3. operations[k] # NoRow /\ operations[k] \in OperationRows
  BY <1>1, <1>2 DEF FindsItsRows, AttachSteps, IInv, TypeOK
<1>4. CASE GuardRejects(operations[k], ref)
  <2>1. Return(h, "frozen") /\ UNCHANGED <<tables, burned>> /\ "frozen" \in Answers
    BY <1>2, <1>4 DEF AttachUpdate, tables, Answers
  <2> QED
    BY <1>1, <2>1, ReturnStep DEF ReservingSteps
<1>5. CASE ~GuardRejects(operations[k], ref)
  <2>1. /\ operations' = [operations EXCEPT ![k].rollback = ref]
        /\ call' = [call EXCEPT ![h].step = "attachAudit"]
        /\ UNCHANGED <<keys, auditLog, linkLog, inDoubt, burned, answer>>
    BY <1>2, <1>5 DEF AttachUpdate, Goto
  <2>2. PICK op : op = [operations[k] EXCEPT !.rollback = ref]
    OBVIOUS
  <2>3. /\ op \in OperationRows /\ op # NoRow
        /\ op.hash = operations[k].hash /\ op.status = operations[k].status
    <3>1. op = [hash |-> operations[k].hash, status |-> operations[k].status, rollback |-> ref]
      BY <1>3, <2>2 DEF OperationRows
    <3>2. op \in OperationRows
      BY <1>3, <3>1 DEF OperationRows
    <3> QED
      BY <3>1, <3>2, NoRowIsNone
  <2>4. /\ operations' \in [Keys -> OperationRows \cup {NoRow}]
        /\ \A j \in Keys :
             /\ operations'[j] = NoRow <=> operations[j] = NoRow
             /\ operations[j] # NoRow => /\ operations'[j].hash = operations[j].hash
                                         /\ operations'[j].status = operations[j].status
    BY <1>3, <2>1, <2>2, <2>3 DEF IInv, TypeOK
  <2>5. /\ call' \in [Handlers -> Calls] /\ call'[h].step = "attachAudit" /\ call'[h].key = k
        /\ \A g \in Handlers : g # h => call'[g] = call[g]
    BY <1>1, <1>2, <2>1 DEF IInv, TypeOK, Calls, AttachCalls
  <2>6. TypeOK'
    BY <2>1, <2>4, <2>5 DEF IInv, TypeOK
  <2>7. KeyAgreesWithOperation' /\ AuditIsHistory'
    BY <2>1, <2>4 DEF IInv, KeyAgreesWithOperation, AuditIsHistory
  <2>8. BareKeyInProgress' /\ InDoubtIsReserved'
    BY <2>1, <2>4 DEF IInv, BareKeyInProgress, InDoubtIsReserved
  <2>9. \A g \in Handlers, j \in Keys : Holds(g, j)' <=> Holds(g, j)
    BY <1>1, <2>5 DEF Holds, ReservingSteps
  <2>10. ReservationAccounted'
    BY <2>1, <2>4, <2>9 DEF IInv, ReservationAccounted
  <2>11. CallsFindTheirRows'
    <3> SUFFICES ASSUME NEW g \in Handlers PROVE FindsItsRows(call[g])'
      BY DEF CallsFindTheirRows
    <3>1. CASE g = h
      BY <1>3, <2>4, <2>5, <3>1 DEF FindsItsRows, ReservingSteps, TransitionSteps, AttachSteps
    <3>2. CASE g # h
      <4>1. call'[g] = call[g] /\ FindsItsRows(call[g]) /\ call[g] \in Calls
        BY <2>5, <3>2 DEF IInv, TypeOK, CallsFindTheirRows
      <4>2. ASSUME call[g].step = "insert" PROVE call[g].key \in Keys
        BY <4>1, <4>2, CreateShape DEF CreateSteps, CreateCalls
      <4>3. ASSUME call[g].step \in TransitionSteps \cup AttachSteps
            PROVE  call[g].key \in Keys
        BY <4>1, <4>3, TransitionShape, AttachShape DEF TransitionCalls, AttachCalls
      <4>4. UNCHANGED <<keys, inDoubt>>
        BY <2>1
      <4> QED
        BY <2>4, <4>1, <4>2, <4>3, <4>4 DEF FindsItsRows
    <3> QED
      BY <3>1, <3>2
  <2> QED
    BY <2>6, <2>7, <2>8, <2>10, <2>11 DEF IInv
<1> QED
  BY <1>4, <1>5

\* The audit row of attachRollbackReference.
LEMMA AttachAuditStep ==
  ASSUME IInv, NEW h \in Handlers, AttachAudit(h)
  PROVE  IInv'
<1>1. call[h] \in AttachCalls /\ call[h].step = "attachAudit"
  BY AttachShape DEF IInv, TypeOK, AttachAudit, At, AttachSteps
<1>2. /\ linkLog' = [linkLog EXCEPT ![call[h].key] = @ \cup {call[h].observed}]
      /\ call' = [call EXCEPT ![h] = Idle]
      /\ answer' = [answer EXCEPT ![h] = "attached"]
      /\ UNCHANGED <<keys, operations, auditLog, inDoubt, burned>>
  BY DEF AttachAudit, Return
<1>3. /\ call'[h] = Idle /\ call' \in [Handlers -> Calls]
      /\ \A g \in Handlers : g # h => call'[g] = call[g]
  BY <1>2 DEF IInv, TypeOK, Calls
<1>4. TypeOK'
  <2>1. linkLog' \in [Keys -> SUBSET OperationStatuses]
    BY <1>1, <1>2 DEF IInv, TypeOK, AttachCalls
  <2> QED
    BY <1>2, <1>3, <2>1 DEF IInv, TypeOK, Answers
<1>5. KeyAgreesWithOperation' /\ AuditIsHistory' /\ BareKeyInProgress' /\ InDoubtIsReserved'
  BY <1>2 DEF IInv, KeyAgreesWithOperation, AuditIsHistory, BareKeyInProgress,
     InDoubtIsReserved
<1>6. \A g \in Handlers, j \in Keys : Holds(g, j)' <=> Holds(g, j)
  BY <1>1, <1>3 DEF Holds, Idle, ReservingSteps
<1>7. ReservationAccounted'
  BY <1>2, <1>6 DEF IInv, ReservationAccounted
<1>8. CallsFindTheirRows'
  BY <1>2, <1>3 DEF IInv, CallsFindTheirRows, FindsItsRows, Idle, ReservingSteps,
     TransitionSteps, AttachSteps
<1> QED
  BY <1>4, <1>5, <1>7, <1>8 DEF IInv

\* A call that ends anywhere, giving up the reservation it may hold.
LEMMA AbandonStep ==
  ASSUME IInv, UNCHANGED tables,
         NEW h \in Handlers, NEW v \in Answers, Return(h, v),
         burned' = IF call[h].step \in ReservingSteps
                     THEN burned \cup {call[h].key}
                     ELSE burned
  PROVE  IInv'
<1>1. CASE call[h].step \notin ReservingSteps
  BY <1>1, ReturnStep
<1>2. CASE call[h].step \in ReservingSteps
  <2>1. PICK k \in Keys : call[h].key = k
    BY <1>2, CreateShape DEF IInv, TypeOK, CreateSteps, CreateCalls, ReservingSteps
  <2>2. /\ burned' = burned \cup {k}
        /\ UNCHANGED <<keys, operations, auditLog, linkLog, inDoubt>>
    BY <1>2, <2>1 DEF tables
  <2>3. /\ call'[h] = Idle /\ call' \in [Handlers -> Calls]
        /\ answer' \in [Handlers -> Answers]
        /\ \A g \in Handlers : g # h => call'[g] = call[g]
    BY DEF IInv, TypeOK, Calls, Return
  <2>4. TypeOK'
    BY <2>2, <2>3 DEF IInv, TypeOK
  <2>5. KeyAgreesWithOperation' /\ AuditIsHistory' /\ BareKeyInProgress' /\ InDoubtIsReserved'
    BY <2>2 DEF IInv, KeyAgreesWithOperation, AuditIsHistory, BareKeyInProgress,
       InDoubtIsReserved
  <2>6. \A g \in Handlers, j \in Keys : Holds(g, j)' <=> Holds(g, j) /\ g # h
    BY <2>3 DEF Holds, Idle, ReservingSteps
  <2>7. ReservationAccounted'
    BY <2>1, <2>2, <2>6 DEF IInv, ReservationAccounted, Holds
  <2>8. CallsFindTheirRows'
    BY <2>2, <2>3 DEF IInv, CallsFindTheirRows, FindsItsRows, Idle, ReservingSteps,
       TransitionSteps, AttachSteps
  <2> QED
    BY <2>4, <2>5, <2>7, <2>8 DEF IInv
<1> QED
  BY <1>1, <1>2

-----------------------------------------------------------------------------
(***************************************************************************)
(* The inductive invariant                                                 *)
(***************************************************************************)
\* Each step of createOrReplayOperation.
LEMMA CreateStepIInv ==
  ASSUME IInv, NEW h \in Handlers, CreateStep(h)
  PROVE  IInv'
<1>1. CASE Reserve(h)
  BY <1>1, ReserveStep
<1>2. CASE InsertCommits(h)
  BY <1>2, InsertCommitsStep
<1>3. CASE ReleaseRead(h)
  <2>1. /\ call[h].step = "releaseRead" /\ UNCHANGED <<tables, burned>>
        /\ call[h].step \in CreateSteps /\ call[h].step \in ReservingSteps
        /\ "unavailable" \in Answers
    BY <1>3 DEF ReleaseRead, At, CreateSteps, ReservingSteps, Answers
  <2>2. CASE operations[call[h].key] = NoRow
    <3>1. Goto(h, "releaseDelete")
      BY <1>3, <2>2 DEF ReleaseRead
    <3> QED
      BY <2>1, <3>1, GotoStep DEF CreateSteps, ReservingSteps
  <2>3. CASE operations[call[h].key] # NoRow
    <3>1. Return(h, "unavailable")
      BY <1>3, <2>3 DEF ReleaseRead
    <3> QED
      BY <2>1, <2>3, <3>1, ReturnStep
  <2> QED
    BY <2>2, <2>3
<1>4. CASE ReleaseDelete(h)
  BY <1>4, ReleaseDeleteStep
<1>5. CASE ReadKey(h)
  <2>1. /\ call[h].step = "readKey" /\ UNCHANGED <<tables, burned>>
        /\ call[h].step \in CreateSteps /\ call[h].step \notin ReservingSteps
        /\ "conflict" \in Answers
        /\ Goto(h, "poll") \/ Return(h, "conflict")
    BY <1>5 DEF ReadKey, At, CreateSteps, ReservingSteps, Answers
  <2>2. CASE Goto(h, "poll")
    BY <2>1, <2>2, GotoStep DEF CreateSteps, ReservingSteps
  <2>3. CASE Return(h, "conflict")
    BY <2>1, <2>3, ReturnStep
  <2> QED
    BY <2>1, <2>2, <2>3
<1>6. CASE PollFindsOperation(h)
  <2>1. /\ call[h].step \notin ReservingSteps /\ UNCHANGED <<tables, burned>>
        /\ Return(h, "replay") /\ "replay" \in Answers
    BY <1>6 DEF PollFindsOperation, At, ReservingSteps, Answers
  <2> QED
    BY <2>1, ReturnStep
<1>7. CASE PollGivesUp(h)
  <2>1. /\ call[h].step \notin ReservingSteps /\ UNCHANGED <<tables, burned>>
        /\ Return(h, "conflict") /\ "conflict" \in Answers
    BY <1>7 DEF PollGivesUp, At, ReservingSteps, Answers
  <2> QED
    BY <2>1, ReturnStep
<1> QED
  BY <1>1, <1>2, <1>3, <1>4, <1>5, <1>6, <1>7 DEF CreateStep

\* Each step of transitionOperation.
LEMMA TransitionStepIInv ==
  ASSUME IInv, NEW h \in Handlers, TransitionStep(h)
  PROVE  IInv'
<1>1. CASE ReadOperation(h)
  <2>1. call[h] \in TransitionCalls /\ call[h].step = "read" /\ FindsItsRows(call[h])
    BY <1>1, TransitionShape
       DEF IInv, TypeOK, CallsFindTheirRows, ReadOperation, At, TransitionSteps
  <2>2. PICK status : status = operations[call[h].key].status
    OBVIOUS
  <2>3. UNCHANGED <<tables, burned>> /\ "invalid" \in Answers /\ "none" \in Answers
    BY <1>1 DEF ReadOperation, Answers
  <2>4. CASE IsValidTransition(status, call[h].to)
    <3>1. status \in OperationStatuses
      BY <2>4 DEF IsValidTransition, AllowedTransitions, OperationStatuses
    <3>2. /\ call' = [call EXCEPT ![h].step = "update", ![h].observed = status]
          /\ UNCHANGED answer
      BY <1>1, <2>2, <2>4 DEF ReadOperation
    <3>3. PICK c : c = [call[h] EXCEPT !.step = "update", !.observed = status]
      OBVIOUS
    <3>4. c = [step |-> "update", key |-> call[h].key, to |-> call[h].to, observed |-> status]
      BY <2>1, <3>3 DEF TransitionCalls
    <3>5. c \in Calls
      BY <2>1, <3>1, <3>4 DEF TransitionCalls, Calls
    <3>6. call' = [call EXCEPT ![h] = c]
      BY <3>2, <3>3 DEF IInv, TypeOK
    <3>7. FindsItsRows(c) /\ c.step \notin ReservingSteps /\ call[h].step \notin ReservingSteps
      BY <2>1, <2>4, <3>4 DEF FindsItsRows, ReservingSteps, TransitionSteps
    <3> QED
      BY <2>3, <3>2, <3>5, <3>6, <3>7, QuietStep
  <2>5. CASE ~IsValidTransition(status, call[h].to)
    <3>1. Return(h, "invalid")
      BY <1>1, <2>2, <2>5 DEF ReadOperation
    <3> QED
      BY <2>1, <2>3, <3>1, ReturnStep DEF ReservingSteps
  <2> QED
    BY <2>4, <2>5
<1>2. CASE UpdateCommits(h)
  <2>1. /\ call[h].step = "update" /\ ApplyTransition(h)
        /\ Return(h, "transitioned") /\ "transitioned" \in Answers
    BY <1>2 DEF UpdateCommits, At, Answers
  <2> QED
    BY <2>1, ApplyTransitionStep
<1>3. CASE UpdateIsStale(h)
  <2>1. /\ call[h].step \notin ReservingSteps /\ UNCHANGED <<tables, burned>>
        /\ Return(h, "stale") /\ "stale" \in Answers
    BY <1>3 DEF UpdateIsStale, At, ReservingSteps, Answers
  <2> QED
    BY <2>1, ReturnStep
<1>4. CASE UpdateIsRejected(h)
  <2>1. /\ call[h].step \notin ReservingSteps /\ UNCHANGED <<tables, burned>>
        /\ Return(h, "check_violation") /\ "check_violation" \in Answers
    BY <1>4 DEF UpdateIsRejected, At, ReservingSteps, Answers
  <2> QED
    BY <2>1, ReturnStep
<1> QED
  BY <1>1, <1>2, <1>3, <1>4 DEF TransitionStep

\* Each step of attachRollbackReference.
LEMMA AttachStepIInv ==
  ASSUME IInv, NEW h \in Handlers, AttachStep(h)
  PROVE  IInv'
<1>1. CASE AttachRead(h)
  <2>1. call[h] \in AttachCalls /\ call[h].step = "attachRead" /\ FindsItsRows(call[h])
    BY <1>1, AttachShape
       DEF IInv, TypeOK, CallsFindTheirRows, AttachRead, At, AttachSteps
  <2>2. PICK status : status = operations[call[h].key].status
    OBVIOUS
  <2>3. status \in OperationStatuses
    <3>1. operations[call[h].key] \in OperationRows
      BY <2>1 DEF FindsItsRows, AttachSteps, AttachCalls, IInv, TypeOK
    <3> QED
      BY <2>2, <3>1 DEF OperationRows
  <2>4. /\ call' = [call EXCEPT ![h].step = "attachUpdate", ![h].observed = status]
        /\ UNCHANGED <<tables, answer, burned>> /\ "none" \in Answers
    BY <1>1, <2>2 DEF AttachRead, Answers
  <2>5. PICK c : c = [call[h] EXCEPT !.step = "attachUpdate", !.observed = status]
    OBVIOUS
  <2>6. c = [step |-> "attachUpdate", key |-> call[h].key, ref |-> call[h].ref,
             observed |-> status]
    BY <2>1, <2>5 DEF AttachCalls
  <2>7. c \in Calls
    BY <2>1, <2>3, <2>6 DEF AttachCalls, Calls
  <2>8. call' = [call EXCEPT ![h] = c]
    BY <2>4, <2>5 DEF IInv, TypeOK
  <2>9. FindsItsRows(c) /\ c.step \notin ReservingSteps /\ call[h].step \notin ReservingSteps
    BY <2>1, <2>6 DEF FindsItsRows, ReservingSteps, AttachSteps
  <2> QED
    BY <2>4, <2>7, <2>8, <2>9, QuietStep
<1>2. CASE AttachUpdate(h)
  BY <1>2, AttachUpdateStep
<1>3. CASE AttachAudit(h)
  BY <1>3, AttachAuditStep
<1> QED
  BY <1>1, <1>2, <1>3 DEF AttachStep

\* Each failure.
LEMMA FailureStepIInv ==
  ASSUME IInv, NEW h \in Handlers, FailureStep(h)
  PROVE  IInv'
<1>0. "unavailable" \in Answers /\ "none" \in Answers
  BY DEF Answers
<1>1. CASE ReserveReplyLost(h)
  BY <1>1, ReserveStep
<1>2. CASE InsertRollsBack(h)
  <2>1. /\ call[h].step \in CreateSteps /\ call[h].step \in ReservingSteps
        /\ Goto(h, "releaseRead") /\ UNCHANGED <<tables, burned>>
    BY <1>2 DEF InsertRollsBack, At, CreateSteps, ReservingSteps
  <2> QED
    BY <2>1, GotoStep DEF CreateSteps, ReservingSteps
<1>3. CASE InsertReplyLost(h)
  BY <1>3, InsertReplyLostStep
<1>4. CASE ReleaseFails(h)
  <2>1. /\ call[h].step \in ReservingSteps /\ burned' = burned \cup {call[h].key}
        /\ Return(h, "unavailable") /\ UNCHANGED tables
    BY <1>4 DEF ReleaseFails, At, ReservingSteps
  <2> QED
    BY <1>0, <2>1, AbandonStep
<1>5. CASE UpdateReplyLost(h)
  <2>1. call[h].step = "update" /\ ApplyTransition(h) /\ Return(h, "unavailable")
    BY <1>5 DEF UpdateReplyLost, At
  <2> QED
    BY <1>0, <2>1, ApplyTransitionStep
<1>6. CASE DatabaseFails(h)
  <2>1. /\ call[h].step \notin ReservingSteps /\ UNCHANGED <<tables, burned>>
        /\ Return(h, "unavailable")
    BY <1>6 DEF DatabaseFails
  <2> QED
    BY <1>0, <2>1, ReturnStep
<1>7. CASE Crash(h)
  <2>1. Return(h, "none") /\ UNCHANGED tables
    BY <1>7 DEF Crash
  <2>2. burned' = IF call[h].step \in ReservingSteps
                    THEN burned \cup {call[h].key}
                    ELSE burned
    BY <1>7 DEF Crash
  <2> QED
    BY <1>0, <2>1, <2>2, AbandonStep
<1> QED
  BY <1>1, <1>2, <1>3, <1>4, <1>5, <1>6, <1>7 DEF FailureStep

\* The invariant is inductive.
LEMMA NextIInv == IInv /\ [Next]_vars => IInv'
<1> SUFFICES ASSUME IInv, [Next]_vars PROVE IInv'
  OBVIOUS
<1>1. ASSUME NEW h \in Handlers,
             Request(h) \/ CreateStep(h) \/ TransitionStep(h) \/ AttachStep(h)
               \/ FailureStep(h)
      PROVE  IInv'
  BY <1>1, RequestStep, CreateStepIInv, TransitionStepIInv, AttachStepIInv, FailureStepIInv
<1>2. ASSUME NEW k \in Keys, ResolveInDoubt(k)
      PROVE  IInv'
  BY <1>2, ResolveInDoubtStep
<1>3. CASE UNCHANGED vars
  BY <1>3 DEF IInv, vars, TypeOK, KeyAgreesWithOperation, ReservationAccounted, Holds,
     AuditIsHistory, BareKeyInProgress, InDoubtIsReserved, CallsFindTheirRows, FindsItsRows
<1> QED
  BY <1>1, <1>2, <1>3 DEF Next

\* The inductive invariant holds of every reachable state.
THEOREM Invariance == Spec => []IInv
  BY InitIInv, NextIInv, PTL DEF Spec

-----------------------------------------------------------------------------
(***************************************************************************)
(* What the ledger guarantees                                              *)
(***************************************************************************)
\* Every variable keeps its type: no handler ever acts on a row that is gone.
THEOREM TypeCorrect == Spec => []TypeOK
<1>1. IInv => TypeOK
  BY DEF IInv
<1> QED
  BY <1>1, Invariance, PTL

\* An operation and its idempotency key never disagree
\* (createOrReplayOperation, releaseReservation, transitionOperation).
THEOREM KeysAgree == Spec => []KeyAgreesWithOperation
<1>1. IInv => KeyAgreesWithOperation
  BY DEF IInv
<1> QED
  BY <1>1, Invariance, PTL

\* A reserved key has one holder, or was burned by a crash or a failed release
\* (releaseReservation).
THEOREM ReservationsAccounted == Spec => []ReservationAccounted
<1>1. IInv => ReservationAccounted
  BY DEF IInv
<1> QED
  BY <1>1, Invariance, PTL

\* The audit log is the path the operation took (transitionOperation).
THEOREM AuditComplete == Spec => []AuditIsHistory
<1>1. IInv => AuditIsHistory
  BY DEF IInv
<1> QED
  BY <1>1, Invariance, PTL

\* All a step can do to the operations and their audit log: create one
\* operation, move one along an edge of the lifecycle, or link one rollback.
LEMMA LedgerEffect ==
  ASSUME IInv, [Next]_vars
  PROVE  \/ UNCHANGED <<operations, auditLog>>
         \/ \E k \in Keys, x \in Hashes : operations[k] = NoRow /\ InsertOperation(k, x)
         \/ \E k \in Keys, to \in OperationStatuses :
              /\ operations[k] # NoRow
              /\ IsValidTransition(operations[k].status, to)
              /\ operations' = [operations EXCEPT ![k].status = to]
              /\ auditLog' = [auditLog EXCEPT ![k] = Append(@, to)]
         \/ \E k \in Keys, ref \in Refs :
              /\ operations[k] # NoRow /\ ~GuardRejects(operations[k], ref)
              /\ operations' = [operations EXCEPT ![k].rollback = ref]
              /\ UNCHANGED auditLog
<1>1. ASSUME NEW h \in Handlers, InsertCommits(h)
      PROVE  \E k \in Keys, x \in Hashes : operations[k] = NoRow /\ InsertOperation(k, x)
  <2>1. call[h] \in CreateCalls
    BY <1>1, CreateShape DEF IInv, TypeOK, InsertCommits, At, CreateSteps
  <2> QED
    BY <1>1, <2>1 DEF InsertCommits, CreateCalls
<1>2. ASSUME NEW k \in Keys, ResolveInDoubt(k)
      PROVE  \/ UNCHANGED <<operations, auditLog>>
             \/ \E x \in Hashes : operations[k] = NoRow /\ InsertOperation(k, x)
  <2>1. inDoubt[k] \in Hashes /\ operations[k] = NoRow
    BY <1>2 DEF ResolveInDoubt, IInv, TypeOK, InDoubtIsReserved
  <2> QED
    BY <1>2, <2>1 DEF ResolveInDoubt
<1>3. ASSUME NEW h \in Handlers, UpdateCommits(h) \/ UpdateReplyLost(h)
      PROVE  \E k \in Keys, to \in OperationStatuses :
               /\ operations[k] # NoRow
               /\ IsValidTransition(operations[k].status, to)
               /\ operations' = [operations EXCEPT ![k].status = to]
               /\ auditLog' = [auditLog EXCEPT ![k] = Append(@, to)]
  <2>1. call[h].step = "update" /\ ApplyTransition(h)
    BY <1>3 DEF UpdateCommits, UpdateReplyLost, At
  <2>2. PICK k \in Keys, to \in OperationStatuses :
          /\ call[h].key = k /\ call[h].to = to /\ operations[k] # NoRow
          /\ IsValidTransition(call[h].observed, to)
    BY <2>1, TransitionFindsRows
  <2> QED
    BY <2>1, <2>2 DEF ApplyTransition
<1>4. ASSUME NEW h \in Handlers, AttachUpdate(h), ~UNCHANGED <<operations, auditLog>>
      PROVE  \E k \in Keys, ref \in Refs :
               /\ operations[k] # NoRow /\ ~GuardRejects(operations[k], ref)
               /\ operations' = [operations EXCEPT ![k].rollback = ref]
               /\ UNCHANGED auditLog
  <2>1. call[h] \in AttachCalls /\ call[h].step = "attachUpdate" /\ FindsItsRows(call[h])
    BY <1>4, AttachShape
       DEF IInv, TypeOK, CallsFindTheirRows, AttachUpdate, At, AttachSteps
  <2>2. PICK k \in Keys, ref \in Refs :
          call[h].key = k /\ call[h].ref = ref /\ operations[k] # NoRow
    BY <2>1 DEF AttachCalls, FindsItsRows, AttachSteps
  <2>3. ~GuardRejects(operations[k], ref)
    BY <1>4, <2>2 DEF AttachUpdate
  <2> QED
    BY <1>4, <2>2, <2>3 DEF AttachUpdate
<1>5. ASSUME NEW h \in Handlers,
             Request(h) \/ CreateStep(h) \/ TransitionStep(h) \/ AttachStep(h)
               \/ FailureStep(h),
             ~InsertCommits(h), ~UpdateCommits(h), ~UpdateReplyLost(h), ~AttachUpdate(h)
      PROVE  UNCHANGED <<operations, auditLog>>
  <2>1. CASE Request(h)
    BY <2>1 DEF Request, BeginCreate, BeginTransition, BeginAttach, Begin, tables
  <2>2. CASE CreateStep(h)
    BY <1>5, <2>2 DEF CreateStep, Reserve, ReleaseRead, ReleaseDelete, ReadKey,
       PollFindsOperation, PollGivesUp, tables
  <2>3. CASE TransitionStep(h)
    BY <1>5, <2>3 DEF TransitionStep, ReadOperation, UpdateIsStale, UpdateIsRejected, tables
  <2>4. CASE AttachStep(h)
    BY <1>5, <2>4 DEF AttachStep, AttachRead, AttachAudit, tables
  <2>5. CASE FailureStep(h)
    BY <1>5, <2>5 DEF FailureStep, ReserveReplyLost, InsertRollsBack, InsertReplyLost,
       ReleaseFails, DatabaseFails, Crash, tables
  <2> QED
    BY <1>5, <2>1, <2>2, <2>3, <2>4, <2>5
<1>6. CASE UNCHANGED vars
  BY <1>6 DEF vars
<1>7. CASE Next
  BY <1>1, <1>2, <1>3, <1>4, <1>5, <1>7 DEF Next
<1> QED
  BY <1>6, <1>7

\* A terminal operation never moves, and keeps its first rollback reference
\* (ALLOWED_TRANSITIONS, management_operations_guard_update).
THEOREM TerminalFrozen == Spec => TerminalIsFrozen
<1> DEFINE Frozen ==
      \A k \in Keys :
        operations[k] # NoRow /\ operations[k].status \in TerminalStatuses =>
          \/ operations'[k] = operations[k]
          \/ /\ operations[k].rollback = NoRow
             /\ operations'[k] = [operations[k] EXCEPT !.rollback = operations'[k].rollback]
<1>1. IInv /\ [Next]_vars => Frozen
  <2> SUFFICES ASSUME IInv, [Next]_vars,
                      NEW k \in Keys, operations[k] # NoRow,
                      operations[k].status \in TerminalStatuses
               PROVE  \/ operations'[k] = operations[k]
                      \/ /\ operations[k].rollback = NoRow
                         /\ operations'[k] =
                              [operations[k] EXCEPT !.rollback = operations'[k].rollback]
    OBVIOUS
  <2>0. operations \in [Keys -> OperationRows \cup {NoRow}] /\ operations[k] \in OperationRows
    BY DEF IInv, TypeOK
  <2>1. CASE UNCHANGED <<operations, auditLog>>
    BY <2>1
  <2>2. CASE \E j \in Keys, x \in Hashes : operations[j] = NoRow /\ InsertOperation(j, x)
    BY <2>0, <2>2 DEF InsertOperation
  <2>3. CASE \E j \in Keys, to \in OperationStatuses :
               /\ operations[j] # NoRow
               /\ IsValidTransition(operations[j].status, to)
               /\ operations' = [operations EXCEPT ![j].status = to]
               /\ auditLog' = [auditLog EXCEPT ![j] = Append(@, to)]
    <3>1. PICK j \in Keys, to \in OperationStatuses :
            /\ IsValidTransition(operations[j].status, to)
            /\ operations' = [operations EXCEPT ![j].status = to]
      BY <2>3
    <3>2. j # k
      BY <3>1 DEF IsValidTransition, AllowedTransitions, TerminalStatuses
    <3> QED
      BY <2>0, <3>1, <3>2
  <2>4. CASE \E j \in Keys, ref \in Refs :
               /\ operations[j] # NoRow /\ ~GuardRejects(operations[j], ref)
               /\ operations' = [operations EXCEPT ![j].rollback = ref]
               /\ UNCHANGED auditLog
    <3>1. PICK j \in Keys, ref \in Refs :
            /\ ~GuardRejects(operations[j], ref)
            /\ operations' = [operations EXCEPT ![j].rollback = ref]
      BY <2>4
    <3>2. CASE j # k
      BY <2>0, <3>1, <3>2
    <3>3. CASE j = k
      <4>1. operations[k].rollback \in {NoRow, ref}
        BY <3>1, <3>3 DEF GuardRejects
      <4>2. operations'[k] = [operations[k] EXCEPT !.rollback = ref]
        BY <2>0, <3>1, <3>3
      <4>3. operations'[k].rollback = ref
        BY <2>0, <4>2 DEF OperationRows
      <4>4. operations[k].rollback = ref => operations'[k] = operations[k]
        BY <2>0, <4>2 DEF OperationRows
      <4> QED
        BY <4>1, <4>2, <4>3, <4>4
    <3> QED
      BY <3>2, <3>3
  <2> QED
    BY LedgerEffect, <2>1, <2>2, <2>3, <2>4
<1>2. []IInv /\ [][Next]_vars => [][Frozen]_vars
  BY <1>1, PTL
<1> QED
  BY <1>2, Invariance DEF Spec, TerminalIsFrozen

-----------------------------------------------------------------------------
(***************************************************************************)
(* The ledger implements the registry                                      *)
(***************************************************************************)
\* Creating an operation binds its key in the registry.
LEMMA InsertBinds ==
  ASSUME IInv, NEW k \in Keys, NEW x \in Hashes,
         operations[k] = NoRow, InsertOperation(k, x)
  PROVE  Registry!Bind(k, x)
<1>1. PICK op : op = [hash |-> x, status |-> "submitted", rollback |-> NoRow]
  OBVIOUS
<1>2. /\ operations'[k] = op /\ auditLog'[k] = <<"submitted">>
      /\ \A j \in Keys : j # k => operations'[j] = operations[j] /\ auditLog'[j] = auditLog[j]
  BY <1>1 DEF InsertOperation, IInv, TypeOK
<1>3. op # NoRow /\ op.hash = x
  <2>1. op \in OperationRows
    BY <1>1 DEF OperationRows, OperationStatuses
  <2> QED
    BY <1>1, <2>1, NoRowIsNone
<1>4. Recorded[k] = NoRow
  BY DEF Recorded
<1>5. Recorded' = [Recorded EXCEPT ![k] = [hash |-> x, history |-> <<"submitted">>]]
  BY <1>2, <1>3 DEF Recorded
<1> QED
  BY <1>4, <1>5 DEF Registry!Bind

\* Recording a transition advances the history of its key in the registry.
LEMMA TransitionAdvances ==
  ASSUME IInv, NEW k \in Keys, NEW to \in OperationStatuses,
         operations[k] # NoRow,
         IsValidTransition(operations[k].status, to),
         operations' = [operations EXCEPT ![k].status = to],
         auditLog' = [auditLog EXCEPT ![k] = Append(@, to)]
  PROVE  Registry!Advance(k, to)
<1>1. PICK op : op = [operations[k] EXCEPT !.status = to]
  OBVIOUS
<1>2. operations[k] \in OperationRows
  BY DEF IInv, TypeOK
<1>3. op # NoRow /\ op.hash = operations[k].hash
  <2>1. op = [hash |-> operations[k].hash, status |-> to, rollback |-> operations[k].rollback]
    BY <1>1, <1>2 DEF OperationRows
  <2>2. op \in OperationRows
    BY <1>2, <2>1 DEF OperationRows
  <2> QED
    BY <2>1, <2>2, NoRowIsNone
<1>4. /\ operations'[k] = op /\ auditLog'[k] = Append(auditLog[k], to)
      /\ \A j \in Keys : j # k => operations'[j] = operations[j] /\ auditLog'[j] = auditLog[j]
  BY <1>1 DEF IInv, TypeOK
<1>5. Recorded[k] = [hash |-> operations[k].hash, history |-> auditLog[k]]
  BY DEF Recorded
<1>6. Recorded[k] # NoRow
  <2>1. operations[k].hash \in Hashes /\ auditLog[k] \in Seq(OperationStatuses)
    BY <1>2 DEF IInv, TypeOK, OperationRows
  <2> QED
    BY <1>5, <2>1, NoRowAssumption
<1>7. auditLog[k][Len(auditLog[k])] = operations[k].status
  BY DEF IInv, AuditIsHistory
<1>8. Recorded' = [Recorded EXCEPT ![k].history = Append(auditLog[k], to)]
  BY <1>3, <1>4, <1>5 DEF Recorded
<1> QED
  BY <1>5, <1>6, <1>7, <1>8 DEF Registry!Advance, Registry!IsValidTransition, IsValidTransition,
     Registry!AllowedTransitions, AllowedTransitions

\* Every behaviour of the ledger is one of the registry, with the audit log as
\* the recorded history: whatever is retried, released, lost or raced, a key is
\* bound once and its history grows one lifecycle edge at a time.
THEOREM LedgerImplementsRegistry == Spec => RegistrySpec
<1>1. Init => Registry!Init
  BY DEF Init, Registry!Init, Recorded
<1>2. IInv /\ [Next]_vars => [Registry!Next]_Recorded
  <2> SUFFICES ASSUME IInv, [Next]_vars
               PROVE  Registry!Next \/ UNCHANGED Recorded
    OBVIOUS
  <2>1. CASE UNCHANGED <<operations, auditLog>>
    BY <2>1 DEF Recorded
  <2>2. CASE \E k \in Keys, x \in Hashes : operations[k] = NoRow /\ InsertOperation(k, x)
    BY <2>2, InsertBinds DEF Registry!Next
  <2>3. CASE \E k \in Keys, to \in OperationStatuses :
               /\ operations[k] # NoRow
               /\ IsValidTransition(operations[k].status, to)
               /\ operations' = [operations EXCEPT ![k].status = to]
               /\ auditLog' = [auditLog EXCEPT ![k] = Append(@, to)]
    <3>1. PICK k \in Keys, to \in OperationStatuses : Registry!Advance(k, to)
      BY <2>3, TransitionAdvances
    <3> QED
      BY <3>1 DEF Registry!Next, Registry!OperationStatuses, OperationStatuses
  <2>4. CASE \E k \in Keys, ref \in Refs :
               /\ operations[k] # NoRow /\ ~GuardRejects(operations[k], ref)
               /\ operations' = [operations EXCEPT ![k].rollback = ref]
               /\ UNCHANGED auditLog
    <3>1. PICK j \in Keys, ref \in Refs :
            /\ operations[j] # NoRow
            /\ operations' = [operations EXCEPT ![j].rollback = ref]
            /\ UNCHANGED auditLog
      BY <2>4
    <3>2. operations \in [Keys -> OperationRows \cup {NoRow}] /\ operations[j] \in OperationRows
      BY <3>1 DEF IInv, TypeOK
    <3>3. PICK op : op = [operations[j] EXCEPT !.rollback = ref]
      OBVIOUS
    <3>4. op = [hash |-> operations[j].hash, status |-> operations[j].status, rollback |-> ref]
      BY <3>2, <3>3 DEF OperationRows
    <3>5. op \in OperationRows
      BY <3>2, <3>4 DEF OperationRows
    <3>6. op # NoRow /\ op.hash = operations[j].hash
      BY <3>4, <3>5, NoRowIsNone
    <3> QED
      BY <3>1, <3>2, <3>3, <3>6 DEF Recorded
  <2> QED
    BY LedgerEffect, <2>1, <2>2, <2>3, <2>4
<1>3. []IInv /\ [][Next]_vars => [][Registry!Next]_Recorded
  BY <1>2, PTL
<1>4. Spec => Registry!Init /\ [][Registry!Next]_Recorded
  BY <1>1, <1>3, Invariance, PTL DEF Spec
<1> QED
  BY <1>4 DEF RegistrySpec, Registry!Spec
===============================================================================
