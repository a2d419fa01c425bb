----------------------- MODULE ManagementOperationLedger -----------------------
(***************************************************************************)
(* The durable operation ledger of the Governance backend                  *)
(* (management/operations/managementOperationLedger.ts) over the tables of *)
(* migrations 0002, 0003 and 0014.                                         *)
(*                                                                         *)
(* A handler is one HTTP request being served, in any backend process.  It *)
(* makes one ledger call at a time; every step between two awaits of that  *)
(* call is an action, so calls interleave at each database round trip.  A  *)
(* statement or a transaction is atomic, its reply may be lost, and the    *)
(* process may crash between any two steps.  An operation row is named by  *)
(* its idempotency key: the column is UNIQUE (migration 0003).             *)
(***************************************************************************)
EXTENDS Naturals, Sequences, OperationLifecycle

CONSTANTS Keys,      \* idempotency keys
          Hashes,    \* canonical hashes of the safe payload
          Refs,      \* rollback references
          Handlers,  \* requests in service
          NoRow      \* the absence of a row

VARIABLES
  keys,        \* management_idempotency_keys
  operations,  \* management_operations
  auditLog,    \* operator_audit_log rows of creation and of transitions, per key
  linkLog,     \* results of the audit rows written by attachRollbackReference
  inDoubt,     \* insert transactions whose COMMIT is not resolved: key -> hash
  call,        \* the call each handler is making
  answer,      \* the answer to the handler's last call
  burned       \* history: keys whose reservation was abandoned

vars == <<keys, operations, auditLog, linkLog, inDoubt, call, answer, burned>>

KeyRows == [hash : Hashes, status : KeyStatuses, completedAt : BOOLEAN]

OperationRows == [hash : Hashes, status : OperationStatuses,
                  rollback : Refs \cup {NoRow}]

ASSUME NoRowAssumption ==
  /\ NoRow \notin KeyRows \cup OperationRows \cup Hashes \cup Refs
  /\ NoRow \notin [hash : Hashes, history : Seq(OperationStatuses)]

Idle == [step |-> "idle"]

\* Where createOrReplayOperation, transitionOperation and
\* attachRollbackReference can be between two database calls.
CreateSteps == {"reserve", "insert", "releaseRead", "releaseDelete", "readKey", "poll"}
CreateCalls == [step : CreateSteps, key : Keys, hash : Hashes]

TransitionCalls ==
  [step : {"read", "update"}, key : Keys, to : OperationStatuses,
   observed : OperationStatuses]

AttachCalls ==
  [step : {"attachRead", "attachUpdate", "attachAudit"}, key : Keys,
   ref : Refs, observed : OperationStatuses]

Calls == {Idle} \cup CreateCalls \cup TransitionCalls \cup AttachCalls

Answers == {"none", "created", "replay", "conflict", "transitioned", "attached",
            "invalid", "stale", "check_violation", "frozen", "unavailable"}

TypeOK ==
  /\ keys \in [Keys -> KeyRows \cup {NoRow}]
  /\ operations \in [Keys -> OperationRows \cup {NoRow}]
  /\ auditLog \in [Keys -> Seq(OperationStatuses)]
  /\ linkLog \in [Keys -> SUBSET OperationStatuses]
  /\ inDoubt \in [Keys -> Hashes \cup {NoRow}]
  /\ call \in [Handlers -> Calls]
  /\ answer \in [Handlers -> Answers]
  /\ burned \subseteq Keys

Init ==
  /\ keys = [k \in Keys |-> NoRow]
  /\ operations = [k \in Keys |-> NoRow]
  /\ auditLog = [k \in Keys |-> <<>>]
  /\ linkLog = [k \in Keys |-> {}]
  /\ inDoubt = [k \in Keys |-> NoRow]
  /\ call = [h \in Handlers |-> Idle]
  /\ answer = [h \in Handlers |-> "none"]
  /\ burned = {}

tables == <<keys, operations, auditLog, linkLog, inDoubt>>

At(h, step) == call[h].step = step

Goto(h, step) ==
  /\ call' = [call EXCEPT ![h].step = step]
  /\ UNCHANGED answer

Return(h, value) ==
  /\ call' = [call EXCEPT ![h] = Idle]
  /\ answer' = [answer EXCEPT ![h] = value]

Begin(h, c) ==
  /\ At(h, "idle")
  /\ call' = [call EXCEPT ![h] = c]
  /\ answer' = [answer EXCEPT ![h] = "none"]
  /\ UNCHANGED <<tables, burned>>

(***************************************************************************)
(* createOrReplayOperation                                                 *)
(***************************************************************************)
BeginCreate(h, k, x) == Begin(h, [step |-> "reserve", key |-> k, hash |-> x])

\* The standalone INSERT of the reservation: its primary key lets one caller in.
Reserve(h) ==
  /\ At(h, "reserve")
  /\ LET k == call[h].key
     IN  IF keys[k] = NoRow
           THEN /\ keys' = [keys EXCEPT ![k] =
                      [hash |-> call[h].hash, status |-> "in_progress",
                       completedAt |-> FALSE]]
                /\ Goto(h, "insert")
           ELSE /\ Goto(h, "readKey")
                /\ UNCHANGED keys
  /\ UNCHANGED <<operations, auditLog, linkLog, inDoubt, burned>>

\* The INSERT reached the database and its reply did not reach the caller.
ReserveReplyLost(h) ==
  /\ At(h, "reserve")
  /\ LET k == call[h].key
     IN  /\ keys[k] = NoRow
         /\ keys' = [keys EXCEPT ![k] =
               [hash |-> call[h].hash, status |-> "in_progress",
                completedAt |-> FALSE]]
         /\ burned' = burned \cup {k}
  /\ Return(h, "unavailable")
  /\ UNCHANGED <<operations, auditLog, linkLog, inDoubt>>

\* What the insert transaction writes for key k when it commits.
InsertOperation(k, x) ==
  /\ operations' = [operations EXCEPT ![k] =
       [hash |-> x, status |-> "submitted", rollback |-> NoRow]]
  /\ auditLog' = [auditLog EXCEPT ![k] = <<"submitted">>]

InsertCommits(h) ==
  /\ At(h, "insert")
  /\ operations[call[h].key] = NoRow
  /\ InsertOperation(call[h].key, call[h].hash)
  /\ Return(h, "created")
  /\ UNCHANGED <<keys, linkLog, inDoubt, burned>>

\* Mutant: an insert that fails keeps its reservation.
InsertRollsBack_KeepsKey(h) ==
  /\ At(h, "insert")
  /\ Return(h, "unavailable")
  /\ UNCHANGED <<tables, burned>>

InsertRollsBack(h) ==
  /\ At(h, "insert")
  /\ Goto(h, "releaseRead")
  /\ UNCHANGED <<tables, burned>>

\* COMMIT was sent and its reply lost: the transaction is decided later.
InsertReplyLost(h) ==
  /\ At(h, "insert")
  /\ inDoubt' = [inDoubt EXCEPT ![call[h].key] = call[h].hash]
  /\ Goto(h, "releaseRead")
  /\ UNCHANGED <<keys, operations, auditLog, linkLog, burned>>

ResolveInDoubt(k) ==
  /\ inDoubt[k] # NoRow
  /\ inDoubt' = [inDoubt EXCEPT ![k] = NoRow]
  /\ \/ InsertOperation(k, inDoubt[k])
     \/ UNCHANGED <<operations, auditLog>>
  /\ UNCHANGED <<keys, linkLog, call, answer, burned>>

ReleaseRead(h) ==
  /\ At(h, "releaseRead")
  /\ IF operations[call[h].key] = NoRow
       THEN Goto(h, "releaseDelete")
       ELSE Return(h, "unavailable")
  /\ UNCHANGED <<tables, burned>>

\* Mutant: the reservation is deleted whatever has become of the insert.
ReleaseDelete_Unguarded(h) ==
  /\ At(h, "releaseDelete")
  /\ keys' = [keys EXCEPT ![call[h].key] = NoRow]
  /\ Return(h, "unavailable")
  /\ UNCHANGED <<operations, auditLog, linkLog, inDoubt, burned>>

\* The DELETE waits for an undecided insert, which holds a lock on the key's
\* row, and is refused by the foreign key once an operation refers to it.
ReleaseDelete(h) ==
  /\ At(h, "releaseDelete")
  /\ LET k == call[h].key
     IN  /\ inDoubt[k] = NoRow
         /\ keys' = IF keys[k].status = "in_progress" /\ operations[k] = NoRow
                      THEN [keys EXCEPT ![k] = NoRow]
                      ELSE keys
  /\ Return(h, "unavailable")
  /\ UNCHANGED <<operations, auditLog, linkLog, inDoubt, burned>>

\* Errors of the release are swallowed: the key stays reserved.
ReleaseFails(h) ==
  /\ \/ At(h, "releaseRead")
     \/ At(h, "releaseDelete")
  /\ burned' = burned \cup {call[h].key}
  /\ Return(h, "unavailable")
  /\ UNCHANGED tables

ReadKey(h) ==
  /\ At(h, "readKey")
  /\ LET row == keys[call[h].key]
     IN  IF row # NoRow /\ row.hash = call[h].hash
           THEN Goto(h, "poll")
           ELSE Return(h, "conflict")
  /\ UNCHANGED <<tables, burned>>

PollFindsOperation(h) ==
  /\ At(h, "poll")
  /\ operations[call[h].key] # NoRow
  /\ Return(h, "replay")
  /\ UNCHANGED <<tables, burned>>

\* The last of the five polls found no operation.
PollGivesUp(h) ==
  /\ At(h, "poll")
  /\ operations[call[h].key] = NoRow
  /\ Return(h, "conflict")
  /\ UNCHANGED <<tables, burned>>

(***************************************************************************)
(* transitionOperation                                                     *)
(***************************************************************************)
BeginTransition(h, k, to) ==
  /\ operations[k] # NoRow
  /\ Begin(h, [step |-> "read", key |-> k, to |-> to, observed |-> "submitted"])

ReadOperation(h) ==
  /\ At(h, "read")
  /\ LET status == operations[call[h].key].status
     IN  IF IsValidTransition(status, call[h].to)
           THEN /\ call' = [call EXCEPT ![h].step = "update", ![h].observed = status]
                /\ UNCHANGED answer
           ELSE Return(h, "invalid")
  /\ UNCHANGED <<tables, burned>>

\* The key row transitionOperation writes for status "to"; completed_at is
\* only ever set, never cleared.
KeyRowAfter(row, to) ==
  LET status == ToIdempotencyKeyStatus(to)
  IN  [row EXCEPT !.status = status,
                  !.completedAt = @ \/ status # "in_progress"]

\* CHECK management_idempotency_keys_completion_consistent (migration 0002).
CompletionConsistent(row) == (row.status = "in_progress") = ~row.completedAt

\* Mutant: the UPDATE does not ask for the status that was validated.
ApplyTransition_Unguarded(h) ==
  LET k == call[h].key
      to == call[h].to
      row == KeyRowAfter(keys[k], to)
  IN  /\ CompletionConsistent(row)
      /\ operations' = [operations EXCEPT ![k].status = to]
      /\ keys' = [keys EXCEPT ![k] = row]
      /\ auditLog' = [auditLog EXCEPT ![k] = Append(@, to)]
      /\ UNCHANGED <<linkLog, inDoubt, burned>>

\* The transaction's writes, when its guarded UPDATE finds the observed status.
ApplyTransition(h) ==
  LET k == call[h].key
      to == call[h].to
      row == KeyRowAfter(keys[k], to)
  IN  /\ operations[k].status = call[h].observed
      /\ CompletionConsistent(row)
      /\ operations' = [operations EXCEPT ![k].status = to]
      /\ keys' = [keys EXCEPT ![k] = row]
      /\ auditLog' = [auditLog EXCEPT ![k] = Append(@, to)]
      /\ UNCHANGED <<linkLog, inDoubt, burned>>

UpdateCommits(h) ==
  /\ At(h, "update")
  /\ ApplyTransition(h)
  /\ Return(h, "transitioned")

UpdateReplyLost(h) ==
  /\ At(h, "update")
  /\ ApplyTransition(h)
  /\ Return(h, "unavailable")

UpdateIsStale(h) ==
  /\ At(h, "update")
  /\ operations[call[h].key].status # call[h].observed
  /\ Return(h, "stale")
  /\ UNCHANGED <<tables, burned>>

\* The database refuses the key row, and the whole transaction rolls back.
UpdateIsRejected(h) ==
  /\ At(h, "update")
  /\ operations[call[h].key].status = call[h].observed
  /\ ~CompletionConsistent(KeyRowAfter(keys[call[h].key], call[h].to))
  /\ Return(h, "check_violation")
  /\ UNCHANGED <<tables, burned>>

(***************************************************************************)
(* attachRollbackReference: an UPDATE and an audit row, not one            *)
(* transaction, after a read of the status the audit row will carry.       *)
(***************************************************************************)
BeginAttach(h, k, ref) ==
  /\ operations[k] # NoRow
  /\ Begin(h, [step |-> "attachRead", key |-> k, ref |-> ref, observed |-> "submitted"])

AttachRead(h) ==
  /\ At(h, "attachRead")
  /\ call' = [call EXCEPT ![h].step = "attachUpdate",
                          ![h].observed = operations[call[h].key].status]
  /\ UNCHANGED <<tables, answer, burned>>

\* Mutant: no trigger guards a terminal operation.
GuardRejects_Never(row, ref) == FALSE

\* Trigger management_operations_guard_update (migration 0014): a terminal
\* operation keeps the first reference it is given.
GuardRejects(row, ref) ==
  row.status \in TerminalStatuses /\ row.rollback \notin {NoRow, ref}

AttachUpdate(h) ==
  /\ At(h, "attachUpdate")
  /\ LET k == call[h].key
     IN  IF GuardRejects(operations[k], call[h].ref)
           THEN /\ Return(h, "frozen")
                /\ UNCHANGED operations
           ELSE /\ operations' = [operations EXCEPT ![k].rollback = call[h].ref]
                /\ Goto(h, "attachAudit")
  /\ UNCHANGED <<keys, auditLog, linkLog, inDoubt, burned>>

AttachAudit(h) ==
  /\ At(h, "attachAudit")
  /\ linkLog' = [linkLog EXCEPT ![call[h].key] = @ \cup {call[h].observed}]
  /\ Return(h, "attached")
  /\ UNCHANGED <<keys, operations, auditLog, inDoubt, burned>>

(***************************************************************************)
(* Failures                                                                *)
(***************************************************************************)
\* The steps at which the caller holds a reservation with no operation.
ReservingSteps == {"insert", "releaseRead", "releaseDelete"}

\* A statement fails without effect and the error reaches the caller.  The
\* insert transaction and the release handle their errors above.
DatabaseFails(h) ==
  /\ call[h].step \notin {"idle"} \cup ReservingSteps
  /\ Return(h, "unavailable")
  /\ UNCHANGED <<tables, burned>>

\* The process serving h stops.
Crash(h) ==
  /\ ~At(h, "idle")
  /\ burned' = IF call[h].step \in ReservingSteps
                 THEN burned \cup {call[h].key}
                 ELSE burned
  /\ Return(h, "none")
  /\ UNCHANGED tables

(***************************************************************************)
(* Specification                                                           *)
(***************************************************************************)
CreateStep(h) ==
  \/ Reserve(h) \/ InsertCommits(h) \/ ReleaseRead(h) \/ ReleaseDelete(h)
  \/ ReadKey(h) \/ PollFindsOperation(h) \/ PollGivesUp(h)

TransitionStep(h) ==
  \/ ReadOperation(h) \/ UpdateCommits(h) \/ UpdateIsStale(h) \/ UpdateIsRejected(h)

AttachStep(h) == AttachRead(h) \/ AttachUpdate(h) \/ AttachAudit(h)

FailureStep(h) ==
  \/ ReserveReplyLost(h) \/ InsertRollsBack(h) \/ InsertReplyLost(h)
  \/ ReleaseFails(h) \/ UpdateReplyLost(h) \/ DatabaseFails(h) \/ Crash(h)

Request(h) ==
  \E k \in Keys :
    \/ \E x \in Hashes : BeginCreate(h, k, x)
    \/ \E to \in OperationStatuses : BeginTransition(h, k, to)
    \/ \E ref \in Refs : BeginAttach(h, k, ref)

Next ==
  \/ \E h \in Handlers :
       Request(h) \/ CreateStep(h) \/ TransitionStep(h) \/ AttachStep(h)
       \/ FailureStep(h)
  \/ \E k \in Keys : ResolveInDoubt(k)

Spec == Init /\ [][Next]_vars

(***************************************************************************)
(* Properties                                                              *)
(***************************************************************************)
\* An operation and its idempotency key tell one story: the key exists, binds
\* the same payload, and carries the status a replay check relies on, whatever
\* releases, lost replies and concurrent transitions came between
\* (createOrReplayOperation, releaseReservation, transitionOperation).
KeyAgreesWithOperation ==
  \A k \in Keys : operations[k] # NoRow =>
    /\ keys[k] # NoRow
    /\ keys[k].hash = operations[k].hash
    /\ keys[k].status = ToIdempotencyKeyStatus(operations[k].status)
    /\ CompletionConsistent(keys[k])

Holds(h, k) == call[h].step \in ReservingSteps /\ call[h].key = k

\* A reserved key with no operation is either being worked on by exactly one
\* caller or was given up by a crash or a failed release: no ordinary
\* insert failure burns a key (releaseReservation).
ReservationAccounted ==
  \A k \in Keys :
    /\ keys[k] # NoRow /\ operations[k] = NoRow
         => k \in burned \/ \E h \in Handlers : Holds(h, k)
    /\ \A h, g \in Handlers : Holds(h, k) /\ Holds(g, k) => h = g

\* The audit rows of an operation are exactly the path it took through the
\* lifecycle, ending in the status it has now (transitionOperation writes
\* both in one transaction after a read outside it).
AuditIsHistory ==
  \A k \in Keys :
    LET log == auditLog[k]
    IN  IF operations[k] = NoRow
          THEN log = <<>>
          ELSE /\ Len(log) > 0
               /\ log[1] = "submitted"
               /\ log[Len(log)] = operations[k].status
               /\ \A i \in 1 .. Len(log) - 1 : IsValidTransition(log[i], log[i + 1])

\* A terminal operation is done: no racing transition moves it and its first
\* rollback reference stays (lifecycle.ts, migration 0014).
TerminalIsFrozen ==
  [][\A k \in Keys :
       operations[k] # NoRow /\ operations[k].status \in TerminalStatuses =>
         \/ operations'[k] = operations[k]
         \/ /\ operations[k].rollback = NoRow
            /\ operations'[k] = [operations[k] EXCEPT !.rollback = operations'[k].rollback]]_vars

\* What the tables say of a key: its payload and its recorded history.
Recorded ==
  [k \in Keys |->
     IF operations[k] = NoRow
       THEN NoRow
       ELSE [hash |-> operations[k].hash, history |-> auditLog[k]]]

\* The promise of the ledger: whatever is retried, released, lost or raced, a
\* key is bound once and its history grows one lifecycle edge at a time.
Registry == INSTANCE OperationRegistry WITH Unbound <- NoRow, registry <- Recorded

RegistrySpec == Registry!Spec
===============================================================================
