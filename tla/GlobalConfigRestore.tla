-------------------------- MODULE GlobalConfigRestore --------------------------
(***************************************************************************)
(* The restore of one class of global configuration: packages are          *)
(* submitted, dry-run against the owner's live rows, approved by a second  *)
(* operator and applied by the owner (globalConfigRestoreOperation.ts).    *)
(*                                                                         *)
(* A content stands for the rows of the class and for every hash of them;  *)
(* a package holds every row, so applying it makes its content live.       *)
(***************************************************************************)
EXTENDS Naturals, RequestHandlers, OperationLifecycle

CONSTANTS
  Packages,   \* package ids
  Approvals,  \* approval ids; an execution is known by its approval
  Contents,   \* the rows of the class
  NoRow,      \* the absence of a row
  MaxChanges  \* bound: changes of the owner's rows that nobody has approved

VARIABLES
  packages,    \* global_config_restore_packages
  approvals,   \* management_approvals for restores
  operations,  \* the ledger's status of the execution of an approval
  restores,    \* global_config_restore_operations
  live,        \* the owner's rows
  applied,     \* what became of the owner's apply call of an approval
  changes      \* how often the owner's rows have changed unapproved

stored == <<packages, approvals, operations, restores>>
owner == <<live, applied, changes>>
vars == <<stored, owner, proc>>

\* A rollback and a forward fix are staged like any restore.
Purposes == {"backup", "restore"}

\* The schema's "superseded" is never written.
PackageStatuses == {"validated", "dry_run", "approval_requested", "applied"}

PackageRows == [content : Contents, purpose : Purposes, status : PackageStatuses]

ApprovalRows ==
  [package : Packages, before : Contents,
   status : {"pending", "approved", "rejected", "executed"}]

RestoreStatuses == {"running", "completed", "failed", "partially_completed"}

ApplyStates == {"no", "sent", "refused", "done", "deviated"}

ASSUME RestoreAssumption ==
  /\ NoRow \notin PackageRows \cup ApprovalRows
  /\ Packages \cap Approvals = {}
  /\ MaxChanges \in Nat

\* The calls of the handlers.
Insert(row) == [call |-> "insert", row |-> row]
OwnerDryRun(requests) == [call |-> "dry-run", requests |-> requests]
SetStatus(to) == [call |-> "status", to |-> to]
CreateApproval(before) == [call |-> "create-approval", before |-> before]
Transition(to) == [call |-> "ledger", to |-> to]
InsertRestore == [call |-> "insert-restore"]
Apply == [call |-> "apply"]
Await == [call |-> "await"]
Finish(status) == [call |-> "finish", status |-> status]

HandlerCalls ==
  {InsertRestore, Apply, Await}
    \cup {Insert(row) : row \in PackageRows}
    \cup {OwnerDryRun(requests) : requests \in BOOLEAN}
    \cup {SetStatus(to) : to \in PackageStatuses}
    \cup {CreateApproval(before) : before \in Contents}
    \cup {Transition(to) : to \in OperationStatuses}
    \cup {Finish(status) : status \in RestoreStatuses}

TypeOK ==
  /\ packages \in [Packages -> PackageRows \cup {NoRow}]
  /\ approvals \in [Approvals -> ApprovalRows \cup {NoRow}]
  /\ operations \in [Approvals -> OperationStatuses \cup {"none"}]
  /\ restores \in [Approvals -> RestoreStatuses \cup {"none"}]
  /\ live \in Contents
  /\ applied \in [Approvals -> ApplyStates]
  /\ changes \in 0..MaxChanges
  /\ HandlersOK(Packages \cup Approvals, HandlerCalls)

Init ==
  /\ packages = [p \in Packages |-> NoRow]
  /\ approvals = [a \in Approvals |-> NoRow]
  /\ operations = [a \in Approvals |-> "none"]
  /\ restores = [a \in Approvals |-> "none"]
  /\ live \in Contents
  /\ applied = [a \in Approvals |-> "no"]
  /\ changes = 0
  /\ proc = [h \in Handlers |-> Idle]

(***************************************************************************)
(* Staging a package                                                       *)
(***************************************************************************)
\* The rows of the partial unique index over (class_key, content_hash).
Staged(row) ==
  /\ row # NoRow
  /\ row.status \in {"validated", "dry_run", "approval_requested"}
  /\ row.purpose # "backup"

\* Another package with the content of this row is staged.
Clashes(p, row) ==
  Staged(row) /\ \E q \in Packages \ {p} : Staged(packages[q]) /\ packages[q].content = row.content

\* Mutant: the table has no unique index, and the SELECTs are all there is.
IndexRefuses_Never(p, row) == FALSE

\* The index speaks for every statement that writes p's row.
IndexRefuses(p, row) == Clashes(p, row)

\* insertPackage: its SELECTs find neither the content staged nor the id in use
\* (a refusal changes nothing), and what they found may change before its INSERT.
StorePackage(h, p, content, purpose) ==
  /\ ~Busy(h)
  /\ packages[p] = NoRow
  /\ LET row == [content |-> content, purpose |-> purpose, status |-> "validated"]
     IN  ~Clashes(p, row) /\ Begin(h, p, <<Insert(row)>>)
  /\ UNCHANGED <<stored, owner>>

\* submitPackage and authorPackage: a valid package.
SubmitPackage(h, p) == \E content \in Contents : StorePackage(h, p, content, "restore")

\* captureSnapshot: the owner's signed export of its rows, kept as a backup.
CaptureSnapshot(h, p) == StorePackage(h, p, live, "backup")

\* createRollbackPackage: the rows a completed restore has replaced.  The
\* owner's before-snapshot is kept with it, and is what was approved as such.
CreateRollbackPackage(h, p, a) ==
  /\ restores[a] = "completed"
  /\ StorePackage(h, p, approvals[a].before, "restore")

\* The INSERT, which the primary key or the index may refuse.
InsertPackage(h) ==
  /\ Calls(h, "insert")
  /\ LET p == About(h)
         row == Argument(h).row
     IN  packages' = IF packages[p] # NoRow \/ IndexRefuses(p, row)
                     THEN packages ELSE [packages EXCEPT ![p] = row]
  /\ Stop(h)
  /\ UNCHANGED <<approvals, operations, restores, owner>>

(***************************************************************************)
(* Dry run and request                                                     *)
(***************************************************************************)
Actionable(p) == packages[p] # NoRow /\ packages[p].status \in {"validated", "dry_run"}

\* dryRunPackage, and requestRestoreApply, which dry-runs the package again:
\* the status is read here and written after the owner has answered.
DryRunPackage(h, p) ==
  /\ ~Busy(h)
  /\ Actionable(p)
  /\ \E requests \in BOOLEAN : Begin(h, p, <<OwnerDryRun(requests)>>)
  /\ UNCHANGED <<stored, owner>>

\* The owner compares the package with its live rows; a package that would
\* change nothing is not applicable and no approval of it is created.
DryRunAnswers(h) ==
  /\ Calls(h, "dry-run")
  /\ Continue(h,
       IF Argument(h).requests /\ packages[About(h)].content # live
         THEN <<SetStatus("dry_run"), CreateApproval(live), SetStatus("approval_requested")>>
         ELSE <<SetStatus("dry_run")>>)
  /\ UNCHANGED <<stored, owner>>

\* The package a request is about: its own, or the one its approval is for.
PackageOf(x) == IF x \in Packages THEN x ELSE approvals[x].package

\* setDryRun and setPackageStatus, whose UPDATEs do not look at the status
\* they replace.  A refusal of the index ends the request.
WriteStatus(h) ==
  /\ Calls(h, "status")
  /\ LET p == PackageOf(About(h))
         row == [packages[p] EXCEPT !.status = Argument(h).to]
     IN  IF IndexRefuses(p, row)
         THEN Stop(h) /\ UNCHANGED packages
         ELSE Continue(h, Rest(h)) /\ packages' = [packages EXCEPT ![p] = row]
  /\ UNCHANGED <<approvals, operations, restores, owner>>

InsertApproval(h) ==
  /\ Calls(h, "create-approval")
  /\ \E a \in Approvals :
       /\ approvals[a] = NoRow
       /\ approvals' = [approvals EXCEPT ![a] =
            [package |-> About(h), before |-> Argument(h).before, status |-> "pending"]]
  /\ Continue(h, Rest(h))
  /\ UNCHANGED <<packages, operations, restores, owner>>

Decide(a) ==
  /\ approvals[a] # NoRow /\ approvals[a].status = "pending"
  /\ \E decision \in {"approved", "rejected"} :
       approvals' = [approvals EXCEPT ![a].status = decision]
  /\ UNCHANGED <<packages, operations, restores, owner, proc>>

(***************************************************************************)
(* Execution: executeRestoreApply                                          *)
(***************************************************************************)
\* markExecuted spends the approval; the stored content never changes, so it
\* is still the approved one.
ExecuteApproval(h, a) ==
  /\ ~Busy(h)
  /\ approvals[a] # NoRow /\ approvals[a].status = "approved"
  /\ approvals' = [approvals EXCEPT ![a].status = "executed"]
  /\ Begin(h, a, <<Transition("submitted"), Transition("accepted"), Transition("running"),
                   InsertRestore, Apply>>)
  /\ UNCHANGED <<packages, operations, restores, owner>>

\* createOrReplayOperation and transitionOperation.
WriteLedger(h) ==
  /\ Calls(h, "ledger")
  /\ LET a == About(h)
         to == Argument(h).to
     IN  IF (operations[a] = "none" /\ to = "submitted")
              \/ (operations[a] # "none" /\ IsValidTransition(operations[a], to))
           THEN operations' = [operations EXCEPT ![a] = to] /\ Continue(h, Rest(h))
           ELSE Stop(h) /\ UNCHANGED operations
  /\ UNCHANGED <<packages, approvals, restores, owner>>

StartRestore(h) ==
  /\ Calls(h, "insert-restore")
  /\ restores' = [restores EXCEPT ![About(h)] = "running"]
  /\ Continue(h, Rest(h))
  /\ UNCHANGED <<packages, approvals, operations, owner>>

\* Mutant: the restore's row is written before the ledger.
End_RowFirst(status) == <<Finish(status), Transition(status)>>

\* How an execution ends: the ledger first, then its own row.
End(status) == <<Transition(status), Finish(status)>>

SendApply(h) ==
  /\ Calls(h, "apply")
  /\ \/ /\ applied' = [applied EXCEPT ![About(h)] = "sent"]
        /\ Continue(h, <<Await>>)
     \/ Continue(h, End("failed")) /\ UNCHANGED applied
  /\ UNCHANGED <<stored, live, changes>>

\* Mutant: the owner's 200 is taken for the approved change.
Verified_Always(a) == TRUE

\* The owner's hashes are the approved ones.
Verified(a) == applied[a] = "done"

ApplyAnswers(h) ==
  /\ Calls(h, "await")
  /\ LET a == About(h)
         status == IF Verified(a) THEN "completed" ELSE "partially_completed"
     IN  \/ /\ applied[a] = "refused"
            /\ Continue(h, End("failed") \o <<SetStatus("dry_run")>>)
         \/ /\ applied[a] \in {"done", "deviated"}
            /\ Continue(h, End(status)
                             \o <<SetStatus("applied")>>)
  /\ UNCHANGED <<stored, owner>>

\* Mutant: the package of an apply with an unknown outcome is shown as applied.
ApplyTimesOut_ShownApplied(h) ==
  /\ Calls(h, "await")
  /\ Continue(h, End("partially_completed") \o <<SetStatus("applied")>>)
  /\ UNCHANGED <<stored, owner>>

ApplyTimesOut(h) ==
  /\ Calls(h, "await")
  /\ Continue(h, End("partially_completed"))
  /\ UNCHANGED <<stored, owner>>

FinishRestore(h) ==
  /\ Calls(h, "finish")
  /\ restores' = [restores EXCEPT ![About(h)] = Argument(h).status]
  /\ Continue(h, Rest(h))
  /\ UNCHANGED <<packages, approvals, operations, owner>>

\* Reconciliation: an execution stranded before its dispatch has failed; one
\* that is running or partly done has no receipt and waits for an operator.
SweepStranded(a) ==
  /\ operations[a] \in {"submitted", "accepted"}
  /\ ~AtWork(a)
  /\ operations' = [operations EXCEPT ![a] = "failed"]
  /\ UNCHANGED <<packages, approvals, restores, owner, proc>>

\* A crash, an owner that cannot be read, or a statement that fails.
Abandon(h) ==
  /\ Busy(h)
  /\ Stop(h)
  /\ UNCHANGED <<stored, owner>>

(***************************************************************************)
(* The owner                                                               *)
(***************************************************************************)
\* One transaction: refused unless the live rows are those approved as
\* "before".  An owner that leaves something else says so in its hashes.
OwnerApplies(a) ==
  /\ applied[a] = "sent"
  /\ \/ /\ applied' = [applied EXCEPT ![a] = "refused"]
        /\ UNCHANGED <<live, changes>>
     \/ /\ live = approvals[a].before
        /\ applied' = [applied EXCEPT ![a] = "done"]
        /\ live' = packages[approvals[a].package].content
        /\ UNCHANGED changes
     \/ /\ changes < MaxChanges
        /\ changes' = changes + 1
        /\ applied' = [applied EXCEPT ![a] = "deviated"]
        /\ live' \in Contents
  /\ UNCHANGED <<stored, proc>>

\* The rows change by other means than a restore.
OwnerChanges ==
  /\ changes < MaxChanges
  /\ changes' = changes + 1
  /\ \E content \in Contents \ {live} : live' = content
  /\ UNCHANGED <<stored, applied, proc>>

(***************************************************************************)
(* Specification                                                           *)
(***************************************************************************)
Step(h) ==
  \/ InsertPackage(h) \/ DryRunAnswers(h) \/ WriteStatus(h) \/ InsertApproval(h)
  \/ WriteLedger(h) \/ StartRestore(h) \/ SendApply(h) \/ ApplyAnswers(h)
  \/ ApplyTimesOut(h) \/ FinishRestore(h) \/ Abandon(h)

Next ==
  \/ \E h \in Handlers :
       \/ \E p \in Packages :
            \/ SubmitPackage(h, p) \/ CaptureSnapshot(h, p) \/ DryRunPackage(h, p)
            \/ \E a \in Approvals : CreateRollbackPackage(h, p, a)
       \/ \E a \in Approvals : ExecuteApproval(h, a)
       \/ Step(h)
  \/ \E a \in Approvals :
       Decide(a) \/ SweepStranded(a) \/ OwnerApplies(a)
  \/ OwnerChanges

Spec == Init /\ [][Next]_vars

(***************************************************************************)
(* Properties                                                              *)
(***************************************************************************)
\* A restore recorded as completed is one the owner carried out as approved,
\* and one recorded as failed was not carried out (executeRestoreApply).
OutcomeIsTrue ==
  \A a \in Approvals :
    /\ operations[a] = "completed" => applied[a] = "done"
    /\ operations[a] = "failed" => applied[a] \in {"no", "refused"}

\* The restore's own row is written after the ledger: wherever the execution
\* stops, a row that has ended agrees with its operation, so that a rollback
\* is never made from a restore the ledger does not call completed.
RestoreFollowsLedger ==
  \A a \in Approvals :
    restores[a] \notin {"none", "running"} => restores[a] = operations[a]

\* A package shown as applied has been applied, whatever late status writes,
\* second approvals and failed executions race on its row (setPackageStatus).
AppliedWasApplied ==
  \A p \in Packages :
    packages[p] # NoRow /\ packages[p].status = "applied" =>
      \E a \in Approvals :
        /\ approvals[a] # NoRow /\ approvals[a].package = p
        /\ applied[a] \in {"done", "deviated"}

\* "A given class content may be staged for apply only once while still
\* actionable": of two submissions that both found nothing one is refused, and a
\* package does not return to dry_run after it was applied if its content was
\* staged again meanwhile (0016_global_config_restore.sql, insertPackage).
StagedOnce ==
  \A p, q \in Packages :
    Staged(packages[p]) /\ Staged(packages[q]) /\ p # q =>
      packages[p].content # packages[q].content
===============================================================================
