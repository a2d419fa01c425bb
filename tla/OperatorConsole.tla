---------------------------- MODULE OperatorConsole ----------------------------
(***************************************************************************)
(* The console in front of the operator: dialogs, panels and drawers that  *)
(* load what they show, submit commands under an idempotency key and say   *)
(* what became of them, over a network that loses answers.                 *)
(*                                                                         *)
(* One component is in use at a time; the components differ in when they   *)
(* take a new key, in what they do with a slow read, and in what they say. *)
(* The backend is what the console relies on: one operation per key, a     *)
(* replay of it for the same key, and outcomes that are final.             *)
(***************************************************************************)
EXTENDS Integers, FiniteSets

CONSTANTS
  Targets,      \* tenants, identities, credentials, approvals, modes, ...
  MaxOpenings,  \* how often a component is opened
  MaxKeys,      \* keys taken from randomUUID or the clock
  MaxReads,     \* reads of one run
  MaxCalls,     \* submissions that may be on their way at once
  Nothing       \* the absence of a key, an operation, a version or an answer

VARIABLES
  component,   \* the component in use
  view,        \* what it shows and remembers
  reads,       \* reads on their way
  calls,       \* submissions on their way
  operations   \* the backend's operation of each key

consoleVars == <<component, view, reads, calls, operations>>
--------------------------------------------------------------------------------
(* The components.                                                         *)

\* When a new key is taken: with the dialog and after a definitive refusal
\* ("intent"), with the dialog only ("dialog"), with every submission, or
\* never, the key being made of the approval's identifier ("approval").
\* Reads are "guarded" when a newer one cancels those before it until they
\* are shown, and "headers" when it cancels them until their headers are in:
\* the body is then awaited, and shown whatever has begun meanwhile. A lane
\* is a button with a busy flag of its own.
Component(key, loads, says) ==
  [key |-> key, loads |-> loads, says |-> says, requests |-> {"keyed"}, lanes |-> {"submit"},
   needs |-> FALSE, reused |-> FALSE, once |-> FALSE]

\* What ActionDialog does for every dialog it is given a request by.
ActionDialogs(loads, requests) ==
  [Component("intent", loads, "tone") EXCEPT !.requests = requests, !.once = TRUE]

\* The requests the dialogs build: commands under the dialog's key, and
\* requests for an approval, which carry none.
AiTenantDialogs == {"keyed", "asks"}
AiQuotaDialogs == {"keyed"}
AiFleetDialogs == {"keyed", "asks"}
ManagedCredentialDialogs == {"keyed", "asks"}
FinOpsAllocationDialog == {"keyed"}

AiTenantPanel == ActionDialogs("headers", AiTenantDialogs \cup AiQuotaDialogs)

AiFleetPage == ActionDialogs("unguarded", AiFleetDialogs \cup ManagedCredentialDialogs)

FinOpsPage == ActionDialogs("unguarded", FinOpsAllocationDialog)

\* The preview of a mode is dropped when another mode is chosen, and the mode
\* is applied only with its own preview.
ModeDialog ==
  [ActionDialogs("unguarded", {"keyed"}) EXCEPT !.needs = TRUE, !.reused = TRUE]

\* Nothing is submitted before the commission request has been read.
RepairCommissionDialog ==
  [Component("dialog", "guarded", "status") EXCEPT !.needs = TRUE, !.once = TRUE]

\* Decisions, and executions under a key of the approval's own.
ApprovalQueue ==
  [Component("approval", "unguarded", "status") EXCEPT !.requests = {"keyed", "asks"}]

\* Only decisions, which carry no key.
ApprovalsPage == [Component("submission", "unguarded", "nothing") EXCEPT !.requests = {"asks"}]

\* Packages are authored, submitted and dry-run without keys.
GlobalConfigPage == [Component("submission", "unguarded", "status") EXCEPT !.requests = {"asks"}]

\* The panel of another identity is the same panel with another target.
IdentityPanel == [Component("submission", "unguarded", "nothing") EXCEPT !.reused = TRUE]
IdentityApprovals == [IdentityPanel EXCEPT !.requests = {"keyed", "asks"}]

CredentialPanel == [Component("submission", "unguarded", "nothing") EXCEPT !.reused = TRUE]
CredentialApprovals == [CredentialPanel EXCEPT !.requests = {"keyed", "asks"}]

\* What the drawer lists beside the tenant: invitations, which are sent by one
\* button and resent or cancelled by another, and engines. (A list that is
\* emptied while it is read again is kept here, to be compared with the next.)
TenantDetailDrawer ==
  [Component("submission", "guarded", "nothing") EXCEPT !.lanes = {"submit", "second"}]

\* Suspend, resume and decommission by one button, recheck by another; each
\* reads the tenant again without regard to the other's read.
TenantLifecycle ==
  [Component("submission", "unguarded", "status") EXCEPT !.lanes = {"submit", "second"}]

CommissionWizard == [Component("submission", "none", "status") EXCEPT !.once = TRUE]

ReleaseDrawer ==
  [Component("submission", "unguarded", "status") EXCEPT !.requests = {"keyed", "asks"}]

SubmitDrawer == Component("submission", "none", "status")

EngineDetailDrawer == Component("submission", "unguarded", "status")

Components ==
  {AiTenantPanel, AiFleetPage, FinOpsPage, ModeDialog, RepairCommissionDialog, ApprovalQueue,
   ApprovalsPage, GlobalConfigPage, IdentityPanel, IdentityApprovals, CredentialPanel,
   CredentialApprovals, TenantDetailDrawer, TenantLifecycle, CommissionWizard, ReleaseDrawer,
   SubmitDrawer, EngineDetailDrawer}

Fresh == 1..MaxKeys
Keys == Fresh \cup Targets
Outcomes == {"completed", "failed", "partially_completed"}

Answers == Outcomes \cup {"running", "refused", "approval"}

Saying == {"nothing", "ok", "warn", "bad", "status", "error"}

Lanes == {"submit", "second"}

Views ==
  [open : BOOLEAN, opening : 0..MaxOpenings, target : Targets \cup {Nothing},
   key : Fresh \cup {Nothing}, taken : 0..MaxKeys, busy : SUBSET Lanes, says : Saying,
   shown : [of : Targets, version : Nat] \cup {Nothing}, begun : 0..MaxReads]

Reads == [number : 1..MaxReads, of : Targets, version : Nat \cup {Nothing}, passed : BOOLEAN]

Submissions ==
  [opening : 1..MaxOpenings, target : Targets, lane : Lanes,
   heard : BOOLEAN, stage : {"sent", "working", "answered"}, key : Keys \cup {Nothing},
   answer : Answers \cup {Nothing}]

OperationRows ==
  [target : Targets, opening : 1..MaxOpenings, status : Outcomes \cup {"running"}]

ASSUME ConsoleAssumption ==
  /\ MaxOpenings \in Nat /\ MaxKeys \in Nat /\ MaxReads \in Nat /\ MaxCalls \in Nat
  /\ IsFiniteSet(Targets) /\ Targets \cap Nat = {}
  /\ Nothing \notin Targets \cup Nat \cup OperationRows \cup [of : Targets, version : Nat]

ConsoleTypeOK ==
  /\ component \in Components
  /\ view \in Views
  /\ reads \subseteq Reads
  /\ calls \subseteq Submissions
  /\ operations \in [Keys -> OperationRows \cup {Nothing}]
--------------------------------------------------------------------------------
(* What is shown.                                                          *)

\* The completed commands of a target: how far it has come.
Version(t) ==
  Cardinality({k \in Keys : /\ operations[k] # Nothing /\ operations[k].target = t
                            /\ operations[k].status = "completed"})

\* The effect that reads: it runs when the component opens, when its target
\* changes and after each command.
ReadAgain(of, v) ==
  IF component.loads = "none" \/ v.begun = MaxReads
    THEN view' = v /\ UNCHANGED reads
    ELSE /\ view' = [v EXCEPT !.begun = @ + 1]
         /\ reads' = reads \cup {[number |-> v.begun + 1, of |-> of, version |-> Nothing, passed |-> FALSE]}

OpenView(t) ==
  /\ ~view.open
  /\ view.opening < MaxOpenings /\ view.taken < MaxKeys
  /\ ReadAgain(t, [view EXCEPT !.open = TRUE, !.opening = @ + 1, !.target = t, !.key = view.taken + 1,
                               !.taken = @ + 1, !.busy = {}, !.says = "nothing", !.shown = Nothing])
  /\ UNCHANGED <<component, calls, operations>>

\* Another row is chosen while the panel is open, or another mode.
Retarget(t) ==
  /\ view.open /\ component.reused /\ t # view.target
  /\ ReadAgain(t, [view EXCEPT !.target = t, !.shown = IF component.needs THEN Nothing ELSE @])
  /\ UNCHANGED <<component, calls, operations>>

\* What was asked for goes on without anybody listening.
Unheard(some) == {[c EXCEPT !.heard = FALSE] : c \in {c \in some : c.stage # "answered"}}

\* The cross of a drawer, or the backdrop of a dialog, which stays active while
\* a submission is under way.
CloseView ==
  /\ view.open
  /\ view' = [view EXCEPT !.open = FALSE, !.shown = Nothing, !.busy = {}, !.says = "nothing"]
  /\ reads' = {}
  /\ calls' = Unheard(calls)
  /\ UNCHANGED <<component, operations>>

\* The backend reads for the console.
ReadServed(r) ==
  /\ r.version = Nothing
  /\ reads' = (reads \ {r}) \cup {[r EXCEPT !.version = Version(r.of)]}
  /\ UNCHANGED <<component, view, calls, operations>>

\* Mutant: the effect's cleanup does not cancel.
Current_Late(r) == TRUE

\* No newer read has begun.
Current(r) == r.number = view.begun

\* The headers are in: from here on the read is not dropped any more.
HeadersArrive(r) ==
  /\ component.loads = "headers" /\ r.version # Nothing /\ ~r.passed
  /\ reads' = (reads \ {r}) \cup {s \in {[r EXCEPT !.passed = TRUE]} : Current(r)}
  /\ UNCHANGED <<component, view, calls, operations>>

ReadAnswered(r) ==
  /\ r.version # Nothing
  /\ component.loads = "headers" => r.passed
  /\ reads' = reads \ {r}
  /\ view' = IF component.loads = "guarded" /\ ~Current(r)
               THEN view ELSE [view EXCEPT !.shown = [of |-> r.of, version |-> r.version]]
  /\ UNCHANGED <<component, calls, operations>>

ReadFails(r) ==
  /\ reads' = reads \ {r}
  /\ UNCHANGED <<component, view, calls, operations>>
--------------------------------------------------------------------------------
(* Submissions.                                                            *)

\* Mutant: an operation that was accepted is told as done.
Tone_Accepted(status) == IF status = "failed" THEN "bad" ELSE "ok"

\* What an operation's status is told as (explainOperation).
Tone(status) ==
  CASE status = "completed" -> "ok"
    [] status = "failed" -> "bad"
    [] OTHER -> "warn"

\* An outcome ends a dialog: it can be submitted again only after a refusal
\* or an error.
Finished == component.once /\ view.says \in {"ok", "warn", "status"}

Ready == component.needs => view.shown # Nothing /\ view.shown.of = view.target

\* The key of the next submission.
KeyFor ==
  CASE component.key = "submission" -> view.taken + 1
    [] component.key = "approval" -> view.target
    [] OTHER -> view.key

Submit(request, lane) ==
  /\ view.open /\ lane \notin view.busy /\ ~Finished /\ Ready
  /\ Cardinality(calls) < MaxCalls
  /\ KeyFor \in Keys
  /\ calls' = calls \cup
       {[opening |-> view.opening, target |-> view.target, lane |-> lane, heard |-> TRUE,
         stage |-> "sent", key |-> IF request = "asks" THEN Nothing ELSE KeyFor, answer |-> Nothing]}
  /\ view' = [view EXCEPT !.busy = @ \cup {lane}, !.says = "nothing",
                          !.taken = IF KeyFor \in Fresh /\ KeyFor > @ THEN KeyFor ELSE @]
  /\ UNCHANGED <<component, reads, operations>>

\* The submission fails for the console, and may reach the backend all the same.
Lost(c) ==
  /\ c.heard
  /\ calls' = (calls \ {c}) \cup Unheard({c})
  /\ view' = [view EXCEPT !.busy = @ \ {c.lane}, !.says = "error"]
  /\ UNCHANGED <<component, reads, operations>>

\* Mutant: an error ends the intent too.
KeyAfter_AnyRefusal(answer) == answer \in {"failed", "refused", "running"}

\* A definitive refusal ends the intent: the next attempt has a new key.
TakesNewKey(answer) == answer = "failed"

Says(answer) ==
  IF answer = "refused" THEN "error"
  ELSE IF answer = "approval" THEN "ok"
  ELSE IF component.says = "tone" THEN Tone(answer) ELSE component.says

\* The answer is shown, and what is shown is read again after a success (the
\* repair dialog reads once).
Answered(c) ==
  /\ c.stage = "answered"
  /\ calls' = calls \ {c}
  /\ LET renewed == component.key = "intent" /\ c.key # Nothing /\ TakesNewKey(c.answer)
         told == [view EXCEPT !.busy = @ \ {c.lane}, !.says = Says(c.answer),
                              !.key = IF renewed THEN view.taken + 1 ELSE @,
                              !.taken = IF renewed THEN @ + 1 ELSE @]
     IN  /\ renewed => view.taken < MaxKeys
         /\ IF c.answer = "refused" \/ component.key = "dialog"
               THEN view' = told /\ UNCHANGED reads
               ELSE ReadAgain(view.target, told)
  /\ UNCHANGED <<component, operations>>
--------------------------------------------------------------------------------
(* The backend.                                                            *)

Works(c) == calls' = (calls \ {c}) \cup {[c EXCEPT !.stage = "working"]}

Reply(c, answer) ==
  calls' = (calls \ {c}) \cup
    {d \in {[c EXCEPT !.stage = "answered", !.answer = answer]} : d.heard}

\* A key that is known is answered with its operation as it is, a new one is
\* worked on.
Arrive(c) ==
  /\ c.stage = "sent" /\ c.key # Nothing
  /\ IF operations[c.key] # Nothing
     THEN Reply(c, operations[c.key].status) /\ UNCHANGED operations
     ELSE /\ Works(c)
          /\ operations' = [operations EXCEPT ![c.key] =
               [target |-> c.target, opening |-> c.opening, status |-> "running"]]
  /\ UNCHANGED <<component, view, reads>>

Settle(c) ==
  /\ c.stage = "working"
  /\ \E outcome \in Outcomes :
       /\ operations' = [operations EXCEPT ![c.key].status = outcome]
       /\ Reply(c, outcome)
  /\ UNCHANGED <<component, view, reads>>

\* Refused before there is an operation: no step-up, no scope, a conflict.
Refuse(c) ==
  /\ c.stage = "sent"
  /\ Reply(c, "refused")
  /\ UNCHANGED <<component, view, reads, operations>>

\* A request for an approval, or a decision.
Approve(c) ==
  /\ c.stage = "sent" /\ c.key = Nothing
  /\ Reply(c, "approval")
  /\ UNCHANGED <<component, view, reads, operations>>

\* The backend never gets it, or stops while working on it.
Vanish(c) ==
  /\ ~c.heard
  /\ calls' = calls \ {c}
  /\ UNCHANGED <<component, view, reads, operations>>
--------------------------------------------------------------------------------
ConsoleInit ==
  /\ component \in Components
  /\ view = [open |-> FALSE, opening |-> 0, target |-> Nothing, key |-> Nothing, taken |-> 0,
             busy |-> {}, says |-> "nothing", shown |-> Nothing, begun |-> 0]
  /\ reads = {}
  /\ calls = {}
  /\ operations = [k \in Keys |-> Nothing]

ConsoleNext ==
  \/ \E t \in Targets : OpenView(t) \/ Retarget(t)
  \/ CloseView
  \/ \E r \in reads : ReadServed(r) \/ HeadersArrive(r) \/ ReadAnswered(r) \/ ReadFails(r)
  \/ \E request \in component.requests, lane \in component.lanes : Submit(request, lane)
  \/ \E c \in calls : Lost(c) \/ Answered(c) \/ Arrive(c) \/ Settle(c) \/ Refuse(c)
                        \/ Approve(c) \/ Vanish(c)

ConsoleSpec == ConsoleInit /\ [][ConsoleNext]_consoleVars
--------------------------------------------------------------------------------
(* Whatever is lost and tried again, one opening of a dialog carries out   *)
(* at most one command that has not been definitively refused              *)
(* (keyRef of ActionDialog, the idempotency key of RepairCommissionDialog).*)
OneCommandPerIntent ==
  component.key \in {"intent", "dialog"} =>
    \A k, l \in Keys :
      (/\ operations[k] # Nothing /\ operations[l] # Nothing
       /\ operations[k].opening = operations[l].opening
       /\ operations[k].status # "failed" /\ operations[l].status # "failed") => k = l

(* A dialog that says it is done is right: its own command, of this very   *)
(* opening, was completed, whichever of its submissions has been answered  *)
(* (explainOperation, "never presented as success").                       *)
OutcomeIsHonest ==
  (component.says = "tone" /\ component.requests = {"keyed"} /\ view.says = "ok") =>
    \E k \in Keys : /\ operations[k] # Nothing /\ operations[k].status = "completed"
                    /\ operations[k].opening = view.opening

(* A dialog that says its command was refused is right too: whatever this  *)
(* opening has ever submitted, and whatever of it is still on its way, is  *)
(* of an operation that failed ("A definitive refusal ends this intent",   *)
(* AiActions).                                                             *)
RefusalIsDefinitive ==
  (component.key = "intent" /\ view.says = "bad") =>
    /\ \A k \in Keys :
         operations[k] # Nothing /\ operations[k].opening = view.opening =>
           operations[k].status = "failed"
    /\ \A c \in calls :
         c.key # Nothing /\ c.opening = view.opening =>
           operations[c.key] # Nothing /\ operations[c.key].status = "failed"

(* After a command, a read that began before it does not bring the older   *)
(* state back where a newer read cancels it until it is shown: the lists   *)
(* of TenantDetailDrawer, RepairCommissionDialog. (AiTenantPanel and       *)
(* TenantLifecycle do not keep this.)                                      *)
GuardedViewAdvances ==
  [][(/\ component.loads = "guarded" /\ view'.opening = view.opening
      /\ view.shown # Nothing /\ view'.shown # Nothing) =>
        view'.shown.version >= view.shown.version]_view
===============================================================================
