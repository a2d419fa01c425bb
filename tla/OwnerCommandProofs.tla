-------------------------- MODULE OwnerCommandProofs --------------------------
(***************************************************************************)
(* Commands the owner carries out: the families of commands about one      *)
(* target, and the commands about tenants with what Governance keeps of    *)
(* them.  For every number of keys, approvals, values, tenants and         *)
(* requests.                                                               *)
(***************************************************************************)
EXTENDS CommandFamilies, TenantProjection, RequestHandlersProofs

(***************************************************************************)
(* Command families: the ledger is true, approvals bind and recoveries are *)
(* complete.                                                               *)
(*                                                                         *)
(* The invariant says of every list of calls where its request is: it      *)
(* compares the approved facts, spends the approval, is on its way with    *)
(* an approval spent and unused, or works for the operation it has         *)
(* reserved.  The steps of a request are shown to lead from one of these   *)
(* to the next; those of others, of the sweeps and of the owner, to leave  *)
(* it where it is, because they undo nothing (Grows), leave an operation   *)
(* at work alone (Same) and use no approval another has spent (Unused).    *)
(***************************************************************************)

\* What makes a command fit the approval it is carried out under, if any.
Fits(command, a) ==
  /\ command \in Commands /\ command.family = family
  /\ command \in {IdentityExecution, CredentialExecution} => a # NoRow

\* What is left when a command has been settled: nothing, or to attach this
\* recovery to the operation whose earlier state it asks for.
Ends(v, todo) ==
  \/ todo = <<>>
  \/ \E k \in Keys : /\ todo = <<Attach(k)>> /\ family = "engine"
                     /\ Exists(k) /\ operations[k].before = v

\* A command of value v that has yet to read the target, or to be reserved.
Reading(a, v, todo) ==
  \E command \in Commands :
    /\ Fits(command, a) /\ command.reads
    /\ todo # <<>> /\ Head(todo) = ReadBefore(command, a, v)
    /\ Ends(v, Tail(todo))

Starting(a, v, todo) ==
  \E command \in Commands, before \in Values \cup {NoRow} :
    /\ Fits(command, a)
    /\ todo # <<>> /\ Head(todo) = Start(a, v, before)
    /\ Tail(todo) # <<>> /\ Head(Tail(todo)) = Send(command)
    /\ Ends(v, Tail(Tail(todo)))
    /\ family = "engine" /\ a # NoRow => <<a, "executed">> \in held

Carrying(a, v, todo) == v \in Values /\ (Reading(a, v, todo) \/ Starting(a, v, todo))

\* The calls that check an approval and spend it.
Spending(a, v, todo) ==
  /\ a \in Approvals /\ approvals[a] # NoRow
  /\ todo # <<>> /\ Head(todo) = Spend(a, v)
  /\ Carrying(a, v, Tail(todo))

Comparing(a, v, todo) ==
  /\ todo # <<>> /\ Head(todo) = CompareFacts(a)
  /\ Spending(a, v, Tail(todo))

\* The approval, if there is one, was spent on this very value, and no
\* operation has come of it yet.
Granted(a, v) ==
  \/ a = NoRow
  \/ /\ a \in Approvals /\ approvals[a] # NoRow
     /\ approvals[a].status = "executed" /\ approvals[a].payload = v
     /\ \A k \in Keys : Exists(k) => operations[k].approval # a

Compared(a) == family \in BindingFamilies => <<a, "approved">> \in held

\* A request that has reserved its operation.
Working(k, todo) ==
  /\ Exists(k) /\ todo # <<>>
  /\ \/ /\ operations[k].status = "running"
        /\ Ends(operations[k].payload, Tail(todo))
        /\ \/ /\ sent[k] = "no"
              /\ \E command \in Commands :
                   Fits(command, operations[k].approval) /\ Head(todo) = Send(command)
           \/ /\ sent[k] # "no"
              /\ \E command \in Commands :
                   Fits(command, operations[k].approval) /\ Head(todo) = Await(command)
           \/ sent[k] = "done" /\ family \in ObservedFamilies /\ Head(todo) = Observe
     \/ /\ operations[k].status = "completed" /\ operations[k].verified
        /\ Ends(operations[k].payload, todo)

RequestOK(k, todo) ==
  \/ \E a \in Approvals, v \in Values :
       Comparing(a, v, todo) \/ (Spending(a, v, todo) /\ Compared(a))
  \/ \E a \in Approvals \cup {NoRow}, v \in Values : Granted(a, v) /\ Carrying(a, v, todo)
  \/ Working(k, todo)

\* At the owner, or done with it; on the way there under approval a.
Works(todo) == Head(todo).call \in {"send", "await", "observe", "attach"}

Asks(a, todo) == Head(todo).call \in {"read", "start"} /\ Head(todo).approval = a

\* One request works for a key, and one has spent an approval it has not used.
RequestsOK ==
  /\ DOMAIN proc = Handlers
  /\ \A h \in Handlers : Busy(h) => About(h) \in Keys /\ RequestOK(About(h), proc[h].todo)
  /\ \A h, g \in Handlers :
       Busy(h) /\ Busy(g) /\ About(h) = About(g) /\ Works(proc[h].todo) /\ Works(proc[g].todo) => h = g
  /\ \A h, g \in Handlers, a \in Approvals :
       Busy(h) /\ Busy(g) /\ Asks(a, proc[h].todo) /\ Asks(a, proc[g].todo) => h = g

Typed ==
  /\ family \in Families
  /\ operations \in [Keys -> OperationRows \cup {NoRow}]
  /\ approvals \in [Approvals -> ApprovalRows \cup {NoRow}]
  /\ state \in Values
  /\ sent \in [Keys -> {"no", "sent", "refused", "done", "partial", "unsafe"}]

\* What was sent is of an operation that has run, and was answered as its
\* family is answered.
SentOK ==
  \A k \in Keys :
    /\ sent[k] # "no" => Exists(k) /\ operations[k].status \notin {"submitted", "accepted"}
    /\ sent[k] = "partial" => family \in {"identity", "credential"}
    /\ sent[k] = "unsafe" => family = "ai"

\* The history has what the target now is.
HistoryOK ==
  family \in ObservedFamilies =>
    /\ \A k \in Keys : sent[k] # "no" /\ operations[k].payload = state => k \in seen
    /\ \A a \in Approvals :
         approvals[a] # NoRow /\ approvals[a].facts = state
           /\ approvals[a].status \in {"approved", "executed"} =>
         <<a, approvals[a].status>> \in held

\* An operation refers to rows that are there.
ApprovalsExist ==
  \A k \in Keys : Exists(k) /\ operations[k].approval # NoRow =>
    approvals[operations[k].approval] # NoRow

RecoveriesExist ==
  \A k \in Keys : Exists(k) /\ operations[k].undoneBy # NoRow => Exists(operations[k].undoneBy)

RowsOK ==
  /\ Typed
  /\ SentOK
  /\ HistoryOK
  /\ OutcomeIsTrue
  /\ ExecutedAsApproved
  /\ ApprovalsExist
  /\ RecoveriesExist
  /\ RecoveryIsComplete

IInv == RowsOK /\ RequestsOK

\* What no step undoes: operations and approvals stay what they were asked for.
Grows ==
  /\ UNCHANGED family /\ seen \subseteq seen' /\ held \subseteq held'
  /\ \A k \in Keys : Exists(k) =>
       /\ Exists(k)' /\ operations'[k].approval = operations[k].approval
       /\ operations'[k].payload = operations[k].payload
       /\ operations'[k].before = operations[k].before
  /\ \A a \in Approvals : approvals[a] # NoRow =>
       /\ approvals'[a] # NoRow /\ approvals'[a].payload = approvals[a].payload
       /\ approvals[a].status = "executed" => approvals'[a].status = "executed"

\* The operation of k is left as it is, but for an answer of the owner.
Same(k) ==
  /\ Exists(k) => /\ operations'[k].status = operations[k].status
                  /\ operations'[k].verified = operations[k].verified
  /\ sent'[k] = sent[k] \/ (sent[k] = "sent" /\ sent'[k] # "no")

\* No operation comes of approval a.
Unused(a) == \A k \in Keys : Exists(k)' /\ operations'[k].approval = a => Exists(k)

LEMMA InitIInv == Init => IInv
<1> SUFFICES ASSUME Init
             PROVE  IInv
  OBVIOUS
<1>1. Typed
  BY DEF Init, Typed
<1>2. RequestsOK
  BY DEF Init, RequestsOK, Busy
<1> QED
  BY <1>1, <1>2 DEF Init, IInv, RowsOK, SentOK, HistoryOK, OutcomeIsTrue, ExecutedAsApproved,
     ApprovalsExist, RecoveriesExist, RecoveryIsComplete, Exists

\* Calls are told apart by their names.
LEMMA CallNames ==
  /\ \A a : CompareFacts(a).call = "compare" /\ CompareFacts(a).approval = a
  /\ \A a, v : /\ Spend(a, v).call = "spend" /\ Spend(a, v).approval = a
               /\ Spend(a, v).payload = v
  /\ \A c, a, v : /\ ReadBefore(c, a, v).call = "read" /\ ReadBefore(c, a, v).command = c
                  /\ ReadBefore(c, a, v).approval = a /\ ReadBefore(c, a, v).payload = v
  /\ \A a, v, w : /\ Start(a, v, w).call = "start" /\ Start(a, v, w).approval = a
                  /\ Start(a, v, w).payload = v /\ Start(a, v, w).before = w
  /\ \A c : Send(c).call = "send" /\ Send(c).command = c
  /\ \A c : Await(c).call = "await" /\ Await(c).command = c
  /\ Observe.call = "observe"
  /\ \A k : Attach(k).call = "attach" /\ Attach(k).original = k
  BY DEF CompareFacts, Spend, ReadBefore, Start, Send, Await, Observe, Attach

\* What the proofs need to know of the commands.
LEMMA CommandFacts ==
  ASSUME NEW c \in Commands
  PROVE  /\ c.family = "engine" => c.verifies /\ c.reads
         /\ c.verifies <=> c.family \in {"entitlement", "engine", "ai"}
         /\ c.family \in {"identity", "credential"} /\ c.partial = "none" =>
              c \in {IdentityExecution, CredentialExecution}
         /\ c.partial \in {"none", "owner-reported-partial"}
         /\ c.family \in Families
<1>1. c.family \in Families
  BY DEF Families
<1> QED
  BY <1>1 DEF Commands, IdentityCommand, IdentityExecution, CredentialCommand, CredentialExecution,
     AdapterCommand, EntitlementCommand, EngineCommand, AiCommand, Command

LEMMA ObservedFacts == ObservedFamilies = {"entitlement", "engine", "ai"}
<1>1. EntitlementCommand \in Commands /\ EngineCommand \in Commands /\ AiCommand \in Commands
  BY DEF Commands
<1>2. /\ EntitlementCommand.family = "entitlement" /\ EntitlementCommand.verifies
      /\ EngineCommand.family = "engine" /\ EngineCommand.verifies
      /\ AiCommand.family = "ai" /\ AiCommand.verifies
  BY DEF EntitlementCommand, EngineCommand, AiCommand, Command
<1>3. \A f \in ObservedFamilies : f \in {"entitlement", "engine", "ai"}
  BY CommandFacts DEF ObservedFamilies
<1> QED
  BY <1>1, <1>2, <1>3 DEF ObservedFamilies

\* What a list of calls begins with says where its request is.
LEMMA Heads ==
  ASSUME NEW k, NEW todo, RequestOK(k, todo)
  PROVE  /\ todo # <<>>
         /\ Head(todo).call = "compare" =>
              \E a \in Approvals, v \in Values : Comparing(a, v, todo)
         /\ Head(todo).call = "spend" =>
              \E a \in Approvals, v \in Values : Spending(a, v, todo) /\ Compared(a)
         /\ Head(todo).call = "read" =>
              \E a \in Approvals \cup {NoRow}, v \in Values : Granted(a, v) /\ Reading(a, v, todo)
         /\ Head(todo).call = "start" =>
              \E a \in Approvals \cup {NoRow}, v \in Values : Granted(a, v) /\ Starting(a, v, todo)
         /\ Works(todo) <=> Working(k, todo)
         /\ Head(todo).call \in {"compare", "spend", "read", "start", "send", "await", "observe", "attach"}
<1>1. ASSUME NEW a, NEW v, Comparing(a, v, todo)
      PROVE  todo # <<>> /\ Head(todo).call = "compare"
  BY <1>1, CallNames DEF Comparing
<1>2. ASSUME NEW a, NEW v, Spending(a, v, todo)
      PROVE  todo # <<>> /\ Head(todo).call = "spend"
  BY <1>2, CallNames DEF Spending
<1>3. ASSUME NEW a, NEW v, Reading(a, v, todo)
      PROVE  todo # <<>> /\ Head(todo).call = "read"
  BY <1>3, CallNames DEF Reading
<1>4. ASSUME NEW a, NEW v, Starting(a, v, todo)
      PROVE  todo # <<>> /\ Head(todo).call = "start"
  BY <1>4, CallNames DEF Starting
<1>5. ASSUME Working(k, todo)
      PROVE  todo # <<>> /\ Works(todo)
  <2>1. ASSUME NEW v, Ends(v, todo), todo # <<>>
        PROVE  Head(todo).call = "attach"
    BY <2>1, CallNames, OneCall DEF Ends
  <2> QED
    BY <1>5, <2>1, CallNames DEF Working, Works
<1> QED
  BY <1>1, <1>2, <1>3, <1>4, <1>5 DEF RequestOK, Carrying, Works

\* Time does not change how a request on its way goes on.
LEMMA CarryingKept ==
  ASSUME Grows, NEW a, NEW v, NEW todo
  PROVE  /\ Ends(v, todo) => Ends(v, todo)'
         /\ Carrying(a, v, todo) => Carrying(a, v, todo)'
<1>1. \A rest : Ends(v, rest) => Ends(v, rest)'
  BY DEF Ends, Grows
<1>2. \A command : Fits(command, a) => Fits(command, a)'
  BY DEF Fits, Grows
<1>3. Reading(a, v, todo) => Reading(a, v, todo)'
  BY <1>1, <1>2 DEF Reading
<1>4. Starting(a, v, todo) => Starting(a, v, todo)'
  BY <1>1, <1>2 DEF Starting, Grows
<1> QED
  BY <1>1, <1>3, <1>4 DEF Carrying

\* What others do leaves a request as it was.
LEMMA RequestKept ==
  ASSUME NEW k \in Keys, NEW todo, RequestOK(k, todo), Grows,
         Works(todo) => Same(k),
         \A a \in Approvals : Asks(a, todo) => Unused(a)
  PROVE  RequestOK(k, todo)'
<1>1. \A v, rest : Ends(v, rest) => Ends(v, rest)'
  BY CarryingKept
<1>2. \A command, a : Fits(command, a) => Fits(command, a)'
  BY DEF Fits, Grows
<1>3. \A a, v, rest : Carrying(a, v, rest) => Carrying(a, v, rest)'
  BY CarryingKept
<1>4. \A a, v, rest : Spending(a, v, rest) => Spending(a, v, rest)'
  BY <1>3 DEF Spending, Grows
<1>5. \A a, v, rest : Comparing(a, v, rest) => Comparing(a, v, rest)'
  BY <1>4 DEF Comparing
<1>6. \A a : Compared(a) => Compared(a)'
  BY DEF Compared, Grows
<1>7. CASE \E a \in Approvals, v \in Values :
             Comparing(a, v, todo) \/ (Spending(a, v, todo) /\ Compared(a))
  BY <1>4, <1>5, <1>6, <1>7 DEF RequestOK
<1>8. CASE \E a \in Approvals \cup {NoRow}, v \in Values : Granted(a, v) /\ Carrying(a, v, todo)
  <2>1. PICK a \in Approvals \cup {NoRow}, v \in Values : Granted(a, v) /\ Carrying(a, v, todo)
    BY <1>8
  <2>2. Asks(a, todo)
    BY <2>1, CallNames DEF Carrying, Reading, Starting, Asks
  <2>3. Granted(a, v)'
    BY <2>1, <2>2 DEF Granted, Grows, Unused
  <2> QED
    BY <1>3, <2>1, <2>3 DEF RequestOK
<1>9. CASE Working(k, todo)
  <2>1. Same(k) /\ Exists(k)
    BY <1>9, Heads DEF Working
  <2>2. Working(k, todo)'
    BY <1>1, <1>2, <1>9, <2>1 DEF Working, Same, Grows
  <2> QED
    BY <2>2 DEF RequestOK
<1> QED
  BY <1>7, <1>8, <1>9 DEF RequestOK

\* A step that no request makes.
LEMMA RequestsKept ==
  ASSUME IInv, Grows, UNCHANGED proc,
         \A h \in Handlers : Busy(h) =>
           /\ Works(proc[h].todo) => Same(About(h))
           /\ \A a \in Approvals : Asks(a, proc[h].todo) => Unused(a)
  PROVE  RequestsOK'
<1>1. ASSUME NEW h \in Handlers, Busy(h)'
      PROVE  About(h)' \in Keys /\ RequestOK(About(h), proc[h].todo)'
  <2>1. PICK k, todo : k = About(h) /\ todo = proc[h].todo
    OBVIOUS
  <2>2. Busy(h) /\ k \in Keys /\ RequestOK(k, todo)
    BY <1>1, <2>1 DEF IInv, RequestsOK, Busy
  <2>3. RequestOK(k, todo)'
    BY <2>1, <2>2, RequestKept
  <2> QED
    BY <2>1, <2>2, <2>3 DEF About
<1> QED
  BY <1>1 DEF IInv, RequestsOK, Busy, About

\* Request h ends, or goes on as it should, and the others are left alone.
LEMMA RequestsStep ==
  ASSUME IInv, Grows, NEW h \in Handlers, Others(h), NEW x \in Keys, NEW todo,
         \A g \in Handlers \ {h} : Busy(g) =>
           /\ Works(proc[g].todo) => Same(About(g))
           /\ \A a \in Approvals : Asks(a, proc[g].todo) => Unused(a),
         Busy(h)' =>
           /\ proc'[h].about = x /\ proc'[h].todo = todo /\ RequestOK(x, todo)'
           /\ \A g \in Handlers \ {h} : Busy(g) =>
                /\ ~(Works(todo) /\ Works(proc[g].todo) /\ About(g) = x)
                /\ \A a \in Approvals : ~(Asks(a, todo) /\ Asks(a, proc[g].todo))
  PROVE  RequestsOK'
<1>1. \A g \in Handlers \ {h} : proc'[g] = proc[g] /\ (Busy(g)' <=> Busy(g))
  BY DEF Others, IInv, RequestsOK, Busy
<1>2. ASSUME NEW g \in Handlers \ {h}, Busy(g)'
      PROVE  About(g)' \in Keys /\ RequestOK(About(g), proc[g].todo)'
  <2>1. PICK k, list : k = About(g) /\ list = proc[g].todo
    OBVIOUS
  <2>2. Busy(g) /\ k \in Keys /\ RequestOK(k, list)
    BY <1>1, <1>2, <2>1 DEF IInv, RequestsOK
  <2>3. RequestOK(k, list)'
    BY <2>1, <2>2, RequestKept
  <2> QED
    BY <1>1, <2>1, <2>2, <2>3 DEF About
<1>3. Busy(h)' => About(h)' \in Keys /\ RequestOK(About(h), proc[h].todo)'
  BY DEF About
<1>4. \A f, g \in Handlers :
        (Busy(f) /\ Busy(g) /\ About(f) = About(g) /\ Works(proc[f].todo) /\ Works(proc[g].todo))'
          => f = g
  BY <1>1 DEF IInv, RequestsOK, About
<1>5. \A f, g \in Handlers, a \in Approvals :
        (Busy(f) /\ Busy(g) /\ Asks(a, proc[f].todo) /\ Asks(a, proc[g].todo))' => f = g
  BY <1>1 DEF IInv, RequestsOK
<1>6. DOMAIN proc' = Handlers
  BY DEF Others, IInv, RequestsOK
<1> QED
  BY <1>2, <1>3, <1>4, <1>5, <1>6 DEF RequestsOK

\* The history goes on as the target does.
LEMMA RememberOK ==
  ASSUME Remember, UNCHANGED <<family, operations>>
  PROVE  HistoryOK' /\ seen \subseteq seen' /\ held \subseteq held'
<1>1. CASE family \in ObservedFamilies
  BY <1>1 DEF Remember, HistoryOK
<1>2. CASE family \notin ObservedFamilies
  BY <1>2 DEF Remember, HistoryOK, history
<1> QED
  BY <1>1, <1>2

\* What may become of the call of a key.
Answered(k) ==
  \/ sent'[k] = sent[k]
  \/ /\ sent[k] = "no" /\ sent'[k] = "sent"
     /\ Exists(k) /\ operations[k].status = "running"
  \/ /\ sent[k] = "sent" /\ sent'[k] \in {"refused", "done", "partial", "unsafe"}
     /\ sent'[k] = "partial" => family \in {"identity", "credential"}
     /\ sent'[k] = "unsafe" => family = "ai"

\* A step that writes no operation.
LEMMA RowsKept ==
  ASSUME RowsOK, UNCHANGED <<family, operations>>, Typed', HistoryOK', Grows,
         \A k \in Keys : Answered(k),
         \A a \in Approvals :
           approvals'[a] # NoRow /\ approvals'[a].status = "executed" =>
             \/ approvals[a] # NoRow /\ approvals[a].status = "executed"
             \/ Compared(a)
  PROVE  RowsOK' /\ \A a \in Approvals : Unused(a)
<1>1. SentOK'
  <2> SUFFICES ASSUME NEW k \in Keys
               PROVE  /\ sent'[k] # "no" => Exists(k)' /\ operations'[k].status \notin {"submitted", "accepted"}
                      /\ sent'[k] = "partial" => family' \in {"identity", "credential"}
                      /\ sent'[k] = "unsafe" => family' = "ai"
    BY DEF SentOK
  <2>1. Answered(k)
    OBVIOUS
  <2> QED
    BY <2>1 DEF RowsOK, SentOK, Answered, Exists
<1>2. OutcomeIsTrue'
  <2> SUFFICES ASSUME NEW k \in Keys, Exists(k)
               PROVE  /\ operations[k].status = "completed" =>
                           sent'[k] \in {"done"} \cup (IF operations[k].approval = NoRow THEN {} ELSE {"partial"})
                      /\ operations[k].verified => operations[k].status = "completed" /\ k \in seen'
                      /\ operations[k].status = "completed" /\ family = "engine" => operations[k].verified
                      /\ operations[k].status = "failed" => sent'[k] \in {"no", "refused"}
    BY DEF OutcomeIsTrue, Exists
  <2>1. Answered(k)
    OBVIOUS
  <2>2. operations[k].status \in {"completed", "failed"} => sent'[k] = sent[k]
    BY <2>1 DEF Answered, RowsOK, OutcomeIsTrue
  <2> QED
    BY <2>2 DEF RowsOK, OutcomeIsTrue, Grows
<1>3. ExecutedAsApproved'
  <2>1. ASSUME NEW k \in Keys, Exists(k), operations[k].approval # NoRow
        PROVE  LET a == operations[k].approval
               IN  /\ approvals'[a].status = "executed"
                   /\ approvals'[a].payload = operations[k].payload
                   /\ \A l \in Keys : Exists(l) /\ operations[l].approval = a => l = k
                   /\ family = "engine" => <<a, "executed">> \in held'
    <3>1. PICK a \in Approvals : a = operations[k].approval
      BY <2>1 DEF RowsOK, Typed, Exists, OperationRows
    <3>2. approvals[a].status = "executed"
      BY <2>1, <3>1 DEF RowsOK, ExecutedAsApproved
    <3>3. approvals[a] # NoRow
      BY <2>1, <3>1 DEF RowsOK, ApprovalsExist
    <3> QED
      BY <2>1, <3>1, <3>2, <3>3 DEF RowsOK, ExecutedAsApproved, Grows
  <2>2. ASSUME family \in BindingFamilies, NEW a \in Approvals, approvals'[a] # NoRow,
               approvals'[a].status = "executed"
        PROVE  <<a, "approved">> \in held'
    BY <2>2 DEF RowsOK, ExecutedAsApproved, Grows, Compared
  <2> QED
    BY <2>1, <2>2 DEF ExecutedAsApproved, Exists
<1>4. ApprovalsExist' /\ RecoveriesExist' /\ RecoveryIsComplete'
  <2>1. ApprovalsExist'
    BY DEF RowsOK, Typed, OperationRows, ApprovalsExist, Exists, Grows
  <2> QED
    BY <2>1 DEF RowsOK, RecoveriesExist, RecoveryIsComplete, Exists
<1>5. \A a \in Approvals : Unused(a)
  BY DEF Unused, Exists
<1> QED
  BY <1>1, <1>2, <1>3, <1>4, <1>5 DEF RowsOK

\* The outcome of an operation is recorded, and is true.
LEMMA RowWritten ==
  ASSUME RowsOK, NEW k \in Keys, Exists(k), NEW to, NEW stage \in Stages, NEW verified \in BOOLEAN,
         operations' = [operations EXCEPT ![k] = Recorded(operations[k], to, stage, verified)],
         UNCHANGED <<family, approvals, state, sent, seen, held>>,
         operations[k].status \notin {"completed", "failed"},
         to \in {"completed", "failed", "partially_completed"},
         to = "completed" =>
           /\ sent[k] \in {"done"} \cup (IF operations[k].approval = NoRow THEN {} ELSE {"partial"})
           /\ family = "engine" => verified,
         verified => to = "completed" /\ k \in seen,
         to = "failed" => sent[k] \in {"no", "refused"}
  PROVE  /\ RowsOK' /\ Grows
         /\ \A j \in Keys \ {k} : Same(j)
         /\ \A a \in Approvals : Unused(a)
         /\ operations'[k].status = to /\ operations'[k].verified = verified
         /\ operations'[k].payload = operations[k].payload
<1>1. /\ operations[k] \in OperationRows /\ operations \in [Keys -> OperationRows \cup {NoRow}]
  BY DEF RowsOK, Typed, Exists
<1>2. PICK row : row = Recorded(operations[k], to, stage, verified)
  OBVIOUS
<1>3. /\ row \in OperationRows /\ row.status = to /\ row.verified = verified
      /\ row.approval = operations[k].approval /\ row.payload = operations[k].payload
      /\ row.before = operations[k].before /\ row.undoneBy = operations[k].undoneBy
  BY <1>1, <1>2 DEF Recorded, OperationRows, OperationStatuses
<1>4. /\ operations'[k] = row /\ row # NoRow
      /\ \A j \in Keys \ {k} : operations'[j] = operations[j]
  BY <1>1, <1>2, <1>3, FamiliesAssumption
<1>5. operations' \in [Keys -> OperationRows \cup {NoRow}]
  BY <1>1, <1>2, <1>3
<1>6. Typed'
  BY <1>5 DEF RowsOK, Typed
<1>7. \A j \in Keys : /\ Exists(j)' <=> Exists(j)
                      /\ Exists(j) => /\ operations'[j].approval = operations[j].approval
                                      /\ operations'[j].payload = operations[j].payload
                                      /\ operations'[j].before = operations[j].before
                                      /\ operations'[j].undoneBy = operations[j].undoneBy
  BY <1>3, <1>4 DEF Exists
<1>8. Grows /\ \A a \in Approvals : Unused(a)
  BY <1>7 DEF Grows, Unused
<1>9. \A j \in Keys \ {k} : Same(j)
  BY <1>4 DEF Same
<1>10. SentOK'
  BY <1>3, <1>4, <1>7 DEF RowsOK, SentOK, Exists
<1>11. HistoryOK'
  BY <1>7 DEF RowsOK, SentOK, HistoryOK
<1>12. OutcomeIsTrue'
  BY <1>3, <1>4, <1>7 DEF RowsOK, OutcomeIsTrue, Exists
<1>13. ExecutedAsApproved'
  BY <1>7 DEF RowsOK, ExecutedAsApproved, Exists
<1>14. ApprovalsExist'
  BY <1>7 DEF RowsOK, ApprovalsExist, Exists
<1>15. RecoveriesExist' /\ RecoveryIsComplete'
  <2> SUFFICES ASSUME NEW j \in Keys, Exists(j), operations[j].undoneBy # NoRow
               PROVE  /\ Exists(operations[j].undoneBy)'
                      /\ operations'[operations[j].undoneBy].status = "completed"
                      /\ operations'[operations[j].undoneBy].verified
                      /\ operations'[operations[j].undoneBy].payload = operations'[j].before
    BY <1>7 DEF RecoveriesExist, RecoveryIsComplete, Exists
  <2>1. PICK l \in Keys : l = operations[j].undoneBy
    BY <1>1 DEF RowsOK, Typed, Exists, OperationRows
  <2>2. /\ Exists(l) /\ operations[l].status = "completed" /\ operations[l].verified
        /\ operations[l].payload = operations[j].before
    BY <2>1 DEF RowsOK, RecoveriesExist, RecoveryIsComplete
  <2>3. l # k
    BY <2>2
  <2> QED
    BY <1>4, <1>7, <2>1, <2>2, <2>3 DEF Exists
<1> QED
  BY <1>3, <1>4, <1>6, <1>8, <1>9, <1>10, <1>11, <1>12, <1>13, <1>14, <1>15 DEF RowsOK

\* A sweep of an operation nobody works for.
LEMMA SweepStep ==
  ASSUME IInv, NEW k \in Keys, Exists(k), NEW to, NEW stage \in Stages, Sweep(k, to, stage),
         operations[k].status \notin {"completed", "failed"},
         to \in {"completed", "failed", "partially_completed"},
         to = "completed" => sent[k] = "done" /\ family # "engine",
         to = "failed" => sent[k] \in {"no", "refused"},
         ~AtWork(k) \/ operations[k].status = "partially_completed"
  PROVE  IInv'
<1>1. /\ operations' = [operations EXCEPT ![k] = Recorded(operations[k], to, stage, FALSE)]
      /\ UNCHANGED <<family, approvals, state, sent, seen, held, proc>>
  BY DEF Sweep, owner, history, IInv, RowsOK, Typed
<1>2. /\ RowsOK' /\ Grows /\ (\A j \in Keys \ {k} : Same(j)) /\ \A a \in Approvals : Unused(a)
  BY <1>1, RowWritten DEF IInv
<1>3. ASSUME NEW h \in Handlers, Busy(h), Works(proc[h].todo)
      PROVE  About(h) \in Keys \ {k}
  <2>1. About(h) \in Keys /\ Working(About(h), proc[h].todo)
    BY <1>3, Heads DEF IInv, RequestsOK
  <2>2. operations[About(h)].status \in {"running", "completed"}
    BY <2>1 DEF Working
  <2>3. AtWork(About(h))
    BY <1>3 DEF AtWork, IInv, RequestsOK
  <2> QED
    BY <2>1, <2>2, <2>3
<1>4. RequestsOK'
  BY <1>1, <1>2, <1>3, RequestsKept
<1> QED
  BY <1>2, <1>4 DEF IInv

LEMMA SweepStrandedStep ==
  ASSUME IInv, NEW k \in Keys, SweepStranded(k)
  PROVE  IInv'
<1>1. sent[k] = "no" /\ "stranded-before-dispatch" \in Stages
  BY DEF SweepStranded, IInv, RowsOK, SentOK, Stages
<1> QED
  BY <1>1, SweepStep DEF SweepStranded

LEMMA SweepAmbiguousStep ==
  ASSUME IInv, NEW k \in Keys, SweepAmbiguous(k)
  PROVE  IInv'
<1>1. /\ Exists(k) /\ family # "engine"
      /\ operations[k].status \in {"running", "partially_completed"}
      /\ ~AtWork(k) \/ operations[k].status = "partially_completed"
  BY DEF SweepAmbiguous, ReceiptFamilies
<1>2. {"none", "resolved-not-dispatched", "owner-partial"} \subseteq Stages
  BY DEF Stages
<1>3. CASE sent[k] = "done" /\ Sweep(k, "completed", "none")
  BY <1>1, <1>2, <1>3, SweepStep
<1>4. CASE sent[k] \in {"no", "refused"} /\ Sweep(k, "failed", "resolved-not-dispatched")
  BY <1>1, <1>2, <1>4, SweepStep
<1>5. CASE Sweep(k, "partially_completed", "owner-partial")
  BY <1>1, <1>2, <1>5, SweepStep
<1> QED
  BY <1>3, <1>4, <1>5 DEF SweepAmbiguous

LEMMA OwnerAnswersStep ==
  ASSUME IInv, NEW k \in Keys, OwnerAnswers(k)
  PROVE  IInv'
<1>1. /\ sent[k] = "sent" /\ Remember
      /\ UNCHANGED <<family, operations, approvals, proc>>
  BY DEF OwnerAnswers, stored
<1>2. PICK answer : /\ sent' = [sent EXCEPT ![k] = answer]
                    /\ answer \in {"refused", "done", "partial", "unsafe"}
                    /\ answer = "partial" => family \in {"identity", "credential"}
                    /\ answer = "unsafe" => family = "ai"
  BY DEF OwnerAnswers
<1>3. state' \in Values
  BY <1>1 DEF OwnerAnswers, IInv, RowsOK, Typed, SentOK, Exists, OperationRows
<1>4. Typed'
  BY <1>1, <1>2, <1>3 DEF IInv, RowsOK, Typed
<1>5. HistoryOK' /\ Grows
  BY <1>1, RememberOK DEF Grows, Exists
<1>6. \A j \in Keys : Answered(j) /\ Same(j)
  BY <1>1, <1>2 DEF IInv, RowsOK, Typed, Answered, Same
<1>7. RowsOK' /\ \A a \in Approvals : Unused(a)
  BY <1>1, <1>4, <1>5, <1>6, RowsKept DEF IInv
<1>8. RequestsOK'
  BY <1>1, <1>5, <1>6, <1>7, RequestsKept DEF IInv, RequestsOK
<1> QED
  BY <1>7, <1>8 DEF IInv

LEMMA OwnerChangesStep ==
  ASSUME IInv, OwnerChanges
  PROVE  IInv'
<1>1. Remember /\ UNCHANGED <<family, operations, approvals, sent, proc>> /\ state' \in Values
  BY DEF OwnerChanges, stored
<1>2. Typed'
  BY <1>1 DEF IInv, RowsOK, Typed
<1>3. HistoryOK' /\ Grows
  BY <1>1, RememberOK DEF Grows, Exists
<1>4. \A j \in Keys : Answered(j) /\ Same(j)
  BY <1>1 DEF Answered, Same
<1>5. RowsOK' /\ \A a \in Approvals : Unused(a)
  BY <1>1, <1>2, <1>3, <1>4, RowsKept DEF IInv
<1>6. RequestsOK'
  BY <1>1, <1>3, <1>4, <1>5, RequestsKept DEF IInv, RequestsOK
<1> QED
  BY <1>5, <1>6 DEF IInv

LEMMA RequestApprovalStep ==
  ASSUME IInv, NEW a \in Approvals, NEW v \in Values, NEW of, RequestApproval(a, v, of)
  PROVE  IInv'
<1> DEFINE row == [payload |-> v, facts |-> state, status |-> "pending"]
<1>1. /\ approvals[a] = NoRow /\ approvals' = [approvals EXCEPT ![a] = row]
      /\ UNCHANGED <<family, operations, state, sent, seen, held, proc>>
  BY DEF RequestApproval, owner, history
<1>2. row \in ApprovalRows /\ row.status = "pending"
  BY DEF IInv, RowsOK, Typed, ApprovalRows
<1> HIDE DEF row
<1>3. /\ approvals' \in [Approvals -> ApprovalRows \cup {NoRow}] /\ approvals'[a] = row
      /\ \A b \in Approvals \ {a} : approvals'[b] = approvals[b]
  BY <1>1, <1>2 DEF IInv, RowsOK, Typed
<1>4. Typed'
  BY <1>1, <1>3 DEF IInv, RowsOK, Typed
<1>5. HistoryOK'
  BY <1>1, <1>2, <1>3 DEF IInv, RowsOK, HistoryOK
<1>6. Grows
  BY <1>1, <1>3 DEF Grows, Exists
<1>7. \A j \in Keys : Answered(j) /\ Same(j)
  BY <1>1 DEF Answered, Same
<1>8. \A b \in Approvals : approvals'[b] # NoRow /\ approvals'[b].status = "executed" =>
        approvals[b] # NoRow /\ approvals[b].status = "executed"
  BY <1>2, <1>3
<1>9. RowsOK' /\ \A b \in Approvals : Unused(b)
  BY <1>1, <1>4, <1>5, <1>6, <1>7, <1>8, RowsKept DEF IInv
<1>10. RequestsOK'
  BY <1>1, <1>6, <1>7, <1>9, RequestsKept DEF IInv, RequestsOK
<1> QED
  BY <1>9, <1>10 DEF IInv

\* An approval that has not been executed is decided, or executed.
LEMMA ApprovalMoves ==
  ASSUME IInv, NEW a \in Approvals, approvals[a] # NoRow, approvals[a].status # "executed",
         NEW status \in {"approved", "rejected", "executed"},
         approvals' = [approvals EXCEPT ![a].status = status],
         UNCHANGED <<family, operations, state, sent>>, Remember,
         status = "executed" => Compared(a)
  PROVE  /\ RowsOK' /\ Grows /\ (\A j \in Keys : Same(j)) /\ (\A b \in Approvals : Unused(b))
         /\ approvals'[a] # NoRow /\ approvals'[a].status = status
         /\ approvals'[a].payload = approvals[a].payload
<1>1. PICK row : row = [approvals[a] EXCEPT !.status = status]
  OBVIOUS
<1>2. row \in ApprovalRows /\ row.status = status /\ row.payload = approvals[a].payload
  BY <1>1 DEF IInv, RowsOK, Typed, ApprovalRows
<1>3. /\ approvals' \in [Approvals -> ApprovalRows \cup {NoRow}] /\ approvals'[a] = row
      /\ row # NoRow /\ \A b \in Approvals \ {a} : approvals'[b] = approvals[b]
  BY <1>1, <1>2, FamiliesAssumption DEF IInv, RowsOK, Typed
<1>4. Typed'
  BY <1>3 DEF IInv, RowsOK, Typed
<1>5. HistoryOK' /\ Grows
  BY <1>2, <1>3, RememberOK DEF Grows, Exists
<1>6. \A j \in Keys : Answered(j) /\ Same(j)
  BY DEF Answered, Same
<1>7. \A b \in Approvals : approvals'[b] # NoRow /\ approvals'[b].status = "executed" =>
        (approvals[b] # NoRow /\ approvals[b].status = "executed") \/ Compared(b)
  BY <1>2, <1>3
<1>8. RowsOK' /\ \A b \in Approvals : Unused(b)
  BY <1>4, <1>5, <1>6, <1>7, RowsKept DEF IInv
<1> QED
  BY <1>2, <1>3, <1>5, <1>6, <1>8

LEMMA DecideStep ==
  ASSUME IInv, NEW a \in Approvals, Decide(a)
  PROVE  IInv'
<1>1. PICK decision \in {"approved", "rejected"} : approvals' = [approvals EXCEPT ![a].status = decision]
  BY DEF Decide
<1>2. /\ UNCHANGED <<family, operations, state, sent, proc>> /\ Remember
      /\ approvals[a] # NoRow /\ approvals[a].status # "executed"
  BY DEF Decide, owner
<1>3. RowsOK' /\ Grows /\ (\A j \in Keys : Same(j)) /\ (\A b \in Approvals : Unused(b))
  BY <1>1, <1>2, ApprovalMoves
<1>4. RequestsOK'
  BY <1>2, <1>3, RequestsKept DEF IInv, RequestsOK
<1> QED
  BY <1>3, <1>4 DEF IInv

LEMMA ApprovalSteps ==
  ASSUME IInv, NEW a \in Approvals, ApprovalStep(a)
  PROVE  IInv'
  BY RequestApprovalStep, DecideStep, FamiliesAssumption DEF ApprovalStep, IdentityApprovalRoutes,
     CredentialApprovalRoutes, AdapterApprovalRoutes, EngineDisableRoute, AiApprovalRoutes,
     RequestIdentityApproval, RequestCredentialApproval, RequestAdapterApproval,
     RequestEngineApproval, RequestAiApproval

\* A request that goes on with these calls, or ends.
LEMMA GoesOn ==
  ASSUME IInv, NEW h \in Handlers, Busy(h), NEW todo, Continue(h, todo)
  PROVE  /\ Others(h)
         /\ Busy(h)' => todo # <<>> /\ proc'[h].todo = todo /\ proc'[h].about = About(h)
  BY ContinueOK DEF IInv, RequestsOK, Busy, About

\* Where a request is.
LEMMA AtCall ==
  ASSUME IInv, NEW h \in Handlers, Busy(h)
  PROVE  /\ About(h) \in Keys /\ RequestOK(About(h), proc[h].todo) /\ proc[h].todo # <<>>
         /\ Works(proc[h].todo) =>
              \A g \in Handlers \ {h} : Busy(g) => ~(Works(proc[g].todo) /\ About(g) = About(h))
         /\ \A a \in Approvals : Asks(a, proc[h].todo) =>
              \A g \in Handlers \ {h} : Busy(g) => ~Asks(a, proc[g].todo)
  BY Heads DEF IInv, RequestsOK

\* A step of a request that writes nothing.
LEMMA QuietStep ==
  ASSUME IInv, NEW h \in Handlers, Others(h), UNCHANGED <<stored, owner, history>>,
         NEW x \in Keys, NEW todo,
         Busy(h)' =>
           /\ proc'[h].about = x /\ proc'[h].todo = todo /\ RequestOK(x, todo)
           /\ \A g \in Handlers \ {h} : Busy(g) =>
                /\ ~(Works(todo) /\ Works(proc[g].todo) /\ About(g) = x)
                /\ \A a \in Approvals : ~(Asks(a, todo) /\ Asks(a, proc[g].todo))
  PROVE  IInv'
<1>1. UNCHANGED <<family, operations, approvals, state, sent, changes, seen, held>>
  BY DEF stored, owner, history
<1>2. Grows /\ (\A k \in Keys : Same(k) /\ Answered(k)) /\ \A a \in Approvals : Unused(a)
  BY <1>1 DEF Grows, Same, Answered, Unused, Exists
<1>3. RowsOK'
  <2>1. Typed' /\ HistoryOK'
    BY <1>1 DEF IInv, RowsOK, Typed, HistoryOK
  <2> QED
    BY <1>1, <1>2, <2>1, RowsKept DEF IInv
<1>4. Busy(h)' => RequestOK(x, todo)'
  BY <1>2, RequestKept
<1>5. RequestsOK'
  BY <1>2, <1>4, RequestsStep DEF IInv, RequestsOK
<1> QED
  BY <1>3, <1>5 DEF IInv

LEMMA AbandonStep ==
  ASSUME IInv, NEW h \in Handlers, Abandon(h)
  PROVE  IInv'
<1>1. Others(h) /\ ~Busy(h)'
  BY StopOK DEF Abandon, IInv, RequestsOK, Busy
<1>2. About(h) \in Keys
  BY AtCall DEF Abandon
<1> QED
  BY <1>1, <1>2, QuietStep DEF Abandon

\* Calls put before what is left when a command has been settled.
LEMMA BeforeEnd ==
  ASSUME NEW v, NEW rest, Ends(v, rest), NEW a, NEW b
  PROVE  /\ <<a>> \o rest # <<>> /\ Head(<<a>> \o rest) = a /\ Tail(<<a>> \o rest) = rest
         /\ <<a, b>> \o rest # <<>> /\ Head(<<a, b>> \o rest) = a
         /\ Tail(<<a, b>> \o rest) = <<b>> \o rest
<1>1. PICK A, S : (rest = <<>> \/ rest = <<A>>) /\ S = {A, a, b}
  BY DEF Ends
<1>2. <<A>> \in Seq(S) /\ <<>> \in Seq(S) /\ a \in S /\ b \in S
  BY <1>1
<1>3. rest \in Seq(S)
  BY <1>1, <1>2
<1> QED
  BY <1>2, <1>3, Prepended, PairPrepended

\* A command's calls, and those that are to follow.
FollowedBy(command, a, v, rest) == Program(command, a, v) \o rest

\* From the first call of a command to its last, in front of what is to follow.
LEMMA ProgramOK ==
  ASSUME NEW command, NEW a, NEW v \in Values, Fits(command, a), NEW rest, Ends(v, rest),
         NEW todo, todo = FollowedBy(command, a, v, rest)
  PROVE  /\ Carrying(a, v, todo)
         /\ Head(todo).call \in {"read", "start"} /\ Head(todo).approval = a
<1>1. PICK R, T, D : /\ R = ReadBefore(command, a, v) /\ T = Start(a, v, NoRow)
                     /\ D = Send(command)
  OBVIOUS
<1>2. CASE command.reads
  <2>1. todo = <<R>> \o rest
    BY <1>1, <1>2 DEF FollowedBy, Program
  <2>2. Head(todo) = ReadBefore(command, a, v) /\ todo # <<>> /\ Tail(todo) = rest
    BY <1>1, <2>1, BeforeEnd
  <2>3. Reading(a, v, todo)
    BY <1>2, <2>2 DEF Reading, Fits
  <2> QED
    BY <2>2, <2>3, CallNames DEF Carrying
<1>3. CASE ~command.reads
  <2>1. todo = <<T, D>> \o rest
    BY <1>1, <1>3 DEF FollowedBy, Program, Carry
  <2>2. /\ Head(todo) = Start(a, v, NoRow) /\ todo # <<>> /\ Tail(todo) # <<>>
        /\ Head(Tail(todo)) = Send(command) /\ Tail(Tail(todo)) = rest
    BY <1>1, <2>1, BeforeEnd
  <2>3. family # "engine"
    BY <1>3, CommandFacts DEF Fits
  <2>4. Starting(a, v, todo)
    BY <2>2, <2>3 DEF Starting, Fits
  <2> QED
    BY <2>2, <2>4, CallNames DEF Carrying
<1> QED
  BY <1>2, <1>3

\* A command alone is a list of calls.
LEMMA ProgramIsSeq ==
  ASSUME NEW command, NEW a, NEW v
  PROVE  \E S : /\ Program(command, a, v) \in Seq(S)
               /\ Spend(a, v) \in S /\ CompareFacts(a) \in S
<1> DEFINE S == {ReadBefore(command, a, v), Start(a, v, NoRow), Send(command), Spend(a, v), CompareFacts(a)}
<1>1. <<ReadBefore(command, a, v)>> \in Seq(S) /\ <<Start(a, v, NoRow), Send(command)>> \in Seq(S)
  OBVIOUS
<1>2. Program(command, a, v) \in Seq(S) /\ Spend(a, v) \in S /\ CompareFacts(a) \in S
  BY <1>1 DEF Program, Carry
<1> QED
  BY <1>2

LEMMA AloneOK ==
  ASSUME NEW command, NEW a, NEW v \in Values, Fits(command, a),
         NEW todo, todo = Program(command, a, v)
  PROVE  /\ Carrying(a, v, todo)
         /\ Head(todo).call \in {"read", "start"} /\ Head(todo).approval = a
<1>1. PICK S : Program(command, a, v) \in Seq(S)
  BY ProgramIsSeq
<1>2. todo = FollowedBy(command, a, v, <<>>)
  BY <1>1, ConcatEmptySeq DEF FollowedBy
<1>3. Ends(v, <<>>)
  BY DEF Ends
<1> QED
  BY <1>2, <1>3, ProgramOK

\* A request that begins.
LEMMA RequestBegins ==
  ASSUME IInv, NEW h \in Handlers, NEW k \in Keys, NEW of, NEW todo, Request(h, k, of, todo),
         RequestOK(k, todo), ~Works(todo), \A a \in Approvals : ~Asks(a, todo)
  PROVE  IInv'
<1>1. proc'[h].todo = todo /\ proc'[h].about = k /\ Others(h)
  BY Heads, BeginOK DEF Request, IInv, RequestsOK
<1> QED
  BY <1>1, QuietStep DEF Request

\* The commands that are asked for without an approval.
LEMMA AskStep ==
  ASSUME IInv, NEW h \in Handlers, NEW k \in Keys, NEW v \in Values,
         NEW command \in {IdentityCommand, CredentialCommand, AdapterCommand, EntitlementCommand,
                          EngineCommand, AiCommand},
         Ask(h, k, v, command)
  PROVE  IInv'
<1>1. PICK todo : todo = Program(command, NoRow, v)
  OBVIOUS
<1>2. Request(h, k, command.family, todo)
  BY <1>1 DEF Ask
<1>3. Fits(command, NoRow)
  BY <1>2 DEF Request, Fits, Commands, IdentityCommand, CredentialCommand, AdapterCommand,
     EntitlementCommand, EngineCommand, AiCommand, IdentityExecution, CredentialExecution, Command
<1>4. Carrying(NoRow, v, todo) /\ Head(todo).call \in {"read", "start"} /\ Head(todo).approval = NoRow
  BY <1>1, <1>3, AloneOK
<1>5. RequestOK(k, todo)
  BY <1>4 DEF RequestOK, Granted
<1>6. ~Works(todo) /\ \A a \in Approvals : ~Asks(a, todo)
  BY <1>4, FamiliesAssumption DEF Works, Asks
<1> QED
  BY <1>2, <1>5, <1>6, RequestBegins

LEMMA RecoverEngineStateStep ==
  ASSUME IInv, NEW h \in Handlers, NEW k \in Keys, NEW original \in Keys,
         RecoverEngineState(h, k, original)
  PROVE  IInv'
<1>1. PICK v : v = operations[original].before
  OBVIOUS
<1>2. v \in Values /\ Exists(original)
  BY <1>1 DEF RecoverEngineState, IInv, RowsOK, Typed, Exists, OperationRows
<1>3. PICK rest : rest = <<Attach(original)>>
  OBVIOUS
<1>4. PICK todo : todo = FollowedBy(EngineCommand, NoRow, v, rest)
  OBVIOUS
<1>5. Request(h, k, "engine", todo) /\ family = "engine"
  BY <1>1, <1>3, <1>4 DEF RecoverEngineState, Request, FollowedBy
<1>6. Ends(v, rest)
  BY <1>1, <1>2, <1>3, <1>5 DEF Ends
<1>7. Fits(EngineCommand, NoRow)
  BY <1>5 DEF Fits, Commands, EngineCommand, IdentityExecution, CredentialExecution, Command
<1>8. Carrying(NoRow, v, todo) /\ Head(todo).call \in {"read", "start"} /\ Head(todo).approval = NoRow
  BY <1>2, <1>4, <1>6, <1>7, ProgramOK
<1>9. RequestOK(k, todo)
  BY <1>2, <1>8 DEF RequestOK, Granted
<1>10. ~Works(todo) /\ \A a \in Approvals : ~Asks(a, todo)
  BY <1>8, FamiliesAssumption DEF Works, Asks
<1> QED
  BY <1>5, <1>9, <1>10, RequestBegins

LEMMA RequestSteps ==
  ASSUME IInv, NEW h \in Handlers, NEW k \in Keys, RequestStep(h, k)
  PROVE  IInv'
  BY AskStep, RecoverEngineStateStep, FamiliesAssumption DEF RequestStep, IdentityRoutes,
     CredentialRoutes, AdapterRoutes, EntitlementRoute, EngineStateRoute, RecoverRoute, AiRoutes,
     RequestIdentity, RequestCredentialReplace, RequestAdapter, RequestEntitlement,
     RequestEngineState, ExecuteAiCommand

\* An execution, with the comparison of the approved facts or without.
LEMMA ExecuteStep ==
  ASSUME IInv, NEW h \in Handlers, NEW k \in Keys, NEW a \in Approvals, NEW v \in Values,
         NEW command \in Commands, NEW checks, Execute(h, k, a, command, v, checks),
         \/ checks = <<>> /\ command.family \notin BindingFamilies
         \/ checks = <<CompareFacts(a)>>
  PROVE  IInv'
<1>1. PICK program : program = Program(command, a, v)
  OBVIOUS
<1>2. PICK todo : todo = checks \o <<Spend(a, v)>> \o program
  OBVIOUS
<1>3. /\ Request(h, k, command.family, todo) /\ family = command.family
      /\ approvals[a] # NoRow
  BY <1>1, <1>2 DEF Execute, Request
<1>4. Fits(command, a)
  BY <1>3, FamiliesAssumption DEF Fits
<1>5. Carrying(a, v, program)
  BY <1>1, <1>4, AloneOK
<1>6. PICK S : program \in Seq(S) /\ Spend(a, v) \in S /\ CompareFacts(a) \in S
  BY <1>1, ProgramIsSeq
<1>7. PICK spend : spend = <<Spend(a, v)>> \o program
  OBVIOUS
<1>8. /\ spend # <<>> /\ Head(spend) = Spend(a, v) /\ Tail(spend) = program
  BY <1>6, <1>7, Prepended
<1>9. Spending(a, v, spend)
  BY <1>3, <1>5, <1>8 DEF Spending
<1>10. CASE checks = <<>> /\ command.family \notin BindingFamilies
  <2>1. <<>> \o <<Spend(a, v)>> = <<Spend(a, v)>>
    BY <1>6, Prepended, ConcatEmptySeq
  <2>2. todo = spend
    BY <1>2, <1>7, <1>10, <2>1
  <2>3. RequestOK(k, todo)
    BY <1>3, <1>9, <1>10, <2>2 DEF RequestOK, Compared
  <2>4. ~Works(todo) /\ \A b \in Approvals : ~Asks(b, todo)
    BY <1>8, <2>2, CallNames DEF Works, Asks
  <2> QED
    BY <1>3, <2>3, <2>4, RequestBegins
<1>11. CASE checks = <<CompareFacts(a)>>
  <2>1. <<Spend(a, v)>> \in Seq(S) /\ <<CompareFacts(a)>> \in Seq(S) /\ spend \in Seq(S)
    BY <1>6, <1>7, Prepended
  <2>2. (<<CompareFacts(a)>> \o <<Spend(a, v)>>) \o program = <<CompareFacts(a)>> \o spend
    BY <1>6, <1>7, <2>1, ConcatAssociative
  <2>3. todo = <<CompareFacts(a)>> \o spend
    BY <1>2, <1>11, <2>2
  <2>4. todo # <<>> /\ Head(todo) = CompareFacts(a) /\ Tail(todo) = spend
    BY <1>6, <2>1, <2>3, Prepended
  <2>5. RequestOK(k, todo)
    BY <1>9, <2>4 DEF RequestOK, Comparing
  <2>6. ~Works(todo) /\ \A b \in Approvals : ~Asks(b, todo)
    BY <2>4, CallNames DEF Works, Asks
  <2> QED
    BY <1>3, <2>5, <2>6, RequestBegins
<1> QED
  BY <1>10, <1>11

LEMMA ExecuteSteps ==
  ASSUME IInv, NEW h \in Handlers, NEW k \in Keys, NEW a \in Approvals, ExecuteRoute(h, k, a)
  PROVE  IInv'
<1>1. approvals[a] # NoRow => approvals[a].payload \in Values
  BY DEF IInv, RowsOK, Typed, ApprovalRows
<1>2. /\ \A c \in {IdentityExecution, CredentialExecution, AdapterCommand} :
             c \in Commands /\ c.family \notin BindingFamilies
      /\ EngineCommand \in Commands /\ AiCommand \in Commands
  BY DEF Commands, IdentityExecution, CredentialExecution, AdapterCommand, Command, BindingFamilies
<1>3. CASE ExecuteIdentityApproval(h, k, a)
  <2>1. Execute(h, k, a, IdentityExecution, approvals[a].payload, <<>>) /\ approvals[a] # NoRow
    BY <1>3 DEF ExecuteIdentityApproval, Execute
  <2> QED
    BY <1>1, <1>2, <2>1, ExecuteStep
<1>4. CASE ExecuteCredentialApproval(h, k, a)
  BY <1>2, <1>4, ExecuteStep DEF ExecuteCredentialApproval
<1>5. CASE ExecuteAdapterApproval(h, k, a)
  <2>1. Execute(h, k, a, AdapterCommand, approvals[a].payload, <<>>) /\ approvals[a] # NoRow
    BY <1>5 DEF ExecuteAdapterApproval, Execute
  <2> QED
    BY <1>1, <1>2, <2>1, ExecuteStep
<1>6. CASE ExecuteEngineApproval(h, k, a)
  <2>1. /\ Execute(h, k, a, EngineCommand, approvals[a].payload, <<CompareFacts(a)>>)
        /\ approvals[a] # NoRow
    BY <1>6 DEF ExecuteEngineApproval, Execute
  <2> QED
    BY <1>1, <1>2, <2>1, ExecuteStep
<1>7. CASE ExecuteAiApproval(h, k, a)
  <2>1. /\ Execute(h, k, a, AiCommand, approvals[a].payload, <<CompareFacts(a)>>)
        /\ approvals[a] # NoRow
    BY <1>7 DEF ExecuteAiApproval, Execute
  <2> QED
    BY <1>1, <1>2, <2>1, ExecuteStep
<1> QED
  BY <1>3, <1>4, <1>5, <1>6, <1>7 DEF ExecuteRoute

\* What the first of the calls says of a request that has reserved its operation.
LEMMA WorkingAt ==
  ASSUME NEW k, NEW todo, Working(k, todo)
  PROVE  /\ Exists(k) /\ todo # <<>>
         /\ Head(todo).call \in {"send", "await", "observe"} =>
              operations[k].status = "running" /\ Ends(operations[k].payload, Tail(todo))
         /\ Head(todo).call = "send" =>
              /\ sent[k] = "no"
              /\ \E command \in Commands :
                   Fits(command, operations[k].approval) /\ Head(todo) = Send(command)
         /\ Head(todo).call = "await" =>
              /\ sent[k] # "no"
              /\ \E command \in Commands :
                   Fits(command, operations[k].approval) /\ Head(todo) = Await(command)
         /\ Head(todo).call = "observe" => sent[k] = "done" /\ family \in ObservedFamilies
         /\ Head(todo).call = "attach" =>
              /\ operations[k].status = "completed" /\ operations[k].verified
              /\ Ends(operations[k].payload, todo)
<1>1. Ends(operations[k].payload, todo) => Head(todo).call = "attach"
  BY CallNames, OneCall DEF Ends, Working
<1> QED
  BY <1>1, CallNames DEF Working

LEMMA FactsComparedStep ==
  ASSUME IInv, NEW h \in Handlers, FactsCompared(h)
  PROVE  IInv'
<1>1. Busy(h) /\ About(h) \in Keys /\ Head(proc[h].todo).call = "compare"
  BY AtCall DEF FactsCompared, Calls
<1>2. PICK a \in Approvals, v \in Values : Comparing(a, v, proc[h].todo)
  BY <1>1, AtCall, Heads
<1>3. PICK rest : rest = Rest(h)
  OBVIOUS
<1>4. Argument(h).approval = a /\ Spending(a, v, rest)
  BY <1>2, <1>3, CallNames DEF Comparing, Argument, Rest
<1>5. PICK todo : todo = IF approvals[a].status = "approved" /\ approvals[a].facts = state
                           THEN rest ELSE <<>>
  OBVIOUS
<1>6. Continue(h, todo) /\ UNCHANGED <<stored, owner, history>>
  BY <1>3, <1>4, <1>5 DEF FactsCompared
<1>7. ASSUME todo # <<>>
      PROVE  RequestOK(About(h), todo) /\ Head(todo).call = "spend"
  <2>1. /\ todo = rest /\ approvals[a] # NoRow
        /\ approvals[a].status = "approved" /\ approvals[a].facts = state
    BY <1>4, <1>5, <1>7 DEF Spending
  <2>2. Compared(a)
    BY <2>1, ObservedFacts DEF Compared, BindingFamilies, IInv, RowsOK, HistoryOK
  <2> QED
    BY <1>4, <2>1, <2>2, CallNames DEF RequestOK, Spending
<1>8. ~(todo # <<>> /\ Works(todo)) /\ \A b \in Approvals : ~(todo # <<>> /\ Asks(b, todo))
  BY <1>7 DEF Works, Asks
<1>9. /\ Others(h)
      /\ Busy(h)' => todo # <<>> /\ proc'[h].todo = todo /\ proc'[h].about = About(h)
  BY <1>1, <1>6, GoesOn
<1> QED
  BY <1>1, <1>6, <1>7, <1>8, <1>9, QuietStep

LEMMA ApprovalSpentStep ==
  ASSUME IInv, NEW h \in Handlers, ApprovalSpent(h)
  PROVE  IInv'
<1>1. PICK k, rest : k = About(h) /\ rest = Rest(h)
  OBVIOUS
<1>2. Busy(h) /\ k \in Keys /\ Head(proc[h].todo).call = "spend"
  BY <1>1, AtCall DEF ApprovalSpent, Calls
<1>3. PICK a \in Approvals, v \in Values : Spending(a, v, proc[h].todo) /\ Compared(a)
  BY <1>2, AtCall, Heads
<1>4. /\ approvals[a] # NoRow /\ Carrying(a, v, rest)
      /\ Argument(h).approval = a /\ Argument(h).payload = v
  BY <1>1, <1>3, CallNames DEF Spending, Argument, Rest
<1>5. UNCHANGED <<family, operations, state, sent>> /\ Remember
  BY DEF ApprovalSpent, owner
<1>6. CASE approvals[a].status = "approved" /\ approvals[a].payload = v
  <2>1. approvals' = [approvals EXCEPT ![a].status = "executed"] /\ Continue(h, rest)
    BY <1>1, <1>4, <1>6 DEF ApprovalSpent
  <2>2. /\ RowsOK' /\ Grows /\ (\A j \in Keys : Same(j)) /\ (\A b \in Approvals : Unused(b))
        /\ approvals'[a] # NoRow /\ approvals'[a].status = "executed"
        /\ approvals'[a].payload = v
    BY <1>3, <1>4, <1>5, <1>6, <2>1, ApprovalMoves
  <2>3. \A j \in Keys : Exists(j) => operations[j].approval # a
    BY <1>6, FamiliesAssumption DEF IInv, RowsOK, ExecutedAsApproved
  <2>4. Granted(a, v)'
    BY <1>5, <2>2, <2>3 DEF Granted, Exists
  <2>5. Carrying(a, v, rest)'
    BY <1>4, <2>2, CarryingKept
  <2>6. RequestOK(k, rest)'
    BY <2>4, <2>5 DEF RequestOK
  <2>7. Head(rest).call \in {"read", "start"} /\ Head(rest).approval = a
    BY <1>4, CallNames DEF Carrying, Reading, Starting
  <2>8. ASSUME NEW g \in Handlers, Busy(g)
        PROVE  ~Asks(a, proc[g].todo)
    <3>1. SUFFICES ASSUME Asks(a, proc[g].todo)
                   PROVE  approvals[a].status = "executed"
      BY <1>6
    <3>2. PICK todo : todo = proc[g].todo
      OBVIOUS
    <3>3. RequestOK(About(g), todo) /\ Head(todo).call \in {"read", "start"} /\ Head(todo).approval = a
      BY <2>8, <3>1, <3>2, AtCall DEF Asks
    <3>4. PICK b \in Approvals \cup {NoRow}, w \in Values :
            Granted(b, w) /\ (Reading(b, w, todo) \/ Starting(b, w, todo))
      BY <3>3, Heads
    <3>5. a = b
      BY <3>3, <3>4, CallNames DEF Reading, Starting
    <3> QED
      BY <3>4, <3>5, FamiliesAssumption DEF Granted
  <2>9. /\ Others(h)
        /\ Busy(h)' => rest # <<>> /\ proc'[h].todo = rest /\ proc'[h].about = k
    BY <1>1, <1>2, <2>1, GoesOn
  <2>10. ~Works(rest) /\ \A b \in Approvals : Asks(b, rest) => b = a
    BY <2>7 DEF Works, Asks
  <2>11. \A g \in Handlers : Busy(g) => About(g) \in Keys
    BY AtCall
  <2>12. RequestsOK'
    BY <1>2, <2>2, <2>6, <2>8, <2>9, <2>10, <2>11, RequestsStep
  <2> QED
    BY <2>2, <2>12 DEF IInv
<1>7. CASE ~(approvals[a].status = "approved" /\ approvals[a].payload = v)
  <2>1. approvals' = approvals /\ Continue(h, <<>>)
    BY <1>4, <1>7 DEF ApprovalSpent, IInv, RowsOK, Typed, ApprovalRows
  <2>2. HistoryOK' /\ Grows
    BY <1>5, <2>1, RememberOK DEF Grows, Exists
  <2>3. Typed'
    BY <1>5, <2>1 DEF IInv, RowsOK, Typed
  <2>4. \A j \in Keys : Answered(j) /\ Same(j)
    BY <1>5 DEF Answered, Same
  <2>5. RowsOK' /\ \A b \in Approvals : Unused(b)
    BY <1>5, <2>1, <2>2, <2>3, <2>4, RowsKept DEF IInv
  <2>6. Others(h) /\ ~Busy(h)'
    BY <1>2, <2>1, GoesOn
  <2>7. \A g \in Handlers : Busy(g) => About(g) \in Keys
    BY AtCall
  <2>8. RequestsOK'
    BY <1>2, <2>2, <2>4, <2>5, <2>6, <2>7, RequestsStep
  <2> QED
    BY <2>5, <2>8 DEF IInv
<1> QED
  BY <1>6, <1>7

LEMMA BeforeReadStep ==
  ASSUME IInv, NEW h \in Handlers, BeforeRead(h)
  PROVE  IInv'
<1>1. PICK k, rest : k = About(h) /\ rest = Rest(h)
  OBVIOUS
<1>2. Busy(h) /\ k \in Keys /\ Head(proc[h].todo).call = "read"
  BY <1>1, AtCall DEF BeforeRead, Calls
<1>3. PICK a \in Approvals \cup {NoRow}, v \in Values :
        Granted(a, v) /\ Reading(a, v, proc[h].todo)
  BY <1>2, AtCall, Heads
<1>4. PICK command \in Commands :
        /\ Fits(command, a) /\ Ends(v, rest)
        /\ Head(proc[h].todo) = ReadBefore(command, a, v)
  BY <1>1, <1>3 DEF Reading, Rest
<1>5. /\ Argument(h).command = command /\ Argument(h).approval = a /\ Argument(h).payload = v
      /\ Asks(a, proc[h].todo)
  BY <1>4, CallNames DEF Argument, Asks
<1>6. PICK stale \in BOOLEAN : stale <=> a # NoRow /\ approvals[a].facts # state
  OBVIOUS
<1>7. PICK start, send, todo : /\ start = Start(a, v, state) /\ send = Send(command)
                               /\ todo = IF stale THEN <<>> ELSE <<start, send>> \o rest
  OBVIOUS
<1>8. Continue(h, todo) /\ UNCHANGED <<stored, owner, history>>
  BY <1>1, <1>5, <1>6, <1>7 DEF BeforeRead, Carry
<1>9. ASSUME ~stale
      PROVE  /\ RequestOK(k, todo)
             /\ Head(todo).call = "start" /\ Head(todo).approval = a
  <2>1. /\ todo # <<>> /\ Head(todo) = start /\ Tail(todo) # <<>>
        /\ Head(Tail(todo)) = send /\ Tail(Tail(todo)) = rest
    BY <1>4, <1>7, <1>9, BeforeEnd
  <2>2. family = "engine" /\ a # NoRow => <<a, "executed">> \in held
    BY <1>3, <1>6, <1>9, ObservedFacts DEF Granted, IInv, RowsOK, HistoryOK
  <2>3. state \in Values
    BY DEF IInv, RowsOK, Typed
  <2>4. Starting(a, v, todo)
    BY <1>4, <1>7, <2>1, <2>2, <2>3 DEF Starting
  <2>5. RequestOK(k, todo)
    BY <1>3, <2>4 DEF RequestOK, Carrying
  <2> QED
    BY <1>7, <2>1, <2>5, CallNames
<1>10. /\ Others(h)
       /\ Busy(h)' => todo # <<>> /\ proc'[h].todo = todo /\ proc'[h].about = k
  BY <1>1, <1>2, <1>8, GoesOn
<1>11. todo # <<>> => ~stale
  BY <1>7
<1>12. todo # <<>> => ~Works(todo) /\ \A b \in Approvals : Asks(b, todo) => b = a
  BY <1>9, <1>11 DEF Works, Asks
<1>13. a \in Approvals => \A g \in Handlers \ {h} : Busy(g) => ~Asks(a, proc[g].todo)
  BY <1>2, <1>5, AtCall
<1> QED
  BY <1>2, <1>8, <1>9, <1>10, <1>11, <1>12, <1>13, QuietStep

\* An operation is reserved for what it was asked for.
Reserved(k, a, v, row) ==
  /\ ~Exists(k) /\ operations' = [operations EXCEPT ![k] = row]
  /\ row \in OperationRows /\ row.status \in {"submitted", "accepted", "running"}
  /\ row.verified = FALSE /\ row.undoneBy = NoRow /\ row.approval = a /\ row.payload = v
  /\ Granted(a, v)
  /\ family = "engine" /\ a # NoRow => <<a, "executed">> \in held
  /\ UNCHANGED <<family, approvals, state, sent, seen, held>>

LEMMA RowCreated ==
  ASSUME RowsOK, NEW k \in Keys, NEW a \in Approvals \cup {NoRow}, NEW v \in Values, NEW row,
         Reserved(k, a, v, row)
  PROVE  /\ RowsOK' /\ Grows
         /\ \A j \in Keys : Same(j)
         /\ \A b \in Approvals \ {a} : Unused(b)
         /\ operations'[k] = row /\ row # NoRow
<1>1. /\ operations' \in [Keys -> OperationRows \cup {NoRow}]
      /\ operations'[k] = row /\ row # NoRow
      /\ \A j \in Keys \ {k} : operations'[j] = operations[j]
  BY FamiliesAssumption DEF Reserved, RowsOK, Typed
<1>2. /\ Exists(k)'
      /\ \A j \in Keys \ {k} : Exists(j)' <=> Exists(j)
  BY <1>1 DEF Exists
<1>3. sent[k] = "no"
  BY DEF Reserved, RowsOK, SentOK
<1>4. Typed'
  BY <1>1 DEF Reserved, RowsOK, Typed
<1>5. Grows /\ (\A j \in Keys : Same(j)) /\ \A b \in Approvals \ {a} : Unused(b)
  BY <1>1, <1>2 DEF Reserved, Grows, Same, Unused
<1>6. SentOK' /\ HistoryOK' /\ OutcomeIsTrue'
  BY <1>1, <1>2, <1>3 DEF Reserved, RowsOK, SentOK, HistoryOK, OutcomeIsTrue
<1>7. ExecutedAsApproved'
  <2>1. ASSUME NEW j \in Keys, Exists(j)', operations'[j].approval # NoRow
        PROVE  LET b == operations'[j].approval
               IN  /\ approvals[b].status = "executed"
                   /\ approvals[b].payload = operations'[j].payload
                   /\ \A l \in Keys : Exists(l)' /\ operations'[l].approval = b => l = j
                   /\ family = "engine" => <<b, "executed">> \in held
    <3>1. CASE j = k
      BY <1>1, <1>2, <2>1, <3>1 DEF Reserved, Granted
    <3>2. CASE j # k
      BY <1>1, <1>2, <2>1, <3>2 DEF Reserved, Granted, RowsOK, ExecutedAsApproved
    <3> QED
      BY <3>1, <3>2
  <2> QED
    BY <2>1 DEF Reserved, RowsOK, ExecutedAsApproved
<1>8. ApprovalsExist'
  BY <1>1, <1>2 DEF Reserved, RowsOK, ApprovalsExist, Granted
<1>9. RecoveriesExist' /\ RecoveryIsComplete'
  <2> SUFFICES ASSUME NEW j \in Keys, Exists(j)', operations'[j].undoneBy # NoRow
               PROVE  /\ operations'[operations'[j].undoneBy] # NoRow
                      /\ operations'[operations'[j].undoneBy].status = "completed"
                      /\ operations'[operations'[j].undoneBy].verified
                      /\ operations'[operations'[j].undoneBy].payload = operations'[j].before
    BY DEF RecoveriesExist, RecoveryIsComplete, Exists
  <2>1. j # k /\ Exists(j) /\ operations'[j] = operations[j]
    BY <1>1, <1>2 DEF Reserved
  <2>2. PICK l \in Keys : l = operations[j].undoneBy
    BY <2>1 DEF RowsOK, Typed, Exists, OperationRows
  <2>3. /\ Exists(l) /\ operations[l].status = "completed" /\ operations[l].verified
        /\ operations[l].payload = operations[j].before
    BY <2>1, <2>2 DEF RowsOK, RecoveriesExist, RecoveryIsComplete
  <2>4. l # k
    BY <2>3 DEF Reserved
  <2> QED
    BY <1>1, <2>1, <2>2, <2>3, <2>4 DEF Exists
<1> QED
  BY <1>1, <1>4, <1>5, <1>6, <1>7, <1>8, <1>9 DEF RowsOK

LEMMA OperationStartedStep ==
  ASSUME IInv, NEW h \in Handlers, OperationStarted(h)
  PROVE  IInv'
<1>1. PICK k, rest : k = About(h) /\ rest = Rest(h)
  OBVIOUS
<1>2. /\ Busy(h) /\ k \in Keys /\ Head(proc[h].todo).call = "start"
      /\ UNCHANGED <<family, approvals, state, sent, changes, seen, held>>
  BY <1>1, AtCall DEF OperationStarted, Calls, owner, history
<1>3. PICK a \in Approvals \cup {NoRow}, v \in Values :
        Granted(a, v) /\ Starting(a, v, proc[h].todo)
  BY <1>2, AtCall, Heads
<1>4. PICK command \in Commands, before \in Values \cup {NoRow} :
        /\ Fits(command, a) /\ Head(proc[h].todo) = Start(a, v, before)
        /\ rest # <<>> /\ Head(rest) = Send(command) /\ Ends(v, Tail(rest))
        /\ family = "engine" /\ a # NoRow => <<a, "executed">> \in held
  BY <1>1, <1>3 DEF Starting, Rest
<1>5. /\ Argument(h).approval = a /\ Argument(h).payload = v /\ Argument(h).before = before
      /\ Asks(a, proc[h].todo)
  BY <1>4, CallNames DEF Argument, Asks
<1>6. \A g \in Handlers \ {h}, b \in Approvals : Busy(g) /\ Asks(b, proc[g].todo) => b # a
  BY <1>2, <1>5, AtCall
<1>7. CASE Exists(k) /\ Stop(h) /\ UNCHANGED operations
  <2>1. Others(h) /\ ~Busy(h)'
    BY <1>7, StopOK DEF IInv, RequestsOK, Busy
  <2> QED
    BY <1>2, <1>7, <2>1, QuietStep DEF stored, owner, history
<1>8. ASSUME NEW status \in {"submitted", "accepted", "running"}, ~Exists(k), NEW row,
             row = [status |-> status, stage |-> "none", approval |-> a,
                    payload |-> v, verified |-> FALSE, undoneBy |-> NoRow,
                    before |-> IF status = "submitted" THEN NoRow ELSE before],
             operations' = [operations EXCEPT ![k] = row],
             IF status = "running" THEN Continue(h, rest) ELSE Stop(h)
      PROVE  IInv'
  <2>1. /\ row \in OperationRows /\ row.status = status /\ row.verified = FALSE
        /\ row.undoneBy = NoRow /\ row.approval = a /\ row.payload = v
    BY <1>8 DEF OperationRows, OperationStatuses, Stages
  <2>2. /\ RowsOK' /\ Grows /\ (\A j \in Keys : Same(j)) /\ (\A b \in Approvals \ {a} : Unused(b))
        /\ operations'[k] = row /\ row # NoRow
    <3>1. Reserved(k, a, v, row)
      BY <1>2, <1>3, <1>4, <1>8, <2>1 DEF Reserved
    <3> QED
      BY <1>2, <1>3, <3>1, RowCreated DEF IInv
  <2>3. /\ Others(h)
        /\ Busy(h)' => /\ status = "running" /\ proc'[h].todo = rest /\ proc'[h].about = k
    <3>1. CASE status = "running"
      BY <1>1, <1>2, <1>8, <3>1, GoesOn
    <3>2. CASE status # "running"
      BY <1>8, <3>2, StopOK DEF IInv, RequestsOK, Busy
    <3> QED
      BY <3>1, <3>2
  <2>4. ASSUME status = "running"
        PROVE  RequestOK(k, rest)'
    <3>1. Fits(command, a)' /\ Ends(v, Tail(rest))'
      BY <1>2, <1>4, <2>2, CarryingKept DEF Fits
    <3>2. sent'[k] = "no"
      BY <1>2, <1>8 DEF IInv, RowsOK, SentOK
    <3>3. Working(k, rest)'
      BY <1>4, <2>1, <2>2, <2>4, <3>1, <3>2 DEF Working, Exists
    <3> QED
      BY <3>3 DEF RequestOK
  <2>5. \A b \in Approvals : ~Asks(b, rest)
    BY <1>4, CallNames DEF Asks
  <2>6. ASSUME NEW g \in Handlers \ {h}, Busy(g), Works(proc[g].todo)
        PROVE  About(g) \in Keys \ {k}
    BY <1>8, <2>6, AtCall, Heads DEF Working
  <2>7. RequestsOK'
    BY <1>2, <1>6, <2>2, <2>3, <2>4, <2>5, <2>6, RequestsStep
  <2> QED
    BY <2>2, <2>7 DEF IInv
<1>9. CASE /\ ~Exists(k)
           /\ operations' = [operations EXCEPT ![k] =
                [status |-> "running", stage |-> "none", approval |-> a,
                 payload |-> v, verified |-> FALSE, undoneBy |-> NoRow, before |-> before]]
           /\ Continue(h, rest)
  BY <1>8, <1>9
<1>10. CASE /\ ~Exists(k)
            /\ \E status \in {"submitted", "accepted"} :
                 operations' = [operations EXCEPT ![k] =
                   [status |-> status, stage |-> "none", approval |-> a,
                    payload |-> v, verified |-> FALSE, undoneBy |-> NoRow,
                    before |-> IF status = "submitted" THEN NoRow ELSE before]]
            /\ Stop(h)
  BY <1>8, <1>10
<1> QED
  BY <1>1, <1>5, <1>7, <1>9, <1>10 DEF OperationStarted

LEMMA CallSentStep ==
  ASSUME IInv, NEW h \in Handlers, CallSent(h)
  PROVE  IInv'
<1>1. PICK k, rest : k = About(h) /\ rest = Rest(h)
  OBVIOUS
<1>2. Busy(h) /\ k \in Keys /\ Head(proc[h].todo).call = "send"
  BY <1>1, AtCall DEF CallSent, Calls
<1>3. Working(k, proc[h].todo) /\ Works(proc[h].todo)
  BY <1>1, <1>2, AtCall, Heads DEF Works
<1>4. /\ Exists(k) /\ operations[k].status = "running" /\ sent[k] = "no"
      /\ Ends(operations[k].payload, rest)
  BY <1>1, <1>2, <1>3, WorkingAt DEF Rest
<1>5. PICK command \in Commands :
        Fits(command, operations[k].approval) /\ Head(proc[h].todo) = Send(command)
  BY <1>2, <1>3, WorkingAt
<1>6. Argument(h).command = command
  BY <1>5, CallNames DEF Argument
<1>7. PICK await, todo : await = Await(command) /\ todo = <<await>> \o rest
  OBVIOUS
<1>8. todo # <<>> /\ Head(todo) = await /\ Tail(todo) = rest
  BY <1>4, <1>7, BeforeEnd
<1>9. /\ Continue(h, todo) /\ sent' = [sent EXCEPT ![k] = "sent"] /\ Remember
      /\ UNCHANGED <<family, operations, approvals, state>>
  BY <1>1, <1>6, <1>7 DEF CallSent, stored
<1>10. Typed'
  BY <1>9 DEF IInv, RowsOK, Typed
<1>11. HistoryOK' /\ Grows
  BY <1>9, RememberOK DEF Grows, Exists
<1>12. \A j \in Keys : Answered(j)
  BY <1>4, <1>9 DEF IInv, RowsOK, Typed, Answered
<1>13. \A j \in Keys \ {k} : Same(j)
  BY <1>9 DEF IInv, RowsOK, Typed, Same
<1>14. RowsOK' /\ \A b \in Approvals : Unused(b)
  BY <1>9, <1>10, <1>11, <1>12, RowsKept DEF IInv
<1>15. RequestOK(k, todo)'
  <2>1. Exists(k)' /\ operations'[k] = operations[k] /\ sent'[k] = "sent"
    BY <1>2, <1>4, <1>9 DEF Exists, IInv, RowsOK, Typed
  <2>2. Ends(operations[k].payload, rest)'
    BY <1>4, <1>9 DEF Ends, Exists
  <2>3. Fits(command, operations[k].approval)'
    BY <1>5, <1>9 DEF Fits
  <2>4. Working(k, todo)'
    BY <1>4, <1>7, <1>8, <1>9, <2>1, <2>2, <2>3 DEF Working
  <2> QED
    BY <2>4 DEF RequestOK
<1>16. \A b \in Approvals : ~Asks(b, todo)
  BY <1>7, <1>8, CallNames DEF Asks
<1>17. \A g \in Handlers \ {h} : Busy(g) =>
         About(g) \in Keys /\ ~(Works(proc[g].todo) /\ About(g) = k)
  BY <1>1, <1>2, <1>3, AtCall
<1>18. Others(h) /\ (Busy(h)' => proc'[h].todo = todo /\ proc'[h].about = k)
  BY <1>1, <1>2, <1>9, GoesOn
<1>19. RequestsOK'
  BY <1>2, <1>11, <1>13, <1>14, <1>15, <1>16, <1>17, <1>18, RequestsStep
<1> QED
  BY <1>14, <1>19 DEF IInv

\* An outcome that may be recorded.
Truly(k, to, verified) ==
  /\ to \in {"completed", "failed", "partially_completed"}
  /\ to = "completed" =>
       /\ sent[k] \in {"done"} \cup (IF operations[k].approval = NoRow THEN {} ELSE {"partial"})
       /\ family = "engine" => verified
  /\ verified => to = "completed" /\ k \in seen
  /\ to = "failed" => sent[k] \in {"no", "refused"}

\* A request records the outcome of its operation; a completed operation may
\* be attached to the one it recovers.
LEMMA SettleStep ==
  ASSUME IInv, NEW h \in Handlers, Busy(h), NEW k, k = About(h),
         Head(proc[h].todo).call \in {"send", "await", "observe"},
         NEW to, NEW stage \in Stages, NEW verified \in BOOLEAN, Settle(h, to, stage, verified),
         Truly(k, to, verified), UNCHANGED <<family, approvals, owner, history>>
  PROVE  IInv'
<1>1. PICK todo : todo = IF to = "completed" THEN Rest(h) ELSE <<>>
  OBVIOUS
<1>2. /\ operations' = [operations EXCEPT ![k] = Recorded(operations[k], to, stage, verified)]
      /\ Continue(h, todo)
  BY <1>1 DEF Settle
<1>3. k \in Keys /\ Working(k, proc[h].todo) /\ Works(proc[h].todo)
  BY AtCall, Heads DEF Works
<1>4. /\ Exists(k) /\ operations[k].status = "running"
      /\ Ends(operations[k].payload, Rest(h))
  BY <1>3, WorkingAt DEF Rest
<1>5. UNCHANGED <<family, approvals, state, sent, seen, held>>
  BY DEF owner, history
<1>6. /\ RowsOK' /\ Grows
      /\ (\A j \in Keys \ {k} : Same(j)) /\ (\A a \in Approvals : Unused(a))
      /\ operations'[k].status = to /\ operations'[k].verified = verified
      /\ operations'[k].payload = operations[k].payload
  BY <1>2, <1>3, <1>4, <1>5, RowWritten DEF Truly, IInv
<1>7. ASSUME todo # <<>>
      PROVE  RequestOK(k, todo)' /\ \A a \in Approvals : ~Asks(a, todo)
  <2>1. to = "completed" /\ todo = Rest(h)
    BY <1>1, <1>7
  <2>2. PICK l \in Keys : todo = <<Attach(l)>> /\ family = "engine"
    BY <1>4, <1>7, <2>1 DEF Ends
  <2>3. Head(todo).call = "attach"
    BY <2>2, OneCall, CallNames
  <2>4. Ends(operations[k].payload, todo)'
    <3>1. PICK v : v = operations[k].payload
      OBVIOUS
    <3>2. Ends(v, todo)'
      BY <1>4, <1>6, <2>1, <3>1, CarryingKept
    <3> QED
      BY <1>6, <3>1, <3>2 DEF Ends
  <2>5. Working(k, todo)'
    BY <1>3, <1>4, <1>6, <1>7, <2>1, <2>2, <2>4 DEF Truly, Working, Grows
  <2> QED
    BY <2>3, <2>5 DEF RequestOK, Asks
<1>8. \A g \in Handlers \ {h} : Busy(g) =>
        About(g) \in Keys /\ ~(Works(proc[g].todo) /\ About(g) = k)
  BY <1>3, AtCall
<1>9. /\ Others(h)
      /\ Busy(h)' => todo # <<>> /\ proc'[h].todo = todo /\ proc'[h].about = k
  BY <1>2, GoesOn
<1>10. RequestsOK'
  BY <1>3, <1>6, <1>7, <1>8, <1>9, RequestsStep
<1> QED
  BY <1>6, <1>10 DEF IInv

\* Where the request of an outcome is.
LEMMA AtWorkOn ==
  ASSUME IInv, NEW h \in Handlers, Busy(h),
         Head(proc[h].todo).call \in {"send", "await", "observe"}
  PROVE  About(h) \in Keys /\ Working(About(h), proc[h].todo)
  BY AtCall, Heads DEF Works

LEMMA NotSentStep ==
  ASSUME IInv, NEW h \in Handlers, NeverDispatched(h) \/ CallLost(h) \/ CallTimesOut(h)
  PROVE  IInv'
<1>1. PICK k : k = About(h)
  OBVIOUS
<1>2. "never-dispatched" \in Stages /\ "mutation-call" \in Stages
  BY DEF Stages
<1>3. CASE NeverDispatched(h)
  <2>1. /\ Busy(h) /\ Head(proc[h].todo).call = "send" /\ Settle(h, "failed", "never-dispatched", FALSE)
        /\ UNCHANGED <<family, approvals, owner, history>>
    BY <1>3 DEF NeverDispatched, Calls
  <2>2. sent[k] = "no"
    BY <1>1, <2>1, AtWorkOn, WorkingAt
  <2> QED
    BY <1>1, <1>2, <2>1, <2>2, SettleStep DEF Truly
<1>4. CASE CallLost(h) \/ CallTimesOut(h)
  <2>1. /\ Busy(h) /\ Head(proc[h].todo).call \in {"send", "await", "observe"}
        /\ Settle(h, "partially_completed", "mutation-call", FALSE)
        /\ UNCHANGED <<family, approvals, owner, history>>
    BY <1>4 DEF CallLost, CallTimesOut, Calls
  <2>2. Truly(k, "partially_completed", FALSE)
    BY DEF Truly
  <2> QED
    BY <1>1, <1>2, <2>1, <2>2, SettleStep
<1> QED
  BY <1>3, <1>4

LEMMA AnswerTakenStep ==
  ASSUME IInv, NEW h \in Handlers, AnswerTaken(h)
  PROVE  IInv'
<1>1. PICK k, rest : k = About(h) /\ rest = Rest(h)
  OBVIOUS
<1>2. /\ Busy(h) /\ k \in Keys /\ Head(proc[h].todo).call = "await"
      /\ sent[k] \notin {"no", "sent"}
      /\ UNCHANGED <<family, approvals, owner, history>>
  BY <1>1, AtCall DEF AnswerTaken, Calls
<1>3. Working(k, proc[h].todo) /\ Works(proc[h].todo)
  BY <1>1, <1>2, AtWorkOn DEF Works
<1>4. Exists(k) /\ operations[k].status = "running" /\ Ends(operations[k].payload, rest)
  BY <1>1, <1>2, <1>3, WorkingAt DEF Rest
<1>5. PICK command \in Commands :
        Fits(command, operations[k].approval) /\ Head(proc[h].todo) = Await(command)
  BY <1>2, <1>3, WorkingAt
<1>6. Argument(h).command = command
  BY <1>5, CallNames DEF Argument
<1>7. PICK stage : stage = StageOf(command, sent[k])
  OBVIOUS
<1>8. /\ sent[k] \in {"refused", "done", "partial", "unsafe"}
      /\ sent[k] = "partial" => family \in {"identity", "credential"}
  BY <1>2 DEF IInv, RowsOK, Typed, SentOK
<1>9. /\ sent[k] = "refused" => stage = "mutation-response"
      /\ sent[k] = "unsafe" => stage = "owner-response-unsafe"
      /\ sent[k] = "partial" => stage = command.partial
      /\ sent[k] = "done" => stage = "none"
  BY <1>7 DEF StageOf
<1>10. command.family = family /\ command.partial \in {"none", "owner-reported-partial"}
  BY <1>5, CommandFacts DEF Fits
<1>11. stage \in Stages /\ "mutation-response" \in Stages /\ "none" \in Stages
  BY <1>8, <1>9, <1>10 DEF Stages
<1>12. CASE stage = "mutation-response" /\ Settle(h, "failed", stage, FALSE)
  <2>1. sent[k] \in {"no", "refused"}
    BY <1>8, <1>9, <1>10, <1>12
  <2> QED
    BY <1>1, <1>2, <1>11, <1>12, <2>1, SettleStep DEF Truly
<1>13. CASE Settle(h, "partially_completed", stage, FALSE)
  <2>1. Truly(k, "partially_completed", FALSE)
    BY DEF Truly
  <2> QED
    BY <1>1, <1>2, <1>11, <1>13, <2>1, SettleStep
<1>14. CASE stage = "none" /\ ~command.verifies /\ Settle(h, "completed", "none", FALSE)
  <2>1. family # "engine"
    BY <1>5, <1>10, <1>14, CommandFacts
  <2>2. sent[k] \in {"done"} \cup (IF operations[k].approval = NoRow THEN {} ELSE {"partial"})
    <3>1. CASE sent[k] = "done"
      BY <3>1
    <3>2. CASE sent[k] = "partial"
      <4>1. command \in {IdentityExecution, CredentialExecution}
        BY <1>5, <1>8, <1>9, <1>10, <1>14, <3>2, CommandFacts
      <4>2. operations[k].approval # NoRow
        BY <1>5, <4>1 DEF Fits
      <4> QED
        BY <3>2, <4>2
    <3>3. sent[k] \notin {"refused", "unsafe"}
      BY <1>9, <1>14
    <3> QED
      BY <1>8, <3>1, <3>2, <3>3
  <2> QED
    BY <1>1, <1>2, <1>11, <1>14, <2>1, <2>2, SettleStep DEF Truly
<1>15. CASE /\ stage = "none" /\ command.verifies
            /\ Continue(h, <<Observe>> \o rest) /\ UNCHANGED operations
  <2>1. PICK observe, todo : observe = Observe /\ todo = <<observe>> \o rest
    OBVIOUS
  <2>2. todo # <<>> /\ Head(todo) = observe /\ Tail(todo) = rest
    BY <1>4, <2>1, BeforeEnd
  <2>3. Continue(h, todo) /\ UNCHANGED <<stored, owner, history>>
    BY <1>2, <1>15, <2>1 DEF stored
  <2>4. family \in {"entitlement", "engine", "ai"}
    BY <1>5, <1>10, <1>15, CommandFacts
  <2>5. sent[k] = "done"
    BY <1>8, <1>9, <1>15, <2>4
  <2>6. RequestOK(k, todo)
    <3>1. Working(k, todo)
      BY <1>4, <2>1, <2>2, <2>4, <2>5, ObservedFacts DEF Working
    <3> QED
      BY <3>1 DEF RequestOK
  <2>7. \A b \in Approvals : ~Asks(b, todo)
    BY <2>1, <2>2, CallNames DEF Asks
  <2>8. \A g \in Handlers \ {h} : Busy(g) => ~(Works(proc[g].todo) /\ About(g) = k)
    BY <1>1, <1>2, <1>3, AtCall
  <2>9. Others(h) /\ (Busy(h)' => proc'[h].todo = todo /\ proc'[h].about = k)
    BY <1>1, <1>2, <2>3, GoesOn
  <2> QED
    BY <1>2, <2>3, <2>6, <2>7, <2>8, <2>9, QuietStep
<1> QED
  BY <1>1, <1>6, <1>7, <1>12, <1>13, <1>14, <1>15 DEF AnswerTaken

LEMMA EffectStep ==
  ASSUME IInv, NEW h \in Handlers, EffectObserved(h) \/ EffectUnobserved(h)
  PROVE  IInv'
<1>1. PICK k : k = About(h)
  OBVIOUS
<1>2. /\ Busy(h) /\ Head(proc[h].todo).call = "observe"
      /\ UNCHANGED <<family, approvals, owner, history>>
  BY DEF EffectObserved, EffectUnobserved, Calls
<1>3. k \in Keys /\ sent[k] = "done" /\ family \in ObservedFamilies
  BY <1>1, <1>2, AtWorkOn, WorkingAt
<1>4. {"none", "effective-mismatch", "effective-observation"} \subseteq Stages
  BY DEF Stages
<1>5. CASE operations[k].payload = state /\ Settle(h, "completed", "none", TRUE)
  <2>1. k \in seen
    BY <1>3, <1>5 DEF IInv, RowsOK, HistoryOK
  <2> QED
    BY <1>1, <1>2, <1>3, <1>4, <1>5, <2>1, SettleStep DEF Truly
<1>6. CASE family = "ai" /\ Settle(h, "completed", "none", FALSE)
  <2>1. Truly(k, "completed", FALSE)
    BY <1>3, <1>6 DEF Truly
  <2> QED
    BY <1>1, <1>2, <1>4, <1>6, <2>1, SettleStep
<1>7. CASE Settle(h, "partially_completed", "effective-mismatch", FALSE)
  <2>1. Truly(k, "partially_completed", FALSE)
    BY DEF Truly
  <2> QED
    BY <1>1, <1>2, <1>4, <1>7, <2>1, SettleStep
<1>8. CASE Settle(h, "partially_completed", "effective-observation", FALSE)
  <2>1. Truly(k, "partially_completed", FALSE)
    BY DEF Truly
  <2> QED
    BY <1>1, <1>2, <1>4, <1>8, <2>1, SettleStep
<1> QED
  BY <1>1, <1>5, <1>6, <1>7, <1>8 DEF EffectObserved, EffectUnobserved

LEMMA RollbackAttachedStep ==
  ASSUME IInv, NEW h \in Handlers, RollbackAttached(h)
  PROVE  IInv'
<1>1. PICK k, l, rest : k = About(h) /\ l = Argument(h).original /\ rest = Rest(h)
  OBVIOUS
<1>2. /\ Busy(h) /\ k \in Keys /\ Head(proc[h].todo).call = "attach"
      /\ operations' = [operations EXCEPT ![l].undoneBy = k] /\ Continue(h, rest)
      /\ UNCHANGED <<family, approvals, state, sent, seen, held>>
  BY <1>1, AtCall DEF RollbackAttached, Calls, owner, history
<1>3. Working(k, proc[h].todo)
  BY <1>1, <1>2, AtCall, Heads DEF Works
<1>4. /\ Exists(k) /\ operations[k].status = "completed" /\ operations[k].verified
      /\ Ends(operations[k].payload, proc[h].todo)
  BY <1>2, <1>3, WorkingAt
<1>5. /\ l \in Keys /\ Exists(l) /\ operations[l].before = operations[k].payload
      /\ rest = <<>>
  <2>1. PICK j \in Keys : /\ proc[h].todo = <<Attach(j)>> /\ Exists(j)
                          /\ operations[j].before = operations[k].payload
    BY <1>3, <1>4 DEF Ends, Working
  <2>2. Argument(h) = Attach(j) /\ rest = <<>>
    BY <1>1, <2>1, OneCall DEF Argument, Rest
  <2> QED
    BY <1>1, <2>1, <2>2, CallNames
<1>6. PICK row : row = [operations[l] EXCEPT !.undoneBy = k]
  OBVIOUS
<1>7. /\ row \in OperationRows /\ row.undoneBy = k /\ row.status = operations[l].status
      /\ row.verified = operations[l].verified /\ row.approval = operations[l].approval
      /\ row.payload = operations[l].payload /\ row.before = operations[l].before
  BY <1>2, <1>5, <1>6 DEF IInv, RowsOK, Typed, Exists, OperationRows
<1>8. /\ operations' \in [Keys -> OperationRows \cup {NoRow}]
      /\ operations'[l] = row /\ row # NoRow
      /\ \A j \in Keys \ {l} : operations'[j] = operations[j]
  BY <1>2, <1>5, <1>6, <1>7, FamiliesAssumption DEF IInv, RowsOK, Typed
<1>9. \A j \in Keys : /\ Exists(j)' <=> Exists(j)
                      /\ Exists(j) => /\ operations'[j].status = operations[j].status
                                      /\ operations'[j].verified = operations[j].verified
                                      /\ operations'[j].approval = operations[j].approval
                                      /\ operations'[j].payload = operations[j].payload
                                      /\ operations'[j].before = operations[j].before
                                      /\ operations'[j].undoneBy =
                                           IF j = l THEN k ELSE operations[j].undoneBy
  BY <1>5, <1>7, <1>8 DEF Exists
<1>10. Grows /\ (\A j \in Keys : Same(j)) /\ \A a \in Approvals : Unused(a)
  BY <1>2, <1>9 DEF Grows, Same, Unused
<1>11. Typed' /\ SentOK' /\ HistoryOK' /\ OutcomeIsTrue'
  <2>1. Typed' /\ SentOK'
    BY <1>2, <1>8, <1>9 DEF IInv, RowsOK, Typed, SentOK
  <2>2. HistoryOK'
    BY <1>2, <1>9 DEF IInv, RowsOK, SentOK, HistoryOK
  <2>3. OutcomeIsTrue'
    BY <1>2, <1>9 DEF IInv, RowsOK, OutcomeIsTrue
  <2> QED
    BY <2>1, <2>2, <2>3
<1>12. ExecutedAsApproved' /\ ApprovalsExist'
  BY <1>2, <1>9 DEF IInv, RowsOK, ExecutedAsApproved, ApprovalsExist
<1>13. RecoveriesExist' /\ RecoveryIsComplete'
  <2> SUFFICES ASSUME NEW j \in Keys, Exists(j)', operations'[j].undoneBy # NoRow
               PROVE  /\ operations'[operations'[j].undoneBy] # NoRow
                      /\ operations'[operations'[j].undoneBy].status = "completed"
                      /\ operations'[operations'[j].undoneBy].verified
                      /\ operations'[operations'[j].undoneBy].payload = operations'[j].before
    BY DEF RecoveriesExist, RecoveryIsComplete, Exists
  <2>1. Exists(j) /\ operations'[j].undoneBy = IF j = l THEN k ELSE operations[j].undoneBy
    BY <1>9
  <2>2. PICK m \in Keys : m = operations'[j].undoneBy
    BY <1>2, <2>1 DEF IInv, RowsOK, Typed, Exists, OperationRows
  <2>3. /\ Exists(m) /\ operations[m].status = "completed" /\ operations[m].verified
        /\ operations[m].payload = operations[j].before
    BY <1>4, <1>5, <2>1, <2>2 DEF IInv, RowsOK, RecoveriesExist, RecoveryIsComplete
  <2> QED
    BY <1>9, <2>1, <2>2, <2>3 DEF Exists
<1>14. RowsOK'
  BY <1>11, <1>12, <1>13 DEF RowsOK
<1>15. Others(h) /\ ~Busy(h)'
  BY <1>2, <1>5, GoesOn
<1>16. \A g \in Handlers : Busy(g) => About(g) \in Keys
  BY AtCall
<1>17. RequestsOK'
  BY <1>2, <1>10, <1>15, <1>16, RequestsStep
<1> QED
  BY <1>14, <1>17 DEF IInv

LEMMA HandlerSteps ==
  ASSUME IInv, NEW h \in Handlers, HandlerStep(h)
  PROVE  IInv'
  BY FactsComparedStep, ApprovalSpentStep, BeforeReadStep, OperationStartedStep, CallSentStep,
     NotSentStep, AnswerTakenStep, EffectStep, RollbackAttachedStep, AbandonStep DEF HandlerStep

LEMMA NextIInv == IInv /\ [Next]_vars => IInv'
<1> SUFFICES ASSUME IInv, [Next]_vars
             PROVE  IInv'
  OBVIOUS
<1>1. ASSUME NEW h \in Handlers, HandlerStep(h)
      PROVE  IInv'
  BY <1>1, HandlerSteps
<1>2. ASSUME NEW h \in Handlers, NEW k \in Keys, RequestStep(h, k)
      PROVE  IInv'
  BY <1>2, RequestSteps
<1>3. ASSUME NEW h \in Handlers, NEW k \in Keys, NEW a \in Approvals, ExecuteRoute(h, k, a)
      PROVE  IInv'
  BY <1>3, ExecuteSteps
<1>4. ASSUME NEW a \in Approvals, ApprovalStep(a)
      PROVE  IInv'
  BY <1>4, ApprovalSteps
<1>5. ASSUME NEW k \in Keys, SweepStranded(k) \/ SweepAmbiguous(k) \/ OwnerAnswers(k)
      PROVE  IInv'
  BY <1>5, SweepStrandedStep, SweepAmbiguousStep, OwnerAnswersStep
<1>6. CASE OwnerChanges
  BY <1>6, OwnerChangesStep
<1>7. CASE UNCHANGED vars
  <2>1. UNCHANGED <<family, operations, approvals, state, sent, seen, held, proc>>
    BY <1>7 DEF vars, stored, owner, history
  <2>2. RowsOK'
    BY <2>1 DEF IInv, RowsOK, Typed, SentOK, HistoryOK, OutcomeIsTrue, ExecutedAsApproved,
       ApprovalsExist, RecoveriesExist, RecoveryIsComplete, Exists
  <2>3. Grows /\ (\A k \in Keys : Same(k)) /\ \A a \in Approvals : Unused(a)
    BY <2>1 DEF Grows, Same, Unused, Exists
  <2>4. RequestsOK'
    BY <2>1, <2>3, RequestsKept DEF IInv, RequestsOK
  <2> QED
    BY <2>2, <2>4 DEF IInv
<1> QED
  BY <1>1, <1>2, <1>3, <1>4, <1>5, <1>6, <1>7 DEF Next

LEMMA Invariance == Spec => []IInv
  BY InitIInv, NextIInv, PTL DEF Spec

\* Whoever records the outcome of a command, the request, a sweep that finds
\* it stuck, or both in any order, the ledger says only what is so: completed
\* commands were done by the owner, verified ones had their effect after they
\* were sent, and failed ones were not carried out.
THEOREM OutcomesAreTrue == Spec => []OutcomeIsTrue
<1>1. IInv => OutcomeIsTrue
  BY DEF IInv, RowsOK
<1> QED
  BY <1>1, Invariance, PTL

\* However many requests compare and spend an approval at once, what is done
\* under it is what was approved, once, and the facts its checker saw have
\* held since the decision.
THEOREM ApprovalsBind == Spec => []ExecutedAsApproved
<1>1. IInv => ExecutedAsApproved
  BY DEF IInv, RowsOK
<1> QED
  BY <1>1, Invariance, PTL

\* An engine operation that refers to its recovery was recovered: the recovery
\* asked for the state before it, has completed, and the state was seen.
THEOREM RecoveriesAreComplete == Spec => []RecoveryIsComplete
<1>1. IInv => RecoveryIsComplete
  BY DEF IInv, RowsOK
<1> QED
  BY <1>1, Invariance, PTL

(***************************************************************************)
(* Types of the command families.                                          *)
(***************************************************************************)
FamilyHandlersTyped == HandlersTyped(Keys, HandlerCalls)

\* What the invariant above leaves out of the types.
HistoryTyped ==
  /\ changes \in 0..MaxChanges
  /\ seen \subseteq Keys
  /\ held \subseteq Approvals \X {"approved", "executed"}

LEMMA FamilyCalls ==
  /\ Observe \in HandlerCalls
  /\ \A a \in Approvals : CompareFacts(a) \in HandlerCalls
  /\ \A a \in Approvals, v \in Values : Spend(a, v) \in HandlerCalls
  /\ \A c \in Commands, a \in Approvals \cup {NoRow}, v \in Values :
       ReadBefore(c, a, v) \in HandlerCalls
  /\ \A a \in Approvals \cup {NoRow}, v \in Values, w \in Values \cup {NoRow} :
       Start(a, v, w) \in HandlerCalls
  /\ \A c \in Commands : Send(c) \in HandlerCalls /\ Await(c) \in HandlerCalls
  /\ \A k \in Keys : Attach(k) \in HandlerCalls
  BY DEF HandlerCalls

\* What the calls that lead to others carry.
LEMMA FamilyCallFields ==
  ASSUME NEW c \in HandlerCalls
  PROVE  /\ c.call \in {"send", "await", "read"} => c.command \in Commands
         /\ c.call = "read" => c.approval \in Approvals \cup {NoRow} /\ c.payload \in Values
<1> DEFINE Fields(d) == /\ d.call \in {"send", "await", "read"} => d.command \in Commands
                        /\ d.call = "read" => d.approval \in Approvals \cup {NoRow} /\ d.payload \in Values
<1>1. \/ c = Observe \/ (\E a \in Approvals : c = CompareFacts(a))
      \/ \E a \in Approvals, v \in Values : c = Spend(a, v)
      \/ \E d \in Commands, a \in Approvals \cup {NoRow}, v \in Values : c = ReadBefore(d, a, v)
      \/ \E a \in Approvals \cup {NoRow}, v \in Values, w \in Values \cup {NoRow} : c = Start(a, v, w)
      \/ \E d \in Commands : c = Send(d) \/ c = Await(d)
      \/ \E k \in Keys : c = Attach(k)
  BY DEF HandlerCalls
<1> HIDE DEF Fields
<1>2. ASSUME NEW d \in Commands, c = Send(d) \/ c = Await(d)
      PROVE  Fields(c)
  BY <1>2, CallNames DEF Fields
<1>3. ASSUME NEW d \in Commands, NEW a \in Approvals \cup {NoRow}, NEW v \in Values,
             c = ReadBefore(d, a, v)
      PROVE  Fields(c)
  BY <1>3, CallNames DEF Fields
<1>4. ASSUME c.call \notin {"send", "await", "read"}
      PROVE  Fields(c)
  BY <1>4 DEF Fields
<1>5. ASSUME \/ c = Observe \/ (\E a \in Approvals : c = CompareFacts(a))
             \/ \E a \in Approvals, v \in Values : c = Spend(a, v)
             \/ \E a \in Approvals \cup {NoRow}, v \in Values, w \in Values \cup {NoRow} :
                  c = Start(a, v, w)
             \/ \E k \in Keys : c = Attach(k)
      PROVE  c.call \in {"observe", "compare", "spend", "start", "attach"}
  BY <1>5 DEF Observe, CompareFacts, Spend, Start, Attach
<1>6. Fields(c)
  BY <1>1, <1>2, <1>3, <1>4, <1>5
<1> QED
  BY <1>6 DEF Fields

\* The lists of calls a command begins with.
LEMMA ProgramTyped ==
  ASSUME NEW c \in Commands, NEW a \in Approvals \cup {NoRow}, NEW v \in Values
  PROVE  /\ \A w \in Values \cup {NoRow} : Carry(c, a, v, w) \in Seq(HandlerCalls)
         /\ Program(c, a, v) \in Seq(HandlerCalls) /\ Program(c, a, v) # <<>>
<1>1. \A b, d \in HandlerCalls : /\ <<b, d>> \in Seq(HandlerCalls) /\ <<b, d>> # <<>>
                                 /\ <<b>> \in Seq(HandlerCalls) /\ <<b>> # <<>>
  OBVIOUS
<1>2. \A w \in Values \cup {NoRow} :
        Carry(c, a, v, w) \in Seq(HandlerCalls) /\ Carry(c, a, v, w) # <<>>
  BY <1>1, FamilyCalls DEF Carry
<1>3. <<ReadBefore(c, a, v)>> \in Seq(HandlerCalls) /\ <<ReadBefore(c, a, v)>> # <<>>
  BY <1>1, FamilyCalls
<1> QED
  BY <1>2, <1>3 DEF Program

\* Requests begin with lists of calls.
LEMMA RequestTyped ==
  ASSUME FamilyHandlersTyped, NEW h \in Handlers, NEW k \in Keys, NEW of,
         NEW todo \in Seq(HandlerCalls), todo # <<>>, Request(h, k, of, todo)
  PROVE  FamilyHandlersTyped'
  BY BeginTyped DEF Request, FamilyHandlersTyped

LEMMA RequestStepTyped ==
  ASSUME IInv, FamilyHandlersTyped, NEW h \in Handlers, NEW k \in Keys, RequestStep(h, k)
  PROVE  FamilyHandlersTyped'
<1>1. ASSUME NEW v \in Values, NEW c \in Commands, Ask(h, k, v, c)
      PROVE  FamilyHandlersTyped'
  BY <1>1, ProgramTyped, RequestTyped DEF Ask
<1>2. ASSUME NEW original \in Keys, RecoverEngineState(h, k, original)
      PROVE  FamilyHandlersTyped'
  <2>1. operations[original].before \in Values
    BY <1>2 DEF IInv, RowsOK, Typed, RecoverEngineState, OperationRows, Exists
  <2>2. PICK v \in Values : v = operations[original].before
    BY <2>1
  <2>3. EngineCommand \in Commands /\ EngineCommand.reads
    BY DEF Commands, EngineCommand, Command
  <2>4. PICK todo : todo = Program(EngineCommand, NoRow, v) \o <<Attach(original)>>
    OBVIOUS
  <2>5. /\ ReadBefore(EngineCommand, NoRow, v) \in HandlerCalls
        /\ <<Attach(original)>> \in Seq(HandlerCalls)
    <3>1. Attach(original) \in HandlerCalls /\ ReadBefore(EngineCommand, NoRow, v) \in HandlerCalls
      BY <2>3, FamilyCalls
    <3>2. \A b \in HandlerCalls : <<b>> \in Seq(HandlerCalls)
      OBVIOUS
    <3> QED
      BY <3>1, <3>2
  <2>6. todo \in Seq(HandlerCalls) /\ todo # <<>>
    BY <2>3, <2>4, <2>5, Prepended DEF Program
  <2>7. Request(h, k, "engine", todo)
    BY <1>2, <2>2, <2>4 DEF RecoverEngineState
  <2> QED
    BY <2>6, <2>7, RequestTyped
<1>3. {IdentityCommand, CredentialCommand, AdapterCommand, EntitlementCommand, EngineCommand,
       AiCommand} \subseteq Commands
  BY DEF Commands
<1> QED
  BY <1>1, <1>2, <1>3 DEF RequestStep, IdentityRoutes, CredentialRoutes, AdapterRoutes,
     EntitlementRoute, EngineStateRoute, RecoverRoute, AiRoutes, RequestIdentity,
     RequestCredentialReplace, RequestAdapter, RequestEntitlement, RequestEngineState,
     ExecuteAiCommand

LEMMA ExecuteTyped ==
  ASSUME IInv, FamilyHandlersTyped, NEW h \in Handlers, NEW k \in Keys, NEW a \in Approvals,
         NEW c \in Commands, NEW v, approvals[a] # NoRow => v \in Values,
         NEW checks \in {<<>>, <<CompareFacts(a)>>}, Execute(h, k, a, c, v, checks)
  PROVE  FamilyHandlersTyped'
<1>1. v \in Values
  BY DEF Execute
<1>2. PICK program \in Seq(HandlerCalls) : program = Program(c, a, v)
  BY <1>1, ProgramTyped
<1>3. Spend(a, v) \in HandlerCalls /\ CompareFacts(a) \in HandlerCalls
  BY <1>1, FamilyCalls
<1>4. PICK s : s = Spend(a, v)
  OBVIOUS
<1>5. PICK b : b = CompareFacts(a)
  OBVIOUS
<1>6. /\ <<s>> \in Seq(HandlerCalls) /\ <<b>> \in Seq(HandlerCalls)
      /\ <<>> \in Seq(HandlerCalls) /\ program \in Seq(HandlerCalls)
  BY <1>3, <1>4, <1>5
<1>7. PICK todo : todo = checks \o <<s>> \o program
  OBVIOUS
<1>8. todo \in Seq(HandlerCalls) /\ todo # <<>>
  <2>1. <<s>> \o program \in Seq(HandlerCalls) /\ <<s>> \o program # <<>>
    BY <1>3, <1>4, Prepended
  <2>2. CASE checks = <<>>
    <3>1. checks \o <<s>> = <<s>>
      BY <1>6, <2>2, ConcatEmptySeq
    <3> QED
      BY <1>7, <2>1, <3>1
  <2>3. CASE checks = <<b>>
    <3>1. todo = <<b>> \o (<<s>> \o program)
      BY <1>6, <1>7, <2>3, ConcatAssociative
    <3> QED
      BY <1>3, <1>5, <2>1, <3>1, Prepended
  <2> QED
    BY <1>5, <2>2, <2>3
<1>9. Request(h, k, c.family, todo)
  BY <1>2, <1>4, <1>7 DEF Execute
<1> QED
  BY <1>8, <1>9, RequestTyped

LEMMA ExecuteRouteTyped ==
  ASSUME IInv, FamilyHandlersTyped, NEW h \in Handlers, NEW k \in Keys, NEW a \in Approvals,
         ExecuteRoute(h, k, a)
  PROVE  FamilyHandlersTyped'
<1>1. approvals[a] # NoRow => approvals[a].payload \in Values
  BY DEF IInv, RowsOK, Typed, ApprovalRows
<1>2. {IdentityExecution, CredentialExecution, AdapterCommand, EngineCommand, AiCommand}
        \subseteq Commands
  BY DEF Commands
<1>3. CASE ExecuteIdentityApproval(h, k, a)
  BY <1>1, <1>2, <1>3, ExecuteTyped DEF ExecuteIdentityApproval
<1>4. CASE ExecuteCredentialApproval(h, k, a)
  BY <1>2, <1>4, ExecuteTyped DEF ExecuteCredentialApproval
<1>5. CASE ExecuteAdapterApproval(h, k, a)
  BY <1>1, <1>2, <1>5, ExecuteTyped DEF ExecuteAdapterApproval
<1>6. CASE ExecuteEngineApproval(h, k, a)
  BY <1>1, <1>2, <1>6, ExecuteTyped DEF ExecuteEngineApproval
<1>7. CASE ExecuteAiApproval(h, k, a)
  BY <1>1, <1>2, <1>7, ExecuteTyped DEF ExecuteAiApproval
<1> QED
  BY <1>3, <1>4, <1>5, <1>6, <1>7 DEF ExecuteRoute

\* The steps of a request lead to lists of calls.
LEMMA HandlerStepTyped ==
  ASSUME IInv, FamilyHandlersTyped, NEW h \in Handlers, HandlerStep(h)
  PROVE  FamilyHandlersTyped'
<1>1. Busy(h)
  BY DEF HandlerStep, FactsCompared, ApprovalSpent, BeforeRead, OperationStarted, CallSent,
     NeverDispatched, CallLost, CallTimesOut, AnswerTaken, EffectObserved, EffectUnobserved,
     RollbackAttached, Abandon, Calls
<1>2. PICK c \in HandlerCalls, rest \in Seq(HandlerCalls) : c = Argument(h) /\ rest = Rest(h)
  BY <1>1, CallTyped DEF FamilyHandlersTyped
<1>3. Stop(h) => FamilyHandlersTyped'
  BY StopTyped DEF FamilyHandlersTyped
<1>4. \A todo \in Seq(HandlerCalls) : Continue(h, todo) => FamilyHandlersTyped'
  BY <1>1, ContinueTyped DEF FamilyHandlersTyped
<1>5. <<>> \in Seq(HandlerCalls)
  OBVIOUS
<1>6. \A cond \in BOOLEAN : Continue(h, IF cond THEN rest ELSE <<>>) => FamilyHandlersTyped'
  BY <1>4, <1>5
<1>7. ASSUME NEW to, NEW stage, NEW verified, Settle(h, to, stage, verified)
      PROVE  FamilyHandlersTyped'
  BY <1>2, <1>6, <1>7 DEF Settle
<1>8. CASE FactsCompared(h) \/ ApprovalSpent(h)
  BY <1>2, <1>6, <1>8 DEF FactsCompared, ApprovalSpent
<1>9. CASE BeforeRead(h)
  <2>1. c.command \in Commands /\ c.approval \in Approvals \cup {NoRow} /\ c.payload \in Values
    BY <1>2, <1>9, FamilyCallFields DEF BeforeRead, Calls, Argument
  <2>2. state \in Values
    BY DEF IInv, RowsOK, Typed
  <2>3. PICK S, D : S = Start(c.approval, c.payload, state) /\ D = Send(c.command)
    OBVIOUS
  <2>4. S \in HandlerCalls /\ D \in HandlerCalls
    BY <2>1, <2>2, <2>3, FamilyCalls
  <2>5. <<S, D>> \o rest \in Seq(HandlerCalls)
    <3>1. <<S, D>> \in Seq(HandlerCalls)
      BY <2>4
    <3> QED
      BY <3>1, ConcatProperties
  <2>6. \E todo \in {<<>>, <<S, D>> \o rest} : Continue(h, todo)
    BY <1>2, <1>9, <2>3 DEF BeforeRead, Carry
  <2> QED
    BY <1>4, <1>5, <2>5, <2>6
<1>10. CASE OperationStarted(h)
  BY <1>2, <1>3, <1>4, <1>10 DEF OperationStarted
<1>11. CASE CallSent(h)
  <2>1. c.command \in Commands
    BY <1>2, <1>11, FamilyCallFields DEF CallSent, Calls, Argument
  <2>2. PICK A : A = Await(c.command)
    OBVIOUS
  <2>3. A \in HandlerCalls
    BY <2>1, <2>2, FamilyCalls
  <2>4. Continue(h, <<A>> \o rest)
    BY <1>2, <1>11, <2>2 DEF CallSent
  <2> QED
    BY <1>4, <2>3, <2>4, Prepended
<1>12. CASE NeverDispatched(h) \/ CallLost(h) \/ CallTimesOut(h)
  BY <1>7, <1>12 DEF NeverDispatched, CallLost, CallTimesOut
<1>13. CASE AnswerTaken(h)
  <2>1. (\E to, stage, verified : Settle(h, to, stage, verified)) \/ Continue(h, <<Observe>> \o rest)
    BY <1>2, <1>13 DEF AnswerTaken
  <2>2. PICK A : A = Observe
    OBVIOUS
  <2>3. <<A>> \o rest \in Seq(HandlerCalls)
    BY <2>2, FamilyCalls, Prepended
  <2> QED
    BY <1>4, <1>7, <2>1, <2>2, <2>3
<1>14. CASE EffectObserved(h) \/ EffectUnobserved(h)
  BY <1>7, <1>14 DEF EffectObserved, EffectUnobserved
<1>15. CASE RollbackAttached(h)
  BY <1>2, <1>4, <1>15 DEF RollbackAttached
<1>16. CASE Abandon(h)
  BY <1>3, <1>16 DEF Abandon
<1> QED
  BY <1>8, <1>9, <1>10, <1>11, <1>12, <1>13, <1>14, <1>15, <1>16 DEF HandlerStep

\* What is remembered is of these keys and approvals.
LEMMA RememberTyped ==
  ASSUME HistoryTyped, Remember
  PROVE  seen' \subseteq Keys /\ held' \subseteq Approvals \X {"approved", "executed"}
<1>1. CASE family \in ObservedFamilies
  BY <1>1 DEF Remember, HistoryTyped
<1>2. CASE family \notin ObservedFamilies
  BY <1>2 DEF Remember, HistoryTyped, history
<1> QED
  BY <1>1, <1>2

LEMMA HistoryStep ==
  ASSUME HistoryTyped, [Next]_vars
  PROVE  HistoryTyped'
<1>1. (changes' = changes \/ (changes < MaxChanges /\ changes' = changes + 1))
        /\ (Remember \/ UNCHANGED history)
  <2>1. ASSUME NEW h \in Handlers, HandlerStep(h)
        PROVE  UNCHANGED changes /\ (Remember \/ UNCHANGED history)
    BY <2>1 DEF HandlerStep, FactsCompared, ApprovalSpent, BeforeRead, OperationStarted, CallSent,
       NeverDispatched, CallLost, CallTimesOut, AnswerTaken, EffectObserved, EffectUnobserved,
       RollbackAttached, Abandon, owner
  <2>2. ASSUME NEW h \in Handlers, NEW k \in Keys, RequestStep(h, k)
        PROVE  UNCHANGED changes /\ UNCHANGED history
    BY <2>2 DEF RequestStep, IdentityRoutes, CredentialRoutes, AdapterRoutes, EntitlementRoute,
       EngineStateRoute, RecoverRoute, AiRoutes, RequestIdentity, RequestCredentialReplace,
       RequestAdapter, RequestEntitlement, RequestEngineState, ExecuteAiCommand,
       RecoverEngineState, Ask, Request, owner
  <2>3. ASSUME NEW h \in Handlers, NEW k \in Keys, NEW a \in Approvals, ExecuteRoute(h, k, a)
        PROVE  UNCHANGED changes /\ UNCHANGED history
    BY <2>3 DEF ExecuteRoute, ExecuteIdentityApproval, ExecuteCredentialApproval,
       ExecuteAdapterApproval, ExecuteEngineApproval, ExecuteAiApproval, Execute, Request, owner
  <2>4. ASSUME NEW a \in Approvals, ApprovalStep(a)
        PROVE  UNCHANGED changes /\ (Remember \/ UNCHANGED history)
    BY <2>4 DEF ApprovalStep, IdentityApprovalRoutes, CredentialApprovalRoutes,
       AdapterApprovalRoutes, EngineDisableRoute, AiApprovalRoutes, RequestIdentityApproval,
       RequestCredentialApproval, RequestAdapterApproval, RequestEngineApproval,
       RequestAiApproval, RequestApproval, Decide, owner
  <2>5. ASSUME NEW k \in Keys, SweepStranded(k) \/ SweepAmbiguous(k) \/ OwnerAnswers(k)
        PROVE  UNCHANGED changes /\ (Remember \/ UNCHANGED history)
    BY <2>5 DEF SweepStranded, SweepAmbiguous, Sweep, OwnerAnswers, owner
  <2>6. CASE OwnerChanges
    BY <2>6 DEF OwnerChanges
  <2>7. CASE UNCHANGED vars
    BY <2>7 DEF vars, owner
  <2> QED
    BY <2>1, <2>2, <2>3, <2>4, <2>5, <2>6, <2>7 DEF Next
<1>2. changes' \in 0..MaxChanges
  BY <1>1, FamiliesAssumption DEF HistoryTyped
<1> QED
  BY <1>1, <1>2, RememberTyped DEF HistoryTyped, history

FamilyTypes == IInv /\ FamilyHandlersTyped /\ HistoryTyped

LEMMA FamilyTypesKept == FamilyTypes /\ [Next]_vars => FamilyTypes'
<1> SUFFICES ASSUME FamilyTypes, [Next]_vars
             PROVE  FamilyHandlersTyped'
  BY NextIInv, HistoryStep DEF FamilyTypes
<1>1. ASSUME NEW h \in Handlers, HandlerStep(h)
      PROVE  FamilyHandlersTyped'
  BY <1>1, HandlerStepTyped DEF FamilyTypes
<1>2. ASSUME NEW h \in Handlers, NEW k \in Keys, RequestStep(h, k)
      PROVE  FamilyHandlersTyped'
  BY <1>2, RequestStepTyped DEF FamilyTypes
<1>3. ASSUME NEW h \in Handlers, NEW k \in Keys, NEW a \in Approvals, ExecuteRoute(h, k, a)
      PROVE  FamilyHandlersTyped'
  BY <1>3, ExecuteRouteTyped DEF FamilyTypes
<1>4. CASE UNCHANGED proc
  BY <1>4, SameTyped DEF FamilyTypes, FamilyHandlersTyped
<1>5. ASSUME NEW a \in Approvals, ApprovalStep(a)
      PROVE  UNCHANGED proc
  BY <1>5 DEF ApprovalStep, IdentityApprovalRoutes, CredentialApprovalRoutes,
     AdapterApprovalRoutes, EngineDisableRoute, AiApprovalRoutes, RequestIdentityApproval,
     RequestCredentialApproval, RequestAdapterApproval, RequestEngineApproval,
     RequestAiApproval, RequestApproval, Decide
<1>6. ASSUME NEW k \in Keys, SweepStranded(k) \/ SweepAmbiguous(k) \/ OwnerAnswers(k)
      PROVE  UNCHANGED proc
  BY <1>6 DEF SweepStranded, SweepAmbiguous, Sweep, OwnerAnswers
<1>7. OwnerChanges \/ UNCHANGED vars => UNCHANGED proc
  BY DEF OwnerChanges, vars
<1> QED
  BY <1>1, <1>2, <1>3, <1>4, <1>5, <1>6, <1>7 DEF Next

\* The ledger, the approvals, the owner and the requests keep their types, for
\* any numbers of keys, approvals, values and requests.
THEOREM FamilyTypesHold == Spec => []TypeOK
<1>1. Init => FamilyTypes
  <2> SUFFICES ASSUME Init
               PROVE  FamilyHandlersTyped /\ HistoryTyped
    BY InitIInv DEF FamilyTypes
  <2>1. FamilyHandlersTyped
    BY IdleTyped DEF Init, FamilyHandlersTyped
  <2> QED
    BY <2>1, FamiliesAssumption DEF Init, HistoryTyped
<1>2. FamilyTypes => TypeOK
  <2> SUFFICES ASSUME FamilyTypes
               PROVE  TypeOK
    OBVIOUS
  <2>1. HandlersOK(Keys, HandlerCalls)
    BY HandlersTypedOK DEF FamilyTypes, FamilyHandlersTyped
  <2> QED
    BY <2>1 DEF FamilyTypes, HistoryTyped, IInv, RowsOK, Typed, TypeOK
<1> QED
  BY <1>1, <1>2, FamilyTypesKept, PTL DEF Spec

(***************************************************************************)
(* The ledger's lifecycle.  The outcomes above are written without looking *)
(* at the status they replace; that transitionOperation would not have     *)
(* refused one of them is what is shown here.                              *)
(***************************************************************************)
\* An operation that is there stays, in its status or one an edge leads to.
OnLifecycle(k) ==
  Exists(k) =>
    /\ Exists(k)'
    /\ \/ operations'[k].status = operations[k].status
       \/ IsValidTransition(operations[k].status, operations'[k].status)

LEMMA OneRowOnLifecycle ==
  ASSUME IInv, NEW j \in Keys, Exists(j), NEW row \in OperationRows,
         operations' = [operations EXCEPT ![j] = row],
         row.status = operations[j].status \/ IsValidTransition(operations[j].status, row.status),
         NEW k \in Keys
  PROVE  OnLifecycle(k)
<1>1. /\ operations'[j] = row /\ row # NoRow
      /\ \A i \in Keys \ {j} : operations'[i] = operations[i]
  BY FamiliesAssumption DEF IInv, RowsOK, Typed
<1>2. CASE k = j
  BY <1>1, <1>2 DEF OnLifecycle, Exists
<1>3. CASE k # j
  BY <1>1, <1>3 DEF OnLifecycle, Exists
<1> QED
  BY <1>2, <1>3

LEMMA OutcomeOnLifecycle ==
  ASSUME IInv, NEW j \in Keys, Exists(j),
         NEW to \in OperationStatuses, NEW stage \in Stages, NEW verified \in BOOLEAN,
         operations' = [operations EXCEPT ![j] = Recorded(@, to, stage, verified)],
         IsValidTransition(operations[j].status, to),
         NEW k \in Keys
  PROVE  OnLifecycle(k)
<1>1. operations[j] \in OperationRows
  BY DEF Exists, IInv, RowsOK, Typed
<1>2. PICK row : row = Recorded(operations[j], to, stage, verified)
  OBVIOUS
<1>3. row \in OperationRows /\ row.status = to
  BY <1>1, <1>2 DEF Recorded, OperationRows
<1> QED
  BY <1>2, <1>3, OneRowOnLifecycle

\* A request that records an outcome has a running operation; one that attaches
\* itself leaves every status as it is.
LEMMA HandlerOnLifecycle ==
  ASSUME IInv, NEW h \in Handlers, HandlerStep(h), NEW k \in Keys
  PROVE  OnLifecycle(k)
<1>1. UNCHANGED operations => OnLifecycle(k)
  BY DEF OnLifecycle, Exists
<1>2. FactsCompared(h) \/ ApprovalSpent(h) \/ BeforeRead(h) \/ CallSent(h) \/ Abandon(h)
        => UNCHANGED operations
  BY DEF FactsCompared, ApprovalSpent, BeforeRead, CallSent, Abandon, stored
<1>3. CASE OperationStarted(h)
  <2>1. CASE ~Exists(About(h)) /\ \E row : operations' = [operations EXCEPT ![About(h)] = row]
    <3>1. Exists(k) => operations'[k] = operations[k]
      BY <2>1 DEF Exists, IInv, RowsOK, Typed
    <3> QED
      BY <3>1 DEF OnLifecycle, Exists
  <2> QED
    BY <1>1, <1>3, <2>1 DEF OperationStarted
<1>4. ASSUME NEW to \in {"completed", "failed", "partially_completed"}, NEW stage \in Stages,
             NEW verified \in BOOLEAN, Busy(h),
             Head(proc[h].todo).call \in {"send", "await", "observe"}, Settle(h, to, stage, verified)
      PROVE  OnLifecycle(k)
  <2>1. About(h) \in Keys /\ Exists(About(h)) /\ operations[About(h)].status = "running"
    BY <1>4, AtWorkOn, WorkingAt
  <2>2. IsValidTransition("running", to) /\ to \in OperationStatuses
    BY DEF IsValidTransition, AllowedTransitions, OperationStatuses
  <2> QED
    BY <1>4, <2>1, <2>2, OutcomeOnLifecycle DEF Settle
<1>5. {"none", "never-dispatched", "mutation-call", "mutation-response", "owner-reported-partial",
       "owner-response-unsafe", "effective-mismatch", "effective-observation"} \subseteq Stages
  BY DEF Stages
<1>6. CASE NeverDispatched(h) \/ CallLost(h) \/ CallTimesOut(h)
  BY <1>4, <1>5, <1>6 DEF NeverDispatched, CallLost, CallTimesOut, Calls
<1>7. CASE AnswerTaken(h)
  <2>1. Busy(h) /\ Head(proc[h].todo).call = "await"
    BY <1>7 DEF AnswerTaken, Calls
  <2>2. PICK c, stage : c = Argument(h).command /\ stage = StageOf(c, sent[About(h)])
    OBVIOUS
  <2>3. c \in Commands
    <3>1. \E d \in Commands : Argument(h) = Await(d)
      BY <2>1, AtWorkOn, WorkingAt DEF Argument
    <3> QED
      BY <2>2, <3>1, CallNames
  <2>4. stage \in Stages
    BY <1>5, <2>2, <2>3, CommandFacts DEF StageOf
  <2> QED
    BY <1>1, <1>4, <1>5, <1>7, <2>1, <2>2, <2>4 DEF AnswerTaken
<1>8. CASE EffectObserved(h) \/ EffectUnobserved(h)
  BY <1>4, <1>5, <1>8 DEF EffectObserved, EffectUnobserved, Calls
<1>9. CASE RollbackAttached(h)
  <2>1. PICK x, l : x = About(h) /\ l = Argument(h).original
    OBVIOUS
  <2>2. /\ Busy(h) /\ x \in Keys /\ Head(proc[h].todo).call = "attach"
        /\ operations' = [operations EXCEPT ![l].undoneBy = x]
    BY <1>9, <2>1, AtCall DEF RollbackAttached, Calls
  <2>3. Working(x, proc[h].todo)
    BY <2>1, <2>2, AtCall, Heads DEF Works
  <2>4. PICK j \in Keys : proc[h].todo = <<Attach(j)>> /\ Exists(j)
    BY <2>2, <2>3, WorkingAt DEF Ends
  <2>5. l = j
    BY <2>1, <2>4, OneCall, CallNames DEF Argument
  <2>6. PICK row : row = [operations[j] EXCEPT !.undoneBy = x]
    OBVIOUS
  <2>7. row \in OperationRows /\ row.status = operations[j].status
    BY <2>2, <2>4, <2>6 DEF IInv, RowsOK, Typed, Exists, OperationRows
  <2> QED
    BY <2>2, <2>4, <2>5, <2>6, <2>7, OneRowOnLifecycle
<1> QED
  BY <1>1, <1>2, <1>3, <1>6, <1>7, <1>8, <1>9 DEF HandlerStep

LEMMA SweepOnLifecycle ==
  ASSUME IInv, NEW j \in Keys, SweepStranded(j) \/ SweepAmbiguous(j), NEW k \in Keys
  PROVE  OnLifecycle(k)
<1>1. ASSUME NEW to \in OperationStatuses, NEW stage \in Stages, Exists(j),
             IsValidTransition(operations[j].status, to), Sweep(j, to, stage)
      PROVE  OnLifecycle(k)
  BY <1>1, OutcomeOnLifecycle DEF Sweep
<1>2. /\ {"none", "resolved-not-dispatched", "owner-partial", "stranded-before-dispatch"} \subseteq Stages
      /\ {"completed", "failed", "partially_completed"} \subseteq OperationStatuses
  BY DEF Stages, OperationStatuses
<1>3. /\ \A from \in {"submitted", "accepted"} : IsValidTransition(from, "failed")
      /\ \A from \in {"running", "partially_completed"} :
           IsValidTransition(from, "completed") /\ IsValidTransition(from, "failed")
      /\ IsValidTransition("running", "partially_completed")
  BY DEF IsValidTransition, AllowedTransitions
<1>4. CASE SweepStranded(j)
  BY <1>1, <1>2, <1>3, <1>4 DEF SweepStranded
<1>5. CASE SweepAmbiguous(j)
  BY <1>1, <1>2, <1>3, <1>5 DEF SweepAmbiguous
<1> QED
  BY <1>4, <1>5

\* Whoever records an outcome, the request or a sweep, there is an edge from
\* the status it replaces: transitionOperation refuses none of them, and what
\* is completed or failed stays so (lifecycle.ts).
THEOREM OutcomesFollowLifecycle == Spec => [][\A k \in Keys : OnLifecycle(k)]_vars
<1>1. IInv /\ [Next]_vars => [\A k \in Keys : OnLifecycle(k)]_vars
  <2> SUFFICES ASSUME IInv, Next, NEW k \in Keys
               PROVE  OnLifecycle(k)
    OBVIOUS
  <2>1. UNCHANGED operations => OnLifecycle(k)
    BY DEF OnLifecycle, Exists
  <2>2. ASSUME NEW h \in Handlers, HandlerStep(h)
        PROVE  OnLifecycle(k)
    BY <2>2, HandlerOnLifecycle
  <2>3. ASSUME NEW h \in Handlers, NEW j \in Keys, RequestStep(h, j)
        PROVE  UNCHANGED operations
    BY <2>3 DEF RequestStep, IdentityRoutes, CredentialRoutes, AdapterRoutes, EntitlementRoute,
       EngineStateRoute, RecoverRoute, AiRoutes, RequestIdentity, RequestCredentialReplace,
       RequestAdapter, RequestEntitlement, RequestEngineState, ExecuteAiCommand,
       RecoverEngineState, Ask, Request, stored
  <2>4. ASSUME NEW h \in Handlers, NEW j \in Keys, NEW a \in Approvals, ExecuteRoute(h, j, a)
        PROVE  UNCHANGED operations
    BY <2>4 DEF ExecuteRoute, ExecuteIdentityApproval, ExecuteCredentialApproval,
       ExecuteAdapterApproval, ExecuteEngineApproval, ExecuteAiApproval, Execute, Request, stored
  <2>5. ASSUME NEW a \in Approvals, ApprovalStep(a)
        PROVE  UNCHANGED operations
    BY <2>5 DEF ApprovalStep, IdentityApprovalRoutes, CredentialApprovalRoutes,
       AdapterApprovalRoutes, EngineDisableRoute, AiApprovalRoutes, RequestIdentityApproval,
       RequestCredentialApproval, RequestAdapterApproval, RequestEngineApproval,
       RequestAiApproval, RequestApproval, Decide
  <2>6. ASSUME NEW j \in Keys, SweepStranded(j) \/ SweepAmbiguous(j)
        PROVE  OnLifecycle(k)
    BY <2>6, SweepOnLifecycle
  <2>7. \A j \in Keys : OwnerAnswers(j) => UNCHANGED operations
    BY DEF OwnerAnswers, stored
  <2>8. OwnerChanges => UNCHANGED operations
    BY DEF OwnerChanges, stored
  <2> QED
    BY <2>1, <2>2, <2>3, <2>4, <2>5, <2>6, <2>7, <2>8 DEF Next
<1> QED
  BY Invariance, <1>1, PTL DEF Spec

(***************************************************************************)
(* The tenant projection: one row is bound, what is final is so at the     *)
(* owner, and a disagreement is listed.                                    *)
(*                                                                         *)
(* The invariant follows a row from both ends.  A list of calls either     *)
(* moves the tenant's own row towards what the owner has been seen to be   *)
(* (Moving), settles an attempt of a commission in the ledger and in the   *)
(* commission's row, in either order (Binds, Fails, Records, Syncs), or    *)
(* makes one other call with what it has learnt, which is still true       *)
(* (Sound); a row is failed only after an attempt was; and a row in a      *)
(* state it may not stay in has a request about to take it out of that     *)
(* state (Finished), unless one was interrupted.  Nothing a request relies *)
(* on is ever undone (Lasts), so the others are where they were; and no    *)
(* transition that finishes is refused, by its edge or by the index.       *)
(***************************************************************************)
OfCommission == "governance_commissioned"

\* The states a decommission passes through, and those a row may stay in.
Passing == {"decommission_requested", "decommissioning"}

Staying == AccessStates \cup {"provisioning"}

Requested(p) == Check(p, "decommission_requested", FALSE, "unknown")

UnderWay(p) == Check(p, "decommissioning", FALSE, "unknown")

Final(p) == Check(p, "decommissioned", FALSE, "decommissioned")

\* A transition at either of its two calls.
Is(c, change) == c \in {change, Write(change)}

\* The owner has decommissioned what is called decommissioned.
TrueOf(t, access) == access = "decommissioned" => platform[t] = "decommissioned"

\* The calls that take a row out of a state it may not stay in.
Finishes(p, from, todo) ==
  /\ todo # <<>>
  /\ \/ from = "decommission_requested" /\ Is(Head(todo), UnderWay(p))
     \/ from = "decommissioning" /\ Is(Head(todo), Final(p))

\* A request that follows the owner with transitions of the tenant's row ...
Moving(t, p, todo) ==
  /\ IsBound(t, p) /\ todo # <<>>
  /\ \/ /\ Is(Head(todo), Requested(p)) /\ Tail(todo) = <<UnderWay(p), Final(p)>>
        /\ platform[t] = "decommissioned"
     \/ /\ Is(Head(todo), UnderWay(p)) /\ Tail(todo) = <<Final(p)>>
        /\ platform[t] = "decommissioned"
     \/ \E to \in AccessStates :
          Is(Head(todo), Check(p, to, FALSE, to)) /\ Tail(todo) = <<>> /\ TrueOf(t, to)

\* What an attempt's outcome is recorded by, and the attempt that failed.
Recordings ==
  {Record(a, to) : a \in Attempts, to \in AttemptStatuses}
    \cup {Resolve(a, to) : a \in Attempts, to \in AttemptStatuses}

SomeFailed(t) == \E a \in Attempts : commission[t][a] = "failed"

\* Nothing, or to record the outcome of an attempt.
AtMostRecords(todo) == todo = <<>> \/ \E c \in Recordings : todo = <<c>>

\* ... one that binds the row of a commission, or fails it ...
Binds(t, todo) ==
  /\ rows[t][OfCommission] # NoProjection /\ platform[t] # "none"
  /\ todo # <<>> /\ AtMostRecords(Tail(todo))
  /\ \/ \E observed \in {"active", "unknown"} :
          Is(Head(todo), Check(OfCommission, "active", TRUE, observed))
     \/ Is(Head(todo), Check(OfCommission, "provisioning", TRUE, "unknown"))

Fails(t, todo) ==
  /\ rows[t][OfCommission] # NoProjection /\ SomeFailed(t)
  /\ todo # <<>> /\ Tail(todo) = <<>> /\ Is(Head(todo), Fail)

\* The outcomes of an attempt that has made a tenant.
Creating == {"completed", "partially_completed"}

\* ... one that makes the row agree with an outcome ...
Syncs(t, todo) ==
  /\ rows[t][OfCommission] # NoProjection
  /\ todo # <<>> /\ AtMostRecords(Tail(todo))
  /\ \E outcome \in Receipts :
       /\ Head(todo) = Sync(outcome)
       /\ outcome \in Creating => platform[t] # "none"
       /\ outcome \notin Creating => SomeFailed(t) /\ Tail(todo) = <<>>

\* ... or records the outcome first ...
Records(t, todo) ==
  /\ rows[t][OfCommission] # NoProjection
  /\ todo # <<>> /\ Head(todo) \in Recordings
  /\ \/ Tail(todo) = <<>>
     \/ Tail(todo) = <<Fail>> /\ Head(todo).to = "failed"
     \/ \E outcome \in Receipts :
          /\ Tail(todo) = <<Sync(outcome)>>
          /\ outcome \in Creating => platform[t] # "none"
          /\ outcome \notin Creating => Head(todo).to = "failed"

\* ... and one with a single other call to make.
Sound(t, c) ==
  \/ \E to \in AccessStates : c = AwaitTransition(to) \/ (c = Find(to) /\ TrueOf(t, to))
  \/ \E observed \in AccessStates :
       /\ c = FindFor(observed) \/ c = InsertLegacy(observed)
       /\ TrueOf(t, observed) /\ platform[t] # "none"
  \/ \E p \in Provenances, observed \in AccessStates :
       c = Refresh(p, observed) /\ IsBound(t, p) /\ TrueOf(t, observed)
  \/ \E a \in Attempts :
       /\ c = AwaitCommission(a) \/ \E listed \in AttemptStatuses : c = ReadReceipt(a, listed)
       /\ rows[t][OfCommission] # NoProjection

Asking(t, todo) == todo # <<>> /\ Tail(todo) = <<>> /\ Sound(t, Head(todo))

Following(t, todo) ==
  \/ Asking(t, todo) \/ Binds(t, todo) \/ Fails(t, todo) \/ Syncs(t, todo) \/ Records(t, todo)
  \/ \E p \in Provenances : Moving(t, p, todo)

FollowersOK ==
  /\ DOMAIN proc = Handlers
  /\ \A h \in Handlers : Busy(h) => About(h) \in Tenants /\ Following(About(h), proc[h].todo)

ProjectionTyped ==
  /\ rows \in [Tenants -> [Provenances -> Rows \cup {NoProjection}]]
  /\ platform \in [Tenants -> AccessStates \cup {"none"}]
  /\ receipt \in [Tenants -> [Attempts -> Receipts]]
  /\ commission \in [Tenants -> [Attempts -> AttemptStatuses]]

\* A commission has its row, and a receipt of its tenant's creation the tenant.
CommissionsOK ==
  \A t \in Tenants :
    /\ \A a \in Attempts : receipt[t][a] \in Creating => platform[t] # "none"
    /\ (\E a \in Attempts : commission[t][a] # "none") <=> rows[t][OfCommission] # NoProjection

TenantRowsOK ==
  \A t \in Tenants, p \in Provenances : rows[t][p] # NoProjection =>
    /\ rows[t][p].state \in Staying \cup Passing \cup {"failed"}
    /\ rows[t][p].state = "failed" => SomeFailed(t)
    /\ TrueOf(t, rows[t][p].observed)
    /\ rows[t][p].bound => platform[t] # "none"

OneIsBound ==
  \A t \in Tenants, p, q \in Provenances : IsBound(t, p) /\ IsBound(t, q) => p = q

\* A row in a state it may not stay in is taken out of it by a request at work.
Finished ==
  \A t \in Tenants \ interrupted, p \in Provenances :
    rows[t][p] # NoProjection /\ rows[t][p].state \in Passing =>
      \E h \in Handlers : Busy(h) /\ About(h) = t /\ Finishes(p, rows[t][p].state, proc[h].todo)

ProjectionIInv ==
  /\ ProjectionTyped
  /\ CommissionsOK
  /\ TenantRowsOK
  /\ OneIsBound
  /\ Finished
  /\ FollowersOK

\* What no step undoes.
Lasts ==
  \A t \in Tenants :
    /\ \A p \in Provenances : rows[t][p] # NoProjection =>
         /\ rows'[t][p] # NoProjection
         /\ rows[t][p].bound => rows'[t][p].bound
    /\ platform[t] # "none" => platform'[t] # "none"
    /\ platform[t] = "decommissioned" => platform'[t] = "decommissioned"
    /\ SomeFailed(t) => SomeFailed(t)'

LEMMA ProjectionInitIInv == ProjectionInit => ProjectionIInv
<1> SUFFICES ASSUME ProjectionInit
             PROVE  ProjectionIInv
  OBVIOUS
<1>1. ProjectionTyped
  BY DEF ProjectionInit, ProjectionTyped, Receipts, AccessStates, AttemptStatuses
<1>2. \A t \in Tenants, p \in Provenances : rows[t][p] = NoProjection
  BY DEF ProjectionInit
<1>3. CommissionsOK /\ TenantRowsOK /\ OneIsBound /\ Finished
  BY <1>2 DEF ProjectionInit, CommissionsOK, TenantRowsOK, OneIsBound, Finished, IsBound,
     OfCommission, Provenances, Creating
<1>4. FollowersOK
  BY DEF ProjectionInit, FollowersOK, Busy
<1> QED
  BY <1>1, <1>3, <1>4 DEF ProjectionIInv

\* What the calls of a transition have.
Has(c, p, to, binds, observed) ==
  /\ c.call \in {"check", "write"}
  /\ c.provenance = p /\ c.to = to /\ c.binds = binds /\ c.observed = observed

LEMMA Transition ==
  ASSUME NEW p, NEW to, NEW binds, NEW observed, NEW c, Is(c, Check(p, to, binds, observed))
  PROVE  Has(c, p, to, binds, observed)
  BY DEF Is, Check, Write, Has

LEMMA CheckedTransition ==
  ASSUME NEW p, NEW to, NEW binds, NEW observed, NEW c, Is(c, Check(p, to, binds, observed)),
         c.call = "check"
  PROVE  Is(Write(c), Check(p, to, binds, observed))
<1>1. c = Check(p, to, binds, observed)
  BY DEF Is, Check, Write
<1> QED
  BY <1>1 DEF Is

\* The other calls are told apart by their names.
LEMMA OtherCalls ==
  /\ \A to : AwaitTransition(to).call = "await" /\ AwaitTransition(to).to = to
  /\ \A a : AwaitCommission(a).call = "awaitCommission" /\ AwaitCommission(a).attempt = a
  /\ \A to : Find(to).call = "find" /\ Find(to).to = to
  /\ \A o : FindFor(o).call = "findFor" /\ FindFor(o).observed = o
  /\ \A o : InsertLegacy(o).call = "insertLegacy" /\ InsertLegacy(o).observed = o
  /\ \A p, o : /\ Refresh(p, o).call = "refresh" /\ Refresh(p, o).provenance = p
               /\ Refresh(p, o).observed = o
  /\ \A a, l : /\ ReadReceipt(a, l).call = "receipt" /\ ReadReceipt(a, l).attempt = a
               /\ ReadReceipt(a, l).listed = l
  /\ \A a, to : /\ Record(a, to).call = "record" /\ Record(a, to).attempt = a
                /\ Record(a, to).to = to
                /\ Resolve(a, to).call = "record" /\ Resolve(a, to).attempt = a
                /\ Resolve(a, to).to = to
  /\ \A x : Sync(x).call = "sync" /\ Sync(x).outcome = x
  BY DEF AwaitTransition, AwaitCommission, Find, FindFor, InsertLegacy, Refresh, ReadReceipt, Sync,
     Record, Resolve

LEMMA RecordingCalls ==
  \A c \in Recordings : c.call = "record" /\ c.attempt \in Attempts /\ c.to \in AttemptStatuses
  BY OtherCalls DEF Recordings

\* A request goes on in a later state as it would have in an earlier one.
LEMMA FollowingLasts ==
  ASSUME NEW t \in Tenants, NEW todo, Following(t, todo), Lasts
  PROVE  Following(t, todo)'
<1>1. \A p \in Provenances : IsBound(t, p) => IsBound(t, p)'
  BY DEF IsBound, Lasts
<1>2. \A access : TrueOf(t, access) => TrueOf(t, access)'
  BY DEF TrueOf, Lasts
<1>3. OfCommission \in Provenances
  BY DEF OfCommission, Provenances
<1>4. CASE Asking(t, todo)
  <2>1. PICK c : c = Head(todo)
    OBVIOUS
  <2>2. Sound(t, c)'
    BY <1>1, <1>2, <1>3, <1>4, <2>1 DEF Asking, Sound, Lasts
  <2> QED
    BY <1>4, <2>1, <2>2 DEF Asking, Following
<1>5. CASE Binds(t, todo) \/ Fails(t, todo) \/ Syncs(t, todo) \/ Records(t, todo)
  <2>1. rows[t][OfCommission] # NoProjection => rows'[t][OfCommission] # NoProjection
    BY <1>3 DEF Lasts
  <2>2. (platform[t] # "none" => platform'[t] # "none") /\ (SomeFailed(t) => SomeFailed(t)')
    BY DEF Lasts
  <2>3. Binds(t, todo) => Binds(t, todo)'
    BY <2>1, <2>2 DEF Binds
  <2>4. Fails(t, todo) => Fails(t, todo)'
    BY <2>1, <2>2 DEF Fails
  <2>5. Syncs(t, todo) => Syncs(t, todo)'
    BY <2>1, <2>2 DEF Syncs
  <2>6. Records(t, todo) => Records(t, todo)'
    BY <2>1, <2>2 DEF Records
  <2> QED
    BY <1>5, <2>3, <2>4, <2>5, <2>6 DEF Following
<1>6. CASE \E p \in Provenances : Moving(t, p, todo)
  <2>1. PICK p \in Provenances : Moving(t, p, todo)
    BY <1>6
  <2>2. Moving(t, p, todo)'
    BY <1>1, <1>2, <2>1 DEF Moving, Lasts
  <2> QED
    BY <2>2 DEF Following
<1> QED
  BY <1>4, <1>5, <1>6 DEF Following

\* Request h ends, or goes on as it should, and the others are left alone.
LEMMA FollowersStep ==
  ASSUME ProjectionIInv, Lasts, NEW h \in Handlers, Others(h), NEW x \in Tenants, NEW todo,
         Busy(h)' => proc'[h].about = x /\ proc'[h].todo = todo /\ Following(x, todo)'
  PROVE  FollowersOK'
<1>1. ASSUME NEW g \in Handlers \ {h}, Busy(g)'
      PROVE  About(g)' \in Tenants /\ Following(About(g), proc[g].todo)'
  <2>1. proc'[g] = proc[g]
    BY DEF Others, ProjectionIInv, FollowersOK
  <2>2. PICK t, list : t = About(g) /\ list = proc[g].todo
    OBVIOUS
  <2>3. t \in Tenants /\ Following(t, list)
    BY <1>1, <2>1, <2>2 DEF ProjectionIInv, FollowersOK, Busy
  <2>4. Following(t, list)'
    BY <2>3, FollowingLasts
  <2> QED
    BY <2>1, <2>2, <2>3, <2>4 DEF About
<1>2. Busy(h)' => About(h)' \in Tenants /\ Following(About(h), proc[h].todo)'
  BY DEF About
<1>3. DOMAIN proc' = Handlers
  BY DEF Others, ProjectionIInv, FollowersOK
<1> QED
  BY <1>1, <1>2, <1>3 DEF FollowersOK

\* What is so of rows that are not written stays so.
LEMMA TenantRowsLast ==
  ASSUME ProjectionIInv, UNCHANGED rows, Lasts
  PROVE  TenantRowsOK' /\ OneIsBound'
<1>1. \A t \in Tenants : \A access : TrueOf(t, access) => TrueOf(t, access)'
  BY DEF TrueOf, Lasts
<1> QED
  BY <1>1 DEF ProjectionIInv, TenantRowsOK, OneIsBound, IsBound, Lasts

\* A step of the owner.
LEMMA OwnerSteps ==
  ASSUME ProjectionIInv, UNCHANGED <<rows, commission, interrupted, proc>>, Lasts,
         ProjectionTyped', CommissionsOK'
  PROVE  ProjectionIInv'
<1>1. TenantRowsOK' /\ OneIsBound'
  BY TenantRowsLast
<1>2. Finished'
  BY DEF ProjectionIInv, Finished, Busy, About
<1>3. FollowersOK'
  <2>1. ASSUME NEW g \in Handlers, Busy(g)
        PROVE  About(g) \in Tenants /\ Following(About(g), proc[g].todo)'
    <3>1. PICK t, list : t = About(g) /\ list = proc[g].todo
      OBVIOUS
    <3>2. t \in Tenants /\ Following(t, list)
      BY <2>1, <3>1 DEF ProjectionIInv, FollowersOK
    <3>3. Following(t, list)'
      BY <3>2, FollowingLasts
    <3> QED
      BY <3>1, <3>2, <3>3 DEF About
  <2> QED
    BY <2>1 DEF ProjectionIInv, FollowersOK, Busy, About
<1> QED
  BY <1>1, <1>2, <1>3 DEF ProjectionIInv

\* A step of a request that writes no row: it was about to take no row out of
\* a state it may not stay in, or goes on to do so, or is interrupted.
LEMMA RowlessStep ==
  ASSUME ProjectionIInv, NEW h \in Handlers, Others(h), UNCHANGED rows, Lasts,
         ProjectionTyped', CommissionsOK', NEW x \in Tenants, NEW todo,
         Busy(h)' => proc'[h].about = x /\ proc'[h].todo = todo /\ Following(x, todo)',
         interrupted \subseteq interrupted',
         ASSUME NEW p \in Provenances, Busy(h), About(h) \notin interrupted',
                rows[About(h)][p] # NoProjection, rows[About(h)][p].state \in Passing,
                Finishes(p, rows[About(h)][p].state, proc[h].todo)
         PROVE  Busy(h)' /\ x = About(h) /\ Finishes(p, rows[About(h)][p].state, todo)
  PROVE  ProjectionIInv'
<1>1. TenantRowsOK' /\ OneIsBound'
  BY TenantRowsLast
<1>2. FollowersOK'
  BY FollowersStep
<1>3. Finished'
  <2> SUFFICES ASSUME NEW t \in Tenants \ interrupted', NEW p \in Provenances,
                      rows[t][p] # NoProjection, rows[t][p].state \in Passing
               PROVE  \E g \in Handlers : /\ Busy(g)' /\ About(g)' = t
                                          /\ Finishes(p, rows[t][p].state, proc'[g].todo)
    BY DEF Finished
  <2>1. PICK g \in Handlers : /\ Busy(g) /\ About(g) = t
                              /\ Finishes(p, rows[t][p].state, proc[g].todo)
    BY DEF ProjectionIInv, Finished
  <2>2. CASE g = h
    BY <2>1, <2>2 DEF About
  <2>3. CASE g # h
    BY <2>1, <2>3 DEF Others, ProjectionIInv, FollowersOK, Busy, About
  <2> QED
    BY <2>2, <2>3
<1> QED
  BY <1>1, <1>2, <1>3 DEF ProjectionIInv
\* What the request goes on to, if it goes on.
Proceeds(h, t, todo) ==
  Busy(h)' => proc'[h].about = t /\ proc'[h].todo = todo /\ Following(t, todo)'

\* A request at no transition takes no row out of a state.
LEMMA AtNoTransition ==
  ASSUME NEW todo, Head(todo).call \notin {"check", "write"}
  PROVE  /\ \A p, to, binds, observed : ~Is(Head(todo), Check(p, to, binds, observed))
         /\ \A p, from : ~Finishes(p, from, todo)
<1>1. \A p, to, binds, observed : ~Is(Head(todo), Check(p, to, binds, observed))
  BY Transition DEF Has
<1> QED
  BY <1>1 DEF Finishes, UnderWay, Final

\* What the name of a call says of what follows.
LEMMA AtOtherCall ==
  ASSUME NEW t, NEW todo, Following(t, todo), Head(todo).call \notin {"check", "write"}
  PROVE  /\ Head(todo).call = "record" => Records(t, todo)
         /\ Head(todo).call = "sync" => Syncs(t, todo)
         /\ Head(todo).call \notin {"record", "sync"} => Asking(t, todo)
         /\ \A p, from : ~Finishes(p, from, todo)
<1>1. ~Binds(t, todo) /\ ~Fails(t, todo) /\ \A p \in Provenances : ~Moving(t, p, todo)
  BY AtNoTransition DEF Binds, Fails, Fail, Moving, Requested, UnderWay
<1>2. Records(t, todo) => Head(todo).call = "record"
  BY RecordingCalls DEF Records
<1>3. Syncs(t, todo) => Head(todo).call = "sync"
  BY OtherCalls DEF Syncs
<1>4. Asking(t, todo) => Head(todo).call \notin {"record", "sync"}
  BY OtherCalls DEF Asking, Sound
<1> QED
  BY <1>1, <1>2, <1>3, <1>4, AtNoTransition DEF Following

\* What the name of a call says of it.
LEMMA WhatIsCalled ==
  ASSUME NEW t, NEW todo, Asking(t, todo), NEW c, c = Head(todo)
  PROVE  /\ Tail(todo) = <<>> /\ c.call \notin {"check", "write"}
         /\ c.call = "await" => c.to \in AccessStates
         /\ c.call = "find" => c.to \in AccessStates /\ TrueOf(t, c.to)
         /\ c.call \in {"findFor", "insertLegacy"} =>
              c.observed \in AccessStates /\ TrueOf(t, c.observed) /\ platform[t] # "none"
         /\ c.call = "refresh" =>
              /\ c.provenance \in Provenances /\ c.observed \in AccessStates
              /\ IsBound(t, c.provenance) /\ TrueOf(t, c.observed)
         /\ c.call \in {"awaitCommission", "receipt"} =>
              c.attempt \in Attempts /\ rows[t][OfCommission] # NoProjection
<1>1. Sound(t, c)
  BY DEF Asking
<1> QED
  BY <1>1, OtherCalls DEF Asking, Sound

\* A request with one call to make.
LEMMA AsksNext ==
  ASSUME NEW t, NEW c, Sound(t, c)
  PROVE  Following(t, <<c>>)
<1>1. <<c>> # <<>> /\ Head(<<c>>) = c /\ Tail(<<c>>) = <<>>
  BY OneCall
<1> QED
  BY <1>1 DEF Following, Asking

\* What an idle request, or one at a call of its own, leaves finished.
LEMMA FinishedStep ==
  ASSUME ProjectionIInv, NEW h \in Handlers, Others(h), UNCHANGED interrupted,
         Busy(h) => Head(proc[h].todo).call \notin {"check", "write"},
         \A t \in Tenants, p \in Provenances :
           rows'[t][p] # NoProjection /\ rows'[t][p].state \in Passing =>
             rows[t][p] # NoProjection /\ rows'[t][p].state = rows[t][p].state
  PROVE  Finished'
<1> SUFFICES ASSUME NEW t \in Tenants \ interrupted, NEW p \in Provenances,
                    rows'[t][p] # NoProjection, rows'[t][p].state \in Passing
             PROVE  \E g \in Handlers : /\ Busy(g)' /\ About(g)' = t
                                        /\ Finishes(p, rows'[t][p].state, proc'[g].todo)
  BY DEF Finished
<1>1. PICK g \in Handlers : /\ Busy(g) /\ About(g) = t
                            /\ Finishes(p, rows'[t][p].state, proc[g].todo)
  BY DEF ProjectionIInv, Finished
<1>2. PICK list, from : list = proc[g].todo /\ from = rows'[t][p].state
  OBVIOUS
<1>3. Following(t, list)
  BY <1>1, <1>2 DEF ProjectionIInv, FollowersOK
<1>4. Head(list).call \in {"check", "write"}
  BY <1>1, <1>2, <1>3, AtNoTransition
<1>5. g # h
  BY <1>1, <1>2, <1>4
<1> QED
  BY <1>1, <1>5 DEF Others, ProjectionIInv, FollowersOK, Busy, About

\* A request that is idle or at a call of its own writes no row.
LEMMA CallStep ==
  ASSUME ProjectionIInv, NEW h \in Handlers, Others(h), UNCHANGED <<rows, interrupted>>, Lasts,
         ProjectionTyped', CommissionsOK', NEW x \in Tenants, NEW todo, Proceeds(h, x, todo),
         Busy(h) => Head(proc[h].todo).call \notin {"check", "write"}
  PROVE  ProjectionIInv'
<1>1. TenantRowsOK' /\ OneIsBound'
  BY TenantRowsLast
<1>2. FollowersOK'
  BY FollowersStep DEF Proceeds
<1>3. Finished'
  BY FinishedStep
<1> QED
  BY <1>1, <1>2, <1>3 DEF ProjectionIInv

\* Nothing that is kept of a tenant changes.
LEMMA NothingChanges ==
  ASSUME ProjectionIInv, UNCHANGED <<rows, commission, platform, receipt>>
  PROVE  /\ Lasts /\ ProjectionTyped' /\ CommissionsOK'
         /\ \A t, todo : Following(t, todo) <=> Following(t, todo)'
<1>1. Lasts /\ ProjectionTyped' /\ CommissionsOK'
  BY DEF ProjectionIInv, Lasts, ProjectionTyped, CommissionsOK, SomeFailed
<1>2. \A t, todo : Following(t, todo) <=> Following(t, todo)'
  BY DEF Following, Asking, Sound, Binds, Fails, Syncs, Records, SomeFailed, Moving, IsBound,
     TrueOf
<1> QED
  BY <1>1, <1>2

\* A request that is idle begins with one call.
LEMMA BeginsWith ==
  ASSUME ProjectionIInv, NEW h \in Handlers, ~Busy(h), NEW x \in Tenants, NEW c,
         Begin(h, x, <<c>>), UNCHANGED <<rows, commission, platform, receipt, interrupted>>,
         Sound(x, c)
  PROVE  ProjectionIInv'
<1>1. h \in DOMAIN proc
  BY DEF ProjectionIInv, FollowersOK
<1>2. PICK todo : todo = <<c>>
  OBVIOUS
<1>3. todo # <<>> /\ Begin(h, x, todo) /\ Following(x, todo)
  BY <1>2, AsksNext
<1>4. proc'[h].todo = todo /\ proc'[h].about = x /\ Others(h)
  BY <1>1, <1>3, BeginOK
<1>5. Lasts /\ ProjectionTyped' /\ CommissionsOK' /\ Following(x, todo)'
  BY <1>3, NothingChanges
<1>6. Proceeds(h, x, todo)
  BY <1>4, <1>5 DEF Proceeds
<1> QED
  BY <1>4, <1>5, <1>6, CallStep

\* A request at a call.
LEMMA At ==
  ASSUME ProjectionIInv, NEW h \in Handlers, NEW name, Calls(h, name)
  PROVE  /\ h \in DOMAIN proc /\ Busy(h) /\ About(h) \in Tenants /\ Argument(h).call = name
         /\ Argument(h) = Head(proc[h].todo) /\ Rest(h) = Tail(proc[h].todo)
         /\ Following(About(h), proc[h].todo)
  BY DEF Calls, ProjectionIInv, FollowersOK, Argument, Rest

\* A request at a call of its own: what it is about, and its one call.
LEMMA Here ==
  ASSUME ProjectionIInv, NEW h \in Handlers, NEW name, Calls(h, name),
         name \notin {"check", "write", "record", "sync"}
  PROVE  /\ h \in DOMAIN proc /\ Busy(h) /\ About(h) \in Tenants /\ Argument(h).call = name
         /\ Rest(h) = <<>> /\ Asking(About(h), proc[h].todo)
<1>1. PICK t, todo : t = About(h) /\ todo = proc[h].todo
  OBVIOUS
<1>2. Busy(h) /\ Head(todo).call = name /\ t \in Tenants /\ Following(t, todo)
  BY <1>1 DEF Calls, ProjectionIInv, FollowersOK
<1>3. Asking(t, todo)
  BY <1>2, AtOtherCall
<1> QED
  BY <1>1, <1>2, <1>3 DEF Argument, Rest, Asking, ProjectionIInv, FollowersOK

\* A request at a call of its own, that goes on to what follows and writes no row.
LEMMA GoesOnWith ==
  ASSUME ProjectionIInv, NEW h \in Handlers, NEW name, Calls(h, name),
         name \notin {"check", "write"}, UNCHANGED <<rows, interrupted>>, Lasts,
         ProjectionTyped', CommissionsOK', NEW todo, Stop(h) \/ Continue(h, todo),
         todo # <<>> => Following(About(h), todo)
  PROVE  ProjectionIInv'
<1>1. h \in DOMAIN proc /\ Busy(h) /\ About(h) \in Tenants /\ Argument(h).call = name
  BY At
<1>2. PICK t \in Tenants : t = About(h)
  BY <1>1
<1>3. todo # <<>> => Following(t, todo)'
  <2>1. ASSUME todo # <<>>
        PROVE  Following(t, todo)'
    <3>1. Following(t, todo)
      BY <1>2, <2>1
    <3> QED
      BY <3>1, FollowingLasts
  <2> QED
    BY <2>1
<1>4. Others(h) /\ (proc'[h] = Idle \/ (todo # <<>> /\ proc'[h].todo = todo /\ proc'[h].about = t))
  <2>1. CASE Stop(h)
    BY <1>1, <2>1, StopOK
  <2>2. CASE Continue(h, todo)
    BY <1>1, <1>2, <2>2, ContinueOK DEF About
  <2> QED
    BY <2>1, <2>2
<1>5. Proceeds(h, t, todo)
  BY <1>3, <1>4 DEF Proceeds, Busy
<1>6. Head(proc[h].todo).call \notin {"check", "write"}
  BY <1>1 DEF Argument
<1> QED
  BY <1>4, <1>5, <1>6, CallStep

\* What a request at a transition is to write, and goes on to.
Writes(t, todo, p, c) ==
  /\ p \in Provenances /\ todo # <<>> /\ c = Head(todo) /\ c.call \in {"check", "write"} /\ c.provenance = p
  /\ rows[t][p] # NoProjection
  /\ c.to \in Staying \cup Passing \cup {"failed"} /\ c.binds \in BOOLEAN
  /\ c.to = "failed" => SomeFailed(t)
  /\ c.observed \in AccessStates \cup {"unknown"} /\ TrueOf(t, c.observed)
  /\ c.binds => platform[t] # "none"
  /\ \/ Moving(t, p, Tail(todo))
     \/ AtMostRecords(Tail(todo)) /\ (Tail(todo) # <<>> => Records(t, Tail(todo)))
  /\ c.to \in Passing => Finishes(p, c.to, Tail(todo))
  /\ \A q, from : Finishes(q, from, todo) => q = p /\ IsBound(t, p) /\ MayTransition(from, c.to)

LEMMA AtTransition ==
  ASSUME NEW t, NEW todo, Following(t, todo), Head(todo).call \in {"check", "write"}
  PROVE  \E p, c : Writes(t, todo, p, c)
<1>1. ~Asking(t, todo) /\ ~Records(t, todo) /\ ~Syncs(t, todo)
  BY WhatIsCalled, RecordingCalls, OtherCalls DEF Records, Syncs
<1>2. PICK c : c = Head(todo)
  OBVIOUS
<1>3. /\ MayTransition("decommission_requested", "decommissioning")
      /\ MayTransition("decommissioning", "decommissioned")
  BY DEF MayTransition, IsValidTenantLifecycleTransition, TenantTransitions
<1>4. ASSUME NEW q, NEW from, Finishes(q, from, todo)
      PROVE  /\ ~c.binds /\ c.provenance = q /\ MayTransition(from, c.to)
             /\ c.to \in {"decommissioning", "decommissioned"}
  <2>1. CASE from = "decommission_requested" /\ Is(c, UnderWay(q))
    <3>1. Has(c, q, "decommissioning", FALSE, "unknown")
      BY <2>1, Transition DEF UnderWay
    <3> QED
      BY <1>3, <2>1, <3>1 DEF Has
  <2>2. CASE from = "decommissioning" /\ Is(c, Final(q))
    <3>1. Has(c, q, "decommissioned", FALSE, "decommissioned")
      BY <2>2, Transition DEF Final
    <3> QED
      BY <1>3, <2>2, <3>1 DEF Has
  <2> QED
    BY <1>2, <1>4, <2>1, <2>2 DEF Finishes
<1>5. CASE Binds(t, todo)
  <2>1. PICK to \in {"active", "provisioning"}, observed \in {"active", "unknown"} :
          Is(c, Check(OfCommission, to, TRUE, observed))
    BY <1>2, <1>5 DEF Binds
  <2>2. Has(c, OfCommission, to, TRUE, observed)
    BY <2>1, Transition
  <2>3. \A q, from : ~Finishes(q, from, todo)
    BY <1>4, <2>2 DEF Has
  <2>4. AtMostRecords(Tail(todo)) /\ (Tail(todo) # <<>> => Records(t, Tail(todo)))
    BY <1>5, OneCall DEF Binds, AtMostRecords, Records
  <2>5. Writes(t, todo, OfCommission, c)
    BY <1>2, <1>5, <2>2, <2>3, <2>4 DEF Has, Writes, Binds, Staying, Passing, AccessStates, TrueOf,
       Provenances, OfCommission
  <2> QED
    BY <2>5 DEF OfCommission, Provenances
<1>6. CASE Fails(t, todo)
  <2>1. Has(c, OfCommission, "failed", FALSE, "unknown")
    BY <1>2, <1>6, Transition DEF Fails, Fail, OfCommission
  <2>2. \A q, from : ~Finishes(q, from, todo)
    BY <1>4, <2>1 DEF Has
  <2>3. Writes(t, todo, OfCommission, c)
    BY <1>2, <1>6, <2>1, <2>2 DEF Has, Writes, Fails, AtMostRecords, Passing, TrueOf, Provenances,
       OfCommission
  <2> QED
    BY <2>3 DEF OfCommission, Provenances
<1>7. ASSUME NEW p \in Provenances, Moving(t, p, todo)
      PROVE  Writes(t, todo, p, c)
  <2>1. todo # <<>> /\ IsBound(t, p) /\ rows[t][p] # NoProjection
    BY <1>7 DEF Moving, IsBound
  <2>2. CASE Is(c, Requested(p)) /\ Tail(todo) = <<UnderWay(p), Final(p)>>
               /\ platform[t] = "decommissioned"
    <3>1. Has(c, p, "decommission_requested", FALSE, "unknown")
      BY <2>2, Transition DEF Requested
    <3>2. Tail(todo) # <<>> /\ Is(Head(Tail(todo)), UnderWay(p)) /\ Tail(Tail(todo)) = <<Final(p)>>
      BY <2>2, TwoCalls DEF Is
    <3>3. Moving(t, p, Tail(todo)) /\ Finishes(p, c.to, Tail(todo))
      BY <2>1, <2>2, <3>1, <3>2 DEF Has, Moving, Finishes
    <3> QED
      BY <1>2, <1>4, <2>1, <3>1, <3>3 DEF Has, Writes, Staying, Passing, AccessStates, TrueOf
  <2>3. CASE Is(c, UnderWay(p)) /\ Tail(todo) = <<Final(p)>> /\ platform[t] = "decommissioned"
    <3>1. Has(c, p, "decommissioning", FALSE, "unknown")
      BY <2>3, Transition DEF UnderWay
    <3>2. Tail(todo) # <<>> /\ Is(Head(Tail(todo)), Final(p)) /\ Tail(Tail(todo)) = <<>>
      BY <2>3, OneCall DEF Is
    <3>3. Moving(t, p, Tail(todo)) /\ Finishes(p, c.to, Tail(todo))
      BY <2>1, <2>3, <3>1, <3>2 DEF Has, Moving, Finishes, Final, TrueOf, AccessStates
    <3> QED
      BY <1>2, <1>4, <2>1, <3>1, <3>3 DEF Has, Writes, Staying, Passing, AccessStates, TrueOf
  <2>4. CASE \E to \in AccessStates :
               Is(c, Check(p, to, FALSE, to)) /\ Tail(todo) = <<>> /\ TrueOf(t, to)
    <3>1. PICK to \in AccessStates :
            Is(c, Check(p, to, FALSE, to)) /\ Tail(todo) = <<>> /\ TrueOf(t, to)
      BY <2>4
    <3>2. Has(c, p, to, FALSE, to)
      BY <3>1, Transition
    <3> QED
      BY <1>2, <1>4, <2>1, <3>1, <3>2 DEF Has, Writes, AtMostRecords, Staying, Passing,
         AccessStates, TrueOf
  <2> QED
    BY <1>2, <1>7, <2>2, <2>3, <2>4 DEF Moving
<1> QED
  BY <1>1, <1>5, <1>6, <1>7 DEF Following

\* From the check of a transition to its write.
LEMMA CheckedGoesOn ==
  ASSUME NEW t, NEW todo, Following(t, todo), Head(todo).call = "check",
         NEW next, next # <<>>, Head(next) = Write(Head(todo)), Tail(next) = Tail(todo)
  PROVE  Following(t, next) /\ \A p, from : Finishes(p, from, todo) => Finishes(p, from, next)
<1>1. ~Asking(t, todo) /\ ~Records(t, todo) /\ ~Syncs(t, todo)
  BY WhatIsCalled, RecordingCalls, OtherCalls DEF Records, Syncs
<1>2. \A p, to, binds, observed :
        Is(Head(todo), Check(p, to, binds, observed)) => Is(Head(next), Check(p, to, binds, observed))
  BY CheckedTransition
<1>3. \A p : /\ Is(Head(todo), Requested(p)) => Is(Head(next), Requested(p))
             /\ Is(Head(todo), UnderWay(p)) => Is(Head(next), UnderWay(p))
             /\ Is(Head(todo), Final(p)) => Is(Head(next), Final(p))
  BY <1>2 DEF Requested, UnderWay, Final
<1>4. (Binds(t, todo) => Binds(t, next)) /\ (Fails(t, todo) => Fails(t, next))
  BY <1>2 DEF Binds, Fails, Fail
<1>5. \A p \in Provenances : Moving(t, p, todo) => Moving(t, p, next)
  BY <1>2, <1>3 DEF Moving
<1>6. \A p, from : Finishes(p, from, todo) => Finishes(p, from, next)
  BY <1>3 DEF Finishes
<1> QED
  BY <1>1, <1>4, <1>5, <1>6 DEF Following

LEMMA CheckTransitionStep ==
  ASSUME ProjectionIInv, NEW h \in Handlers, CheckTransition(h)
  PROVE  ProjectionIInv'
<1>1. PICK t, todo : t = About(h) /\ todo = proc[h].todo
  OBVIOUS
<1>2. /\ Busy(h) /\ Head(todo).call = "check" /\ t \in Tenants /\ Following(t, todo)
      /\ h \in DOMAIN proc
  BY <1>1 DEF CheckTransition, Calls, ProjectionIInv, FollowersOK
<1>3. PICK p, c : Writes(t, todo, p, c)
  BY <1>2, AtTransition
<1>4. PICK next : next = <<Write(c)>> \o Tail(todo)
  OBVIOUS
<1>5. \E S : Write(c) \in S /\ Tail(todo) \in Seq(S)
  <2>1. CASE AtMostRecords(Tail(todo))
    <3>1. PICK S : S = {Write(c)} \cup Recordings
      OBVIOUS
    <3>2. <<>> \in Seq(S) /\ \A r \in Recordings : <<r>> \in Seq(S)
      BY <3>1
    <3> QED
      BY <2>1, <3>1, <3>2 DEF AtMostRecords
  <2>2. CASE Moving(t, p, Tail(todo))
    <3>1. PICK S : S = {Write(c), UnderWay(p), Final(p)}
      OBVIOUS
    <3>2. <<UnderWay(p), Final(p)>> \in Seq(S) /\ <<Final(p)>> \in Seq(S) /\ <<>> \in Seq(S)
      BY <3>1
    <3>3. Tail(todo) \in {<<>>, <<Final(p)>>, <<UnderWay(p), Final(p)>>} \/ AtMostRecords(Tail(todo))
      <4>1. PICK q \in Provenances :
              Moving(t, q, todo) \/ Binds(t, todo) \/ Fails(t, todo)
        <5>1. ~Asking(t, todo) /\ ~Records(t, todo) /\ ~Syncs(t, todo)
          BY <1>2, WhatIsCalled, RecordingCalls, OtherCalls DEF Records, Syncs
        <5> QED
          BY <1>2, <5>1 DEF Following, Provenances
      <4>2. Moving(t, q, todo) => q = p
        <5>1. \A to, binds, observed : Is(Head(todo), Check(q, to, binds, observed)) => q = p
          BY <1>3, Transition DEF Writes, Has
        <5> QED
          BY <5>1 DEF Moving, Requested, UnderWay
      <4> QED
        BY <4>1, <4>2 DEF Moving, Binds, Fails
    <3>4. CASE AtMostRecords(Tail(todo))
      BY <2>1, <3>4
    <3> QED
      BY <3>1, <3>2, <3>3, <3>4
  <2> QED
    BY <1>3, <2>1, <2>2 DEF Writes
<1>6. next # <<>> /\ Head(next) = Write(c) /\ Tail(next) = Tail(todo)
  BY <1>4, <1>5, Prepended
<1>7. Following(t, next) /\ \A q, from : Finishes(q, from, todo) => Finishes(q, from, next)
  BY <1>2, <1>3, <1>6, CheckedGoesOn DEF Writes
<1>8. Lasts /\ ProjectionTyped' /\ CommissionsOK' /\ Following(t, next)'
  BY <1>7, NothingChanges DEF CheckTransition, ownerRecords
<1>9. Others(h) /\ UNCHANGED <<rows, interrupted>>
      /\ \/ proc'[h] # Idle /\ proc'[h].todo = next /\ proc'[h].about = t
         \/ proc'[h] = Idle /\ ~MayTransition(rows[t][p].state, c.to)
  <2>1. Argument(h) = c /\ Rest(h) = Tail(todo) /\ c.provenance = p
    BY <1>1, <1>3 DEF Argument, Rest, Writes
  <2>2. CASE MayTransition(rows[t][p].state, c.to)
    <3>1. Continue(h, next)
      BY <1>1, <1>4, <2>1, <2>2 DEF CheckTransition
    <3> QED
      BY <1>1, <1>2, <1>6, <3>1, ContinueOK DEF CheckTransition, About
  <2>3. CASE ~MayTransition(rows[t][p].state, c.to)
    <3>1. Stop(h)
      BY <1>1, <2>1, <2>3 DEF CheckTransition
    <3> QED
      BY <1>2, <2>3, <3>1, StopOK DEF CheckTransition
  <2> QED
    BY <2>2, <2>3
<1>10. ASSUME NEW q \in Provenances, Finishes(q, rows[t][q].state, todo)
       PROVE  Busy(h)' /\ Finishes(q, rows[t][q].state, next)
  BY <1>3, <1>7, <1>9, <1>10 DEF Writes, Busy
<1>11. Busy(h)' => proc'[h].about = t /\ proc'[h].todo = next /\ Following(t, next)'
  BY <1>8, <1>9 DEF Busy
<1> QED
  BY <1>1, <1>2, <1>8, <1>9, <1>10, <1>11, RowlessStep

\* The index refuses no row that is bound already.
LEMMA BoundAlone ==
  ASSUME ProjectionIInv, NEW t \in Tenants, NEW p \in Provenances, IsBound(t, p)
  PROVE  IndexAllows(t, p)
  BY DEF ProjectionIInv, OneIsBound, IndexAllows

\* The row a transition writes is as a row should be.
LEMMA ChangedRow ==
  ASSUME ProjectionIInv, NEW t \in Tenants, NEW p \in Provenances, NEW todo, NEW c,
         Writes(t, todo, p, c)
  PROVE  /\ Changed(rows[t][p], c) \in Rows
         /\ Changed(rows[t][p], c).state = c.to
         /\ rows[t][p].bound => Changed(rows[t][p], c).bound
         /\ Changed(rows[t][p], c).bound => platform[t] # "none"
         /\ TrueOf(t, Changed(rows[t][p], c).observed)
<1>1. PICK row \in Rows : row = rows[t][p]
  BY DEF ProjectionIInv, ProjectionTyped, Writes
<1>2. TrueOf(t, row.observed) /\ (row.bound => platform[t] # "none")
  BY <1>1 DEF ProjectionIInv, TenantRowsOK, Writes
<1>3. /\ c.to \in TenantLifecycleStates /\ c.binds \in BOOLEAN
      /\ c.observed \in AccessStates \cup {"unknown"} /\ TrueOf(t, c.observed)
      /\ c.binds => platform[t] # "none"
  BY DEF Writes, Staying, Passing, AccessStates, TenantLifecycleStates
<1>4. /\ row.state \in TenantLifecycleStates /\ row.bound \in BOOLEAN
      /\ row.observed \in AccessStates \cup {"unknown"}
  BY DEF Rows
<1>5. /\ Changed(row, c).state = c.to
      /\ Changed(row, c).bound = (row.bound \/ c.binds)
      /\ Changed(row, c).observed \in {row.observed, c.observed}
  BY DEF Changed
<1>6. Changed(row, c) \in Rows
  BY <1>3, <1>4 DEF Changed, Rows
<1> QED
  BY <1>1, <1>2, <1>3, <1>4, <1>5, <1>6

\* A transition that is written.
LEMMA WrittenStep ==
  ASSUME ProjectionIInv, NEW h \in Handlers, NEW t \in Tenants, NEW p \in Provenances,
         NEW todo, NEW c, NEW row, Busy(h), About(h) = t, proc[h].todo = todo,
         Writes(t, todo, p, c), c.call = "write", row = Changed(rows[t][p], c),
         row.bound => IndexAllows(t, p),
         rows' = [rows EXCEPT ![t][p] = row], Continue(h, Tail(todo)),
         UNCHANGED <<commission, platform, receipt, interrupted>>
  PROVE  ProjectionIInv'
<1>1. /\ row \in Rows /\ row # NoProjection /\ row.state = c.to
      /\ rows[t][p].bound => row.bound
      /\ row.bound => platform[t] # "none"
      /\ TrueOf(t, row.observed)
  BY ChangedRow, ProjectionAssumption
<1>2. /\ rows'[t][p] = row
      /\ \A u \in Tenants, q \in Provenances : u # t \/ q # p => rows'[u][q] = rows[u][q]
  BY DEF ProjectionIInv, ProjectionTyped
<1>3. Lasts
  BY <1>1, <1>2 DEF Lasts, SomeFailed
<1>4. ProjectionTyped'
  BY <1>1 DEF ProjectionIInv, ProjectionTyped
<1>5. CommissionsOK'
  BY <1>1, <1>2 DEF ProjectionIInv, CommissionsOK, OfCommission, Provenances, Writes
<1>6. TenantRowsOK'
  <2>1. \A u \in Tenants : \A access : TrueOf(u, access) <=> TrueOf(u, access)'
    BY DEF TrueOf
  <2>2. row.state \in Staying \cup Passing \cup {"failed"} /\ (row.state = "failed" => SomeFailed(t))
    BY <1>1 DEF Writes
  <2>3. \A u \in Tenants : SomeFailed(u) <=> SomeFailed(u)'
    BY DEF SomeFailed
  <2> QED
    BY <1>1, <1>2, <2>1, <2>2, <2>3 DEF ProjectionIInv, TenantRowsOK
<1>7. OneIsBound'
  <2>1. \A u \in Tenants, q \in Provenances : u # t \/ q # p => (IsBound(u, q)' <=> IsBound(u, q))
    BY <1>2 DEF IsBound
  <2>2. IsBound(t, p)' => \A q \in Provenances \ {p} : ~IsBound(t, q)
    BY <1>1, <1>2 DEF IsBound, IndexAllows
  <2> QED
    BY <2>1, <2>2 DEF ProjectionIInv, OneIsBound
<1>8. Others(h) /\ (Tail(todo) # <<>> => Busy(h)' /\ About(h)' = t /\ proc'[h].todo = Tail(todo))
      /\ (Tail(todo) = <<>> => ~Busy(h)')
  BY ContinueOK DEF ProjectionIInv, FollowersOK, Busy, About
<1>9. Finished'
  <2> SUFFICES ASSUME NEW u \in Tenants \ interrupted, NEW q \in Provenances,
                      rows'[u][q] # NoProjection, rows'[u][q].state \in Passing
               PROVE  \E g \in Handlers : /\ Busy(g)' /\ About(g)' = u
                                          /\ Finishes(q, rows'[u][q].state, proc'[g].todo)
    BY DEF Finished
  <2>1. CASE u = t /\ q = p
    <3>1. Finishes(p, c.to, Tail(todo)) /\ Tail(todo) # <<>>
      BY <1>1, <1>2, <2>1 DEF Writes, Finishes
    <3>2. Busy(h)' /\ About(h)' = t /\ proc'[h].todo = Tail(todo) /\ rows'[t][p].state = c.to
      BY <1>1, <1>2, <1>8, <3>1
    <3>3. Finishes(p, rows'[t][p].state, proc'[h].todo)
      BY <3>1, <3>2
    <3> QED
      BY <2>1, <3>2, <3>3
  <2>2. CASE u # t \/ q # p
    <3>1. PICK g \in Handlers : /\ Busy(g) /\ About(g) = u
                                /\ Finishes(q, rows'[u][q].state, proc[g].todo)
      BY <1>2, <2>2 DEF ProjectionIInv, Finished
    <3>2. g # h
      BY <2>2, <3>1 DEF Writes
    <3> QED
      BY <1>8, <3>1, <3>2 DEF Others, ProjectionIInv, FollowersOK, Busy, About
  <2> QED
    BY <2>1, <2>2
<1>10. FollowersOK'
  <2>1. PICK next : next = Tail(todo)
    OBVIOUS
  <2>2. next # <<>> => Following(t, next)'
    <3>1. ASSUME next # <<>>
          PROVE  Following(t, next)'
      <4>1. Following(t, next)
        BY <2>1, <3>1 DEF Writes, Following
      <4> QED
        BY <1>3, <4>1, FollowingLasts
    <3> QED
      BY <3>1
  <2>3. Busy(h)' => proc'[h].about = t /\ proc'[h].todo = next /\ Following(t, next)'
    BY <1>8, <2>1, <2>2 DEF About
  <2> QED
    BY <1>3, <1>8, <2>3, FollowersStep
<1> QED
  BY <1>4, <1>5, <1>6, <1>7, <1>9, <1>10 DEF ProjectionIInv

LEMMA WriteTransitionStep ==
  ASSUME ProjectionIInv, NEW h \in Handlers, WriteTransition(h)
  PROVE  ProjectionIInv'
<1>1. PICK t, todo : t = About(h) /\ todo = proc[h].todo
  OBVIOUS
<1>2. /\ Busy(h) /\ Head(todo).call = "write" /\ t \in Tenants /\ Following(t, todo)
      /\ h \in DOMAIN proc
  BY <1>1 DEF WriteTransition, Calls, ProjectionIInv, FollowersOK
<1>3. PICK p, c : Writes(t, todo, p, c)
  BY <1>2, AtTransition
<1>4. /\ p \in Provenances
      /\ Argument(h) = c /\ Rest(h) = Tail(todo) /\ c.provenance = p /\ c.call = "write"
      /\ UNCHANGED <<commission, platform, receipt, interrupted>>
  BY <1>1, <1>2, <1>3 DEF WriteTransition, Argument, Rest, Writes, ownerRecords
<1>5. PICK row : row = Changed(rows[t][p], c)
  OBVIOUS
<1>6. CASE row.bound /\ ~IndexAllows(t, p)
  <2>1. Stop(h) /\ UNCHANGED rows
    BY <1>1, <1>4, <1>5, <1>6 DEF WriteTransition
  <2>2. Others(h) /\ ~Busy(h)'
    BY <1>2, <2>1, StopOK DEF Busy
  <2>3. Lasts /\ ProjectionTyped' /\ CommissionsOK'
    BY <1>4, <2>1, NothingChanges
  <2>4. \A q \in Provenances : ~Finishes(q, rows[t][q].state, todo)
    BY <1>3, <1>6, BoundAlone, <1>2 DEF Writes
  <2> QED
    BY <1>1, <1>2, <1>4, <2>1, <2>2, <2>3, <2>4, RowlessStep
<1>7. CASE ~(row.bound /\ ~IndexAllows(t, p))
  <2>1. rows' = [rows EXCEPT ![t][p] = row] /\ Continue(h, Tail(todo))
    BY <1>1, <1>4, <1>5, <1>7 DEF WriteTransition
  <2> QED
    BY <1>1, <1>2, <1>3, <1>4, <1>5, <1>7, <2>1, WrittenStep
<1> QED
  BY <1>6, <1>7

LEMMA CreateLegacyExistingStep ==
  ASSUME ProjectionIInv, NEW h \in Handlers, CreateLegacyExisting(h)
  PROVE  ProjectionIInv'
<1>1. PICK t, found : t = About(h) /\ found = Argument(h).observed
  OBVIOUS
<1>2. /\ h \in DOMAIN proc /\ t \in Tenants /\ Rest(h) = <<>> /\ Asking(t, proc[h].todo)
      /\ Argument(h).call = "insertLegacy" /\ Busy(h)
  BY <1>1, Here DEF CreateLegacyExisting
<1>3. found \in AccessStates /\ TrueOf(t, found) /\ platform[t] # "none"
  BY <1>1, <1>2, WhatIsCalled DEF Argument
<1>4. UNCHANGED <<commission, platform, receipt, interrupted>> /\ Continue(h, <<>>)
  BY <1>1, <1>2 DEF CreateLegacyExisting, ownerRecords
<1>5. CASE IndexAllows(t, "legacy_existing") /\ rows[t]["legacy_existing"] = NoProjection
  <2>1. PICK row, p : row = [state |-> found, bound |-> TRUE, observed |-> found] /\ p = "legacy_existing"
    OBVIOUS
  <2>2. rows' = [rows EXCEPT ![t][p] = row] /\ p \in Provenances /\ p # OfCommission
    BY <1>1, <1>5, <2>1 DEF CreateLegacyExisting, Provenances, OfCommission
  <2>3. row \in Rows /\ row.state = found /\ row.bound /\ row.observed = found /\ row # NoProjection
    <3>1. found \in TenantLifecycleStates
      BY <1>3 DEF AccessStates, TenantLifecycleStates
    <3>2. row \in Rows
      BY <1>3, <2>1, <3>1 DEF Rows
    <3> QED
      BY <2>1, <3>2, ProjectionAssumption
  <2>4. /\ rows'[t][p] = row
        /\ \A u \in Tenants, q \in Provenances : u # t \/ q # p => rows'[u][q] = rows[u][q]
    BY <1>2, <2>2 DEF ProjectionIInv, ProjectionTyped
  <2>5. Lasts
    BY <1>4, <1>5, <2>1, <2>4 DEF Lasts, SomeFailed
  <2>6. ProjectionTyped' /\ CommissionsOK'
    <3>1. ProjectionTyped'
      BY <1>4, <2>2, <2>3 DEF ProjectionIInv, ProjectionTyped
    <3>2. \A u \in Tenants : rows'[u][OfCommission] = rows[u][OfCommission]
      BY <2>2, <2>4 DEF Provenances, OfCommission
    <3> QED
      BY <1>4, <3>1, <3>2 DEF ProjectionIInv, CommissionsOK
  <2>7. TenantRowsOK'
    <3>1. \A u \in Tenants : \A access : TrueOf(u, access) <=> TrueOf(u, access)'
      BY <1>4 DEF TrueOf
    <3>2. \A u \in Tenants : SomeFailed(u) <=> SomeFailed(u)'
      BY <1>4 DEF SomeFailed
    <3> QED
      BY <1>3, <1>4, <2>3, <2>4, <3>1, <3>2 DEF ProjectionIInv, TenantRowsOK, Staying, AccessStates
  <2>8. OneIsBound'
    <3>1. \A u \in Tenants, q \in Provenances : u # t \/ q # p => (IsBound(u, q)' <=> IsBound(u, q))
      BY <2>4 DEF IsBound
    <3>2. \A q \in Provenances \ {p} : ~IsBound(t, q)
      BY <1>5, <2>1 DEF IndexAllows
    <3> QED
      BY <3>1, <3>2 DEF ProjectionIInv, OneIsBound
  <2>9. Others(h) /\ ~Busy(h)'
    BY <1>2, <1>4, ContinueOK DEF Busy
  <2>10. Finished'
    <3>1. row.state \notin Passing
      BY <1>3, <2>3 DEF Passing, AccessStates
    <3>2. Head(proc[h].todo).call \notin {"check", "write"}
      BY <1>2 DEF Argument
    <3> QED
      BY <1>4, <2>4, <2>9, <3>1, <3>2, FinishedStep
  <2>11. FollowersOK'
    BY <1>2, <2>5, <2>9, FollowersStep
  <2> QED
    BY <2>5, <2>6, <2>7, <2>8, <2>10, <2>11 DEF ProjectionIInv
<1>6. CASE ~(IndexAllows(t, "legacy_existing") /\ rows[t]["legacy_existing"] = NoProjection)
  <2>1. UNCHANGED rows /\ Calls(h, "insertLegacy")
    BY <1>1, <1>6 DEF CreateLegacyExisting
  <2>2. Lasts /\ ProjectionTyped' /\ CommissionsOK'
    BY <1>4, <2>1, NothingChanges
  <2> QED
    BY <1>4, <2>1, <2>2, GoesOnWith
<1> QED
  BY <1>5, <1>6

LEMMA RefreshObservedStateStep ==
  ASSUME ProjectionIInv, NEW h \in Handlers, RefreshObservedState(h)
  PROVE  ProjectionIInv'
<1>1. PICK t, p, found : t = About(h) /\ p = Argument(h).provenance /\ found = Argument(h).observed
  OBVIOUS
<1>2. /\ h \in DOMAIN proc /\ t \in Tenants /\ Rest(h) = <<>> /\ Asking(t, proc[h].todo)
      /\ Argument(h).call = "refresh" /\ Busy(h)
  BY <1>1, Here DEF RefreshObservedState
<1>3. p \in Provenances /\ found \in AccessStates /\ TrueOf(t, found) /\ IsBound(t, p)
  BY <1>1, <1>2, WhatIsCalled DEF Argument
<1>4. UNCHANGED <<commission, platform, receipt, interrupted>> /\ Continue(h, <<>>)
  BY <1>1, <1>2 DEF RefreshObservedState, ownerRecords
<1>5. PICK old, row : old = rows[t][p] /\ row = Refreshed(old, found)
  OBVIOUS
<1>6. old \in Rows /\ old # NoProjection /\ old.bound
  BY <1>2, <1>3, <1>5 DEF ProjectionIInv, ProjectionTyped, IsBound
<1>7. /\ row \in Rows /\ row # NoProjection /\ row.state = old.state /\ row.bound = old.bound
      /\ row.observed = found
  BY <1>3, <1>5, <1>6, ProjectionAssumption DEF Refreshed, Rows
<1>8. rows' = [rows EXCEPT ![t][p] = row]
  BY <1>1, <1>5 DEF RefreshObservedState
<1>9. /\ rows'[t][p] = row
      /\ \A u \in Tenants, q \in Provenances : u # t \/ q # p => rows'[u][q] = rows[u][q]
  BY <1>2, <1>3, <1>8 DEF ProjectionIInv, ProjectionTyped
<1>10. Lasts
  BY <1>4, <1>5, <1>7, <1>9 DEF Lasts, SomeFailed
<1>11. ProjectionTyped' /\ CommissionsOK'
  BY <1>2, <1>3, <1>4, <1>5, <1>6, <1>7, <1>8, <1>9 DEF ProjectionIInv, ProjectionTyped,
     CommissionsOK, Provenances, OfCommission
<1>12. TenantRowsOK'
  <2>1. \A u \in Tenants : \A access : TrueOf(u, access) <=> TrueOf(u, access)'
    BY <1>4 DEF TrueOf
  <2>2. \A u \in Tenants : SomeFailed(u) <=> SomeFailed(u)'
    BY <1>4 DEF SomeFailed
  <2> QED
    BY <1>3, <1>4, <1>5, <1>6, <1>7, <1>9, <2>1, <2>2 DEF ProjectionIInv, TenantRowsOK
<1>13. OneIsBound'
  <2>1. \A u \in Tenants, q \in Provenances : IsBound(u, q)' <=> IsBound(u, q)
    BY <1>5, <1>6, <1>7, <1>9 DEF IsBound
  <2> QED
    BY <2>1 DEF ProjectionIInv, OneIsBound
<1>14. Others(h) /\ ~Busy(h)'
  BY <1>2, <1>4, ContinueOK DEF Busy
<1>15. Finished'
  <2>1. Head(proc[h].todo).call \notin {"check", "write"}
    BY <1>2 DEF Argument
  <2> QED
    BY <1>4, <1>5, <1>6, <1>7, <1>9, <1>14, <2>1, FinishedStep
<1>16. FollowersOK'
  BY <1>2, <1>10, <1>14, FollowersStep
<1> QED
  BY <1>10, <1>11, <1>12, <1>13, <1>15, <1>16 DEF ProjectionIInv

LEMMA TransitionAnsweredStep ==
  ASSUME ProjectionIInv, NEW h \in Handlers, TransitionAnswered(h)
  PROVE  ProjectionIInv'
<1>1. PICK t, to : t = About(h) /\ to = Argument(h).to
  OBVIOUS
<1>2. /\ t \in Tenants /\ Asking(t, proc[h].todo) /\ Calls(h, "await")
      /\ Argument(h).call = "await"
  BY <1>1, Here DEF TransitionAnswered
<1>3. to \in AccessStates
  BY <1>1, <1>2, WhatIsCalled DEF Argument
<1>4. UNCHANGED <<rows, commission, receipt, interrupted>>
  BY DEF TransitionAnswered
<1>5. CASE OwnerAgrees(t, to) /\ platform' = [platform EXCEPT ![t] = to]
             /\ Continue(h, <<Find(to)>>)
  <2>1. Lasts /\ ProjectionTyped' /\ CommissionsOK'
    BY <1>2, <1>3, <1>4, <1>5 DEF OwnerAgrees, Lasts, ProjectionIInv, ProjectionTyped,
       CommissionsOK, AccessStates, SomeFailed
  <2>2. Sound(t, Find(to))'
    BY <1>2, <1>3, <1>5 DEF Sound, TrueOf, ProjectionIInv, ProjectionTyped
  <2>3. PICK next : next = <<Find(to)>>
    OBVIOUS
  <2>4. next # <<>> /\ Head(next) = Find(to) /\ Tail(next) = <<>>
    BY <2>3, OneCall
  <2>5. Following(t, next)'
    BY <2>2, <2>4 DEF Following, Asking
  <2>6. Others(h) /\ Proceeds(h, t, next) /\ Busy(h)
    <3>1. h \in DOMAIN proc /\ Continue(h, next) /\ Busy(h)
      BY <1>2, <1>5, <2>3, Here
    <3> QED
      BY <1>1, <2>4, <2>5, <3>1, ContinueOK DEF Proceeds, About
  <2>7. Head(proc[h].todo).call \notin {"check", "write"}
    BY <1>2 DEF Argument
  <2> QED
    BY <1>2, <1>4, <2>1, <2>6, <2>7, CallStep
<1>6. CASE Stop(h) /\ UNCHANGED platform
  <2>1. Lasts /\ ProjectionTyped' /\ CommissionsOK'
    BY <1>4, <1>6, NothingChanges
  <2> QED
    BY <1>2, <1>4, <1>6, <2>1, GoesOnWith
<1> QED
  BY <1>1, <1>5, <1>6 DEF TransitionAnswered

\* A request at a call of its own changes nothing but itself.
LEMMA ReadsStep ==
  ASSUME ProjectionIInv, NEW h \in Handlers, NEW name, Calls(h, name),
         name \notin {"check", "write"},
         UNCHANGED <<rows, commission, platform, receipt, interrupted>>,
         NEW todo, Stop(h) \/ Continue(h, todo), todo # <<>> => Following(About(h), todo)
  PROVE  ProjectionIInv'
<1>1. Lasts /\ ProjectionTyped' /\ CommissionsOK'
  BY NothingChanges
<1> QED
  BY <1>1, GoesOnWith

LEMMA TransitionTimesOutStep ==
  ASSUME ProjectionIInv, NEW h \in Handlers, TransitionTimesOut(h)
  PROVE  ProjectionIInv'
<1>1. /\ Calls(h, "await") /\ Stop(h)
      /\ UNCHANGED <<rows, commission, platform, receipt, interrupted>>
  BY DEF TransitionTimesOut, ownerRecords
<1> QED
  BY <1>1, ReadsStep

\* A list that begins by recording an outcome.
LEMMA RecordsNext ==
  ASSUME NEW t, rows[t][OfCommission] # NoProjection, NEW r \in Recordings
  PROVE  /\ Following(t, <<r>>)
         /\ r.to = "failed" => Following(t, <<r, Fail>>)
         /\ \A outcome \in Receipts :
              /\ outcome \in Creating => platform[t] # "none"
              /\ outcome \notin Creating => r.to = "failed"
              => Following(t, <<r, Sync(outcome)>>)
<1>1. Records(t, <<r>>)
  BY OneCall DEF Records
<1>2. r.to = "failed" => Records(t, <<r, Fail>>)
  BY TwoCalls DEF Records
<1>3. ASSUME NEW outcome \in Receipts, outcome \in Creating => platform[t] # "none",
             outcome \notin Creating => r.to = "failed"
      PROVE  Records(t, <<r, Sync(outcome)>>)
  BY <1>3, TwoCalls DEF Records
<1> QED
  BY <1>1, <1>2, <1>3 DEF Following

LEMMA CommissionTimesOutStep ==
  ASSUME ProjectionIInv, NEW h \in Handlers, CommissionTimesOut(h)
  PROVE  ProjectionIInv'
<1>1. PICK t, a, next :
        t = About(h) /\ a = Argument(h).attempt /\ next = <<Record(a, "ambiguous")>>
  OBVIOUS
<1>2. /\ Calls(h, "awaitCommission") /\ Continue(h, next)
      /\ UNCHANGED <<rows, commission, platform, receipt, interrupted>>
  BY <1>1 DEF CommissionTimesOut, ownerRecords
<1>3. t \in Tenants /\ Asking(t, proc[h].todo) /\ Argument(h).call = "awaitCommission"
  BY <1>1, <1>2, Here
<1>4. a \in Attempts /\ rows[t][OfCommission] # NoProjection
  BY <1>1, <1>3, WhatIsCalled DEF Argument
<1>5. Record(a, "ambiguous") \in Recordings
  BY <1>4 DEF Recordings, AttemptStatuses
<1>6. Following(t, next)
  BY <1>1, <1>4, <1>5, RecordsNext
<1> QED
  BY <1>1, <1>2, <1>6, ReadsStep

\* The row that has a tenant's id.
LEMMA BoundRow ==
  ASSUME NEW t, HasProjection(t)
  PROVE  ProvenanceOf(t) \in Provenances /\ IsBound(t, ProvenanceOf(t))
  BY DEF HasProjection, ProvenanceOf

LEMMA FindProjectionStep ==
  ASSUME ProjectionIInv, NEW h \in Handlers, FindProjection(h)
  PROVE  ProjectionIInv'
<1>1. PICK t, to, p : t = About(h) /\ to = Argument(h).to /\ p = ProvenanceOf(t)
  OBVIOUS
<1>2. /\ t \in Tenants /\ Asking(t, proc[h].todo) /\ Calls(h, "find")
      /\ Argument(h).call = "find"
  BY <1>1, Here DEF FindProjection
<1>3. to \in AccessStates /\ TrueOf(t, to)
  BY <1>1, <1>2, WhatIsCalled DEF Argument
<1>4. PICK next : next = IF HasProjection(t) THEN Transitions(p, to) ELSE <<>>
  OBVIOUS
<1>5. /\ UNCHANGED <<rows, commission, platform, receipt, interrupted>> /\ Continue(h, next)
  BY <1>1, <1>4 DEF FindProjection, ownerRecords
<1>6. ASSUME HasProjection(t)
      PROVE  Following(t, next)
  <2>1. p \in Provenances /\ IsBound(t, p)
    BY <1>1, <1>6, BoundRow
  <2>2. CASE to = "decommissioned"
    <3>1. next = <<Requested(p), UnderWay(p), Final(p)>>
      BY <1>4, <1>6, <2>2 DEF Transitions, Requested, UnderWay, Final
    <3>2. next # <<>> /\ Head(next) = Requested(p) /\ Tail(next) = <<UnderWay(p), Final(p)>>
      BY <3>1, ThreeCalls
    <3>3. Moving(t, p, next)
      BY <1>3, <2>1, <2>2, <3>2 DEF Moving, Is, TrueOf
    <3> QED
      BY <2>1, <3>3 DEF Following
  <2>3. CASE to # "decommissioned"
    <3>1. next = <<Check(p, to, FALSE, to)>>
      BY <1>4, <1>6, <2>3 DEF Transitions
    <3>2. next # <<>> /\ Head(next) = Check(p, to, FALSE, to) /\ Tail(next) = <<>>
      BY <3>1, OneCall
    <3>3. Moving(t, p, next)
      BY <1>3, <2>1, <3>2 DEF Moving, Is
    <3> QED
      BY <2>1, <3>3 DEF Following
  <2> QED
    BY <2>2, <2>3
<1>7. next # <<>> => Following(About(h), next)
  BY <1>1, <1>4, <1>6
<1> QED
  BY <1>2, <1>5, <1>7, ReadsStep

LEMMA RepairProjectionStep ==
  ASSUME ProjectionIInv, NEW h \in Handlers, RepairProjection(h)
  PROVE  ProjectionIInv'
<1>1. PICK t, found, p : t = About(h) /\ found = Argument(h).observed /\ p = ProvenanceOf(t)
  OBVIOUS
<1>2. /\ t \in Tenants /\ Asking(t, proc[h].todo) /\ Calls(h, "findFor")
      /\ Argument(h).call = "findFor"
  BY <1>1, Here DEF RepairProjection
<1>3. found \in AccessStates /\ TrueOf(t, found) /\ platform[t] # "none"
  BY <1>1, <1>2, WhatIsCalled DEF Argument
<1>4. PICK next : next = CASE ~HasProjection(t) -> <<InsertLegacy(found)>>
                           [] HasProjection(t) /\ NeedsRefresh(Projection(t), found) ->
                                <<Refresh(p, found)>>
                           [] OTHER -> <<>>
  OBVIOUS
<1>5. /\ UNCHANGED <<rows, commission, platform, receipt, interrupted>> /\ Continue(h, next)
  BY <1>1, <1>4 DEF RepairProjection, ownerRecords
<1>6. CASE ~HasProjection(t)
  <2>1. next = <<InsertLegacy(found)>>
    BY <1>4, <1>6
  <2>2. Sound(t, InsertLegacy(found))
    BY <1>3 DEF Sound
  <2>3. Following(t, next)
    BY <2>1, <2>2, AsksNext
  <2> QED
    BY <1>1, <1>2, <1>5, <2>3, ReadsStep
<1>7. CASE HasProjection(t) /\ NeedsRefresh(Projection(t), found)
  <2>1. next = <<Refresh(p, found)>>
    BY <1>4, <1>7
  <2>2. Sound(t, Refresh(p, found))
    BY <1>1, <1>3, <1>7, BoundRow DEF Sound
  <2>3. Following(t, next)
    BY <2>1, <2>2, AsksNext
  <2> QED
    BY <1>1, <1>2, <1>5, <2>3, ReadsStep
<1>8. CASE HasProjection(t) /\ ~NeedsRefresh(Projection(t), found)
  <2>1. next = <<>>
    BY <1>4, <1>8
  <2> QED
    BY <1>2, <1>5, <2>1, ReadsStep
<1> QED
  BY <1>6, <1>7, <1>8

\* A commission's row is bound by the transition its outcome calls for.
LEMMA BindingNext ==
  ASSUME NEW t, rows[t][OfCommission] # NoProjection, platform[t] # "none",
         NEW to, NEW observed,
         \/ to = "active" /\ observed \in {"active", "unknown"}
         \/ to = "provisioning" /\ observed = "unknown"
  PROVE  /\ Following(t, <<Check(OfCommission, to, TRUE, observed)>>)
         /\ \A r \in Recordings : Following(t, <<Check(OfCommission, to, TRUE, observed), r>>)
<1>1. PICK c : c = Check(OfCommission, to, TRUE, observed)
  OBVIOUS
<1>2. Binds(t, <<c>>)
  BY <1>1, OneCall DEF Binds, Is, AtMostRecords
<1>3. \A r \in Recordings : Binds(t, <<c, r>>)
  BY <1>1, TwoCalls DEF Binds, Is, AtMostRecords
<1> QED
  BY <1>1, <1>2, <1>3 DEF Following

LEMMA CommissionAnsweredStep ==
  ASSUME ProjectionIInv, NEW h \in Handlers, CommissionAnswered(h)
  PROVE  ProjectionIInv'
<1>1. PICK t, a, outcome : t = About(h) /\ a = Argument(h).attempt /\ outcome = receipt[t][a]
  OBVIOUS
<1>2. t \in Tenants /\ Asking(t, proc[h].todo) /\ Calls(h, "awaitCommission")
      /\ Argument(h).call = "awaitCommission"
  BY <1>1, Here DEF CommissionAnswered
<1>3. a \in Attempts /\ rows[t][OfCommission] # NoProjection
  BY <1>1, <1>2, WhatIsCalled DEF Argument
<1>4. PICK next :
        next = CASE outcome = "completed" -> <<Bind(outcome), Record(a, "completed")>>
                 [] outcome = "partially_completed" -> <<Bind(outcome), Record(a, "partial")>>
                 [] OTHER -> <<Record(a, "failed"), Fail>>
  OBVIOUS
<1>5. Continue(h, next) /\ UNCHANGED <<rows, commission, platform, receipt, interrupted>>
  BY <1>1, <1>4 DEF CommissionAnswered, ownerRecords
<1>6. \A to \in {"completed", "partial", "failed"} :
        Record(a, to) \in Recordings /\ Record(a, to).to = to
  BY <1>3, OtherCalls DEF Recordings, AttemptStatuses
<1>7. outcome \in Creating => platform[t] # "none"
  BY <1>1, <1>2, <1>3 DEF ProjectionIInv, CommissionsOK
<1>8. CASE outcome = "completed"
  <2>1. next = <<Check(OfCommission, "active", TRUE, "active"), Record(a, "completed")>>
    BY <1>4, <1>8 DEF Bind, OfCommission
  <2>2. Following(t, next)
    BY <1>3, <1>6, <1>7, <1>8, <2>1, BindingNext DEF Creating
  <2> QED
    BY <1>1, <1>2, <1>5, <2>2, ReadsStep
<1>9. CASE outcome = "partially_completed"
  <2>1. next = <<Check(OfCommission, "provisioning", TRUE, "unknown"), Record(a, "partial")>>
    BY <1>4, <1>9 DEF Bind, OfCommission
  <2>2. Following(t, next)
    BY <1>3, <1>6, <1>7, <1>9, <2>1, BindingNext DEF Creating
  <2> QED
    BY <1>1, <1>2, <1>5, <2>2, ReadsStep
<1>10. CASE outcome \notin Creating
  <2>1. next = <<Record(a, "failed"), Fail>>
    BY <1>4, <1>10 DEF Creating
  <2>2. Following(t, next)
    BY <1>3, <1>6, <2>1, RecordsNext
  <2> QED
    BY <1>1, <1>2, <1>5, <2>2, ReadsStep
<1> QED
  BY <1>8, <1>9, <1>10 DEF Creating

\* A list that begins by making the row agree with an outcome.
LEMMA SyncsNext ==
  ASSUME NEW t, rows[t][OfCommission] # NoProjection, NEW outcome \in Creating,
         platform[t] # "none"
  PROVE  /\ Following(t, <<Sync(outcome)>>)
         /\ \A r \in Recordings : Following(t, <<Sync(outcome), r>>)
<1>1. outcome \in Receipts
  BY DEF Creating, Receipts
<1>2. Syncs(t, <<Sync(outcome)>>)
  BY <1>1, OneCall DEF Syncs, AtMostRecords
<1>3. \A r \in Recordings : Syncs(t, <<Sync(outcome), r>>)
  BY <1>1, TwoCalls DEF Syncs, AtMostRecords
<1> QED
  BY <1>2, <1>3 DEF Following

LEMMA ResolveByReceiptStep ==
  ASSUME ProjectionIInv, NEW h \in Handlers, ResolveByReceipt(h)
  PROVE  ProjectionIInv'
<1>1. PICK t, a, outcome, listed :
        /\ t = About(h) /\ a = Argument(h).attempt /\ outcome = receipt[t][a]
        /\ listed = Argument(h).listed
  OBVIOUS
<1>2. t \in Tenants /\ Asking(t, proc[h].todo) /\ Calls(h, "receipt")
      /\ Argument(h).call = "receipt"
  BY <1>1, Here DEF ResolveByReceipt
<1>3. a \in Attempts /\ rows[t][OfCommission] # NoProjection
  BY <1>1, <1>2, WhatIsCalled DEF Argument
<1>4. outcome \in Receipts /\ (outcome \in Creating => platform[t] # "none")
  BY <1>1, <1>2, <1>3 DEF ProjectionIInv, CommissionsOK, ProjectionTyped
<1>5. \A to \in {"completed", "partial", "failed"} :
        Resolve(a, to) \in Recordings /\ Resolve(a, to).to = to
  BY <1>3, OtherCalls DEF Recordings, AttemptStatuses
<1>6. UNCHANGED <<rows, commission, platform, receipt, interrupted>>
  BY DEF ResolveByReceipt, ownerRecords
<1>7. CASE outcome = "completed"
  <2>1. PICK next : next = <<Resolve(a, "completed"), Sync(outcome)>>
    OBVIOUS
  <2>2. Continue(h, next)
    BY <1>1, <1>7, <2>1 DEF ResolveByReceipt
  <2>3. Following(t, next)
    BY <1>3, <1>4, <1>5, <1>7, <2>1, RecordsNext DEF Creating
  <2> QED
    BY <1>1, <1>2, <1>6, <2>2, <2>3, ReadsStep
<1>8. CASE outcome = "partially_completed" /\ listed = "running"
  <2>1. PICK next : next = <<Sync(outcome), Resolve(a, "partial")>>
    OBVIOUS
  <2>2. <<Sync(outcome)>> \o <<Resolve(a, "partial")>> = next
    BY <2>1, Paired
  <2>3. Continue(h, next)
    BY <1>1, <1>8, <2>2 DEF ResolveByReceipt
  <2>4. Following(t, next)
    BY <1>3, <1>4, <1>5, <1>8, <2>1, SyncsNext DEF Creating
  <2> QED
    BY <1>1, <1>2, <1>6, <2>3, <2>4, ReadsStep
<1>9. CASE outcome = "partially_completed" /\ listed # "running"
  <2>1. PICK next : next = <<Sync(outcome)>>
    OBVIOUS
  <2>2. <<Sync(outcome)>> \o <<>> = next
    BY <2>1
  <2>3. Continue(h, next)
    BY <1>1, <1>9, <2>2 DEF ResolveByReceipt
  <2>4. Following(t, next)
    BY <1>3, <1>4, <1>9, <2>1, SyncsNext DEF Creating
  <2> QED
    BY <1>1, <1>2, <1>6, <2>3, <2>4, ReadsStep
<1>10. CASE outcome \notin Creating
  <2>1. PICK next : next = <<Resolve(a, "failed"), Sync(outcome)>>
    OBVIOUS
  <2>2. Continue(h, next)
    BY <1>1, <1>10, <2>1 DEF ResolveByReceipt, Creating
  <2>3. Following(t, next)
    BY <1>3, <1>4, <1>5, <1>10, <2>1, RecordsNext
  <2> QED
    BY <1>1, <1>2, <1>6, <2>2, <2>3, ReadsStep
<1> QED
  BY <1>7, <1>8, <1>9, <1>10 DEF Creating

\* An attempt leaves the status it has; one that failed stays failed.
LEMMA RecordAttemptStep ==
  ASSUME ProjectionIInv, NEW h \in Handlers, RecordAttempt(h)
  PROVE  ProjectionIInv'
<1>1. PICK t, todo, c : t = About(h) /\ todo = proc[h].todo /\ c = Head(todo)
  OBVIOUS
<1>2. /\ Calls(h, "record") /\ t \in Tenants /\ c.call = "record" /\ Following(t, todo)
      /\ Argument(h) = c /\ Rest(h) = Tail(todo) /\ h \in DOMAIN proc /\ Busy(h)
  BY <1>1, At DEF RecordAttempt
<1>3. Records(t, todo)
  BY <1>1, <1>2, AtOtherCall
<1>4. c.attempt \in Attempts /\ c.to \in AttemptStatuses /\ rows[t][OfCommission] # NoProjection
  BY <1>1, <1>3, RecordingCalls DEF Records
<1>5. UNCHANGED <<rows, platform, receipt, interrupted>>
  BY DEF RecordAttempt, ownerRecords
<1>6. CASE MayRecord(commission[t][c.attempt], c.to)
  <2>1. commission' = [commission EXCEPT ![t][c.attempt] = c.to] /\ Continue(h, Tail(todo))
    BY <1>1, <1>2, <1>6 DEF RecordAttempt
  <2>2. /\ commission[t][c.attempt] \notin {"none", "failed"} /\ c.to # "none"
        /\ commission'[t][c.attempt] = c.to
        /\ \A u \in Tenants, b \in Attempts :
             u # t \/ b # c.attempt => commission'[u][b] = commission[u][b]
    BY <1>2, <1>4, <1>6, <2>1 DEF MayRecord, ProjectionIInv, ProjectionTyped
  <2>3. \A u \in Tenants : SomeFailed(u) => SomeFailed(u)'
    <3> SUFFICES ASSUME NEW u \in Tenants, SomeFailed(u)
                 PROVE  SomeFailed(u)'
      OBVIOUS
    <3>1. PICK b \in Attempts : commission[u][b] = "failed"
      BY DEF SomeFailed
    <3>2. commission'[u][b] = "failed"
      BY <2>2, <3>1
    <3> QED
      BY <3>2 DEF SomeFailed
  <2>4. Lasts
    BY <1>5, <2>3 DEF Lasts
  <2>5. ProjectionTyped'
    BY <1>2, <1>4, <1>5, <2>1 DEF ProjectionIInv, ProjectionTyped
  <2>6. \A u \in Tenants, b \in Attempts :
          commission'[u][b] # "none" <=> commission[u][b] # "none"
    BY <2>2
  <2>7. CommissionsOK'
    BY <1>5, <2>6 DEF ProjectionIInv, CommissionsOK
  <2>8. c.to = "failed" => SomeFailed(t)'
    BY <1>4, <2>2 DEF SomeFailed
  <2>9. PICK next : next = Tail(todo)
    OBVIOUS
  <2>10. next # <<>> => Following(t, next)'
    <3>1. CASE next = <<Fail>> /\ c.to = "failed"
      <4>1. Fails(t, next)'
        BY <1>4, <1>5, <2>8, <3>1, OneCall DEF Fails, Is
      <4> QED
        BY <4>1 DEF Following
    <3>2. ASSUME NEW outcome \in Receipts, next = <<Sync(outcome)>>,
                 outcome \in Creating => platform[t] # "none",
                 outcome \notin Creating => c.to = "failed"
          PROVE  Following(t, next)'
      <4>1. Syncs(t, next)'
        BY <1>4, <1>5, <2>8, <3>2, OneCall DEF Syncs, AtMostRecords
      <4> QED
        BY <4>1 DEF Following
    <3> QED
      BY <1>1, <1>3, <2>9, <3>1, <3>2 DEF Records
  <2>11. Others(h) /\ Proceeds(h, t, next)
    BY <1>1, <1>2, <2>1, <2>9, <2>10, ContinueOK DEF Proceeds, Busy, About
  <2>12. Head(proc[h].todo).call \notin {"check", "write"}
    BY <1>1, <1>2
  <2> QED
    BY <1>2, <1>5, <2>4, <2>5, <2>7, <2>11, <2>12, CallStep
<1>7. CASE ~MayRecord(commission[t][c.attempt], c.to)
  <2>1. Stop(h) /\ UNCHANGED commission
    BY <1>1, <1>2, <1>7 DEF RecordAttempt
  <2> QED
    BY <1>2, <1>5, <2>1, ReadsStep
<1> QED
  BY <1>6, <1>7

LEMMA SyncCommissionProjectionStep ==
  ASSUME ProjectionIInv, NEW h \in Handlers, SyncCommissionProjection(h)
  PROVE  ProjectionIInv'
<1>1. PICK t, todo, outcome, row :
        /\ t = About(h) /\ todo = proc[h].todo /\ outcome = Argument(h).outcome
        /\ row = rows[t]["governance_commissioned"]
  OBVIOUS
<1>2. /\ Calls(h, "sync") /\ t \in Tenants /\ Head(todo).call = "sync" /\ Following(t, todo)
      /\ Argument(h) = Head(todo) /\ Rest(h) = Tail(todo)
  BY <1>1, At DEF SyncCommissionProjection
<1>3. Syncs(t, todo)
  BY <1>1, <1>2, AtOtherCall
<1>4. /\ outcome \in Receipts /\ rows[t][OfCommission] # NoProjection
      /\ outcome \in Creating => platform[t] # "none"
      /\ outcome \notin Creating => SomeFailed(t) /\ Tail(todo) = <<>>
      /\ AtMostRecords(Tail(todo))
  BY <1>1, <1>2, <1>3, OtherCalls DEF Syncs
<1>5. PICK next : next = Synced(row, outcome) \o Tail(todo)
  OBVIOUS
<1>6. UNCHANGED <<rows, commission, platform, receipt, interrupted>> /\ Continue(h, next)
  BY <1>1, <1>2, <1>5 DEF SyncCommissionProjection, ownerRecords
<1>7. Synced(row, outcome) \in {<<>>, <<[Bind(outcome) EXCEPT !.observed = "unknown"]>>, <<Fail>>}
      /\ (outcome \in Creating => Synced(row, outcome) # <<Fail>>)
      /\ (outcome \notin Creating => Synced(row, outcome) \in {<<>>, <<Fail>>})
  <2>1. \A x, y : <<x>> = <<y>> => x = y
    OBVIOUS
  <2>2. [Bind(outcome) EXCEPT !.observed = "unknown"] # Fail
    BY DEF Bind, Fail, Check
  <2>3. <<[Bind(outcome) EXCEPT !.observed = "unknown"]>> # <<Fail>> /\ <<>> # <<Fail>>
    BY <2>1, <2>2
  <2> QED
    BY <2>3 DEF Synced, Creating
<1>8. CASE Synced(row, outcome) = <<>>
  <2>1. next = Tail(todo)
    <3>1. Tail(todo) = <<>> => <<>> \o Tail(todo) = Tail(todo)
      OBVIOUS
    <3>2. \A r : <<>> \o <<r>> = <<r>>
      OBVIOUS
    <3> QED
      BY <1>4, <1>5, <1>8, <3>1, <3>2 DEF AtMostRecords
  <2>2. next # <<>> => Following(t, next)
    BY <1>4, <2>1, RecordsNext DEF AtMostRecords
  <2> QED
    BY <1>1, <1>2, <1>6, <2>2, ReadsStep
<1>9. CASE outcome \in Creating /\ Synced(row, outcome) = <<[Bind(outcome) EXCEPT !.observed = "unknown"]>>
  <2>1. PICK c : c = [Bind(outcome) EXCEPT !.observed = "unknown"]
    OBVIOUS
  <2>2. \/ c = Check(OfCommission, "active", TRUE, "unknown")
        \/ c = Check(OfCommission, "provisioning", TRUE, "unknown")
    BY <2>1 DEF Bind, Check, OfCommission
  <2>3. next = <<c>> \o Tail(todo)
    BY <1>5, <1>9, <2>1
  <2>4. next = <<c>> \/ \E r \in Recordings : next = <<c, r>>
    <3>1. <<c>> \o <<>> = <<c>>
      OBVIOUS
    <3> QED
      BY <1>4, <2>3, <3>1, Paired DEF AtMostRecords
  <2>5. Following(t, next)
    BY <1>4, <1>9, <2>2, <2>4, BindingNext
  <2> QED
    BY <1>1, <1>2, <1>6, <2>5, ReadsStep
<1>10. CASE outcome \notin Creating /\ Synced(row, outcome) = <<Fail>>
  <2>1. next = <<Fail>>
    <3>1. <<Fail>> \o <<>> = <<Fail>>
      OBVIOUS
    <3> QED
      BY <1>4, <1>5, <1>10, <3>1
  <2>2. Following(t, next)
    <3>1. Fails(t, next)
      BY <1>4, <1>10, <2>1, OneCall DEF Fails, Is
    <3> QED
      BY <3>1 DEF Following
  <2> QED
    BY <1>1, <1>2, <1>6, <2>2, ReadsStep
<1> QED
  BY <1>7, <1>8, <1>9, <1>10

\* Whatever the request had yet to do, its tenant is known to be interrupted.
LEMMA InterruptStep ==
  ASSUME ProjectionIInv, NEW h \in Handlers, Interrupt(h)
  PROVE  ProjectionIInv'
<1>1. PICK t, todo : t = About(h) /\ todo = proc[h].todo
  OBVIOUS
<1>2. /\ Busy(h) /\ Stop(h) /\ t \in Tenants /\ h \in DOMAIN proc
      /\ UNCHANGED <<rows, commission, platform, receipt>>
      /\ interrupted' = interrupted \cup {t}
  BY <1>1 DEF Interrupt, ownerRecords, ProjectionIInv, FollowersOK
<1>3. Others(h) /\ ~Busy(h)'
  BY <1>2, StopOK DEF Busy
<1>4. Lasts /\ ProjectionTyped' /\ CommissionsOK'
  BY <1>2, NothingChanges
<1> QED
  BY <1>1, <1>2, <1>3, <1>4, RowlessStep

LEMMA RequestTransitionStep ==
  ASSUME ProjectionIInv, NEW h \in Handlers, NEW t \in Tenants, NEW to \in AccessStates,
         RequestTransition(h, t, to)
  PROVE  ProjectionIInv'
<1>1. PICK c : c = AwaitTransition(to)
  OBVIOUS
<1>2. /\ ~Busy(h) /\ Begin(h, t, <<c>>)
      /\ UNCHANGED <<rows, commission, platform, receipt, interrupted>>
  BY <1>1 DEF RequestTransition, ownerRecords
<1>3. Sound(t, c)
  BY <1>1 DEF Sound
<1> QED
  BY <1>2, <1>3, BeginsWith

LEMMA ReconcileTenantStep ==
  ASSUME ProjectionIInv, NEW h \in Handlers, NEW t \in Tenants, ReconcileTenant(h, t)
  PROVE  ProjectionIInv'
<1>1. PICK c : c = FindFor(platform[t])
  OBVIOUS
<1>2. /\ ~Busy(h) /\ Begin(h, t, <<c>>) /\ platform[t] # "none"
      /\ UNCHANGED <<rows, commission, platform, receipt, interrupted>>
  BY <1>1 DEF ReconcileTenant, ownerRecords
<1>3. platform[t] \in AccessStates
  BY <1>2 DEF ProjectionIInv, ProjectionTyped
<1>4. Sound(t, c)
  BY <1>1, <1>2, <1>3 DEF Sound, TrueOf
<1> QED
  BY <1>2, <1>4, BeginsWith

LEMMA RecheckCommissionStep ==
  ASSUME ProjectionIInv, NEW h \in Handlers, NEW t \in Tenants, NEW a \in Attempts,
         RecheckCommission(h, t, a)
  PROVE  ProjectionIInv'
<1>1. PICK c : c = ReadReceipt(a, commission[t][a])
  OBVIOUS
<1>2. /\ ~Busy(h) /\ Begin(h, t, <<c>>) /\ commission[t][a] # "none"
      /\ UNCHANGED <<rows, commission, platform, receipt, interrupted>>
  BY <1>1 DEF RecheckCommission, ownerRecords
<1>3. rows[t][OfCommission] # NoProjection /\ commission[t][a] \in AttemptStatuses
  BY <1>2 DEF ProjectionIInv, CommissionsOK, ProjectionTyped
<1>4. Sound(t, c)
  BY <1>1, <1>2, <1>3 DEF Sound
<1> QED
  BY <1>2, <1>4, BeginsWith

\* The request of an attempt is sent; the row is there, or is inserted.
LEMMA SendStep ==
  ASSUME ProjectionIInv, NEW h \in Handlers, NEW t \in Tenants, NEW a \in Attempts,
         ~Busy(h), SendAttempt(h, t, a), commission[t][a] = "none",
         UNCHANGED <<platform, receipt, interrupted>>,
         rows'[t][OfCommission] # NoProjection
  PROVE  /\ \A u \in Tenants : SomeFailed(u) => SomeFailed(u)'
         /\ commission' \in [Tenants -> [Attempts -> AttemptStatuses]]
         /\ \E b \in Attempts : commission'[t][b] # "none"
         /\ \A u \in Tenants \ {t} : commission'[u] = commission[u]
         /\ Others(h) /\ Proceeds(h, t, <<AwaitCommission(a)>>)
<1>1. /\ commission' = [commission EXCEPT ![t][a] = "running"]
      /\ Begin(h, t, <<AwaitCommission(a)>>)
  BY DEF SendAttempt
<1>2. /\ commission' \in [Tenants -> [Attempts -> AttemptStatuses]]
      /\ commission'[t][a] = "running"
      /\ \A u \in Tenants, b \in Attempts : u # t \/ b # a => commission'[u][b] = commission[u][b]
      /\ \A u \in Tenants \ {t} : commission'[u] = commission[u]
  BY <1>1 DEF ProjectionIInv, ProjectionTyped, AttemptStatuses
<1>3. \A u \in Tenants : SomeFailed(u) => SomeFailed(u)'
  <2> SUFFICES ASSUME NEW u \in Tenants, NEW b \in Attempts, commission[u][b] = "failed"
               PROVE  commission'[u][b] = "failed"
    BY DEF SomeFailed
  <2> QED
    BY <1>2
<1>4. PICK todo : todo = <<AwaitCommission(a)>>
  OBVIOUS
<1>5. todo # <<>> /\ Head(todo) = AwaitCommission(a) /\ Tail(todo) = <<>>
  BY <1>4, OneCall
<1>6. h \in DOMAIN proc
  BY DEF ProjectionIInv, FollowersOK
<1>7. Others(h) /\ proc'[h].about = t /\ proc'[h].todo = todo
  BY <1>1, <1>4, <1>5, <1>6, BeginOK
<1>8. Following(t, todo)'
  BY <1>5 DEF Following, Asking, Sound
<1> QED
  BY <1>2, <1>3, <1>4, <1>7, <1>8 DEF Proceeds

LEMMA RequestCommissionStep ==
  ASSUME ProjectionIInv, NEW h \in Handlers, NEW t \in Tenants, RequestCommission(h, t)
  PROVE  ProjectionIInv'
<1>1. PICK row : row = Unbound
  OBVIOUS
<1>2. /\ ~Busy(h) /\ SendAttempt(h, t, 1) /\ 1 \in Attempts
      /\ \A a \in Attempts : commission[t][a] = "none"
      /\ rows' = [rows EXCEPT ![t][OfCommission] = row]
      /\ UNCHANGED <<platform, receipt, interrupted>>
  BY <1>1 DEF RequestCommission, ownerRecords, OfCommission
<1>3. rows[t][OfCommission] = NoProjection
  BY <1>2 DEF ProjectionIInv, CommissionsOK
<1>4. /\ row \in Rows /\ row # NoProjection /\ row.state = "provisioning" /\ ~row.bound
      /\ row.observed = "unknown"
  <2>1. row \in Rows
    BY <1>1 DEF Unbound, Rows, TenantLifecycleStates
  <2> QED
    BY <1>1, <2>1, ProjectionAssumption DEF Unbound
<1>5. /\ rows'[t][OfCommission] = row
      /\ \A u \in Tenants, q \in Provenances :
           u # t \/ q # OfCommission => rows'[u][q] = rows[u][q]
  BY <1>2 DEF ProjectionIInv, ProjectionTyped, OfCommission, Provenances
<1>6. /\ \A u \in Tenants : SomeFailed(u) => SomeFailed(u)'
      /\ commission' \in [Tenants -> [Attempts -> AttemptStatuses]]
      /\ \E b \in Attempts : commission'[t][b] # "none"
      /\ \A u \in Tenants \ {t} : commission'[u] = commission[u]
      /\ Others(h) /\ Proceeds(h, t, <<AwaitCommission(1)>>)
  BY <1>2, <1>4, <1>5, SendStep
<1>7. Lasts
  BY <1>2, <1>3, <1>5, <1>6 DEF Lasts
<1>8. ProjectionTyped'
  BY <1>2, <1>4, <1>6 DEF ProjectionIInv, ProjectionTyped
<1>9. CommissionsOK'
  <2>1. \A u \in Tenants \ {t} : rows'[u][OfCommission] = rows[u][OfCommission]
    BY <1>5 DEF OfCommission, Provenances
  <2> QED
    BY <1>2, <1>4, <1>5, <1>6, <2>1 DEF ProjectionIInv, CommissionsOK
<1>10. TenantRowsOK'
  <2>1. \A u \in Tenants : \A access : TrueOf(u, access) <=> TrueOf(u, access)'
    BY <1>2 DEF TrueOf
  <2> QED
    BY <1>2, <1>4, <1>5, <1>6, <2>1 DEF ProjectionIInv, TenantRowsOK, Staying, TrueOf
<1>11. OneIsBound'
  <2>1. \A u \in Tenants, q \in Provenances : IsBound(u, q)' => IsBound(u, q)
    BY <1>4, <1>5 DEF IsBound
  <2> QED
    BY <2>1 DEF ProjectionIInv, OneIsBound
<1>12. Finished'
  <2>1. row.state \notin Passing
    BY <1>4 DEF Passing
  <2> QED
    BY <1>2, <1>5, <1>6, <2>1, FinishedStep
<1>13. FollowersOK'
  BY <1>6, <1>7, FollowersStep DEF Proceeds
<1> QED
  BY <1>8, <1>9, <1>10, <1>11, <1>12, <1>13 DEF ProjectionIInv

LEMMA RequestRepairStep ==
  ASSUME ProjectionIInv, NEW h \in Handlers, NEW t \in Tenants, NEW a \in Attempts,
         RequestRepair(h, t, a)
  PROVE  ProjectionIInv'
<1>1. /\ ~Busy(h) /\ SendAttempt(h, t, a) /\ a > 1 /\ commission[t][a] = "none"
      /\ commission[t][a - 1] # "none" /\ UNCHANGED <<rows, platform, receipt, interrupted>>
  BY DEF RequestRepair, ownerRecords
<1>2. a - 1 \in Attempts
  BY <1>1, ProjectionAssumption DEF Attempts
<1>3. rows[t][OfCommission] # NoProjection
  BY <1>1, <1>2 DEF ProjectionIInv, CommissionsOK
<1>4. /\ \A u \in Tenants : SomeFailed(u) => SomeFailed(u)'
      /\ commission' \in [Tenants -> [Attempts -> AttemptStatuses]]
      /\ \E b \in Attempts : commission'[t][b] # "none"
      /\ \A u \in Tenants \ {t} : commission'[u] = commission[u]
      /\ Others(h) /\ Proceeds(h, t, <<AwaitCommission(a)>>)
  BY <1>1, <1>3, SendStep
<1>5. Lasts
  BY <1>1, <1>4 DEF Lasts
<1>6. ProjectionTyped'
  BY <1>1, <1>4 DEF ProjectionIInv, ProjectionTyped
<1>7. CommissionsOK'
  BY <1>1, <1>3, <1>4 DEF ProjectionIInv, CommissionsOK
<1> QED
  BY <1>1, <1>4, <1>5, <1>6, <1>7, CallStep

LEMMA OwnerCommissionsStep ==
  ASSUME ProjectionIInv, NEW t \in Tenants, NEW a \in Attempts, OwnerCommissions(t, a)
  PROVE  ProjectionIInv'
<1>1. PICK outcome \in Receipts :
        /\ receipt' = [receipt EXCEPT ![t][a] = outcome]
        /\ IF outcome \in Creating
             THEN /\ platform[t] \in {"none", "active"}
                  /\ platform' = [platform EXCEPT ![t] = "active"]
             ELSE UNCHANGED platform
  BY DEF OwnerCommissions, Creating
<1>2. UNCHANGED <<rows, commission, interrupted, proc>>
  BY DEF OwnerCommissions
<1>3. /\ receipt' \in [Tenants -> [Attempts -> Receipts]]
      /\ receipt'[t][a] = outcome
      /\ \A u \in Tenants, b \in Attempts : u # t \/ b # a => receipt'[u][b] = receipt[u][b]
  BY <1>1 DEF ProjectionIInv, ProjectionTyped
<1>4. /\ platform' \in [Tenants -> AccessStates \cup {"none"}]
      /\ outcome \in Creating => platform'[t] = "active"
      /\ \A u \in Tenants : platform'[u] = platform[u] \/ (platform[u] # "decommissioned" /\ platform'[u] = "active")
  BY <1>1 DEF ProjectionIInv, ProjectionTyped, AccessStates
<1>5. Lasts
  BY <1>2, <1>4 DEF Lasts, SomeFailed
<1>6. ProjectionTyped'
  BY <1>2, <1>3, <1>4 DEF ProjectionIInv, ProjectionTyped
<1>7. CommissionsOK'
  BY <1>2, <1>3, <1>4 DEF ProjectionIInv, CommissionsOK
<1> QED
  BY <1>2, <1>5, <1>6, <1>7, OwnerSteps

LEMMA LateCommandArrivesStep ==
  ASSUME ProjectionIInv, NEW t \in Tenants, NEW to \in AccessStates, LateCommandArrives(t, to)
  PROVE  ProjectionIInv'
<1>1. /\ platform' = [platform EXCEPT ![t] = IF OwnerAgrees(t, to) THEN to ELSE platform[t]]
      /\ UNCHANGED <<rows, commission, receipt, interrupted, proc>>
  BY DEF LateCommandArrives
<1>2. Lasts
  BY <1>1 DEF Lasts, SomeFailed, OwnerAgrees, ProjectionIInv, ProjectionTyped, AccessStates
<1>3. ProjectionTyped' /\ CommissionsOK'
  BY <1>1 DEF ProjectionIInv, ProjectionTyped, CommissionsOK, OwnerAgrees, AccessStates
<1> QED
  BY <1>1, <1>2, <1>3, OwnerSteps

LEMMA ProjectionSteps ==
  ASSUME ProjectionIInv, NEW h \in Handlers, ProjectionStep(h)
  PROVE  ProjectionIInv'
  BY CheckTransitionStep, WriteTransitionStep, CreateLegacyExistingStep, RefreshObservedStateStep,
     TransitionAnsweredStep, TransitionTimesOutStep, FindProjectionStep, CommissionAnsweredStep,
     CommissionTimesOutStep, RecordAttemptStep, RepairProjectionStep, ResolveByReceiptStep,
     SyncCommissionProjectionStep DEF ProjectionStep

LEMMA ProjectionNextIInv ==
  ProjectionIInv /\ [ProjectionNext]_projectionVars => ProjectionIInv'
<1> SUFFICES ASSUME ProjectionIInv, [ProjectionNext]_projectionVars
             PROVE  ProjectionIInv'
  OBVIOUS
<1>1. ASSUME NEW h \in Handlers, ProjectionStep(h) \/ Interrupt(h)
      PROVE  ProjectionIInv'
  BY <1>1, ProjectionSteps, InterruptStep
<1>2. ASSUME NEW h \in Handlers, NEW t \in Tenants,
             CommissionRoutes(h, t) \/ TransitionRoutes(h, t) \/ RecheckRoutes(h, t)
      PROVE  ProjectionIInv'
  BY <1>2, RequestCommissionStep, RequestRepairStep, RequestTransitionStep, ReconcileTenantStep,
     RecheckCommissionStep DEF CommissionRoutes, TransitionRoutes, RecheckRoutes
<1>3. ASSUME NEW t \in Tenants,
             \/ \E a \in Attempts : OwnerCommissions(t, a)
             \/ \E to \in AccessStates : LateCommandArrives(t, to)
      PROVE  ProjectionIInv'
  BY <1>3, OwnerCommissionsStep, LateCommandArrivesStep
<1>4. CASE UNCHANGED projectionVars
  <2>1. UNCHANGED <<rows, commission, platform, receipt, interrupted, proc>>
    BY <1>4 DEF projectionVars, ownerRecords
  <2>2. Lasts /\ ProjectionTyped' /\ CommissionsOK'
    BY <2>1, NothingChanges
  <2> QED
    BY <2>1, <2>2, OwnerSteps
<1> QED
  BY <1>1, <1>2, <1>3, <1>4 DEF ProjectionNext

LEMMA ProjectionInvariance == ProjectionSpec => []ProjectionIInv
<1>1. ProjectionIInv /\ [ProjectionNext]_projectionVars => ProjectionIInv'
  BY ProjectionNextIInv
<1> QED
  BY <1>1, ProjectionInitIInv, PTL DEF ProjectionSpec

\* However commands, a commission and repairs race, one row at most has a
\* tenant's id, and a tenant it shows as decommissioned is so at the owner.
THEOREM FinalStatesAreFinal == ProjectionSpec => []ObservedDecommissionIsTrue
<1>1. ProjectionIInv => ObservedDecommissionIsTrue
  <2> SUFFICES ASSUME ProjectionIInv, NEW t \in Tenants
               PROVE  /\ \A p, q \in Provenances : IsBound(t, p) /\ IsBound(t, q) => p = q
                      /\ HasProjection(t) /\ Projection(t).observed = "decommissioned" =>
                           platform[t] = "decommissioned"
    BY DEF ObservedDecommissionIsTrue
  <2>1. \A p, q \in Provenances : IsBound(t, p) /\ IsBound(t, q) => p = q
    BY DEF ProjectionIInv, OneIsBound
  <2>2. ASSUME HasProjection(t), Projection(t).observed = "decommissioned"
        PROVE  platform[t] = "decommissioned"
    BY <2>2, BoundRow DEF ProjectionIInv, TenantRowsOK, IsBound, Projection, TrueOf
  <2> QED
    BY <2>1, <2>2
<1> QED
  BY <1>1, ProjectionInvariance, PTL

\* A projection that disagrees with the owner and about which no request is at
\* work, or was interrupted, is on the drift report, or was failed after an
\* attempt of its commission had been.
THEOREM DisagreementsAreListed == ProjectionSpec => []DisagreementIsListed
<1>1. ProjectionIInv => DisagreementIsListed
  <2> SUFFICES ASSUME ProjectionIInv, NEW t \in Tenants, HasProjection(t), ~AtWork(t),
                      t \notin interrupted, Projection(t).state # platform[t],
                      ~(Projection(t).state = "provisioning" /\ platform[t] = "active")
               PROVE  \/ Drift(t) = "lifecycleMismatch"
                      \/ Projection(t).state = "failed" /\ SomeFailed(t)
    BY DEF DisagreementIsListed, SomeFailed
  <2>1. PICK p \in Provenances : p = ProvenanceOf(t) /\ IsBound(t, p)
    BY BoundRow
  <2>2. /\ platform[t] # "none" /\ Projection(t).state \in Staying \cup Passing \cup {"failed"}
        /\ Projection(t).state = "failed" => SomeFailed(t)
    BY <2>1 DEF ProjectionIInv, TenantRowsOK, IsBound, Projection
  <2>3. Projection(t).state \notin Passing
    BY <2>1 DEF ProjectionIInv, Finished, FollowersOK, IsBound, Projection, AtWork
  <2>4. CASE Projection(t).state \in Staying
    <3>1. IsLifecycleDrift(Projection(t).state, platform[t])
      BY <2>2, <2>4 DEF Staying, IsLifecycleDrift
    <3> QED
      BY <2>2, <3>1 DEF Drift
  <2> QED
    BY <2>2, <2>3, <2>4
<1> QED
  BY <1>1, ProjectionInvariance, PTL

(***************************************************************************)
(* Types of the projection.                                                *)
(***************************************************************************)
ProjectionHandlersTyped == HandlersTyped(Tenants, ProjectionCalls)

\* What the invariant above leaves out of the types.
CountersTyped ==
  /\ wire \subseteq Tenants \X Attempts
  /\ late \subseteq Tenants \X AccessStates
  /\ commands \in 0..MaxCommands
  /\ interrupted \subseteq Tenants

\* The calls the handlers are made of.
LEMMA ProjectionCallsAre ==
  /\ \A p \in Provenances, to \in TenantLifecycleStates, binds \in BOOLEAN,
        observed \in AccessStates \cup {"unknown"} :
       /\ Check(p, to, binds, observed) \in ProjectionCalls
       /\ Write(Check(p, to, binds, observed)) \in ProjectionCalls
  /\ \A a \in Attempts :
       /\ AwaitCommission(a) \in ProjectionCalls
       /\ \A s \in AttemptStatuses : /\ ReadReceipt(a, s) \in ProjectionCalls
                                   /\ Record(a, s) \in ProjectionCalls
                                   /\ Resolve(a, s) \in ProjectionCalls
  /\ \A to \in AccessStates : /\ AwaitTransition(to) \in ProjectionCalls
                              /\ Find(to) \in ProjectionCalls
                              /\ FindFor(to) \in ProjectionCalls
                              /\ InsertLegacy(to) \in ProjectionCalls
                              /\ \A p \in Provenances : Refresh(p, to) \in ProjectionCalls
  /\ \A outcome \in Receipts : Sync(outcome) \in ProjectionCalls
<1>1. \A a \in Attempts, s \in AttemptStatuses :
        /\ ReadReceipt(a, s) \in ProjectionCalls /\ Record(a, s) \in ProjectionCalls
        /\ Resolve(a, s) \in ProjectionCalls
  BY DEF ProjectionCalls
<1>2. \A a \in Attempts : AwaitCommission(a) \in ProjectionCalls
  BY DEF ProjectionCalls
<1>3. \A p \in Provenances, to \in TenantLifecycleStates, binds \in BOOLEAN,
        observed \in AccessStates \cup {"unknown"} :
       /\ Check(p, to, binds, observed) \in ProjectionCalls
       /\ Write(Check(p, to, binds, observed)) \in ProjectionCalls
  BY DEF ProjectionCalls
<1>4. \A to \in AccessStates : /\ AwaitTransition(to) \in ProjectionCalls
                              /\ Find(to) \in ProjectionCalls
                              /\ FindFor(to) \in ProjectionCalls
                              /\ InsertLegacy(to) \in ProjectionCalls
                              /\ \A p \in Provenances : Refresh(p, to) \in ProjectionCalls
  BY DEF ProjectionCalls
<1>5. \A outcome \in Receipts : Sync(outcome) \in ProjectionCalls
  BY DEF ProjectionCalls
<1> QED
  BY <1>1, <1>2, <1>3, <1>4, <1>5

\* A transition that is checked may be written.
LEMMA CheckedIsCall ==
  ASSUME NEW c \in ProjectionCalls, c.call = "check"
  PROVE  Write(c) \in ProjectionCalls
<1>1. \A p, to, binds, observed : Write(Check(p, to, binds, observed)).call = "write"
  BY DEF Write, Check
<1>2. PICK p \in Provenances, to \in TenantLifecycleStates, binds \in BOOLEAN,
           observed \in AccessStates \cup {"unknown"} : c = Check(p, to, binds, observed)
  BY <1>1, OtherCalls DEF ProjectionCalls
<1> QED
  BY <1>2, ProjectionCallsAre

\* A list of one call, of two, or of the three of a decommission.
LEMMA ListsAreTyped ==
  /\ \A c \in ProjectionCalls : <<c>> \in Seq(ProjectionCalls) /\ <<c>> # <<>>
  /\ \A b, c \in ProjectionCalls : <<b, c>> \in Seq(ProjectionCalls)
  /\ \A b, c, d \in ProjectionCalls : <<b, c, d>> \in Seq(ProjectionCalls)
  /\ <<>> \in Seq(ProjectionCalls)
  OBVIOUS

LEMMA TransitionsTyped ==
  ASSUME NEW p \in Provenances, NEW to \in AccessStates
  PROVE  Transitions(p, to) \in Seq(ProjectionCalls)
<1>1. /\ to \in TenantLifecycleStates /\ "decommission_requested" \in TenantLifecycleStates
      /\ "decommissioning" \in TenantLifecycleStates
  BY DEF AccessStates, TenantLifecycleStates
<1>2. /\ Check(p, "decommission_requested", FALSE, "unknown") \in ProjectionCalls
      /\ Check(p, "decommissioning", FALSE, "unknown") \in ProjectionCalls
      /\ Check(p, to, FALSE, to) \in ProjectionCalls
  BY <1>1, ProjectionCallsAre
<1> QED
  BY <1>2, ListsAreTyped DEF Transitions

\* The steps of requests, as far as the lists of calls go.
LEMMA ProjectionStepTyped ==
  ASSUME ProjectionIInv, ProjectionHandlersTyped, NEW h \in Handlers, ProjectionStep(h)
  PROVE  ProjectionHandlersTyped'
<1>1. Busy(h)
  BY DEF ProjectionStep, CheckTransition, WriteTransition, CreateLegacyExisting,
     RefreshObservedState, TransitionAnswered, TransitionTimesOut, FindProjection,
     CommissionAnswered, CommissionTimesOut, RecordAttempt, RepairProjection, ResolveByReceipt,
     SyncCommissionProjection, Calls
<1>2. PICK t \in Tenants, c \in ProjectionCalls, rest \in Seq(ProjectionCalls) :
        t = About(h) /\ c = Argument(h) /\ rest = Rest(h)
  BY <1>1, CallTyped DEF ProjectionHandlersTyped
<1>3. Stop(h) => ProjectionHandlersTyped'
  BY StopTyped DEF ProjectionHandlersTyped
<1>4. \A todo \in Seq(ProjectionCalls) : Continue(h, todo) => ProjectionHandlersTyped'
  BY <1>1, ContinueTyped DEF ProjectionHandlersTyped
<1>5. c.call \notin {"check", "write", "record", "sync"} => Asking(t, proc[h].todo)
  BY <1>1, <1>2, AtOtherCall DEF ProjectionIInv, FollowersOK, Argument
<1>6. Continue(h, rest) => ProjectionHandlersTyped'
  BY <1>4
<1>7. CASE CheckTransition(h)
  <2>1. Continue(h, <<Write(c)>> \o rest) \/ Stop(h)
    BY <1>2, <1>7 DEF CheckTransition
  <2>2. Write(c) \in ProjectionCalls
    BY <1>2, <1>7, CheckedIsCall DEF CheckTransition, Calls, Argument
  <2>3. <<Write(c)>> \o rest \in Seq(ProjectionCalls)
    BY <2>2, Prepended
  <2> QED
    BY <1>3, <1>4, <2>1, <2>3
<1>8. CASE WriteTransition(h) \/ CreateLegacyExisting(h) \/ RefreshObservedState(h)
  BY <1>2, <1>3, <1>6, <1>8 DEF WriteTransition, CreateLegacyExisting, RefreshObservedState
<1>9. CASE TransitionTimesOut(h) \/ RecordAttempt(h)
  BY <1>2, <1>3, <1>6, <1>9 DEF TransitionTimesOut, RecordAttempt
<1>10. c.call \in {"awaitCommission", "receipt"} =>
         /\ c.attempt \in Attempts
         /\ \A to \in AttemptStatuses : /\ Record(c.attempt, to) \in ProjectionCalls
                                       /\ Resolve(c.attempt, to) \in ProjectionCalls
  BY <1>2, <1>5, WhatIsCalled, ProjectionCallsAre DEF Argument
<1>11. {"ambiguous", "partial", "completed", "failed"} \subseteq AttemptStatuses
  BY DEF AttemptStatuses
<1>12. CASE CommissionTimesOut(h)
  <2>1. Record(c.attempt, "ambiguous") \in ProjectionCalls
    BY <1>2, <1>10, <1>11, <1>12 DEF CommissionTimesOut, Calls, Argument
  <2>2. Continue(h, <<Record(c.attempt, "ambiguous")>>)
    BY <1>2, <1>12 DEF CommissionTimesOut
  <2> QED
    BY <1>4, <2>1, <2>2, ListsAreTyped
<1>13. CASE TransitionAnswered(h)
  <2>1. c.to \in AccessStates
    BY <1>2, <1>5, <1>13, WhatIsCalled DEF TransitionAnswered, Calls, Argument
  <2>2. <<Find(c.to)>> \in Seq(ProjectionCalls)
    BY <2>1, ProjectionCallsAre, ListsAreTyped
  <2>3. Continue(h, <<Find(c.to)>>) \/ Stop(h)
    BY <1>2, <1>13 DEF TransitionAnswered
  <2> QED
    BY <1>3, <1>4, <2>2, <2>3
<1>14. CASE FindProjection(h)
  <2>1. c.to \in AccessStates
    BY <1>2, <1>5, <1>14, WhatIsCalled DEF FindProjection, Calls, Argument
  <2>2. PICK todo : todo = IF HasProjection(t) THEN Transitions(ProvenanceOf(t), c.to) ELSE <<>>
    OBVIOUS
  <2>3. todo \in Seq(ProjectionCalls)
    BY <2>1, <2>2, BoundRow, TransitionsTyped, ListsAreTyped
  <2>4. Continue(h, todo)
    BY <1>2, <1>14, <2>2 DEF FindProjection
  <2> QED
    BY <1>4, <2>3, <2>4
<1>15. \A outcome : Bind(outcome) \in ProjectionCalls
              /\ [Bind(outcome) EXCEPT !.observed = "unknown"] \in ProjectionCalls
  <2> SUFFICES ASSUME NEW outcome
               PROVE  /\ Bind(outcome) \in ProjectionCalls
                      /\ [Bind(outcome) EXCEPT !.observed = "unknown"] \in ProjectionCalls
    OBVIOUS
  <2>1. OfCommission \in Provenances
    BY DEF Provenances, OfCommission
  <2>2. /\ Check(OfCommission, "active", TRUE, "active") \in ProjectionCalls
        /\ Check(OfCommission, "active", TRUE, "unknown") \in ProjectionCalls
        /\ Check(OfCommission, "provisioning", TRUE, "unknown") \in ProjectionCalls
    BY <2>1, ProjectionCallsAre DEF TenantLifecycleStates, AccessStates
  <2>3. Bind(outcome) \in {Check(OfCommission, "active", TRUE, "active"),
                           Check(OfCommission, "provisioning", TRUE, "unknown")}
    BY DEF Bind, OfCommission
  <2>4. PICK bound : bound = [Bind(outcome) EXCEPT !.observed = "unknown"]
    OBVIOUS
  <2>5. \/ bound = Check(OfCommission, "active", TRUE, "unknown")
        \/ bound = Check(OfCommission, "provisioning", TRUE, "unknown")
    BY <2>4 DEF Bind, Check, OfCommission
  <2> QED
    BY <2>2, <2>3, <2>4, <2>5
<1>16. Fail \in ProjectionCalls
  <2>1. OfCommission \in Provenances /\ "failed" \in TenantLifecycleStates
    BY DEF Provenances, OfCommission, TenantLifecycleStates
  <2> QED
    BY <2>1, ProjectionCallsAre DEF Fail, OfCommission
<1>17. CASE CommissionAnswered(h)
  <2>1. c.call = "awaitCommission"
    BY <1>2, <1>17 DEF CommissionAnswered, Calls, Argument
  <2>2. PICK outcome : outcome = receipt[t][c.attempt]
    OBVIOUS
  <2>3. /\ <<Bind(outcome), Record(c.attempt, "completed")>> \in Seq(ProjectionCalls)
        /\ <<Bind(outcome), Record(c.attempt, "partial")>> \in Seq(ProjectionCalls)
        /\ <<Record(c.attempt, "failed"), Fail>> \in Seq(ProjectionCalls)
    BY <1>10, <1>11, <1>15, <1>16, <2>1, ListsAreTyped
  <2>4. PICK todo :
          todo = CASE outcome = "completed" -> <<Bind(outcome), Record(c.attempt, "completed")>>
                   [] outcome = "partially_completed" ->
                        <<Bind(outcome), Record(c.attempt, "partial")>>
                   [] OTHER -> <<Record(c.attempt, "failed"), Fail>>
    OBVIOUS
  <2>5. Continue(h, todo)
    BY <1>2, <1>17, <2>2, <2>4 DEF CommissionAnswered
  <2> QED
    BY <1>4, <2>3, <2>4, <2>5
<1>18. CASE RepairProjection(h)
  <2>1. c.observed \in AccessStates
    BY <1>2, <1>5, <1>18, WhatIsCalled DEF RepairProjection, Calls, Argument
  <2>2. /\ <<InsertLegacy(c.observed)>> \in Seq(ProjectionCalls)
        /\ HasProjection(t) => <<Refresh(ProvenanceOf(t), c.observed)>> \in Seq(ProjectionCalls)
    BY <2>1, BoundRow, ProjectionCallsAre, ListsAreTyped
  <2>3. PICK todo : todo = CASE ~HasProjection(t) -> <<InsertLegacy(c.observed)>>
                             [] HasProjection(t) /\ NeedsRefresh(Projection(t), c.observed) ->
                                  <<Refresh(ProvenanceOf(t), c.observed)>>
                             [] OTHER -> <<>>
    OBVIOUS
  <2>4. todo \in Seq(ProjectionCalls)
    BY <2>2, <2>3, ListsAreTyped
  <2>5. Continue(h, todo)
    BY <1>2, <1>18, <2>3 DEF RepairProjection
  <2> QED
    BY <1>4, <2>4, <2>5
<1>19. CASE ResolveByReceipt(h)
  <2>1. c.call = "receipt"
    BY <1>2, <1>19 DEF ResolveByReceipt, Calls, Argument
  <2>2. PICK outcome : outcome = receipt[t][c.attempt]
    OBVIOUS
  <2>3. Sync(outcome) \in ProjectionCalls
    BY <1>10, <2>1, <2>2, ProjectionCallsAre DEF ProjectionIInv, ProjectionTyped
  <2>4. /\ <<Resolve(c.attempt, "completed"), Sync(outcome)>> \in Seq(ProjectionCalls)
        /\ <<Resolve(c.attempt, "failed"), Sync(outcome)>> \in Seq(ProjectionCalls)
        /\ <<Resolve(c.attempt, "partial")>> \in Seq(ProjectionCalls)
    BY <1>10, <1>11, <2>1, <2>3, ListsAreTyped
  <2>5. PICK rest2 : rest2 = IF c.listed = "running" THEN <<Resolve(c.attempt, "partial")>> ELSE <<>>
    OBVIOUS
  <2>6. rest2 \in Seq(ProjectionCalls) /\ <<Sync(outcome)>> \o rest2 \in Seq(ProjectionCalls)
    BY <2>3, <2>4, <2>5, ListsAreTyped, Prepended
  <2>7. PICK todo :
          todo = CASE outcome = "completed" -> <<Resolve(c.attempt, "completed"), Sync(outcome)>>
                   [] outcome = "partially_completed" -> <<Sync(outcome)>> \o rest2
                   [] OTHER -> <<Resolve(c.attempt, "failed"), Sync(outcome)>>
    OBVIOUS
  <2>8. todo \in Seq(ProjectionCalls)
    BY <2>4, <2>6, <2>7
  <2>9. Continue(h, todo)
    BY <1>2, <1>19, <2>2, <2>5, <2>7 DEF ResolveByReceipt
  <2> QED
    BY <1>4, <2>8, <2>9
<1>20. CASE SyncCommissionProjection(h)
  <2>1. PICK row : row = rows[t]["governance_commissioned"]
    OBVIOUS
  <2>2. PICK first : first = Synced(row, c.outcome)
    OBVIOUS
  <2>3. first \in {<<[Bind(c.outcome) EXCEPT !.observed = "unknown"]>>, <<Fail>>, <<>>}
    BY <2>2 DEF Synced
  <2>4. first \o rest \in Seq(ProjectionCalls)
    <3>1. first \in Seq(ProjectionCalls)
      BY <1>15, <1>16, <2>3, ListsAreTyped
    <3> QED
      BY <1>2, <3>1, ConcatProperties
  <2>5. Continue(h, first \o rest)
    BY <1>2, <1>20, <2>1, <2>2 DEF SyncCommissionProjection
  <2> QED
    BY <1>4, <2>4, <2>5
<1> QED
  BY <1>7, <1>8, <1>9, <1>12, <1>13, <1>14, <1>17, <1>18, <1>19, <1>20 DEF ProjectionStep

\* Types are kept with the invariant.
ProjectionTypes == ProjectionIInv /\ ProjectionHandlersTyped /\ CountersTyped

LEMMA ProjectionTypesKept ==
  ProjectionTypes /\ [ProjectionNext]_projectionVars => ProjectionTypes'
<1> SUFFICES ASSUME ProjectionTypes, [ProjectionNext]_projectionVars
             PROVE  ProjectionHandlersTyped' /\ CountersTyped'
  BY ProjectionNextIInv DEF ProjectionTypes
<1> USE DEF ProjectionTypes, CountersTyped
<1>1. ASSUME NEW h \in Handlers, ProjectionStep(h)
      PROVE  ProjectionHandlersTyped' /\ CountersTyped'
  <2>1. ProjectionHandlersTyped'
    BY <1>1, ProjectionStepTyped
  <2>2. UNCHANGED <<wire, commands, interrupted>> /\ (UNCHANGED late \/ TransitionTimesOut(h))
    BY <1>1 DEF ProjectionStep, CheckTransition, WriteTransition, CreateLegacyExisting,
       RefreshObservedState, TransitionAnswered, TransitionTimesOut, FindProjection,
       CommissionAnswered, CommissionTimesOut, RecordAttempt, RepairProjection, ResolveByReceipt,
       SyncCommissionProjection
  <2>3. late' \subseteq Tenants \X AccessStates
    <3>1. CASE TransitionTimesOut(h)
      <4>1. PICK t, to : t = About(h) /\ to = Argument(h).to
        OBVIOUS
      <4>2. t \in Tenants /\ Asking(t, proc[h].todo) /\ Argument(h).call = "await"
        BY <3>1, <4>1, Here DEF TransitionTimesOut
      <4>3. to \in AccessStates
        BY <4>1, <4>2, WhatIsCalled DEF Argument
      <4>4. late' = late \cup {<<t, to>>}
        BY <3>1, <4>1 DEF TransitionTimesOut
      <4> QED
        BY <4>2, <4>3, <4>4
    <3> QED
      BY <2>2, <3>1
  <2> QED
    BY <2>1, <2>2, <2>3
<1>2. ASSUME NEW h \in Handlers, Interrupt(h)
      PROVE  ProjectionHandlersTyped' /\ CountersTyped'
  <2>1. ProjectionHandlersTyped'
    BY <1>2, StopTyped DEF Interrupt, ProjectionHandlersTyped
  <2>2. About(h) \in Tenants
    BY <1>2, CallTyped DEF Interrupt, ProjectionHandlersTyped
  <2> QED
    BY <1>2, <2>1, <2>2 DEF Interrupt
<1>3. ASSUME NEW h \in Handlers, NEW t \in Tenants, CommissionRoutes(h, t)
      PROVE  ProjectionHandlersTyped' /\ CountersTyped'
  <2>1. PICK a \in Attempts : SendAttempt(h, t, a) /\ UNCHANGED <<late, interrupted>>
    BY <1>3 DEF CommissionRoutes, RequestCommission, RequestRepair
  <2>2. <<AwaitCommission(a)>> \in Seq(ProjectionCalls) /\ <<AwaitCommission(a)>> # <<>>
    BY ProjectionCallsAre, ListsAreTyped
  <2>3. ProjectionHandlersTyped'
    BY <2>1, <2>2, BeginTyped DEF SendAttempt, ProjectionHandlersTyped
  <2>4. commands' \in 0..MaxCommands /\ wire' \subseteq Tenants \X Attempts
    BY <2>1, ProjectionAssumption DEF SendAttempt
  <2> QED
    BY <2>1, <2>3, <2>4
<1>4. ASSUME NEW h \in Handlers, NEW t \in Tenants, NEW to \in AccessStates,
             RequestTransition(h, t, to)
      PROVE  ProjectionHandlersTyped' /\ CountersTyped'
  <2>1. <<AwaitTransition(to)>> \in Seq(ProjectionCalls) /\ <<AwaitTransition(to)>> # <<>>
    BY ProjectionCallsAre, ListsAreTyped
  <2>2. ProjectionHandlersTyped'
    BY <1>4, <2>1, BeginTyped DEF RequestTransition, ProjectionHandlersTyped
  <2>3. commands' \in 0..MaxCommands
    BY <1>4, ProjectionAssumption DEF RequestTransition
  <2> QED
    BY <1>4, <2>2, <2>3 DEF RequestTransition
<1>5. ASSUME NEW h \in Handlers, NEW t \in Tenants, RecheckRoutes(h, t)
      PROVE  ProjectionHandlersTyped' /\ CountersTyped'
  <2>1. /\ \A a \in Attempts : /\ <<ReadReceipt(a, commission[t][a])>> \in Seq(ProjectionCalls)
                              /\ <<ReadReceipt(a, commission[t][a])>> # <<>>
        /\ platform[t] # "none" =>
             <<FindFor(platform[t])>> \in Seq(ProjectionCalls) /\ <<FindFor(platform[t])>> # <<>>
    BY ProjectionCallsAre, ListsAreTyped DEF ProjectionIInv, ProjectionTyped
  <2>2. ProjectionHandlersTyped'
    BY <1>5, <2>1, BeginTyped DEF RecheckRoutes, ReconcileTenant, RecheckCommission,
       ProjectionHandlersTyped
  <2> QED
    BY <1>5, <2>2 DEF RecheckRoutes, ReconcileTenant, RecheckCommission
<1>6. ASSUME NEW t \in Tenants,
             \/ \E a \in Attempts : OwnerCommissions(t, a)
             \/ \E to \in AccessStates : LateCommandArrives(t, to)
      PROVE  ProjectionHandlersTyped' /\ CountersTyped'
  BY <1>6, SameTyped DEF OwnerCommissions, LateCommandArrives, ProjectionHandlersTyped
<1>7. CASE UNCHANGED projectionVars
  BY <1>7, SameTyped DEF projectionVars, ProjectionHandlersTyped
<1> QED
  BY <1>1, <1>2, <1>3, <1>4, <1>5, <1>6, <1>7 DEF ProjectionNext, TransitionRoutes

\* The rows, the owner's records and the requests keep their types, for any
\* numbers of tenants, commands and requests.
THEOREM ProjectionTypesHold == ProjectionSpec => []ProjectionTypeOK
<1>1. ProjectionInit => ProjectionTypes
  BY ProjectionInitIInv, IdleTyped, ProjectionAssumption DEF ProjectionInit, ProjectionTypes,
     CountersTyped, ProjectionHandlersTyped
<1>2. ProjectionTypes => ProjectionTypeOK
  BY HandlersTypedOK DEF ProjectionTypes, ProjectionIInv, ProjectionTyped, CountersTyped,
     ProjectionHandlersTyped, ProjectionTypeOK
<1> QED
  BY <1>1, <1>2, ProjectionTypesKept, PTL DEF ProjectionSpec
===============================================================================
