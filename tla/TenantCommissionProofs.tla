------------------------ MODULE TenantCommissionProofs ------------------------
(***************************************************************************)
(* What the projection and the ledger say of a tenant is what the owner    *)
(* did, for every set of keys, requests and sweeps.                        *)
(*                                                                         *)
(* A request is early until it has the owner's answer or has given up on   *)
(* it, and late from then on.  One early request at most drives a key, and *)
(* none takes it up again: what a late request has read of the receipt is  *)
(* therefore final, whoever else is at work.                               *)
(***************************************************************************)
EXTENDS TenantCommission, Integers, SequenceTheorems, TLAPS

Processes == Executors \cup Sweepers

Work == [key : Keys, todo : Seq(HandlerCalls), checked : BOOLEAN]

Typed ==
  /\ operations \in [Keys -> OperationRows \cup {NoRow}]
  /\ projection \in Projections \cup {NoRow}
  /\ tenant \in BOOLEAN
  /\ receipts \in [Keys -> ReceiptStatuses]
  /\ DOMAIN proc = Processes

\* What an early request has still to do.
E1 == <<Await>>
E2 == <<Dispatch, Await>>
E3 == <<Ledger("running", "none"), Dispatch, Await>>
E4 == <<Ledger("accepted", "none"), Ledger("running", "none"), Dispatch, Await>>
E5 == <<Project("provisioning", FALSE), Ledger("accepted", "none"),
        Ledger("running", "none"), Dispatch, Await>>
E6 == <<Project("approved", FALSE), Project("provisioning", FALSE),
        Ledger("accepted", "none"), Ledger("running", "none"), Dispatch, Await>>
E7 == <<Create, Project("approved", FALSE), Project("provisioning", FALSE),
        Ledger("accepted", "none"), Ledger("running", "none"), Dispatch, Await>>

Early == {E1, E2, E3, E4, E5, E6, E7}

Unsent == {"submitted", "accepted"}

Done == \E k \in Keys : receipts[k] = "completed"

\* No early request drives the key.
Quiet(k) ==
  \A e \in Executors : proc[e] # Idle /\ proc[e].key = k => proc[e].todo \notin Early

\* The owner has created no tenant under the key ...
Empty(k) == operations[k] # NoRow /\ receipts[k] \in {"none", "failed"}

\* ... and never will.
Dead(k) == Quiet(k) /\ Empty(k)

\* What a late request still has to write is true.
LateCalls(row, created, done, empty) ==
  {c \in HandlerCalls :
     \/ /\ c.call = "ledger" /\ c.to \notin Unsent
        /\ c.to = "completed" \/ c.stage = "commission-partial" => created
     \/ /\ c.call = "project" /\ row
        /\ \/ c.to = "active" /\ c.binds /\ done
           \/ c.to = "provisioning" /\ c.binds /\ created
           \/ c.to = "failed" /\ ~c.binds /\ empty
     \/ c.call = "receipt"
     \/ /\ c.call = "sync"
        /\ c.outcome = "completed" => done
        /\ c.outcome = "partially_completed" => created
        /\ c.outcome \in {"none", "failed"} => empty}

EarlyOK(k, todo) ==
  /\ todo \in Early
  /\ todo # E1 => receipts[k] = "none"
  /\ todo # E7 => projection # NoRow
  /\ todo \in {E1, E2} => operations[k].status \notin Unsent

LateOK(k, todo) ==
  /\ Quiet(k) /\ todo # <<>>
  /\ todo \in Seq(LateCalls(projection # NoRow, tenant, Done, Empty(k)))

WorkOK(p, w) ==
  \/ w = Idle
  \/ /\ w \in Work
     /\ operations[w.key] # NoRow
     /\ (p \in Executors /\ EarlyOK(w.key, w.todo)) \/ LateOK(w.key, w.todo)

Working == \A p \in Processes : WorkOK(p, proc[p])

\* Two requests never drive one key.
Single ==
  \A d, e \in Executors :
    proc[d] # Idle /\ proc[e] # Idle /\ proc[d].key = proc[e].key => d = e

Receipted ==
  /\ \A k \in Keys :
       /\ receipts[k] # "none" =>
            operations[k] # NoRow /\ operations[k].status \notin Unsent
       /\ receipts[k] \in {"partially_completed", "completed"} => tenant
       /\ operations[k] # NoRow /\ operations[k].stage = "mutation-call" => Quiet(k)
  /\ tenant => \E k \in Keys : receipts[k] \in {"partially_completed", "completed"}

FailedIsDead ==
  projection # NoRow /\ projection.state = "failed" => \E k \in Keys : Dead(k)

IInv ==
  /\ Typed
  /\ Working
  /\ Single
  /\ Receipted
  /\ ActiveMeansCommissioned
  /\ RecordedTenantExists
  /\ FailedIsDead

(***************************************************************************)
(* Calls and lists of calls                                                *)
(***************************************************************************)
LEMMA CallFacts ==
  /\ Create.call = "create" /\ Dispatch.call = "dispatch" /\ Await.call = "await"
  /\ Create \in HandlerCalls /\ Dispatch \in HandlerCalls /\ Await \in HandlerCalls
  /\ \A to, stage : /\ Ledger(to, stage).call = "ledger"
                    /\ Ledger(to, stage).to = to /\ Ledger(to, stage).stage = stage
  /\ \A to, binds : /\ Project(to, binds).call = "project"
                    /\ Project(to, binds).to = to /\ Project(to, binds).binds = binds
  /\ \A listed : /\ ReadReceipt(listed).call = "receipt"
                 /\ ReadReceipt(listed).listed = listed
  /\ \A outcome : Sync(outcome).call = "sync" /\ Sync(outcome).outcome = outcome
  BY DEF Create, Dispatch, Await, Ledger, Project, ReadReceipt, Sync, HandlerCalls

LEMMA CallTypes ==
  /\ \A to \in OperationStatuses, stage \in Stages : Ledger(to, stage) \in HandlerCalls
  /\ \A to \in TenantLifecycleStates, binds \in BOOLEAN : Project(to, binds) \in HandlerCalls
  /\ \A listed \in OperationStatuses : ReadReceipt(listed) \in HandlerCalls
  /\ \A outcome \in ReceiptStatuses : Sync(outcome) \in HandlerCalls
  BY DEF HandlerCalls

LEMMA CallForms ==
  ASSUME NEW c \in HandlerCalls
  PROVE  /\ c.call = "ledger" => c.to \in OperationStatuses /\ c.stage \in Stages
         /\ c.call = "project" => c.to \in TenantLifecycleStates /\ c.binds \in BOOLEAN
         /\ c.call = "receipt" => c.listed \in OperationStatuses
         /\ c.call = "sync" => c.outcome \in ReceiptStatuses
  BY CallFacts DEF HandlerCalls

LEMMA FourCalls ==
  ASSUME NEW a, NEW b, NEW c, NEW d
  PROVE  <<a, b, c, d>> # <<>> /\ Head(<<a, b, c, d>>) = a
         /\ Tail(<<a, b, c, d>>) = <<b, c, d>>
  OBVIOUS

LEMMA FourTyped ==
  ASSUME NEW S, NEW a \in S, NEW b \in S, NEW c \in S, NEW d \in S
  PROVE  <<a, b, c, d>> \in Seq(S)
  OBVIOUS

LEMMA FiveCalls ==
  ASSUME NEW a, NEW b, NEW c, NEW d, NEW e
  PROVE  <<a, b, c, d, e>> # <<>> /\ Head(<<a, b, c, d, e>>) = a
         /\ Tail(<<a, b, c, d, e>>) = <<b, c, d, e>>
  OBVIOUS

LEMMA FiveTyped ==
  ASSUME NEW S, NEW a \in S, NEW b \in S, NEW c \in S, NEW d \in S, NEW e \in S
  PROVE  <<a, b, c, d, e>> \in Seq(S)
  OBVIOUS

LEMMA SixCalls ==
  ASSUME NEW a, NEW b, NEW c, NEW d, NEW e, NEW f
  PROVE  <<a, b, c, d, e, f>> # <<>> /\ Head(<<a, b, c, d, e, f>>) = a
         /\ Tail(<<a, b, c, d, e, f>>) = <<b, c, d, e, f>>
  OBVIOUS

LEMMA SixTyped ==
  ASSUME NEW S, NEW a \in S, NEW b \in S, NEW c \in S, NEW d \in S, NEW e \in S, NEW f \in S
  PROVE  <<a, b, c, d, e, f>> \in Seq(S)
  OBVIOUS

LEMMA SevenCalls ==
  ASSUME NEW a, NEW b, NEW c, NEW d, NEW e, NEW f, NEW g
  PROVE  <<a, b, c, d, e, f, g>> # <<>> /\ Head(<<a, b, c, d, e, f, g>>) = a
         /\ Tail(<<a, b, c, d, e, f, g>>) = <<b, c, d, e, f, g>>
  OBVIOUS

LEMMA SevenTyped ==
  ASSUME NEW S, NEW a \in S, NEW b \in S, NEW c \in S, NEW d \in S, NEW e \in S, NEW f \in S,
         NEW g \in S
  PROVE  <<a, b, c, d, e, f, g>> \in Seq(S)
  OBVIOUS

LEMMA EarlyCalls ==
  /\ Ledger("running", "none") \in HandlerCalls
  /\ Ledger("accepted", "none") \in HandlerCalls
  /\ Project("provisioning", FALSE) \in HandlerCalls
  /\ Project("approved", FALSE) \in HandlerCalls
  /\ Create \in HandlerCalls /\ Dispatch \in HandlerCalls /\ Await \in HandlerCalls
  BY CallFacts, CallTypes DEF OperationStatuses, Stages, TenantLifecycleStates

LEMMA EarlyShape ==
  /\ Head(E1) = Await /\ Tail(E1) = <<>> /\ E1 # <<>>
  /\ Head(E2) = Dispatch /\ Tail(E2) = E1 /\ E2 # <<>>
  /\ Head(E3) = Ledger("running", "none") /\ Tail(E3) = E2 /\ E3 # <<>>
  /\ Head(E4) = Ledger("accepted", "none") /\ Tail(E4) = E3 /\ E4 # <<>>
  /\ Head(E5) = Project("provisioning", FALSE) /\ Tail(E5) = E4 /\ E5 # <<>>
  /\ Head(E6) = Project("approved", FALSE) /\ Tail(E6) = E5 /\ E6 # <<>>
  /\ Head(E7) = Create /\ Tail(E7) = E6 /\ E7 # <<>>
<1>1. Head(E1) = Await /\ Tail(E1) = <<>> /\ E1 # <<>>
  BY DEF E1
<1>2. Head(E2) = Dispatch /\ Tail(E2) = E1 /\ E2 # <<>>
  BY DEF E1, E2
<1>3. Head(E3) = Ledger("running", "none") /\ Tail(E3) = E2 /\ E3 # <<>>
  BY DEF E2, E3
<1>4. Head(E4) = Ledger("accepted", "none") /\ Tail(E4) = E3 /\ E4 # <<>>
  BY FourCalls DEF E3, E4
<1>5. Head(E5) = Project("provisioning", FALSE) /\ Tail(E5) = E4 /\ E5 # <<>>
  BY FiveCalls DEF E4, E5
<1>6. Head(E6) = Project("approved", FALSE) /\ Tail(E6) = E5 /\ E6 # <<>>
  <2>1. Head(E6) = Project("approved", FALSE)
    BY SixCalls DEF E6
  <2>2. Tail(E6) = E5
    <3>1. PICK a : a = Project("approved", FALSE)
      OBVIOUS
    <3>2. PICK b : b = Project("provisioning", FALSE)
      OBVIOUS
    <3>3. PICK c, d : c = Ledger("accepted", "none") /\ d = Ledger("running", "none")
      OBVIOUS
    <3>4. E6 = <<a, b, c, d, Dispatch, Await>> /\ E5 = <<b, c, d, Dispatch, Await>>
      BY <3>1, <3>2, <3>3 DEF E5, E6
    <3>5. Tail(<<a, b, c, d, Dispatch, Await>>) = <<b, c, d, Dispatch, Await>>
      BY SixCalls
    <3> QED
      BY <3>4, <3>5, Zenon
  <2>3. E6 # <<>>
    BY SixCalls DEF E6
  <2> QED
    BY <2>1, <2>2, <2>3
<1>7. Head(E7) = Create /\ Tail(E7) = E6 /\ E7 # <<>>
  <2>1. Head(E7) = Create
    BY SevenCalls DEF E7
  <2>2. Tail(E7) = E6
    <3>1. PICK a : a = Project("approved", FALSE)
      OBVIOUS
    <3>2. PICK b : b = Project("provisioning", FALSE)
      OBVIOUS
    <3>3. PICK c, d : c = Ledger("accepted", "none") /\ d = Ledger("running", "none")
      OBVIOUS
    <3>4. E7 = <<Create, a, b, c, d, Dispatch, Await>> /\ E6 = <<a, b, c, d, Dispatch, Await>>
      BY <3>1, <3>2, <3>3 DEF E6, E7
    <3>5. Tail(<<Create, a, b, c, d, Dispatch, Await>>) = <<a, b, c, d, Dispatch, Await>>
      BY SevenCalls
    <3> QED
      BY <3>4, <3>5, Zenon
  <2>3. E7 # <<>>
    BY SevenCalls DEF E7
  <2> QED
    BY <2>1, <2>2, <2>3
<1> QED
  BY <1>1, <1>2, <1>3, <1>4, <1>5, <1>6, <1>7

LEMMA EarlyTyped ==
  Early \subseteq Seq(HandlerCalls)
<1>2. E1 \in Seq(HandlerCalls) /\ E2 \in Seq(HandlerCalls) /\ E3 \in Seq(HandlerCalls)
  BY EarlyCalls DEF E1, E2, E3
<1>3. E4 \in Seq(HandlerCalls)
  BY EarlyCalls, FourTyped, Zenon DEF E4
<1>4. E5 \in Seq(HandlerCalls)
  BY EarlyCalls, FiveTyped, Zenon DEF E5
<1>5. E6 \in Seq(HandlerCalls)
  BY EarlyCalls, SixTyped, Zenon DEF E6
<1>6. E7 \in Seq(HandlerCalls)
  BY EarlyCalls, SevenTyped, Zenon DEF E7
<1> QED
  BY <1>2, <1>3, <1>4, <1>5, <1>6 DEF Early

LEMMA EarlyEnds ==
  ASSUME NEW todo \in Early
  PROVE  todo # <<>> /\ \E i \in 1..Len(todo) : todo[i] = Await
<1>1. todo # <<>>
  BY EarlyShape DEF Early
<1>2. CASE todo \in {E1, E2, E3, E4}
  BY <1>1, <1>2 DEF E1, E2, E3, E4
<1>3. CASE todo = E5
  <2>1. Len(todo) = 5 /\ todo[5] = Await
    BY <1>3 DEF E5
  <2> QED
    BY <1>1, <2>1
<1>4. CASE todo = E6
  <2>1. Len(todo) = 6 /\ todo[6] = Await
    BY <1>4 DEF E6
  <2> QED
    BY <1>1, <2>1
<1>5. CASE todo = E7
  <2>1. Len(todo) = 7 /\ todo[7] = Await
    BY <1>5 DEF E7
  <2> QED
    BY <1>1, <2>1
<1> QED
  BY <1>2, <1>3, <1>4, <1>5 DEF Early

\* A list without an await is not early.
LEMMA LateIsNotEarly ==
  ASSUME NEW S, \A c \in S : c.call # "await", NEW todo \in Seq(S)
  PROVE  todo \notin Early
<1> SUFFICES ASSUME todo \in Early PROVE FALSE
  OBVIOUS
<1>1. PICK i \in 1..Len(todo) : todo[i] = Await
  BY EarlyEnds
<1>2. todo[i] \in S
  BY ElementOfSeq
<1> QED
  BY <1>1, <1>2, CallFacts

LEMMA LateFacts ==
  ASSUME NEW row, NEW created, NEW done, NEW empty,
         NEW c \in LateCalls(row, created, done, empty)
  PROVE  c \in HandlerCalls /\ c.call \in {"ledger", "project", "receipt", "sync"}
  BY DEF LateCalls

LEMMA EarlyAndLate ==
  ASSUME NEW k, NEW todo, LateOK(k, todo)
  PROVE  /\ todo \notin Early
         /\ todo # <<>>
         /\ Head(todo) \in LateCalls(projection # NoRow, tenant, Done, Empty(k))
         /\ Tail(todo) \in Seq(LateCalls(projection # NoRow, tenant, Done, Empty(k)))
         /\ todo \in Seq(HandlerCalls)
<1> DEFINE S == LateCalls(projection # NoRow, tenant, Done, Empty(k))
<1>1. todo \in Seq(S) /\ todo # <<>>
  BY DEF LateOK
<1>2. \A c \in S : c \in HandlerCalls /\ c.call # "await"
  BY LateFacts
<1> HIDE DEF S
<1>3. todo \notin Early
  BY <1>1, <1>2, LateIsNotEarly
<1>4. Head(todo) \in S /\ Tail(todo) \in Seq(S)
  BY <1>1, HeadTailProperties
<1>5. todo \in Seq(HandlerCalls)
  BY <1>1, <1>2, SeqMonotonic
<1> QED
  BY <1>1, <1>3, <1>4, <1>5 DEF S

(***************************************************************************)
(* What no step undoes                                                     *)
(***************************************************************************)
Steady ==
  /\ projection # NoRow => projection' # NoRow
  /\ tenant => tenant'
  /\ Done => Done'
  /\ \A k \in Keys : operations[k] # NoRow =>
       /\ operations'[k] # NoRow
       /\ operations[k].status \notin Unsent => operations'[k].status \notin Unsent
       /\ Quiet(k) => Quiet(k)'
       /\ Quiet(k) /\ receipts[k] \in {"none", "failed"} => receipts'[k] \in {"none", "failed"}

LEMMA DeadStays ==
  ASSUME Steady, NEW k \in Keys, Dead(k)
  PROVE  Dead(k)'
  BY DEF Steady, Dead, Empty

LEMMA LateStays ==
  ASSUME Steady, NEW k \in Keys, operations[k] # NoRow, NEW todo, LateOK(k, todo)
  PROVE  LateOK(k, todo)'
<1> DEFINE S == LateCalls(projection # NoRow, tenant, Done, Empty(k))
           T == LateCalls(projection' # NoRow, tenant', Done', Empty(k)')
<1>1. Quiet(k)'
  BY DEF Steady, LateOK
<1>2. /\ projection # NoRow => projection' # NoRow
      /\ tenant => tenant'
      /\ Done => Done'
  BY DEF Steady
<1>3. Empty(k) => Empty(k)'
  BY DEF Steady, LateOK, Empty
<1>4. S \subseteq T
  BY <1>2, <1>3 DEF LateCalls
<1>5. todo # <<>> /\ todo \in Seq(S)
  BY DEF LateOK
<1> HIDE DEF S, T
<1>6. todo \in Seq(T)
  BY <1>4, <1>5, SeqMonotonic
<1> QED
  BY <1>1, <1>5, <1>6 DEF T, LateOK

LEMMA WorkStays ==
  ASSUME Steady, NEW p \in Processes, NEW w, WorkOK(p, w),
         w # Idle /\ w.todo \in Early /\ w.todo # E1 /\ receipts[w.key] = "none" =>
           receipts'[w.key] = "none"
  PROVE  WorkOK(p, w)'
<1>1. CASE w = Idle
  BY <1>1 DEF WorkOK
<1>2. CASE w # Idle
  <2>1. PICK k \in Keys : k = w.key
    BY <1>2 DEF WorkOK, Work
  <2>2. PICK todo : todo = w.todo
    OBVIOUS
  <2>3. w \in Work /\ operations[k] # NoRow /\ operations'[k] # NoRow
    BY <1>2, <2>1 DEF WorkOK, Steady
  <2>4. CASE p \in Executors /\ EarlyOK(k, todo)
    <3>1. todo # E1 => receipts[k] = "none" /\ receipts'[k] = "none"
      BY <1>2, <2>1, <2>2, <2>4 DEF EarlyOK
    <3>2. EarlyOK(k, todo)'
      BY <2>3, <2>4, <3>1 DEF EarlyOK, Steady
    <3> QED
      BY <2>1, <2>2, <2>3, <2>4, <3>2 DEF WorkOK
  <2>5. CASE LateOK(k, todo)
    <3>1. LateOK(k, todo)'
      BY <2>3, <2>5, LateStays
    <3> QED
      BY <2>1, <2>2, <2>3, <3>1 DEF WorkOK
  <2> QED
    BY <1>2, <2>1, <2>2, <2>4, <2>5 DEF WorkOK
<1> QED
  BY <1>1, <1>2

\* A request that was not early does not become it, unless its key is new.
LEMMA QuietStays ==
  ASSUME NEW p \in Processes, NEW w, DOMAIN proc = Processes, proc' = [proc EXCEPT ![p] = w],
         \/ w = Idle
         \/ w.todo \notin Early
         \/ operations[w.key] = NoRow
         \/ p \in Executors /\ proc[p] # Idle /\ w.key = proc[p].key /\ proc[p].todo \in Early,
         NEW k, operations[k] # NoRow, Quiet(k)
  PROVE  Quiet(k)'
<1> SUFFICES ASSUME NEW e \in Executors, proc'[e] # Idle, proc'[e].key = k,
                    proc'[e].todo \in Early
             PROVE  FALSE
  BY Zenon DEF Quiet
<1>1. CASE e # p
  <2>1. proc'[e] = proc[e]
    BY <1>1 DEF Processes
  <2> QED
    BY <2>1, Zenon DEF Quiet
<1>2. CASE e = p
  <2>1. proc'[e] = w
    BY <1>2 DEF Processes
  <2>2. proc[e] # Idle /\ proc[e].key = k /\ proc[e].todo \in Early
    BY <1>2, <2>1
  <2> QED
    BY <2>2, Zenon DEF Quiet
<1> QED
  BY <1>1, <1>2

\* A request that has learnt its answer leaves its key quiet.
LEMMA LeavesQuiet ==
  ASSUME Typed, Single, NEW e \in Executors, NEW w, proc' = [proc EXCEPT ![e] = w],
         proc[e] # Idle, w = Idle \/ w.todo \notin Early,
         NEW k, k = proc[e].key
  PROVE  Quiet(k)'
<1> SUFFICES ASSUME NEW d \in Executors, proc'[d] # Idle, proc'[d].key = k,
                    proc'[d].todo \in Early
             PROVE  FALSE
  BY Zenon DEF Quiet
<1>1. CASE d # e
  <2>1. proc'[d] = proc[d]
    BY <1>1 DEF Processes, Typed
  <2> QED
    BY <1>1, <2>1 DEF Single
<1>2. CASE d = e
  BY <1>2 DEF Processes, Typed
<1> QED
  BY <1>1, <1>2

\* A step of one request leaves the others at work.
LEMMA OthersWork ==
  ASSUME Typed, Working, Single, Steady,
         NEW p \in Processes, NEW w, proc' = [proc EXCEPT ![p] = w], WorkOK(p, w)',
         p \in Executors /\ w # Idle =>
           operations[w.key] = NoRow \/ (proc[p] # Idle /\ w.key = proc[p].key),
         UNCHANGED receipts
  PROVE  Working' /\ Single' /\ DOMAIN proc' = Processes
<1>1. DOMAIN proc' = Processes /\ proc'[p] = w
      /\ \A q \in Processes \ {p} : proc'[q] = proc[q]
  BY DEF Typed
<1>2. ASSUME NEW q \in Processes
      PROVE  WorkOK(q, proc[q])'
  <2>1. CASE q = p
    BY <1>1, <2>1
  <2>2. CASE q # p
    <3>1. PICK v : v = proc[q]
      OBVIOUS
    <3>2. WorkOK(q, v)
      BY <3>1 DEF Working
    <3>3. WorkOK(q, v)'
      BY <3>2, WorkStays
    <3>4. v = proc'[q]
      BY <1>1, <2>2, <3>1
    <3> QED
      BY <3>3, <3>4
  <2> QED
    BY <2>1, <2>2
<1>3. ASSUME NEW d \in Executors, NEW e \in Executors, proc'[d] # Idle, proc'[e] # Idle,
             proc'[d].key = proc'[e].key
      PROVE  d = e
  <2>1. ASSUME NEW f \in Executors, f # p, proc[f] # Idle
        PROVE  operations[proc[f].key] # NoRow
    BY <2>1 DEF Working, WorkOK, Processes
  <2> QED
    BY <1>1, <1>3, <2>1 DEF Single, Processes
<1> QED
  BY <1>1, <1>2, <1>3 DEF Working, Single

\* A request keeps its key, and takes a new one alone.
Fits(p, w) ==
  w # Idle =>
    \/ operations[w.key] = NoRow
    \/ /\ p \in Executors => proc[p] # Idle /\ w.key = proc[p].key
       /\ w.todo \in Early => p \in Executors /\ proc[p].todo \in Early

LEMMA FitsQuietly ==
  ASSUME Typed, NEW p \in Processes, NEW w, proc' = [proc EXCEPT ![p] = w], Fits(p, w)
  PROVE  \A k : operations[k] # NoRow /\ Quiet(k) => Quiet(k)'
<1> SUFFICES ASSUME NEW k, operations[k] # NoRow, Quiet(k) PROVE Quiet(k)'
  OBVIOUS
<1>1. \/ w = Idle
      \/ w.todo \notin Early
      \/ operations[w.key] = NoRow
      \/ p \in Executors /\ proc[p] # Idle /\ w.key = proc[p].key /\ proc[p].todo \in Early
  BY DEF Fits
<1>2. DOMAIN proc = Processes
  BY DEF Typed
<1> QED
  BY <1>1, <1>2, QuietStays

\* A step that writes no table.
LEMMA OnlyWork ==
  ASSUME IInv, NEW p \in Processes, NEW w, proc' = [proc EXCEPT ![p] = w], Fits(p, w),
         WorkOK(p, w)', UNCHANGED <<operations, projection, tenant, receipts>>
  PROVE  IInv'
<1>1. \A k : operations[k] # NoRow /\ Quiet(k) => Quiet(k)'
  BY FitsQuietly DEF IInv
<1>2. Steady
  BY <1>1 DEF Steady, Done
<1>3. p \in Executors /\ w # Idle =>
        operations[w.key] = NoRow \/ (proc[p] # Idle /\ w.key = proc[p].key)
  BY DEF Fits
<1>4. Working' /\ Single' /\ DOMAIN proc' = Processes
  BY <1>2, <1>3, OthersWork DEF IInv
<1>5. Typed'
  BY <1>4 DEF IInv, Typed
<1>6. Receipted'
  BY <1>1 DEF IInv, Receipted
<1>7. ActiveMeansCommissioned' /\ RecordedTenantExists'
  BY DEF IInv, ActiveMeansCommissioned, RecordedTenantExists
<1>8. FailedIsDead'
  BY <1>1 DEF IInv, FailedIsDead, Dead, Empty
<1> QED
  BY <1>4, <1>5, <1>6, <1>7, <1>8 DEF IInv

LEMMA ShapeOf ==
  ASSUME IInv, NEW p \in Processes, proc[p] # Idle
  PROVE  \E k \in Keys, todo \in Seq(HandlerCalls) :
           /\ proc[p].key = k /\ proc[p].todo = todo
           /\ operations[k] # NoRow
           /\ (p \in Executors /\ EarlyOK(k, todo)) \/ LateOK(k, todo)
<1>1. PICK w : w = proc[p]
  OBVIOUS
<1>2. WorkOK(p, w)
  BY <1>1 DEF IInv, Working
<1>3. /\ w \in Work /\ operations[w.key] # NoRow
      /\ (p \in Executors /\ EarlyOK(w.key, w.todo)) \/ LateOK(w.key, w.todo)
  BY <1>1, <1>2 DEF WorkOK
<1>4. w.key \in Keys /\ w.todo \in Seq(HandlerCalls) /\ w.checked \in BOOLEAN
  BY <1>3 DEF Work
<1> QED
  BY <1>1, <1>3, <1>4, Zenon

LEMMA ContinueIs ==
  ASSUME NEW p, NEW todo, Continue(p, todo)
  PROVE  proc' = [proc EXCEPT ![p] =
                    IF todo = <<>> THEN Idle
                    ELSE [key |-> proc[p].key, todo |-> todo, checked |-> FALSE]]
  BY DEF Continue, Begin

\* What a late request may still have to do under a key.
LateLists(k) == Seq(LateCalls(projection # NoRow, tenant, Done, Empty(k)))

LEMMA LateListFacts ==
  ASSUME NEW k, NEW todo \in LateLists(k)
  PROVE  todo \notin Early /\ todo \in Seq(HandlerCalls)
<1> DEFINE S == LateCalls(projection # NoRow, tenant, Done, Empty(k))
<1>1. \A c \in S : c \in HandlerCalls /\ c.call # "await"
  BY LateFacts
<1>2. todo \in Seq(S)
  BY DEF LateLists
<1> HIDE DEF S
<1> QED
  BY <1>1, <1>2, LateIsNotEarly, SeqMonotonic

\* A request that is late, or becomes it, goes on with what is true.
LEMMA LateGoesOn ==
  ASSUME IInv, NEW p \in Processes, proc[p] # Idle,
         NEW k \in Keys, proc[p].key = k, operations[k] # NoRow, p \in Executors \/ Quiet(k),
         NEW todo \in LateLists(k), Continue(p, todo),
         UNCHANGED <<operations, projection, tenant, receipts>>
  PROVE  IInv'
<1>1. PICK w : w = IF todo = <<>> THEN Idle
                   ELSE [key |-> k, todo |-> todo, checked |-> FALSE]
  OBVIOUS
<1>2. proc' = [proc EXCEPT ![p] = w]
  BY <1>1, ContinueIs
<1>3. todo \notin Early /\ todo \in Seq(HandlerCalls)
  BY LateListFacts
<1>4. w = Idle \/ (w.key = k /\ w.todo = todo)
  BY <1>1
<1>5. Fits(p, w)
  BY <1>3, <1>4 DEF Fits
<1>6. Quiet(k)'
  <2>1. CASE p \in Executors
    BY <1>2, <1>3, <1>4, <2>1, LeavesQuiet DEF IInv
  <2>2. CASE Quiet(k)
    BY <1>2, <1>5, <2>2, FitsQuietly DEF IInv
  <2> QED
    BY <2>1, <2>2
<1>7. WorkOK(p, w)'
  <2>1. CASE todo = <<>>
    BY <1>1, <2>1 DEF WorkOK
  <2>2. CASE todo # <<>>
    <3>1. LateOK(k, todo)'
      BY <1>6, <2>2 DEF LateOK, LateLists, Done, Empty
    <3>2. w \in Work /\ w.key = k /\ w.todo = todo
      BY <1>1, <1>3, <2>2 DEF Work
    <3> QED
      BY <3>1, <3>2 DEF WorkOK
  <2> QED
    BY <2>1, <2>2
<1> QED
  BY <1>2, <1>5, <1>7, OnlyWork

LEMMA EarlyNames ==
  /\ Head(E1).call = "await" /\ Head(E2).call = "dispatch"
  /\ Head(E3).call = "ledger" /\ Head(E3).to = "running" /\ Head(E3).stage = "none"
  /\ Head(E4).call = "ledger" /\ Head(E4).to = "accepted" /\ Head(E4).stage = "none"
  /\ Head(E5).call = "project" /\ Head(E5).to = "provisioning" /\ Head(E5).binds = FALSE
  /\ Head(E6).call = "project" /\ Head(E6).to = "approved" /\ Head(E6).binds = FALSE
  /\ Head(E7).call = "create"
<1>1. Head(E1).call = "await" /\ Head(E2).call = "dispatch"
  BY EarlyShape DEF Await, Dispatch
<1>2. Head(E3).call = "ledger" /\ Head(E3).to = "running" /\ Head(E3).stage = "none"
  BY EarlyShape DEF Ledger
<1>3. Head(E4).call = "ledger" /\ Head(E4).to = "accepted" /\ Head(E4).stage = "none"
  BY EarlyShape DEF Ledger
<1>4. Head(E5).call = "project" /\ Head(E5).to = "provisioning" /\ Head(E5).binds = FALSE
  BY EarlyShape DEF Project
<1>5. Head(E6).call = "project" /\ Head(E6).to = "approved" /\ Head(E6).binds = FALSE
  BY EarlyShape DEF Project
<1>6. Head(E7).call = "create"
  BY EarlyShape DEF Create
<1> QED
  BY <1>1, <1>2, <1>3, <1>4, <1>5, <1>6

\* The heads of early lists are all different.
LEMMA EarlyHeads ==
  ASSUME NEW todo \in Early
  PROVE  /\ Head(todo).call = "await" => todo = E1
         /\ Head(todo).call = "dispatch" => todo = E2
         /\ Head(todo).call = "ledger" => todo \in {E3, E4}
         /\ Head(todo).call = "project" => todo \in {E5, E6}
         /\ Head(todo).call = "create" => todo = E7
         /\ Head(todo).call \notin {"receipt", "sync"}
  BY EarlyNames DEF Early

LEMMA EarlyDistinct ==
  /\ E2 # E1 /\ E3 \notin {E1, E2} /\ E4 \notin {E1, E2} /\ E5 \notin {E1, E2}
  /\ E6 \notin {E1, E2} /\ E7 \notin {E1, E2, E3, E4, E5, E6}
  /\ E3 # E4 /\ E5 # E6
  BY EarlyNames

(***************************************************************************)
(* The steps that write no table                                           *)
(***************************************************************************)
LEMMA StopKeeps ==
  ASSUME IInv, NEW p \in Processes, Stop(p),
         UNCHANGED <<operations, projection, tenant, receipts>>
  PROVE  IInv'
<1>1. proc' = [proc EXCEPT ![p] = Idle]
  BY DEF Stop
<1>2. Fits(p, Idle)
  BY DEF Fits
<1>3. WorkOK(p, Idle)'
  BY DEF WorkOK
<1> QED
  BY <1>1, <1>2, <1>3, OnlyWork

LEMMA AbandonKeeps ==
  ASSUME IInv, NEW p \in Processes, Abandon(p)
  PROVE  IInv'
  BY StopKeeps DEF Abandon

LEMMA LedgerListed ==
  ASSUME NEW row, NEW created, NEW done, NEW empty,
         NEW to \in OperationStatuses, NEW stage \in Stages, to \notin Unsent,
         to = "completed" \/ stage = "commission-partial" => created
  PROVE  Ledger(to, stage) \in LateCalls(row, created, done, empty)
<1>1. Ledger(to, stage) \in HandlerCalls
  BY CallTypes
<1> QED
  BY <1>1 DEF LateCalls, Ledger

LEMMA ProjectListed ==
  ASSUME NEW row, NEW created, NEW done, NEW empty,
         NEW to, NEW binds \in BOOLEAN, row,
         \/ to = "active" /\ binds /\ done
         \/ to = "provisioning" /\ binds /\ created
         \/ to = "failed" /\ ~binds /\ empty
  PROVE  Project(to, binds) \in LateCalls(row, created, done, empty)
<1>1. Project(to, binds) \in HandlerCalls
  BY CallTypes DEF TenantLifecycleStates
<1> QED
  BY <1>1 DEF LateCalls, Project

LEMMA SyncListed ==
  ASSUME NEW row, NEW created, NEW done, NEW empty,
         NEW outcome \in ReceiptStatuses,
         outcome = "completed" => done,
         outcome = "partially_completed" => created,
         outcome \in {"none", "failed"} => empty
  PROVE  Sync(outcome) \in LateCalls(row, created, done, empty)
<1>1. Sync(outcome) \in HandlerCalls
  BY CallTypes
<1> QED
  BY <1>1 DEF LateCalls, Sync

LEMMA Pair ==
  ASSUME NEW S, NEW a \in S, NEW b \in S
  PROVE  <<a, b>> \in Seq(S) /\ <<a>> \in Seq(S)
  OBVIOUS

LEMMA FailListed ==
  ASSUME NEW k \in Keys, Empty(k), projection # NoRow
  PROVE  Fail \in LateLists(k)
<1> DEFINE S == LateCalls(projection # NoRow, tenant, Done, Empty(k))
<1>1. Ledger("failed", "none") \in S
  BY LedgerListed DEF OperationStatuses, Stages, Unsent
<1>2. Project("failed", FALSE) \in S
  BY ProjectListed
<1> HIDE DEF S
<1>3. Fail \in Seq(S)
  BY <1>1, <1>2, Pair, Zenon DEF Fail
<1> QED
  BY <1>3 DEF LateLists, S

LEMMA SendKeeps ==
  ASSUME IInv, NEW e \in Executors, Send(e)
  PROVE  IInv'
<1>1. PICK k \in Keys, todo \in Seq(HandlerCalls) :
        /\ proc[e].key = k /\ proc[e].todo = todo
        /\ operations[k] # NoRow
        /\ EarlyOK(k, todo) \/ LateOK(k, todo)
  BY ShapeOf DEF Send, Calls, Busy, Processes
<1>2. Head(todo).call = "dispatch" /\ proc[e] # Idle /\ proc[e].key = k
  BY <1>1 DEF Send, Calls, Busy
<1>3. EarlyOK(k, todo) /\ todo = E2
  <2>1. ~LateOK(k, todo)
    BY <1>2, EarlyAndLate, LateFacts
  <2> QED
    BY <1>1, <1>2, <2>1, EarlyHeads DEF EarlyOK
<1>4. receipts[k] = "none" /\ projection # NoRow /\ operations[k].status \notin Unsent
  BY <1>3, EarlyDistinct DEF EarlyOK
<1>5. UNCHANGED <<operations, projection, tenant, receipts>>
  BY DEF Send
<1>6. CASE Continue(e, Rest(e))
  <2>1. Rest(e) = E1
    BY <1>1, <1>3, EarlyShape DEF Rest
  <2>2. PICK w : w = [key |-> k, todo |-> E1, checked |-> FALSE]
    OBVIOUS
  <2>3. proc' = [proc EXCEPT ![e] = w]
    BY <1>2, <1>6, <2>1, <2>2, ContinueIs, EarlyShape
  <2>4. w \in Work
    BY <2>2, EarlyTyped DEF Work, Early
  <2>5. WorkOK(e, w)'
    BY <1>1, <1>4, <1>5, <2>2, <2>4, EarlyDistinct DEF WorkOK, EarlyOK, Early
  <2>6. Fits(e, w)
    BY <1>1, <1>2, <1>3, <2>2 DEF Fits, EarlyOK
  <2> QED
    BY <1>5, <2>3, <2>5, <2>6, OnlyWork DEF Processes
<1>7. CASE Continue(e, Fail)
  <2>1. PICK list : list = Fail
    OBVIOUS
  <2>2. list \in LateLists(k)
    BY <1>1, <1>4, <2>1, FailListed DEF Empty
  <2> QED
    BY <1>1, <1>2, <1>5, <1>7, <2>1, <2>2, LateGoesOn DEF Processes
<1> QED
  BY <1>6, <1>7 DEF Send

LEMMA ReceiveReplyKeeps ==
  ASSUME IInv, NEW e \in Executors, ReceiveReply(e)
  PROVE  IInv'
<1>1. PICK k \in Keys, todo \in Seq(HandlerCalls) :
        /\ proc[e].key = k /\ proc[e].todo = todo
        /\ operations[k] # NoRow
        /\ EarlyOK(k, todo) \/ LateOK(k, todo)
  BY ShapeOf DEF ReceiveReply, Calls, Busy, Processes
<1>2. Head(todo).call = "await" /\ proc[e] # Idle
  BY <1>1 DEF ReceiveReply, Calls, Busy
<1>3. EarlyOK(k, todo) /\ todo = E1
  <2>1. ~LateOK(k, todo)
    BY <1>2, EarlyAndLate, LateFacts
  <2> QED
    BY <1>1, <1>2, <2>1, EarlyHeads DEF EarlyOK
<1>4. projection # NoRow
  BY <1>3, EarlyDistinct DEF EarlyOK
<1>5. UNCHANGED <<operations, projection, tenant, receipts>>
  BY DEF ReceiveReply
<1> DEFINE S == LateCalls(projection # NoRow, tenant, Done, Empty(k))
<1>6. ASSUME NEW list \in LateLists(k), Continue(e, list)
      PROVE  IInv'
  BY <1>1, <1>2, <1>5, <1>6, LateGoesOn DEF Processes
<1>7. CASE receipts[k] = "completed"
           /\ Continue(e, <<Project("active", TRUE), Ledger("completed", "none")>>)
  <2>1. Done /\ tenant
    BY <1>7 DEF Done, IInv, Receipted
  <2>2. Project("active", TRUE) \in S
    BY <1>4, <2>1, ProjectListed
  <2>3. Ledger("completed", "none") \in S
    BY <2>1, LedgerListed DEF OperationStatuses, Stages, Unsent
  <2> HIDE DEF S
  <2>4. <<Project("active", TRUE), Ledger("completed", "none")>> \in LateLists(k)
    BY <2>2, <2>3, Pair, Zenon DEF LateLists, S
  <2> QED
    BY <1>6, <1>7, <2>4
<1>8. CASE receipts[k] = "partially_completed"
           /\ Continue(e, <<Project("provisioning", TRUE),
                            Ledger("partially_completed", "commission-partial")>>)
  <2>1. tenant
    BY <1>8 DEF IInv, Receipted
  <2>2. Project("provisioning", TRUE) \in S
    BY <1>4, <2>1, ProjectListed
  <2>3. Ledger("partially_completed", "commission-partial") \in S
    BY <2>1, LedgerListed DEF OperationStatuses, Stages, Unsent
  <2> HIDE DEF S
  <2>4. <<Project("provisioning", TRUE), Ledger("partially_completed", "commission-partial")>>
          \in LateLists(k)
    BY <2>2, <2>3, Pair, Zenon DEF LateLists, S
  <2> QED
    BY <1>6, <1>8, <2>4
<1>9. CASE receipts[k] \in {"none", "failed"} /\ Continue(e, Fail)
  <2>1. PICK list : list = Fail
    OBVIOUS
  <2>2. list \in LateLists(k)
    BY <1>1, <1>4, <1>9, <2>1, FailListed DEF Empty
  <2> QED
    BY <1>6, <1>9, <2>1, <2>2
<1> QED
  BY <1>1, <1>7, <1>8, <1>9 DEF ReceiveReply

LEMMA CallTimesOutKeeps ==
  ASSUME IInv, NEW e \in Executors, CallTimesOut(e)
  PROVE  IInv'
<1>1. PICK k \in Keys, todo \in Seq(HandlerCalls) :
        /\ proc[e].key = k /\ proc[e].todo = todo
        /\ operations[k] # NoRow
        /\ EarlyOK(k, todo) \/ LateOK(k, todo)
  BY ShapeOf DEF CallTimesOut, Calls, Busy, Processes
<1>2. proc[e] # Idle
  BY DEF CallTimesOut, Calls, Busy
<1> DEFINE S == LateCalls(projection # NoRow, tenant, Done, Empty(k))
<1>3. Ledger("partially_completed", "mutation-call") \in S
  BY LedgerListed DEF OperationStatuses, Stages, Unsent
<1>4. PICK list : list = <<Ledger("partially_completed", "mutation-call")>>
  OBVIOUS
<1> HIDE DEF S
<1>5. list \in LateLists(k)
  BY <1>3, <1>4, Pair, Zenon DEF LateLists, S
<1>6. Continue(e, list) /\ UNCHANGED <<operations, projection, tenant, receipts>>
  BY <1>4 DEF CallTimesOut
<1> QED
  BY <1>1, <1>2, <1>5, <1>6, LateGoesOn DEF Processes

\* A sweep is never early.
LEMMA SweepShape ==
  ASSUME IInv, NEW s \in Sweepers, proc[s] # Idle
  PROVE  \E k \in Keys, todo \in Seq(HandlerCalls) :
           /\ proc[s].key = k /\ proc[s].todo = todo
           /\ operations[k] # NoRow
           /\ LateOK(k, todo)
  BY ShapeOf, CommissionAssumption DEF Processes

LEMMA ResolveByReceiptKeeps ==
  ASSUME IInv, NEW s \in Sweepers, ResolveByReceipt(s)
  PROVE  IInv'
<1>1. PICK k \in Keys, todo \in Seq(HandlerCalls) :
        /\ proc[s].key = k /\ proc[s].todo = todo
        /\ operations[k] # NoRow
        /\ LateOK(k, todo)
  BY SweepShape DEF ResolveByReceipt, Calls, Busy
<1>2. proc[s] # Idle /\ Quiet(k)
  BY <1>1 DEF ResolveByReceipt, Calls, Busy, LateOK
<1>3. UNCHANGED <<operations, projection, tenant, receipts>>
  BY DEF ResolveByReceipt
<1> DEFINE S == LateCalls(projection # NoRow, tenant, Done, Empty(k))
<1>4. ASSUME NEW list \in LateLists(k), Continue(s, list)
      PROVE  IInv'
  BY <1>1, <1>2, <1>3, <1>4, LateGoesOn DEF Processes
<1>5. CASE Stop(s)
  BY <1>3, <1>5, StopKeeps DEF Processes
<1>6. CASE receipts[k] = "completed"
           /\ Continue(s, <<Ledger("completed", "none"), Sync(receipts[k])>>)
  <2>1. PICK receipt : receipt = receipts[k]
    OBVIOUS
  <2>2. Done /\ tenant
    BY <1>6 DEF Done, IInv, Receipted
  <2>3. Ledger("completed", "none") \in S
    BY <2>2, LedgerListed DEF OperationStatuses, Stages, Unsent
  <2>4. Sync(receipt) \in S
    BY <1>6, <2>1, <2>2, SyncListed DEF ReceiptStatuses
  <2> HIDE DEF S
  <2>5. <<Ledger("completed", "none"), Sync(receipt)>> \in LateLists(k)
    BY <2>3, <2>4, Pair, Zenon DEF LateLists, S
  <2> QED
    BY <1>4, <1>6, <2>1, <2>5
<1>7. CASE receipts[k] \in {"none", "failed"}
           /\ Continue(s, <<Ledger("failed", "none"), Sync(receipts[k])>>)
  <2>1. PICK receipt : receipt = receipts[k]
    OBVIOUS
  <2>2. Empty(k)
    BY <1>1, <1>7 DEF Empty
  <2>3. Ledger("failed", "none") \in S
    BY LedgerListed DEF OperationStatuses, Stages, Unsent
  <2>4. Sync(receipt) \in S
    BY <1>7, <2>1, <2>2, SyncListed DEF ReceiptStatuses
  <2> HIDE DEF S
  <2>5. <<Ledger("failed", "none"), Sync(receipt)>> \in LateLists(k)
    BY <2>3, <2>4, Pair, Zenon DEF LateLists, S
  <2> QED
    BY <1>4, <1>7, <2>1, <2>5
<1>8. CASE receipts[k] = "partially_completed"
           /\ Continue(s, <<Sync(receipts[k])>>
                \o IF Argument(s).listed = "running"
                     THEN <<Ledger("partially_completed", "commission-partial")>> ELSE <<>>)
  <2>1. PICK receipt : receipt = receipts[k]
    OBVIOUS
  <2>2. tenant
    BY <1>8 DEF IInv, Receipted
  <2>3. Ledger("partially_completed", "commission-partial") \in S
    BY <2>2, LedgerListed DEF OperationStatuses, Stages, Unsent
  <2>4. Sync(receipt) \in S
    BY <1>8, <2>1, <2>2, SyncListed DEF ReceiptStatuses
  <2>5. PICK rest : rest = IF Argument(s).listed = "running"
                             THEN <<Ledger("partially_completed", "commission-partial")>>
                             ELSE <<>>
    OBVIOUS
  <2>6. PICK list : list = <<Sync(receipt)>> \o rest
    OBVIOUS
  <2> HIDE DEF S
  <2>7. <<Sync(receipt)>> \in Seq(S) /\ rest \in Seq(S)
    BY <2>3, <2>4, <2>5, Pair
  <2>8. list \in LateLists(k)
    BY <2>6, <2>7, ConcatProperties DEF LateLists, S
  <2> QED
    BY <1>4, <1>8, <2>1, <2>5, <2>6, <2>8
<1> QED
  BY <1>1, <1>5, <1>6, <1>7, <1>8 DEF ResolveByReceipt

LEMMA LateBegins ==
  ASSUME IInv, NEW s \in Sweepers, proc[s] = Idle, NEW k \in Keys, operations[k] # NoRow,
         Quiet(k), NEW todo \in LateLists(k), todo # <<>>, Begin(s, k, todo),
         UNCHANGED <<operations, projection, tenant, receipts>>
  PROVE  IInv'
<1>1. PICK w : w = [key |-> k, todo |-> todo, checked |-> FALSE]
  OBVIOUS
<1>2. proc' = [proc EXCEPT ![s] = w]
  BY <1>1 DEF Begin
<1>3. todo \notin Early /\ todo \in Seq(HandlerCalls)
  BY LateListFacts
<1>4. s \notin Executors /\ s \in Processes
  BY CommissionAssumption DEF Processes
<1>5. w.key = k /\ w.todo = todo /\ w \in Work
  BY <1>1, <1>3 DEF Work
<1>6. Fits(s, w)
  BY <1>3, <1>4, <1>5 DEF Fits
<1>7. Quiet(k)'
  BY <1>2, <1>4, <1>6, FitsQuietly DEF IInv
<1>8. LateOK(k, todo)'
  BY <1>7 DEF LateOK, LateLists, Done, Empty
<1>9. WorkOK(s, w)'
  BY <1>5, <1>8 DEF WorkOK
<1> QED
  BY <1>2, <1>4, <1>6, <1>9, OnlyWork

LEMMA ListKeeps ==
  ASSUME IInv, NEW s \in Sweepers, NEW k \in Keys, List(s, k)
  PROVE  IInv'
<1>1. /\ proc[s] = Idle /\ operations[k] # NoRow
      /\ UNCHANGED <<operations, projection, tenant, receipts>>
  BY DEF List, Busy
<1>2. ~Driven(k) => Quiet(k)
  BY DEF Driven, Busy, Quiet
<1> DEFINE S == LateCalls(projection # NoRow, tenant, Done, Empty(k))
<1>3. ASSUME NEW list \in LateLists(k), list # <<>>, Begin(s, k, list), Quiet(k)
      PROVE  IInv'
  BY <1>1, <1>3, LateBegins
<1>4. CASE /\ operations[k].status \in {"submitted", "accepted"} /\ ~Driven(k)
           /\ Begin(s, k, <<Ledger("failed", "none"), Sync("none")>>)
  <2>1. Empty(k)
    BY <1>1, <1>4 DEF Empty, IInv, Receipted, Unsent
  <2>2. Ledger("failed", "none") \in S
    BY LedgerListed DEF OperationStatuses, Stages, Unsent
  <2>3. Sync("none") \in S
    BY <2>1, SyncListed DEF ReceiptStatuses
  <2>4. PICK list : list = <<Ledger("failed", "none"), Sync("none")>>
    OBVIOUS
  <2> HIDE DEF S
  <2>5. list \in LateLists(k)
    BY <2>2, <2>3, <2>4, Pair, Zenon DEF LateLists, S
  <2>6. list # <<>>
    BY <2>4
  <2> QED
    BY <1>2, <1>3, <1>4, <2>4, <2>5, <2>6
<1>5. CASE /\ \/ operations[k].status = "running" /\ ~Driven(k)
              \/ operations[k].stage = "mutation-call"
           /\ Begin(s, k, <<ReadReceipt(operations[k].status)>>)
  <2>1. Quiet(k)
    BY <1>1, <1>2, <1>5 DEF IInv, Receipted
  <2>2. PICK listed : listed = operations[k].status
    OBVIOUS
  <2>3. listed \in OperationStatuses
    <3>1. operations[k] \in OperationRows
      BY <1>1 DEF IInv, Typed
    <3> QED
      BY <2>2, <3>1 DEF OperationRows
  <2>4. ReadReceipt(listed) \in HandlerCalls
    BY <2>3, CallTypes
  <2>5. ReadReceipt(listed) \in S
    BY <2>4 DEF LateCalls, ReadReceipt
  <2>6. PICK list : list = <<ReadReceipt(listed)>>
    OBVIOUS
  <2> HIDE DEF S
  <2>7. list \in LateLists(k)
    BY <2>5, <2>6, Pair, Zenon DEF LateLists, S
  <2>8. list # <<>>
    BY <2>6
  <2> QED
    BY <1>3, <1>5, <2>1, <2>2, <2>6, <2>7, <2>8
<1> QED
  BY <1>4, <1>5 DEF List

LEMMA SyncProjectionKeeps ==
  ASSUME IInv, NEW s \in Sweepers, SyncProjection(s)
  PROVE  IInv'
<1>1. PICK k \in Keys, todo \in Seq(HandlerCalls) :
        /\ proc[s].key = k /\ proc[s].todo = todo
        /\ operations[k] # NoRow
        /\ LateOK(k, todo)
  BY SweepShape DEF SyncProjection, Calls, Busy
<1>2. /\ proc[s] # Idle /\ Quiet(k) /\ Head(todo).call = "sync"
      /\ UNCHANGED <<operations, projection, tenant, receipts>>
  BY <1>1 DEF SyncProjection, Calls, Busy, LateOK
<1> DEFINE S == LateCalls(projection # NoRow, tenant, Done, Empty(k))
<1>3. Head(todo) \in S /\ Tail(todo) \in Seq(S)
  BY <1>1, EarlyAndLate
<1>4. PICK outcome : outcome = Head(todo).outcome
  OBVIOUS
<1>5. /\ outcome = "completed" => Done
      /\ outcome = "partially_completed" => tenant
      /\ outcome \in {"none", "failed"} => Empty(k)
  BY <1>2, <1>3, <1>4 DEF LateCalls
<1>6. PICK first : first = SyncTransition(outcome)
  OBVIOUS
<1>7. first \in Seq(S)
  <2>1. CASE first = <<>>
    BY <2>1
  <2>2. CASE first # <<>>
    <3>1. /\ projection # NoRow
          /\ \/ outcome = "completed" /\ first = <<Project("active", TRUE)>>
             \/ outcome = "partially_completed" /\ first = <<Project("provisioning", TRUE)>>
             \/ outcome \in {"failed", "none"} /\ first = <<Project("failed", FALSE)>>
      BY <1>6, <2>2 DEF SyncTransition
    <3>2. outcome = "completed" => Project("active", TRUE) \in S
      BY <1>5, <3>1, ProjectListed
    <3>3. outcome = "partially_completed" => Project("provisioning", TRUE) \in S
      BY <1>5, <3>1, ProjectListed
    <3>4. outcome \in {"failed", "none"} => Project("failed", FALSE) \in S
      BY <1>5, <3>1, ProjectListed
    <3> HIDE DEF S
    <3>5. ASSUME NEW c \in S PROVE <<c>> \in Seq(S)
      BY Pair
    <3> QED
      BY <3>1, <3>2, <3>3, <3>4, <3>5, Zenon
  <2> QED
    BY <2>1, <2>2
<1>8. PICK list : list = first \o Tail(todo)
  OBVIOUS
<1> HIDE DEF S
<1>9. list \in LateLists(k)
  BY <1>3, <1>7, <1>8, ConcatProperties DEF LateLists, S
<1>10. Continue(s, list)
  BY <1>1, <1>4, <1>6, <1>8 DEF SyncProjection, Argument, Rest
<1> QED
  BY <1>1, <1>2, <1>9, <1>10, LateGoesOn DEF Processes

LEMMA CheckProjectionKeeps ==
  ASSUME IInv, NEW p \in Processes, CheckProjection(p)
  PROVE  IInv'
<1>1. UNCHANGED <<operations, projection, tenant, receipts>> /\ proc[p] # Idle
  BY DEF CheckProjection, Calls, Busy
<1>2. CASE Stop(p)
  BY <1>1, <1>2, StopKeeps
<1>3. CASE proc' = [proc EXCEPT ![p].checked = TRUE]
  <2>1. PICK k \in Keys, todo \in Seq(HandlerCalls) :
          /\ proc[p].key = k /\ proc[p].todo = todo
          /\ operations[k] # NoRow
          /\ (p \in Executors /\ EarlyOK(k, todo)) \/ LateOK(k, todo)
    BY <1>1, ShapeOf
  <2>2. PICK v : v = proc[p]
    OBVIOUS
  <2>3. v \in Work
    BY <1>1, <2>2 DEF IInv, Working, WorkOK
  <2>4. PICK w : w = [v EXCEPT !.checked = TRUE]
    OBVIOUS
  <2>5. w \in Work /\ w.key = k /\ w.todo = todo
    BY <2>1, <2>2, <2>3, <2>4 DEF Work
  <2>6. proc' = [proc EXCEPT ![p] = w]
    BY <1>3, <2>2, <2>4
  <2>7. Fits(p, w)
    <3>1. CASE p \in Executors
      BY <1>1, <2>1, <2>5, <3>1 DEF Fits
    <3>2. CASE p \notin Executors
      BY <2>1, <2>5, <3>2, EarlyAndLate DEF Fits
    <3> QED
      BY <3>1, <3>2
  <2>8. Quiet(k) => Quiet(k)'
    BY <2>1, <2>6, <2>7, FitsQuietly DEF IInv
  <2>9. WorkOK(p, w)'
    <3>1. CASE p \in Executors /\ EarlyOK(k, todo)
      <4>1. EarlyOK(k, todo)'
        BY <1>1, <3>1 DEF EarlyOK
      <4> QED
        BY <1>1, <2>1, <2>5, <3>1, <4>1 DEF WorkOK
    <3>2. CASE LateOK(k, todo)
      <4>1. LateOK(k, todo)'
        BY <1>1, <2>8, <3>2 DEF LateOK, Done, Empty
      <4> QED
        BY <1>1, <2>1, <2>5, <4>1 DEF WorkOK
    <3> QED
      BY <2>1, <3>1, <3>2
  <2> QED
    BY <1>1, <2>6, <2>7, <2>9, OnlyWork
<1> QED
  BY <1>2, <1>3 DEF CheckProjection

(***************************************************************************)
(* The steps of the two routes                                             *)
(***************************************************************************)
LEMMA Openings ==
  /\ <<Create, Project("approved", FALSE), Project("provisioning", FALSE)>> \o Attempt = E7
  /\ Attempt = E4
<1>1. Attempt = E4
  BY DEF Attempt, E4
<1>2. PICK a : a = Project("approved", FALSE)
  OBVIOUS
<1>3. PICK b : b = Project("provisioning", FALSE)
  OBVIOUS
<1>4. PICK c, d : c = Ledger("accepted", "none") /\ d = Ledger("running", "none")
  OBVIOUS
<1> DEFINE S == {Create, a, b, c, d, Dispatch, Await}
           first == <<Create, a, b>>
           second == <<c, d, Dispatch, Await>>
           joined == first \o second
           all == <<Create, a, b, c, d, Dispatch, Await>>
<1>5. /\ first \in Seq(S) /\ Len(first) = 3
      /\ first[1] = Create /\ first[2] = a /\ first[3] = b
  OBVIOUS
<1>6. /\ second \in Seq(S) /\ Len(second) = 4
      /\ second[1] = c /\ second[2] = d /\ second[3] = Dispatch /\ second[4] = Await
  OBVIOUS
<1>7. all \in Seq(S)
  BY SevenTyped
<1>8. /\ Len(all) = 7
      /\ all[1] = Create /\ all[2] = a /\ all[3] = b /\ all[4] = c
      /\ all[5] = d /\ all[6] = Dispatch /\ all[7] = Await
  OBVIOUS
<1> HIDE DEF first, second, S, all
<1>9. /\ joined \in Seq(S) /\ Len(joined) = 7
      /\ \A i \in 1..7 : joined[i] = IF i <= 3 THEN first[i] ELSE second[i - 3]
  <2>1. first \in Seq(S) /\ second \in Seq(S) /\ Len(first) = 3 /\ Len(second) = 4
    BY <1>5, <1>6
  <2>2. /\ joined \in Seq(S) /\ Len(joined) = Len(first) + Len(second)
        /\ \A i \in 1..(Len(first) + Len(second)) :
              joined[i] = IF i <= Len(first) THEN first[i] ELSE second[i - Len(first)]
    BY <2>1, ConcatProperties
  <2> HIDE DEF joined
  <2> QED
    BY <2>1, <2>2
<1> HIDE DEF joined
<1>10. /\ joined[1] = Create /\ joined[2] = a /\ joined[3] = b
       /\ joined[4] = c /\ joined[5] = d /\ joined[6] = Dispatch /\ joined[7] = Await
  BY <1>5, <1>6, <1>9
<1>11. \A i \in 1..7 : joined[i] = all[i]
  BY <1>8, <1>10
<1>12. joined = all
  BY <1>7, <1>8, <1>9, <1>11, SeqEqual
<1>13. all = E7
  BY <1>2, <1>3, <1>4 DEF all, E7
<1>14. second = E4
  BY <1>4 DEF second, E4
<1> QED
  BY <1>1, <1>2, <1>3, <1>12, <1>13, <1>14, Zenon DEF joined, first

LEMMA RequestArrives ==
  ASSUME IInv, NEW e \in Executors, NEW k \in Keys, proc[e] = Idle, operations[k] = NoRow,
         Submit(k), NEW todo \in {E4, E7}, Begin(e, k, todo),
         todo # E7 => projection # NoRow,
         UNCHANGED <<projection, tenant, receipts>>
  PROVE  IInv'
<1>1. PICK w : w = [key |-> k, todo |-> todo, checked |-> FALSE]
  OBVIOUS
<1>2. proc' = [proc EXCEPT ![e] = w]
  BY <1>1 DEF Begin
<1>3. w.key = k /\ w.todo = todo /\ w \in Work
  BY <1>1, EarlyTyped DEF Work, Early
<1>4. Fits(e, w)
  BY <1>3 DEF Fits
<1>5. \A l : operations[l] # NoRow /\ Quiet(l) => Quiet(l)'
  BY <1>2, <1>4, FitsQuietly DEF IInv, Processes
<1>6. PICK row : row = [status |-> "submitted", stage |-> "none"]
  OBVIOUS
<1>7. row \in OperationRows /\ row.status = "submitted" /\ row.stage = "none"
  BY <1>6 DEF OperationRows, OperationStatuses, Stages
<1>8. row # NoRow
  BY <1>7, CommissionAssumption
<1>9. operations' = [operations EXCEPT ![k] = row]
  BY <1>6 DEF Submit
<1>10. /\ operations' \in [Keys -> OperationRows \cup {NoRow}]
       /\ operations'[k] = row
       /\ \A l \in Keys \ {k} : operations'[l] = operations[l]
  BY <1>7, <1>9 DEF IInv, Typed
<1>11. Steady
  BY <1>5, <1>10 DEF Steady, Done
<1>12. receipts[k] = "none"
  BY DEF IInv, Receipted
<1>13. EarlyOK(k, todo)'
  BY <1>12, EarlyDistinct DEF EarlyOK, Early
<1>14. WorkOK(e, w)'
  BY <1>3, <1>8, <1>10, <1>13 DEF WorkOK
<1>15. Working' /\ Single' /\ DOMAIN proc' = Processes
  BY <1>2, <1>3, <1>11, <1>14, OthersWork DEF IInv, Processes
<1>16. Typed'
  BY <1>10, <1>15 DEF IInv, Typed
<1>17. Receipted'
  <2>1. ASSUME NEW l \in Keys
        PROVE  /\ receipts[l] # "none" =>
                    operations'[l] # NoRow /\ operations'[l].status \notin Unsent
               /\ operations'[l] # NoRow /\ operations'[l].stage = "mutation-call" => Quiet(l)'
    <3>1. CASE l = k
      BY <1>7, <1>10, <1>12, <3>1
    <3>2. CASE l # k
      BY <1>5, <1>10, <3>2 DEF IInv, Receipted
    <3> QED
      BY <3>1, <3>2
  <2> QED
    BY <2>1 DEF IInv, Receipted
<1>18. ActiveMeansCommissioned'
  BY DEF IInv, ActiveMeansCommissioned
<1>19. RecordedTenantExists'
  BY <1>7, <1>10 DEF IInv, RecordedTenantExists
<1>20. FailedIsDead'
  BY <1>11, DeadStays DEF IInv, FailedIsDead
<1> QED
  BY <1>15, <1>16, <1>17, <1>18, <1>19, <1>20 DEF IInv

LEMMA CommissionKeeps ==
  ASSUME IInv, NEW e \in Executors, NEW k \in Keys, Commission(e, k)
  PROVE  IInv'
<1>1. /\ proc[e] = Idle /\ operations[k] = NoRow /\ Submit(k)
      /\ UNCHANGED <<projection, tenant, receipts>>
  BY DEF Commission, Busy
<1>2. Begin(e, k, E7)
  BY Openings DEF Commission
<1>3. PICK todo : todo = E7
  OBVIOUS
<1> QED
  BY <1>1, <1>2, <1>3, RequestArrives

LEMMA RepairKeeps ==
  ASSUME IInv, NEW e \in Executors, NEW k \in Keys, Repair(e, k)
  PROVE  IInv'
<1>1. /\ proc[e] = Idle /\ operations[k] = NoRow /\ Submit(k) /\ projection # NoRow
      /\ UNCHANGED <<projection, tenant, receipts>>
  BY DEF Repair, Busy
<1>2. Begin(e, k, E4)
  BY Openings DEF Repair
<1>3. PICK todo : todo = E4
  OBVIOUS
<1> QED
  BY <1>1, <1>2, <1>3, RequestArrives

LEMMA CreateProjectionKeeps ==
  ASSUME IInv, NEW e \in Executors, CreateProjection(e)
  PROVE  IInv'
<1>1. PICK k \in Keys, todo \in Seq(HandlerCalls) :
        /\ proc[e].key = k /\ proc[e].todo = todo
        /\ operations[k] # NoRow
        /\ EarlyOK(k, todo) \/ LateOK(k, todo)
  BY ShapeOf DEF CreateProjection, Calls, Busy, Processes
<1>2. Head(todo).call = "create" /\ proc[e] # Idle
  BY <1>1 DEF CreateProjection, Calls, Busy
<1>3. EarlyOK(k, todo) /\ todo = E7
  <2>1. ~LateOK(k, todo)
    BY <1>2, EarlyAndLate, LateFacts
  <2> QED
    BY <1>1, <1>2, <2>1, EarlyHeads DEF EarlyOK
<1>4. UNCHANGED <<operations, tenant, receipts>> /\ Continue(e, E6)
  BY <1>1, <1>3, EarlyShape DEF CreateProjection, Rest
<1>5. PICK w : w = [key |-> k, todo |-> E6, checked |-> FALSE]
  OBVIOUS
<1>6. proc' = [proc EXCEPT ![e] = w]
  BY <1>1, <1>4, <1>5, ContinueIs, EarlyShape
<1>7. w \in Work /\ w.key = k /\ w.todo = E6
  BY <1>5, EarlyTyped DEF Work, Early
<1>8. Fits(e, w)
  BY <1>1, <1>2, <1>3, <1>7 DEF Fits, EarlyOK
<1>9. PICK row : row = [state |-> "requested", hasTenant |-> FALSE]
  OBVIOUS
<1>10. projection' = row
  BY <1>9 DEF CreateProjection
<1>11. row \in Projections /\ row.state = "requested" /\ row.hasTenant = FALSE
  BY <1>9 DEF Projections, TenantLifecycleStates
<1>12. row # NoRow
  BY <1>11, CommissionAssumption
<1>13. \A l : operations[l] # NoRow /\ Quiet(l) => Quiet(l)'
  BY <1>6, <1>8, FitsQuietly DEF IInv, Processes
<1>14. Steady
  BY <1>4, <1>10, <1>12, <1>13 DEF Steady, Done
<1>15. receipts[k] = "none"
  BY <1>3, EarlyDistinct DEF EarlyOK
<1>16. EarlyOK(k, E6)'
  BY <1>4, <1>10, <1>12, <1>15, EarlyDistinct DEF EarlyOK, Early
<1>17. WorkOK(e, w)'
  BY <1>1, <1>4, <1>7, <1>16 DEF WorkOK
<1>18. Working' /\ Single' /\ DOMAIN proc' = Processes
  BY <1>1, <1>2, <1>4, <1>6, <1>7, <1>14, <1>17, OthersWork DEF IInv, Processes
<1>19. Typed'
  BY <1>4, <1>10, <1>11, <1>18 DEF IInv, Typed
<1>20. Receipted'
  BY <1>4, <1>13 DEF IInv, Receipted
<1>21. ActiveMeansCommissioned' /\ RecordedTenantExists' /\ FailedIsDead'
  BY <1>4, <1>10, <1>11
     DEF IInv, ActiveMeansCommissioned, RecordedTenantExists, FailedIsDead
<1> QED
  BY <1>18, <1>19, <1>20, <1>21 DEF IInv

(***************************************************************************)
(* The steps that write a table                                            *)
(***************************************************************************)
\* The rest of a request, after its first call.
LEMMA RestIs ==
  ASSUME IInv, NEW p \in Processes, proc[p] # Idle, NEW k \in Keys,
         NEW todo \in Seq(HandlerCalls), proc[p].key = k, proc[p].todo = todo,
         (p \in Executors /\ EarlyOK(k, todo) /\ todo \notin {E1}) \/ LateOK(k, todo),
         Continue(p, Rest(p))
  PROVE  \E w : /\ proc' = [proc EXCEPT ![p] = w]
                /\ Fits(p, w)
                /\ \/ w = Idle
                   \/ w \in Work /\ w.key = k /\ w.todo = Tail(todo) /\ Tail(todo) # <<>>
<1>1. PICK list : list = Tail(todo)
  OBVIOUS
<1>2. PICK w : w = IF list = <<>> THEN Idle
                   ELSE [key |-> k, todo |-> list, checked |-> FALSE]
  OBVIOUS
<1>3. proc' = [proc EXCEPT ![p] = w]
  BY <1>1, <1>2, ContinueIs DEF Rest
<1>4. CASE p \in Executors /\ EarlyOK(k, todo) /\ todo \notin {E1}
  <2>1. todo \in Early /\ list \in Early
    BY <1>1, <1>4, EarlyShape DEF EarlyOK, Early
  <2>2. list \in Seq(HandlerCalls) /\ list # <<>>
    BY <2>1, EarlyTyped, EarlyEnds
  <2>3. w \in Work /\ w.key = k /\ w.todo = list
    BY <1>2, <2>2 DEF Work
  <2>4. Fits(p, w)
    BY <1>4, <2>1, <2>3 DEF Fits
  <2> QED
    BY <1>1, <1>3, <2>2, <2>3, <2>4
<1>5. CASE LateOK(k, todo)
  <2>1. list \in LateLists(k)
    BY <1>1, <1>5, EarlyAndLate DEF LateLists
  <2>2. list \notin Early /\ list \in Seq(HandlerCalls)
    BY <2>1, LateListFacts
  <2>3. w = Idle \/ (w \in Work /\ w.key = k /\ w.todo = list /\ list # <<>>)
    BY <1>2, <2>2 DEF Work
  <2>4. Fits(p, w)
    BY <2>2, <2>3 DEF Fits
  <2> QED
    BY <1>1, <1>3, <2>3, <2>4
<1> QED
  BY <1>4, <1>5

\* A late request that has made its first call has the rest to make.
LEMMA LateRest ==
  ASSUME IInv, Steady, NEW p \in Processes, NEW k \in Keys, NEW todo, operations[k] # NoRow,
         LateOK(k, todo), NEW w,
         w = Idle \/ (w \in Work /\ w.key = k /\ w.todo = Tail(todo) /\ Tail(todo) # <<>>)
  PROVE  WorkOK(p, w)'
<1>1. PICK list : list = Tail(todo)
  OBVIOUS
<1>2. CASE w = Idle
  BY <1>2 DEF WorkOK
<1>3. CASE w \in Work /\ w.key = k /\ w.todo = list /\ list # <<>>
  <2>1. LateOK(k, list)
    BY <1>1, <1>3, EarlyAndLate DEF LateOK
  <2>2. LateOK(k, list)'
    BY <2>1, LateStays
  <2>3. operations'[k] # NoRow
    BY DEF Steady
  <2> QED
    BY <1>3, <2>2, <2>3 DEF WorkOK
<1> QED
  BY <1>1, <1>2, <1>3

\* What transitionOperation is called with, and by whom.
LEMMA LedgerCall ==
  ASSUME IInv, NEW p \in Processes, NEW k \in Keys, NEW todo \in Seq(HandlerCalls),
         NEW c, c = Head(todo), c.call = "ledger",
         (p \in Executors /\ EarlyOK(k, todo)) \/ LateOK(k, todo),
         IsValidTransition(operations[k].status, c.to)
  PROVE  /\ c.to \in OperationStatuses /\ c.stage \in Stages
         /\ c.to \in Unsent => operations[k].status \in Unsent
         /\ c.to = "completed" \/ c.stage = "commission-partial" => tenant
         /\ \/ /\ p \in Executors /\ receipts[k] = "none" /\ projection # NoRow
               /\ c.stage = "none" /\ todo \in Early \ {E1}
               /\ Tail(todo) = E3 \/ (Tail(todo) = E2 /\ c.to \notin Unsent)
            \/ LateOK(k, todo) /\ c.to \notin Unsent
<1>1. CASE p \in Executors /\ EarlyOK(k, todo)
  <2>1. todo \in {E3, E4}
    BY <1>1, EarlyHeads DEF EarlyOK
  <2>2. /\ todo = E3 => c.to = "running" /\ c.stage = "none" /\ Tail(todo) = E2
        /\ todo = E4 => c.to = "accepted" /\ c.stage = "none" /\ Tail(todo) = E3
    BY EarlyNames, EarlyShape
  <2>3. receipts[k] = "none" /\ projection # NoRow /\ todo # E1
    BY <1>1, <2>1, EarlyDistinct DEF EarlyOK
  <2>4. c.to = "accepted" => operations[k].status \in Unsent
    BY DEF IsValidTransition, AllowedTransitions, Unsent
  <2> QED
    BY <1>1, <2>1, <2>2, <2>3, <2>4 DEF Unsent, OperationStatuses, Stages, Early
<1>2. CASE LateOK(k, todo)
  <2>1. c \in LateCalls(projection # NoRow, tenant, Done, Empty(k)) /\ c \in HandlerCalls
    BY <1>2, EarlyAndLate, LateFacts
  <2>2. /\ c.to \notin Unsent
        /\ c.to = "completed" \/ c.stage = "commission-partial" => tenant
    BY <2>1 DEF LateCalls
  <2>3. c.to \in OperationStatuses /\ c.stage \in Stages
    BY <2>1, CallForms
  <2> QED
    BY <1>2, <2>2, <2>3
<1> QED
  BY <1>1, <1>2

LEMMA WriteLedgerKeeps ==
  ASSUME IInv, NEW p \in Processes, WriteLedger(p)
  PROVE  IInv'
<1>1. UNCHANGED <<projection, tenant, receipts>> /\ proc[p] # Idle
  BY DEF WriteLedger, Calls, Busy
<1>2. PICK k \in Keys, todo \in Seq(HandlerCalls) :
        /\ proc[p].key = k /\ proc[p].todo = todo
        /\ operations[k] # NoRow
        /\ (p \in Executors /\ EarlyOK(k, todo)) \/ LateOK(k, todo)
  BY <1>1, ShapeOf
<1>3. PICK c : c = Head(todo)
  OBVIOUS
<1>4. c.call = "ledger"
  BY <1>2, <1>3 DEF WriteLedger, Calls
<1>5. PICK stage : stage = IF c.stage = "none" THEN operations[k].stage ELSE c.stage
  OBVIOUS
<1>6. PICK row : row = [status |-> c.to, stage |-> stage]
  OBVIOUS
<1>7. CASE Stop(p) /\ UNCHANGED operations
  BY <1>1, <1>7, StopKeeps
<1>8. CASE /\ IsValidTransition(operations[k].status, c.to)
           /\ operations' = [operations EXCEPT ![k] = row]
           /\ Continue(p, Rest(p))
  <2>1. /\ c.to \in OperationStatuses /\ c.stage \in Stages
        /\ c.to \in Unsent => operations[k].status \in Unsent
        /\ c.to = "completed" \/ c.stage = "commission-partial" => tenant
        /\ \/ /\ p \in Executors /\ receipts[k] = "none" /\ projection # NoRow
              /\ c.stage = "none" /\ todo \in Early \ {E1}
              /\ Tail(todo) = E3 \/ (Tail(todo) = E2 /\ c.to \notin Unsent)
           \/ LateOK(k, todo) /\ c.to \notin Unsent
    BY <1>2, <1>3, <1>4, <1>8, LedgerCall
  <2>2. operations[k] \in OperationRows
    BY <1>2 DEF IInv, Typed
  <2>3. row \in OperationRows /\ row.status = c.to /\ row.stage = stage
    BY <1>5, <1>6, <2>1, <2>2 DEF OperationRows
  <2>4. row # NoRow
    BY <2>3, CommissionAssumption
  <2>5. /\ operations' \in [Keys -> OperationRows \cup {NoRow}]
        /\ operations'[k] = row
        /\ \A l \in Keys \ {k} : operations'[l] = operations[l]
    BY <1>8, <2>3 DEF IInv, Typed
  <2>6. (p \in Executors /\ EarlyOK(k, todo) /\ todo \notin {E1}) \/ LateOK(k, todo)
    BY <1>2, <2>1
  <2>7. PICK w : /\ proc' = [proc EXCEPT ![p] = w]
                 /\ Fits(p, w)
                 /\ \/ w = Idle
                    \/ w \in Work /\ w.key = k /\ w.todo = Tail(todo) /\ Tail(todo) # <<>>
    BY <1>1, <1>2, <1>8, <2>6, RestIs
  <2>8. \A l : operations[l] # NoRow /\ Quiet(l) => Quiet(l)'
    BY <2>7, FitsQuietly DEF IInv
  <2>9. Steady
    BY <1>1, <2>1, <2>3, <2>4, <2>5, <2>8 DEF Steady, Done
  <2>10. WorkOK(p, w)'
    <3>1. CASE LateOK(k, todo)
      BY <1>2, <2>7, <2>9, <3>1, LateRest
    <3>2. CASE /\ p \in Executors /\ receipts[k] = "none" /\ projection # NoRow
               /\ Tail(todo) = E3 \/ (Tail(todo) = E2 /\ c.to \notin Unsent)
      <4>1. PICK list : list = Tail(todo)
        OBVIOUS
      <4>2. EarlyOK(k, list)'
        BY <1>1, <2>3, <2>5, <3>2, <4>1, EarlyDistinct DEF EarlyOK, Early
      <4> QED
        BY <2>4, <2>5, <2>7, <3>2, <4>1, <4>2 DEF WorkOK
    <3> QED
      BY <2>1, <3>1, <3>2
  <2>11. Working' /\ Single' /\ DOMAIN proc' = Processes
    <3>1. p \in Executors /\ w # Idle =>
            operations[w.key] = NoRow \/ (proc[p] # Idle /\ w.key = proc[p].key)
      BY <1>1, <1>2, <2>7
    <3> QED
      BY <1>1, <2>7, <2>9, <2>10, <3>1, OthersWork DEF IInv
  <2>12. Typed'
    BY <1>1, <2>5, <2>11 DEF IInv, Typed
  <2>13. Receipted'
    <3>1. ASSUME NEW l \in Keys
          PROVE  /\ receipts[l] # "none" =>
                      operations'[l] # NoRow /\ operations'[l].status \notin Unsent
                 /\ operations'[l] # NoRow /\ operations'[l].stage = "mutation-call" => Quiet(l)'
      <4>1. CASE l = k
        <5>1. receipts[k] # "none" => c.to \notin Unsent
          BY <2>1
        <5>2. stage = "mutation-call" => Quiet(k)
          BY <1>2, <1>5, <2>1 DEF IInv, Receipted, LateOK
        <5> QED
          BY <1>2, <2>3, <2>4, <2>5, <2>8, <4>1, <5>1, <5>2
      <4>2. CASE l # k
        BY <2>5, <2>8, <4>2 DEF IInv, Receipted
      <4> QED
        BY <4>1, <4>2
    <3> QED
      BY <1>1, <3>1 DEF IInv, Receipted
  <2>14. ActiveMeansCommissioned'
    BY <1>1 DEF IInv, ActiveMeansCommissioned
  <2>15. RecordedTenantExists'
    <3>1. row.status = "completed" \/ row.stage = "commission-partial" => tenant
      BY <1>2, <1>5, <2>1, <2>3 DEF IInv, RecordedTenantExists
    <3> QED
      BY <1>1, <2>5, <3>1 DEF IInv, RecordedTenantExists
  <2>16. FailedIsDead'
    BY <1>1, <2>9, DeadStays DEF IInv, FailedIsDead
  <2> QED
    BY <2>11, <2>12, <2>13, <2>14, <2>15, <2>16 DEF IInv
<1> QED
  BY <1>2, <1>3, <1>5, <1>6, <1>7, <1>8 DEF WriteLedger, Argument

\* What transitionLifecycleState is called with, and by whom.
ProjectFacts(p, k, todo, c) ==
  /\ c.to \in TenantLifecycleStates /\ c.binds \in BOOLEAN /\ projection # NoRow
  /\ \/ /\ p \in Executors /\ receipts[k] = "none" /\ todo \in Early \ {E1}
        /\ Tail(todo) \in {E4, E5}
        /\ c.to \notin {"active", "failed"} /\ c.binds = FALSE
     \/ /\ LateOK(k, todo)
        /\ \/ c.to = "active" /\ c.binds /\ Done
           \/ c.to = "provisioning" /\ c.binds /\ tenant
           \/ c.to = "failed" /\ ~c.binds /\ Empty(k)

LEMMA ProjectCall ==
  ASSUME IInv, NEW p \in Processes, NEW k \in Keys, NEW todo \in Seq(HandlerCalls),
         NEW c, c = Head(todo), c.call = "project",
         (p \in Executors /\ EarlyOK(k, todo)) \/ LateOK(k, todo)
  PROVE  ProjectFacts(p, k, todo, c)
<1>1. CASE p \in Executors /\ EarlyOK(k, todo)
  <2>1. todo \in {E5, E6}
    BY <1>1, EarlyHeads DEF EarlyOK
  <2>2. /\ todo = E5 => c.to = "provisioning" /\ c.binds = FALSE /\ Tail(todo) = E4
        /\ todo = E6 => c.to = "approved" /\ c.binds = FALSE /\ Tail(todo) = E5
    BY EarlyNames, EarlyShape
  <2>3. receipts[k] = "none" /\ projection # NoRow /\ todo # E1
    BY <1>1, <2>1, EarlyDistinct DEF EarlyOK
  <2> QED
    BY <1>1, <2>1, <2>2, <2>3 DEF ProjectFacts, TenantLifecycleStates, Early
<1>2. CASE LateOK(k, todo)
  <2>1. c \in LateCalls(projection # NoRow, tenant, Done, Empty(k)) /\ c \in HandlerCalls
    BY <1>2, EarlyAndLate, LateFacts
  <2>2. /\ projection # NoRow
        /\ \/ c.to = "active" /\ c.binds /\ Done
           \/ c.to = "provisioning" /\ c.binds /\ tenant
           \/ c.to = "failed" /\ ~c.binds /\ Empty(k)
    BY <2>1 DEF LateCalls
  <2>3. c.to \in TenantLifecycleStates /\ c.binds \in BOOLEAN
    BY <2>1, CallForms
  <2> QED
    BY <1>2, <2>2, <2>3 DEF ProjectFacts
<1> QED
  BY <1>1, <1>2

LEMMA WriteProjectionKeeps ==
  ASSUME IInv, NEW p \in Processes, WriteProjection(p)
  PROVE  IInv'
<1>1. UNCHANGED <<operations, tenant, receipts>> /\ proc[p] # Idle
  BY DEF WriteProjection, Calls, Busy
<1>2. PICK k \in Keys, todo \in Seq(HandlerCalls) :
        /\ proc[p].key = k /\ proc[p].todo = todo
        /\ operations[k] # NoRow
        /\ (p \in Executors /\ EarlyOK(k, todo)) \/ LateOK(k, todo)
  BY <1>1, ShapeOf
<1>3. PICK c : c = Head(todo)
  OBVIOUS
<1>4. c.call = "project"
  BY <1>2, <1>3 DEF WriteProjection, Calls
<1>0. ProjectFacts(p, k, todo, c)
  BY <1>2, <1>3, <1>4, ProjectCall
<1>5. /\ c.to \in TenantLifecycleStates /\ c.binds \in BOOLEAN /\ projection # NoRow
      /\ \/ /\ p \in Executors /\ receipts[k] = "none" /\ todo \in Early \ {E1}
            /\ Tail(todo) \in {E4, E5}
            /\ c.to \notin {"active", "failed"} /\ c.binds = FALSE
         \/ /\ LateOK(k, todo)
            /\ \/ c.to = "active" /\ c.binds /\ Done
               \/ c.to = "provisioning" /\ c.binds /\ tenant
               \/ c.to = "failed" /\ ~c.binds /\ Empty(k)
  BY <1>0, Zenon DEF ProjectFacts
<1>6. PICK row : row = [state |-> c.to, hasTenant |-> projection.hasTenant \/ c.binds]
  OBVIOUS
<1>7. projection' = row /\ Continue(p, Rest(p))
  BY <1>2, <1>3, <1>6 DEF WriteProjection, Argument
<1>8. projection \in Projections
  BY <1>5 DEF IInv, Typed
<1>9. /\ row \in Projections /\ row.state = c.to
      /\ row.hasTenant <=> projection.hasTenant \/ c.binds
  BY <1>5, <1>6, <1>8 DEF Projections
<1>10. row # NoRow
  BY <1>9, CommissionAssumption
<1>11. (p \in Executors /\ EarlyOK(k, todo) /\ todo \notin {E1}) \/ LateOK(k, todo)
  BY <1>2, <1>5
<1>12. PICK w : /\ proc' = [proc EXCEPT ![p] = w]
                /\ Fits(p, w)
                /\ \/ w = Idle
                   \/ w \in Work /\ w.key = k /\ w.todo = Tail(todo) /\ Tail(todo) # <<>>
  BY <1>1, <1>2, <1>7, <1>11, RestIs
<1>13. \A l : operations[l] # NoRow /\ Quiet(l) => Quiet(l)'
  BY <1>12, FitsQuietly DEF IInv
<1>14. Steady
  BY <1>1, <1>7, <1>10, <1>13 DEF Steady, Done
<1>15. WorkOK(p, w)'
  <2>1. CASE LateOK(k, todo)
    BY <1>2, <1>12, <1>14, <2>1, LateRest
  <2>2. CASE p \in Executors /\ receipts[k] = "none" /\ Tail(todo) \in {E4, E5}
    <3>1. PICK list : list = Tail(todo)
      OBVIOUS
    <3>2. EarlyOK(k, list)'
      BY <1>1, <1>7, <1>10, <2>2, <3>1, EarlyDistinct DEF EarlyOK, Early
    <3> QED
      BY <1>1, <1>2, <1>12, <2>2, <3>1, <3>2 DEF WorkOK
  <2> QED
    BY <1>5, <2>1, <2>2
<1>16. Working' /\ Single' /\ DOMAIN proc' = Processes
  <2>1. p \in Executors /\ w # Idle =>
          operations[w.key] = NoRow \/ (proc[p] # Idle /\ w.key = proc[p].key)
    BY <1>1, <1>2, <1>12
  <2> QED
    BY <1>1, <1>12, <1>14, <1>15, <2>1, OthersWork DEF IInv
<1>17. Typed'
  BY <1>1, <1>7, <1>9, <1>16 DEF IInv, Typed
<1>18. Receipted'
  BY <1>1, <1>13 DEF IInv, Receipted
<1>19. ActiveMeansCommissioned'
  <2>1. row.state = "active" => row.hasTenant /\ Done
    BY <1>5, <1>9
  <2>2. Done => tenant
    BY DEF IInv, Receipted, Done
  <2> QED
    BY <1>1, <1>7, <2>1, <2>2 DEF ActiveMeansCommissioned, Done
<1>20. RecordedTenantExists'
  <2>1. Done => tenant
    BY DEF IInv, Receipted, Done
  <2>2. row.hasTenant => tenant
    BY <1>5, <1>9, <2>1 DEF IInv, RecordedTenantExists
  <2> QED
    BY <1>1, <1>7, <2>2 DEF IInv, RecordedTenantExists
<1>21. FailedIsDead'
  <2>1. row.state = "failed" => Dead(k)
    BY <1>5, <1>9 DEF Dead, LateOK
  <2>2. Dead(k) => Dead(k)'
    BY <1>14, DeadStays
  <2> QED
    BY <1>7, <2>1, <2>2 DEF FailedIsDead
<1> QED
  BY <1>16, <1>17, <1>18, <1>19, <1>20, <1>21 DEF IInv

(***************************************************************************)
(* The owner                                                               *)
(***************************************************************************)
\* The owner takes up what a request waits for, and finishes what it took up.
LEMMA OwnerKeeps ==
  ASSUME IInv, NEW k \in Keys, UNCHANGED <<operations, projection, proc>>,
         NEW receipt \in ReceiptStatuses \ {"none"},
         receipts' = [receipts EXCEPT ![k] = receipt],
         tenant' = (tenant \/ receipt \in {"partially_completed", "completed"}),
         \/ receipts[k] = "executing"
         \/ /\ receipts[k] = "none"
            /\ \E e \in Executors : proc[e] # Idle /\ proc[e].key = k /\ proc[e].todo = E1
  PROVE  IInv'
<1>1. /\ receipts' \in [Keys -> ReceiptStatuses] /\ receipts'[k] = receipt
      /\ \A l \in Keys \ {k} : receipts'[l] = receipts[l]
  BY DEF IInv, Typed
<1>2. Typed'
  BY <1>1 DEF IInv, Typed
<1>3. operations[k] # NoRow /\ operations[k].status \notin Unsent
  <2>1. CASE receipts[k] = "executing"
    BY <2>1 DEF IInv, Receipted
  <2>2. CASE receipts[k] = "none"
    <3>1. PICK e \in Executors : proc[e] # Idle /\ proc[e].key = k /\ proc[e].todo = E1
      BY <2>2
    <3>2. ~LateOK(k, E1)
      BY EarlyAndLate DEF Early
    <3>3. operations[k] # NoRow /\ EarlyOK(k, E1)
      BY <3>1, <3>2 DEF IInv, Working, WorkOK, Processes
    <3> QED
      BY <3>3 DEF EarlyOK
  <2> QED
    BY <2>1, <2>2
<1>4. receipts[k] \in {"none", "failed"} => ~Quiet(k)
  BY DEF Quiet, Early
<1>5. Done => Done'
  BY <1>1 DEF Done
<1>6. Steady
  BY <1>1, <1>4, <1>5 DEF Steady, Quiet
<1>7. Working'
  <2>1. ASSUME NEW p \in Processes
        PROVE  WorkOK(p, proc[p])'
    <3>1. PICK w : w = proc[p]
      OBVIOUS
    <3>2. WorkOK(p, w)
      BY <3>1 DEF IInv, Working
    <3>3. w # Idle /\ w.todo \in Early /\ w.todo # E1 /\ receipts[w.key] = "none" =>
            receipts'[w.key] = "none"
      <4> SUFFICES ASSUME w # Idle, w.todo \in Early, w.todo # E1, receipts[w.key] = "none"
                   PROVE  receipts'[w.key] = "none"
        OBVIOUS
      <4>1. p \in Executors /\ w.key \in Keys
        BY <3>2, EarlyAndLate DEF WorkOK, Work
      <4>2. w.key # k
        BY <3>1, <4>1 DEF IInv, Single
      <4> QED
        BY <1>1, <4>1, <4>2
    <3>4. WorkOK(p, w)'
      BY <1>6, <3>2, <3>3, WorkStays
    <3>5. w = proc'[p]
      BY <3>1
    <3> QED
      BY <3>4, <3>5
  <2> QED
    BY <2>1 DEF Working
<1>8. Single'
  BY DEF IInv, Single
<1>9. Receipted'
  <2>1. ASSUME NEW l \in Keys
        PROVE  /\ receipts'[l] # "none" =>
                    operations[l] # NoRow /\ operations[l].status \notin Unsent
               /\ receipts'[l] \in {"partially_completed", "completed"} => tenant'
               /\ operations[l] # NoRow /\ operations[l].stage = "mutation-call" => Quiet(l)'
    <3>1. CASE l = k
      BY <1>1, <1>3, <1>6, <3>1 DEF IInv, Receipted, Steady
    <3>2. CASE l # k
      BY <1>1, <1>6, <3>2 DEF IInv, Receipted, Steady
    <3> QED
      BY <3>1, <3>2
  <2>2. tenant' => \E l \in Keys : receipts'[l] \in {"partially_completed", "completed"}
    <3>1. CASE receipt \in {"partially_completed", "completed"}
      BY <1>1, <3>1
    <3>2. CASE receipt \notin {"partially_completed", "completed"}
      <4>1. SUFFICES ASSUME tenant
                     PROVE  \E l \in Keys : receipts'[l] \in {"partially_completed", "completed"}
        BY <3>2
      <4>2. PICK l \in Keys : receipts[l] \in {"partially_completed", "completed"}
        BY <4>1 DEF IInv, Receipted
      <4> QED
        BY <1>1, <4>2
    <3> QED
      BY <3>1, <3>2
  <2> QED
    BY <2>1, <2>2 DEF Receipted
<1>10. ActiveMeansCommissioned'
  BY <1>6 DEF IInv, ActiveMeansCommissioned, Steady, Done
<1>11. RecordedTenantExists'
  BY DEF IInv, RecordedTenantExists
<1>12. FailedIsDead'
  BY <1>6, DeadStays DEF IInv, FailedIsDead
<1> QED
  BY <1>2, <1>7, <1>8, <1>9, <1>10, <1>11, <1>12 DEF IInv

LEMMA OwnerAcceptsKeeps ==
  ASSUME IInv, NEW k \in Keys, OwnerAccepts(k)
  PROVE  IInv'
<1>1. PICK e \in Executors : Calls(e, "await") /\ proc[e].key = k
  BY DEF OwnerAccepts
<1>2. PICK todo \in Seq(HandlerCalls) :
        proc[e].todo = todo /\ (EarlyOK(k, todo) \/ LateOK(k, todo))
  BY <1>1, ShapeOf DEF Calls, Busy, Processes
<1>3. Head(todo).call = "await"
  BY <1>1, <1>2 DEF Calls
<1>4. todo = E1
  <2>1. ~LateOK(k, todo)
    BY <1>3, EarlyAndLate, LateFacts
  <2> QED
    BY <1>2, <1>3, <2>1, EarlyHeads DEF EarlyOK
<1>5. PICK receipt : receipt = "executing"
  OBVIOUS
<1>6. receipt \in ReceiptStatuses \ {"none"} /\ receipts' = [receipts EXCEPT ![k] = receipt]
  BY <1>5 DEF OwnerAccepts, ReceiptStatuses
<1>7. tenant' = (tenant \/ receipt \in {"partially_completed", "completed"})
  BY <1>5 DEF OwnerAccepts, IInv, Typed
<1>8. receipts[k] = "none" /\ UNCHANGED <<operations, projection, proc>>
  BY DEF OwnerAccepts
<1>9. proc[e] # Idle /\ proc[e].key = k /\ proc[e].todo = E1
  BY <1>1, <1>2, <1>4 DEF Calls, Busy
<1> QED
  BY <1>6, <1>7, <1>8, <1>9, OwnerKeeps

LEMMA OwnerFinishesKeeps ==
  ASSUME IInv, NEW k \in Keys, OwnerFinishes(k)
  PROVE  IInv'
<1>1. PICK outcome \in {"completed", "partially_completed", "failed"} :
        /\ receipts' = [receipts EXCEPT ![k] = outcome]
        /\ tenant' = (tenant \/ outcome # "failed")
  BY DEF OwnerFinishes
<1>2. outcome \in ReceiptStatuses \ {"none"}
  BY DEF ReceiptStatuses
<1>3. tenant' = (tenant \/ outcome \in {"partially_completed", "completed"})
  BY <1>1
<1>4. receipts[k] = "executing" /\ UNCHANGED <<operations, projection, proc>>
  BY DEF OwnerFinishes
<1> QED
  BY <1>1, <1>2, <1>3, <1>4, OwnerKeeps

(***************************************************************************)
(* The invariant                                                           *)
(***************************************************************************)
LEMMA Initially ==
  ASSUME Init
  PROVE  IInv
<1>1. /\ operations = [k \in Keys |-> NoRow] /\ projection = NoRow /\ tenant = FALSE
      /\ receipts = [k \in Keys |-> "none"] /\ proc = [p \in Processes |-> Idle]
  BY DEF Init, Processes
<1>2. Typed
  BY <1>1 DEF Typed, ReceiptStatuses
<1>3. Working /\ Single
  BY <1>1 DEF Working, WorkOK, Single, Processes
<1>4. Receipted
  BY <1>1 DEF Receipted
<1>5. ActiveMeansCommissioned /\ RecordedTenantExists /\ FailedIsDead
  BY <1>1 DEF ActiveMeansCommissioned, RecordedTenantExists, FailedIsDead
<1> QED
  BY <1>2, <1>3, <1>4, <1>5 DEF IInv

LEMMA Stuttering ==
  ASSUME IInv, UNCHANGED vars
  PROVE  IInv'
<1>1. \A k : (Quiet(k)' <=> Quiet(k)) /\ (Dead(k)' <=> Dead(k))
  BY DEF vars, Quiet, Dead, Empty
<1>2. Typed' /\ Single'
  BY DEF IInv, vars, Typed, Single
<1>3. Working'
  BY DEF IInv, vars, Working, WorkOK, EarlyOK, LateOK, Quiet, Done, Empty
<1>4. Receipted' /\ FailedIsDead'
  BY <1>1 DEF IInv, vars, Receipted, FailedIsDead
<1>5. ActiveMeansCommissioned' /\ RecordedTenantExists'
  BY DEF IInv, vars, ActiveMeansCommissioned, RecordedTenantExists
<1> QED
  BY <1>2, <1>3, <1>4, <1>5 DEF IInv

LEMMA Invariance ==
  ASSUME IInv, [Next]_vars
  PROVE  IInv'
<1>1. ASSUME NEW e \in Executors, NEW k \in Keys, Commission(e, k) \/ Repair(e, k)
      PROVE  IInv'
  BY <1>1, CommissionKeeps, RepairKeeps
<1>2. ASSUME NEW p \in Processes, HandlerStep(p) \/ Abandon(p)
      PROVE  IInv'
  BY <1>2, WriteLedgerKeeps, CheckProjectionKeeps, WriteProjectionKeeps, AbandonKeeps
     DEF HandlerStep
<1>3. ASSUME NEW e \in Executors, ExecutorStep(e)
      PROVE  IInv'
  BY <1>2, <1>3, CreateProjectionKeeps, SendKeeps, ReceiveReplyKeeps, CallTimesOutKeeps
     DEF ExecutorStep, Processes
<1>4. ASSUME NEW s \in Sweepers, SweeperStep(s)
      PROVE  IInv'
  BY <1>2, <1>4, ResolveByReceiptKeeps, SyncProjectionKeeps DEF SweeperStep, Processes
<1>5. ASSUME NEW s \in Sweepers, NEW k \in Keys, List(s, k)
      PROVE  IInv'
  BY <1>5, ListKeeps
<1>6. ASSUME NEW k \in Keys, OwnerAccepts(k) \/ OwnerFinishes(k)
      PROVE  IInv'
  BY <1>6, OwnerAcceptsKeeps, OwnerFinishesKeeps
<1>7. CASE UNCHANGED vars
  BY <1>7, Stuttering
<1> QED
  BY <1>1, <1>2, <1>3, <1>4, <1>5, <1>6, <1>7 DEF Next, Processes

LEMMA Inductive ==
  Spec => []IInv
<1>1. Init => IInv
  BY Initially
<1>2. IInv /\ [Next]_vars => IInv'
  BY Invariance
<1> QED
  BY <1>1, <1>2, PTL DEF Spec

\* The one operation of a commission that was not repaired is dead, once its
\* projection has failed.
LEMMA NothingElse ==
  ASSUME IInv, ~Repaired, projection # NoRow, projection.state = "failed"
  PROVE  /\ \A k \in Keys : operations[k] # NoRow => Dead(k)
         /\ ~tenant /\ ~Done
<1>1. PICK d \in Keys : Dead(d)
  BY DEF IInv, FailedIsDead
<1>2. \A k \in Keys : operations[k] # NoRow => k = d
  BY <1>1 DEF Repaired, Dead, Empty
<1>3. \A k \in Keys : receipts[k] \notin {"partially_completed", "completed"}
  BY <1>1, <1>2 DEF IInv, Receipted, Dead, Empty
<1> QED
  BY <1>1, <1>2, <1>3 DEF IInv, Receipted, Done

LEMMA FailedKeeps ==
  ASSUME IInv, [Next]_vars, projection # NoRow, projection.state = "failed", ~Repaired,
         projection' # projection
  PROVE  projection'.state = "failed"
<1>1. \A k \in Keys : operations[k] # NoRow => Dead(k)
  BY NothingElse
<1>2. ASSUME NEW p \in Processes, WriteProjection(p)
      PROVE  projection'.state = "failed"
  <2>1. proc[p] # Idle
    BY <1>2 DEF WriteProjection, Calls, Busy
  <2>2. PICK k \in Keys, todo \in Seq(HandlerCalls) :
          /\ proc[p].key = k /\ proc[p].todo = todo
          /\ operations[k] # NoRow
          /\ (p \in Executors /\ EarlyOK(k, todo)) \/ LateOK(k, todo)
    BY <2>1, ShapeOf
  <2>3. PICK c : c = Head(todo)
    OBVIOUS
  <2>4. c.call = "project" /\ projection'.state = c.to
    BY <1>2, <2>2, <2>3 DEF WriteProjection, Calls, Argument
  <2>5. ~(p \in Executors /\ todo \in Early)
    BY <1>1, <2>1, <2>2 DEF Dead, Quiet
  <2>6. LateOK(k, todo)
    BY <2>2, <2>5 DEF EarlyOK
  <2>7. c \in LateCalls(projection # NoRow, tenant, Done, Empty(k))
    BY <2>3, <2>6, EarlyAndLate
  <2>8. c.to = "failed"
    BY <2>4, <2>7, NothingElse DEF LateCalls
  <2> QED
    BY <2>4, <2>8
<1>3. ASSUME NEW e \in Executors, CreateProjection(e)
      PROVE  FALSE
  <2>1. proc[e] # Idle
    BY <1>3 DEF CreateProjection, Calls, Busy
  <2>2. PICK k \in Keys, todo \in Seq(HandlerCalls) :
          /\ proc[e].key = k /\ proc[e].todo = todo
          /\ operations[k] # NoRow
          /\ EarlyOK(k, todo) \/ LateOK(k, todo)
    BY <2>1, ShapeOf DEF Processes
  <2>3. Head(todo).call = "create"
    BY <1>3, <2>2 DEF CreateProjection, Calls
  <2>4. ~LateOK(k, todo)
    BY <2>3, EarlyAndLate, LateFacts
  <2>5. todo \in Early
    BY <2>2, <2>4 DEF EarlyOK
  <2> QED
    BY <1>1, <2>1, <2>2, <2>5 DEF Dead, Quiet
<1>4. \/ \E p \in Processes : WriteProjection(p)
      \/ \E e \in Executors : CreateProjection(e)
  BY DEF Next, vars, Commission, Repair, ExecutorStep, SweeperStep, HandlerStep, Abandon, List,
         OwnerAccepts, OwnerFinishes, WriteLedger, CheckProjection, Send, ReceiveReply,
         CallTimesOut, ResolveByReceipt, SyncProjection, Processes
<1> QED
  BY <1>2, <1>3, <1>4

(***************************************************************************)
(* Theorems                                                                *)
(***************************************************************************)
\* However requests, repairs, sweeps, crashes and lost answers interleave, the
\* projection is active only when the owner has completed the commission.
THEOREM ActiveIsTrue ==
  Spec => []ActiveMeansCommissioned
<1>1. IInv => ActiveMeansCommissioned
  BY DEF IInv
<1> QED
  BY <1>1, Inductive, PTL

\* Nor does the row name, or the ledger record, a tenant that does not exist.
THEOREM RecordedIsTrue ==
  Spec => []RecordedTenantExists
<1>1. IInv => RecordedTenantExists
  BY DEF IInv
<1> QED
  BY <1>1, Inductive, PTL

\* A commission that was not repaired is given up only when there is no tenant.
THEOREM FailedIsTrue ==
  Spec => []FailedMeansNoTenant
<1>1. IInv => FailedMeansNoTenant
  BY NothingElse DEF FailedMeansNoTenant
<1> QED
  BY <1>1, Inductive, PTL

\* And what has failed stays failed, although its UPDATE is not guarded.
THEOREM FailedIsFinal ==
  Spec => FailedStaysFailed
<1>1. IInv /\ [Next]_vars =>
        [projection # NoRow /\ projection.state = "failed" /\ ~Repaired =>
           projection'.state = "failed"]_projection
  BY FailedKeeps
<1> QED
  BY <1>1, Inductive, PTL DEF Spec, FailedStaysFailed
\* The rows, the receipts and the requests keep their types, for any sets of
\* keys and requests.
THEOREM CommissionTypesHold ==
  Spec => []TypeOK
<1>1. ASSUME IInv, NEW p \in Processes, proc[p] # Idle
      PROVE  IsWork(proc[p])
  <2>1. PICK k \in Keys, todo \in Seq(HandlerCalls) :
          /\ proc[p].key = k /\ proc[p].todo = todo
          /\ EarlyOK(k, todo) \/ LateOK(k, todo)
    BY <1>1, ShapeOf
  <2>2. todo # <<>>
    BY <2>1, EarlyEnds DEF EarlyOK, LateOK
  <2>3. \A i \in DOMAIN todo : todo[i] \in HandlerCalls
    BY ElementOfSeq, LenProperties
  <2>4. proc[p].checked \in BOOLEAN
    BY <1>1 DEF IInv, Working, WorkOK, Work
  <2> QED
    BY <2>1, <2>2, <2>3, <2>4 DEF IsWork
<1>2. IInv => TypeOK
  BY <1>1 DEF IInv, Typed, Processes, TypeOK
<1> QED
  BY <1>2, Inductive, PTL
===============================================================================
