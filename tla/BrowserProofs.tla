----------------------------- MODULE BrowserProofs -----------------------------
(***************************************************************************)
(* Who is let in as whom, for every set of operators, transactions,        *)
(* sessions, tabs and handlers; and what a console tells and submits, for  *)
(* every set of targets and every number of openings, keys, reads and      *)
(* calls.                                                                  *)
(*                                                                         *)
(* Sessions: rows are only ever added and closed: what a request has       *)
(* learnt of its session or its transaction stays true while others run,   *)
(* and what it still has to do says what it has learnt.                    *)
(*                                                                         *)
(* Console: a key belongs to one opening, an opening moves to another key  *)
(* only when the operation of the one it had has failed, and only the      *)
(* newest submission is listened for.                                      *)
(***************************************************************************)
EXTENDS BrowserSessions, OperatorConsole, RequestHandlersProofs, FiniteSetTheorems

SessionRows == [operator : Operators, login : Transactions, open : BOOLEAN]

TransactionRows ==
  [kind : {"login", "stepUp"}, open : BOOLEAN, session : Sessions \cup {None}]

Typed ==
  /\ operators \in [Operators -> {"pending", "disabled", "active"}]
  /\ transactions \in [Transactions -> TransactionRows \cup {None}]
  /\ sessions \in [Sessions -> SessionRows \cup {None}]
  /\ markers \in [Sessions -> [revoked : BOOLEAN, stepUp : BOOLEAN]]
  /\ jar \in [session : Sessions \cup {None}, login : Transactions \cup {None},
              stepUp : Transactions \cup {None}]
  /\ tabs \in [Tabs -> [view : {"loading", "out", "in", "away", "leaving"},
                        shows : Sessions \cup {None}, at : Transactions \cup {None}]]
  /\ signedOut \subseteq Sessions

Known(s) == s \in Sessions /\ sessions[s] # None

Row(x, kind) == x \in Transactions /\ transactions[x] # None /\ transactions[x].kind = kind

Proven(o, x) == <<o, x>> \in authenticated

Consume(bound) == [call |-> "consume", bound |-> bound]
Exchange(fresh) == [call |-> "exchange", fresh |-> fresh]

\* A callback that has not consumed its transaction.
Called(r, todo) ==
  /\ Row(r.about, r.kind) /\ r.subject \in Operators
  /\ \E bound, fresh : /\ todo = <<Consume(bound), Exchange(fresh)>>
                       /\ fresh => Proven(r.subject, r.about)

\* What a request does once it is let in.
Admitted(r, todo) ==
  \/ r.kind = "command" /\ todo = <<Step("stepUp"), Step("run")>>
  \/ r.kind = "whoami" /\ r.tab \in Tabs /\ todo = <<Step("answerWhoami")>>
  \/ r.kind = "logout" /\ todo = <<Step("revokeSession"), Step("revokeMarker")>>
  \/ r.kind = "start" /\ r.tab \in Tabs /\ todo = <<Step("createStepUp")>>
  \/ r.kind = "stepUp" /\ Called(r, todo)

AtMarker(r, todo) ==
  /\ todo # <<>> /\ Head(todo) = Step("marker")
  /\ Tail(todo) # <<>> /\ Admitted(r, Tail(todo))

AtSession(r, todo) ==
  todo # <<>> /\ Head(todo) = Step("session") /\ AtMarker(r, Tail(todo))

Working(r, todo) ==
  \/ Admitted(r, todo) /\ (Safe(r.kind) \/ r.csrf = r.cookie)
  \/ r.kind = "command" /\ r.csrf = r.cookie /\ todo = <<Step("run")>>
  \/ r.kind = "logout" /\ ~sessions[r.cookie].open /\ todo = <<Step("revokeMarker")>>

\* A login's transaction is consumed and has opened no session yet.
LoggingIn(r, todo) ==
  /\ r.kind = "login" /\ Row(r.about, "login") /\ r.subject \in Operators
  /\ ~transactions[r.about].open
  /\ \A s \in Sessions : sessions[s] # None => sessions[s].login # r.about
  /\ \/ \E fresh : todo = <<Exchange(fresh)>>
     \/ todo \in {<<Step("lookUp")>>, <<Step("activate")>>, <<Step("createSession")>>}

SteppingUp(r, todo) ==
  /\ r.kind = "stepUp" /\ Row(r.about, "stepUp") /\ r.subject \in Operators
  /\ \/ \E fresh : todo = <<Exchange(fresh)>> /\ (fresh => Proven(r.subject, r.about))
     \/ /\ todo = <<Step("recordStepUp")>>
        /\ Proven(r.subject, r.about)
        /\ r.subject = sessions[transactions[r.about].session].operator

RequestOK(r, todo) ==
  \/ r.cookie \in Sessions \cup {None} /\ AtSession(r, todo)
  \/ Known(r.cookie) /\ AtMarker(r, todo)
  \/ Known(r.cookie) /\ Working(r, todo)
  \/ r.kind = "login" /\ Called(r, todo)
  \/ LoggingIn(r, todo)
  \/ SteppingUp(r, todo)

\* Request h has consumed login x.
Holds(h, x) ==
  /\ Busy(h) /\ About(h).kind = "login" /\ About(h).about = x
  /\ Head(proc[h].todo).call # "consume"

RequestsOK ==
  /\ DOMAIN proc = Handlers
  /\ \A h \in Handlers : Busy(h) => RequestOK(About(h), proc[h].todo)
  /\ \A x \in Transactions, h, g \in Handlers : Holds(h, x) /\ Holds(g, x) => h = g

\* Step-ups are of sessions there are; a login that opened one is consumed;
\* a tab that is away has a transaction; whoever signed out is out.
RowsOK ==
  /\ \A x \in Transactions : Row(x, "stepUp") => Known(transactions[x].session)
  /\ \A x \in Transactions : Row(x, "login") => transactions[x].session = None
  /\ \A s \in Sessions : sessions[s] # None =>
       LET x == sessions[s].login IN Row(x, "login") /\ ~transactions[x].open
  /\ \A t \in Tabs : tabs[t].view = "away" =>
       tabs[t].at \in Transactions /\ transactions[tabs[t].at] # None
  /\ \A s \in signedOut : Known(s) /\ ~sessions[s].open /\ markers[s].revoked

\* The inductive invariant.
IInv ==
  /\ Typed
  /\ RequestsOK
  /\ RowsOK
  /\ OneSessionPerLogin
  /\ StepUpIsProven

-----------------------------------------------------------------------------
LEMMA InitIInv == Init => IInv
  BY SessionsAssumption
  DEF Init, IInv, Typed, RequestsOK, RowsOK, OneSessionPerLogin, StepUpIsProven, Row, Known,
      Holds, Busy, Unmarked, Loading

\* Rows are added, and closed; nobody's credentials are forgotten.
Grows ==
  /\ \A s \in Sessions : sessions[s] # None =>
       /\ sessions'[s] # None
       /\ sessions'[s].operator = sessions[s].operator /\ sessions'[s].login = sessions[s].login
       /\ ~sessions[s].open => ~sessions'[s].open
  /\ \A x \in Transactions : transactions[x] # None =>
       /\ transactions'[x] # None
       /\ transactions'[x].kind = transactions[x].kind
       /\ transactions'[x].session = transactions[x].session
       /\ ~transactions[x].open => ~transactions'[x].open
  /\ authenticated \subseteq authenticated'

\* A session that is opened is not one of login x.
NoSessionOf(x) ==
  \A s \in Sessions : sessions[s] = None /\ sessions'[s] # None => sessions'[s].login # x

LEMMA Unchanging ==
  ASSUME UNCHANGED <<sessions, transactions, authenticated>>
  PROVE  Grows /\ \A x : NoSessionOf(x)
  BY DEF Grows, NoSessionOf

LEMMA CallNames ==
  /\ \A c : Step(c).call = c
  /\ \A b : Consume(b).call = "consume" /\ Consume(b).bound = b
  /\ \A f : Exchange(f).call = "exchange" /\ Exchange(f).fresh = f
  BY DEF Step, Consume, Exchange

LEMMA NoneIsNoRow == None \notin SessionRows \cup TransactionRows
  BY SessionsAssumption DEF SessionRows, TransactionRows

\* What a request has learnt stays true while rows are added and closed.
LEMMA AdmittedKept ==
  ASSUME NEW r, NEW todo, Admitted(r, todo), Grows
  PROVE  Admitted(r, todo)'
<1>1. Called(r, todo) => Called(r, todo)'
  BY DEF Called, Row, Proven, Grows
<1> QED
  BY <1>1 DEF Admitted

LEMMA RequestKept ==
  ASSUME NEW r, NEW todo, RequestOK(r, todo), Grows, RowsOK, NoSessionOf(r.about) \/ ~LoggingIn(r, todo)
  PROVE  RequestOK(r, todo)'
<1>1. Known(r.cookie) => Known(r.cookie)'
  BY DEF Known, Grows
<1>2. AtMarker(r, todo) => AtMarker(r, todo)'
  BY AdmittedKept DEF AtMarker
<1>3. AtSession(r, todo) => AtSession(r, todo)'
  <2>1. AtMarker(r, Tail(todo)) => AtMarker(r, Tail(todo))'
    BY AdmittedKept DEF AtMarker
  <2> QED
    BY <2>1 DEF AtSession
<1>4. Known(r.cookie) /\ Working(r, todo) => Working(r, todo)'
  BY AdmittedKept DEF Working, Known, Grows
<1>5. Called(r, todo) => Called(r, todo)'
  BY DEF Called, Row, Proven, Grows
<1>6. LoggingIn(r, todo) => LoggingIn(r, todo)'
  BY DEF LoggingIn, Row, Grows, NoSessionOf
<1>7. SteppingUp(r, todo) => SteppingUp(r, todo)'
  <2> SUFFICES ASSUME SteppingUp(r, todo)
               PROVE  SteppingUp(r, todo)'
    OBVIOUS
  <2>1. Row(r.about, "stepUp")' /\ transactions'[r.about].session = transactions[r.about].session
    BY DEF SteppingUp, Row, Grows
  <2>2. PICK s \in Sessions : s = transactions[r.about].session /\ sessions[s] # None
    BY DEF SteppingUp, RowsOK, Row, Known
  <2>3. sessions'[s].operator = sessions[s].operator
    BY <2>2 DEF Grows
  <2>4. Proven(r.subject, r.about) => Proven(r.subject, r.about)'
    BY DEF Proven, Grows
  <2> QED
    BY <2>1, <2>2, <2>3, <2>4 DEF SteppingUp
<1> QED
  BY <1>1, <1>2, <1>3, <1>4, <1>5, <1>6, <1>7 DEF RequestOK

\* Nobody else holds the login of a request that logs in.
LEMMA HoldsIsLoggingIn ==
  ASSUME IInv, NEW h \in Handlers, Busy(h)
  PROVE  /\ LoggingIn(About(h), proc[h].todo) =>
              About(h).about \in Transactions /\ Holds(h, About(h).about)
         /\ \A x : Holds(h, x) => LoggingIn(About(h), proc[h].todo)
<1>1. PICK r, todo : r = About(h) /\ todo = proc[h].todo /\ RequestOK(r, todo)
  BY DEF IInv, RequestsOK
<1>2. LoggingIn(r, todo) => r.about \in Transactions /\ r.kind = "login" /\ Head(todo).call # "consume"
  BY CallNames, OneCall DEF LoggingIn, Row
<1>3. Called(r, todo) => Head(todo).call = "consume"
  BY CallNames, TwoCalls DEF Called
<1>4. r.kind = "login" => ~Admitted(r, todo) /\ ~AtMarker(r, todo) /\ ~AtSession(r, todo) /\ ~SteppingUp(r, todo)
  BY DEF Admitted, AtMarker, AtSession, SteppingUp
<1>5. r.kind = "login" => ~Working(r, todo)
  BY <1>4 DEF Working
<1> QED
  BY <1>1, <1>2, <1>3, <1>4, <1>5 DEF Holds, RequestOK

\* Request h ends, or goes on as it should, and the others are left alone.
LEMMA RequestsStep ==
  ASSUME IInv, NEW h \in Handlers, Others(h), Grows,
         \A x \in Transactions : NoSessionOf(x) \/ Holds(h, x),
         Busy(h)' => RequestOK(proc[h].about, proc[h].todo)',
         \A x \in Transactions : Holds(h, x)' => Holds(h, x) \/ \A g \in Handlers : ~Holds(g, x)
  PROVE  RequestsOK'
<1>1. \A g \in Handlers \ {h} : proc'[g] = proc[g]
  BY DEF Others, IInv, RequestsOK
<1>2. \A g \in Handlers \ {h} : (Busy(g)' <=> Busy(g)) /\ \A x \in Transactions : Holds(g, x)' <=> Holds(g, x)
  BY <1>1 DEF Busy, Holds, About
<1>3. \A g \in Handlers \ {h} : Busy(g)' => RequestOK(About(g), proc[g].todo)'
  <2> SUFFICES ASSUME NEW g \in Handlers \ {h}, Busy(g)
               PROVE  RequestOK(About(g), proc[g].todo)'
    BY <1>2
  <2>1. PICK r, todo : r = About(g) /\ todo = proc[g].todo
    OBVIOUS
  <2>2. RequestOK(r, todo) /\ RowsOK
    BY <2>1 DEF IInv, RequestsOK
  <2>3. NoSessionOf(r.about) \/ ~LoggingIn(r, todo)
    <3>1. CASE LoggingIn(r, todo)
      <4>1. r.about \in Transactions /\ Holds(g, r.about)
        BY <2>1, <3>1, HoldsIsLoggingIn
      <4>2. ~Holds(h, r.about)
        BY <4>1 DEF IInv, RequestsOK
      <4> QED
        BY <4>1, <4>2
    <3> QED
      BY <3>1
  <2>4. RequestOK(r, todo)'
    BY <2>2, <2>3, RequestKept
  <2> QED
    BY <1>1, <2>1, <2>4 DEF About
<1>4. ASSUME NEW x \in Transactions, NEW g \in Handlers, NEW f \in Handlers, Holds(g, x)', Holds(f, x)'
      PROVE  g = f
  BY <1>2, <1>4 DEF IInv, RequestsOK
<1>5. (Busy(h) => RequestOK(About(h), proc[h].todo))'
  BY DEF About
<1>6. DOMAIN proc' = Handlers
  BY DEF Others, IInv, RequestsOK
<1> QED
  BY <1>3, <1>4, <1>5, <1>6 DEF RequestsOK

\* What the rows say stays true when rows are closed, new ones are right, and
\* markers only gain what is proven.
LEMMA RowsStep ==
  ASSUME IInv, Typed', Grows,
         \A s \in signedOut' : s \in signedOut \/ (Known(s)' /\ ~sessions'[s].open /\ markers'[s].revoked),
         \A x \in Transactions : transactions[x] = None /\ transactions'[x] # None =>
           IF transactions'[x].kind = "stepUp" THEN Known(transactions[x].session)'
                                               ELSE transactions'[x].session = None,
         \A s \in Sessions : sessions[s] = None /\ sessions'[s] # None =>
           /\ Row(sessions[s].login, "login")' /\ ~transactions'[sessions'[s].login].open
           /\ \A r \in Sessions \ {s} : sessions'[r] # None => sessions'[r].login # sessions'[s].login,
         \A s \in Sessions :
           /\ markers[s].revoked => markers'[s].revoked
           /\ markers'[s].stepUp =>
                \/ markers[s].stepUp
                \/ \E x \in Transactions : /\ Row(x, "stepUp") /\ transactions[x].session = s
                                           /\ Proven(sessions[s].operator, x),
         \A t \in Tabs : tabs'[t].view = "away" =>
           \/ tabs[t].view = "away" /\ tabs'[t].at = tabs[t].at
           \/ tabs'[t].at \in Transactions /\ transactions'[tabs'[t].at] # None
  PROVE  RowsOK' /\ OneSessionPerLogin' /\ StepUpIsProven'
<1>1. \A x \in Transactions : Row(x, "stepUp")' => Known(transactions[x].session)'
  BY DEF Row, Known, Grows, IInv, RowsOK
<1>2. \A x \in Transactions : Row(x, "login")' => transactions'[x].session = None
  BY DEF Row, Grows, IInv, RowsOK
<1>3. \A s \in Sessions : sessions'[s] # None =>
        Row(sessions[s].login, "login")' /\ ~transactions'[sessions'[s].login].open
  BY DEF Row, Grows, IInv, RowsOK
<1>4. \A t \in Tabs : tabs'[t].view = "away" =>
        tabs'[t].at \in Transactions /\ transactions'[tabs'[t].at] # None
  BY DEF Grows, IInv, RowsOK
<1>5. \A s \in signedOut' : Known(s)' /\ ~sessions'[s].open /\ markers'[s].revoked
  BY DEF Known, Grows, IInv, RowsOK, Typed
<1>6. RowsOK'
  BY <1>1, <1>2, <1>3, <1>4, <1>5 DEF RowsOK
<1>7. OneSessionPerLogin'
  BY DEF OneSessionPerLogin, Grows, IInv
<1>8. StepUpIsProven'
  <2> SUFFICES ASSUME NEW s \in Sessions, markers'[s].stepUp
               PROVE  \E x \in Transactions :
                        /\ transactions'[x] # None /\ transactions'[x].session = s
                        /\ <<sessions'[s].operator, x>> \in authenticated'
    BY DEF StepUpIsProven
  <2>1. PICK x \in Transactions :
          /\ transactions[x] # None /\ transactions[x].session = s
          /\ <<sessions[s].operator, x>> \in authenticated
    BY DEF IInv, StepUpIsProven, Row, Proven
  <2>2. sessions[s] # None
    <3>1. transactions[x].kind \in {"login", "stepUp"}
      BY <2>1 DEF IInv, Typed, TransactionRows
    <3> QED
      BY <2>1, <3>1, SessionsAssumption DEF IInv, RowsOK, Row, Known
  <2>3. sessions'[s].operator = sessions[s].operator
    BY <2>2 DEF Grows
  <2> QED
    BY <2>1, <2>3 DEF Grows
<1> QED
  BY <1>6, <1>7, <1>8

\* A step of a request, or of a tab with one, that writes no row.
LEMMA QuietStep ==
  ASSUME IInv, NEW h \in Handlers, Others(h), UNCHANGED <<store, authenticated, signedOut>>, Typed',
         \A t \in Tabs : tabs'[t].view = "away" => tabs[t].view = "away" /\ tabs'[t].at = tabs[t].at,
         Busy(h)' => RequestOK(proc'[h].about, proc'[h].todo),
         \A x \in Transactions : Holds(h, x)' => Holds(h, x)
  PROVE  IInv'
<1>1. UNCHANGED <<operators, transactions, sessions, markers, authenticated, signedOut>>
  BY DEF store
<1>2. Grows /\ \A x : NoSessionOf(x)
  BY <1>1, Unchanging
<1>3. Busy(h)' => RequestOK(proc[h].about, proc[h].todo)'
  <2>1. PICK r, todo : r = proc'[h].about /\ todo = proc'[h].todo
    OBVIOUS
  <2>2. RequestOK(r, todo) => RequestOK(r, todo)'
    BY <1>2, RequestKept DEF IInv
  <2> QED
    BY <2>1, <2>2
<1>4. RequestsOK'
  BY <1>2, <1>3, RequestsStep
<1>5. RowsOK' /\ OneSessionPerLogin' /\ StepUpIsProven'
  BY <1>1, <1>2, RowsStep
<1> QED
  BY <1>4, <1>5 DEF IInv

\* A step of the tabs, of time and of people.
LEMMA OutsideStep ==
  ASSUME IInv, UNCHANGED <<proc, sessions, authenticated, signedOut>>, Typed', Grows,
         \A x \in Transactions : transactions[x] = None /\ transactions'[x] # None =>
           transactions'[x].kind = "login" /\ transactions'[x].session = None,
         \A s \in Sessions : /\ markers[s].revoked => markers'[s].revoked
                             /\ markers'[s].stepUp => markers[s].stepUp,
         \A t \in Tabs : tabs'[t].view = "away" =>
           \/ tabs[t].view = "away" /\ tabs'[t].at = tabs[t].at
           \/ tabs'[t].at \in Transactions /\ transactions'[tabs'[t].at] # None
  PROVE  IInv'
<1>1. \A x : NoSessionOf(x)
  BY DEF NoSessionOf
<1>2. \A h \in Handlers : Busy(h)' => RequestOK(About(h), proc[h].todo)'
  <2> SUFFICES ASSUME NEW h \in Handlers, Busy(h)
               PROVE  RequestOK(About(h), proc[h].todo)'
    BY DEF Busy
  <2>1. PICK r, todo : r = About(h) /\ todo = proc[h].todo /\ RequestOK(r, todo)
    BY DEF IInv, RequestsOK
  <2>2. RequestOK(r, todo)'
    BY <1>1, <2>1, RequestKept DEF IInv
  <2> QED
    BY <2>1, <2>2 DEF About
<1>3. RequestsOK'
  BY <1>2 DEF IInv, RequestsOK, Holds, Busy, About
<1>4. RowsOK' /\ OneSessionPerLogin' /\ StepUpIsProven'
  BY RowsStep
<1> QED
  BY <1>3, <1>4 DEF IInv

\* What a login's callback that throws leaves of the browser.
LEMMA ThrowsOK ==
  ASSUME IInv, NEW h \in Handlers, NEW login \in Transactions \cup {None}, Throws(h, login)
  PROVE  /\ jar' \in [session : Sessions \cup {None}, login : Transactions \cup {None},
                     stepUp : Transactions \cup {None}]
         /\ UNCHANGED tabs /\ Others(h) /\ ~Busy(h)'
<1>1. Stop(h) /\ UNCHANGED tabs /\ jar' = [jar EXCEPT !.session = None, !.login = login]
  BY DEF Throws
<1>2. Others(h) /\ ~Busy(h)'
  BY <1>1, StopOK DEF IInv, RequestsOK, Busy
<1> QED
  BY <1>1, <1>2 DEF IInv, Typed

LEMMA AbandonStep ==
  ASSUME IInv, NEW h \in Handlers, Abandon(h)
  PROVE  IInv'
<1>1. UNCHANGED <<operators, transactions, sessions, markers, authenticated, signedOut>>
  BY DEF Abandon, store
<1>2. CASE Stop(h) /\ UNCHANGED browser
  <2>1. Others(h) /\ ~Busy(h)' /\ UNCHANGED <<jar, tabs>>
    BY <1>2, StopOK DEF IInv, RequestsOK, Busy, browser
  <2>2. Typed'
    BY <1>1, <2>1 DEF IInv, Typed
  <2> QED
    BY <1>1, <2>1, <2>2, QuietStep DEF Holds, store
<1>3. ASSUME NEW login \in {jar.login, None}, Throws(h, login)
      PROVE  IInv'
  <2>1. login \in Transactions \cup {None}
    BY DEF IInv, Typed
  <2>2. /\ jar' \in [session : Sessions \cup {None}, login : Transactions \cup {None},
                    stepUp : Transactions \cup {None}]
        /\ UNCHANGED tabs /\ Others(h) /\ ~Busy(h)'
    BY <1>3, <2>1, ThrowsOK
  <2>3. Typed'
    BY <1>1, <2>2 DEF IInv, Typed
  <2> QED
    BY <1>1, <2>2, <2>3, QuietStep DEF Holds, store
<1> QED
  BY <1>2, <1>3 DEF Abandon

-----------------------------------------------------------------------------
\* The checks, and then the work of a request.
LEMMA Checked ==
  ASSUME NEW work, (\E a : work = <<a>>) \/ (\E a, b : work = <<a, b>>)
  PROVE  /\ Checks \o work # <<>> /\ Head(Checks \o work) = Step("session")
         /\ Tail(Checks \o work) # <<>> /\ Head(Tail(Checks \o work)) = Step("marker")
         /\ Tail(Tail(Checks \o work)) = work /\ work # <<>>
<1>1. Checks = <<Step("session"), Step("marker")>>
  BY DEF Checks
<1>2. PICK todo : todo = Checks \o work
  OBVIOUS
<1>3. SUFFICES /\ todo # <<>> /\ Head(todo) = Step("session")
               /\ Tail(todo) # <<>> /\ Head(Tail(todo)) = Step("marker")
               /\ Tail(Tail(todo)) = work /\ work # <<>>
  BY <1>2
<1>4. CASE \E a : work = <<a>>
  <2>1. PICK a : work = <<a>>
    BY <1>4
  <2>2. todo = <<Step("session"), Step("marker"), a>>
    BY <1>1, <1>2, <2>1, JoinedCalls
  <2>3. todo # <<>> /\ Head(todo) = Step("session") /\ Tail(todo) = <<Step("marker"), a>>
    BY <2>2, ThreeCalls
  <2>4. Head(<<Step("marker"), a>>) = Step("marker") /\ Tail(<<Step("marker"), a>>) = <<a>>
    BY TwoCalls
  <2>5. <<Step("marker"), a>> # <<>> /\ <<a>> # <<>>
    BY OneCall, TwoCalls
  <2> QED
    BY <2>1, <2>3, <2>4, <2>5, Zenon
<1>5. CASE \E a, b : work = <<a, b>>
  <2>1. PICK a, b : work = <<a, b>>
    BY <1>5
  <2>2. todo = <<Step("session"), Step("marker"), a, b>>
    BY <1>1, <1>2, <2>1, JoinedPairs
  <2>3. todo # <<>> /\ Head(todo) = Step("session") /\ Tail(todo) = <<Step("marker"), a, b>>
    BY <2>2, FourCalls
  <2>4. Head(<<Step("marker"), a, b>>) = Step("marker") /\ Tail(<<Step("marker"), a, b>>) = <<a, b>>
    BY ThreeCalls
  <2>5. <<Step("marker"), a, b>> # <<>> /\ <<a, b>> # <<>>
    BY TwoCalls, ThreeCalls
  <2> QED
    BY <2>1, <2>3, <2>4, <2>5, Zenon
<1> QED
  BY <1>4, <1>5

LEMMA SendStep ==
  ASSUME IInv, NEW h \in Handlers, NEW t \in Tabs,
         NEW kind \in {"whoami", "command", "logout", "start"}, Send(h, t, kind)
  PROVE  /\ Others(h) /\ RequestOK(proc'[h].about, proc'[h].todo)
         /\ \A x : ~Holds(h, x)'
<1>1. PICK r : r = [kind |-> kind, cookie |-> jar.session,
                    csrf |-> IF Safe(kind) THEN None ELSE tabs[t].shows,
                    tab |-> IF Safe(kind) THEN t ELSE None]
  OBVIOUS
<1>2. /\ r.kind = kind /\ r.cookie \in Sessions /\ (kind \in {"whoami", "start"} => r.tab = t)
  BY <1>1 DEF Send, Safe, IInv, Typed
<1>3. Admitted(r, Work(kind))
  BY <1>2 DEF Admitted, Work
<1>4. Begin(h, r, Checks \o Work(kind))
  BY <1>1 DEF Send
<1>5. Checks \o Work(kind) # <<>> /\ AtSession(r, Checks \o Work(kind))
  <2>1. PICK work : work = Work(kind)
    OBVIOUS
  <2>2. (\E a : work = <<a>>) \/ (\E a, b : work = <<a, b>>)
    BY <2>1 DEF Work
  <2> QED
    BY <1>3, <2>1, <2>2, Checked DEF AtSession, AtMarker
<1>6. Others(h) /\ proc'[h].about = r /\ proc'[h].todo = Checks \o Work(kind)
  BY <1>4, <1>5, BeginOK DEF IInv, RequestsOK
<1> QED
  BY <1>2, <1>5, <1>6 DEF RequestOK, Holds, About

TabRows == [view : {"loading", "out", "in", "away", "leaving"},
            shows : Sessions \cup {None}, at : Transactions \cup {None}]

JarRows == [session : Sessions \cup {None}, login : Transactions \cup {None},
            stepUp : Transactions \cup {None}]

LEMMA TabsTyped ==
  ASSUME Typed
  PROVE  tabs \in [Tabs -> TabRows] /\ jar \in JarRows
  BY DEF Typed, TabRows, JarRows

\* A tab that is shown something else, but is not sent away.
LEMMA TabShown ==
  ASSUME Typed, NEW t \in Tabs,
         \/ \E shown \in {"out", "leaving"} : tabs' = [tabs EXCEPT ![t].view = shown]
         \/ \E row \in TabRows : row.view # "away" /\ tabs' = [tabs EXCEPT ![t] = row]
  PROVE  /\ tabs' \in [Tabs -> TabRows]
         /\ \A u \in Tabs : tabs'[u].view = "away" => tabs[u].view = "away" /\ tabs'[u].at = tabs[u].at
<1>1. tabs \in [Tabs -> TabRows]
  BY TabsTyped
<1>2. PICK row \in TabRows : row.view # "away" /\ tabs' = [tabs EXCEPT ![t] = row]
  <2>1. ASSUME NEW shown \in {"out", "leaving"}, tabs' = [tabs EXCEPT ![t].view = shown]
        PROVE  \E row \in TabRows : row.view # "away" /\ tabs' = [tabs EXCEPT ![t] = row]
    <3> DEFINE new == [tabs[t] EXCEPT !.view = shown]
    <3>1. tabs[t] \in TabRows
      BY <1>1
    <3>2. new \in TabRows /\ new.view = shown
      BY <3>1 DEF TabRows
    <3>3. tabs' = [tabs EXCEPT ![t] = new]
      BY <2>1
    <3> HIDE DEF new
    <3> QED
      BY <3>2, <3>3
  <2> QED
    BY <2>1
<1> QED
  BY <1>1, <1>2

\* A tab sends a request, and waits or leaves.
LEMMA TabSendsStep ==
  ASSUME IInv, NEW h \in Handlers, NEW t \in Tabs,
         Refresh(h, t) \/ SendCommand(h, t) \/ StepUp(h, t) \/ SignOut(h, t)
  PROVE  IInv'
<1>1. UNCHANGED <<operators, transactions, sessions, markers, jar, authenticated, signedOut>>
        /\ UNCHANGED store
  BY DEF Refresh, SendCommand, StepUp, SignOut, store, browser
<1>2. tabs' = tabs \/ tabs' = [tabs EXCEPT ![t].view = "leaving"]
  BY DEF Refresh, SendCommand, StepUp, SignOut, browser
<1>3. Typed' /\ \A u \in Tabs : tabs'[u].view = "away" => tabs[u].view = "away" /\ tabs'[u].at = tabs[u].at
  <2>1. /\ tabs' \in [Tabs -> TabRows]
        /\ \A u \in Tabs : tabs'[u].view = "away" => tabs[u].view = "away" /\ tabs'[u].at = tabs[u].at
    BY <1>2, TabShown, TabsTyped DEF IInv
  <2> QED
    BY <1>1, <2>1 DEF IInv, Typed, TabRows
<1>4. CASE \E kind \in {"whoami", "command", "logout", "start"} : Send(h, t, kind)
  BY <1>1, <1>3, <1>4, SendStep, QuietStep
<1>5. CASE UNCHANGED proc
  <2>1. Grows
    BY <1>1, Unchanging
  <2> QED
    BY <1>1, <1>3, <1>5, <2>1, OutsideStep
<1> QED
  BY <1>4, <1>5 DEF Refresh, SendCommand, StepUp, SignOut

LEMMA TabMovesStep ==
  ASSUME IInv, NEW t \in Tabs, ShowSignIn(t) \/ Reload(t) \/ CognitoLogout(t)
  PROVE  IInv'
<1>1. UNCHANGED <<operators, transactions, sessions, markers, proc, authenticated, signedOut>>
  BY DEF ShowSignIn, Reload, CognitoLogout, store
<1>2. jar' = jar \/ jar' = [jar EXCEPT !.session = None]
  BY DEF ShowSignIn, Reload, CognitoLogout
<1>3. tabs' = [tabs EXCEPT ![t].view = "out"] \/ tabs' = [tabs EXCEPT ![t] = Loading]
  BY DEF ShowSignIn, Reload, CognitoLogout
<1>4. Typed' /\ \A u \in Tabs : tabs'[u].view = "away" => tabs[u].view = "away" /\ tabs'[u].at = tabs[u].at
  <2>1. Loading \in TabRows /\ Loading.view # "away"
    BY DEF Loading, TabRows
  <2>2. /\ tabs' \in [Tabs -> TabRows]
        /\ \A u \in Tabs : tabs'[u].view = "away" => tabs[u].view = "away" /\ tabs'[u].at = tabs[u].at
    BY <1>3, <2>1, TabShown DEF IInv
  <2>3. jar' \in JarRows
    BY <1>2, TabsTyped DEF IInv, JarRows
  <2> QED
    BY <1>1, <2>2, <2>3 DEF IInv, Typed, TabRows, JarRows
<1>5. Grows
  BY <1>1, Unchanging
<1> QED
  BY <1>1, <1>4, <1>5, OutsideStep

LEMMA SignInStep ==
  ASSUME IInv, NEW t \in Tabs, SignIn(t)
  PROVE  IInv'
<1> DEFINE row == [kind |-> "login", open |-> TRUE, session |-> None]
<1>1. PICK x \in Unused(transactions) :
        /\ transactions' = [transactions EXCEPT ![x] = row]
        /\ jar' = [jar EXCEPT !.login = x]
        /\ tabs' = [tabs EXCEPT ![t] = [view |-> "away", shows |-> None, at |-> x]]
  BY DEF SignIn
<1>2. UNCHANGED <<operators, sessions, markers, proc, authenticated, signedOut>>
  BY DEF SignIn
<1>3. x \in Transactions /\ transactions[x] = None
  BY DEF Unused, IInv, Typed
<1>4. row \in TransactionRows /\ row # None /\ row.kind = "login" /\ row.session = None
  <2>1. row \in TransactionRows
    BY DEF TransactionRows
  <2>2. row # None
    BY <2>1, NoneIsNoRow
  <2> QED
    BY <2>1, <2>2
<1> HIDE DEF row
<1>5. transactions'[x] = row /\ \A y \in Transactions \ {x} : transactions'[y] = transactions[y]
  BY <1>1, <1>3 DEF IInv, Typed
<1>6. Typed'
  <2>1. transactions' \in [Transactions -> TransactionRows \cup {None}]
    BY <1>1, <1>4 DEF IInv, Typed
  <2>2. tabs' \in [Tabs -> [view : {"loading", "out", "in", "away", "leaving"},
                            shows : Sessions \cup {None}, at : Transactions \cup {None}]]
    BY <1>1, <1>3 DEF IInv, Typed
  <2>3. jar' \in [session : Sessions \cup {None}, login : Transactions \cup {None},
                  stepUp : Transactions \cup {None}]
    BY <1>1, <1>3 DEF IInv, Typed
  <2> QED
    BY <1>2, <2>1, <2>2, <2>3 DEF IInv, Typed
<1>7. Grows
  BY <1>2, <1>3, <1>5 DEF Grows
<1>8. \A u \in Tabs : tabs'[u].view = "away" =>
        \/ tabs[u].view = "away" /\ tabs'[u].at = tabs[u].at
        \/ tabs'[u].at \in Transactions /\ transactions'[tabs'[u].at] # None
  BY <1>1, <1>3, <1>4, <1>5 DEF IInv, Typed
<1> QED
  BY <1>2, <1>3, <1>4, <1>5, <1>6, <1>7, <1>8, OutsideStep

LEMMA DisableOperatorStep ==
  ASSUME IInv, NEW o \in Operators, DisableOperator(o)
  PROVE  IInv'
<1>1. operators' = [operators EXCEPT ![o] = "disabled"]
      /\ UNCHANGED <<transactions, sessions, markers, jar, tabs, proc, authenticated, signedOut>>
  BY DEF DisableOperator, browser
<1>2. Typed' /\ Grows
  BY <1>1, Unchanging DEF IInv, Typed
<1> QED
  BY <1>1, <1>2, OutsideStep

LEMMA ExpireStep ==
  ASSUME IInv, Expire
  PROVE  IInv'
<1>1. UNCHANGED <<operators, sessions, jar, tabs, proc, authenticated, signedOut>>
  BY DEF Expire, browser
<1>2. CASE \E x \in Transactions : /\ Open(transactions, x)
                                   /\ transactions' = Close(transactions, x)
                                   /\ UNCHANGED markers
  <2>1. PICK x \in Transactions : Open(transactions, x) /\ transactions' = [transactions EXCEPT ![x].open = FALSE]
    BY <1>2 DEF Close
  <2>2. transactions[x] \in TransactionRows /\ transactions[x] # None
    BY <2>1 DEF Open, IInv, Typed
  <2>3. /\ transactions'[x] \in TransactionRows
        /\ transactions'[x].kind = transactions[x].kind
        /\ transactions'[x].session = transactions[x].session /\ ~transactions'[x].open
        /\ \A y \in Transactions \ {x} : transactions'[y] = transactions[y]
        /\ transactions' \in [Transactions -> TransactionRows \cup {None}]
    BY <2>1, <2>2 DEF IInv, Typed, TransactionRows
  <2>4. Grows /\ Typed'
    BY <1>1, <1>2, <2>3, SessionsAssumption DEF Grows, IInv, Typed, TransactionRows
  <2> QED
    BY <1>1, <1>2, <2>2, <2>3, <2>4, OutsideStep
<1>3. CASE \E s \in Sessions : /\ markers[s].stepUp
                               /\ markers' = [markers EXCEPT ![s].stepUp = FALSE]
                               /\ UNCHANGED transactions
  <2>1. /\ markers' \in [Sessions -> [revoked : BOOLEAN, stepUp : BOOLEAN]]
        /\ \A s \in Sessions : /\ markers[s].revoked => markers'[s].revoked
                               /\ markers'[s].stepUp => markers[s].stepUp
    <3>1. PICK s \in Sessions : markers[s].stepUp /\ markers' = [markers EXCEPT ![s].stepUp = FALSE]
      BY <1>3
    <3>2. PICK row : row = [markers[s] EXCEPT !.stepUp = FALSE]
      OBVIOUS
    <3>3. markers[s] \in [revoked : BOOLEAN, stepUp : BOOLEAN]
      BY DEF IInv, Typed
    <3>4. row \in [revoked : BOOLEAN, stepUp : BOOLEAN] /\ row.revoked = markers[s].revoked
      BY <3>2, <3>3
    <3>5. markers' = [markers EXCEPT ![s] = row]
      BY <3>1, <3>2
    <3> QED
      <4>1. markers \in [Sessions -> [revoked : BOOLEAN, stepUp : BOOLEAN]]
        BY DEF IInv, Typed
      <4>2. /\ markers' \in [Sessions -> [revoked : BOOLEAN, stepUp : BOOLEAN]]
            /\ markers'[s] = row /\ \A r \in Sessions \ {s} : markers'[r] = markers[r]
        BY <3>4, <3>5, <4>1
      <4>3. markers[s].revoked => markers'[s].revoked
        BY <3>4, <4>2
      <4>4. \A r \in Sessions : /\ markers[r].revoked => markers'[r].revoked
                                /\ markers'[r].stepUp => markers[r].stepUp
        BY <3>1, <4>2, <4>3
      <4> QED
        BY <4>2, <4>4
  <2>2. Grows /\ Typed'
    BY <1>1, <1>3, <2>1, Unchanging DEF IInv, Typed
  <2> QED
    BY <1>1, <1>3, <2>1, <2>2, OutsideStep
<1> QED
  BY <1>2, <1>3 DEF Expire

-----------------------------------------------------------------------------
\* The kinds of request, by the call they are at.
LEMMA AtCall ==
  ASSUME IInv, NEW h \in Handlers, Busy(h), NEW r, r = About(h), NEW todo, todo = proc[h].todo
  PROVE  /\ Head(todo).call = "session" => r.cookie \in Sessions \cup {None} /\ AtSession(r, todo)
         /\ Head(todo).call = "marker" => Known(r.cookie) /\ AtMarker(r, todo)
         /\ Head(todo).call \in {"stepUp", "run", "answerWhoami", "revokeSession", "revokeMarker",
                                 "createStepUp"} =>
              Known(r.cookie) /\ Working(r, todo)
         /\ Head(todo).call = "consume" =>
              Called(r, todo) /\ r.kind \in {"login", "stepUp"}
         /\ Head(todo).call = "exchange" => LoggingIn(r, todo) \/ SteppingUp(r, todo)
         /\ Head(todo).call \in {"lookUp", "activate", "createSession"} => LoggingIn(r, todo)
         /\ Head(todo).call = "recordStepUp" => SteppingUp(r, todo)
<1>1. RequestOK(r, todo)
  BY DEF IInv, RequestsOK
<1>2. AtSession(r, todo) => Head(todo).call = "session"
  BY CallNames DEF AtSession
<1>3. AtMarker(r, todo) => Head(todo).call = "marker"
  BY CallNames DEF AtMarker
<1>4. Called(r, todo) => Head(todo).call = "consume"
  BY CallNames, TwoCalls DEF Called
<1>5. Admitted(r, todo) =>
        \/ Head(todo).call \in {"stepUp", "answerWhoami", "revokeSession", "createStepUp"}
        \/ Head(todo).call = "consume" /\ r.kind = "stepUp" /\ Called(r, todo)
  BY <1>4, CallNames, OneCall, TwoCalls DEF Admitted
<1>6. Working(r, todo) =>
        \/ Head(todo).call \in {"stepUp", "run", "answerWhoami", "revokeSession", "revokeMarker",
                                "createStepUp"}
        \/ Head(todo).call = "consume" /\ r.kind = "stepUp" /\ Called(r, todo)
  BY <1>5, CallNames, OneCall DEF Working
<1>7. LoggingIn(r, todo) => Head(todo).call \in {"exchange", "lookUp", "activate", "createSession"}
  BY CallNames, OneCall DEF LoggingIn
<1>8. SteppingUp(r, todo) => Head(todo).call \in {"exchange", "recordStepUp"}
  BY CallNames, OneCall DEF SteppingUp
<1> QED
  BY <1>1, <1>2, <1>3, <1>4, <1>6, <1>7, <1>8 DEF RequestOK

\* A step of a request that writes nothing, and either ends it or goes on as
\* it should.
LEMMA CheckStep ==
  ASSUME IInv, NEW h \in Handlers, Busy(h), UNCHANGED <<store, browser, authenticated, signedOut>>,
         NEW rest, Stop(h) \/ Continue(h, rest),
         rest # <<>> => RequestOK(About(h), rest),
         About(h).kind = "login" => \A x \in Transactions : About(h).about = x => Holds(h, x)
  PROVE  IInv'
<1>1. UNCHANGED <<operators, transactions, sessions, markers, jar, tabs, authenticated, signedOut>>
  BY DEF store, browser
<1>2. Others(h) /\ (Busy(h)' => rest # <<>> /\ proc'[h].todo = rest /\ proc'[h].about = About(h))
  <2>1. CASE Stop(h)
    BY <2>1, StopOK DEF IInv, RequestsOK, Busy
  <2>2. CASE Continue(h, rest)
    BY <2>2, ContinueOK DEF IInv, RequestsOK, Busy, About
  <2> QED
    BY <2>1, <2>2
<1>3. Typed'
  BY <1>1 DEF IInv, Typed
<1>4. \A x \in Transactions : Holds(h, x)' => Holds(h, x)
  BY <1>2 DEF Holds, About
<1> QED
  BY <1>1, <1>2, <1>3, <1>4, QuietStep

LEMMA FindSessionStep ==
  ASSUME IInv, NEW h \in Handlers, FindSession(h)
  PROVE  IInv'
<1>1. PICK r, todo : r = About(h) /\ todo = proc[h].todo /\ Busy(h) /\ Head(todo).call = "session"
  BY DEF FindSession, Calls
<1>2. AtSession(r, todo) /\ r.cookie \in Sessions \cup {None}
  BY <1>1, AtCall
<1>3. PICK rest : rest = Tail(todo) /\ rest = Rest(h) /\ AtMarker(r, rest) /\ rest # <<>>
  BY <1>1, <1>2 DEF AtSession, AtMarker, Rest
<1>4. r.kind # "login"
  BY <1>3 DEF AtMarker, Admitted
<1>5. CASE Open(sessions, r.cookie) /\ operators[sessions[r.cookie].operator] = "active"
  <2>1. Known(r.cookie)
    BY <1>2, <1>5 DEF Open, Known
  <2>2. RequestOK(r, rest)
    BY <1>3, <2>1 DEF RequestOK
  <2> QED
    BY <1>1, <1>3, <1>4, <1>5, <2>2, CheckStep DEF FindSession
<1>6. CASE ~(Open(sessions, r.cookie) /\ operators[sessions[r.cookie].operator] = "active")
  BY <1>1, <1>4, <1>6, CheckStep DEF FindSession
<1> QED
  BY <1>5, <1>6

LEMMA CheckMarkerStep ==
  ASSUME IInv, NEW h \in Handlers, CheckMarker(h)
  PROVE  IInv'
<1>1. PICK r, todo : r = About(h) /\ todo = proc[h].todo /\ Busy(h) /\ Head(todo).call = "marker"
  BY DEF CheckMarker, Calls
<1>2. AtMarker(r, todo) /\ Known(r.cookie)
  BY <1>1, AtCall
<1>3. PICK rest : rest = Tail(todo) /\ rest = Rest(h) /\ Admitted(r, rest) /\ rest # <<>>
  BY <1>1, <1>2 DEF AtMarker, Rest
<1>4. r.kind # "login"
  BY <1>3 DEF Admitted
<1>5. CASE Continue(h, Rest(h)) /\ (Safe(r.kind) \/ CsrfMatches(r))
  <2>1. RequestOK(r, rest)
    BY <1>2, <1>3, <1>5 DEF RequestOK, Working, CsrfMatches
  <2> QED
    BY <1>1, <1>3, <1>4, <1>5, <2>1, CheckStep DEF CheckMarker
<1>6. CASE Stop(h)
  BY <1>1, <1>4, <1>6, CheckStep DEF CheckMarker
<1> QED
  BY <1>1, <1>5, <1>6 DEF CheckMarker

LEMMA CheckStepUpStep ==
  ASSUME IInv, NEW h \in Handlers, CheckStepUp(h)
  PROVE  IInv'
<1>1. PICK r, todo : r = About(h) /\ todo = proc[h].todo /\ Busy(h) /\ Head(todo).call = "stepUp"
  BY DEF CheckStepUp, Calls
<1>2. Known(r.cookie) /\ Working(r, todo)
  BY <1>1, AtCall
<1>3. /\ r.kind = "command" /\ r.csrf = r.cookie /\ todo = <<Step("stepUp"), Step("run")>>
  BY <1>1, <1>2, CallNames, OneCall, TwoCalls DEF Working, Admitted, Called, Safe
<1>4. Rest(h) = <<Step("run")>>
  BY <1>1, <1>3, TwoCalls DEF Rest
<1>5. RequestOK(r, <<Step("run")>>)
  BY <1>2, <1>3 DEF RequestOK, Working
<1>6. Stop(h) \/ Continue(h, <<Step("run")>>)
  BY <1>4 DEF CheckStepUp
<1> QED
  BY <1>1, <1>3, <1>5, <1>6, CheckStep DEF CheckStepUp

LEMMA RunStep ==
  ASSUME IInv, NEW h \in Handlers, Run(h)
  PROVE  IInv'
<1>1. PICK r, todo : r = About(h) /\ todo = proc[h].todo /\ Busy(h) /\ Head(todo).call = "run"
  BY DEF Run, Calls
<1>2. r.kind # "login"
  BY <1>1, AtCall DEF Working, Admitted
<1> QED
  BY <1>1, <1>2, CheckStep DEF Run

LEMMA AnswerWhoamiStep ==
  ASSUME IInv, NEW h \in Handlers, AnswerWhoami(h)
  PROVE  IInv'
<1>1. PICK r, todo : r = About(h) /\ todo = proc[h].todo /\ Busy(h) /\ Head(todo).call = "answerWhoami"
  BY DEF AnswerWhoami, Calls
<1>2. Known(r.cookie) /\ Working(r, todo)
  BY <1>1, AtCall
<1>3. r.tab \in Tabs /\ r.cookie \in Sessions
  BY <1>1, <1>2, CallNames, OneCall, TwoCalls DEF Working, Admitted, Called, Known
<1>4. UNCHANGED <<operators, transactions, sessions, markers, jar, authenticated, signedOut>>
  BY DEF AnswerWhoami, store
<1>5. /\ tabs' \in [Tabs -> TabRows]
      /\ \A u \in Tabs : tabs'[u].view = "away" => tabs[u].view = "away" /\ tabs'[u].at = tabs[u].at
  <2> DEFINE row == [view |-> "in", shows |-> r.cookie, at |-> None]
  <2>1. row \in TabRows /\ row.view # "away"
    BY <1>3 DEF TabRows
  <2>2. tabs' = tabs \/ tabs' = [tabs EXCEPT ![r.tab] = row]
    BY <1>1 DEF AnswerWhoami
  <2> HIDE DEF row
  <2> QED
    BY <1>3, <2>1, <2>2, TabShown, TabsTyped DEF IInv
<1>6. Typed'
  BY <1>4, <1>5 DEF IInv, Typed, TabRows
<1>7. Others(h) /\ ~Busy(h)'
  BY StopOK DEF AnswerWhoami, IInv, RequestsOK, Busy
<1> QED
  BY <1>5, <1>6, <1>7, QuietStep DEF AnswerWhoami, Holds

LEMMA RevokeSessionStep ==
  ASSUME IInv, NEW h \in Handlers, RevokeSession(h)
  PROVE  IInv'
<1>1. PICK r, todo : r = About(h) /\ todo = proc[h].todo /\ Busy(h) /\ Head(todo).call = "revokeSession"
  BY DEF RevokeSession, Calls
<1>2. Known(r.cookie) /\ Working(r, todo)
  BY <1>1, AtCall
<1>3. r.kind = "logout" /\ todo = <<Step("revokeSession"), Step("revokeMarker")>>
  BY <1>1, <1>2, CallNames, OneCall, TwoCalls DEF Working, Admitted, Called
<1>4. PICK s \in Sessions : s = r.cookie /\ sessions[s] # None
  BY <1>2 DEF Known
<1>5. /\ sessions' = [sessions EXCEPT ![s].open = FALSE]
      /\ UNCHANGED <<operators, transactions, markers, jar, tabs, authenticated, signedOut>>
  BY <1>1, <1>4 DEF RevokeSession, Close, browser
<1>6. sessions[s] \in SessionRows
  BY <1>4 DEF IInv, Typed
<1>7. /\ sessions'[s] \in SessionRows /\ ~sessions'[s].open
      /\ sessions'[s].operator = sessions[s].operator /\ sessions'[s].login = sessions[s].login
      /\ \A q \in Sessions \ {s} : sessions'[q] = sessions[q]
      /\ sessions' \in [Sessions -> SessionRows \cup {None}]
  BY <1>5, <1>6 DEF IInv, Typed, SessionRows
<1>8. Typed'
  BY <1>5, <1>7 DEF IInv, Typed
<1>9. sessions'[s] # None
  BY <1>7, NoneIsNoRow
<1>10. Grows /\ \A x : NoSessionOf(x)
  BY <1>4, <1>5, <1>7, <1>9 DEF Grows, NoSessionOf
<1>11. Others(h) /\ proc'[h].todo = <<Step("revokeMarker")>> /\ proc'[h].about = r
  BY <1>1, <1>3, ContinueOK, OneCall, TwoCalls DEF RevokeSession, Rest, IInv, RequestsOK, About
<1>12. RequestOK(proc[h].about, proc[h].todo)'
  BY <1>3, <1>4, <1>7, <1>9, <1>11 DEF RequestOK, Working, Known
<1>13. \A x : ~Holds(h, x)'
  BY <1>3, <1>11 DEF Holds, About
<1>14. RequestsOK'
  BY <1>10, <1>11, <1>12, <1>13, RequestsStep
<1>15. RowsOK' /\ OneSessionPerLogin' /\ StepUpIsProven'
  BY <1>4, <1>5, <1>7, <1>8, <1>10, RowsStep
<1> QED
  BY <1>8, <1>14, <1>15 DEF IInv

LEMMA RevokeMarkerStep ==
  ASSUME IInv, NEW h \in Handlers, RevokeMarker(h)
  PROVE  IInv'
<1>1. PICK r, todo : r = About(h) /\ todo = proc[h].todo /\ Busy(h) /\ Head(todo).call = "revokeMarker"
  BY DEF RevokeMarker, Calls
<1>2. Known(r.cookie) /\ Working(r, todo)
  BY <1>1, AtCall
<1>3. r.kind = "logout" /\ ~sessions[r.cookie].open
  BY <1>1, <1>2, CallNames, OneCall, TwoCalls DEF Working, Admitted, Called
<1>4. PICK s \in Sessions : s = r.cookie /\ sessions[s] # None
  BY <1>2 DEF Known
<1>5. /\ markers' = [markers EXCEPT ![s] = Revoked(@)] /\ signedOut' = signedOut \cup {s}
      /\ jar' = [jar EXCEPT !.session = None]
      /\ UNCHANGED <<operators, transactions, sessions, tabs, authenticated>>
  BY <1>1, <1>4 DEF RevokeMarker
<1>6. PICK row : row = Revoked(markers[s])
  OBVIOUS
<1>7. /\ row \in [revoked : BOOLEAN, stepUp : BOOLEAN]
      /\ row.revoked /\ row.stepUp = markers[s].stepUp
  BY <1>6 DEF Revoked, IInv, Typed
<1>8. /\ markers' \in [Sessions -> [revoked : BOOLEAN, stepUp : BOOLEAN]]
      /\ markers'[s] = row /\ \A q \in Sessions \ {s} : markers'[q] = markers[q]
  BY <1>5, <1>6, <1>7 DEF IInv, Typed
<1>9. Typed'
  <2>1. jar' \in JarRows
    BY <1>5, TabsTyped DEF IInv, JarRows
  <2> QED
    BY <1>4, <1>5, <1>8, <2>1 DEF IInv, Typed, JarRows
<1>10. Grows /\ \A x : NoSessionOf(x)
  BY <1>5, Unchanging
<1>11. Others(h) /\ ~Busy(h)'
  BY StopOK DEF RevokeMarker, IInv, RequestsOK, Busy
<1>12. RequestsOK'
  BY <1>10, <1>11, RequestsStep DEF Holds
<1>13. \A q \in Sessions : /\ markers[q].revoked => markers'[q].revoked
                           /\ markers'[q].stepUp => markers[q].stepUp
  BY <1>7, <1>8
<1>14. \A q \in signedOut' : q \in signedOut \/ (Known(q)' /\ ~sessions'[q].open /\ markers'[q].revoked)
  BY <1>3, <1>4, <1>5, <1>7, <1>8 DEF Known
<1>15. RowsOK' /\ OneSessionPerLogin' /\ StepUpIsProven'
  <2>1. \A q \in Sessions : sessions[q] = None => sessions'[q] = None
    BY <1>5
  <2>2. \A x \in Transactions : transactions[x] = None => transactions'[x] = None
    BY <1>5
  <2>3. \A t \in Tabs : tabs'[t].view = "away" => tabs[t].view = "away" /\ tabs'[t].at = tabs[t].at
    BY <1>5
  <2> QED
    BY <1>9, <1>10, <1>13, <1>14, <2>1, <2>2, <2>3, RowsStep
<1> QED
  BY <1>9, <1>12, <1>15 DEF IInv

LEMMA CreateStepUpStep ==
  ASSUME IInv, NEW h \in Handlers, CreateStepUp(h)
  PROVE  IInv'
<1>1. PICK r, todo : r = About(h) /\ todo = proc[h].todo /\ Busy(h) /\ Head(todo).call = "createStepUp"
  BY DEF CreateStepUp, Calls
<1>2. Known(r.cookie) /\ Working(r, todo)
  BY <1>1, AtCall
<1>3. r.tab \in Tabs /\ r.cookie \in Sessions
  BY <1>1, <1>2, CallNames, OneCall, TwoCalls DEF Working, Admitted, Called, Known
<1> DEFINE row == [kind |-> "stepUp", open |-> TRUE, session |-> r.cookie]
<1>4. PICK x \in Unused(transactions) :
        /\ transactions' = [transactions EXCEPT ![x] = row]
        /\ jar' = [jar EXCEPT !.stepUp = x]
        /\ tabs' = IF tabs[r.tab].view = "in"
                   THEN [tabs EXCEPT ![r.tab] = [view |-> "away", shows |-> None, at |-> x]]
                   ELSE tabs
  BY <1>1 DEF CreateStepUp
<1>5. UNCHANGED <<operators, sessions, markers, authenticated, signedOut>>
  BY DEF CreateStepUp
<1>6. x \in Transactions /\ transactions[x] = None
  BY <1>4 DEF Unused, IInv, Typed
<1>7. row \in TransactionRows /\ row # None /\ row.kind = "stepUp" /\ row.session = r.cookie
  <2>1. row \in TransactionRows
    BY <1>3 DEF TransactionRows
  <2>2. row # None
    BY <2>1, NoneIsNoRow
  <2> QED
    BY <2>1, <2>2
<1> HIDE DEF row
<1>8. transactions'[x] = row /\ \A y \in Transactions \ {x} : transactions'[y] = transactions[y]
  BY <1>4, <1>6 DEF IInv, Typed
<1>9. Typed'
  <2>1. transactions' \in [Transactions -> TransactionRows \cup {None}]
    BY <1>4, <1>7 DEF IInv, Typed
  <2>2. tabs' \in [Tabs -> TabRows]
    BY <1>3, <1>4, <1>6, TabsTyped DEF IInv, TabRows
  <2>3. jar' \in JarRows
    BY <1>4, <1>6, TabsTyped DEF IInv, JarRows
  <2> QED
    BY <1>5, <2>1, <2>2, <2>3 DEF IInv, Typed, TabRows, JarRows
<1>10. Grows /\ \A y : NoSessionOf(y)
  BY <1>5, <1>6, <1>8 DEF Grows, NoSessionOf
<1>11. Others(h) /\ ~Busy(h)'
  BY StopOK DEF CreateStepUp, IInv, RequestsOK, Busy
<1>12. RequestsOK'
  BY <1>10, <1>11, RequestsStep DEF Holds
<1>13. \A t \in Tabs : tabs'[t].view = "away" =>
         \/ tabs[t].view = "away" /\ tabs'[t].at = tabs[t].at
         \/ tabs'[t].at \in Transactions /\ transactions'[tabs'[t].at] # None
  BY <1>3, <1>4, <1>6, <1>7, <1>8, TabsTyped DEF IInv
<1>14. Known(r.cookie)'
  BY <1>2, <1>5 DEF Known
<1>15. \A y \in Transactions : transactions[y] = None /\ transactions'[y] # None =>
         transactions'[y].kind = "stepUp" /\ Known(transactions[y].session)'
  <2> SUFFICES ASSUME NEW y \in Transactions, transactions[y] = None, transactions'[y] # None
               PROVE  transactions'[y].kind = "stepUp" /\ Known(transactions[y].session)'
    OBVIOUS
  <2>1. y = x /\ transactions'[y].kind = "stepUp" /\ transactions'[y].session = r.cookie
    BY <1>7, <1>8
  <2> QED
    BY <1>14, <2>1 DEF Known
<1>16. RowsOK' /\ OneSessionPerLogin' /\ StepUpIsProven'
  BY <1>5, <1>9, <1>10, <1>13, <1>15, RowsStep
<1> QED
  BY <1>9, <1>12, <1>16 DEF IInv

-----------------------------------------------------------------------------
\* Every answer of a callback ends it and brings its tab back.
LEMMA AnswerOK ==
  ASSUME IInv, NEW h \in Handlers, About(h).kind \in {"login", "stepUp"},
         NEW s \in Sessions \cup {None}, Answer(h, s)
  PROVE  /\ jar' \in JarRows /\ tabs' \in [Tabs -> TabRows]
         /\ \A t \in Tabs : tabs'[t].view = "away" => tabs[t].view = "away" /\ tabs'[t].at = tabs[t].at
         /\ Others(h) /\ ~Busy(h)'
<1>1. Stop(h) /\ BackToConsole(h)
      /\ jar' = [jar EXCEPT ![About(h).kind] = None, !.session = IF s = None THEN @ ELSE s]
  BY DEF Answer
<1>2. Others(h) /\ ~Busy(h)'
  BY <1>1, StopOK DEF IInv, RequestsOK, Busy
<1>3. tabs' = [t \in Tabs |-> IF tabs[t].at = About(h).about THEN Loading ELSE tabs[t]]
  BY <1>1 DEF BackToConsole
<1>4. tabs \in [Tabs -> TabRows] /\ jar \in JarRows
  BY TabsTyped DEF IInv
<1>5. Loading \in TabRows /\ Loading.view # "away"
  BY DEF Loading, TabRows
<1>6. jar' \in JarRows
  <2>1. CASE About(h).kind = "login"
    BY <1>1, <1>4, <2>1 DEF JarRows
  <2>2. CASE About(h).kind = "stepUp"
    BY <1>1, <1>4, <2>2 DEF JarRows
  <2> QED
    BY <2>1, <2>2
<1>7. tabs' \in [Tabs -> TabRows]
  BY <1>3, <1>4, <1>5
<1>8. \A t \in Tabs : tabs'[t].view = "away" => tabs[t].view = "away" /\ tabs'[t].at = tabs[t].at
  BY <1>3, <1>5
<1> QED
  BY <1>2, <1>6, <1>7, <1>8

\* A callback that is refused.
LEMMA RefusedStep ==
  ASSUME IInv, NEW h \in Handlers, About(h).kind \in {"login", "stepUp"}, Answer(h, None),
         UNCHANGED <<store, authenticated, signedOut>>
  PROVE  IInv'
<1>1. /\ jar' \in JarRows /\ tabs' \in [Tabs -> TabRows]
      /\ \A t \in Tabs : tabs'[t].view = "away" => tabs[t].view = "away" /\ tabs'[t].at = tabs[t].at
      /\ Others(h) /\ ~Busy(h)'
  BY AnswerOK
<1>2. Typed'
  BY <1>1 DEF IInv, Typed, TabRows, JarRows, store
<1> QED
  BY <1>1, <1>2, QuietStep DEF Holds

\* A callback that closes its transaction and goes on, or is refused.
LEMMA ConsumeStep ==
  ASSUME IInv, NEW h \in Handlers, Busy(h), NEW r, r = About(h), Called(r, proc[h].todo),
         r.kind \in {"login", "stepUp"}, NEW fresh, fresh => Proven(r.subject, r.about),
         Consumable(r.about), transactions' = Close(transactions, r.about),
         UNCHANGED <<operators, sessions, markers, authenticated, signedOut>>,
         (Continue(h, <<Exchange(fresh)>>) /\ UNCHANGED browser) \/ Answer(h, None)
  PROVE  IInv'
<1>1. PICK x \in Transactions :
        /\ x = r.about /\ transactions[x] # None /\ transactions[x].kind = r.kind
        /\ transactions[x].open /\ transactions' = [transactions EXCEPT ![x].open = FALSE]
  BY DEF Called, Row, Consumable, Open, Close
<1>2. transactions[x] \in TransactionRows
  BY <1>1 DEF IInv, Typed
<1>3. /\ transactions'[x] \in TransactionRows
      /\ transactions'[x].kind = transactions[x].kind
      /\ transactions'[x].session = transactions[x].session /\ ~transactions'[x].open
      /\ \A y \in Transactions \ {x} : transactions'[y] = transactions[y]
      /\ transactions' \in [Transactions -> TransactionRows \cup {None}]
  <2>1. PICK row : row = [transactions[x] EXCEPT !.open = FALSE]
    OBVIOUS
  <2>2. /\ row \in TransactionRows /\ row.kind = transactions[x].kind
        /\ row.session = transactions[x].session /\ ~row.open
    BY <1>2, <2>1 DEF TransactionRows
  <2>3. transactions' = [transactions EXCEPT ![x] = row]
    BY <1>1, <2>1
  <2>4. transactions \in [Transactions -> TransactionRows \cup {None}]
    BY DEF IInv, Typed
  <2> QED
    BY <2>2, <2>3, <2>4
<1>4. transactions'[x] # None
  BY <1>3, NoneIsNoRow
<1>5. Grows /\ \A y : NoSessionOf(y)
  BY <1>1, <1>3, <1>4 DEF Grows, NoSessionOf
<1>6. /\ jar' \in JarRows /\ tabs' \in [Tabs -> TabRows]
      /\ \A t \in Tabs : tabs'[t].view = "away" => tabs[t].view = "away" /\ tabs'[t].at = tabs[t].at
      /\ Others(h)
      /\ Busy(h)' => proc'[h].about = r /\ proc'[h].todo = <<Exchange(fresh)>>
  <2>1. CASE Continue(h, <<Exchange(fresh)>>) /\ UNCHANGED browser
    <3>1. Others(h) /\ proc'[h].about = r /\ proc'[h].todo = <<Exchange(fresh)>>
      BY <2>1, ContinueOK, OneCall DEF IInv, RequestsOK, About
    <3> QED
      BY <2>1, <3>1, TabsTyped DEF IInv, browser
  <2>2. CASE Answer(h, None)
    BY <2>2, AnswerOK
  <2> QED
    BY <2>1, <2>2
<1>7. Typed'
  BY <1>3, <1>6 DEF IInv, Typed, TabRows, JarRows
<1>8. Busy(h)' => RequestOK(proc[h].about, proc[h].todo)'
  <2> SUFFICES ASSUME proc'[h].about = r, proc'[h].todo = <<Exchange(fresh)>>
               PROVE  RequestOK(proc[h].about, proc[h].todo)'
    BY <1>6
  <2>1. r.subject \in Operators /\ Row(r.about, r.kind)'
    BY <1>1, <1>3, <1>4 DEF Called, Row
  <2>2. CASE r.kind = "login"
    <3>1. \A s \in Sessions : sessions[s] # None => sessions[s].login # r.about
      BY <1>1 DEF IInv, RowsOK
    <3>2. LoggingIn(r, <<Exchange(fresh)>>)'
      BY <1>1, <1>3, <2>1, <2>2, <3>1 DEF LoggingIn
    <3> QED
      BY <3>2 DEF RequestOK
  <2>3. CASE r.kind = "stepUp"
    <3>1. fresh => Proven(r.subject, r.about)'
      BY DEF Proven
    <3>2. SteppingUp(r, <<Exchange(fresh)>>)'
      BY <2>1, <2>3, <3>1 DEF SteppingUp
    <3> QED
      BY <3>2 DEF RequestOK
  <2> QED
    BY <2>2, <2>3
<1>9. \A y \in Transactions : Holds(h, y)' => \A g \in Handlers : ~Holds(g, y)
  <2> SUFFICES ASSUME NEW y \in Transactions, Holds(h, y)', NEW g \in Handlers, Holds(g, y)
               PROVE  FALSE
    OBVIOUS
  <2>1. y = x
    BY <1>1, <1>6 DEF Holds, About
  <2>2. LoggingIn(About(g), proc[g].todo) /\ About(g).about = y
    BY HoldsIsLoggingIn DEF Holds
  <2> QED
    BY <1>1, <2>1, <2>2 DEF LoggingIn
<1>10. RequestsOK'
  BY <1>5, <1>6, <1>8, <1>9, RequestsStep
<1>11. \A y \in Transactions : transactions[y] = None => transactions'[y] = None
  BY <1>1, <1>3
<1>12. RowsOK' /\ OneSessionPerLogin' /\ StepUpIsProven'
  BY <1>5, <1>6, <1>7, <1>11, RowsStep
<1> QED
  BY <1>7, <1>10, <1>12 DEF IInv

LEMMA ConsumeTransactionStep ==
  ASSUME IInv, NEW h \in Handlers, ConsumeTransaction(h)
  PROVE  IInv'
<1>1. PICK r, todo : r = About(h) /\ todo = proc[h].todo /\ Busy(h) /\ Head(todo).call = "consume"
  BY DEF ConsumeTransaction, Calls
<1>2. Called(r, todo) /\ r.kind \in {"login", "stepUp"}
  BY <1>1, AtCall
<1>3. PICK bound, fresh : /\ todo = <<Consume(bound), Exchange(fresh)>>
                          /\ fresh => Proven(r.subject, r.about)
  BY <1>2 DEF Called
<1>4. Rest(h) = <<Exchange(fresh)>>
  BY <1>1, <1>3, TwoCalls DEF Rest
<1>5. CASE Consumable(r.about)
  BY <1>1, <1>2, <1>3, <1>4, <1>5, ConsumeStep DEF ConsumeTransaction
<1>6. CASE ~Consumable(r.about)
  <2>1. Answer(h, None) /\ UNCHANGED <<store, authenticated, signedOut>>
    BY <1>1, <1>6 DEF ConsumeTransaction, store
  <2> QED
    BY <1>1, <1>2, <2>1, RefusedStep
<1> QED
  BY <1>5, <1>6

\* A request that logs in: nobody else holds its transaction.
LEMMA LoggingInGoesOn ==
  ASSUME IInv, NEW h \in Handlers, Busy(h), NEW r, r = About(h), LoggingIn(r, proc[h].todo)
  PROVE  /\ r.kind = "login" /\ r.subject \in Operators
         /\ \A x \in Transactions : r.about = x => Holds(h, x)
         /\ \A todo : todo \in {<<Step("lookUp")>>, <<Step("activate")>>, <<Step("createSession")>>} =>
              RequestOK(r, todo) /\ todo # <<>>
<1>1. r.kind = "login" /\ r.subject \in Operators
  BY DEF LoggingIn
<1>2. \A x \in Transactions : r.about = x => Holds(h, x)
  BY HoldsIsLoggingIn
<1>3. \A todo : todo \in {<<Step("lookUp")>>, <<Step("activate")>>, <<Step("createSession")>>} =>
        RequestOK(r, todo)
  BY DEF LoggingIn, RequestOK
<1>4. \A todo : todo \in {<<Step("lookUp")>>, <<Step("activate")>>, <<Step("createSession")>>} =>
        todo # <<>>
  BY OneCall
<1> QED
  BY <1>1, <1>2, <1>3, <1>4

LEMMA ExchangeCodeStep ==
  ASSUME IInv, NEW h \in Handlers, ExchangeCode(h)
  PROVE  IInv'
<1>1. PICK r, todo : r = About(h) /\ todo = proc[h].todo /\ Busy(h) /\ Head(todo).call = "exchange"
  BY DEF ExchangeCode, Calls
<1>2. LoggingIn(r, todo) \/ SteppingUp(r, todo)
  BY <1>1, AtCall
<1>3. UNCHANGED store /\ UNCHANGED authenticated /\ UNCHANGED signedOut
  BY DEF ExchangeCode
<1>4. r.kind \in {"login", "stepUp"}
  BY <1>2 DEF LoggingIn, SteppingUp
<1>5. CASE Answer(h, None)
  BY <1>1, <1>3, <1>4, <1>5, RefusedStep
<1>6. CASE r.kind = "login" /\ Continue(h, <<Step("lookUp")>>) /\ UNCHANGED browser
  <2>1. LoggingIn(r, todo)
    BY <1>2, <1>6 DEF SteppingUp
  <2>2. RequestOK(r, <<Step("lookUp")>>) /\ \A x \in Transactions : r.about = x => Holds(h, x)
    BY <1>1, <2>1, LoggingInGoesOn
  <2> QED
    BY <1>1, <1>3, <1>6, <2>2, CheckStep
<1>7. CASE /\ r.kind = "stepUp" /\ SameSubject(r) /\ ReauthIsFresh(Argument(h))
           /\ Continue(h, <<Step("recordStepUp")>>) /\ UNCHANGED browser
  <2>1. SteppingUp(r, todo)
    BY <1>2, <1>7 DEF LoggingIn
  <2>2. PICK fresh : todo = <<Exchange(fresh)>> /\ (fresh => Proven(r.subject, r.about))
    BY <1>1, <2>1, CallNames, OneCall DEF SteppingUp
  <2>3. fresh
    BY <1>1, <1>7, <2>2, CallNames, OneCall DEF Argument, ReauthIsFresh
  <2>4. RequestOK(r, <<Step("recordStepUp")>>)
    BY <1>7, <2>1, <2>2, <2>3 DEF RequestOK, SteppingUp, SameSubject
  <2> QED
    BY <1>1, <1>3, <1>7, <2>4, CheckStep
<1> QED
  BY <1>1, <1>5, <1>6, <1>7 DEF ExchangeCode

LEMMA RecordStepUpStep ==
  ASSUME IInv, NEW h \in Handlers, RecordStepUp(h)
  PROVE  IInv'
<1>1. PICK r, todo : r = About(h) /\ todo = proc[h].todo /\ Busy(h) /\ Head(todo).call = "recordStepUp"
  BY DEF RecordStepUp, Calls
<1>2. SteppingUp(r, todo)
  BY <1>1, AtCall
<1>3. todo = <<Step("recordStepUp")>>
  BY <1>1, <1>2, CallNames, OneCall DEF SteppingUp
<1>4. /\ r.kind = "stepUp" /\ Row(r.about, "stepUp") /\ Proven(r.subject, r.about)
      /\ r.subject = sessions[transactions[r.about].session].operator
  <2>1. \A fresh : todo # <<Exchange(fresh)>>
    BY <1>1, CallNames, OneCall
  <2> QED
    BY <1>2, <2>1 DEF SteppingUp
<1>5. PICK s \in Sessions : s = transactions[r.about].session /\ sessions[s] # None
  BY <1>4 DEF IInv, RowsOK, Known, Row
<1>6. /\ markers' = [markers EXCEPT ![s] = Marked(@)] /\ Answer(h, None)
      /\ UNCHANGED <<operators, transactions, sessions, authenticated, signedOut>>
  BY <1>1, <1>5 DEF RecordStepUp
<1>7. PICK row : row = Marked(markers[s])
  OBVIOUS
<1>8. row \in [revoked : BOOLEAN, stepUp : BOOLEAN] /\ row.revoked = markers[s].revoked
  BY <1>7 DEF Marked, IInv, Typed
<1>9. /\ markers' \in [Sessions -> [revoked : BOOLEAN, stepUp : BOOLEAN]]
      /\ markers'[s] = row /\ \A q \in Sessions \ {s} : markers'[q] = markers[q]
  BY <1>6, <1>7, <1>8 DEF IInv, Typed
<1>10. /\ jar' \in JarRows /\ tabs' \in [Tabs -> TabRows]
       /\ \A t \in Tabs : tabs'[t].view = "away" => tabs[t].view = "away" /\ tabs'[t].at = tabs[t].at
       /\ Others(h) /\ ~Busy(h)'
  BY <1>1, <1>4, <1>6, AnswerOK
<1>11. Typed'
  BY <1>6, <1>9, <1>10 DEF IInv, Typed, TabRows, JarRows
<1>12. Grows /\ \A x : NoSessionOf(x)
  BY <1>6, Unchanging
<1>13. RequestsOK'
  BY <1>10, <1>12, RequestsStep DEF Holds
<1>14. \A q \in Sessions :
         /\ markers[q].revoked => markers'[q].revoked
         /\ markers'[q].stepUp => markers[q].stepUp \/ q = s
  BY <1>8, <1>9
<1>15. \A q \in Sessions :
         /\ markers[q].revoked => markers'[q].revoked
         /\ markers'[q].stepUp =>
              \/ markers[q].stepUp
              \/ \E x \in Transactions : /\ Row(x, "stepUp") /\ transactions[x].session = q
                                         /\ Proven(sessions[q].operator, x)
  BY <1>4, <1>5, <1>14 DEF Row
<1>16. /\ \A q \in Sessions : sessions[q] = None => sessions'[q] = None
       /\ \A x \in Transactions : transactions[x] = None => transactions'[x] = None
       /\ \A q \in signedOut' : q \in signedOut
  BY <1>6
<1>17. RowsOK' /\ OneSessionPerLogin' /\ StepUpIsProven'
  BY <1>10, <1>11, <1>12, <1>15, <1>16, RowsStep
<1> QED
  BY <1>11, <1>13, <1>17 DEF IInv

LEMMA LookUpOperatorStep ==
  ASSUME IInv, NEW h \in Handlers, LookUpOperator(h)
  PROVE  IInv'
<1>1. PICK r, todo : r = About(h) /\ todo = proc[h].todo /\ Busy(h) /\ Head(todo).call = "lookUp"
  BY DEF LookUpOperator, Calls
<1>2. LoggingIn(r, todo)
  BY <1>1, AtCall
<1>3. /\ r.kind = "login" /\ \A x \in Transactions : r.about = x => Holds(h, x)
      /\ RequestOK(r, <<Step("createSession")>>) /\ RequestOK(r, <<Step("activate")>>)
  BY <1>1, <1>2, LoggingInGoesOn
<1>4. UNCHANGED <<store, authenticated, signedOut>>
  BY DEF LookUpOperator
<1>5. \/ (Continue(h, <<Step("createSession")>>) \/ Continue(h, <<Step("activate")>>)) /\ UNCHANGED browser
      \/ Answer(h, None)
  BY DEF LookUpOperator
<1>6. CASE Answer(h, None)
  BY <1>1, <1>3, <1>4, <1>6, RefusedStep
<1>7. CASE Continue(h, <<Step("createSession")>>) /\ UNCHANGED browser
  BY <1>1, <1>3, <1>4, <1>7, CheckStep
<1>8. CASE Continue(h, <<Step("activate")>>) /\ UNCHANGED browser
  BY <1>1, <1>3, <1>4, <1>8, CheckStep
<1> QED
  BY <1>5, <1>6, <1>7, <1>8

LEMMA ActivatePendingStep ==
  ASSUME IInv, NEW h \in Handlers, ActivatePending(h)
  PROVE  IInv'
<1>1. PICK r, todo : r = About(h) /\ todo = proc[h].todo /\ Busy(h) /\ Head(todo).call = "activate"
  BY DEF ActivatePending, Calls
<1>2. LoggingIn(r, todo)
  BY <1>1, AtCall
<1>3. /\ r.kind = "login" /\ r.subject \in Operators
      /\ \A x \in Transactions : r.about = x => Holds(h, x)
      /\ RequestOK(r, <<Step("createSession")>>)
  BY <1>1, <1>2, LoggingInGoesOn
<1>4. CASE Answer(h, None) /\ UNCHANGED operators
  <2>1. UNCHANGED <<store, authenticated, signedOut>>
    BY <1>4 DEF ActivatePending, store
  <2> QED
    BY <1>1, <1>3, <1>4, <2>1, RefusedStep
<1>5. CASE /\ operators' = [operators EXCEPT ![r.subject] = "active"]
           /\ Continue(h, <<Step("createSession")>>) /\ UNCHANGED browser
  <2>1. UNCHANGED <<transactions, sessions, markers, jar, tabs, authenticated, signedOut>>
    BY <1>5 DEF ActivatePending, browser
  <2>2. Typed'
    BY <1>3, <1>5, <2>1 DEF IInv, Typed
  <2>3. Others(h) /\ proc'[h].about = r /\ proc'[h].todo = <<Step("createSession")>>
    BY <1>1, <1>5, ContinueOK, OneCall DEF IInv, RequestsOK, About
  <2>4. Grows /\ \A x : NoSessionOf(x)
    BY <2>1, Unchanging
  <2>5. RequestOK(r, <<Step("createSession")>>)'
    BY <1>3, <2>4, RequestKept DEF IInv
  <2>6. \A x \in Transactions : Holds(h, x)' => Holds(h, x)
    BY <1>3, <2>3 DEF Holds, About
  <2>7. RequestOK(proc[h].about, proc[h].todo)'
    BY <2>3, <2>5
  <2>8. RequestsOK'
    BY <2>3, <2>4, <2>6, <2>7, RequestsStep
  <2>9. RowsOK' /\ OneSessionPerLogin' /\ StepUpIsProven'
    BY <2>1, <2>2, <2>4, RowsStep
  <2> QED
    BY <2>2, <2>8, <2>9 DEF IInv
<1> QED
  BY <1>1, <1>4, <1>5 DEF ActivatePending

LEMMA CreateSessionStep ==
  ASSUME IInv, NEW h \in Handlers, CreateSession(h)
  PROVE  IInv'
<1>1. PICK r, todo : r = About(h) /\ todo = proc[h].todo /\ Busy(h) /\ Head(todo).call = "createSession"
  BY DEF CreateSession, Calls
<1>2. LoggingIn(r, todo)
  BY <1>1, AtCall
<1>3. /\ r.kind = "login" /\ r.subject \in Operators /\ Row(r.about, "login")
      /\ ~transactions[r.about].open
      /\ \A q \in Sessions : sessions[q] # None => sessions[q].login # r.about
  BY <1>2 DEF LoggingIn
<1>4. PICK x \in Transactions : x = r.about /\ Holds(h, x)
  BY <1>1, <1>2, LoggingInGoesOn DEF LoggingIn, Row
<1> DEFINE row == [operator |-> r.subject, login |-> x, open |-> TRUE]
<1>5. PICK s \in Unused(sessions) : /\ sessions' = [sessions EXCEPT ![s] = row]
                                    /\ Answer(h, s) \/ Throws(h, None)
  BY <1>1, <1>4 DEF CreateSession
<1>6. UNCHANGED <<operators, transactions, markers, authenticated, signedOut>>
  BY DEF CreateSession
<1>7. s \in Sessions /\ sessions[s] = None
  BY <1>5 DEF Unused, IInv, Typed
<1>8. row \in SessionRows /\ row.login = x
  BY <1>3 DEF SessionRows
<1> HIDE DEF row
<1>9. row # None
  BY <1>8, NoneIsNoRow
<1>10. /\ sessions'[s] = row /\ \A q \in Sessions \ {s} : sessions'[q] = sessions[q]
       /\ sessions' \in [Sessions -> SessionRows \cup {None}]
  BY <1>5, <1>7, <1>8 DEF IInv, Typed
<1>11. /\ jar' \in JarRows /\ tabs' \in [Tabs -> TabRows]
       /\ \A t \in Tabs : tabs'[t].view = "away" => tabs[t].view = "away" /\ tabs'[t].at = tabs[t].at
       /\ Others(h) /\ ~Busy(h)'
  <2>1. CASE Answer(h, s)
    BY <1>1, <1>3, <1>7, <2>1, AnswerOK
  <2>2. CASE Throws(h, None)
    BY <2>2, ThrowsOK, TabsTyped DEF IInv, JarRows
  <2> QED
    BY <1>5, <2>1, <2>2
<1>12. Typed'
  BY <1>6, <1>10, <1>11 DEF IInv, Typed, TabRows, JarRows
<1>13. Grows
  BY <1>6, <1>7, <1>10 DEF Grows
<1>14. \A y \in Transactions : NoSessionOf(y) \/ Holds(h, y)
  BY <1>4, <1>8, <1>10 DEF NoSessionOf
<1>15. RequestsOK'
  BY <1>11, <1>13, <1>14, RequestsStep DEF Holds
<1>16. \A q \in Sessions : sessions[q] = None /\ sessions'[q] # None =>
         /\ Row(sessions[q].login, "login")' /\ ~transactions'[sessions'[q].login].open
         /\ \A p \in Sessions \ {q} : sessions'[p] # None => sessions'[p].login # sessions'[q].login
  <2> SUFFICES ASSUME NEW q \in Sessions, sessions[q] = None, sessions'[q] # None
               PROVE  /\ Row(sessions[q].login, "login")' /\ ~transactions'[sessions'[q].login].open
                      /\ \A p \in Sessions \ {q} : sessions'[p] # None => sessions'[p].login # sessions'[q].login
    OBVIOUS
  <2>1. q = s /\ sessions'[q].login = x
    BY <1>8, <1>10
  <2> QED
    BY <1>3, <1>4, <1>6, <1>10, <2>1 DEF Row
<1>17. \A y \in Transactions : transactions[y] = None => transactions'[y] = None
  BY <1>6
<1>18. RowsOK' /\ OneSessionPerLogin' /\ StepUpIsProven'
  BY <1>6, <1>11, <1>12, <1>13, <1>16, <1>17, RowsStep
<1> QED
  BY <1>12, <1>15, <1>18 DEF IInv

LEMMA ProviderAnswersStep ==
  ASSUME IInv, NEW h \in Handlers, NEW t \in Tabs, ProviderAnswers(h, t)
  PROVE  IInv'
<1>1. PICK x, kind : /\ x = tabs[t].at /\ kind = transactions[x].kind
                     /\ x \in Transactions /\ transactions[x] # None
  BY DEF ProviderAnswers, IInv, RowsOK
<1>2. kind \in {"login", "stepUp"}
  BY <1>1 DEF IInv, Typed, TransactionRows
<1>3. authenticated \subseteq authenticated'
      /\ UNCHANGED <<operators, transactions, sessions, markers, jar, tabs, signedOut>>
  BY DEF ProviderAnswers, store, browser
<1>. PICK o \in Operators : \E bound, r :
       /\ r = [kind |-> kind, cookie |-> IF kind = "login" THEN None ELSE jar.session,
               csrf |-> None, about |-> x, subject |-> o]
       /\ Begin(h, r, CallbackCalls(kind, bound, <<o, x>> \in authenticated'))
  BY <1>1 DEF ProviderAnswers
<1>4. PICK bound, r :
        /\ r = [kind |-> kind, cookie |-> IF kind = "login" THEN None ELSE jar.session,
                csrf |-> None, about |-> x, subject |-> o]
        /\ Begin(h, r, CallbackCalls(kind, bound, <<o, x>> \in authenticated'))
  OBVIOUS
<1>5. PICK fresh : fresh = (<<o, x>> \in authenticated')
  OBVIOUS
<1>6. PICK work : work = <<Consume(bound), Exchange(fresh)>>
  OBVIOUS
<1>7. r.kind = kind /\ r.about = x /\ r.subject = o /\ r.cookie \in Sessions \cup {None}
  BY <1>4 DEF IInv, Typed
<1>8. fresh => Proven(r.subject, r.about)'
  BY <1>5, <1>7 DEF Proven
<1>9. Called(r, work)'
  BY <1>1, <1>3, <1>6, <1>7, <1>8 DEF Called, Row
<1>10. Grows /\ \A y : NoSessionOf(y)
  BY <1>3 DEF Grows, NoSessionOf
<1>11. PICK todo : /\ todo = CallbackCalls(kind, bound, fresh)
                   /\ todo # <<>> /\ RequestOK(r, todo)' /\ (kind = "login" => todo = work)
  <2>1. CASE kind = "login"
    <3>1. <<>> \o work = work
      BY <1>6, EmptyConcat
    <3>2. CallbackCalls(kind, bound, fresh) = work
      BY <1>6, <2>1, <3>1 DEF CallbackCalls, Consume, Exchange
    <3>3. work # <<>> /\ RequestOK(r, work)'
      BY <1>6, <1>7, <1>9, <2>1, TwoCalls DEF RequestOK
    <3> QED
      BY <3>2, <3>3
  <2>2. CASE kind = "stepUp"
    <3>1. CallbackCalls(kind, bound, fresh) = Checks \o work
      BY <1>6, <2>2 DEF CallbackCalls, Consume, Exchange
    <3>2. Admitted(r, work)'
      BY <1>7, <1>9, <2>2 DEF Admitted
    <3>3. Checks \o work # <<>> /\ AtSession(r, Checks \o work)'
      BY <1>6, <3>2, Checked DEF AtSession, AtMarker
    <3>4. RequestOK(r, Checks \o work)'
      BY <1>7, <3>3 DEF RequestOK
    <3> QED
      BY <2>2, <3>1, <3>3, <3>4
  <2> QED
    BY <1>2, <2>1, <2>2
<1>12. Others(h) /\ proc'[h].about = r /\ proc'[h].todo = todo
  BY <1>4, <1>5, <1>11, BeginOK DEF IInv, RequestsOK
<1>13. \A y : ~Holds(h, y)'
  BY <1>6, <1>7, <1>11, <1>12, CallNames, TwoCalls DEF Holds, About
<1>14. RequestOK(proc[h].about, proc[h].todo)'
  BY <1>11, <1>12
<1>15. RequestsOK'
  BY <1>10, <1>12, <1>13, <1>14, RequestsStep
<1>16. Typed'
  BY <1>3 DEF IInv, Typed
<1>17. RowsOK' /\ OneSessionPerLogin' /\ StepUpIsProven'
  BY <1>3, <1>10, <1>16, RowsStep
<1> QED
  BY <1>15, <1>16, <1>17 DEF IInv

LEMMA NextIInv == IInv /\ [Next]_vars => IInv'
<1> SUFFICES ASSUME IInv, [Next]_vars
             PROVE  IInv'
  OBVIOUS
<1>1. ASSUME NEW h \in Handlers, Request(h)
      PROVE  IInv'
  BY <1>1, FindSessionStep, CheckMarkerStep, CheckStepUpStep, RunStep, AnswerWhoamiStep,
     RevokeSessionStep, RevokeMarkerStep, CreateStepUpStep, ConsumeTransactionStep,
     ExchangeCodeStep, RecordStepUpStep, LookUpOperatorStep, ActivatePendingStep,
     CreateSessionStep, AbandonStep DEF Request
<1>2. ASSUME NEW h \in Handlers, NEW t \in Tabs, Tab(h, t)
      PROVE  IInv'
  BY <1>2, TabSendsStep, ProviderAnswersStep DEF Tab
<1>3. ASSUME NEW t \in Tabs, ShowSignIn(t) \/ Reload(t) \/ SignIn(t) \/ CognitoLogout(t)
      PROVE  IInv'
  BY <1>3, TabMovesStep, SignInStep
<1>4. CASE UNCHANGED vars
  <2>1. UNCHANGED <<operators, transactions, sessions, markers, jar, tabs, authenticated, signedOut, proc>>
    BY <1>4 DEF vars, store, browser
  <2>2. Typed' /\ Grows
    BY <2>1, Unchanging DEF IInv, Typed
  <2> QED
    BY <2>1, <2>2, OutsideStep
<1> QED
  BY <1>1, <1>2, <1>3, <1>4, DisableOperatorStep, ExpireStep DEF Next

LEMMA Invariance == Spec => []IInv
  BY InitIInv, NextIInv, PTL DEF Spec

-----------------------------------------------------------------------------
\* The rows of operators, transactions, sessions and markers, the cookies and
\* the tabs keep their types, for any numbers of them.
THEOREM SessionRowsTyped == Spec => []Typed
<1>1. IInv => Typed
  BY DEF IInv
<1> QED
  BY Invariance, <1>1, PTL

\* A command runs as the operator whom its own tab shows, whoever else signed
\* on in another tab meanwhile (requireBrowserCsrf after the session check).
THEOREM RunsAsShown == Spec => []CommandRunsAsShown
<1>1. IInv => CommandRunsAsShown
  <2> SUFFICES ASSUME IInv, NEW h \in DOMAIN proc, Calls(h, "run")
               PROVE  sessions[About(h).cookie].operator = sessions[About(h).csrf].operator
    BY DEF CommandRunsAsShown, IInv, RequestsOK
  <2>1. h \in Handlers /\ Busy(h) /\ Head(proc[h].todo).call = "run"
    BY DEF Calls, IInv, RequestsOK
  <2>2. PICK r, todo : r = About(h) /\ todo = proc[h].todo
    OBVIOUS
  <2>3. Working(r, todo) /\ Head(todo).call = "run"
    BY <2>1, <2>2, AtCall
  <2>4. r.csrf = r.cookie
    BY <2>3, CallNames, OneCall, TwoCalls DEF Working, Admitted, Called
  <2> QED
    BY <2>2, <2>4
<1> QED
  BY Invariance, <1>1, PTL

\* A step-up that counts was proven by the session's own operator
\* (handleStepUpCallback: the bound operator and auth_time).
THEOREM StepUpProven == Spec => []StepUpIsProven
<1>1. IInv => StepUpIsProven
  BY DEF IInv
<1> QED
  BY Invariance, <1>1, PTL

\* A login opens one session, however often its callback is called
\* (consumeLoginTransaction).
THEOREM LoginOpensOnce == Spec => []OneSessionPerLogin
<1>1. IInv => OneSessionPerLogin
  BY DEF IInv
<1> QED
  BY Invariance, <1>1, PTL

\* Steps of requests other than the two that write operators.
LEMMA OperatorsKept ==
  ASSUME IInv, [Next]_vars, NEW o \in Operators, operators[o] = "disabled"
  PROVE  operators'[o] = "disabled"
<1>1. ASSUME NEW h \in Handlers, ActivatePending(h)
      PROVE  operators'[o] = "disabled"
  <2>1. CASE UNCHANGED operators
    BY <2>1
  <2>2. CASE ~UNCHANGED operators
    <3>1. PICK p : operators[p] = "pending" /\ operators' = [operators EXCEPT ![p] = "active"]
      BY <1>1, <2>2 DEF ActivatePending, MayActivate
    <3> QED
      BY <3>1 DEF IInv, Typed
  <2> QED
    BY <2>1, <2>2
<1>2. ASSUME NEW p \in Operators, DisableOperator(p)
      PROVE  operators'[o] = "disabled"
  BY <1>2 DEF DisableOperator, IInv, Typed
<1>3. ASSUME NEW h \in Handlers, Request(h), ~ActivatePending(h)
      PROVE  UNCHANGED operators
  BY <1>3 DEF Request, FindSession, CheckMarker, CheckStepUp, Run, AnswerWhoami, RevokeSession,
     RevokeMarker, CreateStepUp, ConsumeTransaction, ExchangeCode, RecordStepUp, LookUpOperator,
     CreateSession, Abandon, store
<1>4. ASSUME NEW h \in Handlers, NEW t \in Tabs, Tab(h, t)
      PROVE  UNCHANGED operators
  BY <1>4 DEF Tab, Refresh, SendCommand, StepUp, SignOut, ProviderAnswers, store
<1>5. ASSUME NEW t \in Tabs, ShowSignIn(t) \/ Reload(t) \/ SignIn(t) \/ CognitoLogout(t)
      PROVE  UNCHANGED operators
  BY <1>5 DEF ShowSignIn, Reload, SignIn, CognitoLogout, store
<1>6. Expire => UNCHANGED operators
  BY DEF Expire
<1>7. UNCHANGED vars => UNCHANGED operators
  BY DEF vars, store
<1> QED
  BY <1>1, <1>2, <1>3, <1>4, <1>5, <1>6, <1>7 DEF Next

\* No login makes an operator active who was disabled for cause
\* (activatePendingOperator).
THEOREM DisabledForCauseStays == Spec => DisabledStays
<1>1. IInv /\ [Next]_vars => [\A o \in Operators : operators[o] = "disabled" => operators'[o] = "disabled"]_operators
  BY OperatorsKept
<1> QED
  BY Invariance, <1>1, PTL DEF Spec, DisabledStays

\* Once a logout has answered, no request of its session passes the checks
\* (find by token hash, isRevoked).
THEOREM SignedOutStaysOut == Spec => SignedOutIsOut
<1> DEFINE Out == \A h \in Handlers :
                    (Unchecked(h) /\ About(h).cookie \in signedOut) => (~Busy(h)' \/ Unchecked(h)')
<1>1. IInv /\ [Next]_vars => [Out]_vars
  <2> SUFFICES ASSUME IInv, Next, NEW h \in Handlers, Unchecked(h), About(h).cookie \in signedOut
               PROVE  ~Busy(h)' \/ Unchecked(h)'
    OBVIOUS
  <2>1. PICK s : s = About(h).cookie /\ Known(s) /\ ~sessions[s].open /\ markers[s].revoked
    BY DEF IInv, RowsOK
  <2>2. CASE proc'[h] = proc[h]
    BY <2>2 DEF Unchecked, Calls, Busy
  <2>3. CASE Stop(h)
    BY <2>3, StopOK DEF IInv, RequestsOK, Busy
  <2>4. ~FindSession(h) \/ Stop(h)
    BY <2>1 DEF FindSession, Open
  <2>5. ~CheckMarker(h) \/ Stop(h)
    BY <2>1 DEF CheckMarker
  <2>6. Busy(h) /\ Head(proc[h].todo).call \in {"session", "marker"}
    BY DEF Unchecked, Calls
  <2>7. ASSUME NEW g \in Handlers, Request(g)
        PROVE  proc'[h] = proc[h] \/ Stop(h)
    <3>1. CASE g = h
      BY <2>4, <2>5, <2>6, <2>7, <3>1 DEF Request, CheckStepUp, Run, AnswerWhoami, RevokeSession,
         RevokeMarker, CreateStepUp, ConsumeTransaction, ExchangeCode, RecordStepUp,
         LookUpOperator, ActivatePending, CreateSession, Abandon, Throws, Calls
    <3>2. CASE g # h
      <4>1. (\E rest : Continue(g, rest)) \/ Stop(g)
        BY <2>7, Zenon DEF Request, FindSession, CheckMarker, CheckStepUp, Run, AnswerWhoami, RevokeSession,
           RevokeMarker, CreateStepUp, ConsumeTransaction, ExchangeCode, RecordStepUp,
           LookUpOperator, ActivatePending, CreateSession, Abandon, Throws, Answer
      <4>2. Others(g)
        BY <4>1, ContinueOK, StopOK DEF IInv, RequestsOK
      <4> QED
        BY <3>2, <4>2 DEF Others, IInv, RequestsOK
    <3> QED
      BY <3>1, <3>2
  <2>8. ASSUME NEW g \in Handlers, NEW t \in Tabs, Tab(g, t)
        PROVE  proc'[h] = proc[h]
    <3>1. UNCHANGED proc \/ (~Busy(g) /\ \E x, todo : Begin(g, x, todo))
      BY <2>8, Zenon DEF Tab, Refresh, SendCommand, StepUp, SignOut, ProviderAnswers, Send
    <3>2. CASE UNCHANGED proc
      BY <3>2
    <3>3. CASE ~Busy(g) /\ \E x, todo : Begin(g, x, todo)
      BY <2>6, <3>3 DEF Begin, IInv, RequestsOK
    <3> QED
      BY <3>1, <3>2, <3>3
  <2>9. ASSUME NEW t \in Tabs, ShowSignIn(t) \/ Reload(t) \/ SignIn(t) \/ CognitoLogout(t)
        PROVE  proc'[h] = proc[h]
    BY <2>9 DEF ShowSignIn, Reload, SignIn, CognitoLogout
  <2>10. (\E o \in Operators : DisableOperator(o)) \/ Expire => proc'[h] = proc[h]
    BY DEF DisableOperator, Expire
  <2> QED
    BY <2>2, <2>3, <2>7, <2>8, <2>9, <2>10 DEF Next
<1> QED
  BY Invariance, <1>1, PTL DEF Spec, SignedOutIsOut

-----------------------------------------------------------------------------
(* The console.                                                            *)

Began(k) == operations[k] # Nothing

\* The components that keep a key for what is intended.
ByIntent == component.key \in {"intent", "dialog"}

\* One submission of each button is listened for: of this opening and under its key.
OneListens ==
  \A c \in calls : c.heard =>
    /\ view.open /\ c.lane \in view.busy /\ c.lane \in component.lanes
    /\ c.opening = view.opening
    /\ ByIntent /\ c.key # Nothing => c.key = view.key
    /\ \A d \in calls : d.heard /\ d.lane = c.lane => d = c

\* An answer is what has become of the operation, and one submission works on it.
AnswersOK ==
  \A c \in calls :
    /\ c.stage = "answered" =>
         /\ c.heard
         /\ c.answer \in Outcomes =>
              c.key # Nothing /\ Began(c.key) /\ operations[c.key].status = c.answer
         /\ c.answer = "approval" => c.key = Nothing
    /\ c.stage = "working" =>
         /\ c.key # Nothing /\ Began(c.key) /\ operations[c.key].status = "running"
         /\ \A d \in calls : d.stage = "working" /\ d.key = c.key => d = c

\* A component of commands only submits nothing without a key.
OneKeyed == component.requests = {"keyed"} => \A c \in calls : c.key # Nothing

\* The opening o has used the key k.
Uses(k, o) ==
  \/ \E c \in calls : c.key = k /\ c.opening = o
  \/ Began(k) /\ operations[k].opening = o

GivenUp(k) == Began(k) /\ operations[k].status = "failed"

\* The keys of an opening are its own, and all but the last are given up.
IntentsOK ==
  ByIntent =>
    /\ view.open => view.key = view.taken
    /\ \A k \in Keys, o \in 1..MaxOpenings : Uses(k, o) =>
         /\ k \in 1..view.taken
         /\ o <= view.opening
         /\ o = view.opening /\ k < view.taken => GivenUp(k)
         /\ k = view.taken => o = view.opening
    /\ \A k \in Keys, o, p \in 1..MaxOpenings : Uses(k, o) /\ Uses(k, p) => o = p
    /\ \A k, l \in 1..MaxKeys, o \in 1..MaxOpenings :
         Uses(k, o) /\ Uses(l, o) /\ k < l => GivenUp(k)

\* What is closed shows nothing.
ClosedOK ==
  ~view.open => reads = {} /\ view.shown = Nothing /\ view.busy = {} /\ view.says = "nothing"

\* After a refusal the key is one that nothing was submitted under.
RefusedOK ==
  component.key = "intent" /\ view.says = "bad" =>
    \A k \in Keys, o \in 1..MaxOpenings : Uses(k, o) => k # view.taken

\* The reads of a guarded component are of its target, each has its own number, and
\* the newest is never older than what is shown.
ReadsOK ==
  component.loads = "guarded" /\ view.open =>
    /\ \A r \in reads : r.of = view.target /\ r.number <= view.begun
    /\ \A r, s \in reads : r.number = s.number => r = s
    /\ view.shown # Nothing =>
         /\ view.shown.of = view.target /\ view.shown.version <= Version(view.target)
         /\ \A r \in reads : r.number = view.begun /\ r.version # Nothing =>
              view.shown.version <= r.version
    /\ \A r \in reads : r.version # Nothing => r.version <= Version(view.target)

\* What is open is an opening of some target.
OpenOK == view.open => view.opening > 0 /\ view.target # Nothing

ConsoleIInv ==
  /\ ConsoleTypeOK
  /\ OpenOK
  /\ OneListens
  /\ AnswersOK
  /\ OneKeyed
  /\ IntentsOK
  /\ ClosedOK
  /\ ReadsOK
  /\ OutcomeIsHonest
  /\ RefusedOK

\* What the proofs need to know of a component.
Sound(c) ==
  /\ c.says = "tone" => c.key = "intent"
  /\ c.key \in {"intent", "dialog"} => c.lanes = {"submit"}
  /\ c.lanes \subseteq Lanes
  /\ c.loads = "guarded" => ~c.reused
  /\ c.requests \subseteq {"keyed", "asks"}
  /\ c.says \in {"tone", "status", "nothing"}

\* Every component is sound.
LEMMA ComponentFacts ==
  ASSUME NEW c \in Components
  PROVE  Sound(c)
<1>1. CASE c \in {AiTenantPanel, AiFleetPage, FinOpsPage}
  BY <1>1 DEF Sound, Lanes, AiTenantPanel, AiFleetPage, FinOpsPage, ActionDialogs, Component, AiTenantDialogs,
              AiQuotaDialogs, AiFleetDialogs, ManagedCredentialDialogs, FinOpsAllocationDialog
<1>2. CASE c = ModeDialog
  BY <1>2 DEF Sound, Lanes, ModeDialog, ActionDialogs, Component
<1>3. CASE c \in {RepairCommissionDialog, ApprovalQueue, ApprovalsPage, GlobalConfigPage}
  BY <1>3 DEF Sound, Lanes, RepairCommissionDialog, ApprovalQueue, ApprovalsPage, GlobalConfigPage, Component
<1>4. CASE c \in {IdentityPanel, IdentityApprovals}
  <2>1. IdentityPanel \in [key : {"submission"}, loads : {"unguarded"}, says : {"nothing"},
                        requests : {{"keyed"}}, lanes : {{"submit"}}, needs : {FALSE}, reused : {TRUE}, once : {FALSE}]
    BY DEF IdentityPanel, Component
  <2> QED
    BY <1>4, <2>1 DEF Sound, Lanes, IdentityApprovals
<1>6. CASE c \in {CredentialPanel, CredentialApprovals}
  <2>1. CredentialPanel \in [key : {"submission"}, loads : {"unguarded"}, says : {"nothing"},
                        requests : {{"keyed"}}, lanes : {{"submit"}}, needs : {FALSE}, reused : {TRUE}, once : {FALSE}]
    BY DEF CredentialPanel, Component
  <2> QED
    BY <1>6, <2>1 DEF Sound, Lanes, CredentialApprovals
<1>5. CASE c \in {TenantDetailDrawer, TenantLifecycle, CommissionWizard, ReleaseDrawer,
                  SubmitDrawer, EngineDetailDrawer}
  BY <1>5 DEF Sound, Lanes, TenantDetailDrawer, TenantLifecycle, CommissionWizard, ReleaseDrawer, SubmitDrawer,
              EngineDetailDrawer, Component
<1> QED
  BY <1>1, <1>2, <1>3, <1>4, <1>5, <1>6 DEF Components

\* What the read after a change of the view leaves behind.
LEMMA ReadAgainOK ==
  ASSUME ConsoleTypeOK, NEW t \in Targets, NEW v \in Views, ReadAgain(t, v)
  PROVE  /\ view' \in Views /\ reads' \subseteq Reads
         /\ view'.open = v.open /\ view'.opening = v.opening /\ view'.target = v.target
         /\ view'.key = v.key /\ view'.taken = v.taken /\ view'.busy = v.busy
         /\ view'.says = v.says /\ view'.shown = v.shown
         /\ \/ view'.begun = v.begun /\ reads' = reads
            \/ /\ view'.begun = v.begun + 1
               /\ reads' = reads \cup {[number |-> v.begun + 1, of |-> t, version |-> Nothing, passed |-> FALSE]}
<1>1. CASE component.loads = "none" \/ v.begun = MaxReads
  BY <1>1 DEF ReadAgain, ConsoleTypeOK
<1>2. CASE ~(component.loads = "none" \/ v.begun = MaxReads)
  <2>1. v.begun \in 0..MaxReads /\ v.begun # MaxReads
    BY <1>2 DEF Views
  <2>2. v.begun + 1 \in 1..MaxReads /\ v.begun + 1 \in 0..MaxReads
    BY <2>1, ConsoleAssumption
  <2>3. view' = [v EXCEPT !.begun = v.begun + 1]
        /\ reads' = reads \cup {[number |-> v.begun + 1, of |-> t, version |-> Nothing, passed |-> FALSE]}
    BY <1>2 DEF ReadAgain
  <2>4. [number |-> v.begun + 1, of |-> t, version |-> Nothing, passed |-> FALSE] \in Reads
    BY <2>2 DEF Reads
  <2> QED
    BY <2>2, <2>3, <2>4 DEF Views, ConsoleTypeOK
<1> QED
  BY <1>1, <1>2

\* The keys are found as they were, or fewer are in use and more are given up.
LEMMA IntentsKept ==
  ASSUME IntentsOK, UNCHANGED component, view'.opening = view.opening,
         view'.taken = view.taken, view'.open => view.open /\ view'.key = view.key,
         \A k \in Keys, o \in 1..MaxOpenings : Uses(k, o)' => Uses(k, o),
         \A k \in Keys : GivenUp(k) => GivenUp(k)'
  PROVE  IntentsOK'
  BY DEF IntentsOK, ByIntent, Keys, Fresh

\* A refusal that is told stays so, or something else is told.
LEMMA RefusedKept ==
  ASSUME RefusedOK, UNCHANGED component, view'.taken = view.taken,
         view'.says = "bad" => view.says = "bad",
         \A k \in Keys, o \in 1..MaxOpenings : Uses(k, o)' => Uses(k, o)
  PROVE  RefusedOK'
  BY DEF RefusedOK, Keys, Fresh

\* Nothing is shown, sent or done yet.
LEMMA ConsoleInitIInv == ConsoleInit => ConsoleIInv
<1> SUFFICES ASSUME ConsoleInit
             PROVE  ConsoleIInv
  OBVIOUS
<1>1. ConsoleTypeOK
  BY ConsoleAssumption DEF ConsoleInit, ConsoleTypeOK, Views, Saying
<1>2. \A k \in Keys, o \in 1..MaxOpenings : ~Uses(k, o)
  BY DEF ConsoleInit, Uses, Began
<1>3. IntentsOK
  BY <1>2 DEF ConsoleInit, IntentsOK, Keys, Fresh
<1> QED
  BY <1>1, <1>3 DEF ConsoleInit, ConsoleIInv, OpenOK, OneListens, AnswersOK, OneKeyed, ClosedOK, ReadsOK,
                    OutcomeIsHonest, RefusedOK

\* A step that moves nothing but the view and the reads.
LEMMA CallsKept ==
  ASSUME ConsoleIInv, UNCHANGED <<component, calls, operations>>
  PROVE  /\ AnswersOK' /\ OneKeyed'
         /\ \A k \in Keys, o \in 1..MaxOpenings : Uses(k, o)' <=> Uses(k, o)
         /\ \A k \in Keys : GivenUp(k)' <=> GivenUp(k)
         /\ \A t \in Targets : Version(t)' = Version(t)
  BY DEF ConsoleIInv, AnswersOK, OneKeyed, Uses, GivenUp, Began, Version

\* A dialog that opens takes a key nobody has used.
LEMMA OpenViewStep ==
  ASSUME ConsoleIInv, NEW t \in Targets, OpenView(t)
  PROVE  ConsoleIInv'
<1> DEFINE v == [view EXCEPT !.open = TRUE, !.opening = @ + 1, !.target = t, !.key = view.taken + 1,
                             !.taken = @ + 1, !.busy = {}, !.says = "nothing", !.shown = Nothing]
<1>1. /\ view \in Views /\ ~view.open /\ view.opening + 1 \in 1..MaxOpenings
      /\ view.taken + 1 \in Fresh
  BY ConsoleAssumption DEF ConsoleIInv, ConsoleTypeOK, OpenView, Views, Fresh
<1>2. v \in Views /\ v.begun = view.begun
  <2>1. /\ view.opening + 1 \in 0..MaxOpenings /\ view.taken + 1 \in 0..MaxKeys
        /\ view.begun \in 0..MaxReads
    BY <1>1, ConsoleAssumption DEF Views, Fresh
  <2> QED
    BY <1>1, <2>1 DEF Views, Saying
<1>3. ReadAgain(t, v) /\ UNCHANGED <<component, calls, operations>>
  BY DEF OpenView
<1>4. /\ v.open /\ v.opening = view.opening + 1 /\ v.target = t /\ v.key = view.taken + 1
      /\ v.taken = view.taken + 1 /\ v.busy = {} /\ v.says = "nothing" /\ v.shown = Nothing
  BY <1>1 DEF Views
<1> HIDE DEF v
<1>5. /\ view' \in Views /\ reads' \subseteq Reads
      /\ view'.open /\ view'.opening = view.opening + 1 /\ view'.target = t
      /\ view'.key = view.taken + 1 /\ view'.taken = view.taken + 1
      /\ view'.says = "nothing" /\ view'.shown = Nothing
      /\ \/ view'.begun = view.begun /\ reads' = reads
         \/ /\ view'.begun = view.begun + 1
            /\ reads' = reads \cup {[number |-> view.begun + 1, of |-> t, version |-> Nothing, passed |-> FALSE]}
  BY <1>2, <1>3, <1>4, ReadAgainOK DEF ConsoleIInv
<1>6. ConsoleTypeOK'
  BY <1>3, <1>5 DEF ConsoleIInv, ConsoleTypeOK
<1>7. OneListens'
  BY <1>1, <1>3 DEF ConsoleIInv, OneListens
<1>8. AnswersOK' /\ OneKeyed' /\ RefusedOK'
  BY <1>3, <1>5, CallsKept DEF RefusedOK
<1>9. IntentsOK'
  <2> SUFFICES ASSUME ByIntent
               PROVE  IntentsOK'
    BY <1>3 DEF IntentsOK, ByIntent
  <2>1. view.taken \in Nat /\ view.opening \in Nat
    BY <1>1, ConsoleAssumption DEF Views
  <2>2. \A k \in Keys, o \in 1..MaxOpenings : Uses(k, o)' =>
          /\ Uses(k, o) /\ k \in 1..view.taken /\ k < view'.taken
          /\ o <= view.opening /\ o < view'.opening
    BY <1>3, <1>5, <2>1, CallsKept DEF ConsoleIInv, IntentsOK
  <2>3. \A k \in Keys, o \in 1..MaxOpenings : Uses(k, o)' =>
          /\ k \in 1..view'.taken /\ o <= view'.opening
          /\ o # view'.opening /\ k # view'.taken
    BY <1>5, <2>1, <2>2
  <2>4. \A k \in Keys, o, p \in 1..MaxOpenings : Uses(k, o)' /\ Uses(k, p)' => o = p
    BY <1>3, <2>2 DEF ConsoleIInv, IntentsOK
  <2>5. \A k, l \in 1..MaxKeys, o \in 1..MaxOpenings :
          Uses(k, o)' /\ Uses(l, o)' /\ k < l => GivenUp(k)'
    BY <1>3, <2>2, CallsKept DEF ConsoleIInv, IntentsOK, Keys, Fresh
  <2> QED
    BY <1>5, <2>3, <2>4, <2>5 DEF IntentsOK
<1>10. ReadsOK'
  <2>1. reads = {}
    BY <1>1 DEF ConsoleIInv, ClosedOK
  <2>2. \A r \in reads' : r.of = t /\ r.number = view'.begun /\ r.version = Nothing
    BY <1>5, <2>1
  <2>3. \A r, s \in reads' : r = s
    BY <1>5, <2>1
  <2>4. view'.begun \in Nat
    BY <1>5, ConsoleAssumption DEF Views
  <2> QED
    BY <1>5, <2>2, <2>3, <2>4 DEF ReadsOK
<1>11. OpenOK' /\ ClosedOK' /\ OutcomeIsHonest'
  BY <1>1, <1>5, ConsoleAssumption DEF OpenOK, ClosedOK, OutcomeIsHonest
<1> QED
  BY <1>6, <1>7, <1>8, <1>9, <1>10, <1>11 DEF ConsoleIInv

\* Choosing another target keeps the key, and no guarded component is reused.
LEMMA RetargetStep ==
  ASSUME ConsoleIInv, NEW t \in Targets, Retarget(t)
  PROVE  ConsoleIInv'
<1> DEFINE v == [view EXCEPT !.target = t, !.shown = IF component.needs THEN Nothing ELSE @]
<1>1. view \in Views /\ view.open /\ component.reused /\ component \in Components
  BY DEF ConsoleIInv, ConsoleTypeOK, Retarget
<1>2. v \in Views /\ v.begun = view.begun
  BY <1>1 DEF Views
<1>3. ReadAgain(t, v) /\ UNCHANGED <<component, calls, operations>>
  BY DEF Retarget
<1>4. /\ v.open = view.open /\ v.opening = view.opening /\ v.target = t /\ v.key = view.key
      /\ v.taken = view.taken /\ v.busy = view.busy /\ v.says = view.says
  BY <1>1 DEF Views
<1> HIDE DEF v
<1>5. /\ view' \in Views /\ reads' \subseteq Reads
      /\ view'.open = view.open /\ view'.opening = view.opening /\ view'.target = t
      /\ view'.key = view.key /\ view'.taken = view.taken /\ view'.busy = view.busy
      /\ view'.says = view.says
  BY <1>2, <1>3, <1>4, ReadAgainOK DEF ConsoleIInv
<1>6. ConsoleTypeOK'
  BY <1>3, <1>5 DEF ConsoleIInv, ConsoleTypeOK
<1>7. OneListens'
  BY <1>3, <1>5 DEF ConsoleIInv, OneListens, ByIntent
<1>8. AnswersOK' /\ OneKeyed' /\ RefusedOK'
  BY <1>3, <1>5, CallsKept, RefusedKept DEF ConsoleIInv
<1>9. IntentsOK'
  BY <1>3, <1>5, CallsKept, IntentsKept DEF ConsoleIInv
<1>10. ReadsOK'
  BY <1>1, <1>3, ComponentFacts DEF ReadsOK, Sound
<1>11. OpenOK' /\ ClosedOK'
  BY <1>1, <1>5, ConsoleAssumption DEF ConsoleIInv, OpenOK, ClosedOK
<1>12. OutcomeIsHonest'
  BY <1>3, <1>5 DEF ConsoleIInv, OutcomeIsHonest
<1> QED
  BY <1>6, <1>7, <1>8, <1>9, <1>10, <1>11, <1>12 DEF ConsoleIInv

\* A target's version is a number, and grows with its completed commands.
LEMMA VersionIsNumber ==
  ASSUME NEW t \in Targets
  PROVE  /\ Version(t) \in Nat /\ Version(t)' \in Nat
         /\ (\A k \in Keys : Began(k) /\ operations[k].target = t /\ operations[k].status = "completed" =>
              (Began(k) /\ operations[k].target = t /\ operations[k].status = "completed")') =>
            Version(t) <= Version(t)'
<1> DEFINE Done == {k \in Keys : Began(k) /\ operations[k].target = t
                                   /\ operations[k].status = "completed"}
<1>1. IsFiniteSet(Keys)
  <2>1. MaxKeys \in Int /\ 1 \in Int /\ IsFiniteSet(Targets)
    BY ConsoleAssumption
  <2>2. IsFiniteSet(1..MaxKeys)
    BY <2>1, FS_Interval
  <2> QED
    BY <2>1, <2>2, FS_Union DEF Keys, Fresh
<1>2. IsFiniteSet(Done) /\ IsFiniteSet(Done')
  BY <1>1, FS_Subset
<1>3. Version(t) = Cardinality(Done) /\ Version(t)' = Cardinality(Done')
  BY DEF Version, Began
<1>4. Done \subseteq Done' => Cardinality(Done) <= Cardinality(Done')
  BY <1>2, FS_Subset
<1> QED
  BY <1>2, <1>3, <1>4, FS_CardinalityType

\* The submission d is what has become of c.
Descends(d, c) ==
  d.key = c.key /\ d.opening = c.opening /\ d.target = c.target /\ d.lane = c.lane

CallsDescend == \A d \in calls' : \E c \in calls : Descends(d, c)

\* Submissions that go on use no key they did not use.
LEMMA DescendantsOK ==
  ASSUME ConsoleIInv, CallsDescend, UNCHANGED <<component, operations>>
  PROVE  /\ OneKeyed'
         /\ \A k \in Keys, o \in 1..MaxOpenings : Uses(k, o)' => Uses(k, o)
         /\ \A k \in Keys : GivenUp(k) => GivenUp(k)'
         /\ \A t \in Targets : Version(t)' = Version(t)
<1>1. OneKeyed'
  BY DEF ConsoleIInv, CallsDescend, Descends, OneKeyed
<1>2. \A k \in Keys, o \in 1..MaxOpenings : Uses(k, o)' => Uses(k, o)
  BY DEF CallsDescend, Descends, Uses, Began
<1> QED
  BY <1>1, <1>2 DEF GivenUp, Began, Version

\* Nobody listens any more to some of what was asked for.
LEMMA UnheardOK ==
  ASSUME ConsoleIInv, NEW some \in SUBSET calls, calls' = (calls \ some) \cup Unheard(some),
         UNCHANGED operations
  PROVE  /\ calls' \subseteq Submissions
         /\ \A d \in calls' : d.heard => d \in calls /\ d \notin some
         /\ CallsDescend
         /\ AnswersOK'
<1>1. \A d \in calls' :
        \/ d \in calls /\ d \notin some
        \/ \E c \in some : c.stage # "answered" /\ d = [c EXCEPT !.heard = FALSE]
  BY DEF Unheard
<1>2. \A c \in calls : LET d == [c EXCEPT !.heard = FALSE]
                       IN  d \in Submissions /\ ~d.heard /\ Descends(d, c) /\ d.stage = c.stage
  BY DEF ConsoleIInv, ConsoleTypeOK, Submissions, Descends
<1>3. CallsDescend
  <2> SUFFICES ASSUME NEW d \in calls'
               PROVE  \E c \in calls : Descends(d, c)
    BY DEF CallsDescend
  <2>1. CASE d \in calls
    BY <2>1 DEF Descends
  <2>2. CASE \E c \in some : d = [c EXCEPT !.heard = FALSE]
    BY <1>2, <2>2
  <2> QED
    BY <1>1, <2>1, <2>2
<1>4. AnswersOK'
  <2>1. \A d \in calls' : \E c \in calls :
          /\ d.stage = c.stage /\ d.key = c.key
          /\ \/ d = c /\ c \notin some
             \/ c \in some /\ c.stage # "answered" /\ d = [c EXCEPT !.heard = FALSE]
    BY <1>1, <1>2 DEF Descends
  <2>2. ASSUME NEW d \in calls', d.stage = "answered"
        PROVE  d \in calls
    BY <2>1, <2>2
  <2>3. ASSUME NEW d \in calls', d.stage = "working"
        PROVE  d.key # Nothing /\ Began(d.key) /\ operations[d.key].status = "running"
    BY <2>1, <2>3 DEF ConsoleIInv, AnswersOK
  <2>4. ASSUME NEW d \in calls', NEW e \in calls', d.stage = "working", e.stage = "working",
               e.key = d.key
        PROVE  e = d
    <3>1. PICK c \in calls :
            /\ d.stage = c.stage /\ d.key = c.key
            /\ \/ d = c /\ c \notin some
               \/ c \in some /\ c.stage # "answered" /\ d = [c EXCEPT !.heard = FALSE]
      BY <2>1
    <3>2. PICK b \in calls :
            /\ e.stage = b.stage /\ e.key = b.key
            /\ \/ e = b /\ b \notin some
               \/ b \in some /\ b.stage # "answered" /\ e = [b EXCEPT !.heard = FALSE]
      BY <2>1
    <3>3. b = c
      BY <2>4, <3>1, <3>2 DEF ConsoleIInv, AnswersOK
    <3> QED
      BY <3>1, <3>2, <3>3
  <2> QED
    BY <2>2, <2>3, <2>4 DEF ConsoleIInv, AnswersOK, Began
<1>5. calls' \subseteq Submissions
  BY <1>1, <1>2 DEF ConsoleIInv, ConsoleTypeOK
<1>6. \A d \in calls' : d.heard => d \in calls /\ d \notin some
  BY <1>1, <1>2
<1> QED
  BY <1>3, <1>4, <1>5, <1>6

\* Closing leaves what is on its way unheard.
LEMMA CloseViewStep ==
  ASSUME ConsoleIInv, CloseView
  PROVE  ConsoleIInv'
<1>1. /\ view' = [view EXCEPT !.open = FALSE, !.shown = Nothing, !.busy = {}, !.says = "nothing"]
      /\ reads' = {} /\ calls' = Unheard(calls) /\ UNCHANGED <<component, operations>> /\ view \in Views
  BY DEF CloseView, ConsoleIInv, ConsoleTypeOK
<1>2. /\ view' \in Views /\ ~view'.open /\ view'.opening = view.opening /\ view'.taken = view.taken
      /\ view'.busy = {} /\ view'.says = "nothing" /\ view'.shown = Nothing
  BY <1>1 DEF Views, Saying
<1>3. /\ calls' \subseteq Submissions /\ (\A d \in calls' : ~d.heard) /\ CallsDescend /\ AnswersOK'
  <2>1. calls' = (calls \ calls) \cup Unheard(calls)
    BY <1>1
  <2> QED
    BY <1>1, <2>1, UnheardOK
<1>4. ConsoleTypeOK'
  BY <1>1, <1>2, <1>3 DEF ConsoleIInv, ConsoleTypeOK
<1>5. OneListens' /\ OpenOK' /\ ClosedOK' /\ ReadsOK' /\ OutcomeIsHonest'
  BY <1>1, <1>2, <1>3 DEF OneListens, OpenOK, ClosedOK, ReadsOK, OutcomeIsHonest
<1>6. OneKeyed' /\ RefusedOK' /\ IntentsOK'
  BY <1>1, <1>2, <1>3, DescendantsOK, IntentsKept, RefusedKept DEF ConsoleIInv
<1> QED
  BY <1>3, <1>4, <1>5, <1>6 DEF ConsoleIInv

\* A lost answer leaves the dialog open under the key it had.
LEMMA LostStep ==
  ASSUME ConsoleIInv, NEW c \in calls, Lost(c)
  PROVE  ConsoleIInv'
<1>1. /\ view' = [view EXCEPT !.busy = @ \ {c.lane}, !.says = "error"]
      /\ calls' = (calls \ {c}) \cup Unheard({c}) /\ UNCHANGED <<component, reads, operations>> /\ view \in Views
      /\ view.open /\ c.heard
  BY DEF Lost, ConsoleIInv, ConsoleTypeOK, OneListens
<1>2. /\ view' \in Views /\ view'.open = view.open /\ view'.opening = view.opening
      /\ view'.taken = view.taken /\ view'.key = view.key /\ view'.target = view.target
      /\ view'.says = "error" /\ view'.shown = view.shown /\ view'.begun = view.begun
      /\ view'.busy = view.busy \ {c.lane}
  BY <1>1 DEF Views, Saying
<1>3. /\ calls' \subseteq Submissions /\ (\A d \in calls' : d.heard => d \in calls /\ d # c)
      /\ CallsDescend /\ AnswersOK'
  BY <1>1, UnheardOK
<1>4. ConsoleTypeOK'
  BY <1>1, <1>2, <1>3 DEF ConsoleIInv, ConsoleTypeOK
<1>5. OneListens' /\ OpenOK' /\ ClosedOK' /\ OutcomeIsHonest'
  BY <1>1, <1>2, <1>3 DEF ConsoleIInv, OneListens, ByIntent, OpenOK, ClosedOK, OutcomeIsHonest
<1>6. OneKeyed' /\ RefusedOK' /\ IntentsOK'
  BY <1>1, <1>2, <1>3, DescendantsOK, IntentsKept, RefusedKept DEF ConsoleIInv
<1>7. ReadsOK'
  BY <1>1, <1>2, <1>3, DescendantsOK DEF ConsoleIInv, ConsoleTypeOK, Views, OpenOK, ReadsOK
<1> QED
  BY <1>3, <1>4, <1>5, <1>6, <1>7 DEF ConsoleIInv

\* What the backend does leaves the view as it is.
LEMMA BackendStep ==
  ASSUME ConsoleIInv, UNCHANGED <<component, view, reads>>, CallsDescend,
         ConsoleTypeOK', OneListens', AnswersOK',
         \A k \in Keys : Began(k) =>
           /\ Began(k)' /\ operations'[k].opening = operations[k].opening
           /\ operations'[k].target = operations[k].target
           /\ operations[k].status # "running" => operations'[k].status = operations[k].status,
         \A k \in Keys, o \in 1..MaxOpenings : Uses(k, o)' => Uses(k, o)
  PROVE  ConsoleIInv'
<1>1. OneKeyed' /\ RefusedOK'
  BY RefusedKept DEF ConsoleIInv, CallsDescend, Descends, OneKeyed
<1>2. IntentsOK'
  BY IntentsKept DEF ConsoleIInv, GivenUp
<1>3. OpenOK' /\ ClosedOK'
  BY DEF ConsoleIInv, OpenOK, ClosedOK
<1>4. OutcomeIsHonest'
  <2> SUFFICES ASSUME NEW k \in Keys, operations[k] # Nothing, operations[k].status = "completed",
                      operations[k].opening = view.opening
               PROVE  /\ operations'[k] # Nothing /\ operations'[k].status = "completed"
                      /\ operations'[k].opening = view'.opening
    BY DEF ConsoleIInv, OutcomeIsHonest
  <2> QED
    BY DEF Began
<1>5. ReadsOK'
  <2> SUFFICES ASSUME component.loads = "guarded", view.open
               PROVE  ReadsOK'
    BY DEF ReadsOK
  <2>1. PICK t \in Targets : t = view.target
    BY DEF ConsoleIInv, ConsoleTypeOK, Views, OpenOK
  <2>2. Version(t) \in Nat /\ Version(t)' \in Nat /\ Version(t) <= Version(t)'
    BY VersionIsNumber
  <2>3. Version(view.target) = Version(t) /\ Version(view.target)' = Version(t)'
    BY <2>1 DEF Version
  <2>4. \A n \in Nat : n <= Version(view.target) => n <= Version(view.target)'
    BY <2>2, <2>3
  <2>5. view.shown # Nothing => view.shown.version \in Nat
    BY DEF ConsoleIInv, ConsoleTypeOK, Views
  <2>6. \A r \in reads : r.version # Nothing => r.version \in Nat
    BY DEF ConsoleIInv, ConsoleTypeOK, Reads
  <2> QED
    BY <2>4, <2>5, <2>6 DEF ConsoleIInv, ReadsOK
<1> QED
  BY <1>1, <1>2, <1>3, <1>4, <1>5 DEF ConsoleIInv

\* A read is served with the version of that moment, which no shown one exceeds.
LEMMA ReadServedStep ==
  ASSUME ConsoleIInv, NEW r \in reads, ReadServed(r)
  PROVE  ConsoleIInv'
<1> DEFINE s == [r EXCEPT !.version = Version(r.of)]
<1>1. /\ r.version = Nothing /\ reads' = (reads \ {r}) \cup {s}
      /\ UNCHANGED <<component, view, calls, operations>> /\ r \in Reads
  BY DEF ReadServed, ConsoleIInv, ConsoleTypeOK
<1>2. r.of \in Targets /\ Version(r.of) \in Nat
  BY <1>1, VersionIsNumber DEF Reads
<1>3. s \in Reads /\ s.number = r.number /\ s.of = r.of /\ s.version = Version(r.of)
  BY <1>1, <1>2 DEF Reads
<1> HIDE DEF s
<1>4. ConsoleTypeOK'
  BY <1>1, <1>3 DEF ConsoleIInv, ConsoleTypeOK
<1>5. OneListens' /\ OpenOK' /\ ClosedOK' /\ OutcomeIsHonest'
  BY <1>1 DEF ConsoleIInv, OneListens, ByIntent, OpenOK, ClosedOK, OutcomeIsHonest
<1>6. AnswersOK' /\ OneKeyed' /\ RefusedOK' /\ IntentsOK'
  BY <1>1, CallsKept, IntentsKept, RefusedKept DEF ConsoleIInv
<1>7. ReadsOK'
  <2> SUFFICES ASSUME component.loads = "guarded", view.open
               PROVE  ReadsOK'
    BY <1>1 DEF ReadsOK
  <2>1. PICK n \in Nat : n = Version(view.target) /\ Version(view.target)' = n
    BY <1>1, <1>2 DEF ConsoleIInv, ReadsOK, Version
  <2>2. r.of = view.target /\ s.version = n
    BY <1>3, <2>1 DEF ConsoleIInv, ReadsOK
  <2>3. \A q \in reads' : q = s \/ (q \in reads /\ q # r /\ q.number # r.number)
    BY <1>1 DEF ConsoleIInv, ReadsOK
  <2>4. s.of = view.target /\ s.number <= view.begun
    BY <1>3, <2>2 DEF ConsoleIInv, ReadsOK
  <2>5. \A p, q \in reads' : p.number = q.number => p = q
    BY <1>3, <2>3 DEF ConsoleIInv, ReadsOK
  <2>6. view.shown # Nothing => view.shown.version <= n
    BY <2>1 DEF ConsoleIInv, ReadsOK
  <2> QED
    BY <1>1, <2>1, <2>2, <2>3, <2>4, <2>5, <2>6 DEF ConsoleIInv, ReadsOK
<1> QED
  BY <1>4, <1>5, <1>6, <1>7 DEF ConsoleIInv

\* The answer to r is shown.
Heeded(r) == component.loads = "guarded" => Current(r)

\* Headers make no difference to a component that tests again when it shows.
LEMMA HeadersArriveStep ==
  ASSUME ConsoleIInv, NEW r \in reads, HeadersArrive(r)
  PROVE  ConsoleIInv'
<1> DEFINE s == [r EXCEPT !.passed = TRUE]
<1>1. /\ component.loads = "headers" /\ reads' \subseteq reads \cup {s}
      /\ UNCHANGED <<component, view, calls, operations>> /\ r \in Reads
      /\ view.open
  BY DEF HeadersArrive, ConsoleIInv, ConsoleTypeOK, ClosedOK
<1>2. s \in Reads
  BY <1>1 DEF Reads
<1> HIDE DEF s
<1>3. ConsoleTypeOK'
  BY <1>1, <1>2 DEF ConsoleIInv, ConsoleTypeOK
<1>4. OneListens' /\ OpenOK' /\ ClosedOK' /\ OutcomeIsHonest'
  BY <1>1 DEF ConsoleIInv, OneListens, ByIntent, OpenOK, ClosedOK, OutcomeIsHonest
<1>5. AnswersOK' /\ OneKeyed' /\ RefusedOK' /\ IntentsOK'
  BY <1>1, CallsKept, IntentsKept, RefusedKept DEF ConsoleIInv
<1>6. ReadsOK'
  BY <1>1 DEF ReadsOK
<1> QED
  BY <1>3, <1>4, <1>5, <1>6 DEF ConsoleIInv

\* What an answered read leaves: it is shown, or dropped.
LEMMA ReadEnds ==
  ASSUME ConsoleIInv, NEW r \in reads, reads' = reads \ {r},
         UNCHANGED <<component, calls, operations>>,
         \/ view' = view
         \/ /\ r.version # Nothing /\ Heeded(r)
            /\ view' = [view EXCEPT !.shown = [of |-> r.of, version |-> r.version]]
  PROVE  ConsoleIInv'
<1>1. view.open /\ view \in Views /\ r \in Reads
  BY DEF ConsoleIInv, ConsoleTypeOK, ClosedOK
<1>2. /\ view' \in Views /\ view'.open = view.open /\ view'.opening = view.opening
      /\ view'.target = view.target /\ view'.key = view.key /\ view'.taken = view.taken
      /\ view'.busy = view.busy /\ view'.says = view.says /\ view'.begun = view.begun
      /\ \/ view'.shown = view.shown
         \/ /\ r.version # Nothing /\ Heeded(r) /\ view'.shown # Nothing
            /\ view'.shown.of = r.of /\ view'.shown.version = r.version
  <2>1. CASE view' = view
    BY <1>1, <2>1
  <2>2. CASE /\ r.version # Nothing /\ Heeded(r)
             /\ view' = [view EXCEPT !.shown = [of |-> r.of, version |-> r.version]]
    <3> DEFINE shown == [of |-> r.of, version |-> r.version]
    <3>1. shown \in [of : Targets, version : Nat]
      BY <1>1, <2>2 DEF Reads
    <3>2. shown # Nothing /\ shown.of = r.of /\ shown.version = r.version
      BY <3>1, ConsoleAssumption
    <3>3. view' = [view EXCEPT !.shown = shown]
      BY <2>2
    <3> HIDE DEF shown
    <3> QED
      BY <1>1, <2>2, <3>1, <3>2, <3>3 DEF Views
  <2> QED
    BY <2>1, <2>2
<1>3. ConsoleTypeOK'
  BY <1>2 DEF ConsoleIInv, ConsoleTypeOK
<1>4. OneListens' /\ OpenOK' /\ ClosedOK' /\ OutcomeIsHonest'
  BY <1>1, <1>2 DEF ConsoleIInv, OneListens, ByIntent, OpenOK, ClosedOK, OutcomeIsHonest
<1>5. AnswersOK' /\ OneKeyed' /\ RefusedOK' /\ IntentsOK'
  BY <1>2, CallsKept, IntentsKept, RefusedKept DEF ConsoleIInv
<1>6. ReadsOK'
  <2> SUFFICES ASSUME component.loads = "guarded", view.open
               PROVE  ReadsOK'
    BY <1>2 DEF ReadsOK
  <2>1. Version(view.target)' = Version(view.target)
    BY <1>2 DEF Version
  <2>2. CASE view'.shown = view.shown
    BY <1>2, <2>1, <2>2 DEF ConsoleIInv, ReadsOK
  <2>3. CASE /\ r.version # Nothing /\ Heeded(r) /\ view'.shown # Nothing
             /\ view'.shown.of = r.of /\ view'.shown.version = r.version
    <3>1. r.number = view.begun /\ r.of = view.target /\ r.version <= Version(view.target)
      BY <2>3 DEF ConsoleIInv, ReadsOK, Heeded, Current
    <3>2. \A q \in reads' : q \in reads /\ q.number # view'.begun
      BY <1>2, <3>1 DEF ConsoleIInv, ReadsOK
    <3> QED
      BY <1>2, <2>1, <2>3, <3>1, <3>2 DEF ConsoleIInv, ReadsOK
  <2> QED
    BY <1>2, <2>2, <2>3
<1> QED
  BY <1>3, <1>4, <1>5, <1>6 DEF ConsoleIInv

\* A submission takes the key of its intent, and no other is listened for.
LEMMA SubmitStep ==
  ASSUME ConsoleIInv, NEW request \in component.requests, NEW lane \in component.lanes,
         Submit(request, lane)
  PROVE  ConsoleIInv'
<1> DEFINE n == [opening |-> view.opening, target |-> view.target, lane |-> lane, heard |-> TRUE,
                 stage |-> "sent", key |-> IF request = "asks" THEN Nothing ELSE KeyFor,
                 answer |-> Nothing]
           taken == IF KeyFor \in Fresh /\ KeyFor > view.taken THEN KeyFor ELSE view.taken
<1>1. /\ view.open /\ lane \notin view.busy /\ KeyFor \in Keys
      /\ calls' = calls \cup {n}
      /\ view' = [view EXCEPT !.busy = @ \cup {lane}, !.says = "nothing", !.taken = taken]
      /\ UNCHANGED <<component, reads, operations>>
      /\ view \in Views /\ view.opening \in 1..MaxOpenings /\ view.target \in Targets
      /\ lane \in Lanes
  BY ComponentFacts DEF Submit, ConsoleIInv, ConsoleTypeOK, OpenOK, Views, Sound
<1>2. taken \in 0..MaxKeys
  BY <1>1, ConsoleAssumption DEF Fresh, Views
<1>3. /\ view' \in Views /\ view'.open = view.open /\ view'.opening = view.opening
      /\ view'.taken = taken /\ view'.key = view.key /\ view'.target = view.target
      /\ view'.busy = view.busy \cup {lane}
      /\ view'.says = "nothing" /\ view'.shown = view.shown /\ view'.begun = view.begun
  BY <1>1, <1>2 DEF Views, Saying
<1>4. /\ n \in Submissions /\ n.opening = view.opening /\ n.target = view.target /\ n.heard /\ n.lane = lane
      /\ n.stage = "sent" /\ n.key = (IF request = "asks" THEN Nothing ELSE KeyFor)
  BY <1>1 DEF Submissions, Views
<1>5. ByIntent => view.key = view.taken /\ KeyFor = view.taken /\ taken = view.taken
  BY <1>1 DEF ConsoleIInv, IntentsOK, ByIntent, KeyFor, Views
<1> HIDE DEF n, taken
<1>6. \A c \in calls : c.heard => c.lane # lane
  BY <1>1 DEF ConsoleIInv, OneListens
<1>7. ConsoleTypeOK'
  BY <1>1, <1>3, <1>4 DEF ConsoleIInv, ConsoleTypeOK
<1>8. OneListens'
  BY <1>1, <1>3, <1>4, <1>5, <1>6 DEF ConsoleIInv, OneListens, ByIntent
<1>9. AnswersOK'
  BY <1>1, <1>4 DEF ConsoleIInv, AnswersOK, Began
<1>10. OneKeyed'
  BY <1>1, <1>4, ConsoleAssumption DEF ConsoleIInv, OneKeyed, Keys, Fresh
<1>11. RefusedOK'
  BY <1>3 DEF RefusedOK
<1>12. IntentsOK'
  <2> SUFFICES ASSUME ByIntent
               PROVE  IntentsOK'
    BY <1>1 DEF IntentsOK, ByIntent
  <2>1. view.taken \in Nat /\ view.opening \in Nat /\ view.taken \in 1..MaxKeys
    BY <1>1, <1>5, ConsoleAssumption DEF Views, Keys, Fresh
  <2>2. \A k \in Keys, o \in 1..MaxOpenings :
          Uses(k, o)' => Uses(k, o) \/ (k = view.taken /\ o = view.opening)
    BY <1>1, <1>4, <1>5, ConsoleAssumption DEF Uses, Began, Keys, Fresh
  <2>3. \A k \in Keys : GivenUp(k)' <=> GivenUp(k)
    BY <1>1 DEF GivenUp, Began
  <2>4. \A k \in Keys, o \in 1..MaxOpenings : Uses(k, o)' =>
          /\ k \in 1..view.taken /\ o <= view.opening
          /\ o = view.opening /\ k < view.taken => GivenUp(k)
          /\ k = view.taken => o = view.opening
    BY <2>1, <2>2 DEF ConsoleIInv, IntentsOK
  <2>5. \A k \in Keys, o, p \in 1..MaxOpenings : Uses(k, o)' /\ Uses(k, p)' => o = p
    BY <2>2, <2>4 DEF ConsoleIInv, IntentsOK
  <2>6. \A k, l \in 1..MaxKeys, o \in 1..MaxOpenings :
          Uses(k, o)' /\ Uses(l, o)' /\ k < l => GivenUp(k)
    <3> SUFFICES ASSUME NEW k \in 1..MaxKeys, NEW l \in 1..MaxKeys, NEW o \in 1..MaxOpenings,
                        Uses(k, o)', Uses(l, o)', k < l
                 PROVE  GivenUp(k)
      OBVIOUS
    <3>1. k \in Keys /\ l \in Keys /\ k \in Nat /\ l \in Nat
      BY DEF Keys, Fresh
    <3>2. l <= view.taken /\ k < view.taken
      BY <2>1, <2>4, <3>1
    <3>3. Uses(k, o)
      BY <2>1, <2>2, <3>1, <3>2
    <3>4. CASE Uses(l, o)
      BY <3>3, <3>4 DEF ConsoleIInv, IntentsOK
    <3>5. CASE l = view.taken /\ o = view.opening
      BY <2>4, <3>1, <3>2, <3>5
    <3> QED
      BY <2>2, <3>1, <3>4, <3>5
  <2> QED
    BY <1>3, <1>5, <2>3, <2>4, <2>5, <2>6 DEF IntentsOK, Keys, Fresh
<1>13. OpenOK' /\ ClosedOK' /\ OutcomeIsHonest'
  BY <1>1, <1>3 DEF ConsoleIInv, OpenOK, ClosedOK, OutcomeIsHonest
<1>14. ReadsOK'
  <2>1. Version(view.target)' = Version(view.target)
    BY <1>1, <1>3 DEF Version
  <2> QED
    BY <1>1, <1>3, <2>1 DEF ConsoleIInv, ReadsOK
<1> QED
  BY <1>7, <1>8, <1>9, <1>10, <1>11, <1>12, <1>13, <1>14 DEF ConsoleIInv

\* What an answer leaves is told: the view goes on, with a new key perhaps.
LEMMA AnsweredStep ==
  ASSUME ConsoleIInv, NEW c \in calls, Answered(c)
  PROVE  ConsoleIInv'
<1> DEFINE renewed == component.key = "intent" /\ c.key # Nothing /\ TakesNewKey(c.answer)
           told == [view EXCEPT !.busy = @ \ {c.lane}, !.says = Says(c.answer),
                                !.key = IF renewed THEN view.taken + 1 ELSE @,
                                !.taken = IF renewed THEN @ + 1 ELSE @]
<1>1. /\ c.stage = "answered" /\ c.heard /\ view.open /\ c.opening = view.opening
      /\ calls' = calls \ {c} /\ UNCHANGED <<component, operations>>
      /\ renewed => view.taken < MaxKeys
      /\ view \in Views /\ view.target \in Targets /\ component \in Components
      /\ c \in Submissions
  BY DEF Answered, ConsoleIInv, ConsoleTypeOK, OpenOK, OneListens, AnswersOK, Views
<1>2. Says(c.answer) \in Saying
  BY <1>1, ComponentFacts DEF Says, Tone, Sound, Saying
<1>3. renewed => view.taken + 1 \in Fresh /\ view.taken + 1 \in 0..MaxKeys
  BY <1>1, ConsoleAssumption DEF Views, Fresh
<1>4. told \in Views
  BY <1>1, <1>2, <1>3 DEF Views
<1>5. /\ told.open = view.open /\ told.opening = view.opening /\ told.target = view.target
      /\ told.key = (IF renewed THEN view.taken + 1 ELSE view.key)
      /\ told.taken = (IF renewed THEN view.taken + 1 ELSE view.taken)
      /\ told.busy = view.busy \ {c.lane} /\ told.says = Says(c.answer) /\ told.shown = view.shown
      /\ told.begun = view.begun
  BY <1>1 DEF Views
<1>6. (view' = told /\ UNCHANGED reads) \/ ReadAgain(view.target, told)
  BY DEF Answered
<1> HIDE DEF told, renewed
<1>7. /\ view' \in Views /\ reads' \subseteq Reads
      /\ view'.open = view.open /\ view'.opening = view.opening /\ view'.target = view.target
      /\ view'.key = (IF renewed THEN view.taken + 1 ELSE view.key)
      /\ view'.taken = (IF renewed THEN view.taken + 1 ELSE view.taken)
      /\ view'.says = Says(c.answer) /\ view'.shown = view.shown
      /\ view'.busy = view.busy \ {c.lane}
      /\ \/ view'.begun = view.begun /\ reads' = reads
         \/ /\ view'.begun = view.begun + 1
            /\ reads' = reads \cup {[number |-> view.begun + 1, of |-> view.target, version |-> Nothing, passed |-> FALSE]}
  <2>1. CASE view' = told /\ UNCHANGED reads
    BY <1>4, <1>5, <2>1 DEF ConsoleIInv, ConsoleTypeOK
  <2>2. CASE ReadAgain(view.target, told)
    BY <1>1, <1>4, <1>5, <2>2, ReadAgainOK DEF ConsoleIInv
  <2> QED
    BY <1>6, <2>1, <2>2
<1>8. ConsoleTypeOK'
  BY <1>1, <1>7 DEF ConsoleIInv, ConsoleTypeOK
<1>9. OneListens'
  <2>1. \A d \in calls : d.heard /\ d # c => d.lane # c.lane
    BY <1>1 DEF ConsoleIInv, OneListens
  <2>2. renewed => \A d \in calls : d.heard => d = c
    BY <1>1, ComponentFacts DEF renewed, Sound, ConsoleIInv, OneListens
  <2>3. ~renewed => view'.key = view.key
    BY <1>7
  <2> QED
    BY <1>1, <1>7, <2>1, <2>2, <2>3 DEF ConsoleIInv, OneListens, ByIntent
<1>10. AnswersOK'
  BY <1>1 DEF ConsoleIInv, AnswersOK, Began
<1>11. CallsDescend
  BY <1>1 DEF CallsDescend, Descends
<1>12. /\ OneKeyed'
       /\ \A k \in Keys, o \in 1..MaxOpenings : Uses(k, o)' => Uses(k, o)
       /\ \A k \in Keys : GivenUp(k) => GivenUp(k)'
  BY <1>1, <1>11, DescendantsOK
<1>13. IntentsOK'
  <2>1. CASE ~renewed
    BY <1>1, <1>7, <1>12, <2>1, IntentsKept DEF ConsoleIInv
  <2>2. CASE renewed
    <3>1. /\ ByIntent /\ c.key = view.taken /\ c.key \in Keys /\ GivenUp(c.key)
          /\ view'.taken = view.taken + 1 /\ view'.key = view.taken + 1
      BY <1>1, <1>7, <2>2 DEF renewed, TakesNewKey, ConsoleIInv, OneListens, AnswersOK, IntentsOK,
                              ByIntent, Outcomes, GivenUp, Submissions
    <3>2. view.taken \in Nat /\ view.opening \in Nat
      BY <1>1, ConsoleAssumption DEF Views
    <3>3. \A k \in Keys, o \in 1..MaxOpenings : Uses(k, o) =>
            /\ k \in 1..view.taken /\ o <= view.opening
            /\ o = view.opening => GivenUp(k)
      BY <3>1, <3>2 DEF ConsoleIInv, IntentsOK
    <3>4. \A k \in Keys, o \in 1..MaxOpenings : Uses(k, o)' =>
            /\ k \in 1..view'.taken /\ o <= view'.opening
            /\ o = view'.opening => GivenUp(k)'
            /\ k # view'.taken
      BY <1>7, <1>12, <3>1, <3>2, <3>3
    <3>5. \A k \in Keys, o, p \in 1..MaxOpenings : Uses(k, o)' /\ Uses(k, p)' => o = p
      BY <1>12, <3>1 DEF ConsoleIInv, IntentsOK
    <3>6. \A k, l \in 1..MaxKeys, o \in 1..MaxOpenings :
            Uses(k, o)' /\ Uses(l, o)' /\ k < l => GivenUp(k)'
      BY <1>12, <3>1 DEF ConsoleIInv, IntentsOK, Keys, Fresh
    <3> QED
      BY <3>1, <3>4, <3>5, <3>6 DEF IntentsOK
  <2> QED
    BY <2>1, <2>2
<1>14. OpenOK' /\ ClosedOK'
  BY <1>1, <1>7 DEF ConsoleIInv, OpenOK, ClosedOK
<1>15. OutcomeIsHonest'
  <2> SUFFICES ASSUME component.says = "tone", component.requests = {"keyed"}, Says(c.answer) = "ok"
               PROVE  \E k \in Keys : /\ Began(k) /\ operations[k].status = "completed"
                                      /\ operations[k].opening = view.opening
    BY <1>1, <1>7 DEF OutcomeIsHonest, Began
  <2>1. ByIntent /\ c.key # Nothing /\ c.key \in Keys
    BY <1>1, ComponentFacts DEF Sound, Lanes, ByIntent, ConsoleIInv, OneKeyed, Submissions
  <2>2. c.answer = "completed"
    BY <1>1, <2>1 DEF Says, Tone, ConsoleIInv, AnswersOK
  <2>3. Began(c.key) /\ operations[c.key].status = "completed"
    BY <1>1, <2>2 DEF ConsoleIInv, AnswersOK, Outcomes
  <2>4. operations[c.key] \in OperationRows
    BY <2>1, <2>3 DEF ConsoleIInv, ConsoleTypeOK, Began
  <2>5. operations[c.key].opening \in 1..MaxOpenings /\ c.opening \in 1..MaxOpenings
    BY <1>1, <2>4 DEF OperationRows, Submissions
  <2>6. Uses(c.key, c.opening) /\ Uses(c.key, operations[c.key].opening)
    BY <2>3 DEF Uses
  <2>7. operations[c.key].opening = c.opening
    BY <2>1, <2>5, <2>6 DEF ConsoleIInv, IntentsOK
  <2> QED
    BY <1>1, <2>1, <2>3, <2>7
<1>16. ReadsOK'
  <2> SUFFICES ASSUME component.loads = "guarded", view.open
               PROVE  ReadsOK'
    BY <1>1, <1>7 DEF ReadsOK
  <2>1. Version(view.target)' = Version(view.target)
    BY <1>1, <1>7 DEF Version
  <2>2. CASE view'.begun = view.begun /\ reads' = reads
    BY <1>1, <1>7, <2>1, <2>2 DEF ConsoleIInv, ReadsOK
  <2>3. CASE /\ view'.begun = view.begun + 1
             /\ reads' = reads \cup {[number |-> view.begun + 1, of |-> view.target, version |-> Nothing,
                                       passed |-> FALSE]}
    <3> DEFINE n == [number |-> view.begun + 1, of |-> view.target, version |-> Nothing,
                     passed |-> FALSE]
    <3>1. view.begun \in Nat /\ \A r \in reads : r.number \in Nat /\ r.number <= view.begun
      BY <1>1, ConsoleAssumption DEF Views, ConsoleIInv, ConsoleTypeOK, Reads, ReadsOK
    <3>2. /\ reads' = reads \cup {n} /\ n.number = view'.begun /\ n.of = view.target
          /\ n.version = Nothing /\ \A r \in reads : r.number < view'.begun
      BY <2>3, <3>1
    <3> HIDE DEF n
    <3>3. \A r, s \in reads' : r.number = s.number => r = s
      BY <3>1, <3>2 DEF ConsoleIInv, ReadsOK
    <3>4. \A r \in reads' : r.of = view.target /\ r.number <= view'.begun
      BY <2>3, <3>1, <3>2 DEF ConsoleIInv, ReadsOK
    <3>5. \A r \in reads' : r.version # Nothing =>
            r.version <= Version(view.target) /\ r.number # view'.begun
      BY <3>1, <3>2 DEF ConsoleIInv, ReadsOK
    <3> QED
      BY <1>1, <1>7, <2>1, <3>3, <3>4, <3>5 DEF ConsoleIInv, ReadsOK
  <2> QED
    BY <1>7, <2>2, <2>3
<1>17. RefusedOK'
  <2> SUFFICES ASSUME component.key = "intent", Says(c.answer) = "bad"
               PROVE  \A k \in Keys, o \in 1..MaxOpenings : Uses(k, o)' => k # view'.taken
    BY <1>1, <1>7 DEF RefusedOK
  <2>1. c.answer = "failed"
    BY <1>1, ComponentFacts DEF Says, Tone, Sound
  <2>2. c.key # Nothing
    BY <1>1, <2>1 DEF ConsoleIInv, AnswersOK, Outcomes
  <2>3. view'.taken = view.taken + 1
    BY <1>7, <2>1, <2>2 DEF renewed, TakesNewKey
  <2>4. view.taken \in Nat
    BY <1>1, ConsoleAssumption DEF Views
  <2>5. \A k \in Keys, o \in 1..MaxOpenings : Uses(k, o)' => k \in 1..view.taken
    BY <1>12 DEF ConsoleIInv, IntentsOK, ByIntent
  <2> QED
    BY <2>3, <2>4, <2>5
<1> QED
  BY <1>8, <1>9, <1>10, <1>12, <1>13, <1>14, <1>15, <1>16, <1>17 DEF ConsoleIInv

\* A reply to c, if it is still listened for.
LEMMA ReplyOK ==
  ASSUME ConsoleIInv, NEW c \in calls, NEW answer \in Answers, Reply(c, answer)
  PROVE  /\ calls' \subseteq Submissions /\ CallsDescend
         /\ (UNCHANGED <<view, component>> => OneListens')
         /\ \A d \in calls' : \/ d \in calls /\ d # c
                              \/ /\ d.stage = "answered" /\ d.answer = answer /\ d.heard
                                 /\ d.key = c.key
<1> DEFINE e == [c EXCEPT !.stage = "answered", !.answer = answer]
<1>1. /\ e \in Submissions /\ Descends(e, c) /\ e.heard = c.heard
      /\ e.stage = "answered" /\ e.answer = answer
  BY DEF ConsoleIInv, ConsoleTypeOK, Submissions, Descends
<1>2. calls' = (calls \ {c}) \cup {d \in {e} : d.heard}
  BY DEF Reply
<1> HIDE DEF e
<1>3. \A d \in calls' : (d \in calls /\ d # c) \/ (d = e /\ e.heard)
  BY <1>2
<1>4. CallsDescend
  BY <1>1, <1>3 DEF CallsDescend, Descends
<1>5. calls' \subseteq Submissions
  BY <1>1, <1>3 DEF ConsoleIInv, ConsoleTypeOK
<1>6. ASSUME UNCHANGED <<view, component>>
      PROVE  OneListens'
  <2>1. \A d \in calls' : d.heard => d = e \/ d \in calls
    BY <1>3
  <2> QED
    BY <1>1, <1>3, <1>6 DEF ConsoleIInv, OneListens, ByIntent, Descends
<1> QED
  BY <1>1, <1>3, <1>4, <1>5, <1>6 DEF Descends

\* What is said of a submission that was there before and is not c.
LEMMA OthersAnswered ==
  ASSUME ConsoleIInv, NEW c \in calls, UNCHANGED operations,
         \A d \in calls' : \/ d \in calls /\ d # c
                           \/ /\ d.stage = "answered" /\ d.heard /\ d.key = c.key
                              /\ d.answer \in Outcomes =>
                                   d.key # Nothing /\ Began(d.key) /\ operations[d.key].status = d.answer
                              /\ d.answer = "approval" => d.key = Nothing
  PROVE  AnswersOK'
  BY DEF ConsoleIInv, AnswersOK, Began

\* The backend answers a known key with its operation and begins one for a new key.
LEMMA ArriveStep ==
  ASSUME ConsoleIInv, NEW c \in calls, Arrive(c)
  PROVE  ConsoleIInv'
<1>1. /\ c.stage = "sent" /\ c.key # Nothing /\ UNCHANGED <<component, view, reads>>
      /\ c \in Submissions /\ c.key \in Keys /\ c.opening \in 1..MaxOpenings
  BY DEF Arrive, ConsoleIInv, ConsoleTypeOK, Submissions
<1>2. CASE operations[c.key] # Nothing
  <2> DEFINE answer == operations[c.key].status
  <2>1. Reply(c, answer) /\ UNCHANGED operations
    BY <1>2 DEF Arrive
  <2>2. operations[c.key] \in OperationRows
    BY <1>1, <1>2 DEF ConsoleIInv, ConsoleTypeOK
  <2>3. answer \in Answers /\ answer # "approval"
    BY <2>2 DEF OperationRows, Answers, Outcomes
  <2>4. /\ calls' \subseteq Submissions /\ CallsDescend /\ OneListens'
        /\ \A d \in calls' : \/ d \in calls /\ d # c
                             \/ /\ d.stage = "answered" /\ d.answer = answer /\ d.heard
                                /\ d.key = c.key
    BY <1>1, <2>1, <2>3, ReplyOK
  <2>5. AnswersOK'
    BY <1>1, <1>2, <2>1, <2>3, <2>4, OthersAnswered DEF Began
  <2>6. ConsoleTypeOK'
    BY <1>1, <2>1, <2>4 DEF ConsoleIInv, ConsoleTypeOK
  <2>7. \A k \in Keys, o \in 1..MaxOpenings : Uses(k, o)' => Uses(k, o)
    BY <1>1, <2>1, <2>4, DescendantsOK
  <2> QED
    BY <1>1, <2>1, <2>4, <2>5, <2>6, <2>7, BackendStep DEF Began
<1>3. CASE operations[c.key] = Nothing
  <2> DEFINE e == [c EXCEPT !.stage = "working"]
             row == [target |-> c.target, opening |-> c.opening, status |-> "running"]
  <2>1. /\ e \in Submissions /\ Descends(e, c) /\ e.heard = c.heard /\ e.stage = "working"
    BY <1>1 DEF Submissions, Descends
  <2>2. row \in OperationRows /\ row # Nothing
    BY <1>1, ConsoleAssumption DEF Submissions, OperationRows
  <2>3. row.opening = c.opening /\ row.status = "running"
    OBVIOUS
  <2>4. calls' = (calls \ {c}) \cup {e} /\ operations' = [operations EXCEPT ![c.key] = row]
    BY <1>3 DEF Arrive, Works
  <2> HIDE DEF e, row
  <2>5. ConsoleTypeOK'
    BY <1>1, <2>1, <2>2, <2>4 DEF ConsoleIInv, ConsoleTypeOK
  <2>6. /\ operations'[c.key] = row
        /\ \A k \in Keys : k # c.key => operations'[k] = operations[k]
    BY <1>1, <2>4 DEF ConsoleIInv, ConsoleTypeOK
  <2>7. CallsDescend
    BY <2>1, <2>4 DEF CallsDescend, Descends
  <2>8. OneListens'
    BY <1>1, <2>1, <2>4 DEF ConsoleIInv, OneListens, ByIntent, Descends
  <2>9. AnswersOK'
    <3>1. e.key = c.key /\ Began(c.key)' /\ operations'[c.key].status = "running"
      BY <2>1, <2>2, <2>3, <2>6 DEF Descends, Began
    <3>2. \A d \in calls : d.key # Nothing => d.key \in Keys
      BY DEF ConsoleIInv, ConsoleTypeOK, Submissions
    <3>3. ASSUME NEW d \in calls, d.key # Nothing, Began(d.key)
          PROVE  d.key # c.key /\ Began(d.key)' /\ operations'[d.key] = operations[d.key]
      BY <1>3, <2>6, <3>2, <3>3 DEF Began
    <3>4. ASSUME NEW d \in calls'
          PROVE  /\ d.stage = "answered" =>
                      /\ d.heard
                      /\ d.answer \in Outcomes =>
                           d.key # Nothing /\ Began(d.key)' /\ operations'[d.key].status = d.answer
                      /\ d.answer = "approval" => d.key = Nothing
                 /\ d.stage = "working" =>
                      d.key # Nothing /\ Began(d.key)' /\ operations'[d.key].status = "running"
      <4>1. CASE d \in calls
        BY <3>3, <4>1 DEF ConsoleIInv, AnswersOK
      <4>2. CASE d = e
        BY <1>1, <2>1, <3>1, <4>2
      <4> QED
        BY <2>4, <4>1, <4>2
    <3>5. ASSUME NEW d \in calls', NEW b \in calls', d.stage = "working", b.stage = "working",
                 b.key = d.key
          PROVE  b = d
      <4>1. \A f \in calls : f.stage = "working" => f.key # c.key
        BY <3>3 DEF ConsoleIInv, AnswersOK
      <4> QED
        BY <2>4, <3>1, <3>5, <4>1 DEF ConsoleIInv, AnswersOK
    <3> QED
      BY <3>4, <3>5 DEF AnswersOK, Began
  <2>10. \A k \in Keys, o \in 1..MaxOpenings : Uses(k, o)' => Uses(k, o)
    <3> SUFFICES ASSUME NEW k \in Keys, NEW o \in 1..MaxOpenings, Uses(k, o)'
                 PROVE  Uses(k, o)
      OBVIOUS
    <3>1. CASE \E d \in calls' : d.key = k /\ d.opening = o
      BY <2>7, <3>1 DEF CallsDescend, Descends, Uses
    <3>2. CASE Began(k)' /\ operations'[k].opening = o
      BY <2>3, <2>6, <3>2 DEF Uses, Began
    <3> QED
      BY <3>1, <3>2 DEF Uses, Began
  <2>11. \A k \in Keys : Began(k) =>
           /\ Began(k)' /\ operations'[k].opening = operations[k].opening
           /\ operations'[k].target = operations[k].target
           /\ operations[k].status # "running" => operations'[k].status = operations[k].status
    BY <1>3, <2>6 DEF Began
  <2> QED
    BY <1>1, <2>5, <2>7, <2>8, <2>9, <2>10, <2>11, BackendStep
<1> QED
  BY <1>2, <1>3

\* The one submission that is worked on under a key settles its operation.
LEMMA SettleStep ==
  ASSUME ConsoleIInv, NEW c \in calls, Settle(c)
  PROVE  ConsoleIInv'
<1>1. PICK outcome \in Outcomes : /\ operations' = [operations EXCEPT ![c.key].status = outcome]
                                  /\ Reply(c, outcome)
  BY DEF Settle
<1>2. /\ c.stage = "working" /\ UNCHANGED <<component, view, reads>>
      /\ c.key # Nothing /\ c.key \in Keys /\ Began(c.key) /\ operations[c.key].status = "running"
      /\ operations[c.key] \in OperationRows
  BY DEF Settle, ConsoleIInv, ConsoleTypeOK, AnswersOK, Submissions, Began
<1>3. outcome \in Answers /\ outcome \notin {"running", "approval"}
  BY DEF Outcomes, Answers
<1> DEFINE row == [operations[c.key] EXCEPT !.status = outcome]
<1>4. /\ row \in OperationRows /\ row.target = operations[c.key].target
      /\ row.opening = operations[c.key].opening /\ row.status = outcome
  BY <1>2 DEF OperationRows
<1>5. operations' = [operations EXCEPT ![c.key] = row]
  BY <1>1, <1>2 DEF ConsoleIInv, ConsoleTypeOK
<1> HIDE DEF row
<1>6. /\ operations'[c.key] = row /\ row # Nothing
      /\ \A k \in Keys : k # c.key => operations'[k] = operations[k]
  BY <1>2, <1>4, <1>5, ConsoleAssumption DEF ConsoleIInv, ConsoleTypeOK
<1>7. /\ calls' \subseteq Submissions /\ CallsDescend /\ OneListens'
      /\ \A d \in calls' : \/ d \in calls /\ d # c
                           \/ /\ d.stage = "answered" /\ d.answer = outcome /\ d.heard
                              /\ d.key = c.key
  BY <1>1, <1>2, <1>3, ReplyOK
<1>8. ConsoleTypeOK'
  BY <1>2, <1>4, <1>5, <1>7 DEF ConsoleIInv, ConsoleTypeOK
<1>9. \A k \in Keys : Began(k) =>
        /\ Began(k)' /\ operations'[k].opening = operations[k].opening
        /\ operations'[k].target = operations[k].target
        /\ operations[k].status # "running" => operations'[k].status = operations[k].status
  BY <1>2, <1>4, <1>6 DEF Began
<1>10. \A k \in Keys, o \in 1..MaxOpenings : Uses(k, o)' => Uses(k, o)
  <2> SUFFICES ASSUME NEW k \in Keys, NEW o \in 1..MaxOpenings, Uses(k, o)'
               PROVE  Uses(k, o)
    OBVIOUS
  <2>1. CASE \E d \in calls' : d.key = k /\ d.opening = o
    BY <1>7, <2>1 DEF CallsDescend, Descends, Uses
  <2>2. CASE Began(k)' /\ operations'[k].opening = o
    BY <1>2, <1>4, <1>6, <2>2 DEF Uses, Began
  <2> QED
    BY <2>1, <2>2 DEF Uses, Began
<1>11. AnswersOK'
  <2>1. \A d \in calls : d.key # Nothing => d.key \in Keys
    BY DEF ConsoleIInv, ConsoleTypeOK, Submissions
  <2>2. ASSUME NEW d \in calls'
        PROVE  /\ d.stage = "answered" =>
                    /\ d.heard
                    /\ d.answer \in Outcomes =>
                         d.key # Nothing /\ Began(d.key)' /\ operations'[d.key].status = d.answer
                    /\ d.answer = "approval" => d.key = Nothing
               /\ d.stage = "working" =>
                    /\ d.key # Nothing /\ Began(d.key)' /\ operations'[d.key].status = "running"
                    /\ \A b \in calls' : b.stage = "working" /\ b.key = d.key => b = d
    <3>1. CASE d \in calls /\ d # c
      <4>1. d.stage = "answered" /\ d.answer \in Outcomes => d.key # c.key
        BY <1>2, <3>1 DEF ConsoleIInv, AnswersOK, Outcomes
      <4>2. d.stage = "working" => d.key # c.key
        BY <1>2, <3>1 DEF ConsoleIInv, AnswersOK
      <4>3. d.stage = "answered" =>
              /\ d.heard
              /\ d.answer \in Outcomes =>
                   d.key # Nothing /\ Began(d.key)' /\ operations'[d.key].status = d.answer
              /\ d.answer = "approval" => d.key = Nothing
        BY <1>6, <2>1, <3>1, <4>1 DEF ConsoleIInv, AnswersOK, Began
      <4>4. d.stage = "working" =>
              d.key # Nothing /\ Began(d.key)' /\ operations'[d.key].status = "running"
        BY <1>6, <2>1, <3>1, <4>2 DEF ConsoleIInv, AnswersOK, Began
      <4>5. d.stage = "working" => \A b \in calls' : b.stage = "working" /\ b.key = d.key => b = d
        BY <1>7, <3>1 DEF ConsoleIInv, AnswersOK
      <4> QED
        BY <4>3, <4>4, <4>5
    <3>2. CASE d.stage = "answered" /\ d.answer = outcome /\ d.heard /\ d.key = c.key
      BY <1>2, <1>3, <1>4, <1>6, <3>2 DEF Began
    <3> QED
      BY <1>7, <3>1, <3>2
  <2> QED
    BY <2>2 DEF AnswersOK, Began
<1> QED
  BY <1>2, <1>7, <1>8, <1>9, <1>10, <1>11, BackendStep

\* A refusal, or the answer to a request that carries no key.
LEMMA RepliesStep ==
  ASSUME ConsoleIInv, NEW c \in calls, NEW answer \in {"refused", "approval"},
         answer = "approval" => c.key = Nothing,
         Reply(c, answer), UNCHANGED <<component, view, reads, operations>>
  PROVE  ConsoleIInv'
<1>1. answer \in Answers /\ answer \notin Outcomes
  BY DEF Answers, Outcomes
<1>2. /\ calls' \subseteq Submissions /\ CallsDescend /\ OneListens'
      /\ \A d \in calls' : \/ d \in calls /\ d # c
                           \/ /\ d.stage = "answered" /\ d.answer = answer /\ d.heard
                              /\ d.key = c.key
  BY <1>1, ReplyOK
<1>3. AnswersOK'
  BY <1>1, <1>2, OthersAnswered
<1>4. ConsoleTypeOK'
  BY <1>2 DEF ConsoleIInv, ConsoleTypeOK
<1> QED
  BY <1>2, <1>3, <1>4, DescendantsOK, BackendStep DEF Began

\* What nobody listens to may vanish.
LEMMA VanishStep ==
  ASSUME ConsoleIInv, NEW c \in calls, Vanish(c)
  PROVE  ConsoleIInv'
<1>1. calls' = calls \ {c} /\ UNCHANGED <<component, view, reads, operations>>
  BY DEF Vanish
<1>2. CallsDescend
  BY <1>1 DEF CallsDescend, Descends
<1>3. AnswersOK'
  BY <1>1 DEF ConsoleIInv, AnswersOK, Began
<1>4. ConsoleTypeOK' /\ OneListens'
  BY <1>1 DEF ConsoleIInv, ConsoleTypeOK, OneListens, ByIntent
<1> QED
  BY <1>1, <1>2, <1>3, <1>4, DescendantsOK, BackendStep DEF Began

\* The invariant is inductive.
LEMMA ConsoleStepIInv ==
  ASSUME ConsoleIInv, [ConsoleNext]_consoleVars
  PROVE  ConsoleIInv'
<1>1. CASE UNCHANGED consoleVars
  <2>1. UNCHANGED <<component, view, reads, calls, operations>>
    BY <1>1 DEF consoleVars
  <2>2. AnswersOK' /\ OneKeyed' /\ RefusedOK' /\ IntentsOK'
    BY <2>1, CallsKept, IntentsKept, RefusedKept DEF ConsoleIInv
  <2>3. ConsoleTypeOK' /\ OpenOK' /\ OneListens' /\ ClosedOK' /\ OutcomeIsHonest'
    BY <2>1 DEF ConsoleIInv, ConsoleTypeOK, OpenOK, OneListens, ByIntent, ClosedOK, OutcomeIsHonest
  <2>4. ReadsOK'
    BY <2>1 DEF ConsoleIInv, ReadsOK, Version
  <2> QED
    BY <2>2, <2>3, <2>4 DEF ConsoleIInv
<1>2. CASE \E t \in Targets : OpenView(t) \/ Retarget(t)
  BY <1>2, OpenViewStep, RetargetStep
<1>3. CASE CloseView
  BY <1>3, CloseViewStep
<1>4. ASSUME NEW r \in reads, \/ ReadServed(r) \/ HeadersArrive(r)
                             \/ ReadAnswered(r) \/ ReadFails(r)
      PROVE  ConsoleIInv'
  <2>1. CASE ReadServed(r)
    BY <2>1, ReadServedStep
  <2>2. CASE ReadAnswered(r)
    BY <2>2, ReadEnds DEF ReadAnswered, Heeded
  <2>3. CASE ReadFails(r)
    BY <2>3, ReadEnds DEF ReadFails
  <2>4. CASE HeadersArrive(r)
    BY <2>4, HeadersArriveStep
  <2> QED
    BY <1>4, <2>1, <2>2, <2>3, <2>4
<1>5. ASSUME NEW request \in component.requests, NEW lane \in component.lanes, Submit(request, lane)
      PROVE  ConsoleIInv'
  BY <1>5, SubmitStep
<1>6. ASSUME NEW c \in calls, \/ Lost(c) \/ Answered(c) \/ Arrive(c) \/ Settle(c) \/ Refuse(c)
                             \/ Approve(c) \/ Vanish(c)
      PROVE  ConsoleIInv'
  <2>1. CASE Lost(c)
    BY <2>1, LostStep
  <2>2. CASE Answered(c)
    BY <2>2, AnsweredStep
  <2>3. CASE Arrive(c)
    BY <2>3, ArriveStep
  <2>4. CASE Settle(c)
    BY <2>4, SettleStep
  <2>5. CASE Refuse(c)
    BY <2>5, RepliesStep DEF Refuse
  <2>6. CASE Approve(c)
    BY <2>6, RepliesStep DEF Approve
  <2>7. CASE Vanish(c)
    BY <2>7, VanishStep
  <2> QED
    BY <1>6, <2>1, <2>2, <2>3, <2>4, <2>5, <2>6, <2>7
<1> QED
  BY <1>1, <1>2, <1>3, <1>4, <1>5, <1>6 DEF ConsoleNext

\* What the console and the backend agree on holds in every state: which keys an
\* opening has used, whose submission is listened for, how old what is shown may be.
THEOREM ConsoleInvariant == ConsoleSpec => []ConsoleIInv
<1>1. ConsoleInit => ConsoleIInv
  BY ConsoleInitIInv
<1>2. ConsoleIInv /\ [ConsoleNext]_consoleVars => ConsoleIInv'
  BY ConsoleStepIInv
<1> QED
  BY <1>1, <1>2, PTL DEF ConsoleSpec

\* Every value has its type (useState and useRef of the components).
THEOREM ConsoleTypes == ConsoleSpec => []ConsoleTypeOK
<1>1. ConsoleIInv => ConsoleTypeOK
  BY DEF ConsoleIInv
<1> QED
  BY <1>1, ConsoleInvariant, PTL

\* Whatever is lost and tried again, an opening of a dialog carries out at most one
\* command that has not been definitively refused (keyRef of ActionDialog).
THEOREM OneIntentOneCommand == ConsoleSpec => []OneCommandPerIntent
<1>1. ConsoleIInv => OneCommandPerIntent
  <2> SUFFICES ASSUME ConsoleIInv, ByIntent, NEW k \in Keys, NEW l \in Keys,
                      Began(k), Began(l), operations[k].opening = operations[l].opening,
                      operations[k].status # "failed", operations[l].status # "failed"
               PROVE  k = l
    BY DEF OneCommandPerIntent, ByIntent, Began
  <2>1. operations[k] \in OperationRows /\ operations[l] \in OperationRows
    BY DEF ConsoleIInv, ConsoleTypeOK, Began
  <2>2. PICK o \in 1..MaxOpenings : operations[k].opening = o
    BY <2>1 DEF OperationRows
  <2>3. Uses(k, o) /\ Uses(l, o)
    BY <2>2 DEF Uses
  <2>4. k \in 1..view.taken /\ l \in 1..view.taken /\ view.taken \in 0..MaxKeys
    BY <2>3 DEF ConsoleIInv, ConsoleTypeOK, IntentsOK, Views
  <2>5. k \in 1..MaxKeys /\ l \in 1..MaxKeys
    BY <2>4, ConsoleAssumption
  <2>6. ~(k < l) /\ ~(l < k)
    BY <2>3, <2>5 DEF ConsoleIInv, IntentsOK, GivenUp
  <2> QED
    BY <2>4, <2>6
<1> QED
  BY <1>1, ConsoleInvariant, PTL

\* A dialog that says it is done is right: a command of this very opening was
\* completed (explainOperation).
THEOREM HonestOutcome == ConsoleSpec => []OutcomeIsHonest
<1>1. ConsoleIInv => OutcomeIsHonest
  BY DEF ConsoleIInv
<1> QED
  BY <1>1, ConsoleInvariant, PTL

\* When a dialog tells that its command was refused, everything its opening has
\* submitted, and everything of it that is still on its way, is of an operation that
\* failed (AiActions: a definitive refusal ends the intent).
THEOREM DefinitiveRefusal == ConsoleSpec => []RefusalIsDefinitive
<1>1. ConsoleIInv => RefusalIsDefinitive
  <2> SUFFICES ASSUME ConsoleIInv, component.key = "intent", view.says = "bad"
               PROVE  /\ \A k \in Keys : Began(k) /\ operations[k].opening = view.opening =>
                           operations[k].status = "failed"
                      /\ \A c \in calls : c.key # Nothing /\ c.opening = view.opening =>
                           Began(c.key) /\ operations[c.key].status = "failed"
    BY DEF RefusalIsDefinitive, Began
  <2>1. ASSUME NEW k \in Keys, NEW o \in 1..MaxOpenings, Uses(k, o), o = view.opening
        PROVE  GivenUp(k)
    <3>1. k \in 1..view.taken /\ view.taken \in Nat /\ k # view.taken
      BY <2>1, ConsoleAssumption DEF ConsoleIInv, ConsoleTypeOK, Views, IntentsOK, ByIntent, RefusedOK
    <3> QED
      BY <2>1, <3>1 DEF ConsoleIInv, IntentsOK, ByIntent
  <2>2. ASSUME NEW k \in Keys, Began(k), operations[k].opening = view.opening
        PROVE  operations[k].status = "failed"
    <3>1. operations[k].opening \in 1..MaxOpenings
      BY <2>2 DEF ConsoleIInv, ConsoleTypeOK, Began, OperationRows
    <3> QED
      BY <2>1, <2>2, <3>1 DEF Uses, GivenUp
  <2>3. ASSUME NEW c \in calls, c.key # Nothing, c.opening = view.opening
        PROVE  Began(c.key) /\ operations[c.key].status = "failed"
    <3>1. c.key \in Keys /\ c.opening \in 1..MaxOpenings
      BY <2>3 DEF ConsoleIInv, ConsoleTypeOK, Submissions
    <3> QED
      BY <2>1, <2>3, <3>1 DEF Uses, GivenUp
  <2> QED
    BY <2>2, <2>3
<1> QED
  BY <1>1, ConsoleInvariant, PTL

\* What a step does to what a guarded component shows.
LEMMA ShownAdvances ==
  ASSUME ConsoleIInv, ConsoleNext, component.loads = "guarded", view'.opening = view.opening,
         view.shown # Nothing, view'.shown # Nothing
  PROVE  view'.shown.version >= view.shown.version
<1>1. view \in Views /\ component \in Components /\ view.shown.version \in Nat /\ view.open
  BY DEF ConsoleIInv, ConsoleTypeOK, Views, ClosedOK
<1>2. CASE view'.shown = view.shown
  BY <1>1, <1>2
<1>3. ASSUME NEW t \in Targets, OpenView(t) \/ Retarget(t)
      PROVE  FALSE
  BY <1>1, <1>3, ComponentFacts DEF OpenView, Retarget, Sound
<1>4. CloseView => FALSE
  BY <1>1 DEF CloseView, Views
<1>5. ASSUME NEW r \in reads, \/ ReadServed(r) \/ HeadersArrive(r)
                             \/ ReadAnswered(r) \/ ReadFails(r)
      PROVE  view'.shown = view.shown \/ view'.shown.version >= view.shown.version
  <2>1. CASE ReadAnswered(r) /\ Heeded(r)
    <3>1. /\ view' = [view EXCEPT !.shown = [of |-> r.of, version |-> r.version]]
          /\ r.version # Nothing /\ r.number = view.begun
      BY <2>1 DEF ReadAnswered, Heeded, Current
    <3>2. view.shown.version <= r.version /\ r.version \in Nat
      BY <1>1, <3>1 DEF ConsoleIInv, ReadsOK, ConsoleTypeOK, Reads
    <3>3. view'.shown.version = r.version
      BY <1>1, <3>1 DEF Views
    <3> QED
      BY <1>1, <3>2, <3>3
  <2> QED
    BY <1>5, <2>1 DEF ReadServed, HeadersArrive, ReadAnswered, ReadFails, Heeded
<1>6. ASSUME NEW request \in component.requests, NEW lane \in component.lanes, Submit(request, lane)
      PROVE  view'.shown = view.shown
  BY <1>1, <1>6 DEF Submit, Views
<1>7. ASSUME NEW c \in calls, \/ Lost(c) \/ Arrive(c) \/ Settle(c) \/ Refuse(c)
                             \/ Approve(c) \/ Vanish(c)
      PROVE  view'.shown = view.shown
  BY <1>1, <1>7 DEF Lost, Arrive, Settle, Refuse, Approve, Vanish, Views
<1>8. ASSUME NEW c \in calls, Answered(c)
      PROVE  view'.shown = view.shown
  BY <1>1, <1>8 DEF Answered, ReadAgain, Views
<1> QED
  BY <1>2, <1>3, <1>4, <1>5, <1>6, <1>7, <1>8 DEF ConsoleNext

\* Where a newer read cancels the older ones until they are shown, what is shown never
\* goes back (the lists of TenantDetailDrawer, RepairCommissionDialog).
THEOREM ViewAdvances == ConsoleSpec => GuardedViewAdvances
<1> DEFINE Ahead == (/\ component.loads = "guarded" /\ view'.opening = view.opening
                     /\ view.shown # Nothing /\ view'.shown # Nothing) =>
                       view'.shown.version >= view.shown.version
<1>1. ConsoleIInv /\ [ConsoleNext]_consoleVars => [Ahead]_view
  BY ShownAdvances DEF consoleVars
<1> QED
  BY <1>1, ConsoleInvariant, PTL DEF ConsoleSpec, GuardedViewAdvances
================================================================================
