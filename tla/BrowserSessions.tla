---------------------------- MODULE BrowserSessions ----------------------------
(***************************************************************************)
(* Who an operator is to the console: the login and the step-up that the   *)
(* browser carries through the identity provider, the sessions and their   *)
(* revocation and step-up markers, the checks every management request     *)
(* passes, and the tabs of one browser that share its cookies.             *)
(*                                                                         *)
(* A session and its marker live in two tables, read and written by calls  *)
(* of their own.  A tab keeps the operator and the anti-CSRF token of the  *)
(* session it last asked about, while the browser sends whichever session  *)
(* cookie it holds when a request leaves.                                  *)
(*                                                                         *)
(* The provider's tokens are modelled by what is asked of them: whose they *)
(* are, and whether that operator authenticated after the transaction      *)
(* began (auth_time, with the 30 s of skew the code allows counted as      *)
(* after).  Bearer tokens and the development token are left out.          *)
(***************************************************************************)
EXTENDS RequestHandlers, FiniteSets

CONSTANTS
  Operators,     \* operators of the directory
  Transactions,  \* rows of oauth_login_transactions and step_up_transactions
  Sessions,      \* rows of browser_sessions, and of operator_sessions
  Tabs,          \* tabs of one browser
  None

ASSUME SessionsAssumption ==
  /\ None \notin Operators \cup Transactions \cup Sessions
  /\ None \notin [operator : Operators, login : Transactions, open : BOOLEAN]
  /\ None \notin [kind : {"login", "stepUp"}, open : BOOLEAN, session : Sessions \cup {None}]

VARIABLES
  operators,      \* governance.operators: pending, disabled (for cause), active
  transactions,   \* logins and step-ups under way
  sessions,       \* governance.browser_sessions
  markers,        \* governance.operator_sessions
  jar,            \* the browser's session, login and step-up cookies
  tabs,           \* what each tab shows
  authenticated,  \* who typed credentials after which transaction began
  signedOut       \* sessions whose logout was answered

store == <<operators, transactions, sessions, markers>>
browser == <<jar, tabs>>
vars == <<store, browser, authenticated, signedOut, proc>>

\* No row, or one with a step-up older than five minutes.
Unmarked == [revoked |-> FALSE, stepUp |-> FALSE]

Loading == [view |-> "loading", shows |-> None, at |-> None]

Open(table, x) == x # None /\ table[x] # None /\ table[x].open

Close(table, x) == [table EXCEPT ![x].open = FALSE]

Unused(table) == {x \in DOMAIN table : table[x] = None}
--------------------------------------------------------------------------------
(* The tabs.                                                               *)

Step(call) == [call |-> call]

\* The checks a management request passes before its handler runs.
Checks == <<Step("session"), Step("marker")>>

Work(kind) ==
  CASE kind = "whoami"  -> <<Step("answerWhoami")>>
    [] kind = "command" -> <<Step("stepUp"), Step("run")>>
    [] kind = "logout"  -> <<Step("revokeSession"), Step("revokeMarker")>>
    [] kind = "start"   -> <<Step("createStepUp")>>

Safe(kind) == kind \in {"whoami", "start", "stepUp"}

\* Tab t sends a request: the browser adds the session cookie, request() the
\* anti-CSRF token of the session the tab shows when the method is unsafe.
\* Without a cookie it is refused at once.
Send(h, t, kind) ==
  /\ ~Busy(h)
  /\ jar.session # None
  /\ Begin(h, [kind |-> kind, cookie |-> jar.session,
                csrf |-> IF Safe(kind) THEN None ELSE tabs[t].shows,
                tab |-> IF Safe(kind) THEN t ELSE None],
           Checks \o Work(kind))

\* A tab that has just loaded asks who it is.
Refresh(h, t) ==
  /\ tabs[t].view = "loading"
  /\ Send(h, t, "whoami")
  /\ UNCHANGED <<store, browser, authenticated, signedOut>>

\* whoami was refused, or lost: the tab offers to sign in.
ShowSignIn(t) ==
  /\ tabs[t].view = "loading"
  /\ tabs' = [tabs EXCEPT ![t].view = "out"]
  /\ UNCHANGED <<store, jar, authenticated, signedOut, proc>>

SendCommand(h, t) ==
  /\ tabs[t].view = "in"
  /\ Send(h, t, "command")
  /\ UNCHANGED <<store, browser, authenticated, signedOut>>

Reload(t) ==
  /\ tabs[t].view \in {"in", "out"}
  /\ tabs' = [tabs EXCEPT ![t] = Loading]
  /\ UNCHANGED <<store, jar, authenticated, signedOut, proc>>

\* The tab leaves for /auth/login, whose answer sets the login cookie and
\* sends the tab on to the provider.
SignIn(t) ==
  /\ tabs[t].view = "out"
  /\ \E x \in Unused(transactions) :
       /\ transactions' = [transactions EXCEPT ![x] =
                             [kind |-> "login", open |-> TRUE, session |-> None]]
       /\ jar' = [jar EXCEPT !.login = x]
       /\ tabs' = [tabs EXCEPT ![t] = [view |-> "away", shows |-> None, at |-> x]]
  /\ UNCHANGED <<operators, sessions, markers, authenticated, signedOut, proc>>

\* stepUp(): the tab asks for /session/step-up/start, and stays until it answers.
StepUp(h, t) ==
  /\ tabs[t].view = "in"
  /\ Send(h, t, "start")
  /\ UNCHANGED <<store, browser, authenticated, signedOut>>

SignOut(h, t) ==
  /\ tabs[t].view = "in"
  /\ \/ Send(h, t, "logout")
     \/ jar.session = None /\ UNCHANGED proc
  /\ tabs' = [tabs EXCEPT ![t].view = "leaving"]
  /\ UNCHANGED <<store, jar, authenticated, signedOut>>

\* Answered, refused or lost, the tab goes to /auth/cognito-logout, which
\* drops whatever session cookie the browser holds.
CognitoLogout(t) ==
  /\ tabs[t].view = "leaving"
  /\ jar' = [jar EXCEPT !.session = None]
  /\ tabs' = [tabs EXCEPT ![t] = Loading]
  /\ UNCHANGED <<store, authenticated, signedOut, proc>>
--------------------------------------------------------------------------------
(* The provider, and what only time and people do.                         *)

StepUps == {x \in Transactions : transactions[x] # None /\ transactions[x].kind = "stepUp"}

CallbackCalls(kind, bound, fresh) ==
  (IF kind = "login" THEN <<>> ELSE Checks)
    \o <<[call |-> "consume", bound |-> bound], [call |-> "exchange", fresh |-> fresh]>>

\* An operator signs on, by credentials or by a session the provider still
\* holds, and is sent to the callback.  Going back and signing on again sends another.  The
\* cookie of the login or the step-up may have been lost on the way.
ProviderAnswers(h, t) ==
  /\ tabs[t].view = "away" /\ ~Busy(h)
  /\ \E o \in Operators, typed \in BOOLEAN :
       /\ authenticated' =
            IF typed THEN authenticated \cup ({o} \X StepUps)
                     ELSE authenticated
       /\ LET x == tabs[t].at
              kind == transactions[x].kind
          IN  \E bound \in {jar[kind], None} :
                Begin(h, [kind |-> kind, cookie |-> IF kind = "login" THEN None ELSE jar.session,
                          csrf |-> None, about |-> x, subject |-> o],
                      CallbackCalls(kind, bound, <<o, x>> \in authenticated'))
  /\ UNCHANGED <<store, browser, signedOut>>

DisableOperator(o) ==
  /\ operators[o] # "disabled"
  /\ operators' = [operators EXCEPT ![o] = "disabled"]
  /\ UNCHANGED <<transactions, sessions, markers, browser, authenticated, signedOut, proc>>

\* Ten minutes for a login or a step-up, five for what it has proven.  A
\* session that expires is a row FindSession no longer returns, as after
\* its revocation.
Expire ==
  /\ \/ \E x \in Transactions : /\ Open(transactions, x)
                                /\ transactions' = Close(transactions, x)
                                /\ UNCHANGED markers
     \/ \E s \in Sessions : /\ markers[s].stepUp
                            /\ markers' = [markers EXCEPT ![s].stepUp = FALSE]
                            /\ UNCHANGED transactions
  /\ UNCHANGED <<operators, sessions, browser, authenticated, signedOut, proc>>

\* A login's callback that throws clears the session cookie the browser held,
\* and by then has cleared the login's cookie or has not come to it.
Throws(h, login) ==
  /\ About(h).kind = "login"
  /\ Stop(h)
  /\ jar' = [jar EXCEPT !.session = None, !.login = login]
  /\ UNCHANGED tabs

\* A request is refused, throws or is lost with its process.
Abandon(h) ==
  /\ Busy(h)
  /\ \/ Stop(h) /\ UNCHANGED browser
     \/ \E login \in {jar.login, None} : Throws(h, login)
  /\ UNCHANGED <<store, authenticated, signedOut>>
--------------------------------------------------------------------------------
(* Every management request: requireManagementApiAuth, requireBrowserCsrf  *)
(* and requireStepUp.                                                      *)

\* SELECT ... WHERE session_token_hash = $1 AND revoked_at IS NULL AND
\* expires_at > now(), and the session's operator.
FindSession(h) ==
  /\ Calls(h, "session")
  /\ LET s == About(h).cookie
     IN  IF Open(sessions, s) /\ operators[sessions[s].operator] = "active"
         THEN Continue(h, Rest(h)) ELSE Stop(h)
  /\ UNCHANGED <<store, browser, authenticated, signedOut>>

\* Mutant: any token will do.
CsrfMatches_Present(r) == r.csrf # None

CsrfMatches(r) == r.csrf = r.cookie

\* isRevoked, and then the comparison of the anti-CSRF token.
CheckMarker(h) ==
  /\ Calls(h, "marker")
  /\ IF /\ ~markers[About(h).cookie].revoked
        /\ Safe(About(h).kind) \/ CsrfMatches(About(h))
     THEN Continue(h, Rest(h)) ELSE Stop(h)
  /\ UNCHANGED <<store, browser, authenticated, signedOut>>

\* Some routes need a step-up, some none.
CheckStepUp(h) ==
  /\ Calls(h, "stepUp")
  /\ \E needed \in BOOLEAN :
       IF needed => markers[About(h).cookie].stepUp THEN Continue(h, Rest(h)) ELSE Stop(h)
  /\ UNCHANGED <<store, browser, authenticated, signedOut>>

\* The route's own work, as the operator of the session.
Run(h) ==
  /\ Calls(h, "run")
  /\ Stop(h)
  /\ UNCHANGED <<store, browser, authenticated, signedOut>>

\* whoami answers with the operator and the session's anti-CSRF token.
AnswerWhoami(h) ==
  /\ Calls(h, "answerWhoami")
  /\ Stop(h)
  /\ LET t == About(h).tab
     IN  tabs' = IF tabs[t].view = "loading"
                 THEN [tabs EXCEPT ![t] = [view |-> "in", shows |-> About(h).cookie, at |-> None]]
                 ELSE tabs
  /\ UNCHANGED <<store, jar, authenticated, signedOut>>

RevokeSession(h) ==
  /\ Calls(h, "revokeSession")
  /\ sessions' = Close(sessions, About(h).cookie)
  /\ Continue(h, Rest(h))
  /\ UNCHANGED <<operators, transactions, markers, browser, authenticated, signedOut>>

\* Mutant: the upsert leaves the row as it was.
Revoked_Kept(m) == m

Revoked(m) == [m EXCEPT !.revoked = TRUE]

\* The upsert of the marker, and the answer, which clears the cookie.
RevokeMarker(h) ==
  /\ Calls(h, "revokeMarker")
  /\ markers' = [markers EXCEPT ![About(h).cookie] = Revoked(@)]
  /\ signedOut' = signedOut \cup {About(h).cookie}
  /\ jar' = [jar EXCEPT !.session = None]
  /\ Stop(h)
  /\ UNCHANGED <<operators, transactions, sessions, tabs, authenticated>>

\* The step-up transaction is bound to the session that asked, and with it
\* to that session's operator.
CreateStepUp(h) ==
  /\ Calls(h, "createStepUp")
  /\ \E x \in Unused(transactions) :
       /\ transactions' = [transactions EXCEPT ![x] =
                             [kind |-> "stepUp", open |-> TRUE, session |-> About(h).cookie]]
       /\ jar' = [jar EXCEPT !.stepUp = x]
       /\ tabs' = IF tabs[About(h).tab].view = "in"
                  THEN [tabs EXCEPT ![About(h).tab] = [view |-> "away", shows |-> None, at |-> x]]
                  ELSE tabs
  /\ Stop(h)
  /\ UNCHANGED <<operators, sessions, markers, authenticated, signedOut>>
--------------------------------------------------------------------------------
(* The callbacks.                                                          *)

\* Every answer of a callback clears its cookie and brings the tab back.
BackToConsole(h) ==
  tabs' = [t \in Tabs |-> IF tabs[t].at = About(h).about THEN Loading ELSE tabs[t]]

Answer(h, session) ==
  /\ Stop(h)
  /\ jar' = [jar EXCEPT ![About(h).kind] = None,
                        !.session = IF session = None THEN @ ELSE session]
  /\ BackToConsole(h)

\* Mutant: a consumed transaction is found again.
Consumable_Again(x) == transactions[x] # None

\* UPDATE ... SET consumed_at = now() WHERE ... consumed_at IS NULL ... RETURNING
Consumable(x) == Open(transactions, x)

\* A cookie that is present must be the transaction's; an absent one passes.
Bound(cookie, x) == cookie \in {None, x}

ConsumeTransaction(h) ==
  /\ Calls(h, "consume")
  /\ LET x == About(h).about
     IN  /\ transactions' = IF Consumable(x) THEN Close(transactions, x) ELSE transactions
         /\ IF Consumable(x) /\ Bound(Argument(h).bound, x)
            THEN Continue(h, Rest(h)) /\ UNCHANGED browser
            ELSE Answer(h, None)
  /\ UNCHANGED <<operators, sessions, markers, authenticated, signedOut>>

\* Mutant: whoever authenticated is taken for the operator of the session.
SameSubject_Anyone(r) == TRUE

SameSubject(r) == r.subject = sessions[transactions[r.about].session].operator

ReauthIsFresh(claims) == claims.fresh

\* The code is exchanged and the token verified, which may fail.  A step-up
\* then needs the bound operator, authenticated since the step-up began.
ExchangeCode(h) ==
  /\ Calls(h, "exchange")
  /\ \/ /\ About(h).kind = "login"
        /\ Continue(h, <<Step("lookUp")>>) /\ UNCHANGED browser
     \/ /\ About(h).kind = "stepUp" /\ SameSubject(About(h)) /\ ReauthIsFresh(Argument(h))
        /\ Continue(h, <<Step("recordStepUp")>>) /\ UNCHANGED browser
     \/ Answer(h, None)
  /\ UNCHANGED <<store, authenticated, signedOut>>

\* recordStepUp: the upsert touches the step-up columns alone.
Marked(m) == [m EXCEPT !.stepUp = TRUE]

RecordStepUp(h) ==
  /\ Calls(h, "recordStepUp")
  /\ markers' = [markers EXCEPT ![transactions[About(h).about].session] = Marked(@)]
  /\ Answer(h, None)
  /\ UNCHANGED <<operators, transactions, sessions, authenticated, signedOut>>

\* findByCognitoSub and isPendingFirstMfaLogin.
LookUpOperator(h) ==
  /\ Calls(h, "lookUp")
  /\ CASE operators[About(h).subject] = "active" ->
            Continue(h, <<Step("createSession")>>) /\ UNCHANGED browser
       [] operators[About(h).subject] = "pending" ->
            Continue(h, <<Step("activate")>>) /\ UNCHANGED browser
       [] OTHER -> Answer(h, None)
  /\ UNCHANGED <<store, authenticated, signedOut>>

\* Mutant: the reason of the disablement is not looked at.
MayActivate_Disabled(o) == operators[o] # "active"

\* UPDATE ... WHERE status = 'disabled' AND mfa_enrolled = false AND disabled_reason = $2
MayActivate(o) == operators[o] = "pending"

\* activatePendingOperator; when it changed nothing the record that was read
\* before, a disabled one, decides.
ActivatePending(h) ==
  /\ Calls(h, "activate")
  /\ LET o == About(h).subject
     IN  IF MayActivate(o)
         THEN /\ operators' = [operators EXCEPT ![o] = "active"]
              /\ Continue(h, <<Step("createSession")>>)
              /\ UNCHANGED browser
         ELSE Answer(h, None) /\ UNCHANGED operators
  /\ UNCHANGED <<transactions, sessions, markers, authenticated, signedOut>>

\* The audit of the login may fail after the row is written.
CreateSession(h) ==
  /\ Calls(h, "createSession")
  /\ \E s \in Unused(sessions) :
       /\ sessions' = [sessions EXCEPT ![s] = [operator |-> About(h).subject,
                                               login |-> About(h).about, open |-> TRUE]]
       /\ Answer(h, s) \/ Throws(h, None)
  /\ UNCHANGED <<operators, transactions, markers, authenticated, signedOut>>
--------------------------------------------------------------------------------
Init ==
  /\ operators = [o \in Operators |-> "pending"]
  /\ transactions = [x \in Transactions |-> None]
  /\ sessions = [s \in Sessions |-> None]
  /\ markers = [s \in Sessions |-> Unmarked]
  /\ jar = [session |-> None, login |-> None, stepUp |-> None]
  /\ tabs = [t \in Tabs |-> Loading]
  /\ authenticated = {}
  /\ signedOut = {}
  /\ proc = [h \in Handlers |-> Idle]

Request(h) ==
  \/ FindSession(h) \/ CheckMarker(h) \/ CheckStepUp(h)
  \/ Run(h) \/ AnswerWhoami(h) \/ RevokeSession(h) \/ RevokeMarker(h) \/ CreateStepUp(h)
  \/ ConsumeTransaction(h) \/ ExchangeCode(h) \/ RecordStepUp(h) \/ LookUpOperator(h)
  \/ ActivatePending(h) \/ CreateSession(h) \/ Abandon(h)

Tab(h, t) ==
  Refresh(h, t) \/ SendCommand(h, t) \/ StepUp(h, t) \/ SignOut(h, t) \/ ProviderAnswers(h, t)

Next ==
  \/ \E h \in Handlers : Request(h) \/ \E t \in Tabs : Tab(h, t)
  \/ \E t \in Tabs : ShowSignIn(t) \/ Reload(t) \/ SignIn(t) \/ CognitoLogout(t)
  \/ \E o \in Operators : DisableOperator(o)
  \/ Expire

Spec == Init /\ [][Next]_vars
--------------------------------------------------------------------------------
(* Two tabs of a browser may show two operators while it holds the cookie  *)
(* of one: whatever was opened and closed in between, a command runs as    *)
(* the operator its own tab shows.                                         *)
CommandRunsAsShown ==
  \A h \in Handlers : Calls(h, "run") =>
    sessions[About(h).cookie].operator = sessions[About(h).csrf].operator

(* A session that counts as stepped up was so because its own operator     *)
(* gave credentials again after a step-up of that very session began,      *)
(* whoever else signed on in the other tab or at the provider meanwhile.   *)
StepUpIsProven ==
  \A s \in Sessions : markers[s].stepUp =>
    \E x \in Transactions :
      /\ transactions[x] # None /\ transactions[x].session = s
      /\ <<sessions[s].operator, x>> \in authenticated

(* However often its callback is called, a login opens one session.        *)
OneSessionPerLogin ==
  \A s, r \in Sessions :
    (sessions[s] # None /\ sessions[r] # None /\ sessions[s].login = sessions[r].login) => s = r

(* An operator disabled for cause, at whatever moment of a login, is not   *)
(* made active by it.                                                      *)
DisabledStays ==
  [][\A o \in Operators : operators[o] = "disabled" => operators'[o] = "disabled"]_operators

Unchecked(h) == Calls(h, "session") \/ Calls(h, "marker")

(* Once a logout has answered, no request of that session still on its way *)
(* through the checks is let in, a step-up recorded afterwards or not.     *)
SignedOutIsOut ==
  [][\A h \in Handlers :
       (Unchecked(h) /\ About(h).cookie \in signedOut) => (~Busy(h)' \/ Unchecked(h)')]_vars
===============================================================================
