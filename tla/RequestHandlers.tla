---------------------------- MODULE RequestHandlers ----------------------------
(***************************************************************************)
(* Requests at work.  A handler is a sequence of awaited calls; between    *)
(* two of them other requests run, and the first call that throws, or a    *)
(* crash of the process, ends it with the rest undone.  "todo" is the      *)
(* calls still to make, each a record whose "call" field names it, and     *)
(* "about" is what the request is about.                                   *)
(***************************************************************************)
EXTENDS Sequences

CONSTANT Handlers  \* the requests that may be at work at once

VARIABLE proc  \* the requests at work, by handler

Idle == [todo |-> <<>>]

Busy(h) == proc[h] # Idle

Calls(h, call) == Busy(h) /\ Head(proc[h].todo).call = call

Argument(h) == Head(proc[h].todo)

About(h) == proc[h].about

Rest(h) == Tail(proc[h].todo)

Begin(h, about, todo) == proc' = [proc EXCEPT ![h] = [todo |-> todo, about |-> about]]

\* The request has thrown, or answered.
Stop(h) == proc' = [proc EXCEPT ![h] = Idle]

\* The request goes on with these calls; it answers when none is left.
Continue(h, todo) == IF todo = <<>> THEN Stop(h) ELSE Begin(h, About(h), todo)

\* Whether a request about x is at work.
AtWork(x) == \E h \in DOMAIN proc : Busy(h) /\ About(h) = x

HandlersOK(Subjects, Calls_) ==
  /\ DOMAIN proc = Handlers
  /\ \A h \in Handlers :
       Busy(h) =>
         /\ About(h) \in Subjects
         /\ proc[h].todo # <<>>
         /\ \A i \in DOMAIN proc[h].todo : proc[h].todo[i] \in Calls_
===============================================================================
