-------------------------- MODULE OperationRegistry ---------------------------
(***************************************************************************)
(* What the management ledger promises to the code built on it, with the   *)
(* database, the transactions, the releases and the crashes left out: an   *)
(* idempotency key is bound at most once, for ever to one payload, and the *)
(* recorded history of its operation only grows, one lifecycle edge at a   *)
(* time.  ManagementOperationLedger is shown to implement it.              *)
(***************************************************************************)
EXTENDS Sequences, OperationLifecycle

CONSTANTS Keys,    \* idempotency keys
          Hashes,  \* canonical payload hashes
          Unbound  \* the entry of a key no operation holds

VARIABLE registry

Init == registry = [k \in Keys |-> Unbound]

Bind(k, x) ==
  /\ registry[k] = Unbound
  /\ registry' = [registry EXCEPT ![k] = [hash |-> x, history |-> <<"submitted">>]]

Advance(k, status) ==
  /\ registry[k] # Unbound
  /\ LET history == registry[k].history
     IN  /\ IsValidTransition(history[Len(history)], status)
         /\ registry' = [registry EXCEPT ![k].history = Append(history, status)]

Next ==
  \E k \in Keys :
    \/ \E x \in Hashes : Bind(k, x)
    \/ \E status \in OperationStatuses : Advance(k, status)

Spec == Init /\ [][Next]_registry
===============================================================================
