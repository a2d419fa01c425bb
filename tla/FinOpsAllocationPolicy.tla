------------------------ MODULE FinOpsAllocationPolicy ------------------------
(***************************************************************************)
(* The FinOps allocation policy: immutable versions, one of them active,   *)
(* replaced under an idempotency key, and the rules of the active one      *)
(* applied to the platform's cost facts (finOpsAllocationPolicy.ts).       *)
(*                                                                         *)
(* A version is known by the key of the operation that wrote it.  The      *)
(* transaction is its read, at READ COMMITTED, and its commit: between     *)
(* them others may commit, and the row locks order the writes.             *)
(***************************************************************************)
EXTENDS Integers, RequestHandlers, OperationLifecycle

CONSTANTS
  Keys,         \* idempotency keys
  RuleIds, Sources, Providers,  \* what rules and facts are told apart by
  RuleSets,     \* the rules requests ask for: sequences of rules
  Facts,        \* cost facts: source, provider, amount
  AnyProvider,  \* a match field that is not given
  NoVersion     \* the absence of a version

VARIABLES
  policies,     \* finops_allocation_policies
  replacements  \* the ledger's status per key

policyVars == <<policies, replacements, proc>>

PolicyRows ==
  [rules : RuleSets, status : {"active", "superseded"}, supersedes : Keys \cup {NoVersion}]

\* An allocation is known by its percentage; there are seven match fields, of
\* which two stand for all.
Rules ==
  [id : RuleIds, source : Sources, provider : Providers \cup {AnyProvider}, allocations : Seq(Int)]

\* An amount is one of money spent, or of a credit.
CostFacts == [source : Sources, provider : Providers, amount : Int]

ASSUME PolicyAssumption ==
  /\ NoVersion \notin PolicyRows \cup Keys
  /\ \A rules \in RuleSets : rules \in Seq(Rules)
  /\ \A fact \in Facts : fact \in CostFacts

(***************************************************************************)
(* The rules                                                               *)
(***************************************************************************)
\* What a loop, or reduce, over numbers has added up after n of them.
PartialSums(s) ==
  LET sum[n \in 0..Len(s)] == IF n = 0 THEN 0 ELSE sum[n - 1] + s[n] IN sum

Total(s) == PartialSums(s)[Len(s)]

\* Mutant: the targets of a rule are looked at one by one.
IsValid_NoTotal(rules) ==
  /\ \A i, j \in DOMAIN rules : i # j => rules[i].id # rules[j].id
  /\ \A i \in DOMAIN rules :
       LET allocations == rules[i].allocations
       IN  /\ Len(allocations) \in 1..20
           /\ \A t \in DOMAIN allocations : allocations[t] \in 1..100

\* validateFinOpsAllocationRules
IsValid(rules) ==
  /\ Len(rules) <= 100
  /\ \A i, j \in DOMAIN rules : i # j => rules[i].id # rules[j].id
  /\ \A i \in DOMAIN rules :
       LET allocations == rules[i].allocations
       IN  /\ Len(allocations) \in 1..20
           /\ \A t \in DOMAIN allocations : allocations[t] \in 1..100
           /\ Total(allocations) <= 100

MatchesFact(rule, fact) == rule.source = fact.source /\ rule.provider \in {AnyProvider, fact.provider}

\* The percentages of the first rule that matches a fact.
PercentagesFor(rules, fact) ==
  LET hits == {i \in DOMAIN rules : MatchesFact(rules[i], fact)}
  IN  IF hits = {} THEN <<>> ELSE rules[CHOOSE i \in hits : \A j \in hits : i <= j].allocations

\* applyFinOpsAllocation, in hundredths of the unit of the fact's amount: what
\* each target is allocated, and the rest.
Allocated(rules, fact) ==
  LET percentages == PercentagesFor(rules, fact)
  IN  [t \in DOMAIN percentages |-> fact.amount * percentages[t]]

Unallocated(rules, fact) ==
  LET rest == 100 - Total(PercentagesFor(rules, fact))
  IN  fact.amount * (IF rest > 0 THEN rest ELSE 0)

(***************************************************************************)
(* Replacing the policy                                                    *)
(***************************************************************************)
Record(to) == [call |-> "ledger", to |-> to]
ReadActive(rules) == [call |-> "read", rules |-> rules]
Commit(rules, prior) == [call |-> "commit", rules |-> rules, prior |-> prior]

PolicyCalls ==
  {Record(to) : to \in OperationStatuses} \cup {ReadActive(rules) : rules \in RuleSets}
    \cup {Commit(rules, prior) : rules \in RuleSets, prior \in Keys \cup {NoVersion}}

PolicyTypeOK ==
  /\ policies \in [Keys -> PolicyRows \cup {NoVersion}]
  /\ replacements \in [Keys -> OperationStatuses \cup {"none"}]
  /\ HandlersOK(Keys, PolicyCalls)

PolicyInit ==
  /\ policies = [k \in Keys |-> NoVersion]
  /\ replacements = [k \in Keys |-> "none"]
  /\ proc = [h \in Handlers |-> Idle]

IsActive(k) == policies[k] # NoVersion /\ policies[k].status = "active"

ActiveVersion == IF \E k \in Keys : IsActive(k) THEN CHOOSE k \in Keys : IsActive(k) ELSE NoVersion

\* replaceFinOpsAllocationPolicy.  A request under a key that has an operation
\* is a replay, which answers with the policy active now and changes nothing.
Replace(h, k) ==
  /\ ~Busy(h)
  /\ replacements[k] = "none"
  /\ \E rules \in RuleSets :
       /\ IsValid(rules)
       /\ Begin(h, k, <<Record("accepted"), Record("running"), ReadActive(rules)>>)
  /\ replacements' = [replacements EXCEPT ![k] = "submitted"]
  /\ UNCHANGED policies

RecordStatus(h) ==
  /\ Calls(h, "ledger")
  /\ LET k == About(h)
         to == Argument(h).to
     IN  IF IsValidTransition(replacements[k], to)
           THEN replacements' = [replacements EXCEPT ![k] = to] /\ Continue(h, Rest(h))
           ELSE Stop(h) /\ UNCHANGED replacements
  /\ UNCHANGED policies

\* The completing transition fails, with or without effect, and the catch
\* block records the operation as failed.
CompletionFails(h) ==
  /\ Calls(h, "ledger")
  /\ Argument(h).to = "completed"
  /\ replacements' \in {replacements, [replacements EXCEPT ![About(h)] = "completed"]}
  /\ Continue(h, <<Record("failed")>>)
  /\ UNCHANGED policies

BeginReplace(h) ==
  /\ Calls(h, "read")
  /\ Continue(h, <<Commit(Argument(h).rules, ActiveVersion)>>)
  /\ UNCHANGED <<policies, replacements>>

\* The table after the UPDATE of the prior version and the INSERT of k's.
Replaced(k, rules, prior) ==
  [l \in Keys |->
     CASE l = k -> [rules |-> rules, status |-> "active", supersedes |-> prior]
       [] l = prior -> [policies[l] EXCEPT !.status = "superseded"]
       [] OTHER -> policies[l]]

\* Mutant: the table has no unique index on its active row.
IndexAllows_Always(prior) == TRUE

\* The partial unique index: no row other than the prior one is active.
IndexAllows(prior) == ActiveVersion \in {prior, NoVersion}

\* The transaction commits; its caller may be told of an error all the same.
CommitReplace(h) ==
  /\ Calls(h, "commit")
  /\ IndexAllows(Argument(h).prior)
  /\ policies' = Replaced(About(h), Argument(h).rules, Argument(h).prior)
  /\ \E to \in {"completed", "failed"} : Continue(h, <<Record(to)>>)
  /\ UNCHANGED replacements

\* The index refuses the INSERT, or the transaction fails otherwise.
ReplaceFails(h) ==
  /\ Calls(h, "commit")
  /\ Continue(h, <<Record("failed")>>)
  /\ UNCHANGED <<policies, replacements>>

AbandonReplace(h) ==
  /\ Busy(h)
  /\ Stop(h)
  /\ UNCHANGED <<policies, replacements>>

\* Reconciliation fails what is stranded before it ran; a running operation
\* has no receipt and waits for an operator.
SweepReplacement(k) ==
  /\ replacements[k] \in {"submitted", "accepted"}
  /\ ~AtWork(k)
  /\ replacements' = [replacements EXCEPT ![k] = "failed"]
  /\ UNCHANGED <<policies, proc>>

PolicyNext ==
  \/ \E h \in Handlers :
       \/ \E k \in Keys : Replace(h, k)
       \/ RecordStatus(h) \/ CompletionFails(h) \/ BeginReplace(h)
       \/ CommitReplace(h) \/ ReplaceFails(h) \/ AbandonReplace(h)
  \/ \E k \in Keys : SweepReplacement(k)

PolicySpec == PolicyInit /\ [][PolicyNext]_policyVars

(***************************************************************************)
(* Properties                                                              *)
(***************************************************************************)
\* However replacements race and fail, the versions are one chain that ends in
\* the only active one, and a completed operation has its version in it ("Each
\* replace creates a new immutable policy_version and supersedes the prior
\* active version in one transaction", 0017_finops_allocation_policies.sql).
PolicyChain ==
  /\ \A k, l \in Keys : IsActive(k) /\ IsActive(l) => k = l
  /\ \A k \in Keys :
       policies[k] # NoVersion /\ ~IsActive(k) =>
         \E l \in Keys : policies[l] # NoVersion /\ policies[l].supersedes = k
  /\ \A k, l \in Keys :
       policies[k] # NoVersion /\ policies[l] # NoVersion
         /\ policies[k].supersedes = policies[l].supersedes => k = l
  /\ \A k \in Keys : replacements[k] = "completed" => policies[k] # NoVersion

\* Whatever policy a cost report is made with, every fact's amount is allocated
\* or left unallocated, never twice (validateFinOpsAllocationRules and
\* applyFinOpsAllocation, "any unmatched fraction remains shared/unallocated").
CostIsConserved ==
  \A k \in Keys : policies[k] # NoVersion =>
    \A fact \in Facts :
      Total(Allocated(policies[k].rules, fact)) + Unallocated(policies[k].rules, fact)
        = 100 * fact.amount
===============================================================================
