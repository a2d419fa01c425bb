-------------------------- MODULE ConfigurationProofs --------------------------
(***************************************************************************)
(* What is true of the configuration Governance keeps and restores, for    *)
(* every value of the constants: the allocation policy of the cost report, *)
(* and the restore of the owner's global configuration.  The two are       *)
(* specifications of their own, proved about one after the other.          *)
(*                                                                         *)
(* The chain of policies is kept by what a commit has read: the version it *)
(* supersedes is a version, its own is none, and nobody else works under   *)
(* its key.  That costs are conserved rests on what the loops of the cost  *)
(* report add up to; it is shown on a least counterexample.                *)
(*                                                                         *)
(* An approval of a restore is executed once, so its execution is one      *)
(* request, and what that request still has to do says how far ledger,     *)
(* row and owner are.                                                      *)
(***************************************************************************)
EXTENDS FinOpsAllocationPolicy, GlobalConfigRestore, RequestHandlersProofs, WellFoundedInduction

(***************************************************************************)
(* The sums of the cost report                                             *)
(***************************************************************************)
\* A set of naturals that is not empty has a least member.
LEMMA LeastNumber ==
  ASSUME NEW T \in SUBSET Nat, T # {}
  PROVE  \E n \in T : \A m \in T : n <= m
<1>1. PICK n \in T : \A m \in T : <<m, n>> \notin OpToRel(<, Nat)
  BY NatLessThanWellFounded, WFMin, Zenon
<1>2. \A m \in T : ~(m < n)
  BY <1>1 DEF OpToRel
<1> QED
  BY <1>2

\* There are numbers that add up as the loop does.
LEMMA SumsExist ==
  ASSUME NEW s \in Seq(Int), NEW n \in 0..Len(s)
  PROVE  \E f \in [0..n -> Int] : f = [m \in 0..n |-> IF m = 0 THEN 0 ELSE f[m - 1] + s[m]]
<1> DEFINE Adds(f, m) == f = [l \in 0..m |-> IF l = 0 THEN 0 ELSE f[l - 1] + s[l]]
           Missing == {m \in 0..Len(s) : ~\E f \in [0..m -> Int] : Adds(f, m)}
<1> SUFFICES ASSUME Missing # {}
             PROVE  FALSE
  OBVIOUS
<1>1. Len(s) \in Nat /\ \A m \in 1..Len(s) : s[m] \in Int
  OBVIOUS
<1> HIDE DEF Missing
<1>2. Missing \subseteq Nat
  BY <1>1 DEF Missing
<1>3. PICK least \in Missing : \A m \in Missing : least <= m
  BY <1>2, LeastNumber
<1>4. least \in 0..Len(s) /\ least \in Nat
  BY <1>1, <1>3 DEF Missing
<1>5. CASE least = 0
  <2>1. [l \in 0..0 |-> 0] \in [0..0 -> Int] /\ Adds([l \in 0..0 |-> 0], 0)
    OBVIOUS
  <2> QED
    BY <1>3, <1>5, <2>1 DEF Missing
<1>6. CASE least # 0
  <2>1. least - 1 \in 0..Len(s) /\ least - 1 \notin Missing
    BY <1>1, <1>3, <1>4, <1>6
  <2>2. PICK f \in [0..(least - 1) -> Int] : Adds(f, least - 1)
    BY <2>1 DEF Missing
  <2> DEFINE g == [l \in 0..least |-> IF l = least THEN f[least - 1] + s[least] ELSE f[l]]
  <2>3. g \in [0..least -> Int]
    BY <1>1, <1>4, <1>6
  <2>4. \A l \in 0..least : g[l] = IF l = 0 THEN 0 ELSE g[l - 1] + s[l]
    <3>1. ASSUME NEW l \in 0..least, l # least
          PROVE  g[l] = IF l = 0 THEN 0 ELSE g[l - 1] + s[l]
      <4>1. l \in 0..(least - 1) /\ g[l] = f[l]
        BY <1>4, <3>1
      <4>2. f[l] = IF l = 0 THEN 0 ELSE f[l - 1] + s[l]
        BY <2>2, <4>1
      <4>3. l # 0 => l - 1 \in 0..least /\ l - 1 # least /\ g[l - 1] = f[l - 1]
        BY <1>4, <4>1
      <4> HIDE DEF g
      <4> QED
        BY <4>1, <4>2, <4>3
    <3>2. g[least] = g[least - 1] + s[least]
      BY <1>4, <1>6
    <3> HIDE DEF g
    <3> QED
      BY <1>6, <3>1, <3>2
  <2>5. Adds(g, least)
    <3> HIDE DEF g
    <3> QED
      BY <2>3, <2>4
  <2> QED
    BY <1>3, <2>3, <2>5 DEF Missing
<1> QED
  BY <1>5, <1>6

LEMMA PartialSumsOK ==
  ASSUME NEW s \in Seq(Int)
  PROVE  /\ PartialSums(s) \in [0..Len(s) -> Int]
         /\ PartialSums(s)[0] = 0
         /\ \A n \in 1..Len(s) : PartialSums(s)[n] = PartialSums(s)[n - 1] + s[n]
         /\ Total(s) \in Int
<1> DEFINE Adds(f) == f = [n \in 0..Len(s) |-> IF n = 0 THEN 0 ELSE f[n - 1] + s[n]]
<1>1. Len(s) \in Nat
  OBVIOUS
<1>2. \E f \in [0..Len(s) -> Int] : Adds(f)
  <2>1. Len(s) \in 0..Len(s)
    BY <1>1
  <2> QED
    BY <2>1, SumsExist, Zenon
<1>3. PartialSums(s) = CHOOSE f : Adds(f)
  BY DEF PartialSums
<1>4. Adds(PartialSums(s))
  BY <1>2, <1>3
<1>5. \A n \in 0..Len(s) :
        PartialSums(s)[n] = IF n = 0 THEN 0 ELSE PartialSums(s)[n - 1] + s[n]
  BY <1>4
<1>6. \A n \in 0..Len(s) : PartialSums(s)[n] \in Int
  <2> DEFINE Missing == {n \in 0..Len(s) : PartialSums(s)[n] \notin Int}
  <2> SUFFICES ASSUME Missing # {} PROVE FALSE
    OBVIOUS
  <2> HIDE DEF Missing
  <2> Missing \subseteq Nat
    BY <1>1 DEF Missing
  <2>1. PICK least \in Missing : \A m \in Missing : least <= m
    BY LeastNumber
  <2>2. least \in 0..Len(s) /\ PartialSums(s)[least] \notin Int /\ least # 0
    BY <1>1, <1>5, <2>1 DEF Missing
  <2>3. least - 1 \in 0..Len(s) /\ least - 1 \notin Missing
    BY <1>1, <2>1, <2>2
  <2>4. PartialSums(s)[least - 1] \in Int /\ s[least] \in Int
    BY <1>1, <2>2, <2>3 DEF Missing
  <2> QED
    BY <1>5, <2>2, <2>4
<1>7. PartialSums(s) \in [0..Len(s) -> Int]
  BY <1>4, <1>6
<1> QED
  BY <1>1, <1>5, <1>7 DEF Total

\* What is handed out of an amount is the amount times the sum of the shares.
LEMMA TotalOfShares ==
  ASSUME NEW s \in Seq(Int), NEW amount \in Int
  PROVE  Total([t \in DOMAIN s |-> amount * s[t]]) = amount * Total(s)
<1> DEFINE r == [t \in DOMAIN s |-> amount * s[t]]
<1>1. r \in Seq(Int) /\ Len(r) = Len(s) /\ Len(s) \in Nat
  OBVIOUS
<1>2. \A n \in 1..Len(s) : r[n] = amount * s[n] /\ s[n] \in Int
  OBVIOUS
<1> DEFINE Wrong == {n \in 0..Len(s) : PartialSums(r)[n] # amount * PartialSums(s)[n]}
<1> HIDE DEF r, Wrong
<1>3. Wrong = {}
  <2> SUFFICES ASSUME Wrong # {} PROVE FALSE
    OBVIOUS
  <2> Wrong \subseteq Nat
    BY <1>1 DEF Wrong
  <2>1. PICK least \in Wrong : \A m \in Wrong : least <= m
    BY LeastNumber
  <2>2. least \in 0..Len(s) /\ PartialSums(r)[least] # amount * PartialSums(s)[least]
    BY <2>1 DEF Wrong
  <2>3. least # 0
    BY <1>1, <2>2, PartialSumsOK
  <2>4. least - 1 \in 0..Len(s) /\ least - 1 \notin Wrong /\ least \in 1..Len(s)
    BY <1>1, <2>1, <2>2, <2>3
  <2>5. PartialSums(r)[least - 1] = amount * PartialSums(s)[least - 1]
    BY <2>4 DEF Wrong
  <2>6. /\ PartialSums(r)[least] = PartialSums(r)[least - 1] + r[least]
        /\ PartialSums(s)[least] = PartialSums(s)[least - 1] + s[least]
        /\ PartialSums(s)[least - 1] \in Int /\ s[least] \in Int
        /\ r[least] = amount * s[least]
    BY <1>1, <1>2, <2>4, PartialSumsOK
  <2>7. \A x, y \in Int : amount * (x + y) = amount * x + amount * y
    OBVIOUS
  <2> QED
    BY <2>2, <2>5, <2>6, <2>7
<1>4. PartialSums(r)[Len(s)] = amount * PartialSums(s)[Len(s)]
  BY <1>1, <1>3 DEF Wrong
<1> QED
  BY <1>1, <1>4 DEF Total, r

\* The percentages a fact is allocated by: those of one of the rules, or none.
LEMMA PercentagesForOK ==
  ASSUME NEW rules \in RuleSets, NEW fact \in Facts
  PROVE  \/ PercentagesFor(rules, fact) = <<>>
         \/ \E i \in DOMAIN rules : PercentagesFor(rules, fact) = rules[i].allocations
<1> DEFINE hits == {i \in DOMAIN rules : MatchesFact(rules[i], fact)}
<1>1. rules \in Seq(Rules) /\ hits \subseteq Nat
  BY PolicyAssumption
<1>2. CASE hits = {}
  BY <1>2 DEF PercentagesFor
<1>3. CASE hits # {}
  <2>1. \E i \in hits : \A j \in hits : i <= j
    BY <1>1, <1>3, LeastNumber
  <2>2. (CHOOSE i \in hits : \A j \in hits : i <= j) \in hits
    BY <2>1
  <2> QED
    BY <1>3, <2>2 DEF PercentagesFor
<1> QED
  BY <1>2, <1>3

\* A valid policy hands out every fact's amount, once.
LEMMA ValidRulesConserve ==
  ASSUME NEW rules \in RuleSets, IsValid(rules), NEW fact \in Facts
  PROVE  Total(Allocated(rules, fact)) + Unallocated(rules, fact) = 100 * fact.amount
<1> DEFINE percentages == PercentagesFor(rules, fact)
<1>1. percentages \in Seq(Int) /\ Total(percentages) <= 100
  <2>1. CASE percentages = <<>>
    <3>1. <<>> \in Seq(Int) /\ Len(<<>>) = 0
      OBVIOUS
    <3>2. Total(<<>>) = 0
      BY <3>1, PartialSumsOK DEF Total
    <3> QED
      BY <2>1, <3>1, <3>2
  <2>2. ASSUME NEW i \in DOMAIN rules, percentages = rules[i].allocations
        PROVE  percentages \in Seq(Int) /\ Total(percentages) <= 100
    <3>1. rules[i] \in Rules
      BY PolicyAssumption
    <3> QED
      BY <2>2, <3>1 DEF IsValid, Rules
  <2> QED
    BY <2>1, <2>2, PercentagesForOK
<1>2. fact.amount \in Int /\ Total(percentages) \in Int
  BY <1>1, PartialSumsOK, PolicyAssumption DEF CostFacts
<1>3. Total(Allocated(rules, fact)) = fact.amount * Total(percentages)
  BY <1>1, <1>2, TotalOfShares DEF Allocated
<1>4. Unallocated(rules, fact) = fact.amount * (100 - Total(percentages))
  <2>1. CASE Total(percentages) = 100
    BY <1>2, <2>1 DEF Unallocated
  <2>2. CASE Total(percentages) # 100
    <3>1. 100 - Total(percentages) > 0
      BY <1>1, <1>2, <2>2
    <3> QED
      BY <3>1 DEF Unallocated
  <2> QED
    BY <2>1, <2>2
<1> HIDE DEF percentages
<1>5. \A x, y \in Int : x * y + x * (100 - y) = 100 * x
  OBVIOUS
<1> QED
  BY <1>2, <1>3, <1>4, <1>5

(***************************************************************************)
(* The allocation policy                                                   *)
(***************************************************************************)
IsVersion(k) == policies[k] # NoVersion

\* A table is empty or has an active version, and what was superseded is not active.
TableOK ==
  /\ (\E k \in Keys : IsVersion(k)) => (\E k \in Keys : IsActive(k))
  /\ \A k \in Keys :
       IsVersion(k) /\ policies[k].supersedes # NoVersion =>
         /\ IsVersion(policies[k].supersedes)
         /\ ~IsActive(policies[k].supersedes)

\* The calls a replacement under key k can still have to make.
Preparing(todo) ==
  \E rules \in RuleSets :
    /\ IsValid(rules)
    /\ \/ todo = <<Record("accepted"), Record("running"), ReadActive(rules)>>
       \/ todo = <<Record("running"), ReadActive(rules)>>
       \/ todo = <<ReadActive(rules)>>

Committing(todo) ==
  \E rules \in RuleSets, prior \in Keys \cup {NoVersion} :
    /\ todo = <<Commit(rules, prior)>>
    /\ prior # NoVersion => IsVersion(prior)
    /\ IsValid(rules)

ReplacementOK(k, todo) ==
  /\ k \in Keys /\ replacements[k] # "none"
  /\ \/ Preparing(todo) /\ ~IsVersion(k)
     \/ Committing(todo) /\ ~IsVersion(k)
     \/ todo = <<Record("completed")>> /\ IsVersion(k)
     \/ todo = <<Record("failed")>>

ReplacementsOK ==
  /\ DOMAIN proc = Handlers
  /\ \A h \in Handlers : Busy(h) => ReplacementOK(About(h), proc[h].todo)
  /\ \A h, g \in Handlers : Busy(h) /\ Busy(g) /\ h # g => About(h) # About(g)

PolicyTyped ==
  /\ policies \in [Keys -> PolicyRows \cup {NoVersion}]
  /\ replacements \in [Keys -> OperationStatuses \cup {"none"}]

Versioned ==
  \A k \in Keys : replacements[k] = "none" => ~IsVersion(k)

VersionsValid == \A k \in Keys : IsVersion(k) => IsValid(policies[k].rules)

\* The inductive invariant.
PolicyIInv ==
  /\ PolicyTyped
  /\ ReplacementsOK
  /\ Versioned
  /\ TableOK
  /\ VersionsValid
  /\ PolicyChain

-----------------------------------------------------------------------------
LEMMA PolicyInitIInv == PolicyInit => PolicyIInv
  BY DEF PolicyInit, PolicyIInv, PolicyTyped, ReplacementsOK, Versioned, TableOK,
         VersionsValid, PolicyChain, IsVersion, IsActive, OperationStatuses, Busy

\* Calls are told apart by their names.
LEMMA PolicyCallNames ==
  /\ \A to : Record(to).call = "ledger" /\ Record(to).to = to
  /\ \A rules : ReadActive(rules).call = "read" /\ ReadActive(rules).rules = rules
  /\ \A rules, prior :
       /\ Commit(rules, prior).call = "commit" /\ Commit(rules, prior).rules = rules
       /\ Commit(rules, prior).prior = prior
  BY DEF Record, ReadActive, Commit

\* A step that writes no version: request h ends, or goes on with calls that
\* are right, and no operation is taken back.
LEMMA LedgerStep ==
  ASSUME PolicyIInv, NEW h \in Handlers, UNCHANGED policies,
         NEW k \in Keys, NEW status \in OperationStatuses,
         replacements' = replacements \/
           (replacements' = [replacements EXCEPT ![k] = status] /\ (status = "completed" => IsVersion(k))),
         replacements[k] # "none" \/ ~\E g \in Handlers \ {h} : Busy(g) /\ About(g) = k,
         Others(h),
         Busy(h)' =>
           /\ proc'[h].about = k /\ ReplacementOK(k, proc[h].todo)'
           /\ ~\E g \in Handlers \ {h} : Busy(g) /\ About(g) = k
  PROVE  PolicyIInv'
<1>1. PolicyTyped'
  BY DEF PolicyIInv, PolicyTyped
<1>2. TableOK'
  BY DEF PolicyIInv, TableOK, IsVersion, IsActive
<1>3. Versioned'
  BY DEF PolicyIInv, Versioned, PolicyTyped, IsVersion, OperationStatuses
<1>4. PolicyChain'
  BY DEF PolicyIInv, PolicyChain, PolicyTyped, IsVersion, IsActive
<1>5. \A g \in Handlers \ {h} : Busy(g)' => ReplacementOK(About(g), proc[g].todo)'
  BY DEF Others, PolicyIInv, PolicyTyped, ReplacementsOK, ReplacementOK, Busy, About, Committing, IsVersion,
         OperationStatuses
<1>6. ReplacementsOK'
  BY <1>5 DEF Others, PolicyIInv, ReplacementsOK, Busy, About
<1>7. VersionsValid'
  BY DEF PolicyIInv, VersionsValid, IsVersion
<1> QED
  BY <1>1, <1>2, <1>3, <1>4, <1>6, <1>7 DEF PolicyIInv

\* Nobody else works under the key of a request at work.
LEMMA Alone ==
  ASSUME PolicyIInv, NEW h \in Handlers, Busy(h)
  PROVE  /\ About(h) \in Keys /\ replacements[About(h)] # "none"
         /\ ReplacementOK(About(h), proc[h].todo)
         /\ ~\E g \in Handlers \ {h} : Busy(g) /\ About(g) = About(h)
  BY DEF PolicyIInv, ReplacementsOK, ReplacementOK

LEMMA ReplaceStep ==
  ASSUME PolicyIInv, NEW h \in Handlers, NEW k \in Keys, Replace(h, k)
  PROVE  PolicyIInv'
<1>1. PICK rules \in RuleSets :
        IsValid(rules) /\ Begin(h, k, <<Record("accepted"), Record("running"), ReadActive(rules)>>)
  BY DEF Replace
<1>2. /\ proc'[h].todo = <<Record("accepted"), Record("running"), ReadActive(rules)>>
      /\ proc'[h].about = k /\ Others(h)
  BY <1>1, BeginOK, ThreeCalls DEF PolicyIInv, ReplacementsOK
<1>3. replacements' = [replacements EXCEPT ![k] = "submitted"] /\ replacements'[k] # "none"
  BY DEF Replace, PolicyIInv, PolicyTyped
<1>4. ~\E g \in Handlers : Busy(g) /\ About(g) = k
  BY DEF Replace, PolicyIInv, ReplacementsOK, ReplacementOK
<1>5. ~IsVersion(k) /\ UNCHANGED policies
  BY DEF Replace, PolicyIInv, Versioned
<1>6. ReplacementOK(k, proc[h].todo)'
  BY <1>1, <1>2, <1>3, <1>5 DEF ReplacementOK, Preparing, IsVersion
<1> QED
  BY <1>2, <1>3, <1>4, <1>5, <1>6, LedgerStep DEF OperationStatuses

\* A request that ends takes nothing with it.
LEMMA StopStep ==
  ASSUME PolicyIInv, NEW h \in Handlers, Busy(h), Stop(h), UNCHANGED <<policies, replacements>>
  PROVE  PolicyIInv'
<1>1. PICK k \in Keys : k = About(h) /\ replacements[k] # "none"
  BY Alone
<1>2. ~Busy(h)' /\ Others(h)
  BY StopOK DEF PolicyIInv, ReplacementsOK, Busy
<1> QED
  BY <1>1, <1>2, LedgerStep DEF OperationStatuses

LEMMA RecordStatusStep ==
  ASSUME PolicyIInv, NEW h \in Handlers, RecordStatus(h)
  PROVE  PolicyIInv'
<1>1. PICK k \in Keys : /\ k = About(h) /\ replacements[k] # "none"
                        /\ ReplacementOK(k, proc[h].todo)
                        /\ ~\E g \in Handlers \ {h} : Busy(g) /\ About(g) = k
  BY Alone DEF RecordStatus, Calls
<1>2. PICK todo : todo = proc[h].todo
  OBVIOUS
<1>3. PICK to : to = Argument(h).to
  OBVIOUS
<1>4. CASE ~IsValidTransition(replacements[k], to)
  BY <1>1, <1>3, <1>4, StopStep DEF RecordStatus, Calls
<1>5. CASE IsValidTransition(replacements[k], to)
  <2>1. replacements' = [replacements EXCEPT ![k] = to] /\ Continue(h, Tail(todo)) /\ UNCHANGED policies
    BY <1>1, <1>2, <1>3, <1>5 DEF RecordStatus, Rest
  <2>2. to \in OperationStatuses
    BY <1>5 DEF IsValidTransition, AllowedTransitions, OperationStatuses
  <2>3. replacements'[k] # "none"
    BY <2>1, <2>2 DEF PolicyIInv, PolicyTyped, OperationStatuses
  <2>4. Head(todo).call = "ledger" /\ Head(todo).to = to
    BY <1>2, <1>3 DEF RecordStatus, Calls, Argument
  <2>5. Others(h) /\ IF Tail(todo) = <<>> THEN proc'[h] = Idle
                      ELSE proc'[h].todo = Tail(todo) /\ proc'[h].about = k /\ proc'[h] # Idle
    BY <1>1, <2>1, ContinueOK DEF PolicyIInv, ReplacementsOK, About
  <2>6. CASE Preparing(todo) /\ ~IsVersion(k)
    <3>1. PICK rules \in RuleSets :
            /\ IsValid(rules)
            /\ \/ todo = <<Record("accepted"), Record("running"), ReadActive(rules)>>
               \/ todo = <<Record("running"), ReadActive(rules)>>
               \/ todo = <<ReadActive(rules)>>
      BY <2>6 DEF Preparing
    <3>2. \/ to = "accepted" /\ Tail(todo) = <<Record("running"), ReadActive(rules)>>
          \/ to = "running" /\ Tail(todo) = <<ReadActive(rules)>>
      <4>1. CASE todo = <<Record("accepted"), Record("running"), ReadActive(rules)>>
        BY <2>4, <4>1, PolicyCallNames, ThreeCalls
      <4>2. CASE todo = <<Record("running"), ReadActive(rules)>>
        BY <2>4, <4>2, PolicyCallNames, TwoCalls
      <4>3. CASE todo = <<ReadActive(rules)>>
        BY <2>4, <4>3, PolicyCallNames, OneCall
      <4> QED
        BY <3>1, <4>1, <4>2, <4>3
    <3>3. Preparing(Tail(todo)) /\ Tail(todo) # <<>>
      BY <3>1, <3>2, OneCall, TwoCalls DEF Preparing
    <3>4. ReplacementOK(k, proc[h].todo)'
      BY <1>1, <2>1, <2>3, <2>5, <2>6, <3>3 DEF ReplacementOK, Preparing, IsVersion
    <3> QED
      BY <1>1, <2>1, <2>2, <2>5, <3>2, <3>3, <3>4, LedgerStep
  <2>7. CASE Committing(todo)
    BY <2>4, <2>7, PolicyCallNames, OneCall DEF Committing
  <2>8. CASE todo = <<Record("completed")>> /\ IsVersion(k)
    <3>1. Tail(todo) = <<>>
      BY <2>8, OneCall
    <3> QED
      BY <1>1, <2>1, <2>2, <2>5, <2>8, <3>1, LedgerStep DEF Busy
  <2>9. CASE todo = <<Record("failed")>>
    <3>1. Tail(todo) = <<>> /\ to = "failed"
      BY <2>4, <2>9, OneCall, PolicyCallNames
    <3> QED
      BY <1>1, <2>1, <2>2, <2>5, <3>1, LedgerStep DEF Busy
  <2> QED
    BY <1>1, <1>2, <2>6, <2>7, <2>8, <2>9 DEF ReplacementOK
<1> QED
  BY <1>4, <1>5

LEMMA CompletionFailsStep ==
  ASSUME PolicyIInv, NEW h \in Handlers, CompletionFails(h)
  PROVE  PolicyIInv'
<1>1. PICK k \in Keys : /\ k = About(h) /\ replacements[k] # "none"
                        /\ ReplacementOK(k, proc[h].todo)
                        /\ ~\E g \in Handlers \ {h} : Busy(g) /\ About(g) = k
  BY Alone DEF CompletionFails, Calls
<1>2. /\ proc'[h].todo = <<Record("failed")>> /\ proc'[h].about = k /\ Others(h)
  BY <1>1, ContinueOK, OneCall DEF CompletionFails, PolicyIInv, ReplacementsOK, About
<1>3. Head(proc[h].todo).call = "ledger" /\ Head(proc[h].todo).to = "completed"
  BY DEF CompletionFails, Calls, Argument
<1>4. IsVersion(k)
  <2>1. ~Preparing(proc[h].todo)
    BY <1>3, PolicyCallNames, OneCall, TwoCalls, ThreeCalls DEF Preparing
  <2>2. ~Committing(proc[h].todo)
    BY <1>3, PolicyCallNames, OneCall DEF Committing
  <2>3. proc[h].todo # <<Record("failed")>>
    BY <1>3, PolicyCallNames, OneCall
  <2> QED
    BY <1>1, <2>1, <2>2, <2>3 DEF ReplacementOK
<1>5. replacements'[k] # "none"
  BY <1>1 DEF CompletionFails, PolicyIInv, PolicyTyped
<1>6. ReplacementOK(k, proc[h].todo)'
  BY <1>1, <1>2, <1>5 DEF ReplacementOK
<1> QED
  BY <1>1, <1>2, <1>4, <1>6, LedgerStep DEF CompletionFails, OperationStatuses

LEMMA BeginReplaceStep ==
  ASSUME PolicyIInv, NEW h \in Handlers, BeginReplace(h)
  PROVE  PolicyIInv'
<1>1. PICK k \in Keys : /\ k = About(h) /\ replacements[k] # "none"
                        /\ ReplacementOK(k, proc[h].todo)
                        /\ ~\E g \in Handlers \ {h} : Busy(g) /\ About(g) = k
  BY Alone DEF BeginReplace, Calls
<1>2. PICK rules \in RuleSets :
        proc[h].todo = <<ReadActive(rules)>> /\ IsValid(rules) /\ ~IsVersion(k)
  BY <1>1, PolicyCallNames, OneCall, TwoCalls, ThreeCalls
  DEF BeginReplace, Calls, ReplacementOK, Preparing, Committing
<1>3. Argument(h).rules = rules
  BY <1>2, PolicyCallNames, OneCall DEF Argument
<1>4. PICK prior : prior = ActiveVersion
  OBVIOUS
<1>5. prior \in Keys \cup {NoVersion} /\ (prior # NoVersion => IsVersion(prior))
  BY <1>4 DEF ActiveVersion, IsActive, IsVersion
<1>6. proc'[h].todo = <<Commit(rules, prior)>> /\ proc'[h].about = k /\ Others(h)
  BY <1>1, <1>3, <1>4, ContinueOK, OneCall DEF BeginReplace, PolicyIInv, ReplacementsOK, About
<1>7. ReplacementOK(k, proc[h].todo)'
  BY <1>1, <1>2, <1>5, <1>6 DEF BeginReplace, ReplacementOK, Committing, IsVersion
<1> QED
  BY <1>1, <1>6, <1>7, LedgerStep DEF BeginReplace, OperationStatuses

LEMMA ReplaceFailsStep ==
  ASSUME PolicyIInv, NEW h \in Handlers, ReplaceFails(h)
  PROVE  PolicyIInv'
<1>1. PICK k \in Keys : /\ k = About(h) /\ replacements[k] # "none"
                        /\ ~\E g \in Handlers \ {h} : Busy(g) /\ About(g) = k
  BY Alone DEF ReplaceFails, Calls
<1>2. /\ proc'[h].todo = <<Record("failed")>> /\ proc'[h].about = k /\ Others(h)
  BY <1>1, ContinueOK, OneCall DEF ReplaceFails, PolicyIInv, ReplacementsOK, About
<1>3. ReplacementOK(k, proc[h].todo)'
  BY <1>1, <1>2 DEF ReplaceFails, ReplacementOK
<1> QED
  BY <1>1, <1>2, <1>3, LedgerStep DEF ReplaceFails, OperationStatuses

LEMMA SweepReplacementStep ==
  ASSUME PolicyIInv, NEW k \in Keys, SweepReplacement(k)
  PROVE  PolicyIInv'
<1>1. replacements' = [replacements EXCEPT ![k] = "failed"] /\ replacements[k] # "none"
        /\ UNCHANGED <<policies, proc>>
  BY DEF SweepReplacement
<1>2. PolicyTyped' /\ Versioned'
  BY <1>1 DEF PolicyIInv, PolicyTyped, Versioned, IsVersion, OperationStatuses
<1>3. TableOK' /\ PolicyChain'
  BY <1>1 DEF PolicyIInv, PolicyTyped, TableOK, PolicyChain, IsVersion, IsActive
<1>4. ReplacementsOK'
  BY <1>1 DEF PolicyIInv, PolicyTyped, ReplacementsOK, ReplacementOK, Busy, About, Committing, IsVersion
<1>5. VersionsValid'
  BY <1>1 DEF PolicyIInv, VersionsValid, IsVersion
<1> QED
  BY <1>2, <1>3, <1>4, <1>5 DEF PolicyIInv

\* The table after a commit: k's row is new, the prior one is superseded.
LEMMA ReplacedRows ==
  ASSUME PolicyIInv, NEW k \in Keys, NEW rules \in RuleSets, NEW prior \in Keys \cup {NoVersion}, k # prior,
         prior # NoVersion => IsVersion(prior), policies' = Replaced(k, rules, prior)
  PROVE  /\ policies' \in [Keys -> PolicyRows \cup {NoVersion}]
         /\ IsVersion(k)' /\ IsActive(k)' /\ policies'[k].supersedes = prior
         /\ policies'[k].rules = rules
         /\ prior # NoVersion =>
              /\ IsVersion(prior)' /\ ~IsActive(prior)'
              /\ policies'[prior].supersedes = policies[prior].supersedes
              /\ policies'[prior].rules = policies[prior].rules
         /\ \A l \in Keys \ {k, prior} : policies'[l] = policies[l]
<1> DEFINE row == [rules |-> rules, status |-> "active", supersedes |-> prior]
<1>1. /\ row \in PolicyRows /\ row # NoVersion /\ row.status = "active"
      /\ row.supersedes = prior /\ row.rules = rules
  BY PolicyAssumption DEF PolicyRows
<1>2. policies'[k] = row
  BY DEF Replaced
<1>3. \A l \in Keys \ {k, prior} : policies'[l] = policies[l]
  BY DEF Replaced
<1>4. prior # NoVersion =>
        /\ policies'[prior] \in PolicyRows /\ policies'[prior].status = "superseded"
        /\ policies'[prior].supersedes = policies[prior].supersedes
        /\ policies'[prior].rules = policies[prior].rules
  <2> SUFFICES ASSUME prior # NoVersion
               PROVE  /\ policies'[prior] \in PolicyRows
                      /\ policies'[prior].status = "superseded"
                      /\ policies'[prior].supersedes = policies[prior].supersedes
                      /\ policies'[prior].rules = policies[prior].rules
    OBVIOUS
  <2>1. policies'[prior] = [policies[prior] EXCEPT !.status = "superseded"]
    BY DEF Replaced
  <2>2. policies[prior] \in PolicyRows
    BY DEF PolicyIInv, PolicyTyped, IsVersion
  <2> QED
    BY <2>1, <2>2 DEF PolicyRows
<1>5. policies' \in [Keys -> PolicyRows \cup {NoVersion}]
  <2>1. policies' = [l \in Keys |-> policies'[l]]
    BY DEF Replaced
  <2> HIDE DEF row
  <2>2. \A l \in Keys : policies'[l] \in PolicyRows \cup {NoVersion}
    <3>1. \A l \in Keys : policies[l] \in PolicyRows \cup {NoVersion}
      BY DEF PolicyIInv, PolicyTyped
    <3> QED
      BY <1>1, <1>2, <1>3, <1>4, <3>1, PolicyAssumption
  <2> QED
    BY <2>1, <2>2
<1> QED
  BY <1>1, <1>2, <1>3, <1>4, <1>5, PolicyAssumption DEF IsVersion, IsActive

\* The index lets a commit through only when the version it read is still the
\* active one, or when there is none at all.
LEMMA PriorIsActive ==
  ASSUME PolicyIInv, NEW prior \in Keys \cup {NoVersion}, prior # NoVersion => IsVersion(prior),
         IndexAllows(prior)
  PROVE  IF prior = NoVersion THEN \A l \in Keys : ~IsVersion(l) ELSE IsActive(prior)
<1>1. CASE \E l \in Keys : IsActive(l)
  <2>1. ActiveVersion \in Keys /\ IsActive(ActiveVersion)
    <3>1. ActiveVersion = CHOOSE l \in Keys : IsActive(l)
      BY <1>1 DEF ActiveVersion
    <3> QED
      BY <1>1, <3>1
  <2> QED
    BY <2>1, PolicyAssumption DEF IndexAllows
<1>2. CASE ~\E l \in Keys : IsActive(l)
  BY <1>2 DEF PolicyIInv, TableOK
<1> QED
  BY <1>1, <1>2

LEMMA CommitReplaceStep ==
  ASSUME PolicyIInv, NEW h \in Handlers, CommitReplace(h)
  PROVE  PolicyIInv'
<1>1. PICK k \in Keys : /\ k = About(h) /\ replacements[k] # "none"
                        /\ ReplacementOK(k, proc[h].todo)
                        /\ ~\E g \in Handlers \ {h} : Busy(g) /\ About(g) = k
  BY Alone DEF CommitReplace, Calls
<1>2. PICK rules \in RuleSets, prior \in Keys \cup {NoVersion} :
        /\ proc[h].todo = <<Commit(rules, prior)>> /\ IsValid(rules) /\ ~IsVersion(k)
        /\ prior # NoVersion => IsVersion(prior)
  <2>1. Head(proc[h].todo).call = "commit"
    BY DEF CommitReplace, Calls
  <2>2. ~Preparing(proc[h].todo)
    BY <2>1, PolicyCallNames, OneCall, TwoCalls, ThreeCalls DEF Preparing
  <2>3. proc[h].todo # <<Record("completed")>> /\ proc[h].todo # <<Record("failed")>>
    BY <2>1, PolicyCallNames, OneCall
  <2> QED
    BY <1>1, <2>2, <2>3 DEF ReplacementOK, Committing
<1>3. Argument(h).rules = rules /\ Argument(h).prior = prior
  BY <1>2, PolicyCallNames, OneCall DEF Argument
<1>4. policies' = Replaced(k, rules, prior) /\ UNCHANGED replacements
  BY <1>1, <1>3 DEF CommitReplace
<1>5. IF prior = NoVersion THEN \A l \in Keys : ~IsVersion(l) ELSE IsActive(prior)
  BY <1>2, <1>3, PriorIsActive DEF CommitReplace
<1>6. k # prior /\ NoVersion \notin Keys
  BY <1>2, PolicyAssumption
<1>7. /\ policies' \in [Keys -> PolicyRows \cup {NoVersion}]
      /\ IsVersion(k)' /\ IsActive(k)' /\ policies'[k].supersedes = prior
      /\ policies'[k].rules = rules
      /\ prior # NoVersion =>
           /\ IsVersion(prior)' /\ ~IsActive(prior)'
           /\ policies'[prior].supersedes = policies[prior].supersedes
           /\ policies'[prior].rules = policies[prior].rules
      /\ \A l \in Keys \ {k, prior} : policies'[l] = policies[l]
  BY <1>2, <1>4, <1>6, ReplacedRows
<1>8. \A l \in Keys \ {k} :
        /\ IsVersion(l)' <=> IsVersion(l)
        /\ IsActive(l)' => FALSE
        /\ IsVersion(l) => policies'[l].supersedes = policies[l].supersedes
                            /\ policies'[l].rules = policies[l].rules
  BY <1>2, <1>5, <1>6, <1>7 DEF PolicyIInv, PolicyChain, IsVersion, IsActive
<1>9. PolicyTyped'
  BY <1>4, <1>7 DEF PolicyIInv, PolicyTyped
<1>10. Versioned'
  BY <1>1, <1>4, <1>8 DEF PolicyIInv, Versioned
<1>11. TableOK'
  <2>1. (\E l \in Keys : IsActive(l))'
    BY <1>7
  <2>2. (\A l \in Keys :
          IsVersion(l) /\ policies[l].supersedes # NoVersion =>
            /\ IsVersion(policies[l].supersedes)
            /\ ~IsActive(policies[l].supersedes))'
    <3> SUFFICES ASSUME NEW l \in Keys, IsVersion(l)', NEW prior2,
                        prior2 = policies'[l].supersedes, prior2 # NoVersion
                 PROVE  IsVersion(prior2)' /\ ~IsActive(prior2)'
      BY DEF IsVersion, IsActive
    <3>1. CASE l = k
      BY <1>7, <3>1
    <3>2. CASE l # k
      <4>1. IsVersion(l) /\ policies[l].supersedes = prior2
        BY <1>8, <3>2
      <4>2. IsVersion(prior2) /\ prior2 \in Keys
        BY <4>1 DEF PolicyIInv, TableOK, PolicyTyped, IsVersion, PolicyRows
      <4> QED
        BY <1>2, <1>8, <4>2
    <3> QED
      BY <3>1, <3>2
  <2> QED
    BY <2>1, <2>2 DEF TableOK
<1>12. PolicyChain'
  <2>1. (\A l, m \in Keys : IsActive(l) /\ IsActive(m) => l = m)'
    BY <1>8
  <2>2. (\A l \in Keys : policies[l] # NoVersion /\ ~IsActive(l) =>
           \E m \in Keys : policies[m] # NoVersion /\ policies[m].supersedes = l)'
    <3> SUFFICES ASSUME NEW l \in Keys, IsVersion(l)', ~IsActive(l)'
                 PROVE  \E m \in Keys : IsVersion(m)' /\ policies'[m].supersedes = l
      BY DEF IsVersion
    <3>1. l # k /\ IsVersion(l)
      BY <1>7, <1>8
    <3>2. CASE l = prior
      BY <1>7, <3>2
    <3>3. CASE l # prior
      <4>1. ~IsActive(l)
        BY <1>7, <3>1, <3>3 DEF IsActive
      <4>2. PICK m \in Keys : IsVersion(m) /\ policies[m].supersedes = l
        BY <3>1, <4>1 DEF PolicyIInv, PolicyChain, IsVersion
      <4>3. m # k
        BY <1>2, <4>2
      <4> QED
        BY <1>8, <4>2, <4>3
    <3> QED
      BY <3>2, <3>3
  <2>3. (\A l, m \in Keys :
           policies[l] # NoVersion /\ policies[m] # NoVersion
             /\ policies[l].supersedes = policies[m].supersedes => l = m)'
    <3>1. \A l \in Keys : IsVersion(l) => policies[l].supersedes # prior
      BY <1>5 DEF PolicyIInv, TableOK
    <3>2. \A l, m \in Keys \ {k} :
            IsVersion(l)' /\ IsVersion(m)' /\ policies'[l].supersedes = policies'[m].supersedes
              => l = m
      BY <1>8 DEF PolicyIInv, PolicyChain, IsVersion
    <3>3. \A l \in Keys \ {k} : IsVersion(l)' => policies'[l].supersedes # policies'[k].supersedes
      BY <1>7, <1>8, <3>1
    <3> QED
      BY <3>2, <3>3 DEF IsVersion
  <2>4. (\A l \in Keys : replacements[l] = "completed" => policies[l] # NoVersion)'
    BY <1>4, <1>7, <1>8 DEF PolicyIInv, PolicyChain, IsVersion
  <2> QED
    BY <2>1, <2>2, <2>3, <2>4 DEF PolicyChain
<1>13. ReplacementsOK'
  <2>1. PICK to \in {"completed", "failed"} : Continue(h, <<Record(to)>>)
    BY DEF CommitReplace
  <2>2. proc'[h].todo = <<Record(to)>> /\ proc'[h].about = k /\ Others(h)
    BY <1>1, <2>1, ContinueOK, OneCall DEF PolicyIInv, ReplacementsOK, About
  <2>3. ReplacementOK(k, proc[h].todo)'
    BY <1>1, <1>4, <1>7, <2>1, <2>2 DEF ReplacementOK
  <2>4. \A g \in Handlers \ {h} : Busy(g)' => ReplacementOK(About(g), proc[g].todo)'
    <3> SUFFICES ASSUME NEW g \in Handlers \ {h}, Busy(g)'
                 PROVE  ReplacementOK(About(g), proc[g].todo)'
      OBVIOUS
    <3>1. proc'[g] = proc[g] /\ Busy(g)
      BY <2>2 DEF Others, PolicyIInv, ReplacementsOK, Busy
    <3>2. PICK l, todo : l = About(g) /\ todo = proc[g].todo
      OBVIOUS
    <3>3. ReplacementOK(l, todo) /\ l # k
      BY <1>1, <3>1, <3>2 DEF PolicyIInv, ReplacementsOK
    <3>4. Committing(todo) => Committing(todo)'
      <4> SUFFICES ASSUME NEW rules2 \in RuleSets, NEW prior2 \in Keys \cup {NoVersion},
                          todo = <<Commit(rules2, prior2)>>, IsValid(rules2),
                          prior2 # NoVersion => IsVersion(prior2)
                   PROVE  Committing(todo)'
        BY DEF Committing
      <4>1. prior2 # NoVersion => IsVersion(prior2)'
        BY <1>2, <1>8
      <4> QED
        BY <4>1 DEF Committing
    <3>5. ReplacementOK(l, todo)'
      BY <1>4, <1>8, <3>3, <3>4 DEF ReplacementOK, Preparing
    <3> QED
      BY <3>1, <3>2, <3>5 DEF About
  <2> QED
    BY <1>1, <2>2, <2>3, <2>4 DEF Others, PolicyIInv, ReplacementsOK, Busy, About
<1>14. VersionsValid'
  BY <1>2, <1>7, <1>8 DEF PolicyIInv, VersionsValid
<1> QED
  BY <1>9, <1>10, <1>11, <1>12, <1>13, <1>14 DEF PolicyIInv

LEMMA PolicyNextIInv == PolicyIInv /\ [PolicyNext]_policyVars => PolicyIInv'
<1> SUFFICES ASSUME PolicyIInv, [PolicyNext]_policyVars
             PROVE  PolicyIInv'
  OBVIOUS
<1>1. ASSUME NEW h \in Handlers, AbandonReplace(h)
      PROVE  PolicyIInv'
  BY <1>1, StopStep DEF AbandonReplace
<1>2. CASE UNCHANGED policyVars
  BY <1>2 DEF policyVars, PolicyIInv, PolicyTyped, ReplacementsOK, ReplacementOK, Preparing, Committing, Versioned, TableOK,
              VersionsValid, PolicyChain, IsVersion, IsActive, Busy, About
<1> QED
  BY <1>1, <1>2, ReplaceStep, RecordStatusStep, CompletionFailsStep, BeginReplaceStep,
     CommitReplaceStep, ReplaceFailsStep, SweepReplacementStep DEF PolicyNext

\* However replacements race, are abandoned and fail, the policy versions are
\* one chain that ends in the only active one, and a completed operation has
\* its version in it (replaceFinOpsAllocationPolicy and the partial unique
\* index of migration 0017).
THEOREM PolicyIsChain == PolicySpec => []PolicyChain
<1>1. PolicyIInv => PolicyChain
  BY DEF PolicyIInv
<1> QED
  BY PolicyInitIInv, PolicyNextIInv, <1>1, PTL DEF PolicySpec

\* Whatever racing replacements have made active or superseded, a cost report
\* under it hands out every fact's amount once, charge or credit: the shares of
\* the targets and what is left unallocated add up to it (applyFinOpsAllocation
\* with rules that validateFinOpsAllocationRules let pass).
THEOREM CostAddsUp == PolicySpec => []CostIsConserved
<1>1. PolicyIInv => CostIsConserved
  <2> SUFFICES ASSUME PolicyIInv, NEW k \in Keys, IsVersion(k), NEW fact \in Facts
               PROVE  Total(Allocated(policies[k].rules, fact))
                        + Unallocated(policies[k].rules, fact) = 100 * fact.amount
    BY DEF CostIsConserved, IsVersion
  <2>1. policies[k].rules \in RuleSets
    BY DEF PolicyIInv, PolicyTyped, IsVersion, PolicyRows
  <2>2. IsValid(policies[k].rules)
    BY DEF PolicyIInv, VersionsValid
  <2> QED
    BY <2>1, <2>2, ValidRulesConserve
<1> QED
  BY PolicyInitIInv, PolicyNextIInv, <1>1, PTL DEF PolicySpec

\* The versions, the ledger and the replacements keep their types, for any sets
\* of keys, rules and facts: the calls a replacement can have left are of the
\* lists the invariant names.
THEOREM PolicyTypesHold == PolicySpec => []PolicyTypeOK
<1>1. ASSUME NEW k \in Keys, NEW todo, ReplacementOK(k, todo)
      PROVE  todo # <<>> /\ \A i \in DOMAIN todo : todo[i] \in PolicyCalls
  <2>1. /\ \A to \in OperationStatuses : Record(to) \in PolicyCalls
        /\ \A rules \in RuleSets : ReadActive(rules) \in PolicyCalls
        /\ \A rules \in RuleSets, prior \in Keys \cup {NoVersion} :
             Commit(rules, prior) \in PolicyCalls
    BY DEF PolicyCalls
  <2>2. {"accepted", "running", "completed", "failed"} \subseteq OperationStatuses
    BY DEF OperationStatuses
  <2>3. CASE Preparing(todo)
    <3>1. \E a, r, d \in PolicyCalls : todo \in {<<a, r, d>>, <<r, d>>, <<d>>}
      BY <2>1, <2>2, <2>3 DEF Preparing
    <3> QED
      BY <3>1
  <2>4. CASE Committing(todo)
    <3>1. PICK c \in PolicyCalls : todo = <<c>>
      BY <2>1, <2>4 DEF Committing
    <3> QED
      BY <3>1
  <2>5. CASE todo = <<Record("completed")>> \/ todo = <<Record("failed")>>
    <3>1. PICK c \in PolicyCalls : todo = <<c>>
      BY <2>1, <2>2, <2>5
    <3> QED
      BY <3>1
  <2> QED
    BY <1>1, <2>3, <2>4, <2>5 DEF ReplacementOK
<1>2. PolicyIInv => HandlersOK(Keys, PolicyCalls)
  BY <1>1 DEF PolicyIInv, ReplacementsOK, ReplacementOK, HandlersOK
<1>3. PolicyIInv => PolicyTypeOK
  BY <1>2 DEF PolicyIInv, PolicyTyped, PolicyTypeOK
<1> QED
  BY PolicyInitIInv, PolicyNextIInv, <1>3, PTL DEF PolicySpec

\* The status an operation has at each of the calls of its replacement; when a
\* failure is to be recorded it may be any.
StatusAt(k, todo) ==
  /\ Head(todo) = Record("accepted") => replacements[k] = "submitted"
  /\ Head(todo) = Record("running") => replacements[k] = "accepted"
  /\ Head(todo).call \in {"read", "commit"} \/ Head(todo) = Record("completed") =>
       replacements[k] = "running"

StatusesOK == \A h \in Handlers : Busy(h) => StatusAt(About(h), proc[h].todo)

\* A step of request h leaves the statuses of the others alone, and its own fits.
LEMMA StatusesStep ==
  ASSUME PolicyIInv, StatusesOK, NEW h \in Handlers, Others(h), NEW k \in Keys,
         \A l \in Keys \ {k} : replacements'[l] = replacements[l],
         UNCHANGED replacements \/ ~\E g \in Handlers \ {h} : Busy(g) /\ About(g) = k,
         Busy(h)' => proc'[h].about = k /\ StatusAt(k, proc[h].todo)'
  PROVE  StatusesOK'
<1> SUFFICES ASSUME NEW g \in Handlers, Busy(g)'
             PROVE  StatusAt(About(g), proc[g].todo)'
  BY DEF StatusesOK
<1>1. CASE g = h
  BY <1>1 DEF About
<1>2. CASE g # h
  <2>1. proc'[g] = proc[g] /\ Busy(g)
    BY <1>2 DEF Others, Busy, PolicyIInv, ReplacementsOK
  <2>2. About(g) \in Keys /\ StatusAt(About(g), proc[g].todo)
    BY <2>1 DEF StatusesOK, PolicyIInv, ReplacementsOK, ReplacementOK
  <2>3. replacements'[About(g)] = replacements[About(g)]
    BY <1>2, <2>1, <2>2
  <2> QED
    BY <2>1, <2>2, <2>3 DEF StatusAt, About
<1> QED
  BY <1>1, <1>2

\* A replacement whose status is to change, and what comes after.
LEMMA AtRecord ==
  ASSUME PolicyIInv, NEW h \in Handlers, Calls(h, "ledger")
  PROVE  \/ /\ Argument(h) = Record("accepted") /\ Rest(h) # <<>> /\ Head(Rest(h)) = Record("running")
         \/ /\ Argument(h) = Record("running") /\ Rest(h) # <<>> /\ Head(Rest(h)).call = "read"
         \/ Argument(h) \in {Record("completed"), Record("failed")} /\ Rest(h) = <<>>
<1>1. PICK k, todo : k = About(h) /\ todo = proc[h].todo
  OBVIOUS
<1>2. /\ ReplacementOK(k, todo) /\ Head(todo).call = "ledger"
      /\ Argument(h) = Head(todo) /\ Rest(h) = Tail(todo)
  BY <1>1, Alone DEF Calls, Argument, Rest
<1>3. ASSUME NEW rules, todo = <<Record("accepted"), Record("running"), ReadActive(rules)>>
      PROVE  Head(todo) = Record("accepted") /\ Tail(todo) # <<>> /\ Head(Tail(todo)) = Record("running")
  BY <1>3, ThreeCalls, TwoCalls
<1>4. ASSUME NEW rules, todo = <<Record("running"), ReadActive(rules)>>
      PROVE  Head(todo) = Record("running") /\ Tail(todo) # <<>> /\ Head(Tail(todo)).call = "read"
  BY <1>4, TwoCalls, OneCall, PolicyCallNames
<1>5. ASSUME NEW rules, todo = <<ReadActive(rules)>>
      PROVE  FALSE
  BY <1>2, <1>5, OneCall, PolicyCallNames
<1>6. ~Committing(todo)
  BY <1>2, OneCall, PolicyCallNames DEF Committing
<1>7. ASSUME NEW to \in {"completed", "failed"}, todo = <<Record(to)>>
      PROVE  Head(todo) = Record(to) /\ Tail(todo) = <<>>
  BY <1>7, OneCall
<1>8. CASE Preparing(todo)
  BY <1>2, <1>3, <1>4, <1>5, <1>8 DEF Preparing
<1>9. CASE todo = <<Record("completed")>> \/ todo = <<Record("failed")>>
  BY <1>2, <1>7, <1>9
<1> QED
  BY <1>2, <1>6, <1>8, <1>9 DEF ReplacementOK

LEMMA StatusesKept == PolicyIInv /\ StatusesOK /\ [PolicyNext]_policyVars => StatusesOK'
<1> SUFFICES ASSUME PolicyIInv, StatusesOK, [PolicyNext]_policyVars
             PROVE  StatusesOK'
  OBVIOUS
<1>0. /\ DOMAIN proc = Handlers /\ replacements \in [Keys -> OperationStatuses \cup {"none"}]
  BY DEF PolicyIInv, ReplacementsOK, PolicyTyped
<1>1. ASSUME NEW h \in Handlers, Busy(h), Stop(h), UNCHANGED replacements
      PROVE  StatusesOK'
  <2>1. ~Busy(h)' /\ Others(h)
    BY <1>0, <1>1, StopOK DEF Busy
  <2> QED
    BY <1>1, <2>1, Alone, StatusesStep
<1>2. ASSUME NEW h \in Handlers, NEW k \in Keys, Replace(h, k)
      PROVE  StatusesOK'
  <2>1. PICK rules \in RuleSets :
          Begin(h, k, <<Record("accepted"), Record("running"), ReadActive(rules)>>)
    BY <1>2 DEF Replace
  <2>2. PICK todo : todo = <<Record("accepted"), Record("running"), ReadActive(rules)>>
    OBVIOUS
  <2>3. todo # <<>> /\ Head(todo) = Record("accepted")
    BY <2>2, ThreeCalls
  <2>4. proc'[h].todo = todo /\ proc'[h].about = k /\ Others(h)
    BY <1>0, <2>1, <2>2, <2>3, BeginOK
  <2>5. replacements'[k] = "submitted" /\ \A l \in Keys \ {k} : replacements'[l] = replacements[l]
    BY <1>0, <1>2 DEF Replace
  <2>6. ~\E g \in Handlers : Busy(g) /\ About(g) = k
    BY <1>2 DEF Replace, PolicyIInv, ReplacementsOK, ReplacementOK
  <2>7. StatusAt(k, todo)'
    BY <2>3, <2>5, PolicyCallNames DEF StatusAt
  <2> QED
    BY <2>4, <2>5, <2>6, <2>7, StatusesStep
<1>3. ASSUME NEW h \in Handlers, RecordStatus(h)
      PROVE  StatusesOK'
  <2>1. PICK k \in Keys : /\ k = About(h)
                          /\ ~\E g \in Handlers \ {h} : Busy(g) /\ About(g) = k
    BY <1>3, Alone DEF RecordStatus, Calls
  <2>2. PICK to, todo : to = Argument(h).to /\ todo = Rest(h)
    OBVIOUS
  <2>3. CASE UNCHANGED replacements /\ Stop(h)
    BY <1>1, <1>3, <2>3 DEF RecordStatus, Calls
  <2>4. CASE replacements' = [replacements EXCEPT ![k] = to] /\ Continue(h, todo)
    <3>1. replacements'[k] = to /\ \A l \in Keys \ {k} : replacements'[l] = replacements[l]
      BY <1>0, <2>4
    <3>2. Others(h) /\ IF todo = <<>> THEN proc'[h] = Idle
                                      ELSE proc'[h].todo = todo /\ proc'[h].about = k
      BY <1>0, <2>1, <2>4, ContinueOK DEF About
    <3>3. todo # <<>> => StatusAt(k, todo)'
      BY <1>3, <2>2, <3>1, AtRecord, PolicyCallNames DEF StatusAt, RecordStatus
    <3> QED
      BY <2>1, <3>1, <3>2, <3>3, StatusesStep DEF Busy
  <2> QED
    BY <1>3, <2>1, <2>2, <2>3, <2>4 DEF RecordStatus
<1>4. ASSUME NEW h \in Handlers, CompletionFails(h) \/ ReplaceFails(h)
      PROVE  StatusesOK'
  <2>1. PICK k \in Keys : /\ k = About(h)
                          /\ ~\E g \in Handlers \ {h} : Busy(g) /\ About(g) = k
    BY <1>4, Alone DEF CompletionFails, ReplaceFails, Calls
  <2>2. \A l \in Keys \ {k} : replacements'[l] = replacements[l]
    BY <1>0, <1>4, <2>1 DEF CompletionFails, ReplaceFails
  <2>3. PICK todo : todo = <<Record("failed")>>
    OBVIOUS
  <2>4. todo # <<>> /\ Head(todo) = Record("failed")
    BY <2>3, OneCall
  <2>5. proc'[h].todo = todo /\ proc'[h].about = k /\ Others(h)
    BY <1>0, <1>4, <2>1, <2>3, <2>4, ContinueOK DEF CompletionFails, ReplaceFails, About
  <2>6. StatusAt(k, todo)'
    BY <2>4, PolicyCallNames DEF StatusAt
  <2> QED
    BY <2>1, <2>2, <2>5, <2>6, StatusesStep
<1>5. ASSUME NEW h \in Handlers, BeginReplace(h) \/ CommitReplace(h)
      PROVE  StatusesOK'
  <2>1. PICK k \in Keys : k = About(h)
    BY <1>5, Alone DEF BeginReplace, CommitReplace, Calls
  <2>2. replacements[k] = "running" /\ UNCHANGED replacements
    BY <1>5, <2>1 DEF BeginReplace, CommitReplace, Calls, StatusesOK, StatusAt
  <2>3. PICK todo : /\ Continue(h, todo) /\ todo # <<>>
                    /\ Head(todo).call = "commit" \/ Head(todo) \in {Record("completed"), Record("failed")}
    BY <1>5, OneCall, PolicyCallNames DEF BeginReplace, CommitReplace
  <2>4. proc'[h].todo = todo /\ proc'[h].about = k /\ Others(h)
    BY <1>0, <2>1, <2>3, ContinueOK DEF About
  <2>5. StatusAt(k, todo)'
    BY <2>2, <2>3, PolicyCallNames DEF StatusAt
  <2> QED
    BY <2>2, <2>4, <2>5, StatusesStep
<1>6. ASSUME NEW k \in Keys, SweepReplacement(k)
      PROVE  StatusesOK'
  <2> SUFFICES ASSUME NEW g \in Handlers, Busy(g)
               PROVE  StatusAt(About(g), proc[g].todo)'
    BY <1>6 DEF SweepReplacement, StatusesOK, Busy, About
  <2>1. About(g) \in Keys \ {k}
    BY <1>0, <1>6, Alone DEF SweepReplacement, AtWork
  <2>2. replacements'[About(g)] = replacements[About(g)]
    BY <1>0, <1>6, <2>1 DEF SweepReplacement
  <2> QED
    BY <1>6, <2>2 DEF SweepReplacement, StatusesOK, StatusAt, About
<1>7. CASE UNCHANGED policyVars
  BY <1>7 DEF policyVars, StatusesOK, StatusAt, Busy, About
<1> QED
  BY <1>1, <1>2, <1>3, <1>4, <1>5, <1>6, <1>7 DEF PolicyNext, AbandonReplace

\* Every status of a replacement is written along an edge of the lifecycle, the
\* completion included that takes effect and is reported as failed: the failure
\* that is recorded next is refused, and a completed operation stays completed
\* (replaceFinOpsAllocationPolicy, lifecycle.ts).
THEOREM ReplacementsFollowLifecycle ==
  PolicySpec =>
    [][\A k \in Keys : replacements[k] # "none" =>
         \/ replacements'[k] = replacements[k]
         \/ IsValidTransition(replacements[k], replacements'[k])]_policyVars
<1> DEFINE Edge(k) == replacements[k] # "none" =>
                        \/ replacements'[k] = replacements[k]
                        \/ IsValidTransition(replacements[k], replacements'[k])
<1>1. PolicyInit => StatusesOK
  BY DEF PolicyInit, StatusesOK, Busy
<1>2. PolicyIInv /\ StatusesOK /\ [PolicyNext]_policyVars => [\A k \in Keys : Edge(k)]_policyVars
  <2> SUFFICES ASSUME PolicyIInv, StatusesOK, PolicyNext, NEW k \in Keys
               PROVE  Edge(k)
    OBVIOUS
  <2>0. replacements \in [Keys -> OperationStatuses \cup {"none"}]
    BY DEF PolicyIInv, PolicyTyped
  <2>1. ASSUME NEW h \in Handlers, NEW l \in Keys, Replace(h, l)
        PROVE  Edge(k)
    BY <2>0, <2>1 DEF Replace
  <2>2. ASSUME NEW h \in Handlers, RecordStatus(h)
        PROVE  Edge(k)
    <3>1. About(h) \in Keys
      BY <2>2, Alone DEF RecordStatus, Calls
    <3> QED
      BY <2>0, <2>2, <3>1 DEF RecordStatus
  <2>3. ASSUME NEW h \in Handlers, CompletionFails(h)
        PROVE  Edge(k)
    <3>1. About(h) \in Keys
      BY <2>3, Alone DEF CompletionFails, Calls
    <3>2. Argument(h) = Record("completed")
      BY <2>3, AtRecord, PolicyCallNames DEF CompletionFails
    <3>3. replacements[About(h)] = "running"
      BY <2>3, <3>2 DEF CompletionFails, Calls, Argument, StatusesOK, StatusAt
    <3>4. IsValidTransition("running", "completed")
      BY DEF IsValidTransition, AllowedTransitions
    <3> QED
      BY <2>0, <2>3, <3>1, <3>3, <3>4 DEF CompletionFails
  <2>4. ASSUME NEW h \in Handlers,
               BeginReplace(h) \/ CommitReplace(h) \/ ReplaceFails(h) \/ AbandonReplace(h)
        PROVE  Edge(k)
    BY <2>4 DEF BeginReplace, CommitReplace, ReplaceFails, AbandonReplace
  <2>5. ASSUME NEW l \in Keys, SweepReplacement(l)
        PROVE  Edge(k)
    <3>1. \A from \in {"submitted", "accepted"} : IsValidTransition(from, "failed")
      BY DEF IsValidTransition, AllowedTransitions
    <3> QED
      BY <2>0, <2>5, <3>1 DEF SweepReplacement
  <2> QED
    BY <2>1, <2>2, <2>3, <2>4, <2>5 DEF PolicyNext
<1>3. PolicyIInv /\ StatusesOK /\ [PolicyNext]_policyVars => (PolicyIInv /\ StatusesOK)'
  BY PolicyNextIInv, StatusesKept
<1> HIDE DEF Edge
<1>4. PolicySpec => [][\A k \in Keys : Edge(k)]_policyVars
  BY PolicyInitIInv, <1>1, <1>2, <1>3, PTL DEF PolicySpec
<1> QED
  BY <1>4 DEF Edge

(***************************************************************************)
(* The restore of the global configuration                                 *)
(***************************************************************************)
Exists(p) == packages[p] # NoRow

Spent(a) == approvals[a] # NoRow /\ approvals[a].status = "executed"

Reached(a) == applied[a] \in {"done", "deviated"}

\* What an execution may be recorded as.
Outcome(a, status) ==
  /\ status \in {"completed", "failed", "partially_completed"}
  /\ status = "completed" => applied[a] = "done"
  /\ status = "failed" => applied[a] \in {"no", "refused"}

\* The call of a request that stores a new package.
StoringOK(p, todo) ==
  p \in Packages /\ \E row \in PackageRows : row.status = "validated" /\ todo = <<Insert(row)>>

\* The calls of a dry run, and of a request for approval.
StagingOK(p, todo) ==
  /\ p \in Packages /\ Exists(p)
  /\ \/ \E requests \in BOOLEAN : todo = <<OwnerDryRun(requests)>>
     \/ \E before \in Contents :
          \/ todo = <<SetStatus("dry_run"), CreateApproval(before), SetStatus("approval_requested")>>
          \/ todo = <<CreateApproval(before), SetStatus("approval_requested")>>
     \/ \E to \in {"dry_run", "approval_requested"} : todo = <<SetStatus(to)>>

\* The calls of an execution before the owner is asked.
Opening(a, todo) ==
  /\ applied[a] = "no" /\ restores[a] = "none"
  /\ \/ /\ todo = <<Transition("submitted"), Transition("accepted"), Transition("running"),
                    InsertRestore, Apply>>
        /\ operations[a] = "none"
     \/ /\ todo = <<Transition("accepted"), Transition("running"), InsertRestore, Apply>>
        /\ operations[a] = "submitted"
     \/ /\ todo = <<Transition("running"), InsertRestore, Apply>>
        /\ operations[a] = "accepted"
     \/ todo = <<InsertRestore, Apply>> /\ operations[a] = "running"

Applying(a, todo) ==
  /\ operations[a] = "running" /\ restores[a] = "running"
  /\ \/ todo = <<Apply>> /\ applied[a] = "no"
     \/ todo = <<Await>>

\* The calls that end it, with what the package is shown as in the end.
Ending(a, todo) ==
  \/ \E status : /\ Outcome(a, status)
                 /\ \/ /\ operations[a] = "running" /\ restores[a] = "running"
                       /\ todo = <<Transition(status), Finish(status)>>
                    \/ operations[a] = status /\ todo = <<Finish(status)>>
  \/ \E status, to :
       /\ Outcome(a, status)
       /\ to = "dry_run" \/ (to = "applied" /\ Reached(a))
       /\ \/ /\ operations[a] = "running" /\ restores[a] = "running"
             /\ todo = <<Transition(status), Finish(status), SetStatus(to)>>
          \/ operations[a] = status /\ todo = <<Finish(status), SetStatus(to)>>
          \/ todo = <<SetStatus(to)>>

ExecutionOK(a, todo) ==
  /\ a \in Approvals /\ Spent(a)
  /\ Opening(a, todo) \/ Applying(a, todo) \/ Ending(a, todo)

RequestOK(x, todo) == StoringOK(x, todo) \/ StagingOK(x, todo) \/ ExecutionOK(x, todo)

RequestsOK ==
  /\ DOMAIN proc = Handlers
  /\ \A h \in Handlers : Busy(h) => RequestOK(About(h), proc[h].todo)
  /\ \A h, g \in Handlers : Busy(h) /\ Busy(g) /\ h # g /\ About(h) = About(g) =>
       About(h) \in Packages

Typed ==
  /\ packages \in [Packages -> PackageRows \cup {NoRow}]
  /\ approvals \in [Approvals -> ApprovalRows \cup {NoRow}]
  /\ operations \in [Approvals -> OperationStatuses \cup {"none"}]
  /\ restores \in [Approvals -> RestoreStatuses \cup {"none"}]
  /\ live \in Contents
  /\ applied \in [Approvals -> ApplyStates]

\* An approval is of a package, and an operation of a spent approval; before
\* it runs, nothing of it has reached the owner.
LedgerOK ==
  /\ \A a \in Approvals : approvals[a] # NoRow => Exists(approvals[a].package)
  /\ \A a \in Approvals : operations[a] # "none" => Spent(a)
  /\ \A a \in Approvals : operations[a] \in {"none", "submitted", "accepted"} =>
       applied[a] = "no" /\ restores[a] = "none"

\* The inductive invariant.
IInv ==
  /\ Typed
  /\ RequestsOK
  /\ LedgerOK
  /\ OutcomeIsTrue
  /\ RestoreFollowsLedger
  /\ AppliedWasApplied
  /\ StagedOnce

-----------------------------------------------------------------------------
LEMMA InitIInv == Init => IInv
  BY DEF Init, IInv, Typed, RequestsOK, LedgerOK, OutcomeIsTrue, RestoreFollowsLedger,
         AppliedWasApplied, StagedOnce, Staged, Exists, Spent, Busy, OperationStatuses,
         RestoreStatuses, ApplyStates

\* Calls are told apart by their names.
LEMMA CallNames ==
  /\ \A row : Insert(row).call = "insert" /\ Insert(row).row = row
  /\ \A r : OwnerDryRun(r).call = "dry-run" /\ OwnerDryRun(r).requests = r
  /\ \A to : SetStatus(to).call = "status" /\ SetStatus(to).to = to
  /\ \A b : CreateApproval(b).call = "create-approval" /\ CreateApproval(b).before = b
  /\ \A to : Transition(to).call = "ledger" /\ Transition(to).to = to
  /\ \A s : Finish(s).call = "finish" /\ Finish(s).status = s
  /\ InsertRestore.call = "insert-restore" /\ Apply.call = "apply" /\ Await.call = "await"
  BY DEF Insert, OwnerDryRun, SetStatus, CreateApproval, Transition, Finish, InsertRestore, Apply, Await

\* The first call of every list of calls a request can be at.
LEMMA FirstCalls ==
  ASSUME NEW x, NEW todo
  PROVE  /\ StoringOK(x, todo) => Head(todo).call = "insert"
         /\ StagingOK(x, todo) => Head(todo).call \in {"dry-run", "status", "create-approval"}
         /\ Opening(x, todo) => Head(todo).call \in {"ledger", "insert-restore"}
         /\ Applying(x, todo) => Head(todo).call \in {"apply", "await"}
         /\ Ending(x, todo) => Head(todo).call \in {"ledger", "finish", "status"}
<1>1. StagingOK(x, todo) => Head(todo).call \in {"dry-run", "status", "create-approval"}
  BY CallNames, OneCall, TwoCalls, ThreeCalls DEF StagingOK
<1>2. Opening(x, todo) => Head(todo).call \in {"ledger", "insert-restore"}
  BY DEF Opening, Transition, InsertRestore, Apply
<1>3. Applying(x, todo) => Head(todo).call \in {"apply", "await"}
  BY CallNames, OneCall DEF Applying
<1>4. Ending(x, todo) => Head(todo).call \in {"ledger", "finish", "status"}
  BY CallNames, OneCall, TwoCalls, ThreeCalls DEF Ending
<1>5. StoringOK(x, todo) => Head(todo).call = "insert"
  BY CallNames, OneCall DEF StoringOK
<1> QED
  BY <1>1, <1>2, <1>3, <1>4, <1>5

\* What others do leaves a request as it was, when packages stay and nothing
\* happens to its own execution, except that the owner may answer it.
LEMMA RequestKept ==
  ASSUME NEW x, NEW todo, RequestOK(x, todo),
         \A p \in Packages : Exists(p) => Exists(p)',
         x \in Approvals =>
           /\ Spent(x)' /\ operations'[x] = operations[x] /\ restores'[x] = restores[x]
           /\ applied'[x] = applied[x] \/ applied[x] = "sent"
  PROVE  RequestOK(x, todo)'
<1>1. StagingOK(x, todo) => StagingOK(x, todo)'
  BY DEF StagingOK
<1>2. ASSUME ExecutionOK(x, todo) PROVE ExecutionOK(x, todo)'
  <2>1. Opening(x, todo) => Opening(x, todo)'
    BY <1>2 DEF Opening, ExecutionOK
  <2>2. Applying(x, todo) => Applying(x, todo)'
    BY <1>2 DEF Applying, ExecutionOK
  <2>3. Ending(x, todo) => Ending(x, todo)'
    <3>1. \A status : Outcome(x, status) => Outcome(x, status)'
      BY <1>2 DEF Outcome, ExecutionOK
    <3>2. Reached(x) => Reached(x)'
      BY <1>2 DEF Reached, ExecutionOK
    <3> QED
      BY <1>2, <3>1, <3>2 DEF Ending, ExecutionOK
  <2> QED
    BY <1>2, <2>1, <2>2, <2>3 DEF ExecutionOK
<1>3. StoringOK(x, todo) => StoringOK(x, todo)'
  BY DEF StoringOK
<1> QED
  BY <1>1, <1>2, <1>3 DEF RequestOK

\* Nobody else works on the execution of a request at work.
LEMMA AtWorkOn ==
  ASSUME IInv, NEW h \in Handlers, Busy(h)
  PROVE  /\ RequestOK(About(h), proc[h].todo)
         /\ \A g \in Handlers \ {h} : Busy(g) /\ About(g) = About(h) => About(h) \in Packages
  BY DEF IInv, RequestsOK

\* Request h ends, or goes on as it should, and the others are left alone.
LEMMA RequestsStep ==
  ASSUME IInv, NEW h \in Handlers, Others(h), NEW x,
         \A p \in Packages : Exists(p) => Exists(p)',
         \A a \in Approvals \ {x} :
           Spent(a) =>
             /\ Spent(a)' /\ operations'[a] = operations[a] /\ restores'[a] = restores[a]
             /\ applied'[a] = applied[a],
         \A g \in Handlers \ {h} : Busy(g) /\ About(g) = x => x \in Packages,
         Busy(h)' => proc'[h].about = x /\ RequestOK(x, proc[h].todo)'
  PROVE  RequestsOK'
<1>1. \A g \in Handlers \ {h} : proc'[g] = proc[g] /\ (Busy(g)' <=> Busy(g))
  BY DEF Others, IInv, RequestsOK, Busy
<1>2. \A g \in Handlers \ {h} : Busy(g)' => RequestOK(About(g), proc[g].todo)'
  <2> SUFFICES ASSUME NEW g \in Handlers \ {h}, Busy(g)
               PROVE  RequestOK(About(g), proc[g].todo)'
    BY <1>1
  <2>1. PICK y, todo : y = About(g) /\ todo = proc[g].todo
    OBVIOUS
  <2>2. RequestOK(y, todo)
    BY <2>1 DEF IInv, RequestsOK
  <2>3. y \in Approvals => y # x /\ Spent(y)
    BY <2>1, <2>2, RestoreAssumption DEF RequestOK, StoringOK, StagingOK, ExecutionOK
  <2>4. RequestOK(y, todo)'
    BY <2>2, <2>3, RequestKept
  <2> QED
    BY <1>1, <2>1, <2>4 DEF About
<1>3. \A g \in Handlers \ {h} : Busy(g)' /\ Busy(h)' /\ About(g)' = About(h)' => About(h)' \in Packages
  BY <1>1 DEF About
<1>4. \A g, f \in Handlers \ {h} :
        Busy(g)' /\ Busy(f)' /\ g # f /\ About(g)' = About(f)' => About(g)' \in Packages
  BY <1>1 DEF IInv, RequestsOK, About
<1>5. (Busy(h) => RequestOK(About(h), proc[h].todo))'
  BY DEF About
<1>6. DOMAIN proc' = Handlers
  BY DEF Others, IInv, RequestsOK
<1> QED
  BY <1>2, <1>3, <1>4, <1>5, <1>6 DEF RequestsOK

\* A row that the index lets in, or keeps out, leaves contents staged once.
LEMMA PackageStep ==
  ASSUME IInv, NEW p \in Packages, NEW row \in PackageRows,
         \/ UNCHANGED packages
         \/ ~IndexRefuses(p, row) /\ packages' = [packages EXCEPT ![p] = row],
         UNCHANGED <<approvals, applied>>,
         row.status = "applied" =>
           \E a \in Approvals : approvals[a] # NoRow /\ approvals[a].package = p /\ Reached(a)
  PROVE  /\ packages' \in [Packages -> PackageRows \cup {NoRow}]
         /\ \A q \in Packages : Exists(q) => Exists(q)'
         /\ AppliedWasApplied' /\ StagedOnce'
<1>1. row # NoRow
  BY RestoreAssumption
<1>2. CASE UNCHANGED packages
  BY <1>2 DEF IInv, Typed, Exists, AppliedWasApplied, StagedOnce, Staged
<1>3. CASE ~IndexRefuses(p, row) /\ packages' = [packages EXCEPT ![p] = row]
  <2>1. packages' \in [Packages -> PackageRows \cup {NoRow}]
    BY <1>3 DEF IInv, Typed
  <2>2. packages'[p] = row /\ \A q \in Packages \ {p} : packages'[q] = packages[q]
    BY <1>3 DEF IInv, Typed
  <2>3. AppliedWasApplied'
    BY <2>2 DEF IInv, AppliedWasApplied, Reached
  <2>4. StagedOnce'
    BY <1>3, <2>2 DEF IInv, StagedOnce, Staged, IndexRefuses, Clashes
  <2> QED
    BY <1>1, <2>1, <2>2, <2>3, <2>4 DEF Exists
<1> QED
  BY <1>2, <1>3

\* A step of a request that writes neither packages nor what its execution
\* has become.
LEMMA QuietStep ==
  ASSUME IInv, NEW h \in Handlers, Others(h), UNCHANGED <<stored, owner>>, NEW x,
         \A g \in Handlers \ {h} : Busy(g) /\ About(g) = x => x \in Packages,
         Busy(h)' => proc'[h].about = x /\ RequestOK(x, proc'[h].todo)
  PROVE  IInv'
<1>1. UNCHANGED <<packages, approvals, operations, restores, live, applied>>
  BY DEF stored, owner
<1>2. ASSUME NEW todo, RequestOK(x, todo)
      PROVE  RequestOK(x, todo)'
  BY <1>1, <1>2 DEF RequestOK, StoringOK, StagingOK, ExecutionOK, Opening, Applying, Ending, Outcome, Reached,
     Exists, Spent
<1>3. Busy(h)' => proc'[h].about = x /\ RequestOK(x, proc[h].todo)'
  <2>1. PICK todo : todo = proc'[h].todo
    OBVIOUS
  <2> QED
    BY <1>2, <2>1
<1>4. RequestsOK'
  BY <1>1, <1>3, RequestsStep DEF Exists, Spent
<1> QED
  BY <1>1, <1>4 DEF IInv, Typed, LedgerOK, OutcomeIsTrue, RestoreFollowsLedger, AppliedWasApplied,
     StagedOnce, Staged, Exists, Spent

LEMMA AbandonStep ==
  ASSUME IInv, NEW h \in Handlers, Abandon(h)
  PROVE  IInv'
<1>1. Others(h) /\ ~Busy(h)'
  BY StopOK DEF Abandon, IInv, RequestsOK, Busy
<1> QED
  BY <1>1, QuietStep, AtWorkOn DEF Abandon

\* A request that is about to store a package, whoever has made it.
LEMMA StorePackageStep ==
  ASSUME IInv, NEW h \in Handlers, NEW p \in Packages, NEW content \in Contents,
         NEW purpose \in Purposes, StorePackage(h, p, content, purpose)
  PROVE  IInv'
<1>1. PICK row : row = [content |-> content, purpose |-> purpose, status |-> "validated"]
  OBVIOUS
<1>2. row \in PackageRows /\ row.status = "validated"
  BY <1>1 DEF PackageRows, PackageStatuses
<1>3. Begin(h, p, <<Insert(row)>>) /\ UNCHANGED <<stored, owner>>
  BY <1>1 DEF StorePackage
<1>4. proc'[h].todo = <<Insert(row)>> /\ proc'[h].about = p /\ Others(h)
  BY <1>3, BeginOK, OneCall DEF IInv, RequestsOK
<1>5. RequestOK(p, proc'[h].todo)
  BY <1>2, <1>4 DEF RequestOK, StoringOK
<1> QED
  BY <1>3, <1>4, <1>5, QuietStep

\* The insert, whatever others have stored since the request looked.
LEMMA InsertPackageStep ==
  ASSUME IInv, NEW h \in Handlers, InsertPackage(h)
  PROVE  IInv'
<1>1. PICK p, todo : p = About(h) /\ todo = proc[h].todo
  OBVIOUS
<1>2. RequestOK(p, todo) /\ Head(todo).call = "insert" /\ Head(todo) = Argument(h)
  BY <1>1, AtWorkOn DEF InsertPackage, Calls, Argument
<1>3. StoringOK(p, todo)
  BY <1>2, FirstCalls DEF RequestOK, ExecutionOK
<1>4. PICK row \in PackageRows : row.status = "validated" /\ todo = <<Insert(row)>>
  BY <1>3 DEF StoringOK
<1>5. p \in Packages /\ Argument(h).row = row
  BY <1>2, <1>3, <1>4, CallNames, OneCall DEF StoringOK
<1>6. /\ UNCHANGED <<approvals, operations, restores, live, applied>>
      /\ \/ UNCHANGED packages
         \/ ~IndexRefuses(p, row) /\ packages' = [packages EXCEPT ![p] = row]
      /\ Stop(h)
  BY <1>1, <1>5 DEF InsertPackage, owner
<1>7. /\ packages' \in [Packages -> PackageRows \cup {NoRow}]
      /\ \A q \in Packages : Exists(q) => Exists(q)'
      /\ AppliedWasApplied' /\ StagedOnce'
  BY <1>4, <1>5, <1>6, PackageStep
<1>8. Others(h) /\ ~Busy(h)'
  BY <1>6, StopOK DEF IInv, RequestsOK, Busy
<1>9. RequestsOK'
  BY <1>1, <1>5, <1>6, <1>7, <1>8, AtWorkOn, RequestsStep DEF Spent, InsertPackage, Calls
<1>10. Typed' /\ LedgerOK' /\ OutcomeIsTrue' /\ RestoreFollowsLedger'
  BY <1>6, <1>7 DEF IInv, Typed, LedgerOK, OutcomeIsTrue, RestoreFollowsLedger, Spent, Exists,
     ApprovalRows
<1> QED
  BY <1>7, <1>9, <1>10 DEF IInv

LEMMA DryRunPackageStep ==
  ASSUME IInv, NEW h \in Handlers, NEW p \in Packages, DryRunPackage(h, p)
  PROVE  IInv'
<1>1. PICK requests \in BOOLEAN : Begin(h, p, <<OwnerDryRun(requests)>>)
  BY DEF DryRunPackage
<1>2. proc'[h].todo = <<OwnerDryRun(requests)>> /\ proc'[h].about = p /\ Others(h)
  BY <1>1, BeginOK, OneCall DEF IInv, RequestsOK
<1>3. RequestOK(p, proc'[h].todo)
  BY <1>2 DEF DryRunPackage, Actionable, RequestOK, StagingOK, Exists
<1> QED
  BY <1>2, <1>3, QuietStep DEF DryRunPackage

\* A request at a call of a dry run.
LEMMA AtDryRun ==
  ASSUME IInv, NEW h \in Handlers, Busy(h),
         Head(proc[h].todo).call \in {"dry-run", "create-approval"}
  PROVE  StagingOK(About(h), proc[h].todo)
  BY AtWorkOn, FirstCalls DEF RequestOK, ExecutionOK

\* A request at a call of its execution.
LEMMA AtExecution ==
  ASSUME IInv, NEW h \in Handlers, Busy(h),
         Head(proc[h].todo).call \in {"ledger", "insert-restore", "apply", "await", "finish"}
  PROVE  /\ ExecutionOK(About(h), proc[h].todo)
         /\ \A g \in Handlers \ {h} : ~(Busy(g) /\ About(g) = About(h))
<1>1. ExecutionOK(About(h), proc[h].todo)
  BY AtWorkOn, FirstCalls DEF RequestOK
<1> QED
  BY <1>1, AtWorkOn, RestoreAssumption DEF ExecutionOK

LEMMA DryRunAnswersStep ==
  ASSUME IInv, NEW h \in Handlers, DryRunAnswers(h)
  PROVE  IInv'
<1>1. PICK p : p = About(h) /\ StagingOK(p, proc[h].todo)
  BY AtDryRun DEF DryRunAnswers, Calls
<1>2. PICK todo : /\ Continue(h, todo) /\ UNCHANGED <<stored, owner>>
                  /\ \/ todo = <<SetStatus("dry_run")>>
                     \/ todo = <<SetStatus("dry_run"), CreateApproval(live),
                                 SetStatus("approval_requested")>>
  BY DEF DryRunAnswers
<1>3. todo # <<>> /\ RequestOK(p, todo)
  <2>1. todo # <<>>
    BY <1>2, OneCall, ThreeCalls
  <2>2. PICK before : before = live /\ before \in Contents
    BY DEF IInv, Typed
  <2> QED
    BY <1>1, <1>2, <2>1, <2>2 DEF RequestOK, StagingOK
<1>4. proc'[h].todo = todo /\ proc'[h].about = p /\ Others(h)
  BY <1>1, <1>2, <1>3, ContinueOK DEF IInv, RequestsOK, About
<1> QED
  BY <1>1, <1>2, <1>3, <1>4, QuietStep, AtWorkOn DEF DryRunAnswers, Calls, StagingOK


\* A request at a status write: the package is there, what it is shown as is
\* true, and what is left to do is right.
LEMMA AtStatus ==
  ASSUME IInv, NEW h \in Handlers, Calls(h, "status"),
         NEW x, x = About(h), NEW to, to = Argument(h).to
  PROVE  /\ PackageOf(x) \in Packages /\ Exists(PackageOf(x))
         /\ to \in {"dry_run", "approval_requested", "applied"}
         /\ to = "applied" =>
              x \in Approvals /\ Spent(x) /\ approvals[x].package = PackageOf(x) /\ Reached(x)
         /\ Rest(h) # <<>> => RequestOK(x, Rest(h))
<1>1. PICK todo : todo = proc[h].todo
  OBVIOUS
<1>2. /\ RequestOK(x, todo) /\ Head(todo).call = "status" /\ Head(todo).to = to
      /\ Rest(h) = Tail(todo)
  BY <1>1, AtWorkOn DEF Calls, Argument, Rest
<1>3. CASE StagingOK(x, todo)
  <2>1. PackageOf(x) = x /\ x \in Packages /\ Exists(x)
    BY <1>3 DEF PackageOf, StagingOK
  <2>2. ASSUME NEW before \in Contents,
               todo = <<SetStatus("dry_run"), CreateApproval(before), SetStatus("approval_requested")>>
        PROVE  to = "dry_run" /\ RequestOK(x, Tail(todo))
    BY <1>2, <2>1, <2>2, CallNames, ThreeCalls DEF RequestOK, StagingOK
  <2>3. ASSUME NEW to2 \in {"dry_run", "approval_requested"}, todo = <<SetStatus(to2)>>
        PROVE  to = to2 /\ Tail(todo) = <<>>
    BY <1>2, <2>3, CallNames, OneCall
  <2>4. ASSUME NEW before \in Contents, todo = <<CreateApproval(before), SetStatus("approval_requested")>>
        PROVE  FALSE
    BY <1>2, <2>4, CallNames, TwoCalls
  <2>5. ASSUME NEW requests \in BOOLEAN, todo = <<OwnerDryRun(requests)>>
        PROVE  FALSE
    BY <1>2, <2>5, CallNames, OneCall
  <2> QED
    BY <1>2, <1>3, <2>1, <2>2, <2>3, <2>4, <2>5 DEF StagingOK
<1>4. CASE ExecutionOK(x, todo)
  <2>1. x \in Approvals /\ x \notin Packages /\ Spent(x)
    BY <1>4, RestoreAssumption DEF ExecutionOK
  <2>2. PackageOf(x) = approvals[x].package /\ PackageOf(x) \in Packages /\ Exists(PackageOf(x))
    BY <2>1 DEF PackageOf, Spent, IInv, LedgerOK, Typed, ApprovalRows
  <2>3. Ending(x, todo)
    BY <1>2, <1>4, FirstCalls DEF ExecutionOK
  <2>4. PICK to2 : /\ to2 = "dry_run" \/ (to2 = "applied" /\ Reached(x))
                   /\ todo = <<SetStatus(to2)>>
    <3>1. ASSUME NEW status, todo = <<Transition(status), Finish(status)>>
          PROVE  FALSE
      BY <1>2, <3>1, CallNames, TwoCalls
    <3>2. ASSUME NEW status, todo = <<Finish(status)>>
          PROVE  FALSE
      BY <1>2, <3>2, CallNames, OneCall
    <3>3. ASSUME NEW status, NEW to3, todo = <<Transition(status), Finish(status), SetStatus(to3)>>
          PROVE  FALSE
      BY <1>2, <3>3, CallNames, ThreeCalls
    <3>4. ASSUME NEW status, NEW to3, todo = <<Finish(status), SetStatus(to3)>>
          PROVE  FALSE
      BY <1>2, <3>4, CallNames, TwoCalls
    <3> QED
      BY <2>3, <3>1, <3>2, <3>3, <3>4 DEF Ending
  <2>5. to = to2 /\ Tail(todo) = <<>>
    BY <1>2, <2>4, CallNames, OneCall
  <2> QED
    BY <1>2, <2>1, <2>2, <2>4, <2>5
<1> QED
  BY <1>2, <1>3, <1>4, FirstCalls DEF RequestOK

LEMMA WriteStatusStep ==
  ASSUME IInv, NEW h \in Handlers, WriteStatus(h)
  PROVE  IInv'
<1>1. PICK x, to, p : x = About(h) /\ to = Argument(h).to /\ p = PackageOf(x)
  OBVIOUS
<1>2. /\ p \in Packages /\ Exists(p)
      /\ to \in {"dry_run", "approval_requested", "applied"}
      /\ to = "applied" => x \in Approvals /\ Spent(x) /\ approvals[x].package = p /\ Reached(x)
      /\ Rest(h) # <<>> => RequestOK(x, Rest(h))
  BY <1>1, AtStatus DEF WriteStatus
<1>3. PICK row : row = [packages[p] EXCEPT !.status = to]
  OBVIOUS
<1>4. packages[p] \in PackageRows
  BY <1>2 DEF Exists, IInv, Typed
<1>5. row \in PackageRows /\ row.status = to
  BY <1>2, <1>3, <1>4 DEF PackageRows, PackageStatuses
<1>6. /\ UNCHANGED <<approvals, operations, restores, live, applied>>
      /\ \/ UNCHANGED packages /\ Stop(h)
         \/ /\ ~IndexRefuses(p, row) /\ packages' = [packages EXCEPT ![p] = row]
            /\ Continue(h, Rest(h))
  BY <1>1, <1>3 DEF WriteStatus, owner
<1>7. /\ packages' \in [Packages -> PackageRows \cup {NoRow}]
      /\ \A q \in Packages : Exists(q) => Exists(q)'
      /\ AppliedWasApplied' /\ StagedOnce'
  BY <1>2, <1>5, <1>6, PackageStep DEF Spent
<1>8. Others(h) /\ (Busy(h)' => proc'[h].about = x /\ Rest(h) # <<>> /\ proc'[h].todo = Rest(h))
  <2>1. CASE Stop(h)
    BY <2>1, StopOK DEF IInv, RequestsOK, Busy
  <2>2. CASE Continue(h, Rest(h))
    BY <1>1, <2>2, ContinueOK DEF IInv, RequestsOK, Busy, About
  <2> QED
    BY <1>6, <2>1, <2>2
<1>9. Busy(h)' => proc'[h].about = x /\ RequestOK(x, proc[h].todo)'
  <2>1. PICK todo : todo = Rest(h)
    OBVIOUS
  <2>2. RequestOK(x, todo) => RequestOK(x, todo)'
    BY <1>6, <1>7, RequestKept, RestoreAssumption DEF RequestOK, StoringOK, StagingOK, ExecutionOK, Spent
  <2> QED
    BY <1>2, <1>8, <2>1, <2>2
<1>10. RequestsOK'
  BY <1>1, <1>6, <1>7, <1>8, <1>9, AtWorkOn, RequestsStep DEF Spent, WriteStatus, Calls
<1>11. Typed' /\ LedgerOK' /\ OutcomeIsTrue' /\ RestoreFollowsLedger'
  BY <1>6, <1>7 DEF IInv, Typed, LedgerOK, OutcomeIsTrue, RestoreFollowsLedger, Spent, Exists,
     ApprovalRows
<1> QED
  BY <1>7, <1>10, <1>11 DEF IInv

LEMMA InsertApprovalStep ==
  ASSUME IInv, NEW h \in Handlers, InsertApproval(h)
  PROVE  IInv'
<1>1. PICK p : p = About(h) /\ StagingOK(p, proc[h].todo)
  BY AtDryRun DEF InsertApproval, Calls
<1>2. PICK before \in Contents :
        proc[h].todo = <<CreateApproval(before), SetStatus("approval_requested")>>
  <2>1. Head(proc[h].todo).call = "create-approval"
    BY DEF InsertApproval, Calls
  <2> QED
    BY <1>1, <2>1, CallNames, OneCall, TwoCalls, ThreeCalls DEF StagingOK
<1>3. Argument(h).before = before /\ Rest(h) = <<SetStatus("approval_requested")>>
  BY <1>2, CallNames, TwoCalls DEF Argument, Rest
<1>4. PICK a \in Approvals :
        /\ approvals[a] = NoRow
        /\ approvals' = [approvals EXCEPT ![a] = [package |-> p, before |-> before, status |-> "pending"]]
  BY <1>1, <1>3 DEF InsertApproval
<1>5. UNCHANGED <<packages, operations, restores, live, applied>>
  BY DEF InsertApproval, owner
<1>6. p \in Packages /\ Exists(p)
  BY <1>1 DEF StagingOK
<1>7. [package |-> p, before |-> before, status |-> "pending"] \in ApprovalRows
  BY <1>6 DEF ApprovalRows
<1>8. approvals' \in [Approvals -> ApprovalRows \cup {NoRow}]
  BY <1>4, <1>7 DEF IInv, Typed
<1>9. /\ approvals'[a].package = p
      /\ \A b \in Approvals \ {a} : approvals'[b] = approvals[b]
      /\ approvals'[a].status = "pending"
  BY <1>4 DEF IInv, Typed
<1>10. \A b \in Approvals : Spent(b) => b # a /\ Spent(b)'
  BY <1>4, <1>9 DEF Spent
<1>11. Others(h) /\ proc'[h].about = p /\ proc'[h].todo = <<SetStatus("approval_requested")>>
  BY <1>1, <1>3, ContinueOK, OneCall DEF InsertApproval, IInv, RequestsOK, About
<1>12. RequestOK(p, proc[h].todo)'
  BY <1>5, <1>6, <1>11 DEF RequestOK, StagingOK, Exists
<1>13. RequestsOK'
  BY <1>5, <1>6, <1>10, <1>11, <1>12, RequestsStep DEF Exists
<1>14. Typed'
  BY <1>5, <1>8 DEF IInv, Typed
<1>15. LedgerOK'
  BY <1>5, <1>6, <1>9, <1>10 DEF IInv, LedgerOK, Exists
<1>16. AppliedWasApplied'
  BY <1>4, <1>5, <1>9 DEF IInv, AppliedWasApplied
<1> QED
  BY <1>5, <1>13, <1>14, <1>15, <1>16
  DEF IInv, OutcomeIsTrue, RestoreFollowsLedger, StagedOnce, Staged

LEMMA DecideStep ==
  ASSUME IInv, NEW a \in Approvals, Decide(a)
  PROVE  IInv'
<1>1. PICK decision \in {"approved", "rejected"} : approvals' = [approvals EXCEPT ![a].status = decision]
  BY DEF Decide
<1>2. UNCHANGED <<packages, operations, restores, live, applied, proc>>
  BY DEF Decide, owner
<1>3. approvals[a] \in ApprovalRows /\ ~Spent(a)
  BY DEF Decide, IInv, Typed, Spent
<1>4. /\ approvals'[a] \in ApprovalRows /\ approvals'[a].package = approvals[a].package
      /\ \A b \in Approvals \ {a} : approvals'[b] = approvals[b]
      /\ approvals' \in [Approvals -> ApprovalRows \cup {NoRow}]
  BY <1>1, <1>3 DEF IInv, Typed, ApprovalRows
<1>5. \A b \in Approvals : Spent(b) => Spent(b)'
  BY <1>3, <1>4 DEF Spent
<1>6. Typed'
  BY <1>2, <1>4 DEF IInv, Typed
<1>7. LedgerOK'
  BY <1>2, <1>3, <1>4, <1>5, RestoreAssumption DEF IInv, LedgerOK, Exists
<1>8. AppliedWasApplied'
  BY <1>2, <1>3, <1>4, RestoreAssumption DEF IInv, AppliedWasApplied
<1>9. RequestsOK'
  <2>1. \A h \in Handlers : Busy(h)' => RequestOK(About(h), proc[h].todo)'
    <3> SUFFICES ASSUME NEW h \in Handlers, Busy(h)
                 PROVE  RequestOK(About(h), proc[h].todo)'
      BY <1>2 DEF Busy
    <3>1. PICK x, todo : x = About(h) /\ todo = proc[h].todo
      OBVIOUS
    <3>2. RequestOK(x, todo)
      BY <3>1 DEF IInv, RequestsOK
    <3>3. x \in Approvals => Spent(x)'
      BY <1>5, <3>2, RestoreAssumption DEF RequestOK, StoringOK, StagingOK, ExecutionOK
    <3>4. RequestOK(x, todo)'
      BY <1>2, <3>2, <3>3, RequestKept DEF Exists
    <3> QED
      BY <1>2, <3>1, <3>4 DEF About
  <2> QED
    BY <1>2, <2>1 DEF IInv, RequestsOK, Busy, About
<1> QED
  BY <1>2, <1>6, <1>7, <1>8, <1>9
  DEF IInv, OutcomeIsTrue, RestoreFollowsLedger, StagedOnce, Staged

\* A step of the execution of a, which alone changes.
LEMMA ExecutionStep ==
  ASSUME IInv, NEW h \in Handlers, NEW a \in Approvals, Others(h),
         UNCHANGED <<packages, live>>, Typed', Spent(a)',
         \A b \in Approvals \ {a} :
           /\ approvals'[b] = approvals[b] /\ operations'[b] = operations[b]
           /\ restores'[b] = restores[b] /\ applied'[b] = applied[b],
         approvals[a] # NoRow, approvals'[a].package = approvals[a].package,
         operations'[a] \in {"none", "submitted", "accepted"} =>
           applied'[a] = "no" /\ restores'[a] = "none",
         operations'[a] = "completed" => applied'[a] = "done",
         operations'[a] = "failed" => applied'[a] \in {"no", "refused"},
         restores'[a] \notin {"none", "running"} => restores'[a] = operations'[a],
         Reached(a) => Reached(a)',
         \A g \in Handlers \ {h} : ~(Busy(g) /\ About(g) = a),
         Busy(h)' => proc'[h].about = a /\ RequestOK(a, proc[h].todo)'
  PROVE  IInv'
<1>1. RequestsOK'
  BY RequestsStep DEF Exists, Spent
<1>2. LedgerOK'
  BY DEF IInv, LedgerOK, Spent, Exists
<1>3. OutcomeIsTrue'
  BY DEF IInv, OutcomeIsTrue
<1>4. RestoreFollowsLedger'
  BY DEF IInv, RestoreFollowsLedger
<1>5. AppliedWasApplied'
  BY DEF IInv, AppliedWasApplied, Reached, Spent
<1>6. StagedOnce'
  BY DEF IInv, StagedOnce, Staged
<1> QED
  BY <1>1, <1>2, <1>3, <1>4, <1>5, <1>6 DEF IInv

LEMMA ExecuteApprovalStep ==
  ASSUME IInv, NEW h \in Handlers, NEW a \in Approvals, ExecuteApproval(h, a)
  PROVE  IInv'
<1> DEFINE todo == <<Transition("submitted"), Transition("accepted"), Transition("running"),
                     InsertRestore, Apply>>
<1>1. /\ approvals[a] # NoRow /\ approvals[a].status = "approved"
      /\ approvals' = [approvals EXCEPT ![a].status = "executed"] /\ Begin(h, a, todo)
      /\ UNCHANGED <<packages, operations, restores, live, applied>>
  BY DEF ExecuteApproval, owner
<1>2. todo # <<>>
  OBVIOUS
<1>3. Others(h) /\ proc'[h].about = a /\ proc'[h].todo = todo
  <2> HIDE DEF todo
  <2> QED
    BY <1>1, <1>2, BeginOK DEF IInv, RequestsOK
<1>4. approvals[a] \in ApprovalRows
  BY <1>1 DEF IInv, Typed
<1>5. /\ approvals'[a] \in ApprovalRows /\ approvals'[a].package = approvals[a].package
      /\ approvals'[a].status = "executed"
      /\ \A b \in Approvals \ {a} : approvals'[b] = approvals[b]
      /\ approvals' \in [Approvals -> ApprovalRows \cup {NoRow}]
  BY <1>1, <1>4 DEF IInv, Typed, ApprovalRows
<1>6. Typed' /\ Spent(a)'
  BY <1>1, <1>5, RestoreAssumption DEF IInv, Typed, Spent
<1>7. ~Spent(a) /\ operations[a] = "none" /\ applied[a] = "no" /\ restores[a] = "none"
  BY <1>1 DEF IInv, LedgerOK, Spent
<1>8. \A g \in Handlers : ~(Busy(g) /\ About(g) = a)
  BY <1>7, RestoreAssumption DEF IInv, RequestsOK, RequestOK, StoringOK, StagingOK, ExecutionOK
<1>9. RequestOK(a, proc[h].todo)'
  BY <1>1, <1>3, <1>6, <1>7 DEF RequestOK, ExecutionOK, Opening
<1> HIDE DEF todo
<1> QED
  BY <1>1, <1>3, <1>5, <1>6, <1>7, <1>8, <1>9, ExecutionStep DEF Reached

\* The status an execution's ledger call writes, and what is left to do then.
LEMMA AtLedger ==
  ASSUME IInv, NEW h \in Handlers, Calls(h, "ledger"), NEW a, a = About(h),
         NEW to, to = Argument(h).to, NEW rest, rest = Rest(h)
  PROVE  /\ a \in Approvals /\ Spent(a)
         /\ rest # <<>> /\ to \in OperationStatuses
         /\ \/ Opening(a, proc[h].todo) /\ to \in {"submitted", "accepted", "running"}
            \/ restores[a] = "running" /\ Outcome(a, to)
         /\ operations'[a] = to /\ UNCHANGED <<approvals, restores, applied>> => ExecutionOK(a, rest)'
<1>1. PICK todo : todo = proc[h].todo
  OBVIOUS
<1>2. Head(todo).call = "ledger" /\ Head(todo).to = to /\ rest = Tail(todo)
  BY <1>1 DEF Calls, Argument, Rest
<1>3. ExecutionOK(a, todo)
  BY <1>1, AtExecution DEF Calls
<1>4. a \in Approvals /\ Spent(a)
  BY <1>3 DEF ExecutionOK
<1>5. CASE Opening(a, todo)
  <2>1. CASE todo = <<Transition("submitted"), Transition("accepted"), Transition("running"),
                      InsertRestore, Apply>>
    <3>1. to = "submitted" /\ rest = <<Transition("accepted"), Transition("running"), InsertRestore, Apply>>
      BY <1>2, <2>1, CallNames, FiveCalls
    <3> QED
      BY <1>1, <1>4, <1>5, <3>1, FourCalls DEF Opening, ExecutionOK, Spent, OperationStatuses
  <2>2. CASE todo = <<Transition("accepted"), Transition("running"), InsertRestore, Apply>>
    <3>1. to = "accepted" /\ rest = <<Transition("running"), InsertRestore, Apply>>
      BY <1>2, <2>2, CallNames, FourCalls
    <3> QED
      BY <1>1, <1>4, <1>5, <3>1, ThreeCalls DEF Opening, ExecutionOK, Spent, OperationStatuses
  <2>3. CASE todo = <<Transition("running"), InsertRestore, Apply>>
    <3>1. to = "running" /\ rest = <<InsertRestore, Apply>>
      BY <1>2, <2>3, CallNames, ThreeCalls
    <3> QED
      BY <1>1, <1>4, <1>5, <3>1, TwoCalls DEF Opening, ExecutionOK, Spent, OperationStatuses
  <2>4. CASE todo = <<InsertRestore, Apply>>
    BY <1>2, <2>4, CallNames, TwoCalls
  <2> QED
    BY <1>5, <2>1, <2>2, <2>3, <2>4 DEF Opening
<1>6. CASE Ending(a, todo)
  <2>1. ASSUME NEW status, Outcome(a, status), operations[a] = "running", restores[a] = "running",
               todo = <<Transition(status), Finish(status)>>
        PROVE  /\ to = status /\ rest # <<>>
               /\ operations'[a] = to /\ UNCHANGED <<approvals, restores, applied>> =>
                    ExecutionOK(a, rest)'
    <3>1. to = status /\ rest = <<Finish(status)>> /\ rest # <<>>
      BY <1>2, <2>1, CallNames, OneCall, TwoCalls
    <3>2. ASSUME operations'[a] = to, UNCHANGED <<approvals, restores, applied>>
          PROVE  ExecutionOK(a, rest)'
      <4>1. Ending(a, rest)'
        BY <2>1, <3>1, <3>2 DEF Ending, Outcome
      <4> QED
        BY <1>4, <3>2, <4>1 DEF ExecutionOK, Spent
    <3> QED
      BY <3>1, <3>2
  <2>2. ASSUME NEW status, NEW to2, Outcome(a, status), operations[a] = "running", restores[a] = "running",
               to2 = "dry_run" \/ (to2 = "applied" /\ Reached(a)),
               todo = <<Transition(status), Finish(status), SetStatus(to2)>>
        PROVE  /\ to = status /\ rest # <<>>
               /\ operations'[a] = to /\ UNCHANGED <<approvals, restores, applied>> =>
                    ExecutionOK(a, rest)'
    <3>1. to = status /\ rest = <<Finish(status), SetStatus(to2)>> /\ rest # <<>>
      BY <1>2, <2>2, CallNames, TwoCalls, ThreeCalls
    <3>2. ASSUME operations'[a] = to, UNCHANGED <<approvals, restores, applied>>
          PROVE  ExecutionOK(a, rest)'
      <4>1. Ending(a, rest)'
        BY <2>2, <3>1, <3>2 DEF Ending, Outcome, Reached
      <4> QED
        BY <1>4, <3>2, <4>1 DEF ExecutionOK, Spent
    <3> QED
      BY <3>1, <3>2
  <2>3. ASSUME NEW status, NEW to2, \/ todo = <<Finish(status)>> \/ todo = <<SetStatus(to2)>>
                                    \/ todo = <<Finish(status), SetStatus(to2)>>
        PROVE  FALSE
    BY <1>2, <2>3, CallNames, OneCall, TwoCalls
  <2>4. PICK status, to2 : 
          /\ Outcome(a, status) /\ operations[a] = "running" /\ restores[a] = "running"
          /\ \/ todo = <<Transition(status), Finish(status)>>
             \/ /\ todo = <<Transition(status), Finish(status), SetStatus(to2)>>
                /\ to2 = "dry_run" \/ (to2 = "applied" /\ Reached(a))
    BY <1>6, <2>3 DEF Ending
  <2>5. restores[a] = "running" /\ Outcome(a, to) /\ to \in OperationStatuses
    BY <2>1, <2>2, <2>4 DEF Outcome, OperationStatuses
  <2>6. CASE todo = <<Transition(status), Finish(status)>>
    BY <1>4, <2>1, <2>4, <2>5, <2>6
  <2>7. CASE todo = <<Transition(status), Finish(status), SetStatus(to2)>> /\ (to2 = "dry_run" \/ (to2 = "applied" /\ Reached(a)))
    BY <1>4, <2>2, <2>4, <2>5, <2>7
  <2> QED
    BY <2>4, <2>6, <2>7
<1>7. ~Applying(a, todo)
  BY <1>2, FirstCalls
<1> QED
  BY <1>3, <1>5, <1>6, <1>7 DEF ExecutionOK

LEMMA WriteLedgerStep ==
  ASSUME IInv, NEW h \in Handlers, WriteLedger(h)
  PROVE  IInv'
<1>1. PICK a, to, rest : a = About(h) /\ to = Argument(h).to /\ rest = Rest(h)
  OBVIOUS
<1>2. /\ a \in Approvals /\ Spent(a)
      /\ rest # <<>> /\ to \in OperationStatuses
      /\ \/ Opening(a, proc[h].todo) /\ to \in {"submitted", "accepted", "running"}
         \/ restores[a] = "running" /\ Outcome(a, to)
      /\ operations'[a] = to /\ UNCHANGED <<approvals, restores, applied>> => ExecutionOK(a, rest)'
  BY <1>1, AtLedger DEF WriteLedger
<1>3. UNCHANGED <<packages, approvals, restores, live, applied>>
  BY DEF WriteLedger, owner
<1>4. CASE Stop(h) /\ UNCHANGED operations
  <2>1. Others(h) /\ ~Busy(h)'
    BY <1>4, StopOK DEF IInv, RequestsOK, Busy
  <2>2. UNCHANGED <<stored, owner>>
    BY <1>4 DEF WriteLedger, stored
  <2> QED
    BY <2>1, <2>2, QuietStep, AtWorkOn DEF WriteLedger, Calls
<1>5. CASE operations' = [operations EXCEPT ![a] = to] /\ Continue(h, rest)
  <2>1. operations'[a] = to /\ \A b \in Approvals \ {a} : operations'[b] = operations[b]
    BY <1>2, <1>5 DEF IInv, Typed
  <2>2. Others(h) /\ proc'[h].about = a /\ proc'[h].todo = rest
    BY <1>1, <1>2, <1>5, ContinueOK DEF IInv, RequestsOK, About
  <2>3. RequestOK(a, proc[h].todo)'
    BY <1>2, <1>3, <2>1, <2>2 DEF RequestOK
  <2>4. Typed'
    BY <1>2, <1>3, <1>5 DEF IInv, Typed
  <2>5. \A g \in Handlers \ {h} : ~(Busy(g) /\ About(g) = a)
    BY <1>1, AtExecution DEF WriteLedger, Calls
  <2>6. \/ applied[a] = "no" /\ restores[a] = "none" /\ to \in {"submitted", "accepted", "running"}
        \/ restores[a] = "running" /\ Outcome(a, to)
    BY <1>2 DEF Opening
  <2>7. /\ to \in {"none", "submitted", "accepted"} => applied[a] = "no" /\ restores[a] = "none"
        /\ to = "completed" => applied[a] = "done"
        /\ to = "failed" => applied[a] \in {"no", "refused"}
        /\ restores[a] \in {"none", "running"}
    BY <2>6 DEF Outcome
  <2>8. Spent(a)' /\ approvals[a] # NoRow /\ approvals'[a] = approvals[a] /\ (Reached(a) => Reached(a)')
    BY <1>2, <1>3 DEF Spent, Reached
  <2> QED
    BY <1>2, <1>3, <2>1, <2>2, <2>3, <2>4, <2>5, <2>7, <2>8, ExecutionStep
<1> QED
  BY <1>1, <1>4, <1>5 DEF WriteLedger

LEMMA StartRestoreStep ==
  ASSUME IInv, NEW h \in Handlers, StartRestore(h)
  PROVE  IInv'
<1>1. PICK a, todo : a = About(h) /\ todo = proc[h].todo
  OBVIOUS
<1>2. ExecutionOK(a, todo) /\ Head(todo).call = "insert-restore"
  BY <1>1, AtExecution DEF StartRestore, Calls
<1>3. a \in Approvals /\ Spent(a) /\ Opening(a, todo)
  BY <1>2, FirstCalls DEF ExecutionOK
<1>4. todo = <<InsertRestore, Apply>> /\ operations[a] = "running"
  BY <1>2, <1>3, CallNames, ThreeCalls, FourCalls, FiveCalls DEF Opening
<1>5. UNCHANGED <<packages, approvals, operations, live, applied>>
  BY DEF StartRestore, owner
<1>6. restores' = [restores EXCEPT ![a] = "running"] /\ Continue(h, <<Apply>>)
  BY <1>1, <1>4, TwoCalls DEF StartRestore, Rest
<1>7. restores'[a] = "running" /\ \A b \in Approvals \ {a} : restores'[b] = restores[b]
  BY <1>3, <1>6 DEF IInv, Typed
<1>8. Others(h) /\ proc'[h].about = a /\ proc'[h].todo = <<Apply>>
  BY <1>1, <1>6, ContinueOK, OneCall DEF IInv, RequestsOK, About
<1>9. Spent(a)' /\ applied[a] = "no"
  BY <1>3, <1>5 DEF Spent, Opening
<1>10. RequestOK(a, proc[h].todo)'
  BY <1>3, <1>4, <1>5, <1>7, <1>8, <1>9 DEF RequestOK, ExecutionOK, Applying
<1>11. Typed'
  BY <1>3, <1>5, <1>6 DEF IInv, Typed, RestoreStatuses
<1>12. \A g \in Handlers \ {h} : ~(Busy(g) /\ About(g) = a)
  BY <1>1, AtExecution DEF StartRestore, Calls
<1> QED
  BY <1>3, <1>4, <1>5, <1>7, <1>8, <1>9, <1>10, <1>11, <1>12, ExecutionStep DEF Spent, Reached

\* An execution at the call that asks the owner, or waits for it.
LEMMA AtApply ==
  ASSUME IInv, NEW h \in Handlers, Calls(h, "apply") \/ Calls(h, "await"), NEW a, a = About(h)
  PROVE  /\ a \in Approvals /\ Spent(a) /\ operations[a] = "running" /\ restores[a] = "running"
         /\ Calls(h, "apply") => applied[a] = "no"
<1>1. PICK todo : todo = proc[h].todo
  OBVIOUS
<1>2. ExecutionOK(a, todo) /\ Head(todo).call \in {"apply", "await"}
  BY <1>1, AtExecution DEF Calls
<1>3. Applying(a, todo) /\ a \in Approvals /\ Spent(a)
  BY <1>2, FirstCalls DEF ExecutionOK
<1>4. Calls(h, "apply") => todo # <<Await>>
  BY <1>1, CallNames, OneCall DEF Calls
<1> QED
  BY <1>3, <1>4 DEF Applying

\* An execution that ends with an outcome that is true.
LEMMA EndStep ==
  ASSUME IInv, NEW h \in Handlers, Calls(h, "apply") \/ Calls(h, "await"), NEW a, a = About(h),
         NEW status, Outcome(a, status), UNCHANGED <<stored, owner>>,
         \/ Continue(h, End(status))
         \/ Continue(h, End(status) \o <<SetStatus("dry_run")>>)
         \/ Continue(h, End(status) \o <<SetStatus("applied")>>) /\ Reached(a)
  PROVE  IInv'
<1>1. /\ a \in Approvals /\ Spent(a) /\ operations[a] = "running" /\ restores[a] = "running"
      /\ Busy(h)
  BY AtApply DEF Calls
<1>2. End(status) = <<Transition(status), Finish(status)>>
  BY DEF End
<1>3. \A to : End(status) \o <<SetStatus(to)>> = <<Transition(status), Finish(status), SetStatus(to)>>
  BY <1>2, JoinedCalls
<1>4. PICK todo, to :
        /\ Continue(h, todo)
        /\ \/ todo = <<Transition(status), Finish(status)>>
           \/ /\ todo = <<Transition(status), Finish(status), SetStatus(to)>>
              /\ to = "dry_run" \/ (to = "applied" /\ Reached(a))
  BY <1>2, <1>3
<1>5. todo # <<>>
  BY <1>4, TwoCalls, ThreeCalls
<1>6. Others(h) /\ proc'[h].about = a /\ proc'[h].todo = todo
  BY <1>4, <1>5, ContinueOK DEF IInv, RequestsOK, About
<1>7. RequestOK(a, todo)
  BY <1>1, <1>4 DEF RequestOK, ExecutionOK, Ending
<1> QED
  BY <1>1, <1>6, <1>7, QuietStep, AtWorkOn

LEMMA SendApplyStep ==
  ASSUME IInv, NEW h \in Handlers, SendApply(h)
  PROVE  IInv'
<1>1. PICK a : a = About(h)
  OBVIOUS
<1>2. /\ a \in Approvals /\ Spent(a) /\ operations[a] = "running" /\ restores[a] = "running"
      /\ applied[a] = "no"
  BY <1>1, AtApply DEF SendApply
<1>3. CASE applied' = [applied EXCEPT ![a] = "sent"] /\ Continue(h, <<Await>>)
  <2>1. UNCHANGED <<packages, approvals, operations, restores, live>>
    BY DEF SendApply, stored
  <2>2. applied'[a] = "sent" /\ \A b \in Approvals \ {a} : applied'[b] = applied[b]
    BY <1>2, <1>3 DEF IInv, Typed
  <2>3. Others(h) /\ proc'[h].about = a /\ proc'[h].todo = <<Await>>
    BY <1>1, <1>3, ContinueOK, OneCall DEF IInv, RequestsOK, About
  <2>4. Spent(a)'
    BY <1>2, <2>1 DEF Spent
  <2>5. RequestOK(a, proc[h].todo)'
    BY <1>2, <2>1, <2>3, <2>4 DEF RequestOK, ExecutionOK, Applying
  <2>6. Typed'
    BY <1>2, <1>3, <2>1 DEF IInv, Typed, ApplyStates
  <2>7. \A g \in Handlers \ {h} : ~(Busy(g) /\ About(g) = a)
    BY <1>1, AtExecution DEF SendApply, Calls
  <2> QED
    BY <1>2, <2>1, <2>2, <2>3, <2>4, <2>5, <2>6, <2>7, ExecutionStep DEF Spent, Reached
<1>4. CASE Continue(h, End("failed")) /\ UNCHANGED applied
  <2>1. UNCHANGED <<stored, owner>>
    BY <1>4 DEF SendApply, owner
  <2> QED
    BY <1>1, <1>2, <1>4, <2>1, EndStep DEF SendApply, Outcome
<1> QED
  BY <1>1, <1>3, <1>4 DEF SendApply

LEMMA ApplyAnswersStep ==
  ASSUME IInv, NEW h \in Handlers, ApplyAnswers(h)
  PROVE  IInv'
<1>1. PICK a : a = About(h)
  OBVIOUS
<1>2. CASE applied[a] = "refused" /\ Continue(h, End("failed") \o <<SetStatus("dry_run")>>)
  BY <1>1, <1>2, EndStep DEF ApplyAnswers, Outcome
<1>3. CASE /\ applied[a] \in {"done", "deviated"}
           /\ Continue(h, End(IF Verified(a) THEN "completed" ELSE "partially_completed")
                            \o <<SetStatus("applied")>>)
  <2>1. PICK status : status = IF Verified(a) THEN "completed" ELSE "partially_completed"
    OBVIOUS
  <2>2. Outcome(a, status) /\ Reached(a)
    BY <1>3, <2>1 DEF Outcome, Reached, Verified
  <2> QED
    BY <1>1, <1>3, <2>1, <2>2, EndStep DEF ApplyAnswers
<1> QED
  BY <1>1, <1>2, <1>3 DEF ApplyAnswers

LEMMA ApplyTimesOutStep ==
  ASSUME IInv, NEW h \in Handlers, ApplyTimesOut(h)
  PROVE  IInv'
  BY EndStep DEF ApplyTimesOut, Outcome

LEMMA FinishRestoreStep ==
  ASSUME IInv, NEW h \in Handlers, FinishRestore(h)
  PROVE  IInv'
<1>1. PICK a, todo : a = About(h) /\ todo = proc[h].todo
  OBVIOUS
<1>2. ExecutionOK(a, todo) /\ Head(todo).call = "finish"
  BY <1>1, AtExecution DEF FinishRestore, Calls
<1>3. a \in Approvals /\ Spent(a) /\ Ending(a, todo)
  BY <1>2, FirstCalls DEF ExecutionOK
<1>4. PICK status, to :
        /\ Outcome(a, status) /\ operations[a] = status
        /\ \/ todo = <<Finish(status)>>
           \/ /\ todo = <<Finish(status), SetStatus(to)>>
              /\ to = "dry_run" \/ (to = "applied" /\ Reached(a))
  <2>1. ASSUME NEW status, NEW to,
               \/ todo = <<Transition(status), Finish(status)>>
               \/ todo = <<Transition(status), Finish(status), SetStatus(to)>>
               \/ todo = <<SetStatus(to)>>
        PROVE  FALSE
    BY <1>2, <2>1, CallNames, OneCall, TwoCalls, ThreeCalls
  <2> QED
    BY <1>3, <2>1 DEF Ending
<1>5. PICK rest : rest = Rest(h)
  OBVIOUS
<1>6. /\ Argument(h).status = status
      /\ rest = <<>> \/ (rest = <<SetStatus(to)>> /\ (to = "dry_run" \/ (to = "applied" /\ Reached(a))))
  <2>1. Argument(h) = Head(todo) /\ rest = Tail(todo)
    BY <1>1, <1>5 DEF Argument, Rest
  <2>2. CASE todo = <<Finish(status)>>
    BY <2>1, <2>2, CallNames, OneCall
  <2>3. CASE /\ todo = <<Finish(status), SetStatus(to)>>
             /\ to = "dry_run" \/ (to = "applied" /\ Reached(a))
    BY <2>1, <2>3, CallNames, TwoCalls
  <2> QED
    BY <1>4, <2>2, <2>3
<1>7. UNCHANGED <<packages, approvals, operations, live, applied>>
  BY DEF FinishRestore, owner
<1>8. restores' = [restores EXCEPT ![a] = status] /\ Continue(h, rest)
  BY <1>1, <1>5, <1>6 DEF FinishRestore
<1>9. restores'[a] = status /\ \A b \in Approvals \ {a} : restores'[b] = restores[b]
  BY <1>3, <1>8 DEF IInv, Typed
<1>10. Others(h) /\ (Busy(h)' => proc'[h].about = a /\ proc'[h].todo = rest /\ rest # <<>>)
  BY <1>1, <1>8, ContinueOK DEF IInv, RequestsOK, About, Busy
<1>11. Spent(a)' /\ approvals[a] # NoRow /\ (Reached(a) <=> Reached(a)')
  BY <1>3, <1>7 DEF Spent, Reached
<1>12. Busy(h)' => RequestOK(a, proc[h].todo)'
  <2> SUFFICES ASSUME Busy(h)'
               PROVE  RequestOK(a, proc[h].todo)'
    OBVIOUS
  <2>1. proc'[h].todo = <<SetStatus(to)>> /\ (to = "dry_run" \/ (to = "applied" /\ Reached(a)'))
    BY <1>6, <1>10, <1>11
  <2>2. Outcome(a, status)'
    BY <1>4, <1>7 DEF Outcome
  <2>3. Ending(a, proc[h].todo)'
    BY <2>1, <2>2 DEF Ending
  <2> QED
    BY <1>3, <1>11, <2>3 DEF RequestOK, ExecutionOK
<1>13. Typed'
  BY <1>3, <1>4, <1>7, <1>8 DEF IInv, Typed, RestoreStatuses, Outcome
<1>14. \A g \in Handlers \ {h} : ~(Busy(g) /\ About(g) = a)
  BY <1>1, AtExecution DEF FinishRestore, Calls
<1> QED
  BY <1>3, <1>4, <1>7, <1>9, <1>10, <1>11, <1>12, <1>13, <1>14, ExecutionStep DEF Outcome

\* Requests at work when the ledger or the owner's rows move by other means.
LEMMA RequestsKept ==
  ASSUME IInv, UNCHANGED <<packages, approvals, restores, proc>>,
         \A a \in Approvals :
           /\ applied'[a] = applied[a] \/ applied[a] = "sent"
           /\ operations'[a] = operations[a] \/ ~AtWork(a)
  PROVE  RequestsOK'
<1>1. \A h \in Handlers : Busy(h)' => RequestOK(About(h), proc[h].todo)'
  <2> SUFFICES ASSUME NEW h \in Handlers, Busy(h)
               PROVE  RequestOK(About(h), proc[h].todo)'
    BY DEF Busy
  <2>1. PICK x, todo : x = About(h) /\ todo = proc[h].todo
    OBVIOUS
  <2>2. RequestOK(x, todo)
    BY <2>1 DEF IInv, RequestsOK
  <2>3. x \in Approvals => Spent(x)' /\ operations'[x] = operations[x]
    BY <2>1, <2>2, RestoreAssumption DEF RequestOK, StoringOK, StagingOK, ExecutionOK, Spent, AtWork, IInv, RequestsOK
  <2>4. RequestOK(x, todo)'
    BY <2>2, <2>3, RequestKept DEF Exists
  <2> QED
    BY <2>1, <2>4 DEF About
<1> QED
  BY <1>1 DEF IInv, RequestsOK, Busy, About

LEMMA SweepStrandedStep ==
  ASSUME IInv, NEW a \in Approvals, SweepStranded(a)
  PROVE  IInv'
<1>1. /\ operations' = [operations EXCEPT ![a] = "failed"] /\ operations[a] \in {"submitted", "accepted"}
      /\ ~AtWork(a) /\ UNCHANGED <<packages, approvals, restores, live, applied, proc>>
  BY DEF SweepStranded, owner
<1>2. operations'[a] = "failed" /\ \A b \in Approvals \ {a} : operations'[b] = operations[b]
  BY <1>1 DEF IInv, Typed
<1>3. applied[a] = "no" /\ restores[a] = "none" /\ Spent(a)
  BY <1>1 DEF IInv, LedgerOK
<1>4. Typed'
  BY <1>1 DEF IInv, Typed, OperationStatuses
<1>5. RequestsOK'
  BY <1>1, <1>2, RequestsKept
<1>6. LedgerOK' /\ OutcomeIsTrue' /\ RestoreFollowsLedger'
  BY <1>1, <1>2, <1>3 DEF IInv, LedgerOK, OutcomeIsTrue, RestoreFollowsLedger, Spent, Exists
<1> QED
  BY <1>1, <1>4, <1>5, <1>6 DEF IInv, AppliedWasApplied, StagedOnce, Staged

LEMMA OwnerAppliesStep ==
  ASSUME IInv, NEW a \in Approvals, OwnerApplies(a)
  PROVE  IInv'
<1>1. applied[a] = "sent" /\ UNCHANGED <<packages, approvals, operations, restores, proc>>
  BY DEF OwnerApplies, stored
<1>2. PICK to \in {"refused", "done", "deviated"} : applied' = [applied EXCEPT ![a] = to]
  BY DEF OwnerApplies
<1>3. applied'[a] = to /\ \A b \in Approvals \ {a} : applied'[b] = applied[b]
  BY <1>2 DEF IInv, Typed
<1>4. live' \in Contents
  <2>1. CASE applied' = [applied EXCEPT ![a] = "done"] /\ live' = packages[approvals[a].package].content
    <3>1. operations[a] \notin {"none"}
      BY <1>1 DEF IInv, LedgerOK
    <3>2. approvals[a] # NoRow /\ packages[approvals[a].package] # NoRow
      BY <3>1 DEF IInv, LedgerOK, Spent, Exists
    <3>3. approvals[a].package \in Packages
      BY <3>2 DEF IInv, Typed, ApprovalRows
    <3>4. packages[approvals[a].package] \in PackageRows
      BY <3>2, <3>3 DEF IInv, Typed
    <3> QED
      BY <2>1, <3>4 DEF PackageRows
  <2> QED
    BY <2>1 DEF OwnerApplies, IInv, Typed
<1>5. Typed'
  BY <1>1, <1>2, <1>4 DEF IInv, Typed, ApplyStates
<1>6. RequestsOK'
  BY <1>1, <1>3, RequestsKept
<1>7. LedgerOK' /\ OutcomeIsTrue' /\ RestoreFollowsLedger'
  BY <1>1, <1>3 DEF IInv, LedgerOK, OutcomeIsTrue, RestoreFollowsLedger, Spent, Exists
<1>8. AppliedWasApplied'
  BY <1>1, <1>3 DEF IInv, AppliedWasApplied
<1> QED
  BY <1>1, <1>5, <1>6, <1>7, <1>8 DEF IInv, StagedOnce, Staged

LEMMA OwnerChangesStep ==
  ASSUME IInv, OwnerChanges
  PROVE  IInv'
<1>1. live' \in Contents /\ UNCHANGED <<packages, approvals, operations, restores, applied, proc>>
  BY DEF OwnerChanges, stored
<1>2. RequestsOK'
  BY <1>1, RequestsKept
<1> QED
  BY <1>1, <1>2 DEF IInv, Typed, LedgerOK, OutcomeIsTrue, RestoreFollowsLedger, AppliedWasApplied,
     StagedOnce, Staged, Spent, Exists

LEMMA NextIInv == IInv /\ [Next]_vars => IInv'
<1> SUFFICES ASSUME IInv, [Next]_vars
             PROVE  IInv'
  OBVIOUS
<1>1. ASSUME NEW h \in Handlers, NEW p \in Packages, SubmitPackage(h, p)
      PROVE  IInv'
  BY <1>1, StorePackageStep DEF SubmitPackage, Purposes
<1>2. ASSUME NEW h \in Handlers, NEW p \in Packages, CaptureSnapshot(h, p)
      PROVE  IInv'
  <2>1. PICK content : content = live /\ content \in Contents
    BY DEF IInv, Typed
  <2>2. StorePackage(h, p, content, "backup")
    BY <1>2, <2>1 DEF CaptureSnapshot
  <2> QED
    BY <2>1, <2>2, StorePackageStep DEF Purposes
<1>3. ASSUME NEW h \in Handlers, NEW p \in Packages, NEW a \in Approvals,
             CreateRollbackPackage(h, p, a)
      PROVE  IInv'
  <2>1. operations[a] # "none"
    BY <1>3 DEF CreateRollbackPackage, IInv, RestoreFollowsLedger
  <2>2. PICK content : content = approvals[a].before /\ content \in Contents
    BY <2>1 DEF IInv, LedgerOK, Spent, Typed, ApprovalRows
  <2>3. StorePackage(h, p, content, "restore")
    BY <1>3, <2>2 DEF CreateRollbackPackage
  <2> QED
    BY <2>2, <2>3, StorePackageStep DEF Purposes
<1>4. ASSUME NEW h \in Handlers, Step(h)
      PROVE  IInv'
  BY <1>4, InsertPackageStep, DryRunAnswersStep, WriteStatusStep, InsertApprovalStep, WriteLedgerStep, StartRestoreStep,
     SendApplyStep, ApplyAnswersStep, ApplyTimesOutStep, FinishRestoreStep, AbandonStep DEF Step
<1>5. CASE UNCHANGED vars
  <2>1. UNCHANGED <<packages, approvals, operations, restores, live, applied, proc>>
    BY <1>5 DEF vars, stored, owner
  <2>2. RequestsOK'
    BY <2>1, RequestsKept
  <2> QED
    BY <2>1, <2>2 DEF IInv, Typed, LedgerOK, OutcomeIsTrue, RestoreFollowsLedger, AppliedWasApplied,
       StagedOnce, Staged, Spent, Exists
<1> QED
  BY <1>1, <1>2, <1>3, <1>4, <1>5, DryRunPackageStep, ExecuteApprovalStep, DecideStep,
     SweepStrandedStep, OwnerAppliesStep, OwnerChangesStep DEF Next

LEMMA Invariance == Spec => []IInv
  BY InitIInv, NextIInv, PTL DEF Spec

\* A restore recorded as completed was carried out as approved, and one
\* recorded as failed was not carried out, whatever stops or times out in
\* between (executeRestoreApply).
THEOREM RestoreOutcomeIsTrue == Spec => []OutcomeIsTrue
<1>1. IInv => OutcomeIsTrue
  BY DEF IInv
<1> QED
  BY Invariance, <1>1, PTL

\* A restore's row that has ended agrees with the ledger (finishRestore after
\* transitionOperation, in executeRestoreApply).
THEOREM RowFollowsLedger == Spec => []RestoreFollowsLedger
<1>1. IInv => RestoreFollowsLedger
  BY DEF IInv
<1> QED
  BY Invariance, <1>1, PTL

\* A package shown as applied has been applied (setPackageStatus, whose UPDATE
\* does not look at the status it replaces).
THEOREM ShownIsApplied == Spec => []AppliedWasApplied
<1>1. IInv => AppliedWasApplied
  BY DEF IInv
<1> QED
  BY Invariance, <1>1, PTL

\* A content is staged for apply by one package at a time (the partial unique
\* index of migration 0016, against every status write).
THEOREM ContentStagedOnce == Spec => []StagedOnce
<1>1. IInv => StagedOnce
  BY DEF IInv
<1> QED
  BY Invariance, <1>1, PTL

\* The packages, the approvals, the restores, the owner and the requests keep
\* their types, for any numbers of them.
THEOREM RestoreTypesHold == Spec => []TypeOK
<1> DEFINE Counted == changes \in 0..MaxChanges
<1>1. ASSUME NEW x, NEW todo, RequestOK(x, todo)
      PROVE  todo # <<>> /\ \A i \in DOMAIN todo : todo[i] \in HandlerCalls
  <2>1. /\ \A requests \in BOOLEAN : OwnerDryRun(requests) \in HandlerCalls
        /\ \A to \in PackageStatuses : SetStatus(to) \in HandlerCalls
        /\ \A before \in Contents : CreateApproval(before) \in HandlerCalls
        /\ \A row \in PackageRows : Insert(row) \in HandlerCalls
        /\ \A to \in OperationStatuses : Transition(to) \in HandlerCalls
        /\ \A status \in RestoreStatuses : Finish(status) \in HandlerCalls
        /\ InsertRestore \in HandlerCalls /\ Apply \in HandlerCalls /\ Await \in HandlerCalls
    BY DEF HandlerCalls
  <2>2. /\ {"submitted", "accepted", "running", "completed", "failed", "partially_completed"}
             \subseteq OperationStatuses
        /\ {"dry_run", "approval_requested", "applied"} \subseteq PackageStatuses
        /\ {"completed", "failed", "partially_completed"} \subseteq RestoreStatuses
    BY DEF OperationStatuses, PackageStatuses, RestoreStatuses
  <2>3. \/ \E a \in HandlerCalls : todo = <<a>>
        \/ \E a, b \in HandlerCalls : todo = <<a, b>>
        \/ \E a, b, c \in HandlerCalls : todo = <<a, b, c>>
        \/ \E a, b, c, d \in HandlerCalls : todo = <<a, b, c, d>>
        \/ \E a, b, c, d, e \in HandlerCalls : todo = <<a, b, c, d, e>>
    <3>1. CASE StoringOK(x, todo) \/ StagingOK(x, todo)
      BY <2>1, <2>2, <3>1 DEF StoringOK, StagingOK
    <3>2. CASE Opening(x, todo) \/ Applying(x, todo)
      BY <2>1, <2>2, <3>2 DEF Opening, Applying
    <3>3. CASE Ending(x, todo)
      <4>1. \A status : Outcome(x, status) =>
              Transition(status) \in HandlerCalls /\ Finish(status) \in HandlerCalls
        BY <2>1, <2>2 DEF Outcome
      <4>2. SetStatus("dry_run") \in HandlerCalls /\ SetStatus("applied") \in HandlerCalls
        BY <2>1, <2>2
      <4> QED
        BY <3>3, <4>1, <4>2 DEF Ending
    <3> QED
      BY <1>1, <3>1, <3>2, <3>3 DEF RequestOK, ExecutionOK
  <2>4. CASE \E a \in HandlerCalls : todo = <<a>>
    BY <2>4
  <2>5. CASE \E a, b \in HandlerCalls : todo = <<a, b>>
    BY <2>5
  <2>6. CASE \E a, b, c \in HandlerCalls : todo = <<a, b, c>>
    BY <2>6
  <2>7. CASE \E a, b, c, d \in HandlerCalls : todo = <<a, b, c, d>>
    BY <2>7
  <2>8. CASE \E a, b, c, d, e \in HandlerCalls : todo = <<a, b, c, d, e>>
    BY <2>8
  <2> QED
    BY <2>3, <2>4, <2>5, <2>6, <2>7, <2>8
<1>2. ASSUME NEW x, NEW todo, RequestOK(x, todo)
      PROVE  x \in Packages \cup Approvals
  BY <1>2 DEF RequestOK, StoringOK, StagingOK, ExecutionOK
<1>3. IInv => HandlersOK(Packages \cup Approvals, HandlerCalls)
  BY <1>1, <1>2 DEF IInv, RequestsOK, HandlersOK
<1>4. Init => Counted
  BY RestoreAssumption DEF Init
<1>5. Counted /\ [Next]_vars => Counted'
  <2>1. [Next]_vars => UNCHANGED changes \/ (changes < MaxChanges /\ changes' = changes + 1)
    <3>1. \A h \in Handlers : Step(h) => UNCHANGED changes
      BY DEF Step, InsertPackage, DryRunAnswers, WriteStatus, InsertApproval, WriteLedger,
         StartRestore, SendApply, ApplyAnswers, ApplyTimesOut, FinishRestore, Abandon, owner
    <3>2. \A h \in Handlers, p \in Packages :
            /\ SubmitPackage(h, p) \/ CaptureSnapshot(h, p) \/ DryRunPackage(h, p) => UNCHANGED changes
            /\ \A a \in Approvals : CreateRollbackPackage(h, p, a) => UNCHANGED changes
      BY DEF SubmitPackage, CaptureSnapshot, CreateRollbackPackage, StorePackage, DryRunPackage, owner
    <3>3. \A a \in Approvals :
            /\ Decide(a) \/ SweepStranded(a) => UNCHANGED changes
            /\ OwnerApplies(a) => UNCHANGED changes \/ (changes < MaxChanges /\ changes' = changes + 1)
            /\ \A h \in Handlers : ExecuteApproval(h, a) => UNCHANGED changes
      BY DEF Decide, SweepStranded, OwnerApplies, ExecuteApproval, owner
    <3>4. UNCHANGED vars => UNCHANGED changes
      BY DEF vars, owner
    <3> QED
      BY <3>1, <3>2, <3>3, <3>4 DEF Next, OwnerChanges
  <2> QED
    BY <2>1, RestoreAssumption
<1>6. IInv /\ Counted => TypeOK
  BY <1>3 DEF IInv, Typed, TypeOK
<1> HIDE DEF Counted
<1> QED
  BY InitIInv, NextIInv, <1>4, <1>5, <1>6, PTL DEF Spec
===============================================================================
