------------------------ MODULE RequestHandlersProofs ------------------------
(***************************************************************************)
(* What the steps of a request leave behind, for the modules whose         *)
(* requests are lists of calls.                                            *)
(***************************************************************************)
EXTENDS RequestHandlers, Integers, SequenceTheorems, TLAPS

\* Only request h moves.
Others(h) == /\ DOMAIN proc' = DOMAIN proc
             /\ \A g \in DOMAIN proc \ {h} : proc'[g] = proc[g]

\* A request that has begun, or goes on, is at work on these calls.
LEMMA BeginOK ==
  ASSUME NEW h \in DOMAIN proc, NEW x, NEW todo, todo # <<>>, Begin(h, x, todo)
  PROVE  /\ proc'[h].todo = todo /\ proc'[h].about = x /\ proc'[h] # Idle
         /\ Others(h)
  BY DEF Begin, Idle, Others

\* A request that has ended is idle.
LEMMA StopOK ==
  ASSUME NEW h \in DOMAIN proc, Stop(h)
  PROVE  proc'[h] = Idle /\ Others(h)
  BY DEF Stop, Others

\* A request that goes on keeps what it is about.
LEMMA ContinueOK ==
  ASSUME NEW h \in DOMAIN proc, NEW todo, Continue(h, todo)
  PROVE  /\ IF todo = <<>> THEN proc'[h] = Idle
                           ELSE proc'[h].todo = todo /\ proc'[h].about = proc[h].about
                                  /\ proc'[h] # Idle
         /\ Others(h)
<1>1. CASE todo = <<>>
  BY <1>1, StopOK DEF Continue
<1>2. CASE todo # <<>>
  BY <1>2, BeginOK DEF Continue, About
<1> QED
  BY <1>1, <1>2

\* The first call and the rest of short lists of calls.
LEMMA OneCall ==
  ASSUME NEW a
  PROVE  <<a>> # <<>> /\ Head(<<a>>) = a /\ Tail(<<a>>) = <<>>
  OBVIOUS

LEMMA TwoCalls ==
  ASSUME NEW a, NEW b
  PROVE  <<a, b>> # <<>> /\ Head(<<a, b>>) = a /\ Tail(<<a, b>>) = <<b>>
  OBVIOUS

LEMMA ThreeCalls ==
  ASSUME NEW a, NEW b, NEW c
  PROVE  <<a, b, c>> # <<>> /\ Head(<<a, b, c>>) = a /\ Tail(<<a, b, c>>) = <<b, c>>
  OBVIOUS

LEMMA FourCalls ==
  ASSUME NEW a, NEW b, NEW c, NEW d
  PROVE  <<a, b, c, d>> # <<>> /\ Head(<<a, b, c, d>>) = a /\ Tail(<<a, b, c, d>>) = <<b, c, d>>
  OBVIOUS

LEMMA FiveCalls ==
  ASSUME NEW a, NEW b, NEW c, NEW d, NEW e
  PROVE  /\ <<a, b, c, d, e>> # <<>> /\ Head(<<a, b, c, d, e>>) = a
         /\ Tail(<<a, b, c, d, e>>) = <<b, c, d, e>>
  OBVIOUS

LEMMA JoinedCalls ==
  ASSUME NEW a, NEW b, NEW c
  PROVE  <<a, b>> \o <<c>> = <<a, b, c>>
<1> DEFINE S == {a, b, c}
           joined == <<a, b>> \o <<c>>
<1>1. <<a, b>> \in Seq(S) /\ <<c>> \in Seq(S) /\ <<a, b, c>> \in Seq(S)
  OBVIOUS
<1>2. Len(<<a, b>>) = 2 /\ Len(<<c>>) = 1 /\ Len(<<a, b, c>>) = 3
  OBVIOUS
<1>3. /\ joined \in Seq(S) /\ Len(joined) = 3
      /\ \A i \in 1..3 : joined[i] = IF i <= 2 THEN <<a, b>>[i] ELSE <<c>>[i - 2]
  BY <1>1, <1>2, ConcatProperties
<1>4. joined[1] = a /\ joined[2] = b /\ joined[3] = c
  BY <1>3
<1>5. \A i \in 1..3 : joined[i] = <<a, b, c>>[i]
  BY <1>4
<1> HIDE DEF joined
<1>6. joined = <<a, b, c>>
  BY <1>1, <1>2, <1>3, <1>5, SeqEqual
<1> QED
  BY <1>6 DEF joined

LEMMA JoinedPairs ==
  ASSUME NEW a, NEW b, NEW c, NEW d
  PROVE  <<a, b>> \o <<c, d>> = <<a, b, c, d>>
<1> DEFINE S == {a, b, c, d}
           joined == <<a, b>> \o <<c, d>>
<1>1. <<a, b>> \in Seq(S) /\ <<c, d>> \in Seq(S) /\ <<a, b, c, d>> \in Seq(S)
  OBVIOUS
<1>2. Len(<<a, b>>) = 2 /\ Len(<<c, d>>) = 2 /\ Len(<<a, b, c, d>>) = 4
  OBVIOUS
<1>3. /\ joined \in Seq(S) /\ Len(joined) = 4
      /\ \A i \in 1..4 : joined[i] = IF i <= 2 THEN <<a, b>>[i] ELSE <<c, d>>[i - 2]
  BY <1>1, <1>2, ConcatProperties
<1>4. joined[1] = a /\ joined[2] = b /\ joined[3] = c /\ joined[4] = d
  BY <1>3
<1>5. \A i \in 1..4 : joined[i] = <<a, b, c, d>>[i]
  BY <1>4
<1> HIDE DEF joined
<1>6. joined = <<a, b, c, d>>
  BY <1>1, <1>2, <1>3, <1>5, SeqEqual
<1> QED
  BY <1>6 DEF joined

LEMMA EmptyConcat ==
  ASSUME NEW a, NEW b
  PROVE  <<>> \o <<a, b>> = <<a, b>>
<1>1. <<a, b>> \in Seq({a, b})
  OBVIOUS
<1> QED
  BY <1>1, ConcatEmptySeq

\* A call put before a list of calls.
LEMMA Prepended ==
  ASSUME NEW S, NEW a \in S, NEW s \in Seq(S)
  PROVE  <<a>> \o s \in Seq(S) /\ <<a>> \o s # <<>> /\ Head(<<a>> \o s) = a /\ Tail(<<a>> \o s) = s
<1> DEFINE t == <<a>> \o s
<1>1. <<a>> \in Seq(S) /\ Len(<<a>>) = 1 /\ <<a>>[1] = a
  OBVIOUS
<1>2. /\ t \in Seq(S) /\ Len(t) = 1 + Len(s) /\ Len(s) \in Nat
      /\ \A i \in 1..1 + Len(s) : t[i] = IF i <= 1 THEN <<a>>[i] ELSE s[i - 1]
  BY <1>1, ConcatProperties, LenProperties
<1> HIDE DEF t
<1>3. t # <<>>
  BY <1>2, EmptySeq
<1>4. /\ Tail(t) \in Seq(S) /\ Len(Tail(t)) = Len(s)
      /\ \A i \in 1..Len(s) : Tail(t)[i] = t[i + 1]
  BY <1>2, <1>3, HeadTailProperties
<1>5. \A i \in 1..Len(s) : Tail(t)[i] = s[i]
  BY <1>2, <1>4
<1>6. Tail(t) = s
  BY <1>4, <1>5, SeqEqual
<1>7. Head(t) = a
  BY <1>1, <1>2
<1> QED
  BY <1>2, <1>3, <1>6, <1>7 DEF t

\* Two calls, one put before the other.
LEMMA Paired ==
  ASSUME NEW a, NEW b
  PROVE  <<a>> \o <<b>> = <<a, b>>
<1> DEFINE S == {a, b}
<1>1. <<a>> \in Seq(S) /\ <<b>> \in Seq(S) /\ Len(<<a>>) = 1 /\ Len(<<b>>) = 1
      /\ <<a>>[1] = a /\ <<b>>[1] = b
  OBVIOUS
<1> DEFINE t == <<a>> \o <<b>>
<1>2. /\ t \in Seq(S) /\ Len(t) = 2
      /\ \A i \in 1..2 : t[i] = IF i <= 1 THEN <<a>>[i] ELSE <<b>>[i - 1]
  BY <1>1, ConcatProperties
<1>3. t[1] = a /\ t[2] = b
  <2>1. 1 \in 1..2 /\ 2 \in 1..2 /\ 2 - 1 = 1 /\ ~(2 <= 1)
    OBVIOUS
  <2> HIDE DEF t
  <2> QED
    BY <1>1, <1>2, <2>1
<1>4. <<a, b>> \in Seq(S) /\ Len(<<a, b>>) = 2 /\ <<a, b>>[1] = a /\ <<a, b>>[2] = b
  OBVIOUS
<1>5. \A i \in 1..2 : t[i] = <<a, b>>[i]
  <2> HIDE DEF t
  <2> QED
    BY <1>3, <1>4
<1> HIDE DEF t
<1>6. t = <<a, b>>
  BY <1>2, <1>4, <1>5, SeqEqual
<1> QED
  BY <1>6 DEF t

LEMMA PairPrepended ==
  ASSUME NEW S, NEW a \in S, NEW b \in S, NEW s \in Seq(S)
  PROVE  /\ <<a, b>> \o s # <<>> /\ Head(<<a, b>> \o s) = a
         /\ Tail(<<a, b>> \o s) = <<b>> \o s
<1>1. <<a>> \in Seq(S) /\ <<b>> \in Seq(S) /\ <<b>> \o s \in Seq(S)
  BY Prepended
<1>2. <<a>> \o <<b>> = <<a, b>>
  BY Paired
<1>3. (<<a>> \o <<b>>) \o s = <<a>> \o (<<b>> \o s)
  BY <1>1, ConcatAssociative
<1>4. <<a, b>> \o s = <<a>> \o (<<b>> \o s)
  BY <1>2, <1>3
<1> QED
  BY <1>1, <1>4, Prepended

(***************************************************************************)
(* Types                                                                   *)
(***************************************************************************)
\* HandlersOK, with lists of calls that are sequences of them.
HandlersTyped(Subjects, Calls_) ==
  /\ DOMAIN proc = Handlers
  /\ \A h \in Handlers :
       Busy(h) => About(h) \in Subjects /\ proc[h].todo # <<>> /\ proc[h].todo \in Seq(Calls_)

LEMMA HandlersTypedOK ==
  ASSUME NEW S, NEW C, HandlersTyped(S, C)
  PROVE  HandlersOK(S, C)
<1> SUFFICES ASSUME NEW h \in Handlers, Busy(h)
             PROVE  /\ About(h) \in S /\ proc[h].todo # <<>>
                    /\ \A i \in DOMAIN proc[h].todo : proc[h].todo[i] \in C
  BY DEF HandlersTyped, HandlersOK
<1>1. PICK todo \in Seq(C) : todo = proc[h].todo
  BY DEF HandlersTyped
<1>2. \A i \in DOMAIN todo : todo[i] \in C
  BY ElementOfSeq, LenProperties
<1> QED
  BY <1>1, <1>2 DEF HandlersTyped

LEMMA IdleTyped ==
  ASSUME NEW S, NEW C, proc = [h \in Handlers |-> Idle]
  PROVE  HandlersTyped(S, C)
  BY DEF HandlersTyped, Busy

LEMMA SameTyped ==
  ASSUME NEW S, NEW C, HandlersTyped(S, C), UNCHANGED proc
  PROVE  HandlersTyped(S, C)'
  BY DEF HandlersTyped, Busy, About

LEMMA CallTyped ==
  ASSUME NEW S, NEW C, HandlersTyped(S, C), NEW h \in Handlers, Busy(h)
  PROVE  /\ h \in DOMAIN proc /\ About(h) \in S
         /\ Argument(h) \in C /\ Rest(h) \in Seq(C)
<1>1. PICK todo \in Seq(C) : todo = proc[h].todo /\ todo # <<>>
  BY DEF HandlersTyped
<1>2. Head(todo) \in C /\ Tail(todo) \in Seq(C)
  BY <1>1, HeadTailProperties
<1> QED
  BY <1>1, <1>2 DEF HandlersTyped, Argument, Rest

LEMMA BeginTyped ==
  ASSUME NEW S, NEW C, HandlersTyped(S, C), NEW h \in Handlers, NEW x \in S,
         NEW todo \in Seq(C), todo # <<>>, Begin(h, x, todo)
  PROVE  HandlersTyped(S, C)'
<1>1. proc'[h].todo = todo /\ proc'[h].about = x /\ Others(h)
  BY BeginOK DEF HandlersTyped
<1> QED
  BY <1>1 DEF HandlersTyped, Others, Busy, About

LEMMA StopTyped ==
  ASSUME NEW S, NEW C, HandlersTyped(S, C), NEW h \in Handlers, Stop(h)
  PROVE  HandlersTyped(S, C)'
<1>1. proc'[h] = Idle /\ Others(h)
  BY StopOK DEF HandlersTyped
<1> QED
  BY <1>1 DEF HandlersTyped, Others, Busy, About

LEMMA ContinueTyped ==
  ASSUME NEW S, NEW C, HandlersTyped(S, C), NEW h \in Handlers, Busy(h),
         NEW todo \in Seq(C), Continue(h, todo)
  PROVE  HandlersTyped(S, C)'
<1>1. CASE todo = <<>>
  BY <1>1, StopTyped DEF Continue
<1>2. CASE todo # <<>>
  BY <1>2, BeginTyped DEF Continue, HandlersTyped
<1> QED
  BY <1>1, <1>2
===============================================================================
