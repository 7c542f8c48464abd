--------------------------- MODULE MetricsProofs ---------------------------
(***************************************************************************)
(* Type correctness of Metrics, the pace of its lines and what the lines   *)
(* report, for every pace, every difference of the clocks and every bound. *)
(*                                                                         *)
(* Inv: live counters remember a last_print that no line printed so far is *)
(* later than, those of earlier sessions included.  WindowInv: every line  *)
(* is right about the session and the window that end before it, and live  *)
(* counters are right about the ones that the next line will end.          *)
(***************************************************************************)
EXTENDS Metrics, TLAPS, SequenceTheorems, FiniteSetTheorems, NaturalsInduction,
        WellFoundedInduction

----------------------------------------------------------------------------
(* Types and the pace.                                                     *)

IsLine(e) == e.kind = "line"
LinesUpTo(l, t) == \A i \in DOMAIN l : IsLine(l[i]) => l[i].at <= t
Paced(l) ==
  \A i, j \in DOMAIN l :
    IsLine(l[i]) /\ IsLine(l[j]) /\ i < j => l[j].at - l[i].at >= PrintEvery

\* Counters m, if there are any, follow the lines of l.
Follow(m, l) ==
  m # None => /\ m.windowStart <= now /\ m.lastPrint <= now
              /\ LinesUpTo(l, m.lastPrint)

PaceInv == LinesUpTo(log, now) /\ Paced(log) /\ Follow(metrics, log)
Inv     == TypeOK /\ PaceInv

\* Entries that are no lines change nothing about the lines.
LEMMA NoLineAdded ==
  ASSUME NEW l \in Seq(Entry), NEW es \in Seq(Entry), NEW t \in Nat,
         \A i \in DOMAIN es : ~IsLine(es[i])
  PROVE  /\ l \o es \in Seq(Entry)
         /\ LinesUpTo(l, t) => LinesUpTo(l \o es, t)
         /\ Paced(l) => Paced(l \o es)
<1> DEFINE k == l \o es
<1>1. k \in Seq(Entry)
  BY ConcatProperties
<1>2. \A i \in DOMAIN k : IsLine(k[i]) => i \in DOMAIN l /\ k[i] = l[i]
  <2> SUFFICES ASSUME NEW i \in DOMAIN k, IsLine(k[i])
               PROVE  i \in DOMAIN l /\ k[i] = l[i]
    OBVIOUS
  <2>1. i \in 1 .. Len(l) + Len(es)
    BY ConcatProperties, LenProperties
  <2>2. CASE i <= Len(l)
    BY <2>1, <2>2, ConcatProperties, LenProperties
  <2>3. CASE i > Len(l)
    <3>1. k[i] = es[i - Len(l)] /\ i - Len(l) \in DOMAIN es
      BY <2>1, <2>3, ConcatProperties, LenProperties
    <3> QED  BY <3>1
  <2> QED  BY <2>1, <2>2, <2>3, LenProperties
<1> HIDE DEF k
<1>3. LinesUpTo(l, t) => LinesUpTo(k, t)
  BY <1>2 DEF LinesUpTo
<1>4. Paced(l) => Paced(k)
  BY <1>2 DEF Paced
<1> QED  BY <1>1, <1>3, <1>4 DEF k

\* A line that is late enough keeps the pace.
LEMMA LineAdded ==
  ASSUME NEW l \in Seq(Entry), NEW e \in Entry, IsLine(e), NEW t \in Nat,
         LinesUpTo(l, t), Paced(l), e.at \in Nat, PrintEvery \in Nat,
         e.at - t >= PrintEvery
  PROVE  /\ l \o <<e>> \in Seq(Entry)
         /\ LinesUpTo(l \o <<e>>, e.at)
         /\ Paced(l \o <<e>>)
<1> DEFINE k == l \o <<e>>
<1>1. /\ k \in Seq(Entry) /\ DOMAIN k = 1 .. Len(l) + 1
      /\ \A i \in DOMAIN l : k[i] = l[i]
      /\ k[Len(l) + 1] = e
      /\ DOMAIN l = 1 .. Len(l) /\ Len(l) \in Nat
  BY ConcatProperties, LenProperties
<1>2. \A i \in DOMAIN l : l[i] \in Entry
  BY ElementOfSeq
<1>3. \A i \in DOMAIN l : IsLine(l[i]) => l[i].at \in Nat /\ l[i].at <= t
  BY <1>2 DEF LinesUpTo, IsLine, Entry
<1> HIDE DEF k
<1>4. LinesUpTo(k, e.at)
  BY <1>1, <1>3 DEF LinesUpTo
<1>5. Paced(k)
  <2> SUFFICES ASSUME NEW i \in DOMAIN k, NEW j \in DOMAIN k,
                      IsLine(k[i]), IsLine(k[j]), i < j
               PROVE  k[j].at - k[i].at >= PrintEvery
    BY DEF Paced
  <2>1. i \in DOMAIN l /\ k[i] = l[i]
    BY <1>1
  <2>2. CASE j \in DOMAIN l
    BY <1>1, <2>1, <2>2 DEF Paced
  <2>3. CASE j = Len(l) + 1
    BY <1>1, <1>3, <2>1, <2>3
  <2> QED  BY <1>1, <2>2, <2>3
<1> QED  BY <1>1, <1>4, <1>5 DEF k

\* maybe_print, after events that are no lines.
LEMMA Printing ==
  ASSUME now \in Nat, log \in Seq(Entry), LinesUpTo(log, now), Paced(log),
         PrintEvery \in Nat \ {0},
         NEW m \in Counters \cup {None}, Follow(m, log),
         NEW es \in Seq(Entry), \A i \in DOMAIN es : ~IsLine(es[i]),
         MaybePrint(m, es), now' = now
  PROVE  /\ metrics' \in Counters \cup {None} /\ log' \in Seq(Entry)
         /\ PaceInv'
<1> DEFINE l == log \o es
<1>1. l \in Seq(Entry) /\ LinesUpTo(l, now) /\ Paced(l)
  BY NoLineAdded
<1>2. m # None => m \in Counters /\ m.lastPrint \in Nat /\ LinesUpTo(l, m.lastPrint)
  BY NoLineAdded DEF Follow, Counters
<1> HIDE DEF l
<1>3. CASE metrics' = m /\ log' = l
  <2>1. LinesUpTo(log', now') /\ Paced(log)'
    BY <1>1, <1>3 DEF Paced
  <2>2. Follow(metrics, log)'
    BY <1>2, <1>3 DEF Follow
  <2> QED  BY <1>1, <1>3, <2>1, <2>2 DEF PaceInv
<1>4. CASE /\ m # None /\ now - m.lastPrint >= PrintEvery
           /\ metrics' = NextWindow(m) /\ log' = l \o <<Line(m)>>
  <2>1. m \in Counters /\ m.windowStart <= now
    BY <1>2, <1>4 DEF Follow
  <2>2. SummaryOf(m) \in Summary
    <3>1. m.sum \in Nat /\ m.count \in Nat /\ m.max \in Nat
      BY <2>1 DEF Counters
    <3>2. \A a \in Nat, b \in Nat \ {0} : a \div b \in Nat
      OBVIOUS
    <3> QED  BY <3>1, <3>2 DEF SummaryOf, Summary
  <2>3. Line(m) \in Entry /\ IsLine(Line(m)) /\ Line(m).at = now
    BY <2>1, <2>2 DEF Line, Entry, IsLine, Counters
  <2>4. log' \in Seq(Entry) /\ LinesUpTo(log', now) /\ Paced(log')
    BY <1>1, <1>2, <1>4, <2>3, LineAdded
  <2>5. NextWindow(m) \in Counters /\ NextWindow(m).windowStart = now /\ NextWindow(m).lastPrint = now
    BY <2>1 DEF NextWindow, Counters
  <2>6. Follow(metrics, log)'
    BY <1>4, <2>4, <2>5 DEF Follow
  <2> QED  BY <1>4, <2>4, <2>5, <2>6 DEF PaceInv, Paced
<1>5. m = None \/ now - m.lastPrint < PrintEvery \/ now - m.lastPrint >= PrintEvery
  BY <1>2
<1> QED  BY <1>3, <1>4, <1>5 DEF MaybePrint, l

\* A delta that is counted, by new counters or by those there are.
LEMMA Counting ==
  ASSUME now \in Nat, LinesUpTo(log, now), metrics \in Counters \cup {None},
         Follow(metrics, log), MetricsAssumption, NEW offset \in Offsets \cup {NoTime}
  PROVE  /\ Latency(offset) \in Nat \cup {NoTime}
         /\ Counted(offset) \in Counters
         /\ Follow(Counted(offset), log)
<1> DEFINE m == IF metrics = None THEN New ELSE metrics
<1>1. m \in Counters /\ m.windowStart <= now /\ m.lastPrint <= now /\ LinesUpTo(log, m.lastPrint)
  BY DEF New, Counters, Follow
<1>2. Latency(offset) \in Nat \cup {NoTime}
  BY DEF Latency, MetricsAssumption
<1> HIDE DEF m
<1>3. /\ RecordUpdate(m, Latency(offset)) \in Counters
      /\ RecordUpdate(m, Latency(offset)).windowStart = m.windowStart
      /\ RecordUpdate(m, Latency(offset)).lastPrint = m.lastPrint
  BY <1>1, <1>2 DEF RecordUpdate, Counters
<1> QED  BY <1>1, <1>2, <1>3 DEF Counted, m, Follow

LEMMA Initially == MetricsAssumption /\ Init => Inv
<1> SUFFICES ASSUME MetricsAssumption, Init PROVE Inv
  OBVIOUS
<1>1. log \in Seq(Entry) /\ DOMAIN log = {}
  BY DEF Init
<1> QED
  BY <1>1 DEF Init, Inv, TypeOK, PaceInv, LinesUpTo, Paced, Follow, MetricsAssumption

LEMMA Preserved == MetricsAssumption /\ Inv /\ [Next]_vars => Inv'
<1> SUFFICES ASSUME MetricsAssumption, Inv, [Next]_vars PROVE Inv'
  OBVIOUS
<1> USE DEF Inv, TypeOK, PaceInv
<1>1. /\ now \in Nat /\ PrintEvery \in Nat \ {0} /\ MaxTime \in Nat
      /\ \A i \in DOMAIN log : log[i] \in Entry
  BY ElementOfSeq DEF MetricsAssumption
<1>2. ASSUME Tick PROVE Inv'
  <2>1. LinesUpTo(log, now + 1)
    BY <1>1 DEF LinesUpTo, IsLine, Entry
  <2>2. Follow(metrics, log)'
    BY <1>1, <1>2 DEF Tick, Follow, Counters
  <2> QED  BY <1>1, <1>2, <2>1, <2>2 DEF Tick, Paced, MetricsAssumption
<1>3. ASSUME Start PROVE Inv'
  <2> DEFINE es == <<Event("start")>>
  <2>1. es \in Seq(Entry) /\ (\A i \in DOMAIN es : ~IsLine(es[i]))
    BY <1>1 DEF Event, Entry, IsLine
  <2>2. log' = log \o es
    BY <1>3, AppendIsConcat, <2>1, <1>1 DEF Start, Event, Entry
  <2>3. /\ log' \in Seq(Entry) /\ LinesUpTo(log', now) /\ Paced(log')
        /\ metrics # None => LinesUpTo(log', metrics.lastPrint)
    BY <1>1, <2>1, <2>2, NoLineAdded DEF Counters, Follow
  <2>4. Follow(metrics, log)'
    BY <1>3, <2>3 DEF Start, Follow
  <2> QED  BY <1>3, <2>3, <2>4 DEF Start, Paced
<1>4. ASSUME NEW n \in 0 .. MaxEvents, SeedByRest(n) PROVE Inv'
  <2> DEFINE es == [i \in 1 .. n |-> Event("replayed")]
  <2>1. es \in Seq(Entry) /\ (\A i \in DOMAIN es : ~IsLine(es[i]))
    BY <1>1, IsASeq DEF Event, Entry, IsLine, MetricsAssumption
  <2>2. log' = log \o es
    BY <1>4 DEF SeedByRest
  <2>3. /\ log' \in Seq(Entry) /\ LinesUpTo(log', now) /\ Paced(log')
        /\ metrics # None => LinesUpTo(log', metrics.lastPrint)
    BY <1>1, <2>1, <2>2, NoLineAdded DEF Counters, Follow
  <2>4. Follow(metrics, log)'
    BY <1>4, <2>3 DEF SeedByRest, Follow
  <2> QED  BY <1>4, <2>3, <2>4 DEF SeedByRest, Paced
<1>5. ASSUME Snapshot \/ StaleDelta PROVE Inv'
  <2>1. MaybePrint(metrics, <<>>) /\ now' = now /\ session' \in {"down", "unseeded", "seeded"}
    BY <1>5 DEF Snapshot, StaleDelta
  <2>2. <<>> \in Seq(Entry) /\ (\A i \in DOMAIN <<>> : ~IsLine(<<>>[i]))
    OBVIOUS
  <2> QED  BY <1>1, <2>1, <2>2, Printing
<1>6. ASSUME EndSession PROVE Inv'
  BY <1>6 DEF EndSession, Follow, Paced
<1>7. ASSUME NEW offset \in Offsets \cup {NoTime}, NEW verified \in BOOLEAN,
             Apply(offset, verified)
      PROVE  Inv'
  <2> DEFINE e == [kind |-> "applied", at |-> now, latency |-> Latency(offset)]
  <2>1. CASE EndSession
    BY <1>6, <2>1
  <2>2. CASE MaybePrint(Counted(offset), <<e>>) /\ UNCHANGED <<now, session>>
    <3>1. /\ Latency(offset) \in Nat \cup {NoTime} /\ Counted(offset) \in Counters
          /\ Follow(Counted(offset), log)
      BY <1>1, Counting
    <3>2. e \in Entry /\ ~IsLine(e)
      BY <1>1, <3>1 DEF Entry, IsLine
    <3>3. <<e>> \in Seq(Entry) /\ (\A i \in DOMAIN <<e>> : ~IsLine(<<e>>[i]))
      BY <3>2
    <3> QED  BY <1>1, <2>2, <3>1, <3>3, Printing
  <2> QED  BY <1>7, <2>1, <2>2 DEF Apply
<1>8. CASE UNCHANGED vars
  BY <1>8 DEF vars, Follow, Paced, LinesUpTo
<1> QED  BY <1>2, <1>3, <1>4, <1>5, <1>6, <1>7, <1>8 DEF Next

LEMMA Invariant == Spec => []Inv
BY Initially, Preserved, MetricsAssumption, PTL DEF Spec

\* The counters and the lines stay within their types; no latency is negative.
THEOREM TypeCorrect == Spec => []TypeOK
<1>1. Inv => TypeOK
  BY DEF Inv
<1> QED  BY <1>1, Invariant, PTL

\* Any two lines of the symbol are at least print_every apart, across sessions.
THEOREM LinesPaced == Spec => []LinesArePaced
<1>1. Inv => LinesArePaced
  BY DEF Inv, PaceInv, Paced, LinesArePaced, Lines, Is, IsLine
<1> QED  BY <1>1, Invariant, PTL

----------------------------------------------------------------------------
(* Numbers.                                                                *)

LEMMA HasMin ==
  ASSUME NEW S, S \subseteq Nat, S # {}
  PROVE  \E n \in S : \A k \in S : n <= k
<1>1. PICK n \in S : \A k \in S : <<k, n>> \notin OpToRel(<, Nat)
  BY NatLessThanWellFounded, WFMin
<1>2. \A k \in S : ~(k < n)
  BY <1>1 DEF OpToRel
<1> QED  BY <1>2

----------------------------------------------------------------------------
(* Sums of latencies.  MapThenSumSet takes the elements of a set in an     *)
(* order of its own; h is one run of it on every subset of T.              *)

SumOf(l, T) == MapThenSumSet(LAMBDA k : l[k].latency, T)
Pick(s)     == CHOOSE x \in s : TRUE
IsSum(h, l, T) ==
  h = [s \in SUBSET T |-> IF s = {} THEN 0
                          ELSE l[Pick(s)].latency + h[s \ {Pick(s)}]]

\* T is a set of timed deltas of l, and h a run on it.
AreTimed(l, T) == IsFiniteSet(T) /\ \A k \in T : l[k].latency \in Nat
Run(h, l, T)   == h \in [SUBSET T -> Nat] /\ IsSum(h, l, T)

LEMMA Smaller ==
  ASSUME NEW s, IsFiniteSet(s), NEW x \in s
  PROVE  /\ Cardinality(s) \in Nat /\ Cardinality(s \ {x}) \in Nat
         /\ Cardinality(s \ {x}) = Cardinality(s) - 1
         /\ IsFiniteSet(s \ {x})
BY FS_CardinalityType, FS_RemoveElement

LEMMA PickIs == ASSUME NEW s, s # {} PROVE Pick(s) \in s
BY DEF Pick

LEMMA SumStep ==
  ASSUME NEW h, NEW l, NEW T, IsSum(h, l, T), NEW s \in SUBSET T
  PROVE  /\ s = {} => h[s] = 0
         /\ s # {} => h[s] = l[Pick(s)].latency + h[s \ {Pick(s)}]
BY DEF IsSum

\* Runs exist: take one on the subsets of at most n elements and extend it.
LEMMA SumExists ==
  ASSUME NEW l, NEW T, AreTimed(l, T)
  PROVE  \E h : Run(h, l, T)
<1> USE DEF AreTimed
<1> DEFINE Upto(n) == {s \in SUBSET T : Cardinality(s) <= n}
           Turn(h, s) == IF s = {} THEN 0
                         ELSE l[Pick(s)].latency + h[s \ {Pick(s)}]
           Part(h, n) == /\ h \in [Upto(n) -> Nat]
                        /\ \A s \in Upto(n) : h[s] = Turn(h, s)
           Bad == {n \in Nat : ~ \E h : Part(h, n)}
<1>1. \A s \in SUBSET T : IsFiniteSet(s) /\ Cardinality(s) \in Nat
  BY FS_Subset, FS_CardinalityType
<1>2. ASSUME Bad # {} PROVE FALSE
  <2>1. PICK n \in Bad : \A k \in Bad : n <= k
    BY <1>2, HasMin
  <2>2. CASE n = 0
    <3> DEFINE f == [s \in Upto(0) |-> 0]
    <3>1. \A s \in Upto(0) : s = {}
      <4> SUFFICES ASSUME NEW s \in SUBSET T, Cardinality(s) <= 0 PROVE s = {}
        OBVIOUS
      <4> QED BY <1>1, FS_EmptySet
    <3>2. Part(f, 0)
      BY <3>1
    <3> QED BY <2>1, <2>2, <3>2
  <2>3. CASE n # 0
    <3>1. n - 1 \in Nat /\ n - 1 \notin Bad
      <4>1. n \in Nat
        OBVIOUS
      <4> HIDE DEF Bad
      <4> QED BY <2>1, <2>3, <4>1
    <3>2. PICK h : Part(h, n - 1)
      BY <3>1
    <3> DEFINE f == [s \in Upto(n) |-> Turn(h, s)]
    <3>3. ASSUME NEW s \in Upto(n), s # {}
          PROVE  /\ Pick(s) \in T /\ s \ {Pick(s)} \in Upto(n)
                 /\ s \ {Pick(s)} \in Upto(n - 1)
      <4>1. Pick(s) \in s
        BY <3>3, PickIs
      <4>2. Cardinality(s \ {Pick(s)}) = Cardinality(s) - 1 /\ Cardinality(s) \in Nat
        BY <1>1, <4>1, Smaller
      <4>3. Cardinality(s \ {Pick(s)}) <= n - 1 /\ Cardinality(s \ {Pick(s)}) <= n
        BY <2>1, <4>2
      <4> QED BY <4>1, <4>3
    <3>4. \A s \in Upto(n - 1) : h[s] \in Nat /\ h[s] = Turn(h, s)
      BY <3>2
    <3>5. \A s \in Upto(n) : f[s] = Turn(h, s)
      OBVIOUS
    <3>6. ASSUME NEW s \in Upto(n) PROVE f[s] \in Nat
      <4>1. CASE s = {}
        BY <4>1
      <4>2. CASE s # {}
        <5>1. h[s \ {Pick(s)}] \in Nat /\ l[Pick(s)].latency \in Nat
          BY <3>3, <3>4, <4>2
        <5>2. f[s] = l[Pick(s)].latency + h[s \ {Pick(s)}]
          BY <3>5, <4>2
        <5> HIDE DEF f
        <5> QED BY <5>1, <5>2
      <4> QED BY <4>1, <4>2
    <3>7. f \in [Upto(n) -> Nat]
      BY <3>5, <3>6
    <3>8. \A s \in Upto(n) : f[s] = Turn(f, s)
      <4> SUFFICES ASSUME NEW s \in Upto(n) PROVE Turn(h, s) = Turn(f, s)
        BY <3>5
      <4>1. CASE s = {}
        BY <4>1
      <4>2. CASE s # {}
        <5>1. f[s \ {Pick(s)}] = h[s \ {Pick(s)}]
          BY <3>3, <3>4, <3>5, <4>2
        <5> QED BY <4>2, <5>1
      <4> QED BY <4>1, <4>2
    <3>9. Part(f, n)
      BY <3>7, <3>8
    <3> QED BY <2>1, <3>9
  <2> QED BY <2>2, <2>3
<1>3. PICK h : Part(h, Cardinality(T))
  BY <1>1, <1>2
<1>4. Upto(Cardinality(T)) = SUBSET T
  <2>1. \A s \in SUBSET T : Cardinality(s) <= Cardinality(T)
    BY FS_Subset
  <2> QED BY <2>1
<1>5. h \in [SUBSET T -> Nat] /\ \A s \in SUBSET T : h[s] = Turn(h, s)
  BY <1>3, <1>4
<1>6. h = [s \in SUBSET T |-> Turn(h, s)]
  BY <1>5
<1> QED BY <1>5, <1>6 DEF IsSum, Run

\* Runs on the same latencies agree, whatever set they run on.
LEMMA SumUnique ==
  ASSUME NEW h1, NEW l1, NEW T1, IsSum(h1, l1, T1),
         NEW h2, NEW l2, NEW T2, IsSum(h2, l2, T2),
         NEW S, IsFiniteSet(S), S \subseteq T1, S \subseteq T2,
         \A k \in S : l1[k].latency = l2[k].latency
  PROVE  h1[S] = h2[S]
<1> DEFINE Wrong == {s \in SUBSET S : h1[s] # h2[s]}
           Sizes == {Cardinality(s) : s \in Wrong}
<1>1. \A s \in SUBSET S : IsFiniteSet(s) /\ Cardinality(s) \in Nat
  BY FS_Subset, FS_CardinalityType
<1>2. SUFFICES ASSUME h1[S] # h2[S] PROVE FALSE
  OBVIOUS
<1>3. Sizes \subseteq Nat /\ Sizes # {}
  BY <1>1, <1>2
<1>4. PICK n \in Sizes : \A k \in Sizes : n <= k
  BY <1>3, HasMin
<1>5. PICK s \in SUBSET S : h1[s] # h2[s] /\ n = Cardinality(s)
  BY <1>4
<1>6. s # {}
  BY <1>5, SumStep
<1> DEFINE x == Pick(s)
           r == s \ {Pick(s)}
<1>7. x \in s /\ r \in SUBSET S /\ Cardinality(r) = n - 1 /\ n \in Nat
  BY <1>1, <1>5, <1>6, PickIs, Smaller
<1>8. h1[s] = l1[x].latency + h1[r] /\ h2[s] = l2[x].latency + h2[r]
  BY <1>5, <1>6, SumStep
<1>9. h1[r] # h2[r]
  BY <1>5, <1>7, <1>8
<1>10. Cardinality(r) \in Sizes
  BY <1>7, <1>9
<1> HIDE DEF Sizes, r
<1> QED BY <1>4, <1>7, <1>10

\* The order is of no account: any element can be taken first.
TakesAny(h, l, T) ==
  \A s \in SUBSET T : \A x \in s : h[s] = l[x].latency + h[s \ {x}]

LEMMA SumAdds ==
  ASSUME NEW l, NEW T, AreTimed(l, T), NEW h, Run(h, l, T)
  PROVE  TakesAny(h, l, T)
<1> USE DEF AreTimed, Run, TakesAny
<1> DEFINE Adds(t) == \A y \in t : h[t] = l[y].latency + h[t \ {y}]
           Wrong == {t \in SUBSET T : ~ Adds(t)}
           Sizes == {Cardinality(t) : t \in Wrong}
<1>1. \A t \in SUBSET T : IsFiniteSet(t) /\ Cardinality(t) \in Nat
  BY FS_Subset, FS_CardinalityType
<1>2. SUFFICES ASSUME NEW s \in SUBSET T, ~ Adds(s) PROVE FALSE
  OBVIOUS
<1>3. Sizes \subseteq Nat /\ Sizes # {}
  BY <1>1, <1>2
<1>4. PICK n \in Sizes : \A k \in Sizes : n <= k
  BY <1>3, HasMin
<1>5. PICK t \in SUBSET T : ~ Adds(t) /\ n = Cardinality(t)
  BY <1>4
<1>6. ASSUME NEW r \in SUBSET T, Cardinality(r) = n - 1 PROVE Adds(r)
  <2>1. CASE ~ Adds(r)
    <3>1. n - 1 \in Sizes
      BY <1>6, <2>1
    <3> HIDE DEF Sizes
    <3> QED BY <1>3, <1>4, <3>1
  <2> QED BY <2>1
<1>7. PICK y \in t : h[t] # l[y].latency + h[t \ {y}]
  BY <1>5
<1> DEFINE z == Pick(t)
<1>8. z \in t /\ h[t] = l[z].latency + h[t \ {z}]
  BY <1>5, <1>7, SumStep, PickIs
<1> HIDE DEF z
<1>9. /\ t \ {y} \in SUBSET T /\ Cardinality(t \ {y}) = n - 1
      /\ t \ {z} \in SUBSET T /\ Cardinality(t \ {z}) = n - 1
  BY <1>1, <1>5, <1>7, <1>8, Smaller
<1>10. Adds(t \ {y}) /\ Adds(t \ {z})
  BY <1>6, <1>9
<1>11. z # y
  BY <1>7, <1>8
<1>12. h[t \ {y}] = l[z].latency + h[(t \ {y}) \ {z}]
  BY <1>8, <1>10, <1>11
<1>13. h[t \ {z}] = l[y].latency + h[(t \ {z}) \ {y}]
  BY <1>7, <1>10, <1>11
<1>14. (t \ {y}) \ {z} = (t \ {z}) \ {y}
  OBVIOUS
<1> DEFINE c == h[(t \ {z}) \ {y}]
<1>15. l[y].latency \in Nat /\ l[z].latency \in Nat /\ c \in Nat
  BY <1>7, <1>8
<1>16. h[t] = l[z].latency + (l[y].latency + c)
  BY <1>8, <1>13
<1>17. h[t] # l[y].latency + (l[z].latency + c)
  BY <1>7, <1>12, <1>14
<1> HIDE DEF c
<1> QED BY <1>15, <1>16, <1>17

LEMMA SumRun ==
  ASSUME NEW l, NEW T, AreTimed(l, T)
  PROVE  \E h : Run(h, l, T) /\ SumOf(l, T) = h[T]
<1> DEFINE f == CHOOSE h : IsSum(h, l, T)
<1>1. PICK h : Run(h, l, T)
  BY SumExists
<1>2. IsSum(f, l, T)
  BY <1>1 DEF Run
<1>3. SumOf(l, T) = f[T]
  BY DEF SumOf, MapThenSumSet, MapThenFoldSet, IsSum, Pick
<1> HIDE DEF f
<1>4. f[T] = h[T]
  BY <1>1, <1>2, SumUnique DEF Run, AreTimed
<1> QED BY <1>1, <1>3, <1>4

\* What the invariant needs of a sum: that of no latencies, that of one more,
\* and that it depends on the latencies summed only.
LEMMA SumEmpty == ASSUME NEW l PROVE SumOf(l, {}) = 0
<1>1. PICK h : Run(h, l, {}) /\ SumOf(l, {}) = h[{}]
  BY SumRun, FS_EmptySet DEF AreTimed
<1> QED BY <1>1, SumStep DEF Run

LEMMA SumOneMore ==
  ASSUME NEW l, NEW T, NEW x, x \notin T, AreTimed(l, T), l[x].latency \in Nat
  PROVE  /\ SumOf(l, T) \in Nat /\ AreTimed(l, T \cup {x})
         /\ SumOf(l, T \cup {x}) = SumOf(l, T) + l[x].latency
<1>1. PICK U : U = T \cup {x}
  OBVIOUS
<1>2. AreTimed(l, U)
  BY <1>1, FS_AddElement DEF AreTimed
<1>3. PICK h : Run(h, l, T) /\ SumOf(l, T) = h[T]
  BY SumRun
<1>4. PICK g : Run(g, l, U) /\ SumOf(l, U) = g[U]
  BY <1>2, SumRun
<1>5. TakesAny(g, l, U)
  BY <1>2, <1>4, SumAdds
<1>6. g[U] = l[x].latency + g[T]
  <2>1. x \in U /\ U \in SUBSET U /\ U \ {x} = T
    BY <1>1
  <2> QED BY <1>5, <2>1 DEF TakesAny
<1>7. g[T] = h[T]
  BY <1>1, <1>3, <1>4, SumUnique DEF Run, AreTimed
<1>8. h[T] \in Nat
  BY <1>3 DEF Run
<1> QED BY <1>1, <1>2, <1>3, <1>4, <1>6, <1>7, <1>8

LEMMA SumSame ==
  ASSUME NEW l1, NEW l2, NEW T, AreTimed(l1, T),
         \A k \in T : l1[k].latency = l2[k].latency
  PROVE  SumOf(l1, T) = SumOf(l2, T)
<1>1. AreTimed(l2, T)
  BY DEF AreTimed
<1>2. PICK h : Run(h, l1, T) /\ SumOf(l1, T) = h[T]
  BY SumRun
<1>3. PICK g : Run(g, l2, T) /\ SumOf(l2, T) = g[T]
  BY <1>1, SumRun
<1>4. h[T] = g[T]
  BY <1>2, <1>3, SumUnique DEF Run, AreTimed
<1> QED BY <1>2, <1>3, <1>4

----------------------------------------------------------------------------
(* What a line reports on: definitions of Metrics on an explicit log.      *)

SinceIn(l, i, kinds) == Max({0} \cup {j \in 1 .. i - 1 : l[j].kind \in kinds})
AppliedIn(l, j, i)   == {k \in j + 1 .. i - 1 : l[k].kind = "applied"}
InSession(l, i) == AppliedIn(l, SinceIn(l, i, {"start"}), i)
From(l, i)      == SinceIn(l, i, {"start", "line"})
InWindow(l, i)  == AppliedIn(l, From(l, i), i)

LEMMA MinIs ==
  ASSUME NEW S, S \subseteq Nat, S # {}
  PROVE  Min(S) \in S /\ \A k \in S : Min(S) <= k
<1>1. \E n \in S : \A k \in S : n <= k
  BY HasMin
<1> QED BY <1>1 DEF Min

LEMMA MinUnique ==
  ASSUME NEW S, S \subseteq Nat, NEW n \in S, \A k \in S : n <= k
  PROVE  Min(S) = n
<1>1. Min(S) \in S /\ \A k \in S : Min(S) <= k
  BY MinIs
<1>2. Min(S) <= n /\ n <= Min(S) /\ n \in Nat /\ Min(S) \in Nat
  BY <1>1
<1> QED BY <1>2

LEMMA MaxUnique ==
  ASSUME NEW S, S \subseteq Int, NEW n \in S, \A k \in S : k <= n
  PROVE  Max(S) = n
<1>1. Max(S) \in S /\ \A k \in S : Max(S) >= k
  BY DEF Max
<1>2. Max(S) <= n /\ n <= Max(S) /\ n \in Int /\ Max(S) \in Int
  BY <1>1
<1> QED BY <1>2

LEMMA SinceIs ==
  ASSUME NEW l, NEW i \in Nat \ {0}, NEW K
  PROVE  /\ SinceIn(l, i, K) \in 0 .. i - 1
         /\ SinceIn(l, i, K) # 0 => l[SinceIn(l, i, K)].kind \in K
         /\ \A j \in SinceIn(l, i, K) + 1 .. i - 1 : l[j].kind \notin K
<1> DEFINE S == {0} \cup {j \in 1 .. i - 1 : l[j].kind \in K}
           T == {i - j : j \in S}
<1>1. S \subseteq 0 .. i - 1 /\ 0 \in S
  OBVIOUS
<1>2. T \subseteq Nat /\ i - 0 \in T
  BY <1>1
<1>3. PICK d \in T : \A k \in T : d <= k
  BY <1>2, HasMin
<1>4. PICK m \in S : d = i - m
  BY <1>3
<1>5. \A j \in S : j <= m
  <2> SUFFICES ASSUME NEW j \in S PROVE j <= m
    OBVIOUS
  <2>1. i - m <= i - j
    BY <1>3, <1>4
  <2>2. i \in Int /\ j \in Int /\ m \in Int
    BY <1>1
  <2> HIDE DEF S
  <2> QED BY <2>1, <2>2
<1>6. SinceIn(l, i, K) = m
  <2>1. S \subseteq Int
    BY <1>1
  <2>2. Max(S) = m
    <3> HIDE DEF S
    <3> QED BY <1>5, <2>1, MaxUnique
  <2> QED BY <2>2 DEF SinceIn
<1>7. m \in 0 .. i - 1 /\ (m # 0 => l[m].kind \in K)
  BY <1>1
<1>8. ASSUME NEW j \in m + 1 .. i - 1 PROVE l[j].kind \notin K
  <2>1. j \in 1 .. i - 1 /\ ~ (j <= m)
    BY <1>7
  <2>2. j \notin S
    BY <1>5, <2>1
  <2> QED BY <2>1, <2>2
<1> HIDE DEF S
<1> QED BY <1>6, <1>7, <1>8

LEMMA SinceUnique ==
  ASSUME NEW l, NEW i \in Nat \ {0}, NEW K, NEW m \in 0 .. i - 1,
         m # 0 => l[m].kind \in K, \A j \in m + 1 .. i - 1 : l[j].kind \notin K
  PROVE  SinceIn(l, i, K) = m
<1> DEFINE s == SinceIn(l, i, K)
<1>1. /\ s \in 0 .. i - 1 /\ (s # 0 => l[s].kind \in K)
      /\ \A j \in s + 1 .. i - 1 : l[j].kind \notin K
  BY SinceIs
<1> HIDE DEF s
<1>2. ~ (s < m)
  BY <1>1
<1>3. ~ (m < s)
  BY <1>1
<1>4. s = m
  BY <1>1, <1>2, <1>3
<1> QED BY <1>4 DEF s

\* One more entry.
LEMMA SinceNext ==
  ASSUME NEW l, NEW i \in Nat \ {0}, NEW K
  PROVE  SinceIn(l, i + 1, K) = IF l[i].kind \in K THEN i ELSE SinceIn(l, i, K)
<1>1. CASE l[i].kind \in K
  <2>1. i \in 0 .. (i + 1) - 1 /\ i + 1 \in Nat \ {0} /\ i + 1 .. (i + 1) - 1 = {}
    OBVIOUS
  <2>2. SinceIn(l, i + 1, K) = i
    BY <1>1, <2>1, SinceUnique
  <2> QED BY <1>1, <2>2
<1>2. CASE l[i].kind \notin K
  <2> DEFINE s == SinceIn(l, i, K)
  <2>1. /\ s \in 0 .. i - 1 /\ (s # 0 => l[s].kind \in K)
        /\ \A j \in s + 1 .. i - 1 : l[j].kind \notin K
    BY SinceIs
  <2> HIDE DEF s
  <2>2. s \in 0 .. (i + 1) - 1 /\ i + 1 \in Nat \ {0}
    BY <2>1
  <2>3. \A j \in s + 1 .. (i + 1) - 1 : l[j].kind \notin K
    <3> SUFFICES ASSUME NEW j \in s + 1 .. (i + 1) - 1 PROVE l[j].kind \notin K
      OBVIOUS
    <3>1. j = i \/ j \in s + 1 .. i - 1
      BY <2>1
    <3> QED BY <1>2, <2>1, <3>1
  <2>4. SinceIn(l, i + 1, K) = s
    BY <2>1, <2>2, <2>3, SinceUnique
  <2> QED BY <1>2, <2>4 DEF s
<1> QED BY <1>1, <1>2

LEMMA AppliedType ==
  ASSUME NEW l, NEW i \in Nat \ {0}, NEW j \in 0 .. i - 1
  PROVE  /\ AppliedIn(l, j, i) \subseteq 1 .. i - 1
         /\ IsFiniteSet(AppliedIn(l, j, i))
         /\ \A k \in AppliedIn(l, j, i) : l[k].kind = "applied"
<1>1. AppliedIn(l, j, i) \subseteq 1 .. i - 1 /\ IsFiniteSet(1 .. i - 1)
  BY FS_Interval DEF AppliedIn
<1> QED BY <1>1, FS_Subset DEF AppliedIn

LEMMA AppliedNext ==
  ASSUME NEW l, NEW i \in Nat \ {0}, NEW j \in 0 .. i - 1
  PROVE  /\ l[i].kind = "applied" =>
              AppliedIn(l, j, i + 1) = AppliedIn(l, j, i) \cup {i}
         /\ l[i].kind # "applied" => AppliedIn(l, j, i + 1) = AppliedIn(l, j, i)
         /\ AppliedIn(l, i, i + 1) = {}
<1>1. j + 1 .. (i + 1) - 1 = (j + 1 .. i - 1) \cup {i}
  OBVIOUS
<1>2. i + 1 .. (i + 1) - 1 = {}
  OBVIOUS
<1> QED BY <1>1, <1>2 DEF AppliedIn

\* What one more entry changes about the session and the window.
LEMMA WindowNext ==
  ASSUME NEW l, NEW i \in Nat \ {0}
  PROVE  /\ l[i].kind = "applied" =>
              /\ From(l, i + 1) = From(l, i)
              /\ InWindow(l, i + 1) = InWindow(l, i) \cup {i}
              /\ InSession(l, i + 1) = InSession(l, i) \cup {i}
         /\ l[i].kind = "line" =>
              /\ From(l, i + 1) = i
              /\ InWindow(l, i + 1) = {}
              /\ InSession(l, i + 1) = InSession(l, i)
<1>1. /\ From(l, i) \in 0 .. i - 1
      /\ SinceIn(l, i, {"start"}) \in 0 .. i - 1
  BY SinceIs DEF From
<1>2. CASE l[i].kind = "applied"
  <2>1. /\ From(l, i + 1) = From(l, i)
        /\ SinceIn(l, i + 1, {"start"}) = SinceIn(l, i, {"start"})
    BY <1>2, SinceNext DEF From
  <2> DEFINE D == 0 .. i - 1
  <2>2. \A j \in D : AppliedIn(l, j, i + 1) = AppliedIn(l, j, i) \cup {i}
    BY <1>2, AppliedNext
  <2>3. From(l, i) \in D /\ SinceIn(l, i, {"start"}) \in D
    BY <1>1
  <2> HIDE DEF D
  <2>4. InWindow(l, i + 1) = InWindow(l, i) \cup {i}
    BY <2>1, <2>2, <2>3 DEF InWindow
  <2>5. InSession(l, i + 1) = InSession(l, i) \cup {i}
    BY <2>1, <2>2, <2>3 DEF InSession
  <2> QED BY <1>2, <2>1, <2>4, <2>5
<1>3. CASE l[i].kind = "line"
  <2>1. /\ From(l, i + 1) = i
        /\ SinceIn(l, i + 1, {"start"}) = SinceIn(l, i, {"start"})
    BY <1>3, SinceNext DEF From
  <2>2. InWindow(l, i + 1) = {}
    BY <1>1, <2>1, AppliedNext DEF InWindow
  <2> DEFINE D == 0 .. i - 1
  <2>3. ASSUME NEW j \in D PROVE AppliedIn(l, j, i + 1) = AppliedIn(l, j, i)
    <3>1. l[i].kind # "applied"
      BY <1>3
    <3> QED BY <3>1, AppliedNext
  <2>4. SinceIn(l, i, {"start"}) \in D
    BY <1>1
  <2> HIDE DEF D
  <2>5. InSession(l, i + 1) = InSession(l, i)
    BY <2>1, <2>3, <2>4 DEF InSession
  <2> QED BY <1>3, <2>1, <2>2, <2>5
<1> QED BY <1>2, <1>3

\* Only the entries before the line matter.
LEMMA SameBefore ==
  ASSUME NEW l1, NEW l2, NEW i \in Nat \ {0}, \A j \in 1 .. i - 1 : l2[j] = l1[j]
  PROVE  /\ From(l2, i) = From(l1, i)
         /\ InWindow(l2, i) = InWindow(l1, i)
         /\ InSession(l2, i) = InSession(l1, i)
<1>1. ASSUME NEW K PROVE SinceIn(l2, i, K) = SinceIn(l1, i, K)
  <2>1. {j \in 1 .. i - 1 : l2[j].kind \in K} = {j \in 1 .. i - 1 : l1[j].kind \in K}
    OBVIOUS
  <2> QED BY <2>1 DEF SinceIn
<1>2. ASSUME NEW j \in 0 .. i - 1 PROVE AppliedIn(l2, j, i) = AppliedIn(l1, j, i)
  BY DEF AppliedIn
<1>3. /\ From(l1, i) \in 0 .. i - 1
      /\ SinceIn(l1, i, {"start"}) \in 0 .. i - 1
  BY SinceIs DEF From
<1> QED BY <1>1, <1>2, <1>3 DEF From, InWindow, InSession

LEMMA WindowType ==
  ASSUME NEW l, NEW i \in Nat \ {0}
  PROVE  /\ From(l, i) \in 0 .. i - 1
         /\ InWindow(l, i) \subseteq 1 .. i - 1 /\ IsFiniteSet(InWindow(l, i))
         /\ InSession(l, i) \subseteq 1 .. i - 1 /\ IsFiniteSet(InSession(l, i))
         /\ \A k \in InWindow(l, i) : l[k].kind = "applied"
<1>1. /\ From(l, i) \in 0 .. i - 1
      /\ SinceIn(l, i, {"start"}) \in 0 .. i - 1
  BY SinceIs DEF From
<1> QED BY <1>1, AppliedType DEF InWindow, InSession

TimedIn(l, i) == {k \in InWindow(l, i) : l[k].latency # NoTime}

\* When the window that ends before i began.
Begun(l, i) ==
  From(l, i) # 0 /\ (l[From(l, i)].kind # "line" => InWindow(l, i) # {})
Opened(l, i) ==
  IF l[From(l, i)].kind = "line" THEN l[From(l, i)].at
  ELSE l[Min(InWindow(l, i))].at

IsGreatest(v, l, T) ==
  /\ T = {} => v = 0
  /\ T # {} => (\E k \in T : l[k].latency = v) /\ \A k \in T : l[k].latency <= v

\* Line i of l reports the session and the window that end before it.
Right(l, i) ==
  /\ Begun(l, i)
  /\ l[i].total = Cardinality(InSession(l, i))
  /\ l[i].updates = Cardinality(InWindow(l, i))
  /\ l[i].elapsed = l[i].at - Opened(l, i)
  /\ l[i].latency =
       IF TimedIn(l, i) = {} THEN None
       ELSE <<SumOf(l, TimedIn(l, i)) \div Cardinality(TimedIn(l, i)),
              Max({l[k].latency : k \in TimedIn(l, i)})>>

\* Counters m count the session and the window up to i.
Open(m, l, i) ==
  /\ Begun(l, i)
  /\ m.total = Cardinality(InSession(l, i))
  /\ m.updates = Cardinality(InWindow(l, i))
  /\ m.windowStart = Opened(l, i)
  /\ m.sum = SumOf(l, TimedIn(l, i))
  /\ m.count = Cardinality(TimedIn(l, i))
  /\ IsGreatest(m.max, l, TimedIn(l, i))

\* A session that has applied nothing.
Fresh(l, i) ==
  \E s \in 1 .. i - 1 : /\ l[s].kind = "start"
                        /\ \A j \in s + 1 .. i - 1 : l[j].kind = "replayed"

LEMMA TimedType ==
  ASSUME NEW l \in Seq(Entry), NEW i \in 1 .. Len(l) + 1
  PROVE  /\ AreTimed(l, TimedIn(l, i)) /\ TimedIn(l, i) \subseteq InWindow(l, i)
         /\ Cardinality(TimedIn(l, i)) \in Nat
<1>1. /\ i \in Nat \ {0} /\ DOMAIN l = 1 .. Len(l) /\ Len(l) \in Nat
      /\ \A k \in DOMAIN l : l[k] \in Entry
  BY LenProperties, ElementOfSeq
<1>2. /\ InWindow(l, i) \subseteq 1 .. i - 1 /\ IsFiniteSet(InWindow(l, i))
      /\ \A k \in InWindow(l, i) : l[k].kind = "applied"
  BY <1>1, WindowType
<1>3. ASSUME NEW k \in TimedIn(l, i) PROVE l[k].latency \in Nat
  <2>1. k \in DOMAIN l /\ l[k].kind = "applied" /\ l[k].latency # NoTime
    BY <1>1, <1>2 DEF TimedIn
  <2> QED BY <1>1, <2>1 DEF Entry
<1>4. TimedIn(l, i) \subseteq InWindow(l, i)
  BY DEF TimedIn
<1> QED BY <1>2, <1>3, <1>4, FS_Subset, FS_CardinalityType DEF AreTimed

LEMMA SameWindow ==
  ASSUME NEW l1 \in Seq(Entry), NEW l2, NEW i \in 1 .. Len(l1) + 1,
         \A j \in 1 .. i - 1 : l2[j] = l1[j]
  PROVE  /\ From(l2, i) = From(l1, i) /\ InWindow(l2, i) = InWindow(l1, i)
         /\ InSession(l2, i) = InSession(l1, i) /\ TimedIn(l2, i) = TimedIn(l1, i)
         /\ SumOf(l2, TimedIn(l1, i)) = SumOf(l1, TimedIn(l1, i))
         /\ \A k \in TimedIn(l1, i) : l2[k].latency = l1[k].latency
         /\ Begun(l1, i) => Begun(l2, i) /\ Opened(l2, i) = Opened(l1, i)
<1>1. i \in Nat \ {0}
  BY LenProperties
<1>2. /\ From(l1, i) \in 0 .. i - 1 /\ InWindow(l1, i) \subseteq 1 .. i - 1
  BY <1>1, WindowType
<1>3. /\ From(l2, i) = From(l1, i) /\ InWindow(l2, i) = InWindow(l1, i)
      /\ InSession(l2, i) = InSession(l1, i)
  BY <1>1, SameBefore
<1>4. \A k \in InWindow(l1, i) : l2[k] = l1[k]
  BY <1>2
<1>5. TimedIn(l2, i) = TimedIn(l1, i)
  BY <1>3, <1>4 DEF TimedIn
<1>6. /\ \A k \in TimedIn(l1, i) : l1[k].latency = l2[k].latency
      /\ AreTimed(l1, TimedIn(l1, i))
  BY <1>4, TimedType DEF TimedIn
<1>7. SumOf(l2, TimedIn(l1, i)) = SumOf(l1, TimedIn(l1, i))
  BY <1>6, SumSame
<1>8. ASSUME Begun(l1, i) PROVE Begun(l2, i) /\ Opened(l2, i) = Opened(l1, i)
  <2>1. From(l1, i) \in 1 .. i - 1 /\ l2[From(l1, i)] = l1[From(l1, i)]
    BY <1>1, <1>2, <1>8 DEF Begun
  <2>2. CASE l1[From(l1, i)].kind = "line"
    BY <1>3, <2>1, <2>2 DEF Begun, Opened
  <2>3. CASE l1[From(l1, i)].kind # "line"
    <3>1. InWindow(l1, i) # {} /\ InWindow(l1, i) \subseteq Nat
      BY <1>2, <1>8, <2>3 DEF Begun
    <3>2. Min(InWindow(l1, i)) \in InWindow(l1, i)
      BY <3>1, MinIs
    <3> QED BY <1>3, <1>4, <2>1, <2>3, <3>1, <3>2 DEF Begun, Opened
  <2> QED BY <2>2, <2>3
<1> QED BY <1>3, <1>5, <1>6, <1>7, <1>8

\* A line that is right stays so, and so do counters, whatever follows.
LEMMA RightKept ==
  ASSUME NEW l1 \in Seq(Entry), NEW l2, NEW i \in 1 .. Len(l1), Right(l1, i),
         \A j \in 1 .. Len(l1) : l2[j] = l1[j]
  PROVE  Right(l2, i)
<1>1. i \in 1 .. Len(l1) + 1 /\ (\A j \in 1 .. i - 1 : l2[j] = l1[j]) /\ l2[i] = l1[i]
  BY LenProperties
<1>2. /\ From(l2, i) = From(l1, i) /\ InWindow(l2, i) = InWindow(l1, i)
      /\ InSession(l2, i) = InSession(l1, i) /\ TimedIn(l2, i) = TimedIn(l1, i)
      /\ SumOf(l2, TimedIn(l1, i)) = SumOf(l1, TimedIn(l1, i))
      /\ \A k \in TimedIn(l1, i) : l2[k].latency = l1[k].latency
      /\ Begun(l2, i) /\ Opened(l2, i) = Opened(l1, i)
  BY <1>1, SameWindow DEF Right
<1>3. {l2[k].latency : k \in TimedIn(l1, i)} = {l1[k].latency : k \in TimedIn(l1, i)}
  BY <1>2
<1> QED BY <1>1, <1>2, <1>3 DEF Right

LEMMA OpenKept ==
  ASSUME NEW l1 \in Seq(Entry), NEW l2, NEW i \in 1 .. Len(l1) + 1, NEW m,
         Open(m, l1, i), \A j \in 1 .. i - 1 : l2[j] = l1[j]
  PROVE  Open(m, l2, i)
<1>1. /\ From(l2, i) = From(l1, i) /\ InWindow(l2, i) = InWindow(l1, i)
      /\ InSession(l2, i) = InSession(l1, i) /\ TimedIn(l2, i) = TimedIn(l1, i)
      /\ SumOf(l2, TimedIn(l1, i)) = SumOf(l1, TimedIn(l1, i))
      /\ \A k \in TimedIn(l1, i) : l2[k].latency = l1[k].latency
      /\ Begun(l2, i) /\ Opened(l2, i) = Opened(l1, i)
  BY SameWindow DEF Open
<1>2. IsGreatest(m.max, l2, TimedIn(l1, i))
  BY <1>1 DEF IsGreatest, Open
<1> QED BY <1>1, <1>2 DEF Open

\* A delta that is applied: the counters record it.
LEMMA OpenApplied ==
  ASSUME NEW l \in Seq(Entry), NEW i \in 1 .. Len(l), l[i].kind = "applied",
         NEW m \in Counters, Open(m, l, i)
  PROVE  Open(RecordUpdate(m, l[i].latency), l, i + 1)
<1>1. /\ i \in Nat \ {0} /\ i \in 1 .. Len(l) + 1 /\ i + 1 \in 1 .. Len(l) + 1
      /\ l[i] \in Entry
  BY LenProperties, ElementOfSeq
<1>2. l[i].latency \in Nat \cup {NoTime}
  BY <1>1 DEF Entry
<1>3. /\ From(l, i) \in 0 .. i - 1
      /\ InWindow(l, i) \subseteq 1 .. i - 1 /\ IsFiniteSet(InWindow(l, i))
      /\ InSession(l, i) \subseteq 1 .. i - 1 /\ IsFiniteSet(InSession(l, i))
  BY <1>1, WindowType
<1>4. /\ From(l, i + 1) = From(l, i)
      /\ InWindow(l, i + 1) = InWindow(l, i) \cup {i}
      /\ InSession(l, i + 1) = InSession(l, i) \cup {i}
  BY <1>1, WindowNext
<1>5. i \notin InWindow(l, i) /\ i \notin InSession(l, i) /\ i \notin TimedIn(l, i)
  BY <1>1, <1>3 DEF TimedIn
<1>6. /\ Cardinality(InWindow(l, i + 1)) = Cardinality(InWindow(l, i)) + 1
      /\ Cardinality(InSession(l, i + 1)) = Cardinality(InSession(l, i)) + 1
  BY <1>3, <1>4, <1>5, FS_AddElement
<1>7. Begun(l, i + 1) /\ Opened(l, i + 1) = Opened(l, i)
  <2>1. Begun(l, i)
    BY DEF Open
  <2>2. CASE l[From(l, i)].kind = "line"
    BY <1>4, <2>1, <2>2 DEF Begun, Opened
  <2>3. CASE l[From(l, i)].kind # "line"
    <3> DEFINE W == InWindow(l, i)
    <3>1. W # {} /\ W \subseteq Nat
      BY <1>3, <2>1, <2>3 DEF Begun
    <3>2. Min(W) \in W /\ \A k \in W : Min(W) <= k
      BY <3>1, MinIs
    <3>3. Min(W) <= i
      BY <1>1, <1>3, <3>2
    <3>4. Min(W \cup {i}) = Min(W)
      <4>1. W \cup {i} \subseteq Nat
        BY <1>1, <3>1
      <4> HIDE DEF W
      <4> QED BY <3>2, <3>3, <4>1, MinUnique
    <3> QED BY <1>4, <2>1, <2>3, <3>4 DEF Begun, Opened
  <2> QED BY <2>2, <2>3
<1>8. /\ AreTimed(l, TimedIn(l, i)) /\ Cardinality(TimedIn(l, i)) \in Nat
  BY <1>1, TimedType
<1>9. m.max \in Nat /\ m.sum \in Nat /\ m.count \in Nat
  BY DEF Counters
<1> DEFINE r == RecordUpdate(m, l[i].latency)
<1>10. CASE l[i].latency = NoTime
  <2>1. TimedIn(l, i + 1) = TimedIn(l, i)
    BY <1>4, <1>10 DEF TimedIn
  <2>2. /\ r.total = m.total + 1 /\ r.updates = m.updates + 1
        /\ r.windowStart = m.windowStart
        /\ r.sum = m.sum /\ r.count = m.count /\ r.max = m.max
    BY <1>10 DEF RecordUpdate
  <2> HIDE DEF r
  <2>3. Open(r, l, i + 1)
    BY <1>6, <1>7, <2>1, <2>2 DEF Open
  <2> QED BY <2>3 DEF r
<1>11. CASE l[i].latency # NoTime
  <2> DEFINE v == l[i].latency
             T == TimedIn(l, i)
  <2>1. TimedIn(l, i + 1) = T \cup {i} /\ v \in Nat
    BY <1>2, <1>4, <1>11 DEF TimedIn
  <2>2. /\ r.total = m.total + 1 /\ r.updates = m.updates + 1
        /\ r.windowStart = m.windowStart
        /\ r.sum = m.sum + v /\ r.count = m.count + 1
        /\ r.max = IF m.max < v THEN v ELSE m.max
    BY <1>11 DEF RecordUpdate
  <2>3. SumOf(l, T \cup {i}) = SumOf(l, T) + v
    BY <1>5, <1>8, <2>1, SumOneMore
  <2>4. Cardinality(T \cup {i}) = Cardinality(T) + 1
    BY <1>5, <1>8, FS_AddElement DEF AreTimed
  <2>5. IsGreatest(r.max, l, T \cup {i})
    <3>1. \A k \in T : l[k].latency \in Nat
      BY <1>8 DEF AreTimed
    <3>2. IsGreatest(m.max, l, T)
      BY DEF Open
    <3>3. CASE T = {}
      <4>1. r.max = v
        BY <1>9, <2>1, <2>2, <3>2, <3>3 DEF IsGreatest
      <4> QED BY <2>1, <3>3, <4>1 DEF IsGreatest
    <3>4. CASE T # {}
      <4>1. PICK k \in T : l[k].latency = m.max
        BY <3>2, <3>4 DEF IsGreatest
      <4>2. \A j \in T : l[j].latency <= m.max
        BY <3>2, <3>4 DEF IsGreatest
      <4> HIDE DEF T, r
      <4>3. CASE m.max < v
        BY <1>9, <2>1, <2>2, <3>1, <4>2, <4>3 DEF IsGreatest
      <4>4. CASE ~ (m.max < v)
        BY <1>9, <2>1, <2>2, <3>1, <4>1, <4>2, <4>4 DEF IsGreatest
      <4> QED BY <4>3, <4>4
    <3> QED BY <3>3, <3>4
  <2> HIDE DEF r
  <2>6. Open(r, l, i + 1)
    BY <1>6, <1>7, <2>1, <2>2, <2>3, <2>4, <2>5 DEF Open
  <2> QED BY <2>6 DEF r
<1> QED BY <1>10, <1>11

\* The first delta of a session: new counters record it.
LEMMA OpenFirst ==
  ASSUME NEW l \in Seq(Entry), NEW i \in 1 .. Len(l), l[i].kind = "applied",
         Fresh(l, i), l[i].at = now
  PROVE  Open(RecordUpdate(New, l[i].latency), l, i + 1)
<1>1. /\ i \in Nat \ {0} /\ i + 1 \in 1 .. Len(l) + 1 /\ l[i] \in Entry
  BY LenProperties, ElementOfSeq
<1>2. PICK s \in 1 .. i - 1 : /\ l[s].kind = "start"
                              /\ \A j \in s + 1 .. i - 1 : l[j].kind = "replayed"
  BY DEF Fresh
<1>3. From(l, i) = s /\ SinceIn(l, i, {"start"}) = s
  <2>1. /\ s \in 0 .. i - 1 /\ l[s].kind \in {"start", "line"} /\ l[s].kind \in {"start"}
        /\ \A j \in s + 1 .. i - 1 : /\ l[j].kind \notin {"start", "line"}
                                     /\ l[j].kind \notin {"start"}
    BY <1>1, <1>2
  <2> QED BY <1>1, <2>1, SinceUnique DEF From
<1>4. InWindow(l, i) = {} /\ InSession(l, i) = {}
  <2>1. AppliedIn(l, s, i) = {}
    BY <1>2 DEF AppliedIn
  <2> QED BY <1>3, <2>1 DEF InWindow, InSession
<1>5. /\ From(l, i + 1) = s
      /\ InWindow(l, i + 1) = {i} /\ InSession(l, i + 1) = {i}
  <2>1. /\ From(l, i + 1) = From(l, i)
        /\ InWindow(l, i + 1) = InWindow(l, i) \cup {i}
        /\ InSession(l, i + 1) = InSession(l, i) \cup {i}
    BY <1>1, WindowNext
  <2> QED BY <1>3, <1>4, <2>1
<1>6. Cardinality({i}) = 1
  BY FS_Singleton
<1>7. Begun(l, i + 1) /\ Opened(l, i + 1) = now
  <2>1. Min({i}) = i
    BY <1>1, MinUnique
  <2>2. l[s].kind # "line" /\ s # 0 /\ {i} # {}
    BY <1>2
  <2>3. Begun(l, i + 1)
    BY <1>5, <2>2 DEF Begun
  <2>4. Opened(l, i + 1) = l[i].at
    BY <1>5, <2>1, <2>2 DEF Opened
  <2> QED BY <2>3, <2>4
<1>8. l[i].latency \in Nat \cup {NoTime}
  BY <1>1 DEF Entry
<1> DEFINE v == l[i].latency
           r == RecordUpdate(New, v)
<1>9. CASE v = NoTime
  <2>1. TimedIn(l, i + 1) = {}
    BY <1>5, <1>9 DEF TimedIn
  <2>2. /\ r.total = 1 /\ r.updates = 1 /\ r.windowStart = now
        /\ r.sum = 0 /\ r.count = 0 /\ r.max = 0
    BY <1>9 DEF RecordUpdate, New
  <2>3. SumOf(l, {}) = 0 /\ Cardinality({}) = 0
    BY SumEmpty, FS_EmptySet
  <2> HIDE DEF r
  <2>4. Open(r, l, i + 1)
    BY <1>5, <1>6, <1>7, <2>1, <2>2, <2>3 DEF Open, IsGreatest
  <2> QED BY <2>4 DEF r
<1>10. CASE v # NoTime
  <2>1. TimedIn(l, i + 1) = {i} /\ v \in Nat
    BY <1>5, <1>8, <1>10 DEF TimedIn
  <2>2. /\ r.total = 1 /\ r.updates = 1 /\ r.windowStart = now
        /\ r.sum = v /\ r.count = 1 /\ r.max = v
    BY <1>10, <2>1 DEF RecordUpdate, New
  <2>3. SumOf(l, {i}) = v
    <3>1. PICK E : E = {}
      OBVIOUS
    <3>2. AreTimed(l, E) /\ i \notin E /\ SumOf(l, E) = 0
      BY <3>1, FS_EmptySet, SumEmpty DEF AreTimed
    <3>3. SumOf(l, E \cup {i}) = SumOf(l, E) + v
      BY <2>1, <3>2, SumOneMore
    <3>4. E \cup {i} = {i}
      BY <3>1
    <3>5. SumOf(l, {i}) = 0 + v
      BY <3>2, <3>3, <3>4
    <3>6. v \in Nat
      BY <2>1
    <3> HIDE DEF v
    <3> QED BY <3>5, <3>6
  <2>4. IsGreatest(r.max, l, {i})
    BY <2>1, <2>2 DEF IsGreatest
  <2> HIDE DEF r
  <2>5. Open(r, l, i + 1)
    BY <1>5, <1>6, <1>7, <2>1, <2>2, <2>3, <2>4 DEF Open
  <2> QED BY <2>5 DEF r
<1> QED BY <1>9, <1>10

\* The line of counters that are right is right, and the next window opens.
LEMMA OpenLine ==
  ASSUME NEW l \in Seq(Entry), NEW i \in 1 .. Len(l), NEW m \in Counters,
         Open(m, l, i), l[i] = Line(m), now \in Nat
  PROVE  Right(l, i) /\ Open(NextWindow(m), l, i + 1)
<1>1. i \in Nat \ {0} /\ i \in 1 .. Len(l) + 1 /\ i + 1 \in 1 .. Len(l) + 1
  BY LenProperties
<1>2. /\ l[i].kind = "line" /\ l[i].at = now /\ l[i].updates = m.updates
      /\ l[i].elapsed = now - m.windowStart
      /\ l[i].latency = SummaryOf(m) /\ l[i].total = m.total
  BY DEF Line
<1> DEFINE T == TimedIn(l, i)
<1>3. AreTimed(l, T) /\ m.count = Cardinality(T) /\ m.sum = SumOf(l, T)
  BY <1>1, TimedType DEF Open
<1>4. m.count = 0 <=> T = {}
  BY <1>3, FS_EmptySet DEF AreTimed
<1>5. T # {} => Max({l[k].latency : k \in T}) = m.max
  <2> SUFFICES ASSUME T # {} PROVE Max({l[k].latency : k \in T}) = m.max
    OBVIOUS
  <2> DEFINE V == {l[k].latency : k \in T}
  <2>1. m.max \in V /\ \A v \in V : v <= m.max
    BY DEF Open, IsGreatest
  <2>2. V \subseteq Int
    BY <1>3 DEF AreTimed
  <2> HIDE DEF V
  <2>3. Max(V) = m.max
    BY <2>1, <2>2, MaxUnique
  <2> QED BY <2>3 DEF V
<1>6. l[i].latency = IF T = {} THEN None
                     ELSE <<SumOf(l, T) \div Cardinality(T), Max({l[k].latency : k \in T})>>
  <2>1. l[i].latency = IF m.count = 0 THEN None ELSE <<m.sum \div m.count, m.max>>
    BY <1>2 DEF SummaryOf
  <2> HIDE DEF T
  <2> QED BY <1>3, <1>4, <1>5, <2>1
<1>7. Right(l, i)
  BY <1>2, <1>6 DEF Right, Open
<1>8. /\ From(l, i + 1) = i /\ InWindow(l, i + 1) = {}
      /\ InSession(l, i + 1) = InSession(l, i)
  BY <1>1, <1>2, WindowNext
<1>9. TimedIn(l, i + 1) = {} /\ Begun(l, i + 1) /\ Opened(l, i + 1) = now
  BY <1>1, <1>2, <1>8 DEF TimedIn, Begun, Opened
<1> DEFINE r == NextWindow(m)
<1>10. /\ r.total = m.total /\ r.updates = 0 /\ r.sum = 0 /\ r.count = 0
       /\ r.max = 0 /\ r.windowStart = now
  BY DEF NextWindow, Counters
<1>11. SumOf(l, {}) = 0 /\ Cardinality({}) = 0
  BY SumEmpty, FS_EmptySet
<1>12. m.total = Cardinality(InSession(l, i))
  BY DEF Open
<1> HIDE DEF r
<1>13. Open(r, l, i + 1)
  BY <1>8, <1>9, <1>10, <1>11, <1>12 DEF Open, IsGreatest
<1> QED BY <1>7, <1>13 DEF r

----------------------------------------------------------------------------
(* The inductive part.                                                     *)

AllRight(l) == \A i \in DOMAIN l : IsLine(l[i]) => Right(l, i)

WindowInv ==
  /\ AllRight(log)
  /\ session # "seeded" => metrics = None
  /\ metrics # None => Open(metrics, log, Len(log) + 1)
  /\ session # "down" /\ metrics = None => Fresh(log, Len(log) + 1)

\* An entry more.
LEMMA AppendIs ==
  ASSUME NEW l \in Seq(Entry), NEW e \in Entry, NEW k, k = l \o <<e>>
  PROVE  /\ k \in Seq(Entry) /\ Len(k) = Len(l) + 1 /\ Len(l) \in Nat
         /\ k[Len(l) + 1] = e
         /\ \A j \in 1 .. Len(l) : k[j] = l[j]
         /\ DOMAIN k = 1 .. Len(k) /\ DOMAIN l = 1 .. Len(l)
BY ConcatProperties, LenProperties

LEMMA AllRightKept ==
  ASSUME NEW l \in Seq(Entry), AllRight(l), NEW k \in Seq(Entry), Len(l) <= Len(k),
         \A j \in 1 .. Len(l) : k[j] = l[j],
         \A j \in Len(l) + 1 .. Len(k) : IsLine(k[j]) => Right(k, j)
  PROVE  AllRight(k)
<1> SUFFICES ASSUME NEW i \in DOMAIN k, IsLine(k[i]) PROVE Right(k, i)
  BY DEF AllRight
<1>1. i \in 1 .. Len(k) /\ Len(k) \in Nat /\ Len(l) \in Nat /\ DOMAIN l = 1 .. Len(l)
  BY LenProperties
<1>2. CASE i \in 1 .. Len(l)
  <2>1. Right(l, i)
    BY <1>1, <1>2 DEF AllRight
  <2> QED BY <1>2, <2>1, RightKept
<1>3. CASE i \in Len(l) + 1 .. Len(k)
  BY <1>3
<1> QED BY <1>1, <1>2, <1>3

\* maybe_print, once the counters are right.
LEMMA PrintingRight ==
  ASSUME NEW l \in Seq(Entry), AllRight(l), NEW m \in Counters,
         Open(m, l, Len(l) + 1), now \in Nat, Line(m) \in Entry,
         NEW k, NEW c,
         \/ c = m /\ k = l
         \/ c = NextWindow(m) /\ k = l \o <<Line(m)>>
  PROVE  AllRight(k) /\ Open(c, k, Len(k) + 1)
<1>1. CASE c = m /\ k = l
  BY <1>1
<1>2. CASE c = NextWindow(m) /\ k = l \o <<Line(m)>>
  <2> DEFINE i == Len(l) + 1
  <2>1. /\ k \in Seq(Entry) /\ Len(k) = Len(l) + 1 /\ Len(l) \in Nat
        /\ k[Len(l) + 1] = Line(m) /\ \A j \in 1 .. Len(l) : k[j] = l[j]
    BY <1>2, AppendIs
  <2>2. i \in 1 .. Len(l) + 1 /\ i \in 1 .. Len(k) /\ \A j \in 1 .. i - 1 : k[j] = l[j]
    BY <2>1
  <2>3. Open(m, k, i)
    BY <2>2, OpenKept
  <2>4. Right(k, i) /\ Open(NextWindow(m), k, i + 1)
    BY <2>1, <2>2, <2>3, OpenLine
  <2>5. \A j \in Len(l) + 1 .. Len(k) : j = i
    BY <2>1
  <2>6. AllRight(k)
    BY <2>1, <2>4, <2>5, AllRightKept
  <2> QED BY <1>2, <2>1, <2>4, <2>6
<1> QED BY <1>1, <1>2

\* A session with counters, or with none yet, applies a delta.
LEMMA AppliedRight ==
  ASSUME Inv, MetricsAssumption, WindowInv, session # "down",
         NEW offset \in Offsets \cup {NoTime},
         NEW l, l = log \o <<[kind |-> "applied", at |-> now, latency |-> Latency(offset)]>>
  PROVE  /\ l \in Seq(Entry) /\ AllRight(l)
         /\ Open(Counted(offset), l, Len(l) + 1)
<1> DEFINE e == [kind |-> "applied", at |-> now, latency |-> Latency(offset)]
           n == Len(log) + 1
<1>1. now \in Nat /\ log \in Seq(Entry) /\ metrics \in Counters \cup {None}
  BY DEF Inv, TypeOK, MetricsAssumption
<1>2. Latency(offset) \in Nat \cup {NoTime}
  BY <1>1, Counting DEF Inv, PaceInv
<1>3. e \in Entry /\ ~ IsLine(e)
  BY <1>1, <1>2 DEF Entry, IsLine
<1>4. /\ l \in Seq(Entry) /\ Len(l) = n /\ Len(log) \in Nat
      /\ l[n] = e /\ \A j \in 1 .. Len(log) : l[j] = log[j]
  BY <1>1, <1>3, AppendIs
<1>5. n \in 1 .. Len(l) /\ n \in 1 .. Len(log) + 1 /\ \A j \in 1 .. n - 1 : l[j] = log[j]
  BY <1>4
<1>6. l[n].kind = "applied" /\ l[n].at = now /\ l[n].latency = Latency(offset)
  BY <1>4
<1>7. AllRight(l)
  <2>1. \A j \in Len(log) + 1 .. Len(l) : j = n
    BY <1>4
  <2>2. ~ IsLine(l[n])
    BY <1>3, <1>4
  <2>3. \A j \in Len(log) + 1 .. Len(l) : IsLine(l[j]) => Right(l, j)
    BY <2>1, <2>2
  <2>4. AllRight(log) /\ Len(log) <= Len(l)
    BY <1>4 DEF WindowInv
  <2> QED BY <1>1, <1>4, <2>3, <2>4, AllRightKept
<1> HIDE DEF e
<1>8. CASE metrics = None
  <2>1. Fresh(log, n)
    BY <1>8 DEF WindowInv
  <2>2. Fresh(l, n)
    BY <1>5, <2>1 DEF Fresh
  <2>3. Open(RecordUpdate(New, l[n].latency), l, n + 1)
    <3> HIDE DEF n
    <3> QED BY <1>4, <1>5, <1>6, <2>2, OpenFirst
  <2> QED BY <1>4, <1>6, <1>7, <1>8, <2>3 DEF Counted
<1>9. CASE metrics # None
  <2>1. metrics \in Counters /\ Open(metrics, log, n)
    BY <1>1, <1>9 DEF WindowInv
  <2>2. Open(metrics, l, n)
    <3> HIDE DEF n
    <3> QED BY <1>1, <1>5, <2>1, OpenKept
  <2>3. Open(RecordUpdate(metrics, l[n].latency), l, n + 1)
    <3> HIDE DEF n
    <3> QED BY <1>4, <1>5, <1>6, <2>1, <2>2, OpenApplied
  <2> QED BY <1>4, <1>6, <1>7, <1>9, <2>3 DEF Counted
<1> QED BY <1>8, <1>9

\* maybe_print does one of two things.
LEMMA PrintsOrNot ==
  ASSUME NEW m \in Counters, NEW es \in Seq(Entry), log \in Seq(Entry), MaybePrint(m, es)
  PROVE  \/ metrics' = m /\ log' = log \o es
         \/ metrics' = NextWindow(m) /\ log' = (log \o es) \o <<Line(m)>>
BY DEF MaybePrint

LEMMA LineType ==
  ASSUME NEW m \in Counters, m.windowStart <= now, now \in Nat
  PROVE  Line(m) \in Entry
<1>1. /\ m.sum \in Nat /\ m.count \in Nat /\ m.max \in Nat /\ m.total \in Nat
      /\ m.updates \in Nat /\ now - m.windowStart \in Nat
  BY DEF Counters
<1>2. \A a \in Nat, b \in Nat \ {0} : a \div b \in Nat
  OBVIOUS
<1>3. SummaryOf(m) \in Summary
  BY <1>1, <1>2 DEF SummaryOf, Summary
<1> QED BY <1>1, <1>3 DEF Line, Entry

LEMMA NextWindowType ==
  ASSUME NEW m \in Counters, now \in Nat PROVE NextWindow(m) \in Counters
BY DEF NextWindow, Counters

\* Either way the counters and the lines are right.
LEMMA PrintedRight ==
  ASSUME now \in Nat, log \in Seq(Entry), NEW es \in Seq(Entry),
         NEW m \in Counters, m.windowStart <= now, MaybePrint(m, es),
         AllRight(log \o es), Open(m, log \o es, Len(log \o es) + 1)
  PROVE  /\ AllRight(log') /\ Open(metrics', log', Len(log') + 1)
         /\ metrics' # None
<1>1. PICK l : l = log \o es
  OBVIOUS
<1>2. l \in Seq(Entry)
  BY <1>1, ConcatProperties
<1>3. \/ metrics' = m /\ log' = l
      \/ metrics' = NextWindow(m) /\ log' = l \o <<Line(m)>>
  BY <1>1, PrintsOrNot
<1>4. Line(m) \in Entry
  BY LineType
<1>5. AllRight(l) /\ Open(m, l, Len(l) + 1)
  BY <1>1
<1>6. AllRight(log') /\ Open(metrics', log', Len(log') + 1)
  BY <1>2, <1>3, <1>4, <1>5, PrintingRight
<1>7. metrics' # None
  BY <1>3, NextWindowType, NoneAssumption
<1> QED BY <1>6, <1>7

LEMMA FreshLater ==
  ASSUME NEW l \in Seq(Entry), Fresh(l, Len(l) + 1), NEW k \in Seq(Entry),
         Len(l) <= Len(k), \A j \in 1 .. Len(l) : k[j] = l[j],
         \A j \in Len(l) + 1 .. Len(k) : k[j].kind = "replayed"
  PROVE  Fresh(k, Len(k) + 1)
<1>1. Len(l) \in Nat /\ Len(k) \in Nat
  BY LenProperties
<1>2. PICK s \in 1 .. Len(l) : /\ l[s].kind = "start"
                               /\ \A j \in s + 1 .. Len(l) : l[j].kind = "replayed"
  BY <1>1 DEF Fresh
<1>3. \A j \in s + 1 .. Len(k) : k[j].kind = "replayed"
  <2> SUFFICES ASSUME NEW j \in s + 1 .. Len(k) PROVE k[j].kind = "replayed"
    OBVIOUS
  <2>1. j \in s + 1 .. Len(l) \/ j \in Len(l) + 1 .. Len(k)
    BY <1>1, <1>2
  <2>2. ASSUME j \in s + 1 .. Len(l) PROVE k[j] = l[j]
    BY <1>1, <1>2, <2>2
  <2> QED BY <1>2, <2>1, <2>2
<1>4. s \in 1 .. (Len(k) + 1) - 1 /\ k[s].kind = "start" /\ (Len(k) + 1) - 1 = Len(k)
  BY <1>1, <1>2
<1> QED BY <1>3, <1>4 DEF Fresh

LEMMA WindowsInitially == Init => WindowInv
<1> SUFFICES ASSUME Init PROVE WindowInv
  OBVIOUS
<1>1. DOMAIN log = {}
  BY DEF Init
<1> QED BY <1>1 DEF Init, WindowInv, AllRight

LEMMA WindowsPreserved ==
  MetricsAssumption /\ Inv /\ WindowInv /\ [Next]_vars => WindowInv'
<1> SUFFICES ASSUME MetricsAssumption, Inv, WindowInv, [Next]_vars PROVE WindowInv'
  OBVIOUS
<1>1. now \in Nat /\ log \in Seq(Entry) /\ metrics \in Counters \cup {None}
  BY DEF Inv, TypeOK, MetricsAssumption
<1>2. /\ AllRight(log) /\ (session # "seeded" => metrics = None)
      /\ (metrics # None => Open(metrics, log, Len(log) + 1))
      /\ (session # "down" /\ metrics = None => Fresh(log, Len(log) + 1))
  BY DEF WindowInv
<1>3. ASSUME UNCHANGED <<metrics, log>>, session' = session PROVE WindowInv'
  BY <1>2, <1>3 DEF WindowInv, AllRight, Open, Fresh, Right
<1>4. CASE Tick \/ UNCHANGED vars
  BY <1>3, <1>4 DEF Tick, vars
<1>5. CASE Start
  <2>1. PICK k : k = log \o <<Event("start")>>
    OBVIOUS
  <2>2. Event("start") \in Entry /\ ~ IsLine(Event("start")) /\ Event("start").kind = "start"
    BY <1>1 DEF Event, Entry, IsLine
  <2>3. log' = k /\ session' = "unseeded" /\ metrics' = None
    BY <1>1, <1>2, <1>5, <2>1, <2>2, AppendIsConcat DEF Start
  <2>4. /\ k \in Seq(Entry) /\ Len(k) = Len(log) + 1 /\ Len(log) \in Nat
        /\ k[Len(log) + 1] = Event("start")
        /\ \A j \in 1 .. Len(log) : k[j] = log[j]
    BY <1>1, <2>1, <2>2, AppendIs
  <2>5. AllRight(k)
    <3>1. \A j \in Len(log) + 1 .. Len(k) : j = Len(log) + 1
      BY <2>4
    <3>2. \A j \in Len(log) + 1 .. Len(k) : IsLine(k[j]) => Right(k, j)
      BY <2>2, <2>4, <3>1
    <3> QED BY <1>1, <1>2, <2>4, <3>2, AllRightKept
  <2>6. Fresh(k, Len(k) + 1)
    <3>1. Len(k) \in 1 .. (Len(k) + 1) - 1 /\ k[Len(k)].kind = "start"
      BY <2>2, <2>4
    <3>2. \A j \in Len(k) + 1 .. (Len(k) + 1) - 1 : k[j].kind = "replayed"
      BY <2>4
    <3> QED BY <3>1, <3>2 DEF Fresh
  <2> QED BY <2>3, <2>5, <2>6 DEF WindowInv, AllRight, Fresh, Right
<1>6. ASSUME NEW n \in 0 .. MaxEvents, SeedByRest(n) PROVE WindowInv'
  <2> DEFINE es == [i \in 1 .. n |-> Event("replayed")]
  <2>1. PICK k : k = log \o es
    OBVIOUS
  <2>2. /\ Event("replayed") \in Entry /\ ~ IsLine(Event("replayed"))
        /\ Event("replayed").kind = "replayed"
    BY <1>1 DEF Event, Entry, IsLine
  <2>3. log' = k /\ session' = "seeded" /\ metrics' = None /\ session = "unseeded"
    BY <1>2, <1>6, <2>1 DEF SeedByRest
  <2>4. n \in Nat /\ es \in Seq(Entry) /\ Len(es) = n
    BY <2>2, IsASeq DEF MetricsAssumption
  <2>5. /\ k \in Seq(Entry) /\ Len(k) = Len(log) + n /\ Len(log) \in Nat
        /\ \A j \in 1 .. Len(log) : k[j] = log[j]
        /\ \A j \in Len(log) + 1 .. Len(k) : k[j] = Event("replayed")
    <3>1. \A j \in 1 .. Len(log) + n : k[j] = IF j <= Len(log) THEN log[j] ELSE es[j - Len(log)]
      BY <1>1, <2>1, <2>4, ConcatProperties
    <3>2. k \in Seq(Entry) /\ Len(k) = Len(log) + n /\ Len(log) \in Nat
      BY <1>1, <2>1, <2>4, ConcatProperties, LenProperties
    <3>3. \A j \in 1 .. Len(log) : k[j] = log[j]
      <4> HIDE DEF es
      <4> QED BY <2>4, <3>1, <3>2
    <3>4. ASSUME NEW j \in Len(log) + 1 .. Len(k) PROVE k[j] = Event("replayed")
      <4>1. j - Len(log) \in 1 .. n /\ j \in 1 .. Len(log) + n /\ ~ (j <= Len(log))
        BY <2>4, <3>2
      <4>2. es[j - Len(log)] = Event("replayed")
        BY <4>1
      <4> HIDE DEF es
      <4> QED BY <3>1, <4>1, <4>2
    <3> QED BY <3>2, <3>3, <3>4
  <2>6. Len(log) <= Len(k)
    BY <2>4, <2>5
  <2>7. AllRight(k)
    <3>1. \A j \in Len(log) + 1 .. Len(k) : IsLine(k[j]) => Right(k, j)
      BY <2>2, <2>5
    <3> HIDE DEF es
    <3> QED BY <1>1, <1>2, <2>5, <2>6, <3>1, AllRightKept
  <2>8. Fresh(k, Len(k) + 1)
    <3>1. Fresh(log, Len(log) + 1)
      BY <1>2, <2>3
    <3>2. \A j \in Len(log) + 1 .. Len(k) : k[j].kind = "replayed"
      BY <2>2, <2>5
    <3> HIDE DEF es
    <3> QED BY <1>1, <2>5, <2>6, <3>1, <3>2, FreshLater
  <2> QED BY <2>3, <2>7, <2>8 DEF WindowInv, AllRight, Fresh, Right
<1>7. ASSUME MaybePrint(metrics, <<>>), session # "down", session' = "seeded"
      PROVE  WindowInv'
  <2>1. log \o <<>> = log /\ <<>> \in Seq(Entry)
    BY <1>1
  <2>2. CASE metrics = None
    <3>1. metrics' = metrics /\ log' = log
      BY <1>7, <2>1, <2>2 DEF MaybePrint
    <3> QED BY <1>2, <1>7, <2>2, <3>1 DEF WindowInv, AllRight, Fresh, Right
  <2>3. CASE metrics # None
    <3>1. metrics \in Counters /\ metrics.windowStart <= now
      BY <1>1, <2>3 DEF Inv, PaceInv, Follow
    <3>2. /\ AllRight(log') /\ Open(metrics', log', Len(log') + 1)
          /\ metrics' # None
      BY <1>1, <1>2, <1>7, <2>1, <2>3, <3>1, PrintedRight
    <3> QED BY <1>7, <3>2 DEF WindowInv, AllRight, Right, Open
  <2> QED BY <2>2, <2>3
<1>8. CASE Snapshot \/ StaleDelta
  <2>1. MaybePrint(metrics, <<>>) /\ session # "down" /\ session' = "seeded"
    BY <1>8 DEF Snapshot, StaleDelta
  <2> QED BY <1>7, <2>1
<1>9. ASSUME EndSession PROVE WindowInv'
  BY <1>2, <1>9 DEF EndSession, WindowInv, AllRight, Right
<1>10. ASSUME NEW offset \in Offsets \cup {NoTime}, NEW verified \in BOOLEAN,
              Apply(offset, verified)
       PROVE  WindowInv'
  <2> DEFINE e == [kind |-> "applied", at |-> now, latency |-> Latency(offset)]
  <2>1. CASE EndSession
    BY <1>9, <2>1
  <2>2. CASE MaybePrint(Counted(offset), <<e>>) /\ UNCHANGED <<now, session>>
    <3>1. session = "seeded" /\ session' = "seeded"
      BY <1>10, <2>2 DEF Apply
    <3>2. /\ Latency(offset) \in Nat \cup {NoTime} /\ Counted(offset) \in Counters
          /\ Counted(offset).windowStart <= now
      <4>1. /\ Latency(offset) \in Nat \cup {NoTime} /\ Counted(offset) \in Counters
            /\ Follow(Counted(offset), log)
        BY <1>1, Counting DEF Inv, PaceInv
      <4> QED BY <4>1, NoneAssumption DEF Follow
    <3>3. <<e>> \in Seq(Entry)
      BY <1>1, <3>2 DEF Entry
    <3>4. /\ AllRight(log \o <<e>>)
          /\ Open(Counted(offset), log \o <<e>>, Len(log \o <<e>>) + 1)
      <4>1. PICK l : l = log \o <<e>>
        OBVIOUS
      <4> QED BY <3>1, <4>1, AppliedRight
    <3> HIDE DEF e
    <3>5. /\ AllRight(log') /\ Open(metrics', log', Len(log') + 1)
          /\ metrics' # None
      BY <1>1, <2>2, <3>2, <3>3, <3>4, PrintedRight
    <3> QED BY <3>1, <3>5 DEF WindowInv, AllRight, Right, Open
  <2> QED BY <1>10, <2>1, <2>2 DEF Apply
<1> QED BY <1>4, <1>5, <1>6, <1>8, <1>9, <1>10 DEF Next

LEMMA WindowInvariant == Spec => []WindowInv
BY Invariant, WindowsInitially, WindowsPreserved, MetricsAssumption, PTL DEF Spec

\* The total on a line is the number of deltas the session applied, verified
\* ones only, although a delta is counted before its checksum is checked.
THEOREM TotalsVerified == Spec => []TotalsAreVerified
<1>1. WindowInv => TotalsAreVerified
  BY DEF WindowInv, AllRight, Right, TotalsAreVerified, Lines, Is, IsLine,
         InSession, AppliedIn, SinceIn, AppliedAfter, Since
<1> QED BY <1>1, WindowInvariant, PTL

\* The lines of a session divide it: every applied delta and latency is
\* reported by exactly one line, over the time since the line before.
THEOREM WindowsDivide == Spec => []WindowsDivideSession
<1>1. WindowInv => WindowsDivideSession
  <2> SUFFICES ASSUME WindowInv, NEW i \in DOMAIN log, log[i].kind = "line"
               PROVE  LET from    == Since(i, {"start", "line"})
                          applied == AppliedAfter(from, i)
                          timed   == {k \in applied : log[k].latency # NoTime}
                      IN /\ log[i].updates = Cardinality(applied)
                         /\ log[i].elapsed = log[i].at - (IF Is("line", from) THEN log[from].at
                                                          ELSE log[Min(applied)].at)
                         /\ log[i].latency =
                              IF timed = {} THEN None
                              ELSE <<MapThenSumSet(LAMBDA k : log[k].latency, timed) \div Cardinality(timed),
                                     Max({log[k].latency : k \in timed})>>
    BY DEF WindowsDivideSession, Lines, Is
  <2>1. Right(log, i)
    BY DEF WindowInv, AllRight, IsLine
  <2>2. Since(i, {"start", "line"}) = From(log, i)
    BY DEF Since, From, SinceIn
  <2>3. AppliedAfter(From(log, i), i) = InWindow(log, i)
    BY DEF AppliedAfter, Is, InWindow, AppliedIn
  <2>4. {k \in InWindow(log, i) : log[k].latency # NoTime} = TimedIn(log, i)
    BY DEF TimedIn
  <2>5. SumOf(log, TimedIn(log, i)) = MapThenSumSet(LAMBDA k : log[k].latency, TimedIn(log, i))
    BY DEF SumOf
  <2> QED BY <2>1, <2>2, <2>3, <2>4, <2>5 DEF Right, Opened, Is
<1> QED BY <1>1, WindowInvariant, PTL
============================================================================
