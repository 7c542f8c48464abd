------------------------- MODULE OrderBookAPIProofs -------------------------
(***************************************************************************)
(* The one-step operators of OrderBook leave what the code's loops leave,  *)
(* for every book, every list of levels and every depth; and what that     *)
(* says of any sequence of calls.                                          *)
(*                                                                         *)
(* A loop is a function that satisfies a recursive equation.  Each proof   *)
(* gives the function in closed form, shows that it satisfies the          *)
(* equation, and that no other function does: where another one differed   *)
(* first, its equation would make it agree.                                *)
(***************************************************************************)
EXTENDS OrderBookAPI, OrderBookProofs

----------------------------------------------------------------------------
(* set_level over a list.                                                  *)

\* The mentions of price p among the levels T of a list.
At(ls, T, p) == {i \in T : ls[i].price = p}

\* What the levels T of a list leave of a side: set_level in their order.
After(side, ls, T) ==
  [p \in Price |-> IF At(ls, T, p) = {} THEN side[p]
                   ELSE Stored(ls[Max(At(ls, T, p))].qty)]

\* Max of a set of places in a list.
LEMMA MaxPlace ==
  ASSUME NEW n \in Nat, NEW T, T \subseteq 1 .. n, T # {}
  PROVE  Max(T) \in T /\ \A i \in T : i <= Max(T)
<1>1. PICK m \in T : \A i \in T : i <= m
  BY HasMax
<1>2. \A i \in T : m >= i
  BY <1>1
<1>3. Max(T) \in T /\ \A i \in T : Max(T) >= i
  BY <1>2 DEF Max
<1> QED BY <1>3

LEMMA MaxIs ==
  ASSUME NEW n \in Nat, NEW T, T \subseteq 1 .. n, NEW m \in T, \A i \in T : i <= m
  PROVE  Max(T) = m
<1>1. Max(T) \in T /\ \A i \in T : i <= Max(T)
  BY MaxPlace
<1>2. m \in 1 .. n /\ Max(T) \in 1 .. n
  BY <1>1
<1>3. Max(T) <= m /\ m <= Max(T)
  BY <1>1
<1> QED BY <1>2, <1>3

\* SetLevels is the whole list in closed form.
LEMMA AfterAll ==
  ASSUME NEW side, NEW ls \in Seq(Level)
  PROVE  After(side, ls, DOMAIN ls) = SetLevels(side, ls)
<1> SUFFICES ASSUME NEW p \in Price
             PROVE  /\ At(ls, DOMAIN ls, p) = {} <=> ~ Mentions(ls, p)
                    /\ Mentions(ls, p)
                         => Max(At(ls, DOMAIN ls, p)) = LastMention(ls, p)
  BY DEF After, SetLevels
<1> DEFINE T == At(ls, DOMAIN ls, p)
<1>1. T = {} <=> ~ Mentions(ls, p)
  BY DEF At, Mentions
<1>2. ASSUME Mentions(ls, p) PROVE Max(T) = LastMention(ls, p)
  <2>1. DOMAIN ls = 1 .. Len(ls) /\ Len(ls) \in Nat /\ T \subseteq 1 .. Len(ls)
    BY DEF At
  <2>2. Max(T) \in T /\ \A i \in T : i <= Max(T)
    BY <1>1, <1>2, <2>1, MaxPlace
  <2>3. \E i \in DOMAIN ls :
          /\ ls[i].price = p
          /\ \A j \in DOMAIN ls : ls[j].price = p => j <= i
    BY <2>2 DEF At
  <2>4. /\ LastMention(ls, p) \in DOMAIN ls /\ ls[LastMention(ls, p)].price = p
        /\ \A j \in DOMAIN ls : ls[j].price = p => j <= LastMention(ls, p)
    BY <2>3 DEF LastMention
  <2>5. LastMention(ls, p) \in T /\ \A i \in T : i <= LastMention(ls, p)
    BY <2>4 DEF At
  <2> QED BY <2>1, <2>5, MaxIs
<1> QED BY <1>1, <1>2

\* The last of the levels T acts on what the others leave.
LEMMA AfterLast ==
  ASSUME NEW side, NEW ls \in Seq(Level), NEW T \in SUBSET DOMAIN ls, T # {}
  PROVE  /\ Max(T) \in T
         /\ After(side, ls, T) = SetLevel(After(side, ls, T \ {Max(T)}), ls[Max(T)])
<1> DEFINE m == Max(T)
           U == T \ {m}
<1>1. DOMAIN ls = 1 .. Len(ls) /\ Len(ls) \in Nat /\ T \subseteq 1 .. Len(ls)
  OBVIOUS
<1>2. m \in T /\ \A i \in T : i <= m
  BY <1>1, MaxPlace
<1> HIDE DEF m
<1>3. ls[m] \in Level /\ ls[m].price \in Price
  <2>1. m \in 1 .. Len(ls)
    BY <1>1, <1>2
  <2>2. ls[m] \in Level
    BY <1>1, <2>1
  <2> QED BY <2>2 DEF Level
<1>4. ASSUME NEW p \in Price
      PROVE  After(side, ls, T)[p] = IF p = ls[m].price THEN Stored(ls[m].qty)
                                     ELSE After(side, ls, U)[p]
  <2>1. CASE p = ls[m].price
    <3>1. m \in At(ls, T, p) /\ At(ls, T, p) \subseteq 1 .. Len(ls)
      BY <1>1, <1>2, <2>1 DEF At
    <3>2. \A i \in At(ls, T, p) : i <= m
      BY <1>2 DEF At
    <3>3. Max(At(ls, T, p)) = m
      BY <1>1, <3>1, <3>2, MaxIs
    <3> QED BY <2>1, <3>1, <3>3 DEF After
  <2>2. CASE p # ls[m].price
    <3>1. At(ls, T, p) = At(ls, U, p)
      BY <2>2 DEF At
    <3> QED BY <2>2, <3>1 DEF After
  <2> QED BY <2>1, <2>2
<1>5. SetLevel(After(side, ls, U), ls[m])
        = [p \in Price |-> IF p = ls[m].price THEN Stored(ls[m].qty)
                           ELSE After(side, ls, U)[p]]
  BY <1>3 DEF SetLevel, After
<1>6. After(side, ls, T) = [p \in Price |-> After(side, ls, T)[p]]
  BY DEF After
<1> QED BY <1>2, <1>4, <1>5, <1>6 DEF m

\* A run of the loop: the side after each of the sets of levels.
IsLoop(f, side, ls) ==
  f = [T \in SUBSET DOMAIN ls |->
         IF T = {} THEN side ELSE SetLevel(f[T \ {Max(T)}], ls[Max(T)])]

LEMMA LoopExists ==
  ASSUME NEW side, side = [p \in Price |-> side[p]], NEW ls \in Seq(Level)
  PROVE  IsLoop([T \in SUBSET DOMAIN ls |-> After(side, ls, T)], side, ls)
<1> DEFINE f == [T \in SUBSET DOMAIN ls |-> After(side, ls, T)]
<1>1. \A T \in SUBSET DOMAIN ls : f[T] = After(side, ls, T)
  OBVIOUS
<1> HIDE DEF f
<1>2. ASSUME NEW T \in SUBSET DOMAIN ls
      PROVE  After(side, ls, T) =
               IF T = {} THEN side ELSE SetLevel(f[T \ {Max(T)}], ls[Max(T)])
  <2>1. CASE T = {}
    <3>1. \A p : At(ls, T, p) = {}
      BY <2>1 DEF At
    <3> QED BY <2>1, <3>1 DEF After
  <2>2. CASE T # {}
    <3>1. f[T \ {Max(T)}] = After(side, ls, T \ {Max(T)})
      BY <1>1
    <3> QED BY <2>2, <3>1, AfterLast
  <2> QED BY <2>1, <2>2
<1>3. f = [T \in SUBSET DOMAIN ls |-> After(side, ls, T)]
  BY DEF f
<1>4. f = [T \in SUBSET DOMAIN ls |->
             IF T = {} THEN side ELSE SetLevel(f[T \ {Max(T)}], ls[Max(T)])]
  BY <1>2, <1>3
<1> QED BY <1>4 DEF IsLoop, f

LEMMA LoopUnique ==
  ASSUME NEW side, side = [p \in Price |-> side[p]], NEW ls \in Seq(Level),
         NEW f, IsLoop(f, side, ls), NEW T \in SUBSET DOMAIN ls
  PROVE  f[T] = After(side, ls, T)
<1> DEFINE Wrong == {U \in SUBSET DOMAIN ls : f[U] # After(side, ls, U)}
           Sizes == {Cardinality(U) : U \in Wrong}
<1>1. IsFiniteSet(DOMAIN ls)
  <2>1. DOMAIN ls = 1 .. Len(ls) /\ 1 \in Int /\ Len(ls) \in Int
    OBVIOUS
  <2> QED BY <2>1, FS_Interval
<1>2. \A U \in SUBSET DOMAIN ls : IsFiniteSet(U) /\ Cardinality(U) \in Nat
  BY <1>1, FS_Subset, FS_CardinalityType
<1>3. \A U \in SUBSET DOMAIN ls :
        f[U] = IF U = {} THEN side ELSE SetLevel(f[U \ {Max(U)}], ls[Max(U)])
  BY DEF IsLoop
<1>4. SUFFICES ASSUME f[T] # After(side, ls, T) PROVE FALSE
  OBVIOUS
<1>5. Sizes \subseteq Nat /\ Sizes # {}
  BY <1>2, <1>4
<1>6. PICK n \in Sizes : \A k \in Sizes : n <= k
  BY <1>5, HasMin
<1>7. PICK U \in Wrong : n = Cardinality(U)
  BY <1>6
<1>8. U # {}
  <2>1. \A p : At(ls, {}, p) = {}
    BY DEF At
  <2>2. After(side, ls, {}) = side
    BY <2>1 DEF After
  <2> QED BY <1>3, <1>7, <2>2
<1> DEFINE V == U \ {Max(U)}
<1>9. Max(U) \in U /\ After(side, ls, U) = SetLevel(After(side, ls, V), ls[Max(U)])
  BY <1>7, <1>8, AfterLast
<1>10. V \in SUBSET DOMAIN ls /\ Cardinality(V) = n - 1
  BY <1>2, <1>7, <1>9, FS_RemoveElement
<1>11. f[V] = After(side, ls, V)
  <2> SUFFICES ASSUME V \in Wrong PROVE FALSE
    BY <1>10
  <2>1. n - 1 \in Sizes
    BY <1>10
  <2> HIDE DEF Sizes
  <2>2. n \in Nat /\ n <= n - 1
    BY <1>5, <1>6, <2>1
  <2> QED BY <2>2
<1> QED BY <1>3, <1>7, <1>8, <1>9, <1>11

\* The loop of set_level over a list leaves the last mention of each price:
\* repeated prices, removals of absent levels, any order.
LEMMA SetLevelsLoop ==
  ASSUME NEW side \in Side, NEW ls \in Seq(Level)
  PROVE  LoopSetLevels(side, ls) = SetLevels(side, ls)
<1> DEFINE f == CHOOSE f : IsLoop(f, side, ls)
<1>1. side = [p \in Price |-> side[p]]
  BY DEF Side
<1>2. \E g : IsLoop(g, side, ls)
  BY <1>1, LoopExists
<1>3. IsLoop(f, side, ls)
  BY <1>2
<1>4. LoopSetLevels(side, ls) = f[DOMAIN ls]
  BY DEF LoopSetLevels, FoldLeft, MapThenFoldSet, IsLoop
<1> HIDE DEF f
<1>5. f[DOMAIN ls] = After(side, ls, DOMAIN ls)
  BY <1>1, <1>3, LoopUnique
<1> QED BY <1>4, <1>5, AfterAll

----------------------------------------------------------------------------
(* retain_top.                                                             *)

\* A price that every other price of the side is better than.
LEMMA WorstExists ==
  ASSUME NEW S, IsFiniteSet(S), S # {}, NEW R, StrictOrder(R, S)
  PROVE  \E w \in S : \A q \in S \ {w} : <<q, w>> \in R
<1>1. Cardinality(S) \in Nat /\ Cardinality(S) # 0
  BY FS_CardinalityType, FS_EmptySet
<1>2. Cardinality(S) - 1 \in 0 .. Cardinality(S) - 1
  BY <1>1
<1>3. PICK w \in S : Rank(S, R, w) = Cardinality(S) - 1
  BY <1>2, Ranked
<1>4. Better(S, R, w) \in SUBSET (S \ {w})
  BY DEF Better, StrictOrder
<1>5. IsFiniteSet(S \ {w}) /\ Cardinality(S \ {w}) = Cardinality(S) - 1
  BY FS_RemoveElement
<1>6. Better(S, R, w) = S \ {w}
  BY <1>3, <1>4, <1>5, FS_Subset DEF Rank
<1> QED BY <1>6 DEF Better

\* The direction of a side: bids are worst at the bottom, asks at the top.
Direction(R, to) == (R = Higher /\ to = 1) \/ (R = Lower /\ to = -1)

LEMMA WorstIs ==
  ASSUME NEW side, Prices(side) # {}, NEW R, NEW to, Direction(R, to)
  PROVE  /\ Worst(side, to) \in Prices(side)
         /\ \A q \in Prices(side) \ {Worst(side, to)} : <<q, Worst(side, to)>> \in R
<1> DEFINE S == Prices(side)
<1>1. S \subseteq Price /\ IsFiniteSet(S) /\ StrictOrder(R, S) /\ S \subseteq Int
  BY PricesType, BestFirst, PriceAssumption DEF Direction
<1> HIDE DEF S
<1>2. PICK w \in S : \A q \in S \ {w} : <<q, w>> \in R
  BY <1>1, WorstExists DEF S
<1>3. CASE R = Higher /\ to = 1
  <2>1. \A q \in S : 1 * w <= 1 * q
    <3> SUFFICES ASSUME NEW q \in S PROVE w <= q
      BY <1>1
    <3>1. q = w \/ q > w
      BY <1>2, <1>3 DEF Higher
    <3> QED BY <1>1, <3>1
  <2>2. Worst(side, to) \in S /\ \A q \in S : 1 * Worst(side, to) <= 1 * q
    BY <1>3, <2>1 DEF Worst, S
  <2> QED BY <1>1, <1>3, <2>2 DEF Higher, S
<1>4. CASE R = Lower /\ to = -1
  <2>1. \A q \in S : (-1) * w <= (-1) * q
    <3> SUFFICES ASSUME NEW q \in S PROVE q <= w
      BY <1>1
    <3>1. q = w \/ q < w
      BY <1>2, <1>4 DEF Lower
    <3> QED BY <1>1, <3>1
  <2>2. Worst(side, to) \in S /\ \A q \in S : (-1) * Worst(side, to) <= (-1) * q
    BY <1>4, <2>1 DEF Worst, S
  <2> QED BY <1>1, <1>4, <2>2 DEF Lower, S
<1> QED BY <1>3, <1>4 DEF Direction

\* A side that the loop leaves as it is.
Short(side, n) == Cardinality(Prices(side)) <= n

\* One turn of the loop of retain_top.
Turn(side, to) == [side EXCEPT ![Worst(side, to)] = NoLevel]

\* A side that is short enough keeps all its levels.
LEMMA ShortKept ==
  ASSUME NEW side \in Side, NEW n \in Nat, Short(side, n),
         NEW R, StrictOrder(R, Price)
  PROVE  KeepTop(side, n, R) = side
<1>1. ASSUME NEW p \in Price PROVE KeepTop(side, n, R)[p] = side[p]
  <2>1. CASE p \in Prices(side)
    <3>1. IsFiniteSet(Prices(side)) /\ StrictOrder(R, Prices(side))
      BY PricesType DEF StrictOrder
    <3>2. Rank(Prices(side), R, p) < Cardinality(Prices(side))
      BY <2>1, <3>1, RankBound
    <3>3. Rank(Prices(side), R, p) < n
      BY <3>1, <3>2, RankType, FS_CardinalityType DEF Short
    <3> QED BY <3>3 DEF KeepTop
  <2>2. CASE p \notin Prices(side)
    BY <2>2 DEF KeepTop, Prices
  <2> QED BY <2>1, <2>2
<1> QED BY <1>1 DEF KeepTop, Side

\* One turn of the loop leaves a side with fewer levels.
LEMMA WorstGone ==
  ASSUME NEW side \in Side, NEW n \in Nat, ~ Short(side, n),
         NEW R, NEW to, Direction(R, to)
  PROVE  Cardinality(Prices(Turn(side, to))) < Cardinality(Prices(side))
<1> DEFINE w == Worst(side, to)
           S == Prices(side)
<1>1. S \subseteq Price /\ IsFiniteSet(S) /\ Cardinality(S) \in Nat
  BY PricesType, FS_CardinalityType
<1>2. S # {}
  BY FS_EmptySet DEF Short
<1>3. w \in S
  BY <1>2, WorstIs
<1>4. Prices(Turn(side, to)) = S \ {w}
  BY <1>1, <1>3 DEF Side, Prices, Turn
<1>5. Cardinality(S \ {w}) = Cardinality(S) - 1
  BY <1>1, <1>3, FS_RemoveElement
<1>6. Cardinality(S \ {w}) < Cardinality(S)
  <2> HIDE DEF w, S
  <2> QED BY <1>1, <1>5
<1> QED BY <1>4, <1>6

\* The level it removes is one that is cut anyway.
LEMMA WorstCut ==
  ASSUME NEW side \in Side, NEW n \in Nat, ~ Short(side, n),
         NEW R, NEW to, Direction(R, to)
  PROVE  /\ Turn(side, to) \in Side
         /\ KeepTop(Turn(side, to), n, R) = KeepTop(side, n, R)
<1> DEFINE w == Worst(side, to)
           S == Prices(side)
           cut == [side EXCEPT ![w] = NoLevel]
<1>1. /\ S \subseteq Price /\ IsFiniteSet(S) /\ Cardinality(S) \in Nat
      /\ StrictOrder(R, Price) /\ StrictOrder(R, S)
  BY PricesType, FS_CardinalityType, BestFirst DEF Direction
<1>2. S # {}
  BY FS_EmptySet DEF Short
<1>3. w \in S /\ \A q \in S \ {w} : <<q, w>> \in R
  BY <1>2, WorstIs
<1>4. cut \in Side /\ Prices(cut) = S \ {w}
  BY <1>1, <1>3 DEF Side, Prices
<1>5. Cardinality(S \ {w}) = Cardinality(S) - 1
  BY <1>1, <1>3, FS_RemoveElement
<1>6. KeepTop(side, n, R)[w] = NoLevel
  <2>1. Better(S, R, w) = S \ {w}
    BY <1>1, <1>3 DEF Better, StrictOrder
  <2>2. ~ (Rank(S, R, w) < n)
    BY <1>1, <1>5, <2>1 DEF Rank, Short
  <2> QED BY <1>1, <1>3, <2>2 DEF KeepTop
<1>7. \A p \in Price : IF KeepTop(side, n, R)[p] # NoLevel
                         THEN cut[p] = side[p]
                         ELSE cut[p] # NoLevel => side[p] # NoLevel
  BY <1>1, <1>3, <1>6 DEF Side
<1>8. Turn(side, to) = cut
  BY DEF Turn
<1> HIDE DEF cut
<1>9. KeepTop(cut, n, R) = KeepTop(side, n, R)
  BY <1>1, <1>4, <1>7, SameTop
<1> QED BY <1>4, <1>8, <1>9

\* A run of the loop of retain_top on every side.
IsCut(f, n, to) ==
  f = [s \in Side |-> IF Short(s, n) THEN s ELSE f[Turn(s, to)]]

LEMMA CutExists ==
  ASSUME NEW n \in Nat, NEW R, NEW to, Direction(R, to)
  PROVE  IsCut([s \in Side |-> KeepTop(s, n, R)], n, to)
<1> DEFINE f == [s \in Side |-> KeepTop(s, n, R)]
<1>1. StrictOrder(R, Price)
  BY BestFirst DEF Direction
<1>2. \A s \in Side : f[s] = KeepTop(s, n, R)
  OBVIOUS
<1> HIDE DEF f
<1>3. ASSUME NEW s \in Side
      PROVE  KeepTop(s, n, R) = IF Short(s, n) THEN s ELSE f[Turn(s, to)]
  <2>1. CASE Short(s, n)
    BY <1>1, <2>1, ShortKept
  <2>2. CASE ~ Short(s, n)
    BY <1>2, <2>2, WorstCut
  <2> QED BY <2>1, <2>2
<1>4. f = [s \in Side |-> IF Short(s, n) THEN s ELSE f[Turn(s, to)]]
  BY <1>3 DEF f
<1> QED BY <1>4 DEF IsCut, f

\* A side of least size on which a run is wrong would be cut, by one turn, to a
\* smaller one.
LEMMA CutUnique ==
  ASSUME NEW n \in Nat, NEW R, NEW to, Direction(R, to),
         NEW f, IsCut(f, n, to), NEW side \in Side
  PROVE  f[side] = KeepTop(side, n, R)
<1> DEFINE Wrong == {s \in Side : f[s] # KeepTop(s, n, R)}
           Sizes == {Cardinality(Prices(s)) : s \in Wrong}
<1>1. \A s \in Side : Cardinality(Prices(s)) \in Nat
  BY PricesType, FS_CardinalityType
<1>2. \A s \in Side : f[s] = IF Short(s, n) THEN s ELSE f[Turn(s, to)]
  BY DEF IsCut
<1>3. StrictOrder(R, Price)
  BY BestFirst DEF Direction
<1>4. SUFFICES ASSUME f[side] # KeepTop(side, n, R) PROVE FALSE
  OBVIOUS
<1>5. Sizes \subseteq Nat /\ Sizes # {}
  BY <1>1, <1>4
<1>6. PICK k \in Sizes : \A j \in Sizes : k <= j
  BY <1>5, HasMin
<1>7. PICK s \in Side : f[s] # KeepTop(s, n, R) /\ k = Cardinality(Prices(s))
  BY <1>6
<1>8. ~ Short(s, n)
  BY <1>2, <1>3, <1>7, ShortKept
<1>9. Turn(s, to) \in Side /\ KeepTop(Turn(s, to), n, R) = KeepTop(s, n, R)
  BY <1>8, WorstCut
<1>10. Cardinality(Prices(Turn(s, to))) < k
  BY <1>7, <1>8, WorstGone
<1>11. f[s] = f[Turn(s, to)]
  BY <1>2, <1>8
<1>12. Cardinality(Prices(Turn(s, to))) \in Sizes
  BY <1>7, <1>9, <1>11
<1> HIDE DEF Sizes
<1>13. /\ k <= Cardinality(Prices(Turn(s, to))) /\ k \in Nat
       /\ Cardinality(Prices(Turn(s, to))) \in Nat
  BY <1>5, <1>6, <1>12
<1> QED BY <1>10, <1>13

LEMMA RetainLoop ==
  ASSUME NEW side \in Side, NEW n \in Nat
  PROVE  /\ LoopRetain(side, n, 1) = KeepTopBids(side, n)
         /\ LoopRetain(side, n, -1) = KeepTopAsks(side, n)
<1>1. ASSUME NEW R, NEW to, Direction(R, to)
      PROVE  LoopRetain(side, n, to) = KeepTop(side, n, R)
  <2> DEFINE f == CHOOSE f : IsCut(f, n, to)
  <2>1. \E g : IsCut(g, n, to)
    BY <1>1, CutExists
  <2>2. IsCut(f, n, to)
    BY <2>1
  <2>3. LoopRetain(side, n, to) = f[side]
    BY DEF LoopRetain, IsCut, Short, Turn
  <2> HIDE DEF f
  <2> QED BY <1>1, <2>2, <2>3, CutUnique
<1>2. Direction(Higher, 1) /\ Direction(Lower, -1)
  BY DEF Direction
<1> QED BY <1>1, <1>2, KeepTops

----------------------------------------------------------------------------
(* Any sequence of calls.                                                  *)

Inv == TypeOK /\ LoopsAgree

LEMMA KeepTopsType ==
  ASSUME NEW side \in Side, NEW n
  PROVE  KeepTopBids(side, n) \in Side /\ KeepTopAsks(side, n) \in Side
  BY KeepTops, KeepTopType

LEMMA Initially == Init => Inv
  BY NewBookType DEF Init, Inv, TypeOK, LoopsAgree, Reply

LEMMA SnapshotAgrees ==
  ASSUME Inv, Snapshot
  PROVE  Inv'
<1>1. PICK b \in LevelList, a \in LevelList, id \in Id :
        /\ book' = ApplySnapshot(book, b, a, id)
        /\ loop' = [bids |-> LoopSetLevels(EmptySide, b),
                    asks |-> LoopSetLevels(EmptySide, a),
                    lastUpdateId |-> id, initialized |-> TRUE]
        /\ reply' = [op |-> "snapshot"]
  BY DEF Snapshot
<1>2. b \in Seq(Level) /\ a \in Seq(Level) /\ EmptySide \in Side
  BY ListAssumption, EmptySideType
<1>3. book' = [bids |-> SetLevels(EmptySide, b), asks |-> SetLevels(EmptySide, a),
               lastUpdateId |-> id, initialized |-> TRUE]
  BY <1>1 DEF ApplySnapshot
<1>4. book' = loop'
  BY <1>1, <1>2, <1>3, SetLevelsLoop
<1>5. book' \in Book
  BY <1>2, <1>3, SetLevelsType DEF Book
<1> QED BY <1>1, <1>4, <1>5 DEF Inv, TypeOK, LoopsAgree, Reply

LEMMA DeltaAgrees ==
  ASSUME Inv, Delta
  PROVE  Inv'
<1>1. PICK b \in LevelList, a \in LevelList, first \in Id, last \in Id :
        LET outcome == DeltaOutcome(book, first, last) IN
        /\ IF outcome = "applied"
             THEN /\ book' = WithDelta(book, b, a, last)
                  /\ loop' = [loop EXCEPT !.bids = LoopSetLevels(@, b),
                                          !.asks = LoopSetLevels(@, a),
                                          !.lastUpdateId = last]
             ELSE UNCHANGED <<book, loop>>
        /\ reply' = [op |-> "delta", first |-> first, last |-> last,
                     outcome |-> outcome]
  BY DEF Delta
<1>2. b \in Seq(Level) /\ a \in Seq(Level)
  BY ListAssumption
<1>3. reply' \in Reply
  BY <1>1 DEF Reply, DeltaOutcome
<1>4. book \in Book /\ loop = book /\ book.bids \in Side /\ book.asks \in Side
  BY DEF Inv, TypeOK, LoopsAgree, Book
<1>5. CASE UNCHANGED <<book, loop>>
  BY <1>3, <1>5 DEF Inv, TypeOK, LoopsAgree
<1>6. CASE /\ book' = WithDelta(book, b, a, last)
           /\ loop' = [loop EXCEPT !.bids = LoopSetLevels(@, b),
                                   !.asks = LoopSetLevels(@, a),
                                   !.lastUpdateId = last]
  <2>1. book' = [bids |-> SetLevels(book.bids, b), asks |-> SetLevels(book.asks, a),
                 lastUpdateId |-> last, initialized |-> book.initialized]
    BY <1>4, <1>6 DEF WithDelta, Book
  <2>2. loop' = [bids |-> LoopSetLevels(book.bids, b),
                 asks |-> LoopSetLevels(book.asks, a),
                 lastUpdateId |-> last, initialized |-> book.initialized]
    BY <1>4, <1>6 DEF Book
  <2>3. book' = loop'
    BY <1>2, <1>4, <2>1, <2>2, SetLevelsLoop
  <2>4. book' \in Book
    BY <1>2, <1>4, <2>1, SetLevelsType DEF Book
  <2> QED BY <1>3, <2>3, <2>4 DEF Inv, TypeOK, LoopsAgree
<1> QED BY <1>1, <1>5, <1>6

LEMMA RetainAgrees ==
  ASSUME Inv, Retain
  PROVE  Inv'
<1>1. PICK n \in 0 .. MaxDepth :
        /\ book' = RetainTop(book, n)
        /\ loop' = [loop EXCEPT !.bids = LoopRetain(@, n, 1),
                                !.asks = LoopRetain(@, n, -1)]
        /\ reply' = [op |-> "retain"]
  BY DEF Retain
<1>2. n \in Nat
  BY DepthAssumption
<1>3. book \in Book /\ loop = book /\ book.bids \in Side /\ book.asks \in Side
  BY DEF Inv, TypeOK, LoopsAgree, Book
<1>4. book' = [bids |-> KeepTopBids(book.bids, n), asks |-> KeepTopAsks(book.asks, n),
               lastUpdateId |-> book.lastUpdateId, initialized |-> book.initialized]
  BY <1>1, <1>3 DEF RetainTop, Book
<1>5. loop' = [bids |-> LoopRetain(book.bids, n, 1), asks |-> LoopRetain(book.asks, n, -1),
               lastUpdateId |-> book.lastUpdateId, initialized |-> book.initialized]
  BY <1>1, <1>3 DEF Book
<1>6. book' = loop'
  BY <1>2, <1>3, <1>4, <1>5, RetainLoop
<1>7. book' \in Book
  BY <1>3, <1>4, KeepTopsType DEF Book
<1> QED BY <1>1, <1>6, <1>7 DEF Inv, TypeOK, LoopsAgree, Reply

LEMMA Preserved == Inv /\ [Next]_vars => Inv'
<1>1. ASSUME Inv, UNCHANGED vars PROVE Inv'
  BY <1>1 DEF vars, Inv, TypeOK, LoopsAgree
<1> QED BY <1>1, SnapshotAgrees, DeltaAgrees, RetainAgrees DEF Next

LEMMA Invariant == Spec => []Inv
  BY Initially, Preserved, PTL DEF Spec

\* Every call leaves a well-formed book and returns what its type says.
THEOREM TypeCorrect == Spec => []TypeOK
<1>1. Inv => TypeOK
  BY DEF Inv
<1> QED BY <1>1, Invariant, PTL

\* The one-step operators, which the feeds are specified and proved with, leave
\* the same book as the loops of apply_snapshot, apply_delta and retain_top,
\* whatever was called before and with whatever lists and depths.
THEOREM OperatorsAreLoops == Spec => []LoopsAgree
<1>1. Inv => LoopsAgree
  BY DEF Inv
<1> QED BY <1>1, Invariant, PTL

\* apply_delta accepts a delta exactly if it is contiguous in unbounded
\* integers: the increment of last_update_id never overflows where it counts,
\* because the stale test comes first, and a rejected delta leaves the book.
THEOREM AcceptanceIsExact == Spec => AcceptedIffContiguous
<1> DEFINE A == reply'.op = "delta" =>
                  LET next == book.lastUpdateId + 1
                      want == IF ~book.initialized         THEN "gap"
                              ELSE IF reply'.last < next   THEN "stale"
                              ELSE IF next < reply'.first  THEN "gap"
                              ELSE "applied"
                  IN  /\ reply'.outcome = want
                      /\ want # "applied" => book' = book
<1>1. ASSUME TypeOK, Delta PROVE A
  <2>1. PICK first \in Id, last \in Id :
          /\ reply' = [op |-> "delta", first |-> first, last |-> last,
                       outcome |-> DeltaOutcome(book, first, last)]
          /\ DeltaOutcome(book, first, last) # "applied" => book' = book
    BY <1>1 DEF Delta
  <2>2. /\ book.lastUpdateId \in 0 .. IdMax /\ first \in 0 .. IdMax
        /\ last \in 0 .. IdMax /\ IdMax \in Nat
    BY <1>1, IdAssumption DEF TypeOK, Book, Id
  <2> QED BY <2>1, <2>2 DEF DeltaOutcome, Succ
<1>2. ASSUME Snapshot \/ Retain PROVE A
  <2>1. Snapshot => reply' = [op |-> "snapshot"]
    BY Zenon DEF Snapshot
  <2>2. Retain => reply' = [op |-> "retain"]
    BY Zenon DEF Retain
  <2>3. reply'.op = "snapshot" \/ reply'.op = "retain"
    BY <1>2, <2>1, <2>2
  <2> QED BY <2>3
<1> HIDE DEF A
<1>3. TypeOK /\ [Next]_vars => [A]_vars
  BY <1>1, <1>2 DEF Next
<1>4. Spec => [][A]_vars
  BY <1>3, TypeCorrect, PTL DEF Spec
<1> QED BY <1>4 DEF AcceptedIffContiguous, A

\* retain_top removes only levels that are worse than every level it keeps, so
\* the best bid and the best ask stay.
THEOREM TruncationIsHarmless == Spec => TruncationKeepsBest
<1> DEFINE B == reply'.op = "retain" =>
       /\ \A p \in Prices(book'.bids), q \in Prices(book.bids) \ Prices(book'.bids) :
            q < p
       /\ \A p \in Prices(book'.asks), q \in Prices(book.asks) \ Prices(book'.asks) :
            p < q
<1>1. ASSUME NEW side \in Side, NEW n \in Nat, NEW R, StrictOrder(R, Price),
             NEW p \in Prices(KeepTop(side, n, R)),
             NEW q \in Prices(side) \ Prices(KeepTop(side, n, R))
      PROVE  <<p, q>> \in R /\ p \in Price /\ q \in Price
  <2> DEFINE S == Prices(side)
  <2>1. S \subseteq Price /\ IsFiniteSet(S) /\ StrictOrder(R, S)
    <3>1. S \subseteq Price /\ IsFiniteSet(S)
      BY PricesType
    <3> QED BY <1>1, <3>1 DEF StrictOrder
  <2>2. /\ p \in S /\ q \in S /\ Rank(S, R, p) < n /\ ~ (Rank(S, R, q) < n)
    BY DEF KeepTop, Prices
  <2>3. ~ (<<q, p>> \in R)
    <3> HIDE DEF S
    <3>1. Rank(S, R, p) \in Nat /\ Rank(S, R, q) \in Nat
      BY <2>1, RankType
    <3>2. <<q, p>> \in R => Rank(S, R, q) < Rank(S, R, p)
      BY <2>1, <2>2, RankGrows
    <3> QED BY <2>2, <3>1, <3>2
  <2>4. p # q
    BY <2>2
  <2> QED BY <2>1, <2>2, <2>3, <2>4 DEF StrictOrder
<1>2. ASSUME TypeOK, Retain PROVE B
  <2>1. PICK n \in 0 .. MaxDepth : book' = RetainTop(book, n)
    BY <1>2 DEF Retain
  <2>2. n \in Nat /\ book.bids \in Side /\ book.asks \in Side
    BY <1>2, DepthAssumption DEF TypeOK, Book
  <2>3. /\ book'.bids = KeepTop(book.bids, n, Higher)
        /\ book'.asks = KeepTop(book.asks, n, Lower)
    BY <1>2, <2>1, KeepTops DEF RetainTop, TypeOK, Book
  <2>4. StrictOrder(Higher, Price) /\ StrictOrder(Lower, Price)
    BY BestFirst
  <2>5. ASSUME NEW p \in Prices(book'.bids),
               NEW q \in Prices(book.bids) \ Prices(book'.bids)
        PROVE  q < p
    <3>1. <<p, q>> \in Higher
      BY <1>1, <2>2, <2>3, <2>4
    <3> QED BY <3>1, PriceAssumption DEF Higher
  <2>6. ASSUME NEW p \in Prices(book'.asks),
               NEW q \in Prices(book.asks) \ Prices(book'.asks)
        PROVE  p < q
    <3>1. <<p, q>> \in Lower
      BY <1>1, <2>2, <2>3, <2>4
    <3> QED BY <3>1 DEF Lower
  <2> QED BY <2>5, <2>6
<1>3. ASSUME Snapshot \/ Delta PROVE B
  <2>1. Snapshot => reply' = [op |-> "snapshot"]
    BY Zenon DEF Snapshot
  <2>2. Delta => \E first, last, outcome :
          reply' = [op |-> "delta", first |-> first, last |-> last, outcome |-> outcome]
    BY Zenon DEF Delta
  <2>3. reply'.op = "snapshot" \/ reply'.op = "delta"
    BY <1>3, <2>1, <2>2
  <2> QED BY <2>3
<1> HIDE DEF B
<1>4. TypeOK /\ [Next]_vars => [B]_vars
  BY <1>2, <1>3 DEF Next
<1>5. Spec => [][B]_vars
  BY <1>4, TypeCorrect, PTL DEF Spec
<1> QED BY <1>5 DEF TruncationKeepsBest, B
============================================================================
