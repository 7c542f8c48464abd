-------------------------- MODULE OrderBookProofs --------------------------
(***************************************************************************)
(* Lemmas about the operators of OrderBook, for every set of prices and    *)
(* quantities: what a list of levels makes of a side, and what cutting a   *)
(* side to its best levels keeps.  The two ends of a side are treated      *)
(* together: R holds <<q, p>> when price q is better than price p.         *)
(***************************************************************************)
EXTENDS OrderBook, FiniteSetTheorems, NaturalsInduction, TLAPS

----------------------------------------------------------------------------
(* Numbers.                                                                *)

LEMMA HasMin ==
  ASSUME NEW S, S \subseteq Nat, S # {}
  PROVE  \E n \in S : \A k \in S : n <= k
<1>1. PICK n \in S : \A k \in S : <<k, n>> \notin OpToRel(<, Nat)
  BY NatLessThanWellFounded, WFMin
<1>2. \A k \in S : ~(k < n)
  BY <1>1 DEF OpToRel
<1> QED  BY <1>2

LEMMA HasMax ==
  ASSUME NEW n \in Nat, NEW S, S \subseteq 1 .. n, S # {}
  PROVE  \E i \in S : \A j \in S : j <= i
<1> DEFINE T == {n - i : i \in S}
<1>1. T \subseteq Nat /\ T # {}
  <2>1. \A i \in S : n - i \in Nat
    OBVIOUS
  <2>2. PICK i \in S : TRUE
    OBVIOUS
  <2>3. n - i \in T
    BY <2>2
  <2> QED  BY <2>1, <2>3
<1>2. PICK d \in T : \A k \in T : d <= k
  BY <1>1, HasMin
<1>3. PICK i \in S : d = n - i
  BY <1>2
<1>4. \A j \in S : n - i <= n - j
  BY <1>2, <1>3
<1> QED  BY <1>4

----------------------------------------------------------------------------
(* Levels.                                                                 *)

LEMMA SetLevelsType ==
  ASSUME NEW side \in Side, NEW ls \in Seq(Level)
  PROVE  SetLevels(side, ls) \in Side
<1> SUFFICES ASSUME NEW p \in Price, Mentions(ls, p)
             PROVE  Stored(ls[LastMention(ls, p)].qty) \in Qty \cup {NoLevel}
  BY DEF SetLevels, Side
<1> DEFINE S == {i \in DOMAIN ls : ls[i].price = p}
<1>1. DOMAIN ls = 1 .. Len(ls) /\ Len(ls) \in Nat
  OBVIOUS
<1>2. PICK i \in S : \A j \in S : j <= i
  BY <1>1, HasMax DEF Mentions
<1>3. LastMention(ls, p) \in DOMAIN ls
  BY <1>2 DEF LastMention
<1>4. ls[LastMention(ls, p)].qty \in Qty \cup {0}
  <2>1. ls[LastMention(ls, p)] \in Level
    BY <1>1, <1>3
  <2> QED  BY <2>1 DEF Level
<1> QED  BY <1>4 DEF Stored

LEMMA NewBookType == NewBook \in Book
  BY IdAssumption DEF NewBook, Book, EmptySide, Side, Id

LEMMA EmptySideType == EmptySide \in Side
  BY DEF EmptySide, Side

----------------------------------------------------------------------------
(* Ranks.                                                                  *)

StrictOrder(R, S) ==
  /\ \A x \in S : <<x, x>> \notin R
  /\ \A x, y \in S : x # y => <<x, y>> \in R \/ <<y, x>> \in R
  /\ \A x, y, z \in S : <<x, y>> \in R /\ <<y, z>> \in R => <<x, z>> \in R

Better(S, R, p) == {q \in S : <<q, p>> \in R}
Rank(S, R, p)   == Cardinality(Better(S, R, p))

LEMMA RankType ==
  ASSUME NEW S, IsFiniteSet(S), NEW R, NEW p
  PROVE  IsFiniteSet(Better(S, R, p)) /\ Rank(S, R, p) \in Nat
<1>1. Better(S, R, p) \in SUBSET S
  BY DEF Better
<1> QED  BY <1>1, FS_Subset, FS_CardinalityType DEF Rank

\* A worse price has at least one more that is better.
LEMMA RankGrows ==
  ASSUME NEW S, IsFiniteSet(S), NEW R, StrictOrder(R, S),
         NEW x \in S, NEW y \in S, <<x, y>> \in R
  PROVE  Rank(S, R, x) < Rank(S, R, y)
<1>1. Better(S, R, x) \cup {x} \in SUBSET Better(S, R, y) /\ x \notin Better(S, R, x)
  BY DEF Better, StrictOrder
<1>2. IsFiniteSet(Better(S, R, x)) /\ IsFiniteSet(Better(S, R, y))
  BY RankType
<1>3. Cardinality(Better(S, R, x) \cup {x}) = Rank(S, R, x) + 1
  BY <1>1, <1>2, FS_AddElement DEF Rank
<1>4. Cardinality(Better(S, R, x) \cup {x}) <= Rank(S, R, y)
  BY <1>1, <1>2, FS_Subset DEF Rank
<1> QED  BY <1>3, <1>4, RankType

LEMMA RankBound ==
  ASSUME NEW S, IsFiniteSet(S), NEW R, StrictOrder(R, S), NEW x \in S
  PROVE  Rank(S, R, x) < Cardinality(S)
<1>1. Better(S, R, x) \in SUBSET (S \ {x})
  BY DEF Better, StrictOrder
<1>2. IsFiniteSet(S \ {x}) /\ Cardinality(S \ {x}) = Cardinality(S) - 1
  BY FS_RemoveElement
<1>3. Rank(S, R, x) <= Cardinality(S) - 1
  BY <1>1, <1>2, FS_Subset DEF Rank
<1> QED  BY <1>3, RankType, FS_CardinalityType

\* Every place is taken by some price.
LEMMA Ranked ==
  ASSUME NEW S, IsFiniteSet(S), NEW R, StrictOrder(R, S),
         NEW i \in 0 .. Cardinality(S) - 1
  PROVE  \E x \in S : Rank(S, R, x) = i
<1> DEFINE n == Cardinality(S)
           f == [x \in S |-> Rank(S, R, x)]
<1>1. n \in Nat
  BY FS_CardinalityType
<1>2. f \in [S -> 0 .. n - 1]
  BY <1>1, RankType, RankBound
<1>3. \A x, y \in S : f[x] = f[y] => x = y
  <2> SUFFICES ASSUME NEW x \in S, NEW y \in S, x # y PROVE f[x] # f[y]
    OBVIOUS
  <2>1. Rank(S, R, x) < Rank(S, R, y) \/ Rank(S, R, y) < Rank(S, R, x)
    BY RankGrows DEF StrictOrder
  <2> QED  BY <2>1, RankType
<1>4. f \in Injection(S, 0 .. n - 1)
  BY <1>2, <1>3 DEF Injection, IsInjective
<1>5. IsFiniteSet(0 .. n - 1) /\ Cardinality(0 .. n - 1) = n
  BY <1>1, FS_Interval
<1>6. f \in Surjection(S, 0 .. n - 1)
  BY <1>4, <1>5, FS_Injection
<1>7. \E x \in S : f[x] = i
  BY <1>6 DEF Surjection
<1> QED  BY <1>7

\* Ahead of a price with n better ones are the n best.
LEMMA BestAhead ==
  ASSUME NEW S, IsFiniteSet(S), NEW R, StrictOrder(R, S),
         NEW n \in Nat, NEW p \in S, Rank(S, R, p) >= n
  PROVE  LET T == {q \in Better(S, R, p) : Rank(S, R, q) < n}
         IN  IsFiniteSet(T) /\ Cardinality(T) >= n
<1> DEFINE T == {q \in Better(S, R, p) : Rank(S, R, q) < n}
           g == [q \in T |-> Rank(S, R, q) + 1]
<1>1. IsFiniteSet(T) /\ Cardinality(T) \in Nat
  <2>1. T \in SUBSET S
    BY DEF Better
  <2> QED  BY <2>1, FS_Subset, FS_CardinalityType
<1>2. g \in [T -> 1 .. n]
  BY RankType
<1>3. \A i \in 1 .. n : \E q \in T : g[q] = i
  <2> SUFFICES ASSUME NEW i \in 1 .. n PROVE \E q \in T : Rank(S, R, q) + 1 = i
    OBVIOUS
  <2>1. i - 1 \in 0 .. Cardinality(S) - 1
    BY RankBound, RankType, FS_CardinalityType
  <2>2. PICK q \in S : Rank(S, R, q) = i - 1
    BY <2>1, Ranked
  <2>3. Rank(S, R, q) < n /\ Rank(S, R, q) \in Nat /\ Rank(S, R, p) \in Nat
    BY <2>2, RankType
  <2>4. q # p /\ <<p, q>> \notin R
    <3>1. ASSUME <<p, q>> \in R PROVE FALSE
      <4>1. Rank(S, R, p) < Rank(S, R, q)
        BY <3>1, RankGrows
      <4> QED  BY <2>3, <4>1
    <3>2. q # p
      BY <2>3
    <3> QED  BY <3>1, <3>2
  <2>5. q \in Better(S, R, p)
    BY <2>4 DEF StrictOrder, Better
  <2> QED  BY <2>2, <2>3, <2>5
<1>4. g \in Surjection(T, 1 .. n)
  BY <1>2, <1>3 DEF Surjection
<1>5. Cardinality(1 .. n) <= Cardinality(T) /\ Cardinality(1 .. n) = n
  BY <1>1, <1>4, FS_Surjection, FS_Interval
<1> QED  BY <1>1, <1>5

(* Cutting a side.                                                         *)

Higher == {r \in Price \X Price : r[1] > r[2]}
Lower  == {r \in Price \X Price : r[1] < r[2]}

\* The best n levels of a side; KeepTopBids and KeepTopAsks are its two cases.
KeepTop(side, n, R) ==
  [p \in Price |-> IF Rank(Prices(side), R, p) < n THEN side[p] ELSE NoLevel]

LEMMA PricesType ==
  ASSUME NEW side
  PROVE  Prices(side) \subseteq Price /\ IsFiniteSet(Prices(side))
<1>1. Prices(side) \in SUBSET Price
  BY DEF Prices
<1> QED  BY <1>1, PriceAssumption, FS_Subset

LEMMA BestFirst ==
  ASSUME NEW S, S \subseteq Price
  PROVE  StrictOrder(Higher, S) /\ StrictOrder(Lower, S)
  BY PriceAssumption DEF StrictOrder, Higher, Lower

LEMMA InTop ==
  ASSUME NEW side, NEW n, NEW p \in Price
  PROVE  /\ InTopBids(side, n, p) <=> Rank(Prices(side), Higher, p) < n
         /\ InTopAsks(side, n, p) <=> Rank(Prices(side), Lower, p) < n
<1>1. /\ {q \in Prices(side) : q > p} = Better(Prices(side), Higher, p)
      /\ {q \in Prices(side) : q < p} = Better(Prices(side), Lower, p)
  BY DEF Better, Higher, Lower, Prices
<1> QED  BY <1>1 DEF InTopBids, InTopAsks, Rank

LEMMA KeepTops ==
  ASSUME NEW side, NEW n
  PROVE  /\ KeepTopBids(side, n) = KeepTop(side, n, Higher)
         /\ KeepTopAsks(side, n) = KeepTop(side, n, Lower)
  BY InTop DEF KeepTopBids, KeepTopAsks, KeepTop

LEMMA KeepTopType ==
  ASSUME NEW side \in Side, NEW n, NEW R
  PROVE  KeepTop(side, n, R) \in Side
  BY DEF KeepTop, Side

\* A side that has every level of the best n of another one, and beside them
\* only prices of the other, is cut to the same best n.
LEMMA SameTop ==
  ASSUME NEW side \in Side, NEW new \in Side, NEW n \in Nat,
         NEW R, StrictOrder(R, Price),
         \A p \in Price : IF KeepTop(side, n, R)[p] # NoLevel
                            THEN new[p] = side[p]
                            ELSE new[p] # NoLevel => side[p] # NoLevel
  PROVE  KeepTop(new, n, R) = KeepTop(side, n, R)
<1> DEFINE S == Prices(side)
           N == Prices(new)
<1>1. S \subseteq Price /\ N \in SUBSET S /\ IsFiniteSet(S) /\ IsFiniteSet(N)
  <2>1. N \subseteq S
    BY DEF Prices, KeepTop
  <2> QED  BY <2>1, PricesType
<1>2. StrictOrder(R, S)
  BY <1>1 DEF StrictOrder
<1>3. \A p : IsFiniteSet(Better(N, R, p)) /\ Rank(N, R, p) \in Nat
             /\ IsFiniteSet(Better(S, R, p)) /\ Rank(S, R, p) \in Nat
  BY <1>1, RankType
<1>4. ASSUME NEW p \in Price
      PROVE  KeepTop(new, n, R)[p] = KeepTop(side, n, R)[p]
  <2>1. CASE Rank(S, R, p) < n
    <3>1. Better(N, R, p) \in SUBSET Better(S, R, p)
      BY <1>1 DEF Better
    <3>2. Rank(N, R, p) <= Rank(S, R, p)
      BY <1>3, <3>1, FS_Subset DEF Rank
    <3>3. Rank(N, R, p) < n
      BY <1>3, <2>1, <3>2
    <3>4. new[p] = side[p]
      BY <2>1 DEF KeepTop, Side
    <3> QED  BY <2>1, <3>3, <3>4 DEF KeepTop
  <2>2. CASE ~(Rank(S, R, p) < n) /\ p \in S
    <3> DEFINE T == {q \in Better(S, R, p) : Rank(S, R, q) < n}
    <3>1. IsFiniteSet(T) /\ Cardinality(T) >= n
      <4>1. Rank(S, R, p) >= n
        BY <1>3, <2>2
      <4> HIDE DEF S
      <4> QED  BY <1>1, <1>2, <2>2, <4>1, BestAhead
    <3>2. T \in SUBSET Better(N, R, p)
      <4> SUFFICES ASSUME NEW q \in T PROVE q \in Better(N, R, p)
        OBVIOUS
      <4>1. q \in S /\ q \in Price /\ <<q, p>> \in R /\ Rank(S, R, q) < n
        BY <1>1 DEF Better
      <4>2. KeepTop(side, n, R)[q] # NoLevel
        BY <4>1 DEF KeepTop, Prices
      <4>3. q \in N
        BY <4>1, <4>2 DEF Prices
      <4> QED  BY <4>1, <4>3 DEF Better
    <3>3. Cardinality(T) <= Rank(N, R, p)
      BY <1>3, <3>2, FS_Subset DEF Rank
    <3>4. Cardinality(T) \in Nat
      BY <3>1, FS_CardinalityType
    <3>5. ~(Rank(N, R, p) < n)
      <4> HIDE DEF T, N
      <4> QED  BY <1>3, <3>1, <3>3, <3>4
    <3> QED  BY <2>2, <3>5 DEF KeepTop
  <2>3. CASE ~(Rank(S, R, p) < n) /\ p \notin S
    <3>1. side[p] = NoLevel /\ new[p] = NoLevel
      BY <1>1, <2>3 DEF Prices
    <3> QED  BY <3>1 DEF KeepTop
  <2> QED  BY <2>1, <2>2, <2>3
<1> QED  BY <1>4 DEF KeepTop

\* Cutting twice is cutting once (retain_top).
LEMMA CutTwice ==
  ASSUME NEW side \in Side, NEW n \in Nat, NEW R, StrictOrder(R, Price)
  PROVE  KeepTop(KeepTop(side, n, R), n, R) = KeepTop(side, n, R)
<1>1. KeepTop(side, n, R) \in Side
  BY KeepTopType
<1>2. \A p \in Price : IF KeepTop(side, n, R)[p] # NoLevel
                          THEN KeepTop(side, n, R)[p] = side[p]
                          ELSE KeepTop(side, n, R)[p] # NoLevel => side[p] # NoLevel
  BY DEF KeepTop
<1> QED  BY <1>1, <1>2, SameTop

----------------------------------------------------------------------------
(* Spelling a side.                                                        *)

\* The i-th of the prices S from below, which Ascending chooses.
Place(S, i) == CHOOSE p \in S : Cardinality({q \in S : q < p}) = i - 1

LEMMA Places ==
  ASSUME NEW S, S \subseteq Price, IsFiniteSet(S)
  PROVE  /\ Cardinality(S) \in Nat
         /\ \A i \in 1 .. Cardinality(S) : Place(S, i) \in S
         /\ \A p \in S : \E i \in 1 .. Cardinality(S) : Place(S, i) = p
<1>1. Cardinality(S) \in Nat /\ StrictOrder(Lower, S)
  BY FS_CardinalityType, BestFirst
<1>2. \A p \in S : Cardinality({q \in S : q < p}) = Rank(S, Lower, p)
  <2>1. \A p \in S : {q \in S : q < p} = Better(S, Lower, p)
    BY DEF Better, Lower
  <2> QED  BY <2>1 DEF Rank
<1>3. ASSUME NEW i \in 1 .. Cardinality(S)
      PROVE  Place(S, i) \in S /\ Rank(S, Lower, Place(S, i)) = i - 1
  <2>1. i - 1 \in 0 .. Cardinality(S) - 1
    BY <1>1
  <2>2. PICK p \in S : Rank(S, Lower, p) = i - 1
    BY <1>1, <2>1, Ranked
  <2>3. Place(S, i) \in S /\ Cardinality({q \in S : q < Place(S, i)}) = i - 1
    BY <1>2, <2>2 DEF Place
  <2> QED  BY <1>2, <2>3
<1>4. ASSUME NEW p \in S
      PROVE  \E i \in 1 .. Cardinality(S) : Place(S, i) = p
  <2> DEFINE i == Rank(S, Lower, p) + 1
  <2>1. i \in 1 .. Cardinality(S) /\ Rank(S, Lower, p) \in Nat
    BY <1>1, RankType, RankBound
  <2>2. Place(S, i) \in S /\ Rank(S, Lower, Place(S, i)) = Rank(S, Lower, p)
    BY <1>3, <2>1
  <2>3. Place(S, i) = p
    <3> DEFINE x == Place(S, i)
    <3>1. x \in S /\ Rank(S, Lower, x) = Rank(S, Lower, p)
      BY <2>2
    <3> HIDE DEF x
    <3>2. ~(<<x, p>> \in Lower) /\ ~(<<p, x>> \in Lower)
      BY <1>1, <2>1, <3>1, RankGrows
    <3>3. x = p
      BY <1>1, <3>1, <3>2 DEF StrictOrder
    <3> QED  BY <3>3 DEF x
  <2> QED  BY <2>1, <2>3
<1> QED  BY <1>1, <1>3, <1>4

\* All levels of a side, from below.
Spelled(side) == Ascending(side, Prices(side))

\* Ascending reads a side at the prices given only.
LEMMA AscendingAt ==
  ASSUME NEW S, S \subseteq Price, IsFiniteSet(S), NEW x, NEW y, \A p \in S : x[p] = y[p]
  PROVE  Ascending(x, S) = Ascending(y, S)
<1>1. \A i \in 1 .. Cardinality(S) : x[Place(S, i)] = y[Place(S, i)]
  BY Places
<1> QED  BY <1>1 DEF Ascending, Place

\* A list of levels in ascending order tells the side it was made of.
LEMMA SpelledOnce ==
  ASSUME NEW x \in Side, NEW y \in Side, Spelled(x) = Spelled(y)
  PROVE  x = y
<1> DEFINE X == Prices(x)
           Y == Prices(y)
           n == Cardinality(X)
<1>1. X \subseteq Price /\ IsFiniteSet(X) /\ Y \subseteq Price /\ IsFiniteSet(Y)
  BY PricesType
<1>2. /\ Spelled(x) = [i \in 1 .. n |-> <<Place(X, i), x[Place(X, i)]>>]
      /\ Spelled(y) = [i \in 1 .. Cardinality(Y) |-> <<Place(Y, i), y[Place(Y, i)]>>]
  BY DEF Spelled, Ascending, Place
<1> HIDE DEF X, Y
<1>3. n \in Nat /\ Cardinality(Y) \in Nat
  BY <1>1, Places
<1>4. 1 .. n = 1 .. Cardinality(Y)
  BY <1>2
<1>5. n = Cardinality(Y)
  BY <1>3, <1>4
<1>6. \A i \in 1 .. n : Place(X, i) = Place(Y, i) /\ x[Place(X, i)] = y[Place(X, i)]
  <2> SUFFICES ASSUME NEW i \in 1 .. n
               PROVE  Place(X, i) = Place(Y, i) /\ x[Place(X, i)] = y[Place(X, i)]
    OBVIOUS
  <2>1. <<Place(X, i), x[Place(X, i)]>> = <<Place(Y, i), y[Place(Y, i)]>>
    BY <1>2, <1>5
  <2> QED  BY <2>1
<1>7. X = Y /\ \A p \in X : x[p] = y[p]
  BY <1>1, <1>5, <1>6, Places
<1>8. ASSUME NEW p \in Price PROVE x[p] = y[p]
  <2>1. CASE p \in X
    BY <1>7, <2>1
  <2>2. CASE p \notin X
    BY <1>7, <2>2 DEF X, Y, Prices
  <2> QED  BY <2>1, <2>2
<1> QED  BY <1>8 DEF Side

\* The best levels of a book are those of the sides that are kept of it.
LEMMA Tops ==
  ASSUME NEW b, NEW n
  PROVE  /\ TopAsks(b, n) = Spelled(KeepTopAsks(b.asks, n))
         /\ TopBids(b, n) = LET up == Spelled(KeepTopBids(b.bids, n))
                            IN  [i \in 1 .. Len(up) |-> up[Len(up) + 1 - i]]
<1> DEFINE asks == KeepTopAsks(b.asks, n)
           bids == KeepTopBids(b.bids, n)
<1>1. /\ {p \in Prices(b.asks) : InTopAsks(b.asks, n, p)} = Prices(asks)
      /\ {p \in Prices(b.bids) : InTopBids(b.bids, n, p)} = Prices(bids)
      /\ \A p \in Prices(asks) : b.asks[p] = asks[p]
      /\ \A p \in Prices(bids) : b.bids[p] = bids[p]
  BY DEF Prices, KeepTopAsks, KeepTopBids
<1> HIDE DEF asks, bids
<1>2. /\ Prices(asks) \subseteq Price /\ IsFiniteSet(Prices(asks))
      /\ Prices(bids) \subseteq Price /\ IsFiniteSet(Prices(bids))
  BY PricesType
<1>3. /\ Ascending(b.asks, Prices(asks)) = Spelled(asks)
      /\ Ascending(b.bids, Prices(bids)) = Spelled(bids)
  BY <1>1, <1>2, AscendingAt DEF Spelled
<1> QED  BY <1>1, <1>3 DEF TopAsks, TopBids, asks, bids

LEMMA SpelledType ==
  ASSUME NEW side \in Side
  PROVE  Spelled(side) \in Seq(Price \X Qty)
<1> DEFINE S == Prices(side)
<1>1. S \subseteq Price /\ IsFiniteSet(S) /\ \A p \in S : side[p] \in Qty
  BY PricesType DEF Prices, Side
<1>2. Spelled(side) = [i \in 1 .. Cardinality(S) |-> <<Place(S, i), side[Place(S, i)]>>]
  BY DEF Spelled, Ascending, Place
<1> HIDE DEF S
<1>3. /\ Cardinality(S) \in Nat
      /\ \A i \in 1 .. Cardinality(S) : Place(S, i) \in Price /\ side[Place(S, i)] \in Qty
  BY <1>1, Places
<1>4. [i \in 1 .. Cardinality(S) |-> <<Place(S, i), side[Place(S, i)]>>]
        \in [1 .. Cardinality(S) -> Price \X Qty]
  BY <1>3
<1> QED  BY <1>2, <1>3, <1>4

============================================================================
