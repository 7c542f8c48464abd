-------------------------- MODULE SocketFeedProofs --------------------------
(***************************************************************************)
(* Lemmas about SocketFeed that do not depend on the exchange: what its    *)
(* operators return, and the chain of messages that leads from the last    *)
(* message read to the exchange's newest book.  The chain of a symbol s is *)
(* given by the wire w, the last message read a, the last update covered   *)
(* by a message e, the missed updates m, whether s is seeded (live) and    *)
(* the history t of its book.                                              *)
(***************************************************************************)
EXTENDS SocketFeed, OrderBookProofs, SequenceTheorems

----------------------------------------------------------------------------
(* What a message says.                                                    *)

\* A limit that no side can reach cuts nothing.
LEMMA NothingCut ==
  ASSUME NEW side \in Side, Limit >= Cardinality(Price)
  PROVE  KeepTopBids(side, Limit) = side /\ KeepTopAsks(side, Limit) = side
<1>1. ASSUME NEW p \in Price, NEW S, S \subseteq Price \ {p}
      PROVE  Cardinality(S) < Limit
  <2>1. IsFiniteSet(Price \ {p}) /\ Cardinality(Price \ {p}) = Cardinality(Price) - 1
    BY PriceAssumption, FS_RemoveElement
  <2>2. Cardinality(S) <= Cardinality(Price \ {p})
    BY <2>1, FS_Subset, <1>1
  <2>3. Cardinality(Price) \in Nat /\ Cardinality(S) \in Nat
    BY <1>1, <2>1, FS_Subset, FS_CardinalityType, PriceAssumption
  <2> QED  BY <2>1, <2>2, <2>3, BoundAssumption
<1>2. \A p \in Price : InTopBids(side, Limit, p) /\ InTopAsks(side, Limit, p)
  <2> SUFFICES ASSUME NEW p \in Price
               PROVE  InTopBids(side, Limit, p) /\ InTopAsks(side, Limit, p)
    OBVIOUS
  <2>1. {q \in Prices(side) : q > p} \subseteq Price \ {p}
    BY PriceAssumption DEF Prices
  <2>2. {q \in Prices(side) : q < p} \subseteq Price \ {p}
    BY PriceAssumption DEF Prices
  <2> QED  BY <1>1, <2>1, <2>2 DEF InTopBids, InTopAsks
<1> QED  BY <1>2 DEF KeepTopBids, KeepTopAsks, Side

----------------------------------------------------------------------------
(* The chain of messages of one symbol.                                    *)

About(f, s)      == f.kind \in {"snapshot", "update"} /\ f.symbol = s
IsSnapshot(f, s) == f.kind = "snapshot" /\ f.symbol = s
IsUpdate(f, s)   == f.kind = "update" /\ f.symbol = s

\* List ls tells a subscriber what became of a side.
Told(k, ls, then, now) ==
  \A p \in Price :
    /\ Mentions(ls, p) => Stored(ls[LastMention(ls, p)].qty) = now[p]
    /\ /\ Shown(k, now)[p] # Shown(k, then)[p]
       /\ Shown(k, now)[p] # NoLevel \/ now[p] = NoLevel
       => Mentions(ls, p)

\* Lists bids and asks tell what became of exchange book b in book c.
Reported(bids, asks, b, c) ==
  Told("bids", bids, b.bids, c.bids) /\ Told("asks", asks, b.asks, c.asks)

\* After the first n messages are read, s has a book ...
LiveAt(s, w, live, n) == live \/ \E j \in 1 .. n : IsSnapshot(w[j], s)

\* ... and update k was read by then, or is a missed one.
Known(s, w, a, m, n, k) ==
  k <= a \/ k \in m \/ \E j \in 1 .. n : About(w[j], s) /\ k <= w[j].at

\* The i-th message, an update, goes from book b of the exchange to a later one.
GoesFrom(s, w, a, m, live, t, i, b) ==
  /\ b \in Nat \ {0} /\ a <= b /\ b < w[i].at
  /\ \A j \in 1 .. i - 1 : About(w[j], s) => w[j].at <= b
  /\ Reported(w[i].bids, w[i].asks, t[b], t[w[i].at])
  /\ LiveAt(s, w, live, i - 1) =>
       \A k \in 1 .. b : Known(s, w, a, m, i - 1, k)

Shows(f, t) ==
  /\ SetLevels(EmptySide, f.bids) = Shown("bids", t[f.at].bids)
  /\ SetLevels(EmptySide, f.asks) = Shown("asks", t[f.at].asks)

InOrder(s, w, a, e) ==
  \A i \in 1 .. Len(w) : About(w[i], s) =>
    w[i].at \in Nat \ {0} /\ a <= w[i].at /\ w[i].at <= e

Numbers(a, e, t) == a \in Nat /\ e \in Nat \ {0} /\ a <= e /\ e <= Len(t)

Chain(s, w, a, e, m, live, t) ==
  /\ Numbers(a, e, t)
  /\ InOrder(s, w, a, e)
  /\ \A i, j \in 1 .. Len(w) :
       About(w[i], s) /\ About(w[j], s) /\ i < j => w[i].at <= w[j].at
  /\ \A i \in 1 .. Len(w) : IsSnapshot(w[i], s) => Shows(w[i], t)
  /\ \A i \in 1 .. Len(w) : IsUpdate(w[i], s) =>
       \E b \in Nat : GoesFrom(s, w, a, m, live, t, i, b)
  /\ LiveAt(s, w, live, Len(w)) => \A k \in 1 .. e : Known(s, w, a, m, Len(w), k)

LEMMA ListingFacts ==
  ASSUME NEW side \in Side, NEW l \in Listings[side]
  PROVE  l \in LevelList /\ SetLevels(EmptySide, l) = side
  BY DEF Listings

LEMMA ReportFacts ==
  ASSUME NEW k \in Sides, NEW then \in Side, NEW now \in Side,
         NEW l \in Reports[k][then][now]
  PROVE  l \in LevelList /\ Told(k, l, then, now)
  BY DEF Reports, Told

\* A new connection has no messages and no books.
LEMMA ChainEmpty ==
  ASSUME NEW s, NEW a, NEW e, NEW m, NEW t, Numbers(a, e, t),
         NEW live, ~live
  PROVE  Chain(s, <<>>, a, e, m, live, t)
  BY DEF Chain, InOrder, LiveAt

\* The first messages of a longer wire are those of the shorter one.
LEMMA AppendFacts ==
  ASSUME NEW F, NEW w \in Seq(F), NEW f
  PROVE  /\ Append(w, f) \in Seq(F \cup {f})
         /\ Len(Append(w, f)) = Len(w) + 1 /\ Len(w) \in Nat
         /\ \A i \in 1 .. Len(w) : Append(w, f)[i] = w[i]
         /\ Append(w, f)[Len(w) + 1] = f
<1>1. w \in Seq(F \cup {f})
  OBVIOUS
<1> QED  BY <1>1, AppendProperties

\* What is known of earlier messages does not depend on later ones.
LEMMA PrefixFacts ==
  ASSUME NEW F, NEW w \in Seq(F), NEW v, NEW s, NEW a, NEW m, NEW live, NEW t,
         \A i \in 1 .. Len(w) : v[i] = w[i],
         NEW n \in 0 .. Len(w)
  PROVE  /\ LiveAt(s, v, live, n) <=> LiveAt(s, w, live, n)
         /\ \A k : Known(s, v, a, m, n, k) <=> Known(s, w, a, m, n, k)
         /\ \A i \in 1 .. Len(w) : \A b :
              GoesFrom(s, w, a, m, live, t, i, b) => GoesFrom(s, v, a, m, live, t, i, b)
<1>0. Len(w) \in Nat
  OBVIOUS
<1>1. ASSUME NEW i \in 0 .. Len(w)
      PROVE  LiveAt(s, v, live, i) <=> LiveAt(s, w, live, i)
  <2>1. \A j \in 1 .. i : v[j] = w[j]
    BY <1>0
  <2> QED  BY <2>1 DEF LiveAt
<1>2. ASSUME NEW i \in 0 .. Len(w)
      PROVE  \A k : Known(s, v, a, m, i, k) <=> Known(s, w, a, m, i, k)
  <2>1. \A j \in 1 .. i : v[j] = w[j]
    BY <1>0
  <2> QED  BY <2>1 DEF Known
<1>3. ASSUME NEW i \in 1 .. Len(w), NEW b, GoesFrom(s, w, a, m, live, t, i, b)
      PROVE  GoesFrom(s, v, a, m, live, t, i, b)
  <2>1. i - 1 \in 0 .. Len(w) /\ v[i] = w[i] /\ \A j \in 1 .. i - 1 : v[j] = w[j]
    BY <1>0
  <2>2. /\ LiveAt(s, v, live, i - 1) <=> LiveAt(s, w, live, i - 1)
        /\ \A k : Known(s, v, a, m, i - 1, k) <=> Known(s, w, a, m, i - 1, k)
    BY <2>1, <1>1, <1>2
  <2> QED  BY <1>3, <2>1, <2>2 DEF GoesFrom
<1> QED  BY <1>1, <1>2, <1>3


\* The exchange sends a message that is not about s.
LEMMA ChainOther ==
  ASSUME NEW F, NEW w \in Seq(F), NEW f, NEW s, ~About(f, s),
         NEW a, NEW e, NEW m, NEW live, NEW t, Chain(s, w, a, e, m, live, t)
  PROVE  Chain(s, Append(w, f), a, e, m, live, t)
<1> DEFINE v == Append(w, f)
<1>1. /\ Len(v) = Len(w) + 1 /\ Len(w) \in Nat
      /\ \A i \in 1 .. Len(w) : v[i] = w[i]
      /\ ~About(v[Len(v)], s)
  BY AppendFacts
<1> HIDE DEF v
<1>2. \A i \in 1 .. Len(v) : About(v[i], s) => i \in 1 .. Len(w) /\ v[i] = w[i]
  BY <1>1
<1>3. \A i : (IsSnapshot(v[i], s) => About(v[i], s)) /\ (IsUpdate(v[i], s) => About(v[i], s))
  BY DEF IsSnapshot, IsUpdate, About
<1>4. Len(w) \in 0 .. Len(w)
  BY <1>1
<1>5. /\ LiveAt(s, v, live, Len(w)) <=> LiveAt(s, w, live, Len(w))
      /\ \A k : Known(s, v, a, m, Len(w), k) <=> Known(s, w, a, m, Len(w), k)
      /\ \A i \in 1 .. Len(w) : \A b :
           GoesFrom(s, w, a, m, live, t, i, b) => GoesFrom(s, v, a, m, live, t, i, b)
  BY <1>1, <1>4, PrefixFacts
<1>6. LiveAt(s, v, live, Len(v)) <=> LiveAt(s, w, live, Len(w))
  BY <1>1, <1>2, <1>3, <1>5 DEF LiveAt
<1>7. \A k : Known(s, w, a, m, Len(w), k) => Known(s, v, a, m, Len(v), k)
  BY <1>1 DEF Known
<1>8. /\ Numbers(a, e, t) /\ InOrder(s, v, a, e)
      /\ \A i, j \in 1 .. Len(v) :
           About(v[i], s) /\ About(v[j], s) /\ i < j => v[i].at <= v[j].at
      /\ \A i \in 1 .. Len(v) : IsSnapshot(v[i], s) => Shows(v[i], t)
  BY <1>2, <1>3 DEF Chain, InOrder
<1>9. \A i \in 1 .. Len(v) : IsUpdate(v[i], s) =>
        \E b \in Nat : GoesFrom(s, v, a, m, live, t, i, b)
  BY <1>2, <1>3, <1>5 DEF Chain
<1>10. LiveAt(s, v, live, Len(v)) => \A k \in 1 .. e : Known(s, v, a, m, Len(v), k)
  BY <1>6, <1>7 DEF Chain
<1> QED  BY <1>8, <1>9, <1>10 DEF Chain, v

\* The exchange sends a snapshot of s, or an update that tells what became of
\* the book its last message covered.
LEMMA ChainSent ==
  ASSUME NEW F, NEW w \in Seq(F), NEW f, NEW s, About(f, s),
         NEW a, NEW e, NEW m, NEW live, NEW t, Chain(s, w, a, e, m, live, t),
         Len(t) \in Nat, f.at = Len(t),
         IsSnapshot(f, s) => Shows(f, t),
         IsUpdate(f, s) => e < Len(t) /\ Reported(f.bids, f.asks, t[e], t[Len(t)])
  PROVE  Chain(s, Append(w, f), a, Len(t), m, live, t)
<1> DEFINE v == Append(w, f)
           n == Len(w) + 1
<1>1. /\ Len(v) = n /\ Len(w) \in Nat
      /\ \A i \in 1 .. Len(w) : v[i] = w[i]
      /\ v[n] = f
  BY AppendFacts
<1>2. Numbers(a, e, t) /\ Numbers(a, Len(t), t)
  BY DEF Chain, Numbers
<1>3. n \in 1 .. n /\ Len(w) \in 0 .. Len(w)
  BY <1>1
<1> HIDE DEF v
<1>4. /\ LiveAt(s, v, live, Len(w)) <=> LiveAt(s, w, live, Len(w))
      /\ \A k : Known(s, v, a, m, Len(w), k) <=> Known(s, w, a, m, Len(w), k)
      /\ \A i \in 1 .. Len(w) : \A b :
           GoesFrom(s, w, a, m, live, t, i, b) => GoesFrom(s, v, a, m, live, t, i, b)
  BY <1>1, <1>3, PrefixFacts
<1>5. \A i \in 1 .. n : i \in 1 .. Len(w) \/ i = n
  BY <1>1
<1> HIDE DEF n
<1>6. InOrder(s, v, a, Len(t))
  BY <1>1, <1>2, <1>5 DEF Chain, InOrder, Numbers
<1>7. ASSUME NEW i \in 1 .. n, NEW j \in 1 .. n,
             About(v[i], s), About(v[j], s), i < j
      PROVE  v[i].at <= v[j].at
  <2>1. i \in 1 .. Len(w)
    BY <1>1, <1>5, <1>7 DEF n
  <2>2. CASE j \in 1 .. Len(w)
    BY <1>1, <1>7, <2>1, <2>2 DEF Chain
  <2>3. CASE j = n
    BY <1>1, <1>2, <1>7, <2>1, <2>3 DEF Chain, InOrder, Numbers
  <2> QED  BY <1>5, <2>2, <2>3
<1>8. \A i \in 1 .. n : IsSnapshot(v[i], s) => Shows(v[i], t)
  BY <1>1, <1>5 DEF Chain
<1>9. ASSUME NEW i \in 1 .. n, IsUpdate(v[i], s)
      PROVE  \E b \in Nat : GoesFrom(s, v, a, m, live, t, i, b)
  <2>1. CASE i \in 1 .. Len(w)
    BY <1>1, <1>4, <1>9, <2>1 DEF Chain
  <2>2. CASE i = n
    <3>1. IsUpdate(f, s) /\ n - 1 = Len(w)
      BY <1>1, <1>9, <2>2 DEF n
    <3>2. \A j \in 1 .. n - 1 : About(v[j], s) => v[j].at <= e
      BY <1>1, <3>1 DEF Chain, InOrder
    <3>3. LiveAt(s, v, live, n - 1) => \A k \in 1 .. e : Known(s, v, a, m, n - 1, k)
      BY <1>4, <3>1 DEF Chain
    <3>4. /\ e \in Nat \ {0} /\ a <= e /\ v[n] = f
          /\ IsUpdate(f, s) => e < f.at /\ Reported(f.bids, f.asks, t[e], t[f.at])
      BY <1>1, <1>2 DEF Numbers
    <3>5. GoesFrom(s, v, a, m, live, t, n, e)
      BY <3>1, <3>2, <3>3, <3>4 DEF GoesFrom
    <3> QED  BY <2>2, <3>4, <3>5
  <2> QED  BY <1>5, <2>1, <2>2
<1>10. \A k \in 1 .. Len(t) : Known(s, v, a, m, n, k)
  BY <1>1, <1>3 DEF Known
<1>11. Chain(s, v, a, Len(t), m, live, t)
  BY <1>1, <1>2, <1>6, <1>7, <1>8, <1>9, <1>10 DEF Chain
<1> QED  BY <1>11 DEF v

\* The driver reads a message that is not about s.
LEMMA ChainSkipped ==
  ASSUME NEW F, NEW w \in Seq(F), w # <<>>, NEW s, ~About(Head(w), s),
         NEW a, NEW e, NEW m, NEW live, NEW t, Chain(s, w, a, e, m, live, t)
  PROVE  Chain(s, Tail(w), a, e, m, live, t)
<1> DEFINE v == Tail(w)
<1>1. /\ Len(v) = Len(w) - 1 /\ Len(v) \in Nat
      /\ \A i \in 1 .. Len(v) : v[i] = w[i + 1]
      /\ ~About(w[1], s) /\ ~IsSnapshot(w[1], s)
  BY HeadTailProperties DEF About, IsSnapshot
<1> HIDE DEF v
<1>2. \A i \in 1 .. Len(v) : i + 1 \in 1 .. Len(w)
  BY <1>1
<1>3. ASSUME NEW n \in 0 .. Len(v)
      PROVE  /\ LiveAt(s, v, live, n) => LiveAt(s, w, live, n + 1)
             /\ \A k : Known(s, w, a, m, n + 1, k) => Known(s, v, a, m, n, k)
  <2>1. \A j \in 1 .. n : v[j] = w[j + 1] /\ j + 1 \in 1 .. n + 1
    BY <1>1
  <2>2. \A j \in 1 .. n + 1 : j = 1 \/ (j - 1 \in 1 .. n /\ v[j - 1] = w[j])
    BY <1>1
  <2> QED  BY <1>1, <2>1, <2>2 DEF LiveAt, Known
<1>4. InOrder(s, v, a, e)
  BY <1>1, <1>2 DEF Chain, InOrder
<1>5. ASSUME NEW i \in 1 .. Len(v), NEW j \in 1 .. Len(v),
             About(v[i], s), About(v[j], s), i < j
      PROVE  v[i].at <= v[j].at
  <2>1. /\ i + 1 \in 1 .. Len(w) /\ j + 1 \in 1 .. Len(w) /\ i + 1 < j + 1
        /\ v[i] = w[i + 1] /\ v[j] = w[j + 1]
    BY <1>1, <1>2, <1>5
  <2> QED  BY <1>5, <2>1 DEF Chain
<1>6. \A i \in 1 .. Len(v) : IsSnapshot(v[i], s) => Shows(v[i], t)
  BY <1>1, <1>2 DEF Chain
<1>7. ASSUME NEW i \in 1 .. Len(v), IsUpdate(v[i], s)
      PROVE  \E b \in Nat : GoesFrom(s, v, a, m, live, t, i, b)
  <2>1. PICK b \in Nat : GoesFrom(s, w, a, m, live, t, i + 1, b)
    BY <1>1, <1>2, <1>7 DEF Chain
  <2>2. i - 1 \in 0 .. Len(v) /\ i + 1 - 1 = i /\ i - 1 + 1 = i
    BY <1>1
  <2>3. \A j \in 1 .. i - 1 : v[j] = w[j + 1] /\ j + 1 \in 1 .. i
    BY <1>1
  <2>4. LiveAt(s, v, live, i - 1) => \A k \in 1 .. b : Known(s, v, a, m, i - 1, k)
    BY <1>3, <2>1, <2>2 DEF GoesFrom
  <2>5. \A j \in 1 .. i - 1 : About(v[j], s) => v[j].at <= b
    <3> SUFFICES ASSUME NEW j \in 1 .. i - 1, About(v[j], s)
                 PROVE  v[j].at <= b
      OBVIOUS
    <3>1. v[j] = w[j + 1] /\ j + 1 \in 1 .. i + 1 - 1
      BY <2>2, <2>3
    <3>2. About(w[j + 1], s)
      BY <3>1
    <3>3. \A l \in 1 .. i + 1 - 1 : About(w[l], s) => w[l].at <= b
      BY <2>1 DEF GoesFrom
    <3>4. w[j + 1].at <= b
      BY <3>1, <3>2, <3>3
    <3> QED  BY <3>1, <3>4
  <2>6. /\ b \in Nat \ {0} /\ a <= b /\ b < v[i].at
        /\ Reported(v[i].bids, v[i].asks, t[b], t[v[i].at])
    BY <1>1, <2>1 DEF GoesFrom
  <2>7. GoesFrom(s, v, a, m, live, t, i, b)
    BY <2>4, <2>5, <2>6 DEF GoesFrom
  <2> QED  BY <2>7
<1>8. LiveAt(s, v, live, Len(v)) => \A k \in 1 .. e : Known(s, v, a, m, Len(v), k)
  BY <1>1, <1>3 DEF Chain
<1>9. Chain(s, v, a, e, m, live, t)
  BY <1>4, <1>5, <1>6, <1>7, <1>8 DEF Chain
<1> QED  BY <1>9 DEF v


\* The driver reads a message of s, which covers missed updates when it is a
\* snapshot.
LEMMA ChainRead ==
  ASSUME NEW F, NEW w \in Seq(F), w # <<>>, NEW s, About(Head(w), s),
         NEW a, NEW e, NEW m, NEW live, NEW t, Chain(s, w, a, e, m, live, t),
         NEW m1, NEW live1,
         IsSnapshot(Head(w), s) \/ (live1 => live),
         \A k \in Nat : k \in m => k \in m1 \/ k <= Head(w).at
  PROVE  Chain(s, Tail(w), Head(w).at, e, m1, live1, t)
<1> DEFINE v  == Tail(w)
           a1 == w[1].at
<1>1. /\ Len(v) = Len(w) - 1 /\ Len(v) \in Nat /\ 1 \in 1 .. Len(w)
      /\ \A i \in 1 .. Len(v) : v[i] = w[i + 1]
      /\ About(w[1], s) /\ Head(w) = w[1]
  BY HeadTailProperties
<1>2. Numbers(a, e, t) /\ Numbers(a1, e, t) /\ a <= a1
  BY <1>1 DEF Chain, InOrder, Numbers
<1> HIDE DEF v, a1
<1>3. \A i \in 1 .. Len(v) : i + 1 \in 1 .. Len(w) /\ 1 < i + 1
  BY <1>1
<1>4. ASSUME NEW n \in 0 .. Len(v)
      PROVE  /\ LiveAt(s, v, live1, n) => LiveAt(s, w, live, n + 1)
             /\ \A k \in Nat : Known(s, w, a, m, n + 1, k) => Known(s, v, a1, m1, n, k)
  <2>1. \A j \in 1 .. n : v[j] = w[j + 1] /\ j + 1 \in 1 .. n + 1
    BY <1>1
  <2>2. \A j \in 1 .. n + 1 : j = 1 \/ (j - 1 \in 1 .. n /\ v[j - 1] = w[j])
    BY <1>1
  <2>3. 1 \in 1 .. n + 1
    BY <1>1
  <2>4. LiveAt(s, v, live1, n) => LiveAt(s, w, live, n + 1)
    BY <1>1, <2>1, <2>3 DEF LiveAt
  <2>5. ASSUME NEW k \in Nat, Known(s, w, a, m, n + 1, k)
        PROVE  Known(s, v, a1, m1, n, k)
    <3>1. CASE k <= a
      BY <1>2, <3>1 DEF Known, Numbers
    <3>2. CASE k \in m
      BY <1>1, <3>2 DEF Known, a1
    <3>3. CASE \E j \in 1 .. n + 1 : About(w[j], s) /\ k <= w[j].at
      BY <2>2, <3>3 DEF Known, a1
    <3> QED  BY <2>5, <3>1, <3>2, <3>3 DEF Known
  <2> QED  BY <2>4, <2>5
<1>5. InOrder(s, v, a1, e)
  BY <1>1, <1>3 DEF Chain, InOrder, a1
<1>6. ASSUME NEW i \in 1 .. Len(v), NEW j \in 1 .. Len(v),
             About(v[i], s), About(v[j], s), i < j
      PROVE  v[i].at <= v[j].at
  <2>1. /\ i + 1 \in 1 .. Len(w) /\ j + 1 \in 1 .. Len(w) /\ i + 1 < j + 1
        /\ v[i] = w[i + 1] /\ v[j] = w[j + 1]
    BY <1>1, <1>3, <1>6
  <2> QED  BY <1>6, <2>1 DEF Chain
<1>7. \A i \in 1 .. Len(v) : IsSnapshot(v[i], s) => Shows(v[i], t)
  BY <1>1, <1>3 DEF Chain
<1>8. ASSUME NEW i \in 1 .. Len(v), IsUpdate(v[i], s)
      PROVE  \E b \in Nat : GoesFrom(s, v, a1, m1, live1, t, i, b)
  <2>1. PICK b \in Nat : GoesFrom(s, w, a, m, live, t, i + 1, b)
    BY <1>1, <1>3, <1>8 DEF Chain
  <2>2. i - 1 \in 0 .. Len(v) /\ i + 1 - 1 = i /\ i - 1 + 1 = i /\ 1 \in 1 .. i
    BY <1>1
  <2>3. \A j \in 1 .. i - 1 : v[j] = w[j + 1] /\ j + 1 \in 1 .. i
    BY <1>1
  <2>4. LiveAt(s, v, live1, i - 1) => \A k \in 1 .. b : Known(s, v, a1, m1, i - 1, k)
    BY <1>4, <2>1, <2>2 DEF GoesFrom
  <2>5. a1 <= b /\ \A j \in 1 .. i - 1 : About(v[j], s) => v[j].at <= b
    <3>1. \A j \in 1 .. i : About(w[j], s) => w[j].at <= b
      BY <2>1, <2>2 DEF GoesFrom
    <3> QED  BY <1>1, <2>2, <2>3, <3>1 DEF a1
  <2>6. /\ b \in Nat \ {0} /\ b < v[i].at
        /\ Reported(v[i].bids, v[i].asks, t[b], t[v[i].at])
    BY <1>1, <2>1 DEF GoesFrom
  <2>7. GoesFrom(s, v, a1, m1, live1, t, i, b)
    BY <2>4, <2>5, <2>6 DEF GoesFrom
  <2> QED  BY <2>7
<1>9. ASSUME LiveAt(s, v, live1, Len(v)), NEW k \in 1 .. e
      PROVE  Known(s, v, a1, m1, Len(v), k)
  <2>1. Len(v) \in 0 .. Len(v) /\ Len(v) + 1 = Len(w)
    BY <1>1
  <2>2. LiveAt(s, w, live, Len(w))
    BY <1>4, <1>9, <2>1
  <2>3. Known(s, w, a, m, Len(w), k) /\ k \in Nat
    BY <1>2, <2>2 DEF Chain, Numbers
  <2> QED  BY <1>4, <2>1, <2>3
<1>10. Chain(s, v, a1, e, m1, live1, t)
  BY <1>2, <1>5, <1>6, <1>7, <1>8, <1>9 DEF Chain
<1> QED  BY <1>1, <1>10 DEF v, a1

\* Update f tells what became of book b of t; when it is read by a live s, the
\* updates between the last message read and b are missed ones.
TellsFrom(f, a, m, live, t, b) ==
  /\ a <= b /\ b < f.at
  /\ Reported(f.bids, f.asks, t[b], t[f.at])
  /\ live => \A k \in 1 .. b : k <= a \/ k \in m

\* The first message, when it is an update.
LEMMA ChainHead ==
  ASSUME NEW F, NEW w \in Seq(F), w # <<>>, NEW s, IsUpdate(Head(w), s),
         NEW a, NEW e, NEW m, NEW live, NEW t, Chain(s, w, a, e, m, live, t)
  PROVE  /\ a < Head(w).at /\ Head(w).at <= e /\ Head(w).at \in Nat
         /\ \E b \in Nat \ {0} : TellsFrom(Head(w), a, m, live, t, b)
<1>1. 1 \in 1 .. Len(w) /\ Head(w) = w[1]
  BY HeadTailProperties
<1>2. PICK b \in Nat : GoesFrom(s, w, a, m, live, t, 1, b)
  BY <1>1 DEF Chain
<1>3. About(w[1], s)
  BY <1>1 DEF About, IsUpdate
<1>4. live => \A k \in 1 .. b : k <= a \/ k \in m
  BY <1>2 DEF GoesFrom, LiveAt, Known
<1>5. w[1].at <= e /\ w[1].at \in Nat /\ a \in Nat
  BY <1>1, <1>3 DEF Chain, InOrder, Numbers
<1> QED  BY <1>1, <1>2, <1>4, <1>5 DEF GoesFrom, TellsFrom

\* Updates are lost on the way.
LEMMA ChainLost ==
  ASSUME NEW F, NEW w \in Seq(F), NEW s, NEW a, NEW e, NEW m, NEW live, NEW t,
         Chain(s, w, a, e, m, live, t), Len(t) \in Nat
  PROVE  Chain(s, w, a, Len(t), m \cup (e + 1 .. Len(t)), live, t)
<1> DEFINE m1 == m \cup (e + 1 .. Len(t))
<1>1. Numbers(a, e, t) /\ Numbers(a, Len(t), t) /\ e <= Len(t)
  BY DEF Chain, Numbers
<1>2. InOrder(s, w, a, Len(t))
  BY <1>1 DEF Chain, InOrder, Numbers
<1>3. \A n, k : Known(s, w, a, m, n, k) => Known(s, w, a, m1, n, k)
  BY DEF Known
<1>4. \A k \in 1 .. Len(t) : k \in 1 .. e \/ k \in m1
  BY <1>1 DEF Numbers
<1> HIDE DEF m1
<1>5. LiveAt(s, w, live, Len(w)) => \A k \in 1 .. Len(t) : Known(s, w, a, m1, Len(w), k)
  BY <1>3, <1>4 DEF Chain, Known
<1>6. \A i, b : GoesFrom(s, w, a, m, live, t, i, b) => GoesFrom(s, w, a, m1, live, t, i, b)
  BY <1>3 DEF GoesFrom
<1>7. Chain(s, w, a, Len(t), m1, live, t)
  BY <1>1, <1>2, <1>5, <1>6 DEF Chain
<1> QED  BY <1>7 DEF m1

\* The history of the exchange's book grows.
LEMMA ChainGrown ==
  ASSUME NEW F, NEW w \in Seq(F), NEW s, NEW a, NEW e, NEW m, NEW live, NEW t,
         Chain(s, w, a, e, m, live, t), Len(t) \in Nat, NEW t1, Len(t1) \in Nat,
         Len(t) <= Len(t1), \A i \in 1 .. Len(t) : t1[i] = t[i]
  PROVE  Chain(s, w, a, e, m, live, t1)
<1>1. Numbers(a, e, t) /\ Numbers(a, e, t1) /\ InOrder(s, w, a, e)
  BY DEF Chain, Numbers
<1>2. \A i \in 1 .. Len(w) : About(w[i], s) => t1[w[i].at] = t[w[i].at]
  BY <1>1 DEF InOrder, Numbers
<1>3. ASSUME NEW i \in 1 .. Len(w), IsSnapshot(w[i], s)
      PROVE  Shows(w[i], t1)
  <2>1. Shows(w[i], t) /\ About(w[i], s)
    BY <1>3 DEF Chain, IsSnapshot, About
  <2> QED  BY <1>2, <2>1 DEF Shows
<1>4. ASSUME NEW i \in 1 .. Len(w), IsUpdate(w[i], s)
      PROVE  \E b \in Nat : GoesFrom(s, w, a, m, live, t1, i, b)
  <2>1. PICK b \in Nat : GoesFrom(s, w, a, m, live, t, i, b)
    BY <1>4 DEF Chain
  <2>2. About(w[i], s)
    BY <1>4 DEF IsUpdate, About
  <2>3. t1[b] = t[b] /\ t1[w[i].at] = t[w[i].at]
    <3>1. b \in Nat \ {0} /\ b < w[i].at
      BY <2>1 DEF GoesFrom
    <3>2. w[i].at \in Nat /\ w[i].at <= Len(t)
      BY <1>1, <2>2 DEF InOrder, Numbers
    <3>3. b \in 1 .. Len(t)
      BY <3>1, <3>2
    <3> QED  BY <1>2, <2>2, <3>3
  <2>4. GoesFrom(s, w, a, m, live, t1, i, b)
    BY <2>1, <2>3 DEF GoesFrom
  <2> QED  BY <2>4
<1> QED  BY <1>1, <1>3, <1>4 DEF Chain

----------------------------------------------------------------------------
(* What the driver makes of a message.                                     *)

\* The better of two prices, by side.
Order(k) == IF k = "bids" THEN Higher ELSE Lower

LEMMA ShownTop ==
  ASSUME NEW k \in Sides, NEW side \in Side
  PROVE  /\ Shown(k, side) = KeepTop(side, Limit, Order(k))
         /\ Shown(k, side) \in Side
         /\ StrictOrder(Order(k), Price)
         /\ Limit \in Nat
<1>1. Shown(k, side) = KeepTop(side, Limit, Order(k))
  BY KeepTops DEF Shown, Order
<1>2. StrictOrder(Order(k), Price)
  BY BestFirst DEF Order
<1> QED  BY <1>1, <1>2, KeepTopType, BoundAssumption

LEMMA ShownTwice ==
  ASSUME NEW k \in Sides, NEW side \in Side
  PROVE  Shown(k, Shown(k, side)) = Shown(k, side)
  BY ShownTop, CutTwice

\* A book of limited depth that is the view of one book of the exchange becomes
\* the view of another, when it is told what became of the first and is cut
\* again: levels that are pushed out need no message, and levels that come
\* back into the depth are sent (apply_event, retain_top).
LEMMA ToldShows ==
  ASSUME NEW k \in Sides, NEW then \in Side, NEW now \in Side, NEW ls \in Seq(Level),
         Told(k, ls, then, now)
  PROVE  Shown(k, SetLevels(Shown(k, then), ls)) = Shown(k, now)
<1> DEFINE seen == Shown(k, then)
           new  == SetLevels(seen, ls)
<1>1. seen \in Side /\ new \in Side
  BY ShownTop, SetLevelsType
<1>2. ASSUME NEW p \in Price
      PROVE  IF Shown(k, now)[p] # NoLevel THEN new[p] = now[p]
                                           ELSE new[p] # NoLevel => now[p] # NoLevel
  <2>1. /\ Mentions(ls, p) => new[p] = now[p]
        /\ ~Mentions(ls, p) => new[p] = seen[p]
    BY DEF Told, SetLevels
  <2>2. Shown(k, now)[p] # NoLevel => Shown(k, now)[p] = now[p]
    BY ShownTop DEF KeepTop
  <2>3. ~Mentions(ls, p) =>
          seen[p] = Shown(k, now)[p] \/ (Shown(k, now)[p] = NoLevel /\ now[p] # NoLevel)
    BY DEF Told
  <2> QED  BY <2>1, <2>2, <2>3
<1> HIDE DEF new, seen
<1>3. KeepTop(new, Limit, Order(k)) = KeepTop(now, Limit, Order(k))
  <2>1. /\ StrictOrder(Order(k), Price) /\ Limit \in Nat
        /\ Shown(k, now) = KeepTop(now, Limit, Order(k))
    BY ShownTop
  <2> QED  BY <1>1, <1>2, <2>1, SameTop
<1>4. Shown(k, new) = Shown(k, now)
  BY <1>1, <1>3, ShownTop
<1> QED  BY <1>4 DEF new, seen

LEMMA RetainType ==
  ASSUME NEW b \in Book
  PROVE  /\ RetainTop(b, Limit) \in Book
         /\ RetainTop(b, Limit).bids = Shown("bids", b.bids)
         /\ RetainTop(b, Limit).asks = Shown("asks", b.asks)
         /\ RetainTop(b, Limit).lastUpdateId = b.lastUpdateId
         /\ RetainTop(b, Limit).initialized = b.initialized
<1>1. Shown("bids", b.bids) \in Side /\ Shown("asks", b.asks) \in Side
  BY ShownTop DEF Sides, Book
<1> QED  BY <1>1 DEF RetainTop, Book, Shown

----------------------------------------------------------------------------
(* The invariant of both feeds, apart from what is on the wire and how far *)
(* a book can be from the exchange's.                                      *)

Chains ==
  \A s \in Symbol :
    Chain(s, wire, at[s], emitted[s], missed[s], Seeded(s), truth[s])

\* No counter is ahead of the exchange, and a seeded book has been read.
Counters ==
  \A s \in Symbol : seq[s] <= at[s] /\ (Seeded(s) => at[s] > 0)

\* What ends a session is there only after a fault.
Faulty ==
  faults = MaxFaults =>
    sock # "closed" /\ \A i \in 1 .. Len(wire) : wire[i].kind \notin {"bad", "close"}

BaseTypes ==
  /\ truth \in [Symbol -> Seq(ExchangeBook)]
  /\ emitted \in [Symbol -> Nat]
  /\ \A s \in Symbol : emitted[s] \in 1 .. Now(s) /\ Now(s) <= MaxUpdates[s]
  /\ sock \in {"none", "open", "closed"}
  /\ books \in [Symbol -> Book]
  /\ seq \in [Symbol -> Id]
  /\ at \in [Symbol -> Nat] /\ missed \in [Symbol -> SUBSET Nat]
  /\ faults \in 0 .. MaxFaults

Base == BaseTypes /\ Chains /\ Counters /\ CounterMatchesBook /\ Faulty

LEMMA Types ==
  ASSUME BaseTypes, NEW s \in Symbol
  PROVE  /\ truth[s] \in Seq(ExchangeBook)
         /\ Now(s) = Len(truth[s]) /\ Now(s) \in Nat /\ Now(s) <= MaxUpdates[s]
         /\ emitted[s] \in 1 .. Now(s) /\ MaxUpdates[s] \in 1 .. IdMax /\ IdMax \in Nat
         /\ books[s] \in Book /\ seq[s] \in Id /\ at[s] \in Nat /\ missed[s] \subseteq Nat
<1>1. truth[s] \in Seq(ExchangeBook)
  BY DEF BaseTypes
<1>2. Now(s) = Len(truth[s]) /\ Now(s) \in Nat
  BY <1>1, LenProperties DEF Now
<1>3. emitted[s] \in 1 .. Now(s) /\ Now(s) <= MaxUpdates[s]
  BY DEF BaseTypes
<1>4. MaxUpdates[s] \in 1 .. IdMax /\ IdMax \in Nat
  BY BoundAssumption, IdAssumption
<1>5. books[s] \in Book /\ seq[s] \in Id /\ at[s] \in Nat /\ missed[s] \subseteq Nat
  BY DEF BaseTypes
<1> QED  BY <1>1, <1>2, <1>3, <1>4, <1>5

LEMMA HistoryTypes ==
  ASSUME BaseTypes, NEW s \in Symbol, NEW i \in 1 .. emitted[s]
  PROVE  /\ truth[s][i] \in ExchangeBook
         /\ truth[s][i].bids \in Side /\ truth[s][i].asks \in Side
         /\ \A k \in Sides : truth[s][i][k] \in Side
<1>1. i \in 1 .. Len(truth[s]) /\ truth[s] \in Seq(ExchangeBook)
  BY Types
<1>2. truth[s][i] \in ExchangeBook
  BY <1>1, ElementOfSeq
<1> QED  BY <1>2 DEF ExchangeBook, Sides

LEMMA FaultFacts ==
  ASSUME BaseTypes, Fault
  PROVE  faults' \in 0 .. MaxFaults /\ faults' < MaxFaults /\ faults' = faults - 1
  BY BoundAssumption DEF BaseTypes, Fault

LEMMA BaseInit ==
  ASSUME Init
  PROVE  Base
<1>1. \A s \in Symbol : /\ truth[s] \in Seq(ExchangeBook) /\ Len(truth[s]) = 1
                        /\ ~Seeded(s) /\ 1 <= MaxUpdates[s]
  <2> SUFFICES ASSUME NEW s \in Symbol
               PROVE  /\ truth[s] \in Seq(ExchangeBook) /\ Len(truth[s]) = 1
                      /\ ~Seeded(s) /\ 1 <= MaxUpdates[s]
    OBVIOUS
  <2>1. PICK b \in InitialBooks : truth[s] = <<b>>
    BY DEF Init
  <2>2. b \in ExchangeBook
    BY InitialAssumption DEF ExchangeBook
  <2> QED  BY <2>1, <2>2, BoundAssumption DEF Seeded, NewBook, Init
<1>2. BaseTypes
  <2>1. truth \in [Symbol -> Seq(ExchangeBook)]
    <3>1. \A b \in InitialBooks : <<b>> \in Seq(ExchangeBook)
      BY InitialAssumption DEF ExchangeBook
    <3> QED  BY <3>1 DEF Init
  <2>2. \A s \in Symbol : emitted[s] \in 1 .. Now(s) /\ Now(s) <= MaxUpdates[s]
    <3>1. \A s \in Symbol : emitted[s] = 1
      BY DEF Init
    <3>2. \A s \in Symbol : Now(s) = 1 /\ MaxUpdates[s] \in Int /\ 1 <= MaxUpdates[s]
      BY <1>1, BoundAssumption DEF Now
    <3> QED  BY <3>1, <3>2
  <2>3. seq \in [Symbol -> Id] /\ sock \in {"none", "open", "closed"}
    BY IdAssumption DEF Id, Init
  <2>4. books \in [Symbol -> Book] /\ faults \in 0 .. MaxFaults
    BY NewBookType, BoundAssumption DEF Init
  <2>5. /\ emitted \in [Symbol -> Nat] /\ at \in [Symbol -> Nat]
        /\ missed \in [Symbol -> SUBSET Nat]
    BY DEF Init
  <2> QED  BY <2>1, <2>2, <2>3, <2>4, <2>5 DEF BaseTypes
<1>3. Chains
  <2> SUFFICES ASSUME NEW s \in Symbol
               PROVE  Chain(s, wire, at[s], emitted[s], missed[s], Seeded(s), truth[s])
    BY DEF Chains
  <2>1. at[s] = 0 /\ emitted[s] = 1 /\ wire = <<>>
    BY DEF Init
  <2>2. Numbers(at[s], emitted[s], truth[s])
    BY <1>1, <2>1 DEF Numbers
  <2> QED  BY <1>1, <2>1, <2>2, ChainEmpty
<1>4. Counters /\ CounterMatchesBook /\ Faulty
  BY <1>1 DEF Counters, CounterMatchesBook, Faulty, Init
<1> QED  BY <1>2, <1>3, <1>4 DEF Base

\* The books and what was read of them stay as they are.
LEMMA CountersKept ==
  ASSUME Base, UNCHANGED <<books, seq, at>>
  PROVE  Counters' /\ CounterMatchesBook'
  BY DEF Base, Counters, CounterMatchesBook, Seeded

----------------------------------------------------------------------------
(* The steps of the exchange and the network.                              *)

\* A changed book of the exchange is a book, and added to its history.
LEMMA Published ==
  ASSUME BaseTypes, NEW s \in Symbol, UpdateBook(s)
  PROVE  \E new \in ExchangeBook : truth' = [truth EXCEPT ![s] = Append(truth[s], new)]
<1>1. PICK side \in Sides, l \in Level :
        LET old == truth[s][Now(s)]
            new == [old EXCEPT ![side] = SetLevel(old[side], l)]
        IN  /\ new # old
            /\ Uncrossed(new)
            /\ truth' = [truth EXCEPT ![s] = Append(@, new)]
  BY DEF UpdateBook
<1> DEFINE old == truth[s][Now(s)]
           new == [old EXCEPT ![side] = SetLevel(old[side], l)]
<1>2. old \in ExchangeBook
  <2>1. truth[s] \in Seq(ExchangeBook) /\ Now(s) \in 1 .. Len(truth[s])
    BY Types
  <2> QED  BY <2>1, ElementOfSeq
<1>3. SetLevel(old[side], l) \in Side
  <2>1. old[side] \in Side
    BY <1>2 DEF ExchangeBook, Sides
  <2> QED  BY <2>1 DEF SetLevel, Side, Stored, Level
<1>4. new \in ExchangeBook
  BY <1>1, <1>2, <1>3 DEF ExchangeBook, Sides
<1>5. truth' = [truth EXCEPT ![s] = Append(truth[s], new)]
  BY <1>1
<1> HIDE DEF new
<1> QED  BY <1>4, <1>5

\* Every history is kept, and that of s is one longer.
LEMMA Lengthened ==
  ASSUME BaseTypes, NEW s \in Symbol, UpdateBook(s)
  PROVE  /\ truth' \in [Symbol -> Seq(ExchangeBook)]
         /\ \A z \in Symbol :
              /\ Len(truth'[z]) \in Nat /\ Len(truth[z]) \in Nat
              /\ Len(truth'[z]) = IF z = s THEN Len(truth[z]) + 1 ELSE Len(truth[z])
              /\ \A i \in 1 .. Len(truth[z]) : truth'[z][i] = truth[z][i]
<1>1. PICK new \in ExchangeBook : truth' = [truth EXCEPT ![s] = Append(truth[s], new)]
  BY Published
<1>2. truth \in [Symbol -> Seq(ExchangeBook)]
  BY DEF BaseTypes
<1> QED  BY <1>1, <1>2, AppendProperties

LEMMA BaseUpdateBook ==
  ASSUME Base, NEW F, wire \in Seq(F), NEW s \in Symbol, UpdateBook(s)
  PROVE  Base'
<1> USE DEF Base
<1>1. BaseTypes'
  <2>1. \A z \in Symbol : emitted[z] \in 1 .. Now(z)' /\ Now(z)' <= MaxUpdates[z]
    <3> SUFFICES ASSUME NEW z \in Symbol
                 PROVE  emitted[z] \in 1 .. Now(z)' /\ Now(z)' <= MaxUpdates[z]
      OBVIOUS
    <3>1. /\ Now(z) \in Nat /\ emitted[z] \in 1 .. Now(z) /\ MaxUpdates[z] \in 1 .. IdMax
          /\ Now(z) <= MaxUpdates[z] /\ IdMax \in Nat
      BY Types
    <3>2. Now(s) < MaxUpdates[s]
      BY DEF UpdateBook
    <3>3. Now(z)' = IF z = s THEN Now(z) + 1 ELSE Now(z)
      BY Lengthened DEF Now
    <3> QED  BY <3>1, <3>2, <3>3
  <2> QED  BY <2>1, Lengthened DEF BaseTypes, UpdateBook, sessionVars, historyVars
<1>2. Chains'
  <2> SUFFICES ASSUME NEW z \in Symbol
               PROVE  Chain(z, wire, at[z], emitted[z], missed[z], Seeded(z), truth'[z])
    BY DEF Chains, UpdateBook, sessionVars, historyVars, Seeded
  <2>1. Chain(z, wire, at[z], emitted[z], missed[z], Seeded(z), truth[z])
    BY DEF Chains
  <2>2. Len(truth[z]) <= Len(truth'[z])
    BY Lengthened
  <2> QED  BY <2>1, <2>2, Lengthened, ChainGrown
<1>3. Counters' /\ CounterMatchesBook' /\ Faulty'
  BY DEF Counters, CounterMatchesBook, Faulty, UpdateBook, sessionVars, historyVars, Seeded
<1> QED  BY <1>1, <1>2, <1>3

\* A message about s that tells what became of its book since the last one.
LEMMA BaseSent ==
  ASSUME Base, NEW F, wire \in Seq(F), NEW s \in Symbol, NEW f, About(f, s), f.at = Now(s),
         IsSnapshot(f, s) => Shows(f, truth[s]),
         IsUpdate(f, s) => /\ emitted[s] < Now(s)
                           /\ Reported(f.bids, f.asks, truth[s][emitted[s]], truth[s][Now(s)]),
         BringUpToDate(s), wire' = Append(wire, f),
         faults' \in 0 .. MaxFaults, faults' \in {faults, faults - 1}
  PROVE  Base'
<1> USE DEF Base, BringUpToDate, historyVars
<1>1. BaseTypes'
  <2>1. \A z \in Symbol : emitted'[z] \in 1 .. Now(z)' /\ Now(z)' <= MaxUpdates[z]
    <3> SUFFICES ASSUME NEW z \in Symbol
                 PROVE  emitted'[z] \in 1 .. Now(z)' /\ Now(z)' <= MaxUpdates[z]
      OBVIOUS
    <3>1. /\ Now(z)' = Now(z) /\ Now(z) \in Nat /\ Now(z) <= MaxUpdates[z]
          /\ emitted[z] \in 1 .. Now(z)
      BY Types DEF Now
    <3>2. emitted'[z] = IF z = s THEN Now(z) ELSE emitted[z]
      BY DEF BaseTypes
    <3> QED  BY <3>1, <3>2
  <2>2. emitted' \in [Symbol -> Nat]
    BY Types DEF BaseTypes
  <2> QED  BY <2>1, <2>2 DEF BaseTypes
<1>2. Chains'
  <2> SUFFICES ASSUME NEW z \in Symbol
               PROVE  Chain(z, wire', at[z], emitted'[z], missed[z], Seeded(z), truth[z])
    BY DEF Chains, Seeded
  <2>1. Chain(z, wire, at[z], emitted[z], missed[z], Seeded(z), truth[z])
    BY DEF Chains
  <2>2. emitted'[z] = IF z = s THEN Len(truth[s]) ELSE emitted[z]
    BY DEF BaseTypes, Now
  <2>3. CASE z = s
    <3>1. Len(truth[s]) \in Nat /\ Now(s) = Len(truth[s])
      BY Types
    <3>2. Chain(s, Append(wire, f), at[s], Len(truth[s]), missed[s], Seeded(s), truth[s])
      BY <2>1, <2>3, <3>1, ChainSent
    <3> QED  BY <2>2, <2>3, <3>2
  <2>4. CASE z # s
    <3>1. ~About(f, z)
      BY <2>4 DEF About
    <3>2. Chain(z, Append(wire, f), at[z], emitted[z], missed[z], Seeded(z), truth[z])
      BY <2>1, <3>1, ChainOther
    <3> QED  BY <2>2, <2>4, <3>2
  <2> QED  BY <2>3, <2>4
<1>3. Counters' /\ CounterMatchesBook'
  BY CountersKept
<1>4. Faulty'
  <2>1. /\ Len(wire') = Len(wire) + 1 /\ Len(wire) \in Nat
        /\ \A i \in 1 .. Len(wire) : wire'[i] = wire[i]
        /\ wire'[Len(wire) + 1] = f
    BY AppendFacts
  <2>2. \A i \in 1 .. Len(wire') : i \in 1 .. Len(wire) \/ i = Len(wire) + 1
    BY <2>1
  <2>3. faults' = MaxFaults => faults = MaxFaults
    BY BoundAssumption DEF BaseTypes
  <2> QED  BY <2>1, <2>2, <2>3 DEF Faulty, About
<1> QED  BY <1>1, <1>2, <1>3, <1>4

LEMMA BaseSnapshot ==
  ASSUME Base, NEW F, wire \in Seq(F), NEW s \in Symbol, Snapshot(s),
         faults' \in 0 .. MaxFaults, faults' \in {faults, faults - 1}
  PROVE  /\ Base'
         /\ \E b, a \in LevelList :
              wire' = Append(wire, [kind |-> "snapshot", symbol |-> s, bids |-> b,
                                    asks |-> a, at |-> Now(s)])
<1> DEFINE now == truth[s][Now(s)]
<1>1. PICK b \in Listings[View(s, Now(s)).bids], a \in Listings[View(s, Now(s)).asks] :
        wire' = Append(wire, [kind |-> "snapshot", symbol |-> s, bids |-> b,
                              asks |-> a, at |-> Now(s)])
  BY DEF Snapshot
<1> DEFINE f == [kind |-> "snapshot", symbol |-> s, bids |-> b, asks |-> a, at |-> Now(s)]
<1>2. now.bids \in Side /\ now.asks \in Side
  <2>1. Now(s) \in 1 .. Len(truth[s]) /\ truth[s] \in Seq(ExchangeBook)
    BY Types DEF Base
  <2>2. now \in ExchangeBook
    BY <2>1, ElementOfSeq
  <2> QED  BY <2>2 DEF ExchangeBook
<1>3. View(s, Now(s)).bids = Shown("bids", now.bids) /\ View(s, Now(s)).asks = Shown("asks", now.asks)
  BY DEF View, Sides
<1>4. Shown("bids", now.bids) \in Side /\ Shown("asks", now.asks) \in Side
  BY <1>2, ShownTop DEF Sides
<1>5. /\ b \in LevelList /\ SetLevels(EmptySide, b) = Shown("bids", now.bids)
      /\ a \in LevelList /\ SetLevels(EmptySide, a) = Shown("asks", now.asks)
  BY <1>1, <1>3, <1>4, ListingFacts
<1>6. About(f, s) /\ Shows(f, truth[s]) /\ ~IsUpdate(f, s) /\ f.at = Now(s)
  BY <1>5 DEF About, Shows, IsUpdate
<1>7. \E x, y \in LevelList :
        wire' = Append(wire, [kind |-> "snapshot", symbol |-> s, bids |-> x,
                              asks |-> y, at |-> Now(s)])
  BY <1>1, <1>5
<1> HIDE DEF f
<1>8. wire' = Append(wire, f) /\ BringUpToDate(s)
  BY <1>1 DEF f, Snapshot
<1> QED  BY <1>6, <1>7, <1>8, BaseSent

LEMMA BaseSendUpdate ==
  ASSUME Base, NEW F, wire \in Seq(F), NEW s \in Symbol, NEW c, SendUpdate(s, c)
  PROVE  /\ Base'
         /\ \E b, a \in LevelList :
              wire' = Append(wire, [kind |-> "update", symbol |-> s, bids |-> b,
                                    asks |-> a, at |-> Now(s), checksum |-> c])
<1> DEFINE then == truth[s][emitted[s]]
           now  == truth[s][Now(s)]
<1>1. PICK b \in Reports["bids"][then.bids][now.bids],
           a \in Reports["asks"][then.asks][now.asks] :
        wire' = Append(wire, [kind |-> "update", symbol |-> s, bids |-> b,
                              asks |-> a, at |-> Now(s), checksum |-> c])
  BY DEF SendUpdate
<1> DEFINE f == [kind |-> "update", symbol |-> s, bids |-> b, asks |-> a,
                 at |-> Now(s), checksum |-> c]
<1>2. then \in ExchangeBook /\ now \in ExchangeBook
  <2>1. /\ Now(s) \in 1 .. Len(truth[s]) /\ emitted[s] \in 1 .. Len(truth[s])
        /\ truth[s] \in Seq(ExchangeBook)
    BY Types DEF Base
  <2> QED  BY <2>1, ElementOfSeq
<1>3. then.bids \in Side /\ then.asks \in Side /\ now.bids \in Side /\ now.asks \in Side
  BY <1>2 DEF ExchangeBook
<1>4. b \in LevelList /\ a \in LevelList /\ Reported(b, a, then, now)
  <2>1. "bids" \in Sides /\ "asks" \in Sides
    BY DEF Sides
  <2>2. b \in LevelList /\ Told("bids", b, then.bids, now.bids)
    BY <1>3, <2>1, ReportFacts
  <2>3. a \in LevelList /\ Told("asks", a, then.asks, now.asks)
    BY <1>3, <2>1, ReportFacts
  <2> HIDE DEF then, now
  <2> QED  BY <2>2, <2>3 DEF Reported
<1>5. /\ About(f, s) /\ ~IsSnapshot(f, s) /\ f.at = Now(s)
      /\ Reported(f.bids, f.asks, then, now)
  BY <1>4 DEF About, IsSnapshot
<1>6. \E x, y \in LevelList :
        wire' = Append(wire, [kind |-> "update", symbol |-> s, bids |-> x,
                              asks |-> y, at |-> Now(s), checksum |-> c])
  BY <1>1, <1>4
<1> HIDE DEF f
<1>7. /\ wire' = Append(wire, f) /\ BringUpToDate(s) /\ emitted[s] < Now(s)
      /\ faults' = faults
  BY <1>1 DEF f, SendUpdate, BringUpToDate
<1>8. faults \in 0 .. MaxFaults
  BY DEF Base, BaseTypes
<1> QED  BY <1>5, <1>6, <1>7, <1>8, BaseSent

LEMMA BaseLoseUpdate ==
  ASSUME Base, NEW F, wire \in Seq(F), NEW s \in Symbol, LoseUpdate(s)
  PROVE  Base'
<1> USE DEF Base, LoseUpdate, sessionVars
<1>1. \A z \in Symbol :
        /\ emitted'[z] = IF z = s THEN Now(s) ELSE emitted[z]
        /\ missed'[z] = IF z = s THEN missed[s] \cup (emitted[s] + 1 .. Now(s)) ELSE missed[z]
  BY DEF BaseTypes
<1>2. faults' \in 0 .. MaxFaults /\ faults' < MaxFaults
  BY FaultFacts
<1>3. BaseTypes'
  <2>1. \A z \in Symbol : emitted'[z] \in 1 .. Now(z)' /\ Now(z)' <= MaxUpdates[z]
    <3> SUFFICES ASSUME NEW z \in Symbol
                 PROVE  emitted'[z] \in 1 .. Now(z)' /\ Now(z)' <= MaxUpdates[z]
      OBVIOUS
    <3>1. /\ Now(z)' = Now(z) /\ Now(z) \in Nat /\ Now(z) <= MaxUpdates[z]
          /\ emitted[z] \in 1 .. Now(z)
      BY Types DEF Now
    <3> QED  BY <1>1, <3>1
  <2>2. emitted' \in [Symbol -> Nat]
    BY Types DEF BaseTypes
  <2>3. emitted[s] + 1 .. Now(s) \subseteq Nat
    BY Types
  <2>4. missed' \in [Symbol -> SUBSET Nat]
    BY <2>3 DEF BaseTypes
  <2> QED  BY <1>2, <2>1, <2>2, <2>4 DEF BaseTypes
<1>4. Chains'
  <2> SUFFICES ASSUME NEW z \in Symbol
               PROVE  Chain(z, wire, at[z], emitted'[z], missed'[z], Seeded(z), truth[z])
    BY DEF Chains, Seeded
  <2>1. Chain(z, wire, at[z], emitted[z], missed[z], Seeded(z), truth[z])
    BY DEF Chains
  <2>2. CASE z = s
    <3>1. Now(s) = Len(truth[s]) /\ Now(s) \in Nat
      BY Types
    <3>2. Chain(s, wire, at[s], Len(truth[s]), missed[s] \cup (emitted[s] + 1 .. Len(truth[s])),
                Seeded(s), truth[s])
      BY <2>1, <2>2, <3>1, ChainLost
    <3> QED  BY <1>1, <2>2, <3>1, <3>2
  <2>3. CASE z # s
    BY <1>1, <2>1, <2>3
  <2> QED  BY <2>2, <2>3
<1>5. Counters' /\ CounterMatchesBook'
  BY DEF Counters, CounterMatchesBook, Seeded
<1>6. Faulty'
  BY <1>2 DEF Faulty
<1> QED  BY <1>3, <1>4, <1>5, <1>6

\* A frame that is about no book is sent, or the server goes away.
LEMMA BaseAside ==
  ASSUME Base, NEW F, wire \in Seq(F), NEW f, \A z : ~About(f, z),
         wire' \in {wire, Append(wire, f)}, UNCHANGED <<truth, emitted, books, seq, at, missed>>,
         sock' \in {"none", "open", "closed"}, faults' \in 0 .. MaxFaults,
         \/ f.kind \notin {"bad", "close"} /\ UNCHANGED <<sock, faults>>
         \/ faults' < MaxFaults
  PROVE  Base'
<1> USE DEF Base
<1>1. BaseTypes'
  BY DEF BaseTypes, Now
<1>2. Chains'
  <2> SUFFICES ASSUME NEW z \in Symbol
               PROVE  Chain(z, wire', at[z], emitted[z], missed[z], Seeded(z), truth[z])
    BY DEF Chains, Seeded
  <2>1. Chain(z, wire, at[z], emitted[z], missed[z], Seeded(z), truth[z])
    BY DEF Chains
  <2>2. Chain(z, Append(wire, f), at[z], emitted[z], missed[z], Seeded(z), truth[z])
    BY <2>1, ChainOther
  <2> QED  BY <2>1, <2>2
<1>3. Counters' /\ CounterMatchesBook'
  BY CountersKept
<1>4. Faulty'
  <2>1. CASE faults' < MaxFaults
    BY <2>1, BoundAssumption DEF Faulty
  <2>2. CASE f.kind \notin {"bad", "close"} /\ UNCHANGED <<sock, faults>>
    <3>1. /\ Len(wire) \in Nat
          /\ \A i \in 1 .. Len(wire') : wire'[i] = f \/ (i \in 1 .. Len(wire) /\ wire'[i] = wire[i])
      <4>1. CASE wire' = wire
        BY <4>1
      <4>2. CASE wire' = Append(wire, f)
        BY <4>2, AppendFacts
      <4> QED  BY <4>1, <4>2
    <3> QED  BY <2>2, <3>1 DEF Faulty
  <2> QED  BY <2>1, <2>2
<1> QED  BY <1>1, <1>2, <1>3, <1>4

----------------------------------------------------------------------------
(* The steps of the driver.                                                *)

\* A step that leaves all of this alone, but for the socket and the faults.
LEMMA BaseKept ==
  ASSUME Base, UNCHANGED <<truth, emitted, wire, books, seq, at, missed, faults>>,
         sock' \in {"none", "open"} \/ sock' = sock
  PROVE  Base'
<1>1. BaseTypes' /\ Chains' /\ Faulty'
  BY DEF Base, BaseTypes, Chains, Faulty, Now, Seeded
<1> QED  BY <1>1, CountersKept DEF Base

\* A session ends, perhaps at a message that has been counted.
LEMMA BaseEnd ==
  ASSUME Base, EndSession, UNCHANGED missed, faults' \in 0 .. MaxFaults,
         seq' \in [Symbol -> Id], at' \in [Symbol -> Nat],
         \A s \in Symbol : seq'[s] <= at'[s] /\ at'[s] <= emitted[s]
  PROVE  Base'
<1> USE DEF Base, EndSession, exchangeVars
<1>1. \A s \in Symbol : ~Seeded(s)'
  BY DEF Seeded, NewBook
<1>2. BaseTypes'
  BY NewBookType DEF BaseTypes, Now
<1>3. Chains'
  <2> SUFFICES ASSUME NEW z \in Symbol
               PROVE  Chain(z, <<>>, at'[z], emitted[z], missed[z], Seeded(z)', truth[z])
    BY DEF Chains
  <2>1. Numbers(at'[z], emitted[z], truth[z])
    BY DEF Chains, Chain, Numbers
  <2> QED  BY <1>1, <2>1, ChainEmpty
<1>4. Counters' /\ CounterMatchesBook'
  BY <1>1 DEF Counters, CounterMatchesBook
<1>5. Faulty'
  BY DEF Faulty
<1> QED  BY <1>2, <1>3, <1>4, <1>5

\* What a message can be read at.
LEMMA ReadRange ==
  ASSUME Base, NEW s \in Symbol
  PROVE  /\ seq[s] <= at[s] /\ at[s] <= emitted[s] /\ emitted[s] <= Len(truth[s])
         /\ emitted[s] \in Nat \ {0} /\ Len(truth[s]) \in Nat /\ at[s] \in Nat /\ seq[s] \in Nat
<1>1. Numbers(at[s], emitted[s], truth[s]) /\ seq[s] <= at[s]
  BY DEF Base, Chains, Chain, Counters
<1> QED  BY <1>1, Types DEF Numbers, Base, Id

LEMMA BaseEndOnly ==
  ASSUME Base, EndSession, UNCHANGED historyVars, faults' \in 0 .. MaxFaults,
         seq' \in [Symbol -> Id], \A s \in Symbol : seq'[s] = seq[s] \/ seq'[s] = 0
  PROVE  Base'
<1>1. at' = at /\ missed' = missed /\ at \in [Symbol -> Nat]
  BY DEF Base, BaseTypes, historyVars
<1>2. \A s \in Symbol : seq'[s] <= at'[s] /\ at'[s] <= emitted[s]
  BY <1>1, ReadRange
<1> QED  BY <1>1, <1>2, BaseEnd

LEMMA FaultyRead ==
  ASSUME Base, NEW F, wire \in Seq(F), wire # <<>>, wire' = Tail(wire),
         UNCHANGED <<sock, faults>>
  PROVE  Faulty'
  BY HeadTailProperties DEF Base, Faulty

\* A frame that is about no book is read, and its session goes on.
LEMMA BaseSkip ==
  ASSUME Base, NEW F, wire \in Seq(F), wire # <<>>, \A z : ~About(Head(wire), z),
         Consume, UNCHANGED <<books, seq, at, missed, faults>>
  PROVE  Base'
<1> USE DEF Base, Consume, exchangeVars
<1>1. BaseTypes'
  BY DEF BaseTypes, Now
<1>2. Chains'
  <2> SUFFICES ASSUME NEW z \in Symbol
               PROVE  Chain(z, Tail(wire), at[z], emitted[z], missed[z], Seeded(z), truth[z])
    BY DEF Chains, Seeded
  <2>1. Chain(z, wire, at[z], emitted[z], missed[z], Seeded(z), truth[z])
    BY DEF Chains
  <2> QED  BY <2>1, ChainSkipped
<1>3. Counters' /\ CounterMatchesBook'
  BY CountersKept
<1>4. Faulty'
  BY FaultyRead
<1> QED  BY <1>1, <1>2, <1>3, <1>4

\* What a message about a symbol says, by the chain of that symbol.
LEMMA HeadFacts ==
  ASSUME Base, NEW F, wire \in Seq(F), wire # <<>>, NEW s \in Symbol, About(Head(wire), s)
  PROVE  LET f == Head(wire) IN
           /\ f.at \in Nat \ {0} /\ at[s] <= f.at /\ f.at <= emitted[s]
           /\ Chain(s, wire, at[s], emitted[s], missed[s], Seeded(s), truth[s])
           /\ IsSnapshot(f, s) => Shows(f, truth[s])
<1> DEFINE f == Head(wire)
<1>1. 1 \in 1 .. Len(wire) /\ f = wire[1]
  BY HeadTailProperties
<1> HIDE DEF f
<1>2. Chain(s, wire, at[s], emitted[s], missed[s], Seeded(s), truth[s])
  BY DEF Base, Chains
<1>3. InOrder(s, wire, at[s], emitted[s]) /\ About(wire[1], s)
  BY <1>1, <1>2 DEF Chain, f
<1>4. f.at \in Nat \ {0} /\ at[s] <= f.at /\ f.at <= emitted[s]
  BY <1>1, <1>3 DEF InOrder
<1>5. IsSnapshot(f, s) => Shows(f, truth[s])
  BY <1>1, <1>2 DEF Chain
<1> QED  BY <1>2, <1>4, <1>5 DEF f

\* The chains after a message of s is read.
LEMMA ChainsRead ==
  ASSUME Base, NEW F, wire \in Seq(F), wire # <<>>, NEW s \in Symbol,
         Head(wire).symbol = s, About(Head(wire), s),
         wire' = Tail(wire), UNCHANGED <<truth, emitted>>,
         at' = [at EXCEPT ![s] = Head(wire).at],
         \A z \in Symbol \ {s} : books'[z] = books[z] /\ missed'[z] = missed[z],
         IsSnapshot(Head(wire), s) \/ (books'[s].initialized => books[s].initialized),
         \A k \in Nat : k \in missed[s] => k \in missed'[s] \/ k <= Head(wire).at
  PROVE  Chains'
<1> SUFFICES ASSUME NEW z \in Symbol
             PROVE  Chain(z, Tail(wire), at'[z], emitted[z], missed'[z], Seeded(z)', truth[z])
  BY DEF Chains
<1>1. at'[z] = IF z = s THEN Head(wire).at ELSE at[z]
  BY DEF Base, BaseTypes
<1>2. CASE z = s
  <2>1. Chain(s, wire, at[s], emitted[s], missed[s], books[s].initialized, truth[s])
    BY HeadFacts DEF Seeded
  <2>2. Chain(s, Tail(wire), Head(wire).at, emitted[s], missed'[s],
              books'[s].initialized, truth[s])
    <3> DEFINE m1    == missed'[s]
               live  == books[s].initialized
               live1 == books'[s].initialized
    <3>1. IsSnapshot(Head(wire), s) \/ (live1 => live)
      OBVIOUS
    <3>2. \A k \in Nat : k \in missed[s] => k \in m1 \/ k <= Head(wire).at
      OBVIOUS
    <3>3. Chain(s, wire, at[s], emitted[s], missed[s], live, truth[s])
      BY <2>1
    <3> HIDE DEF m1, live, live1
    <3>4. Chain(s, Tail(wire), Head(wire).at, emitted[s], m1, live1, truth[s])
      BY <3>1, <3>2, <3>3, ChainRead
    <3> QED  BY <3>4 DEF m1, live1
  <2>3. Seeded(z)' = books'[s].initialized
    BY <1>2 DEF Seeded
  <2> QED  BY <1>1, <1>2, <2>2, <2>3
<1>3. CASE z # s
  <2>1. Chain(z, wire, at[z], emitted[z], missed[z], Seeded(z), truth[z])
    BY DEF Base, Chains
  <2>2. ~About(Head(wire), z)
    BY <1>3 DEF About
  <2>3. Chain(z, Tail(wire), at[z], emitted[z], missed[z], Seeded(z), truth[z])
    BY <2>1, <2>2, ChainSkipped
  <2>4. Seeded(z)' = Seeded(z) /\ missed'[z] = missed[z]
    BY <1>3 DEF Seeded
  <2> QED  BY <1>1, <1>3, <2>3, <2>4
<1> QED  BY <1>2, <1>3

LEMMA BaseReadSnapshot ==
  ASSUME Base, NEW F, wire \in Seq(F), wire # <<>>, NEW s \in Symbol,
         Head(wire).symbol = s, Head(wire).bids \in Seq(Level), Head(wire).asks \in Seq(Level),
         ReadSnapshot(Head(wire))
  PROVE  /\ Base'
         /\ books'[s] \in Book /\ at'[s] = Head(wire).at
         /\ \A k \in Sides : books'[s][k] = Shown(k, truth[s][at'[s]][k])
         /\ \A z \in Symbol \ {s} : /\ books'[z] = books[z] /\ at'[z] = at[z]
                                    /\ missed'[z] = missed[z]
<1> DEFINE f == Head(wire)
           snap == ApplySnapshot(books[s], f.bids, f.asks, 0)
           new == RetainTop(snap, Limit)
<1>1. About(f, s) /\ IsSnapshot(f, s)
  BY DEF ReadSnapshot, About, IsSnapshot
<1>2. f.at \in Nat \ {0} /\ at[s] <= f.at /\ f.at <= emitted[s] /\ Shows(f, truth[s])
  BY <1>1, HeadFacts
<1>3. snap \in Book /\ snap.initialized /\ snap.lastUpdateId = 0
  BY EmptySideType, SetLevelsType, IdAssumption DEF ApplySnapshot, Book, Id
<1>4. new \in Book /\ new.initialized /\ new.lastUpdateId = 0
  BY <1>3, RetainType
<1>5. ASSUME NEW k \in Sides
      PROVE  new[k] = Shown(k, truth[s][f.at][k])
  <2> DEFINE b == truth[s][f.at]
  <2>1. b.bids \in Side /\ b.asks \in Side
    BY <1>2, HistoryTypes DEF Base
  <2>2. snap.bids = Shown("bids", b.bids) /\ snap.asks = Shown("asks", b.asks)
    BY <1>2 DEF Shows, ApplySnapshot
  <2>3. new.bids = Shown("bids", b.bids) /\ new.asks = Shown("asks", b.asks)
    BY <1>3, <2>1, <2>2, RetainType, ShownTwice DEF Sides
  <2> QED  BY <2>3 DEF Sides
<1> HIDE DEF new
<1>6. /\ books' = [books EXCEPT ![s] = new]
      /\ seq' = [seq EXCEPT ![s] = 0]
      /\ at' = [at EXCEPT ![s] = f.at]
      /\ missed' = [missed EXCEPT ![s] = missed[s] \ (1 .. f.at)]
      /\ wire' = Tail(wire) /\ UNCHANGED <<truth, emitted, sent, sock, faults>>
  BY DEF ReadSnapshot, Count, Consume, exchangeVars, new
<1> HIDE DEF f
<1>7. \A z \in Symbol :
        /\ books'[z] = IF z = s THEN new ELSE books[z]
        /\ seq'[z] = IF z = s THEN 0 ELSE seq[z]
        /\ at'[z] = IF z = s THEN f.at ELSE at[z]
        /\ missed'[z] = IF z = s THEN missed[s] \ (1 .. f.at) ELSE missed[z]
  BY <1>6 DEF Base, BaseTypes
<1>8. BaseTypes'
  <2>1. books' \in [Symbol -> Book] /\ seq' \in [Symbol -> Id] /\ at' \in [Symbol -> Nat]
    BY <1>2, <1>4, <1>6, IdAssumption DEF Base, BaseTypes, Id
  <2>2. missed' \in [Symbol -> SUBSET Nat]
    BY <1>2, <1>6 DEF Base, BaseTypes
  <2> QED  BY <1>6, <2>1, <2>2 DEF Base, BaseTypes, Now
<1>9. Chains'
  <2>1. \A k \in Nat : k \in missed[s] => k \in missed'[s] \/ k <= f.at
    BY <1>2, <1>7
  <2>2. \A z \in Symbol \ {s} : books'[z] = books[z] /\ missed'[z] = missed[z]
    BY <1>7
  <2> QED  BY <1>1, <1>6, <2>1, <2>2, ChainsRead DEF f
<1>10. Counters' /\ CounterMatchesBook'
  BY <1>2, <1>4, <1>7 DEF Base, Counters, CounterMatchesBook, Seeded
<1>11. Faulty'
  BY <1>6, FaultyRead
<1>12. Base'
  BY <1>8, <1>9, <1>10, <1>11 DEF Base
<1>13. at'[s] = f.at /\ books'[s] = new /\ \A k \in Sides : books'[s][k] = Shown(k, truth[s][at'[s]][k])
  BY <1>5, <1>7
<1> QED  BY <1>4, <1>7, <1>12, <1>13 DEF f

\* An update never looks like a gap, never like an old one, and is counted
\* without overflow.
LEMMA UpdateOutcome ==
  ASSUME Base, NEW F, wire \in Seq(F), wire # <<>>, NEW s \in Symbol, IsUpdate(Head(wire), s)
  PROVE  LET f == Head(wire) IN
           /\ Succ(seq[s]) = seq[s] + 1 /\ Succ(seq[s]) \in Id /\ seq[s] + 1 <= f.at
           /\ seq[s] < IdMax
           /\ Outcome(f) = IF Seeded(s) THEN "applied" ELSE "not seeded"
<1> DEFINE f == Head(wire)
<1>1. About(f, s) /\ f.symbol = s
  BY DEF IsUpdate, About
<1>2. Chain(s, wire, at[s], emitted[s], missed[s], Seeded(s), truth[s])
  BY <1>1, HeadFacts
<1>3. at[s] < f.at /\ f.at <= emitted[s] /\ f.at \in Nat
  BY <1>2, ChainHead
<1> HIDE DEF f
<1>4. /\ seq[s] \in Nat /\ seq[s] <= at[s] /\ at[s] \in Nat
      /\ emitted[s] \in 1 .. IdMax /\ IdMax \in Nat
  BY Types DEF Base, Counters, Id
<1>5. seq[s] < IdMax /\ seq[s] + 1 <= f.at
  BY <1>3, <1>4
<1>6. Succ(seq[s]) = seq[s] + 1 /\ Succ(seq[s]) \in Id
  BY <1>4, <1>5 DEF Succ, Id
<1>7. Seeded(s) => books[s].lastUpdateId = seq[s]
  BY DEF Base, CounterMatchesBook
<1>8. Outcome(f) = IF Seeded(s) THEN "applied" ELSE "not seeded"
  <2>1. ASSUME Seeded(s) PROVE DeltaOutcome(books[s], Succ(seq[s]), Succ(seq[s])) = "applied"
    <3>1. /\ books[s].initialized /\ books[s].lastUpdateId = seq[s]
          /\ ~(Succ(seq[s]) <= seq[s])
      BY <1>4, <1>6, <1>7, <2>1 DEF Seeded
    <3> QED  BY <1>4, <1>6, <3>1 DEF DeltaOutcome
  <2> QED  BY <1>1, <2>1 DEF Outcome, Seeded
<1> QED  BY <1>5, <1>6, <1>8 DEF f

\* What the driver makes of an update.
LEMMA UpdateEffect ==
  ASSUME Base, NEW F, wire \in Seq(F), wire # <<>>, NEW s \in Symbol,
         Head(wire).symbol = s, NEW verified, ReadUpdate(Head(wire), verified)
  PROVE  /\ UNCHANGED <<truth, emitted, missed, faults>>
         /\ seq' = [seq EXCEPT ![s] = seq[s] + 1]
         /\ at' = [at EXCEPT ![s] = Head(wire).at]
         /\ \/ Seeded(s) /\ ~verified /\ EndSession
            \/ Seeded(s) /\ verified /\ books' = [books EXCEPT ![s] = Updated(Head(wire))] /\ Consume
            \/ ~Seeded(s) /\ books' = books /\ Consume
<1> DEFINE f == Head(wire)
<1>1. IsUpdate(f, s)
  BY DEF ReadUpdate, IsUpdate
<1>2. Succ(seq[s]) = seq[s] + 1 /\ Outcome(f) = IF Seeded(s) THEN "applied" ELSE "not seeded"
  BY <1>1, UpdateOutcome
<1> HIDE DEF f
<1>3. /\ UNCHANGED <<truth, emitted, missed, faults>>
      /\ seq' = [seq EXCEPT ![s] = Succ(seq[s])]
      /\ at' = [at EXCEPT ![s] = f.at]
  BY DEF ReadUpdate, Count, Consume, EndSession, exchangeVars, f
<1>4. \/ Seeded(s) /\ ~verified /\ EndSession
      \/ Seeded(s) /\ verified /\ books' = [books EXCEPT ![s] = Updated(f)] /\ Consume
      \/ ~Seeded(s) /\ books' = books /\ Consume
  BY <1>2 DEF ReadUpdate, f
<1> QED  BY <1>2, <1>3, <1>4 DEF f

LEMMA UpdatedType ==
  ASSUME NEW f, NEW s \in Symbol, f.symbol = s, f.bids \in Seq(Level), f.asks \in Seq(Level),
         books[s] \in Book, Succ(seq[s]) \in Id
  PROVE  /\ Updated(f) \in Book
         /\ Updated(f).bids = Shown("bids", SetLevels(books[s].bids, f.bids))
         /\ Updated(f).asks = Shown("asks", SetLevels(books[s].asks, f.asks))
         /\ Updated(f).lastUpdateId = Succ(seq[s])
         /\ Updated(f).initialized = books[s].initialized
<1> DEFINE new == WithDelta(books[s], f.bids, f.asks, Succ(seq[s]))
<1>1. /\ new \in Book /\ new.initialized = books[s].initialized
      /\ new.lastUpdateId = Succ(seq[s])
      /\ new.bids = SetLevels(books[s].bids, f.bids)
      /\ new.asks = SetLevels(books[s].asks, f.asks)
  BY SetLevelsType DEF WithDelta, Book
<1>2. Updated(f) = RetainTop(new, Limit)
  BY DEF Updated
<1> HIDE DEF new
<1> QED  BY <1>1, <1>2, RetainType

LEMMA BaseReadUpdate ==
  ASSUME Base, NEW F, wire \in Seq(F), wire # <<>>, NEW s \in Symbol,
         Head(wire).symbol = s, Head(wire).bids \in Seq(Level), Head(wire).asks \in Seq(Level),
         NEW verified, ReadUpdate(Head(wire), verified)
  PROVE  Base'
<1> DEFINE f == Head(wire)
<1>1. About(f, s) /\ IsUpdate(f, s)
  BY DEF ReadUpdate, About, IsUpdate
<1>2. f.at \in Nat \ {0} /\ at[s] <= f.at /\ f.at <= emitted[s]
  BY <1>1, HeadFacts
<1>3. Succ(seq[s]) = seq[s] + 1 /\ Succ(seq[s]) \in Id /\ seq[s] + 1 <= f.at
  BY <1>1, UpdateOutcome
<1>4. /\ UNCHANGED <<truth, emitted, missed, faults>>
      /\ seq' = [seq EXCEPT ![s] = seq[s] + 1]
      /\ at' = [at EXCEPT ![s] = f.at]
      /\ \/ EndSession
         \/ Seeded(s) /\ books' = [books EXCEPT ![s] = Updated(f)] /\ Consume
         \/ ~Seeded(s) /\ books' = books /\ Consume
  BY UpdateEffect
<1>5. /\ Updated(f) \in Book /\ Updated(f).lastUpdateId = seq[s] + 1
      /\ Updated(f).initialized = books[s].initialized
  BY <1>3, UpdatedType, Types DEF Base
<1> HIDE DEF f
<1>6. /\ seq' \in [Symbol -> Id] /\ at' \in [Symbol -> Nat]
      /\ \A z \in Symbol : /\ seq'[z] = IF z = s THEN seq[s] + 1 ELSE seq[z]
                           /\ at'[z] = IF z = s THEN f.at ELSE at[z]
  BY <1>2, <1>3, <1>4 DEF Base, BaseTypes
<1>7. CASE EndSession
  <2>1. \A z \in Symbol : seq'[z] <= at'[z] /\ at'[z] <= emitted[z]
    BY <1>2, <1>3, <1>6, ReadRange
  <2>2. faults' \in 0 .. MaxFaults
    BY <1>4 DEF Base, BaseTypes
  <2> QED  BY <1>4, <1>6, <1>7, <2>1, <2>2, BaseEnd
<1>8. CASE Consume /\ (\/ Seeded(s) /\ books' = [books EXCEPT ![s] = Updated(f)]
                       \/ ~Seeded(s) /\ books' = books)
  <2>1. /\ books' \in [Symbol -> Book]
        /\ \A z \in Symbol \ {s} : books'[z] = books[z]
        /\ books'[s].initialized = books[s].initialized
        /\ Seeded(s) => books'[s].lastUpdateId = seq[s] + 1
    BY <1>5, <1>8 DEF Base, BaseTypes
  <2>2. wire' = Tail(wire) /\ UNCHANGED sock
    BY <1>8 DEF Consume
  <2>3. BaseTypes'
    BY <1>4, <1>6, <2>1, <2>2 DEF Base, BaseTypes, Now
  <2>4. Chains'
    BY <1>1, <1>4, <2>1, <2>2, ChainsRead DEF f
  <2>5. ASSUME NEW z \in Symbol
        PROVE  /\ seq'[z] <= at'[z] /\ (books'[z].initialized => at'[z] > 0)
               /\ books'[z].initialized => seq'[z] = books'[z].lastUpdateId
    <3>1. CASE z = s
      BY <1>2, <1>3, <1>6, <2>1, <3>1 DEF Seeded
    <3>2. CASE z # s
      BY <1>6, <2>1, <3>2 DEF Base, Counters, CounterMatchesBook, Seeded
    <3> QED  BY <3>1, <3>2
  <2>6. Counters' /\ CounterMatchesBook'
    BY <2>5 DEF Counters, CounterMatchesBook, Seeded
  <2>7. Faulty'
    BY <1>4, <2>2, FaultyRead
  <2> QED  BY <2>3, <2>4, <2>6, <2>7 DEF Base
<1> QED  BY <1>4, <1>7, <1>8

\* Nothing but a fault puts a frame there that ends the session.
LEMMA ReadEnds ==
  ASSUME Base, NEW F, wire \in Seq(F), wire # <<>>, Head(wire).kind \in {"bad", "close"}
  PROVE  faults < MaxFaults
<1>1. faults \in 0 .. MaxFaults /\ MaxFaults \in Nat
  BY BoundAssumption DEF Base, BaseTypes
<1>2. 1 \in 1 .. Len(wire) /\ Head(wire) = wire[1]
  BY HeadTailProperties
<1>3. faults # MaxFaults
  BY <1>2 DEF Base, Faulty
<1> QED  BY <1>1, <1>3

----------------------------------------------------------------------------
(* Each symbol implements BookReplica, if its book is exact.               *)

\* BookReplica has the book's operators again, on the same constants.
LEMMA SameOperators ==
  ASSUME NEW s \in Symbol
  PROVE  /\ Replica(s)!ExchangeBook = ExchangeBook
         /\ \A side : Replica(s)!Prices(side) = Prices(side)
         /\ \A side, n : /\ Replica(s)!KeepTopBids(side, n) = KeepTopBids(side, n)
                         /\ Replica(s)!KeepTopAsks(side, n) = KeepTopAsks(side, n)
<1>1. Replica(s)!Side = Side
  BY DEF Side, Replica!Side
<1>2. \A side : Replica(s)!Prices(side) = Prices(side)
  BY DEF Prices, Replica!Prices
<1>3. \A b : Replica(s)!Uncrossed(b) <=> Uncrossed(b)
  BY <1>2 DEF Uncrossed, Replica!Uncrossed
<1>4. Replica(s)!ExchangeBook = ExchangeBook
  BY <1>1, <1>3 DEF ExchangeBook, Replica!ExchangeBook
<1>5. \A side, n, p :
        /\ Replica(s)!InTopBids(side, n, p) <=> InTopBids(side, n, p)
        /\ Replica(s)!InTopAsks(side, n, p) <=> InTopAsks(side, n, p)
  <2>1. \A S : Replica(s)!Cardinality(S) = Cardinality(S)
    BY Zenon DEF Cardinality, Replica!Cardinality
  <2> QED  BY <1>2, <2>1 DEF InTopBids, InTopAsks, Replica!InTopBids, Replica!InTopAsks
<1>6. \A side, n : /\ Replica(s)!KeepTopBids(side, n) = KeepTopBids(side, n)
                   /\ Replica(s)!KeepTopAsks(side, n) = KeepTopAsks(side, n)
  BY <1>5 DEF KeepTopBids, KeepTopAsks, Replica!KeepTopBids, Replica!KeepTopAsks
<1> QED  BY <1>2, <1>4, <1>6

\* What is shown of entry i of the history of s.
Entry(s, i) == [id |-> i, bids |-> Shown("bids", truth[s][i].bids),
                asks |-> Shown("asks", truth[s][i].asks)]

\* The view of each symbol, by what has been read of it.
Views ==
  \A s \in Symbol :
    IF Seeded(s) /\ Unbroken(s)
      THEN /\ replica(s) = Entry(s, at[s]) /\ replica(s) # NoView
           /\ at[s] \in DOMAIN truth[s] /\ at[s] \in Nat
           /\ truth[s][at[s]] \in ExchangeBook
      ELSE replica(s) = NoView

LEMMA ViewsNow == Base /\ ExactWithoutLoss => Views
<1> SUFFICES ASSUME Base, ExactWithoutLoss, NEW s \in Symbol, Seeded(s), Unbroken(s)
             PROVE  /\ replica(s) = Entry(s, at[s]) /\ replica(s) # NoView
                    /\ at[s] \in DOMAIN truth[s] /\ at[s] \in Nat
                    /\ truth[s][at[s]] \in ExchangeBook
  BY DEF Views, replica
<1>1. /\ at[s] \in Nat \ {0} /\ at[s] <= emitted[s] /\ emitted[s] <= Len(truth[s])
      /\ Len(truth[s]) \in Nat /\ emitted[s] \in Nat
  BY ReadRange DEF Base, Counters
<1>2. at[s] \in 1 .. Len(truth[s])
  BY <1>1
<1>3. truth[s][at[s]] \in ExchangeBook /\ truth[s] \in Seq(ExchangeBook)
  BY <1>1, HistoryTypes, Types DEF Base
<1>4. at[s] \in DOMAIN truth[s]
  BY <1>2, <1>3
<1>5. books[s].bids = View(s, at[s]).bids /\ books[s].asks = View(s, at[s]).asks
  BY DEF ExactWithoutLoss, Matches, Sides
<1>6. replica(s) = Entry(s, at[s])
  BY <1>5 DEF replica, Entry, View, Sides
<1>7. replica(s) # NoView
  BY <1>1, <1>6 DEF NoView, Entry
<1> QED  BY <1>1, <1>3, <1>4, <1>6, <1>7

LEMMA ViewsNext == Base' /\ ExactWithoutLoss' => Views'
  BY ViewsNow, PTL

\* An exact view of one entry of the history becomes one of another entry.
LEMMA RefinesExact ==
  ASSUME NEW s \in Symbol, truth'[s] = truth[s],
         at[s] \in Nat, at'[s] \in DOMAIN truth[s], at[s] < at'[s],
         truth[s][at'[s]] \in ExchangeBook,
         replica(s) # NoView, replica(s).id = at[s], replica(s)' = Entry(s, at'[s])
  PROVE  Replica(s)!Advance
<1> DEFINE b == truth[s][at'[s]]
           v == replica(s)'
<1>1. b.bids \in Side /\ b.asks \in Side
  BY DEF ExchangeBook
<1>2. Replica(s)!Side = Side
  BY DEF Side, Replica!Side
<1>3. /\ v.bids = KeepTopBids(b.bids, Limit) /\ v.asks = KeepTopAsks(b.asks, Limit)
      /\ v = [id |-> at'[s], bids |-> v.bids, asks |-> v.asks]
  BY DEF Entry, Shown
<1>4. v.bids \in Side /\ v.asks \in Side
  BY <1>1, <1>3, ShownTop DEF Shown, Sides
<1>5. /\ \A p \in Prices(v.bids) : v.bids[p] = b.bids[p]
      /\ \A p \in Prices(v.asks) : v.asks[p] = b.asks[p]
  BY <1>3 DEF Prices, KeepTopBids, KeepTopAsks
<1> HIDE DEF v, b
<1>6. Replica(s)!CutOf(v, b)
  BY <1>5, SameOperators DEF Replica!CutOf, Replica!Sides
<1>7. \A a : Replica(s)!KeepsUp(replica(s), v, a, b)
  <2>1. Replica(s)!Best(b).bids = v.bids /\ Replica(s)!Best(b).asks = v.asks
    BY <1>3, SameOperators DEF Replica!Best
  <2> QED  BY <2>1 DEF Replica!KeepsUp, Replica!Sides
<1> QED  BY <1>2, <1>3, <1>4, <1>6, <1>7 DEF Replica!Advance, v, b

\* What a step may do to the history of a symbol and to what was read of it.
Moves(s) ==
  \/ truth'[s] = truth[s] /\ at[s] <= at'[s]
  \/ /\ \E new \in ExchangeBook : truth'[s] = Append(truth[s], new)
     /\ UNCHANGED <<books, at, missed>>

LEMMA MovesPublished ==
  ASSUME BaseTypes, NEW z \in Symbol, UpdateBook(z), NEW s \in Symbol
  PROVE  Moves(s)
<1>1. at[s] \in Nat
  BY Types
<1>2. UNCHANGED <<books, at, missed>>
  BY DEF UpdateBook, sessionVars, historyVars
<1>3. PICK new \in ExchangeBook : truth' = [truth EXCEPT ![z] = Append(truth[z], new)]
  BY Published
<1>4. truth'[s] = IF s = z THEN Append(truth[s], new) ELSE truth[s]
  BY <1>3 DEF BaseTypes
<1> QED  BY <1>1, <1>2, <1>4 DEF Moves

LEMMA MovesRead ==
  ASSUME Base, NEW F, wire \in Seq(F), wire # <<>>, NEW s \in Symbol,
         NEW f, f = Head(wire), f.symbol \in Symbol,
         About(f, f.symbol), truth' = truth, at' = [at EXCEPT ![f.symbol] = f.at]
  PROVE  Moves(s)
<1>1. f.at \in Nat /\ at[f.symbol] <= f.at
  BY HeadFacts
<1>2. at \in [Symbol -> Nat]
  BY DEF Base, BaseTypes
<1> QED  BY <1>1, <1>2 DEF Moves

\* One symbol: published, installed, advanced, discarded or left alone.
LEMMA RefinesStep ==
  ASSUME Views, Views', NEW s \in Symbol, Moves(s)
  PROVE  [Replica(s)!Next]_(Replica(s)!vars)
<1>1. CASE (\E new \in ExchangeBook : truth'[s] = Append(truth[s], new))
           /\ UNCHANGED <<books, at, missed>>
  <2>1. replica(s)' = replica(s)
    BY <1>1 DEF replica, Seeded, Unbroken
  <2>2. \E new \in Replica(s)!ExchangeBook : truth'[s] = Append(truth[s], new)
    BY <1>1, SameOperators
  <2> QED  BY <2>1, <2>2 DEF Replica!Next, Replica!Publish
<1>2. CASE truth'[s] = truth[s] /\ at[s] <= at'[s]
  <2>1. CASE replica(s)' = replica(s)
    BY <1>2, <2>1 DEF Replica!vars
  <2>2. CASE replica(s)' = NoView /\ replica(s)' # replica(s)
    BY <1>2, <2>2 DEF Replica!Next, Replica!Discard
  <2>3. CASE replica(s)' # NoView /\ replica(s)' # replica(s)
    <3>1. /\ replica(s)' = [id |-> at'[s], bids |-> Shown("bids", truth[s][at'[s]].bids),
                            asks |-> Shown("asks", truth[s][at'[s]].asks)]
          /\ at'[s] \in DOMAIN truth[s] /\ at'[s] \in Nat
          /\ truth[s][at'[s]] \in ExchangeBook
      BY <1>2, <2>3 DEF Views, Entry
    <3>2. CASE replica(s) = NoView
      <4>1. replica(s)' = [id   |-> at'[s],
                           bids |-> Replica(s)!KeepTopBids(truth[s][at'[s]].bids, Limit),
                           asks |-> Replica(s)!KeepTopAsks(truth[s][at'[s]].asks, Limit)]
        BY <3>1, SameOperators DEF Shown
      <4> QED  BY <1>2, <3>1, <3>2, <4>1 DEF Replica!Next, Replica!Install
    <3>3. CASE replica(s) # NoView
      <4>1. replica(s) = Entry(s, at[s]) /\ at[s] \in Nat /\ replica(s).id = at[s]
        BY <3>3 DEF Views, Entry
      <4>2. at[s] # at'[s]
        BY <1>2, <2>3, <3>1, <4>1 DEF Entry
      <4>3. at[s] < at'[s]
        BY <1>2, <3>1, <4>1, <4>2
      <4>4. replica(s)' = Entry(s, at'[s])
        BY <3>1 DEF Entry
      <4>5. Replica(s)!Advance
        BY <1>2, <3>1, <3>3, <4>1, <4>3, <4>4, RefinesExact
      <4> QED  BY <4>5 DEF Replica!Next
    <3> QED  BY <3>2, <3>3
  <2> QED  BY <2>1, <2>2, <2>3
<1> QED  BY <1>1, <1>2 DEF Moves

LEMMA RefinesInit == Init => \A s \in Symbol : Replica(s)!Init
<1> SUFFICES ASSUME Init, NEW s \in Symbol PROVE Replica(s)!Init
  OBVIOUS
<1>1. PICK b \in InitialBooks : truth[s] = <<b>>
  BY DEF Init
<1>2. b \in Replica(s)!ExchangeBook
  BY <1>1, InitialAssumption, SameOperators DEF ExchangeBook
<1>3. replica(s) = NoView
  BY DEF Init, replica, Seeded, NewBook
<1> QED  BY <1>1, <1>2, <1>3 DEF Replica!Init
============================================================================
