----------------------------- MODULE OrderBook -----------------------------
(***************************************************************************)
(* The in-memory order book of src/src/orderbook.rs, as operators on a     *)
(* book value.  The modules that own a book (one per connection and        *)
(* symbol in the program) hold it in a variable and apply these operators. *)
(*                                                                         *)
(* Prices are integers that stand for the ranks of the Decimal prices;     *)
(* only their order matters to the book.  A side is a total function from  *)
(* prices: NoLevel where the BTreeMap has no entry.                        *)
(***************************************************************************)
EXTENDS Integers, Sequences, FiniteSets

CONSTANTS
  Price,     \* prices a level can have
  Qty,       \* non-zero quantities a level can hold
  NoLevel,   \* "the map has no entry at this price"
  IdMax      \* greatest update id: u64::MAX in the program

ASSUME PriceAssumption == Price \subseteq Int /\ IsFiniteSet(Price)
ASSUME QtyAssumption   == 0 \notin Qty /\ NoLevel \notin Qty
ASSUME IdAssumption    == IdMax \in Nat

Id    == 0 .. IdMax
Side  == [Price -> Qty \cup {NoLevel}]
Level == [price : Price, qty : Qty \cup {0}]
Book  == [bids : Side, asks : Side, lastUpdateId : Id, initialized : BOOLEAN]

EmptySide == [p \in Price |-> NoLevel]
NewBook   == [bids |-> EmptySide, asks |-> EmptySide,
              lastUpdateId |-> 0, initialized |-> FALSE]

----------------------------------------------------------------------------
(* Levels of one side.                                                     *)

\* Mutant: a zero quantity is stored like any other.
StoredAsIs(qty) == qty

\* Quantity zero deletes the level, anything else is stored.
Stored(qty) == IF qty = 0 THEN NoLevel ELSE qty

SetLevel(side, l) == [side EXCEPT ![l.price] = Stored(l.qty)]

Mentions(ls, p) == \E i \in DOMAIN ls : ls[i].price = p

LastMention(ls, p) ==
  CHOOSE i \in DOMAIN ls :
    /\ ls[i].price = p
    /\ \A j \in DOMAIN ls : ls[j].price = p => j <= i

FirstMention(ls, p) ==
  CHOOSE i \in DOMAIN ls :
    /\ ls[i].price = p
    /\ \A j \in DOMAIN ls : ls[j].price = p => i <= j

\* Mutant: the first of two updates of the same price wins.
SetLevelsFirstWins(side, ls) ==
  [p \in Price |-> IF Mentions(ls, p)
                     THEN Stored(ls[FirstMention(ls, p)].qty)
                     ELSE side[p]]

\* What the loop of set_level over ls leaves: each price mentioned holds its
\* last mention.  (OrderBookAPI checks this against the loop itself.)
SetLevels(side, ls) ==
  [p \in Price |-> IF Mentions(ls, p)
                     THEN Stored(ls[LastMention(ls, p)].qty)
                     ELSE side[p]]

Prices(side) == {p \in Price : side[p] # NoLevel}

\* p has fewer than n better levels above (bids) or below (asks) it.
InTopBids(side, n, p) == Cardinality({q \in Prices(side) : q > p}) < n
InTopAsks(side, n, p) == Cardinality({q \in Prices(side) : q < p}) < n

\* Mutant: bids are kept from the wrong end.
KeepTopBidsFromBelow(side, n) ==
  [p \in Price |-> IF InTopAsks(side, n, p) THEN side[p] ELSE NoLevel]

KeepTopBids(side, n) ==
  [p \in Price |-> IF InTopBids(side, n, p) THEN side[p] ELSE NoLevel]

KeepTopAsks(side, n) ==
  [p \in Price |-> IF InTopAsks(side, n, p) THEN side[p] ELSE NoLevel]

----------------------------------------------------------------------------
(* Operations of OrderBook.                                                *)

\* Mutant: the old levels are not cleared.
ApplySnapshotMerging(b, bids, asks, sequence) ==
  [bids         |-> SetLevels(b.bids, bids),
   asks         |-> SetLevels(b.asks, asks),
   lastUpdateId |-> sequence,
   initialized  |-> TRUE]

ApplySnapshot(b, bids, asks, sequence) ==
  [bids         |-> SetLevels(EmptySide, bids),
   asks         |-> SetLevels(EmptySide, asks),
   lastUpdateId |-> sequence,
   initialized  |-> TRUE]

\* u64 increment as the release build does it.
Succ(id) == IF id = IdMax THEN 0 ELSE id + 1

\* Mutant: the gap test runs before the stale test.
DeltaOutcomeGapFirst(b, first, last) ==
  IF ~b.initialized \/ first > Succ(b.lastUpdateId) THEN "gap"
  ELSE IF last <= b.lastUpdateId THEN "stale"
  ELSE "applied"

\* Mutant: no stale test.
DeltaOutcomeNoStale(b, first, last) ==
  IF ~b.initialized \/ first > Succ(b.lastUpdateId) THEN "gap" ELSE "applied"

\* Mutant: no gap test.
DeltaOutcomeNoGap(b, first, last) ==
  IF ~b.initialized THEN "gap"
  ELSE IF last <= b.lastUpdateId THEN "stale"
  ELSE "applied"

\* What apply_delta returns, its early returns in their order: Err(SequenceGap)
\* is "gap", Ok(false) is "stale", Ok(true) is "applied".
DeltaOutcome(b, first, last) ==
  IF ~b.initialized THEN "gap"
  ELSE IF last <= b.lastUpdateId THEN "stale"
  ELSE IF first > Succ(b.lastUpdateId) THEN "gap"
  ELSE "applied"

\* Mutant: the asks of a delta are not applied.
WithDeltaBidsOnly(b, bids, asks, last) ==
  [b EXCEPT !.bids = SetLevels(b.bids, bids), !.lastUpdateId = last]

\* The book after an apply_delta that returned Ok(true); every other outcome
\* leaves the book alone.
WithDelta(b, bids, asks, last) ==
  [b EXCEPT !.bids = SetLevels(b.bids, bids),
            !.asks = SetLevels(b.asks, asks),
            !.lastUpdateId = last]

\* Mutant: both sides are cut from their low end.
RetainTopLowest(b, n) ==
  [b EXCEPT !.bids = KeepTopAsks(b.bids, n), !.asks = KeepTopAsks(b.asks, n)]

RetainTop(b, n) ==
  [b EXCEPT !.bids = KeepTopBids(b.bids, n), !.asks = KeepTopAsks(b.asks, n)]

----------------------------------------------------------------------------
(* Queries.                                                                *)

IsBestBid(b, p) == p \in Prices(b.bids) /\ \A q \in Prices(b.bids) : q <= p
IsBestAsk(b, p) == p \in Prices(b.asks) /\ \A q \in Prices(b.asks) : q >= p

\* The levels at prices ps of a side in ascending order.
Ascending(side, ps) ==
  [i \in 1 .. Cardinality(ps) |->
     LET p == CHOOSE p \in ps : Cardinality({q \in ps : q < p}) = i - 1
     IN  <<p, side[p]>>]

\* top_asks(n) and top_bids(n); the bids come from the last to the first.
TopAsks(b, n) ==
  Ascending(b.asks, {p \in Prices(b.asks) : InTopAsks(b.asks, n, p)})
TopBids(b, n) ==
  LET up == Ascending(b.bids, {p \in Prices(b.bids) : InTopBids(b.bids, n, p)})
  IN  [i \in 1 .. Len(up) |-> up[Len(up) + 1 - i]]

\* spread() is positive whenever it is defined.
Uncrossed(b) == \A p \in Prices(b.bids), q \in Prices(b.asks) : p < q
============================================================================
