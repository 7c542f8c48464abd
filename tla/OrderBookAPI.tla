---------------------------- MODULE OrderBookAPI ----------------------------
(***************************************************************************)
(* The public operations of OrderBook (src/src/orderbook.rs) called in any *)
(* order with any arguments, well-formed or not: first > last, repeated    *)
(* prices, update ids up to the greatest u64.                              *)
(*                                                                         *)
(* Two books go through the same calls.  `book` uses the operators of      *)
(* module OrderBook, which the feeds are specified and proved with; `loop` *)
(* runs the statements of the code one level at a time.                    *)
(***************************************************************************)
EXTENDS OrderBook, SequencesExt

CONSTANTS
  LevelList,   \* lists of levels a call can carry
  MaxDepth     \* bound: greatest n given to retain_top

ASSUME ListAssumption  == LevelList \subseteq Seq(Level)
ASSUME DepthAssumption == MaxDepth \in Nat

VARIABLES book, loop, reply

vars == <<book, loop, reply>>

Reply == [op : {"new", "snapshot", "retain"}] \cup
         [op : {"delta"}, first : Id, last : Id,
          outcome : {"gap", "stale", "applied"}]

TypeOK == book \in Book /\ loop \in Book /\ reply \in Reply

Init == book = NewBook /\ loop = NewBook /\ reply = [op |-> "new"]

----------------------------------------------------------------------------
(* The loops of the code.                                                  *)

\* for l in ls { set_level(side, l) }
LoopSetLevels(side, ls) == FoldLeft(SetLevel, side, ls)

\* The smallest price of a side (to = 1), or the greatest (to = -1): the worst
\* bid, or the worst ask.
Worst(side, to) ==
  CHOOSE p \in Prices(side) : \A q \in Prices(side) : to * p <= to * q

\* Mutant: the loop stops one level early.
LoopRetainOneMore(side, n, to) ==
  LET cut[s \in Side] == IF Cardinality(Prices(s)) <= n + 1 THEN s
                         ELSE cut[[s EXCEPT ![Worst(s, to)] = NoLevel]]
  IN  cut[side]

\* while side.len() > n { remove the worst level }
LoopRetain(side, n, to) ==
  LET cut[s \in Side] == IF Cardinality(Prices(s)) <= n THEN s
                         ELSE cut[[s EXCEPT ![Worst(s, to)] = NoLevel]]
  IN  cut[side]

----------------------------------------------------------------------------
(* The calls.                                                              *)

Snapshot ==
  \E b, a \in LevelList, id \in Id :
    /\ book' = ApplySnapshot(book, b, a, id)
    /\ loop' = [bids |-> LoopSetLevels(EmptySide, b),
                asks |-> LoopSetLevels(EmptySide, a),
                lastUpdateId |-> id, initialized |-> TRUE]
    /\ reply' = [op |-> "snapshot"]

Delta ==
  \E b, a \in LevelList, first, last \in Id :
    LET outcome == DeltaOutcome(book, first, last) IN
    /\ IF outcome = "applied"
         THEN /\ book' = WithDelta(book, b, a, last)
              /\ loop' = [loop EXCEPT !.bids = LoopSetLevels(@, b),
                                      !.asks = LoopSetLevels(@, a),
                                      !.lastUpdateId = last]
         ELSE UNCHANGED <<book, loop>>
    /\ reply' = [op |-> "delta", first |-> first, last |-> last,
                 outcome |-> outcome]

Retain ==
  \E n \in 0 .. MaxDepth :
    /\ book' = RetainTop(book, n)
    /\ loop' = [loop EXCEPT !.bids = LoopRetain(@, n, 1),
                            !.asks = LoopRetain(@, n, -1)]
    /\ reply' = [op |-> "retain"]

Next == Snapshot \/ Delta \/ Retain

Spec == Init /\ [][Next]_vars

----------------------------------------------------------------------------
(* Properties.                                                             *)

\* The one-step descriptions of the operations agree with the code's loops
\* over the levels, repeated prices and removals of absent levels included
\* (set_level, apply_snapshot, apply_delta, retain_top).
LoopsAgree == book = loop

\* apply_delta accepts exactly the deltas its comment says, with ids as
\* unbounded integers: first <= last_update_id + 1 <= last.  Ids that are
\* already reflected are never reported as a gap, even when the increment
\* would overflow.
AcceptedIffContiguous ==
  [][reply'.op = "delta" =>
       LET next == book.lastUpdateId + 1
           want == IF ~book.initialized         THEN "gap"
                   ELSE IF reply'.last < next   THEN "stale"
                   ELSE IF next < reply'.first  THEN "gap"
                   ELSE "applied"
       IN  /\ reply'.outcome = want
           /\ want # "applied" => book' = book]_vars

\* Truncation removes only levels that are worse than every level it keeps, so
\* it moves neither the best bid nor the best ask (unless it keeps nothing).
TruncationKeepsBest ==
  [][reply'.op = "retain" =>
       /\ \A p \in Prices(book'.bids), q \in Prices(book.bids) \ Prices(book'.bids) :
            q < p
       /\ \A p \in Prices(book'.asks), q \in Prices(book.asks) \ Prices(book'.asks) :
            p < q]_vars
============================================================================
