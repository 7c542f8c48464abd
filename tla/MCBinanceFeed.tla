--------------------------- MODULE MCBinanceFeed ---------------------------
(***************************************************************************)
(* Small instances of BinanceFeed for TLC.  Within one message the order   *)
(* of levels of distinct prices does not matter (OrderBookAPI checks lists *)
(* with repeated prices), so lists are given in ascending order of price.  *)
(***************************************************************************)
EXTENDS BinanceFeed

MCLevelList ==
  {ls \in UNION {[1 .. n -> Level] : n \in 0 .. Cardinality(Price)} :
     \A i \in 1 .. Len(ls) - 1 : ls[i].price < ls[i + 1].price}

\* Two bids, and an ask if there is a third price: with a snapshot limit of
\* one the second bid is cut.
MCInitialBooks ==
  {[bids |-> [p \in Price |-> IF p < 3 THEN 1 ELSE NoLevel],
    asks |-> [p \in Price |-> IF p = 3 THEN 1 ELSE NoLevel]]}
============================================================================
