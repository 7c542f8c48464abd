--------------------------- MODULE MCCoinbaseFeed ---------------------------
(***************************************************************************)
(* A small instance of CoinbaseFeed for TLC.  One symbol moves more than   *)
(* the other; lists are given in ascending order of price.                 *)
(***************************************************************************)
EXTENDS CoinbaseFeed, TLC

CONSTANTS btc, eth

MCLevelList ==
  {ls \in UNION {[1 .. n -> Level] : n \in 0 .. Cardinality(Price)} :
     \A i \in 1 .. Len(ls) - 1 : ls[i].price < ls[i + 1].price}

\* A bid and an ask.
MCInitialBooks ==
  {[bids |-> [p \in Price |-> IF p = 1 THEN 1 ELSE NoLevel],
    asks |-> [p \in Price |-> IF p = 2 THEN 1 ELSE NoLevel]]}

MCMaxUpdates == btc :> 3 @@ eth :> 2

\* Messages are made of the lists given.  (TLC tabulates the functions to
\* evaluate this.)
ASSUME MessagesAreListed ==
  /\ Listings \in [Side -> SUBSET LevelList]
  /\ Reports \in [Sides -> [Side -> [Side -> SUBSET LevelList]]]
============================================================================
