---------------------------- MODULE MCKrakenFeed ----------------------------
(***************************************************************************)
(* A small instance of KrakenFeed for TLC: depth one, with a second bid    *)
(* behind the best one, so that levels leave the depth and come back.      *)
(***************************************************************************)
EXTENDS KrakenFeed, TLC

CONSTANT btc

MCLevelList ==
  {ls \in UNION {[1 .. n -> Level] : n \in 0 .. Cardinality(Price)} :
     \A i \in 1 .. Len(ls) - 1 : ls[i].price < ls[i + 1].price}

MCInitialBooks ==
  {[bids |-> [p \in Price |-> IF p < 3 THEN 1 ELSE NoLevel],
    asks |-> [p \in Price |-> IF p = 3 THEN 1 ELSE NoLevel]]}

MCPrecision == [price : {0, 1}, qty : {0}]

MCMaxUpdates == btc :> 3

\* Messages are made of the lists given.  (TLC tabulates the functions to
\* evaluate this.)
ASSUME MessagesAreListed ==
  /\ Listings \in [Side -> SUBSET LevelList]
  /\ Reports \in [Sides -> [Side -> [Side -> SUBSET LevelList]]]

\* What VerifiedIsExchangeTop rests on.
ASSUME LevelsAreToldApart == TokensTellApart
============================================================================
