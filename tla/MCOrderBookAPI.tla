--------------------------- MODULE MCOrderBookAPI ---------------------------
(***************************************************************************)
(* A small instance of OrderBookAPI for TLC.                               *)
(***************************************************************************)
EXTENDS OrderBookAPI

L(p, q) == [price |-> p, qty |-> q]

\* No level, a level, a removal, a price set and then removed, a price removed
\* and then set, a price set twice, two prices out of order.
MCLevelList ==
  {<< >>,
   <<L(2, 1)>>,
   <<L(3, 0)>>,
   <<L(1, 1), L(1, 0)>>,
   <<L(1, 0), L(1, 1)>>,
   <<L(2, 1), L(2, 2)>>,
   <<L(3, 1), L(1, 1)>>}
============================================================================
