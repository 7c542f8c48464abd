---------------------------- MODULE BookReplica ----------------------------
(***************************************************************************)
(* What a feed promises about the book it holds, whatever the exchange's   *)
(* wire protocol: the exchange publishes a growing history of books, and   *)
(* the replica's view, when there is one, is a cut of one entry of that    *)
(* history.  The view is installed from the best Depth levels of an entry  *)
(* and moves to strictly later entries.  It may be discarded at any time,  *)
(* but while there is one it forgets no level that the exchange still has, *)
(* and learns of every level that changes, among the exchange's best Kept. *)
(***************************************************************************)
EXTENDS OrderBook

CONSTANTS
  Depth,   \* levels per side a view is installed with
  Kept,    \* levels per side a view keeps
  NoView   \* there is no book

VARIABLES
  truth,   \* the exchange's books: truth[i] is the book as of update i
  view     \* NoView, or the replica's book and the update it reflects

vars == <<truth, view>>

Sides        == {"bids", "asks"}
ExchangeBook == {b \in [bids : Side, asks : Side] : Uncrossed(b)}
View         == [id : Nat, bids : Side, asks : Side]

\* Every level of v is a level of exchange book b, with its quantity.
CutOf(v, b) ==
  \A s \in Sides : \A p \in Prices(v[s]) : v[s][p] = b[s][p]

\* The best levels of exchange book b.
Best(b) == [bids |-> KeepTopBids(b.bids, Kept), asks |-> KeepTopAsks(b.asks, Kept)]

\* Those that v knew, or that have changed since exchange book a, are known to w.
KeepsUp(v, w, a, b) ==
  \A s \in Sides : \A p \in Prices(Best(b)[s]) :
    p \in Prices(v[s]) \/ a[s][p] # b[s][p] => p \in Prices(w[s])

Init == /\ \E b \in ExchangeBook : truth = <<b>>
        /\ view = NoView

Publish == /\ \E b \in ExchangeBook : truth' = Append(truth, b)
           /\ UNCHANGED view

Install == /\ view = NoView
           /\ \E i \in DOMAIN truth :
                view' = [id   |-> i,
                         bids |-> KeepTopBids(truth[i].bids, Depth),
                         asks |-> KeepTopAsks(truth[i].asks, Depth)]
           /\ UNCHANGED truth

Advance == /\ view # NoView
           /\ \E i \in DOMAIN truth : \E b, a \in Side :
                /\ i > view.id
                /\ view' = [id |-> i, bids |-> b, asks |-> a]
                /\ CutOf(view', truth[i])
                /\ KeepsUp(view, view', truth[view.id], truth[i])
           /\ UNCHANGED truth

Discard == /\ view # NoView
           /\ view' = NoView
           /\ UNCHANGED truth

Next == Publish \/ Install \/ Advance \/ Discard

Spec == Init /\ [][Next]_vars
============================================================================
