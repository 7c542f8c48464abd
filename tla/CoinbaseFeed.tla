---------------------------- MODULE CoinbaseFeed ----------------------------
(***************************************************************************)
(* The Coinbase feed (src/src/exchanges/coinbase.rs): the whole book of    *)
(* every symbol, updates without a number and without a checksum, so that  *)
(* a lost update cannot be noticed.                                        *)
(***************************************************************************)
EXTENDS SocketFeed

\* book_depth_limit is None.
ASSUME FullBook == Limit >= Cardinality(Price)

Frame ==
  [kind : {"snapshot"}, symbol : Symbol, bids : LevelList, asks : LevelList,
   at : Nat] \cup
  [kind : {"update"}, symbol : Symbol, bids : LevelList, asks : LevelList,
   at : Nat, checksum : {"none"}] \cup
  [kind : {"noise", "bad", "close"}]

TypeOK ==
  /\ truth \in [Symbol -> Seq(ExchangeBook)]
  /\ emitted \in [Symbol -> Nat]
  /\ \A s \in Symbol : emitted[s] \in 1 .. Now(s) /\ Now(s) <= MaxUpdates[s]
  /\ sent \subseteq {"snapshot"} \X Symbol
  /\ sock \in {"none", "open", "closed"}
  /\ wire \in Seq(Frame)
  /\ books \in [Symbol -> Book]
  /\ seq \in [Symbol -> Id]
  /\ at \in [Symbol -> Nat] /\ missed \in [Symbol -> SUBSET Nat]
  /\ faults \in 0 .. MaxFaults

\* A level that does not parse, or an unknown side.  A snapshot has reset the
\* counter by then, an update has not advanced it.
ReadBad(f) ==
  /\ f.kind = "bad"
  /\ UNCHANGED seq \/ \E s \in Symbol : Count(s, TRUE)
  /\ EndSession
  /\ UNCHANGED <<historyVars, faults>>

\* One iteration of the consume loop.
Read ==
  /\ wire # <<>>
  /\ LET f == Head(wire) IN
       \/ ReadSnapshot(f) \/ ReadUpdate(f, TRUE)
       \/ ReadNoise(f) \/ ReadBad(f) \/ ReadClose(f)

Environment ==
  \/ \E s \in Symbol :
       \/ UpdateBook(s) \/ SendSnapshot(s) \/ RepeatSnapshot(s)
       \/ SendUpdate(s, "none") \/ LoseUpdate(s)
  \/ \E k \in {"noise", "bad"} : SendOther(k)
  \/ ServerClose

Driver == Connect \/ Read \/ SocketEnds \/ SocketFails

Next == Environment \/ Driver

Spec == Init /\ [][Next]_vars

\* The exchange goes on answering subscriptions and sending its updates, and
\* the executor polls what is ready.  Nothing makes a fault happen.
Fairness ==
  /\ WF_vars(\E s \in Symbol : SendSnapshot(s) \/ SendUpdate(s, "none"))
  /\ WF_vars(Connect \/ Read \/ SocketEnds)

FairSpec == Spec /\ Fairness

----------------------------------------------------------------------------
(* Properties.                                                             *)

\* Updates first .. last of s touched price p on one side.
Touched(s, side, p, i) == i > 1 /\ truth[s][i][side][p] # truth[s][i - 1][side][p]

\* A lost update cannot be noticed (RUNBOOK.md section 9), but it damages no
\* more than the prices it touched: every other price of the book is the
\* exchange's, absent levels included, on this symbol and on the others.
DamageConfined ==
  \A s \in Symbol : Seeded(s) =>
    \A side \in Sides, p \in Price :
      \/ books[s][side][p] = truth[s][at[s]][side][p]
      \/ \E k \in missed[s] : k <= at[s] /\ Touched(s, side, p, k)

\* No session ends before the first fault, and none ever ends without a cause
\* on its own connection: symbols that are seeded one by one, updates ahead of
\* their snapshot and counters left by earlier sessions never look like a gap
\* (next_seq, apply_event).
NoSpuriousResync ==
  [][SessionEnds => faults' < MaxFaults /\ ConnectionLost]_vars
=============================================================================
