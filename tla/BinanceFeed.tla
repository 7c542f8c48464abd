---------------------------- MODULE BinanceFeed ----------------------------
(***************************************************************************)
(* The driver of src/src/feed.rs (run, run_once, buffer_then_snapshot,     *)
(* apply_event) on the Binance feed of src/src/exchanges/binance.rs: a     *)
(* book seeded from a REST snapshot that races the deltas arriving on the  *)
(* socket, then kept by applying deltas, and dropped whenever the session  *)
(* ends.  The exchange, its stream and its REST service are external; they *)
(* are modelled from what the driver relies on.                            *)
(***************************************************************************)
EXTENDS OrderBook

CONSTANTS
  LevelList,      \* lists of levels a message can carry
  InitialBooks,   \* books the exchange can start with
  SnapshotLimit,  \* levels per side of a REST snapshot: limit=1000
  MaxUpdates,     \* bound: updates the exchange makes
  MaxFaults,      \* bound: faults the environment injects
  HalfOpen        \* whether a connection may die without a trace

ASSUME LevelListAssumption == LevelList \subseteq Seq(Level)
ASSUME InitialAssumption ==
  InitialBooks \subseteq {b \in [bids : Side, asks : Side] : Uncrossed(b)}
ASSUME BoundAssumption ==
  /\ SnapshotLimit \in Nat
  /\ MaxUpdates \in 1 .. IdMax
  /\ MaxFaults \in Nat
  /\ HalfOpen \in BOOLEAN

VARIABLES
  (* exchange *)
  truth,     \* truth[i] is the exchange's book as of update id i
  emitted,   \* last update id a stream batch has covered
  (* connection *)
  sock,      \* "none", "open", "closed" by the server, "dead" (half-open)
  wire,      \* frames on the socket, not yet read by the driver
  rest,      \* update id of the REST snapshot on its way, 0 if none
  (* driver *)
  phase,     \* where run_once is
  buffered,  \* buffer_then_snapshot's buffered deltas
  book,      \* the one book of the session
  (* history of the session *)
  seed,      \* update id of the snapshot the book was seeded with, 0 if none
  missed,    \* update ids whose batch was not sent on this connection
  faults     \* faults the environment may still inject

exchangeVars == <<truth, emitted>>
sessionVars  == <<sock, wire, rest, phase, buffered, book, seed, missed>>
vars         == <<exchangeVars, sessionVars, faults>>

Sides        == {"bids", "asks"}
ExchangeBook == {b \in [bids : Side, asks : Side] : Uncrossed(b)}
Phase        == {"down", "buffer", "replay", "stream"}

Delta == [kind : {"delta"}, bids : LevelList, asks : LevelList,
          first : Id, last : Id]
\* A text frame that is not a depth update, a ping; a depth update with a
\* level that does not parse; a close frame.
Other == [kind : {"noise", "bad", "close"}]
Frame == Delta \cup Other

TypeOK ==
  /\ truth \in Seq(ExchangeBook) /\ Len(truth) \in 1 .. MaxUpdates
  /\ emitted \in 1 .. Len(truth)
  /\ sock \in {"none", "open", "closed", "dead"}
  /\ wire \in Seq(Frame)
  /\ rest \in 0 .. Len(truth)
  /\ phase \in Phase
  /\ buffered \in Seq(Delta)
  /\ book \in Book
  /\ seed \in 0 .. Len(truth)
  /\ missed \subseteq 1 .. Len(truth)
  /\ faults \in 0 .. MaxFaults

Init ==
  /\ truth \in {<<b>> : b \in InitialBooks}
  /\ emitted = 1
  /\ sock = "none" /\ wire = <<>> /\ rest = 0
  /\ phase = "down" /\ buffered = <<>> /\ book = NewBook
  /\ seed = 0 /\ missed = {}
  /\ faults = MaxFaults

----------------------------------------------------------------------------
(* The exchange.                                                           *)

Fault == faults > 0 /\ faults' = faults - 1

\* One level of the book changes; the exchange's book is never crossed.
UpdateBook ==
  /\ Len(truth) < MaxUpdates
  /\ \E s \in Sides, l \in Level :
       LET old == truth[Len(truth)]
           new == [old EXCEPT ![s] = SetLevel(old[s], l)]
       IN  /\ new # old
           /\ Uncrossed(new)
           /\ truth' = Append(truth, new)
  /\ UNCHANGED <<emitted, sessionVars, faults>>

\* Updates first .. last touched price p on side s.
Touched(s, p, first, last) ==
  \E i \in first .. last : truth[i][s][p] # truth[first - 1][s][p]

\* The list ls gives, on side s, the final quantity of the prices touched.
Carries(ls, s, first, last) ==
  \A p \in Price :
    /\ Mentions(ls, p) <=> Touched(s, p, first, last)
    /\ Mentions(ls, p) => Stored(ls[LastMention(ls, p)].qty) = truth[last][s][p]

\* The batches of the updates since the last one: U is emitted + 1.
Batches ==
  {[kind |-> "delta", bids |-> b, asks |-> a,
    first |-> emitted + 1, last |-> Len(truth)] :
     b \in {ls \in LevelList : Carries(ls, "bids", emitted + 1, Len(truth))},
     a \in {ls \in LevelList : Carries(ls, "asks", emitted + 1, Len(truth))}}

EmitFrame ==
  /\ emitted < Len(truth) /\ sock = "open"
  /\ \E f \in Batches : wire' = Append(wire, f)
  /\ emitted' = Len(truth)
  /\ UNCHANGED <<truth, sock, rest, phase, buffered, book, seed, missed, faults>>

Miss ==
  /\ emitted < Len(truth)
  /\ missed' = missed \cup (emitted + 1 .. Len(truth))
  /\ emitted' = Len(truth)
  /\ UNCHANGED <<truth, sock, wire, rest, phase, buffered, book, seed>>

\* The batch goes out while this client is not connected, or no longer.
EmitUnheard == sock # "open" /\ Miss /\ UNCHANGED faults

\* The batch is dropped on its way to a connected client.
LoseFrame == sock = "open" /\ Miss /\ Fault

SendOther ==
  /\ sock = "open"
  /\ \E k \in {"noise", "bad"} : wire' = Append(wire, [kind |-> k])
  /\ Fault
  /\ UNCHANGED <<exchangeVars, sock, rest, phase, buffered, book, seed, missed>>

\* The server goes away, with a close frame or without.
ServerClose ==
  /\ sock = "open"
  /\ wire' \in {wire, Append(wire, [kind |-> "close"])}
  /\ sock' = "closed"
  /\ Fault
  /\ UNCHANGED <<exchangeVars, rest, phase, buffered, book, seed, missed>>

\* The peer disappears and the socket reports nothing.
GoSilent ==
  /\ HalfOpen
  /\ sock = "open" /\ sock' = "dead"
  /\ Fault
  /\ UNCHANGED <<exchangeVars, wire, rest, phase, buffered, book, seed, missed>>

\* The REST service answers with its current book ...
ServeSnapshot ==
  /\ phase = "buffer" /\ rest = 0
  /\ rest' = Len(truth)
  /\ UNCHANGED <<exchangeVars, sock, wire, phase, buffered, book, seed, missed, faults>>

\* ... or with one from a replica that lags.
ServeStale ==
  /\ phase = "buffer" /\ rest = 0
  /\ rest' \in 1 .. Len(truth) - 1
  /\ Fault
  /\ UNCHANGED <<exchangeVars, sock, wire, phase, buffered, book, seed, missed>>

----------------------------------------------------------------------------
(* The driver.                                                             *)

\* run_once returns: everything it owned is dropped.
EndSession ==
  /\ phase' = "down" /\ sock' = "none"
  /\ wire' = <<>> /\ rest' = 0 /\ buffered' = <<>>
  /\ book' = NewBook /\ seed' = 0 /\ missed' = {}
  /\ UNCHANGED exchangeVars

\* Mutant: the snapshot is taken before the stream is opened.
ConnectAfterSnapshot ==
  /\ phase = "down"
  /\ phase' = "buffer" /\ sock' = "open" /\ missed' = 1 .. emitted
  /\ \E s \in 1 .. Len(truth) : rest' = s
  /\ UNCHANGED <<exchangeVars, wire, buffered, book, seed, faults>>

\* The stream carries the batches sent from now on.
Connect ==
  /\ phase = "down"
  /\ phase' = "buffer" /\ sock' = "open" /\ missed' = 1 .. emitted
  /\ UNCHANGED <<exchangeVars, wire, rest, buffered, book, seed, faults>>

\* A frame wins the select! against the snapshot.
BufferFrame ==
  /\ phase = "buffer" /\ wire # <<>>
  /\ LET f == Head(wire) IN
       \/ f.kind = "bad" /\ EndSession
       \/ /\ f.kind # "bad"
          /\ buffered' = IF f.kind = "delta" THEN Append(buffered, f) ELSE buffered
          /\ wire' = Tail(wire)
          /\ UNCHANGED <<exchangeVars, sock, rest, phase, book, seed, missed>>
  /\ UNCHANGED faults

\* The lists of levels that spell out a side.
Listings(side) ==
  {ls \in LevelList : /\ SetLevels(EmptySide, ls) = side
                      /\ \A i \in DOMAIN ls : ls[i].qty # 0}

\* The snapshot wins the select!; it carries the best SnapshotLimit levels of
\* each side.
SnapshotArrives ==
  /\ phase = "buffer" /\ rest # 0
  /\ \E b \in Listings(KeepTopBids(truth[rest].bids, SnapshotLimit)),
        a \in Listings(KeepTopAsks(truth[rest].asks, SnapshotLimit)) :
       book' = ApplySnapshot(NewBook, b, a, rest)
  /\ phase' = "replay" /\ seed' = rest /\ rest' = 0
  /\ UNCHANGED <<exchangeVars, sock, wire, buffered, missed, faults>>

\* The request fails, or answers with an error status or a bad body.
SnapshotFails == phase = "buffer" /\ EndSession /\ Fault

\* Mutant: a gap in the replayed deltas is skipped over.
ApplyIgnoringGap(f) ==
  book' = IF DeltaOutcome(book, f.first, f.last) = "stale" THEN book
          ELSE WithDelta(book, f.bids, f.asks, f.last)

\* apply_delta on the session's book, when it returns Ok.
Apply(f) ==
  /\ DeltaOutcome(book, f.first, f.last) # "gap"
  /\ book' = IF DeltaOutcome(book, f.first, f.last) = "applied"
               THEN WithDelta(book, f.bids, f.asks, f.last)
               ELSE book

IsGap(f) == DeltaOutcome(book, f.first, f.last) = "gap"

\* Mutant: the buffered deltas are thrown away.
ReplayFrameDropped ==
  /\ phase = "replay" /\ buffered # <<>>
  /\ buffered' = Tail(buffered)
  /\ UNCHANGED <<exchangeVars, sock, wire, rest, phase, book, seed, missed, faults>>

\* One iteration of the replay loop.  The code runs the whole loop without
\* awaiting, on state only the driver sees, so a step per delta allows no
\* behaviour of the driver that the code does not have.
ReplayFrame ==
  /\ phase = "replay" /\ buffered # <<>>
  /\ LET f == Head(buffered) IN
       \/ IsGap(f) /\ EndSession
       \/ /\ Apply(f)
          /\ buffered' = Tail(buffered)
          /\ UNCHANGED <<exchangeVars, sock, wire, rest, phase, seed, missed>>
  /\ UNCHANGED faults

ReplayDone ==
  /\ phase = "replay" /\ buffered = <<>>
  /\ phase' = "stream"
  /\ UNCHANGED <<exchangeVars, sock, wire, rest, buffered, book, seed, missed, faults>>

\* One iteration of the consume loop.
StreamFrame ==
  /\ phase = "stream" /\ wire # <<>>
  /\ LET f == Head(wire) IN
       \/ f.kind \in {"bad", "close"} /\ EndSession
       \/ f.kind = "delta" /\ IsGap(f) /\ EndSession
       \/ /\ \/ f.kind = "delta" /\ Apply(f)
             \/ f.kind = "noise" /\ UNCHANGED book
          /\ wire' = Tail(wire)
          /\ UNCHANGED <<exchangeVars, sock, rest, phase, buffered, seed, missed>>
  /\ UNCHANGED faults

\* ws.next() returns None.
SocketEnds ==
  /\ phase \in {"buffer", "stream"} /\ sock = "closed" /\ wire = <<>>
  /\ EndSession
  /\ UNCHANGED faults

\* ws.next() or the pong returns an error.
SocketFails == phase \in {"buffer", "stream"} /\ EndSession /\ Fault

----------------------------------------------------------------------------
Environment ==
  \/ UpdateBook \/ EmitFrame \/ EmitUnheard \/ LoseFrame \/ SendOther
  \/ ServerClose \/ GoSilent \/ ServeSnapshot \/ ServeStale

Driver ==
  \/ Connect \/ BufferFrame \/ SnapshotArrives \/ SnapshotFails
  \/ ReplayFrame \/ ReplayDone \/ StreamFrame \/ SocketEnds \/ SocketFails

Next == Environment \/ Driver

Spec == Init /\ [][Next]_vars

\* The executor polls what is ready, the exchange keeps sending its batches
\* and the REST service answers.  Nothing makes a fault happen.
Fairness ==
  /\ WF_vars(EmitFrame) /\ WF_vars(EmitUnheard) /\ WF_vars(ServeSnapshot)
  /\ WF_vars(Connect) /\ WF_vars(BufferFrame) /\ WF_vars(SnapshotArrives)
  /\ WF_vars(ReplayFrame) /\ WF_vars(ReplayDone) /\ WF_vars(StreamFrame)
  /\ WF_vars(SocketEnds)

FairSpec == Spec /\ Fairness

----------------------------------------------------------------------------
(* Properties.                                                             *)

Seeded == phase \in {"replay", "stream"}

\* Nothing in the book is made up or out of date: every level is the
\* exchange's, at the update id the book claims to reflect.  (apply_snapshot,
\* apply_delta and the overlap of snapshot and deltas in
\* buffer_then_snapshot.)
NoPhantomLevels ==
  Seeded => \A s \in Sides : \A p \in Prices(book[s]) :
              book[s][p] = truth[book.lastUpdateId][s][p]

\* A price that had fewer than SnapshotLimit better levels when the snapshot
\* was taken is exact ever after, absent levels included: the deltas lose
\* nothing that the snapshot covered.
ExactWithinDepth ==
  Seeded => \A p \in Price :
    /\ InTopBids(truth[seed].bids, SnapshotLimit, p)
         => book.bids[p] = truth[book.lastUpdateId].bids[p]
    /\ InTopAsks(truth[seed].asks, SnapshotLimit, p)
         => book.asks[p] = truth[book.lastUpdateId].asks[p]

\* The replica is never crossed: the spread printed is positive (the assertion
\* of src/src/replay.rs on its recorded feeds).
BookUncrossed == Seeded => Uncrossed(book)

\* An update whose batch was not sent on this connection is reflected only if
\* the snapshot covered it: the book never steps over a hole.
MissedUpdateBlocksBook ==
  Seeded => \A k \in missed : k <= seed \/ book.lastUpdateId < k

\* As long as the environment has injected no fault, no session ends: opening
\* the stream before asking for the snapshot leaves no gap to resync from.
NoSpuriousResync ==
  [][phase # "down" /\ phase' = "down" => faults' < MaxFaults]_vars

\* A book that has a hole is dropped once a later delta has reached the
\* client ("drop book, reconnect, resync").
Hole == \E k \in missed : k > seed /\
          \E i \in DOMAIN wire : wire[i].kind = "delta" /\ wire[i].last > k
HoleLeadsToResync == (phase = "stream" /\ Hole) ~> phase = "down"

\* When faults stop, the feed ends in the consume loop with nothing unread,
\* and its book is up to date unless a batch was lost and nothing followed it.
Settles ==
  <>[](/\ phase = "stream" /\ wire = <<>>
       /\ (\A k \in missed : k <= seed) => book.lastUpdateId = Len(truth))

\* "Socket dropped ... Reconnect" (RUNBOOK.md section 6), read for a peer that
\* vanishes without closing: the session over a dead socket ends.
DeadSocketIsNoticed == (sock = "dead") ~> (sock = "none")

\* "maintains a correct in-memory order book": its best bid is the exchange's.
BestBidIsExchangeBest ==
  Seeded => \A p \in Price :
    IsBestBid(truth[book.lastUpdateId], p) => IsBestBid(book, p)

\* The promise of BookReplica: the view is the seeded book.  Updates are
\* numbered from 1.
NoView == [id |-> 0, bids |-> EmptySide, asks |-> EmptySide]
view   == IF Seeded THEN [id   |-> book.lastUpdateId,
                          bids |-> book.bids, asks |-> book.asks]
                    ELSE NoView

Replica == INSTANCE BookReplica WITH Depth <- SnapshotLimit, Kept <- Cardinality(Price)
ReplicaSpec == Replica!Spec
============================================================================
