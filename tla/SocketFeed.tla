----------------------------- MODULE SocketFeed -----------------------------
(***************************************************************************)
(* The driver of src/src/feed.rs on a feed that is seeded over the socket: *)
(* one connection, several symbols, one book per symbol, and an adapter    *)
(* that numbers the updates itself because the channel does not.  The      *)
(* parts that Coinbase and Kraken share are here; CoinbaseFeed and         *)
(* KrakenFeed add their adapters and compose the next-state relations.     *)
(* The exchange and the network are external.                              *)
(***************************************************************************)
EXTENDS OrderBook

CONSTANTS
  Symbol,        \* symbols on the connection
  LevelList,     \* lists of levels a message can carry
  InitialBooks,  \* books the exchange can start with
  Limit,         \* book_depth_limit; a limit no side can reach stands for None
  MaxUpdates,    \* bound: updates the exchange makes, by symbol
  MaxFaults      \* bound: faults the environment injects

ASSUME SymbolAssumption    == IsFiniteSet(Symbol)
ASSUME LevelListAssumption == LevelList \subseteq Seq(Level)
ASSUME InitialAssumption   ==
  InitialBooks \subseteq {b \in [bids : Side, asks : Side] : Uncrossed(b)}
ASSUME BoundAssumption ==
  /\ Limit \in Nat \ {0}
  /\ MaxUpdates \in [Symbol -> 1 .. IdMax]
  /\ MaxFaults \in Nat

VARIABLES
  (* exchange *)
  truth,    \* truth[s][i] is the exchange's book of s as of its update i
  emitted,  \* last update of each symbol that a message has covered
  sent,     \* what the exchange has sent on this connection to start a symbol
  (* connection *)
  sock,     \* "none", "open", "closed" by the server
  wire,     \* frames not yet read by the driver
  (* driver and adapter *)
  books,    \* the map of books; one that is not initialized is not in the map
  seq,      \* the adapter's counters, which outlive the session
  (* history *)
  at,       \* update of the last message read, by symbol
  missed,   \* updates whose message was lost and no snapshot read since covers
  faults    \* faults the environment may still inject

exchangeVars == <<truth, emitted>>
sessionVars  == <<sent, sock, wire, books>>
historyVars  == <<at, missed>>
vars == <<exchangeVars, sessionVars, seq, historyVars, faults>>

Sides        == {"bids", "asks"}
ExchangeBook == {b \in [bids : Side, asks : Side] : Uncrossed(b)}

Init ==
  /\ truth \in [Symbol -> {<<b>> : b \in InitialBooks}]
  /\ emitted = [s \in Symbol |-> 1] /\ sent = {}
  /\ sock = "none" /\ wire = <<>>
  /\ books = [s \in Symbol |-> NewBook]
  /\ seq = [s \in Symbol |-> 0]
  /\ at = [s \in Symbol |-> 0] /\ missed = [s \in Symbol |-> {}]
  /\ faults = MaxFaults

----------------------------------------------------------------------------
(* The exchange and the network.                                           *)

Fault == faults > 0 /\ faults' = faults - 1

Now(s) == Len(truth[s])

\* What a subscriber is shown of a side, and of the book after update i.
Shown(k, side) ==
  IF k = "bids" THEN KeepTopBids(side, Limit) ELSE KeepTopAsks(side, Limit)
View(s, i) == [k \in Sides |-> Shown(k, truth[s][i][k])]

\* One level changes; the exchange's book is never crossed.
UpdateBook(s) ==
  /\ Now(s) < MaxUpdates[s]
  /\ \E side \in Sides, l \in Level :
       LET old == truth[s][Now(s)]
           new == [old EXCEPT ![side] = SetLevel(old[side], l)]
       IN  /\ new # old
           /\ Uncrossed(new)
           /\ truth' = [truth EXCEPT ![s] = Append(@, new)]
  /\ UNCHANGED <<emitted, sessionVars, seq, historyVars, faults>>

\* The lists of levels that spell out a side.  (The outer braces here and in
\* Reports make TLC compute the sets once.)
Listings ==
  [side \in Side |->
     {l : l \in {ls \in LevelList : /\ SetLevels(EmptySide, ls) = side
                                  /\ \A i \in DOMAIN ls : ls[i].qty # 0}}]

\* The lists that tell a subscriber what became of a side: levels that entered
\* its view or changed there, and levels of its view that are gone.  A level
\* that was only pushed out of the view is not mentioned; a changed level
\* outside the view may be.
Reports ==
  [k \in Sides |-> [then \in Side |-> [now \in Side |->
     LET seen == Shown(k, then)
         seeing == Shown(k, now)
     IN {l : l \in {ls \in LevelList : \A p \in Price :
           /\ Mentions(ls, p) =>
                /\ Stored(ls[LastMention(ls, p)].qty) = now[p]
                /\ then[p] # now[p] \/ seen[p] # seeing[p]
           /\ seeing[p] # seen[p] /\ (seeing[p] # NoLevel \/ now[p] = NoLevel) =>
                Mentions(ls, p)}}]]]

\* What the exchange sends brings the subscriber of s up to date.
BringUpToDate(s) ==
  /\ sock = "open" /\ emitted' = [emitted EXCEPT ![s] = Now(s)]
  /\ UNCHANGED <<truth, sock, books, seq, historyVars>>

Snapshot(s) ==
  /\ BringUpToDate(s)
  /\ \E b \in Listings[View(s, Now(s)).bids], a \in Listings[View(s, Now(s)).asks] :
       wire' = Append(wire, [kind |-> "snapshot", symbol |-> s, bids |-> b,
                             asks |-> a, at |-> Now(s)])

\* The answer to the subscription, symbol by symbol.
SendSnapshot(s) ==
  /\ <<"snapshot", s>> \notin sent /\ sent' = sent \cup {<<"snapshot", s>>}
  /\ Snapshot(s)
  /\ UNCHANGED faults

\* A snapshot nobody asked for, on a book that is already seeded.
RepeatSnapshot(s) ==
  Fault /\ <<"snapshot", s>> \in sent /\ UNCHANGED sent /\ Snapshot(s)

\* An update, possibly before the snapshot of its symbol.
SendUpdate(s, checksum) ==
  /\ emitted[s] < Now(s) /\ BringUpToDate(s)
  /\ LET then == truth[s][emitted[s]]
         now  == truth[s][Now(s)]
     IN \E b \in Reports["bids"][then.bids][now.bids],
           a \in Reports["asks"][then.asks][now.asks] :
          wire' = Append(wire, [kind |-> "update", symbol |-> s, bids |-> b,
                                asks |-> a, at |-> Now(s), checksum |-> checksum])
  /\ UNCHANGED <<sent, faults>>

\* An update that does not reach the driver as one: lost on the way, or in a
\* shape the adapter does not recognise and ignores.
LoseUpdate(s) ==
  /\ Fault
  /\ sock = "open" /\ emitted[s] < Now(s)
  /\ missed' = [missed EXCEPT ![s] = @ \cup (emitted[s] + 1 .. Now(s))]
  /\ emitted' = [emitted EXCEPT ![s] = Now(s)]
  /\ UNCHANGED <<truth, sessionVars, seq, at>>

\* A frame that is ignored, or one with a level that does not parse.
SendOther(k) ==
  /\ Fault
  /\ sock = "open" /\ wire' = Append(wire, [kind |-> k])
  /\ UNCHANGED <<exchangeVars, sent, sock, books, seq, historyVars>>

\* The server goes away, with a close frame or without.
ServerClose ==
  /\ Fault
  /\ sock = "open" /\ sock' = "closed"
  /\ wire' \in {wire, Append(wire, [kind |-> "close"])}
  /\ UNCHANGED <<exchangeVars, sent, books, seq, historyVars>>

----------------------------------------------------------------------------
(* The driver.                                                             *)

\* run_once returns; its books are dropped, all of them.
EndSession ==
  /\ sock' = "none" /\ wire' = <<>> /\ sent' = {}
  /\ books' = [s \in Symbol |-> NewBook]
  /\ UNCHANGED exchangeVars

Connect ==
  /\ sock = "none" /\ sock' = "open"
  /\ UNCHANGED <<exchangeVars, sent, wire, books, seq, historyVars, faults>>

\* The driver takes the next frame and goes on.
Consume ==
  /\ wire' = Tail(wire)
  /\ UNCHANGED <<exchangeVars, sent, sock>>

\* Mutant: the counter goes on counting across a snapshot.
CountOn(s, reset) == seq' = [seq EXCEPT ![s] = Succ(@)]

\* Mutant: a snapshot leaves a counter that is already there as it is.
CountKept(s, reset) == seq' = [seq EXCEPT ![s] = IF reset THEN @ ELSE Succ(@)]

\* next_seq, the same in both adapters.
Count(s, reset) == seq' = [seq EXCEPT ![s] = IF reset THEN 0 ELSE Succ(@)]

\* A snapshot replaces the book of its symbol.
ReadSnapshot(f) ==
  /\ f.kind = "snapshot"
  /\ Count(f.symbol, TRUE)
  /\ books' = [books EXCEPT
       ![f.symbol] = RetainTop(ApplySnapshot(@, f.bids, f.asks, 0), Limit)]
  /\ at' = [at EXCEPT ![f.symbol] = f.at]
  /\ missed' = [missed EXCEPT ![f.symbol] = @ \ (1 .. f.at)]
  /\ Consume
  /\ UNCHANGED faults

\* What apply_event makes of an update that carries the next number.
Outcome(f) ==
  LET book == books[f.symbol]
      n    == Succ(seq[f.symbol])
  IN IF book.initialized THEN DeltaOutcome(book, n, n) ELSE "not seeded"

\* Mutant: a depth-limited book is not cut after an update.
UpdatedUncut(f) ==
  WithDelta(books[f.symbol], f.bids, f.asks, Succ(seq[f.symbol]))

\* The book after an update, which the checksum is computed from.
Updated(f) ==
  RetainTop(WithDelta(books[f.symbol], f.bids, f.asks, Succ(seq[f.symbol])),
            Limit)

\* An update, with the answer of verify_checksum for the updated book.
ReadUpdate(f, verified) ==
  /\ f.kind = "update"
  /\ Count(f.symbol, FALSE)
  /\ at' = [at EXCEPT ![f.symbol] = f.at]
  /\ \/ /\ Outcome(f) = "gap" \/ (Outcome(f) = "applied" /\ ~verified)
        /\ EndSession
     \/ /\ Outcome(f) = "applied" /\ verified
        /\ books' = [books EXCEPT ![f.symbol] = Updated(f)]
        /\ Consume
     \/ /\ Outcome(f) \in {"stale", "not seeded"}
        /\ Consume /\ UNCHANGED books
  /\ UNCHANGED <<missed, faults>>

ReadNoise(f) ==
  f.kind = "noise" /\ Consume /\ UNCHANGED <<books, seq, historyVars, faults>>

ReadClose(f) ==
  f.kind = "close" /\ EndSession /\ UNCHANGED <<seq, historyVars, faults>>

\* ws.next() returns None ...
SocketEnds ==
  /\ sock = "closed" /\ wire = <<>>
  /\ EndSession
  /\ UNCHANGED <<seq, historyVars, faults>>

\* ... or an error.
SocketFails ==
  Fault /\ sock # "none" /\ EndSession /\ UNCHANGED <<seq, historyVars>>

----------------------------------------------------------------------------
(* Properties of both feeds.                                               *)

Seeded(s) == books[s].initialized

\* The book of s is what the exchange shows of s at the last message read.
Matches(s) == \A side \in Sides : books[s][side] = View(s, at[s])[side]

\* No update is missing between the snapshot of s and the last message read.
Unbroken(s) == missed[s] \cap (1 .. at[s]) = {}

\* A book that has missed nothing is exactly what the exchange shows: with a
\* depth, although the exchange does not mention levels that leave it
\* (retain_top in apply_event).
ExactWithoutLoss == \A s \in Symbol : Seeded(s) /\ Unbroken(s) => Matches(s)

\* Each symbol implements BookReplica for as long as no update was lost since
\* its snapshot: no message of another symbol, earlier session or repeated
\* snapshot moves its view anywhere but forward along its own history.
NoView     == [id |-> 0, bids |-> EmptySide, asks |-> EmptySide]
replica(s) == IF Seeded(s) /\ Unbroken(s)
                THEN [id |-> at[s], bids |-> books[s].bids, asks |-> books[s].asks]
                ELSE NoView

Replica(s) == INSTANCE BookReplica WITH
                truth <- truth[s], view <- replica(s), Depth <- Limit, Kept <- Limit
ReplicaSpec == /\ \A s \in Symbol : Replica(s)!Init
               /\ [][\A s \in Symbol : [Replica(s)!Next]_(Replica(s)!vars)]_vars

\* The adapter's counter, which outlives sessions and is advanced by updates
\* the driver ignores, agrees with the book whenever there is one, so that
\* "coinbase synthetic sequence must not gap" (src/src/replay.rs:156).
CounterMatchesBook == \A s \in Symbol : Seeded(s) => seq[s] = books[s].lastUpdateId

\* A counter that outlives sessions never runs ahead of the exchange's updates,
\* so that counting one more never overflows (next_seq).
NextNumberFits ==
  wire # <<>> /\ Head(wire).kind = "update" => seq[Head(wire).symbol] < IdMax

\* What ends a session from outside: a frame on this connection that does not
\* parse or closes it, its end, or an error at this moment.
SessionEnds    == sock # "none" /\ sock' = "none"
ConnectionLost ==
  \/ wire # <<>> /\ Head(wire).kind \in {"bad", "close"}
  \/ wire = <<>> /\ sock = "closed"
  \/ faults' < faults

\* When faults stop, every symbol is seeded again, whichever symbol brought
\* the connection down; its last update has been read unless that one was
\* lost, and its book is up to date unless it misses an update.
Settles ==
  <>[](/\ sock = "open" /\ wire = <<>>
       /\ \A s \in Symbol : /\ Seeded(s)
                            /\ Now(s) \notin missed[s] => at[s] = Now(s)
                            /\ missed[s] = {} => Matches(s))
============================================================================
