----------------------------- MODULE KrakenFeed -----------------------------
(***************************************************************************)
(* The Kraken feed (src/src/exchanges/kraken.rs): a book of fixed depth    *)
(* for every symbol, whose updates carry a checksum of the exchange's best *)
(* levels.  The checksum depends on the precision of the symbol, which the *)
(* adapter learns from a channel of its own and keeps across sessions.     *)
(***************************************************************************)
EXTENDS SocketFeed

CONSTANTS
  Precision,   \* decimals of price and quantity a symbol can be listed with
  NotLearned   \* the adapter has no precision for a symbol

ASSUME PrecisionAssumption ==
  /\ Precision \subseteq [price : Nat, qty : Nat]
  /\ NotLearned \notin Precision

VARIABLES
  precision,   \* the adapter's table, which outlives the session
  listed       \* external: the precision each symbol is listed with

precisionVars == <<precision, listed>>
krakenVars    == <<vars, precisionVars>>

KInit ==
  /\ Init
  /\ precision = [s \in Symbol |-> NotLearned]
  /\ listed \in [Symbol -> Precision]

----------------------------------------------------------------------------
(* The checksum.                                                           *)

\* kraken_token: the value written with a number of decimals, without the
\* point and without leading zeros, which is a whole number.
Token(value, decimals) == value * 10 ^ decimals

Tokens(levels, prec) ==
  [i \in DOMAIN levels |-> <<Token(levels[i][1], prec.price),
                             Token(levels[i][2], prec.qty)>>]

\* The text the CRC32 is taken of: asks upwards, then bids downwards.  Equal
\* checksums are taken to mean equal tokens: collisions are left out, those
\* of the CRC and those of a text whose tokens can be divided in two ways.
ChecksumOf(book, prec) ==
  <<Tokens(TopAsks(book, Limit), prec), Tokens(TopBids(book, Limit), prec)>>

\* Whether the tokens of a level tell it apart from every other level, also
\* when it is written with another precision.  The program does not see to it
\* (10 with no decimals and 1.0 with one are the same token).
TokensTellApart ==
  \A l, m \in Price \X Qty, p, q \in Precision :
    /\ Token(l[1], p.price) = Token(m[1], q.price)
    /\ Token(l[2], p.qty) = Token(m[2], q.qty)
    => l = m

\* Mutant: a checksum is accepted unseen.
VerifyNothing(s, book, checksum) == TRUE

\* verify_checksum: without a precision there is nothing to compare with.
VerifyChecksum(s, book, checksum) ==
  \/ precision[s] = NotLearned
  \/ ChecksumOf(book, precision[s]) = checksum

\* The checksums that the exchange can send with an update.
Checksums ==
  {ChecksumOf(b, p) : b \in [bids : Side, asks : Side], p \in Precision}

Frame ==
  [kind : {"snapshot"}, symbol : Symbol, bids : LevelList, asks : LevelList,
   at : Nat] \cup
  [kind : {"update"}, symbol : Symbol, bids : LevelList, asks : LevelList,
   at : Nat, checksum : Checksums] \cup
  [kind : {"instrument"}, symbol : Symbol, precision : Precision] \cup
  [kind : {"noise", "bad", "close"}]

TypeOK ==
  /\ truth \in [Symbol -> Seq(ExchangeBook)]
  /\ emitted \in [Symbol -> Nat]
  /\ \A s \in Symbol : emitted[s] \in 1 .. Now(s) /\ Now(s) <= MaxUpdates[s]
  /\ sent \subseteq {"snapshot", "instrument"} \X Symbol
  /\ sock \in {"none", "open", "closed"}
  /\ wire \in Seq(Frame)
  /\ books \in [Symbol -> Book]
  /\ seq \in [Symbol -> Id]
  /\ at \in [Symbol -> Nat] /\ missed \in [Symbol -> SUBSET Nat]
  /\ faults \in 0 .. MaxFaults
  /\ precision \in [Symbol -> Precision \cup {NotLearned}]
  /\ listed \in [Symbol -> Precision]

----------------------------------------------------------------------------
(* The exchange.                                                           *)

\* The precision of s is sent once per connection and after each change, in no
\* fixed order with the messages of the book channel.
SendInstrument(s) ==
  /\ sock = "open"
  /\ <<"instrument", s>> \notin sent /\ sent' = sent \cup {<<"instrument", s>>}
  /\ wire' = Append(wire, [kind |-> "instrument", symbol |-> s,
                           precision |-> listed[s]])
  /\ UNCHANGED <<exchangeVars, sock, books, seq, historyVars, faults, precisionVars>>

\* The exchange lists s with another precision.
ChangePrecision(s) ==
  /\ Fault
  /\ \E p \in Precision \ {listed[s]} : listed' = [listed EXCEPT ![s] = p]
  /\ sent' = sent \ {<<"instrument", s>>}
  /\ UNCHANGED <<exchangeVars, sock, wire, books, seq, historyVars, precision>>

SendKrakenUpdate(s) ==
  SendUpdate(s, ChecksumOf(truth[s][Now(s)], listed[s]))

----------------------------------------------------------------------------
(* The adapter and the driver.                                             *)

\* parse_message fills the table and hands nothing to the driver.
ReadInstrument(f) ==
  /\ f.kind = "instrument"
  /\ precision' = [precision EXCEPT ![f.symbol] = f.precision]
  /\ Consume
  /\ UNCHANGED <<books, seq, historyVars, faults>>

\* Levels are parsed before the counter moves.
ReadBad(f) ==
  f.kind = "bad" /\ EndSession /\ UNCHANGED <<seq, historyVars, faults>>

ReadKrakenUpdate(f) ==
  /\ f.kind = "update"
  /\ ReadUpdate(f, VerifyChecksum(f.symbol, Updated(f), f.checksum))

\* One iteration of the consume loop.
Read ==
  /\ wire # <<>>
  /\ LET f == Head(wire) IN
       \/ ReadInstrument(f)
       \/ /\ ReadSnapshot(f) \/ ReadKrakenUpdate(f)
             \/ ReadNoise(f) \/ ReadBad(f) \/ ReadClose(f)
          /\ UNCHANGED precision
  /\ UNCHANGED listed

Environment ==
  \/ \E s \in Symbol : SendInstrument(s) \/ ChangePrecision(s)
  \/ /\ \/ \E s \in Symbol :
             \/ UpdateBook(s) \/ SendSnapshot(s) \/ RepeatSnapshot(s)
             \/ SendKrakenUpdate(s) \/ LoseUpdate(s)
        \/ \E k \in {"noise", "bad"} : SendOther(k)
        \/ ServerClose
     /\ UNCHANGED precisionVars

Driver ==
  \/ Read
  \/ (Connect \/ SocketEnds \/ SocketFails) /\ UNCHANGED precisionVars

KNext == Environment \/ Driver

KSpec == KInit /\ [][KNext]_krakenVars

\* The exchange goes on answering subscriptions and sending its updates, and
\* the executor polls what is ready.  Nothing makes a fault happen.
Fairness ==
  /\ WF_krakenVars(\E s \in Symbol :
       \/ SendInstrument(s)
       \/ ((SendSnapshot(s) \/ SendKrakenUpdate(s)) /\ UNCHANGED precisionVars))
  /\ WF_krakenVars(Read \/ ((Connect \/ SocketEnds) /\ UNCHANGED precisionVars))

KFairSpec == KSpec /\ Fairness

----------------------------------------------------------------------------
(* Properties.                                                             *)

Reads(s) == at'[s] # at[s] /\ Seeded(s)'

\* Once the precision of a symbol is known no update leaves its book wrong: it
\* is the exchange's best levels after the update, whatever was lost before,
\* or it is dropped.
VerifiedIsExchangeTop ==
  [][\A s \in Symbol : Reads(s) /\ precision[s] # NotLearned => Matches(s)']_krakenVars

\* The update read next comes to a book that has missed one, or carries a
\* checksum that the exchange has not taken with the precision in the table.
ChecksumMayFail ==
  /\ wire # <<>> /\ Head(wire).kind = "update"
  /\ LET f == Head(wire)  s == f.symbol IN
       \/ \E k \in missed[s] : k <= f.at
       \/ /\ precision[s] # NotLearned
          /\ f.checksum # ChecksumOf(truth[s][f.at], precision[s])

\* No session ends before the first fault, and none ever ends without a cause
\* of its own: its connection, an update it has missed, or an outdated
\* precision.  Counters and precisions left by earlier sessions never look
\* like a gap, and a book that has missed nothing fails the checksum only with
\* a precision that is no longer the exchange's (next_seq, verify_checksum).
NoSpuriousResync ==
  [][SessionEnds => /\ faults' < MaxFaults
                    /\ ConnectionLost \/ ChecksumMayFail]_krakenVars
============================================================================
