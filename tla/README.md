# Verification of orderbook-feed

TLA+ models of the live order-book client in `src/`, the TLC configurations that
check them on small instances, and TLAPS proofs that hold for every instance.
Tick marks name definitions of the modules or items of the code.

## 1. The system

The program is one async task. `run` (feed.rs) loops for ever: one session
(`run_once`), then a sleep with capped exponential backoff. A session opens a
websocket, seeds one `OrderBook` per symbol, applies the deltas it reads and
ends with an error on any gap, checksum mismatch or socket failure; everything
the session owned (books, metrics) is dropped with it. What differs between
exchanges is behind the `Exchange` trait.

| Component | State | Operations | Hard parts | Correct when |
|---|---|---|---|---|
| Order book (orderbook.rs) | two price maps, `last_update_id`, `initialized` | `apply_snapshot`, `apply_delta`, `retain_top`, queries | overlapping and stale ranges, gap test at the greatest id, repeated prices | accepts exactly the contiguous deltas, the last mention of a price wins, truncation keeps the best levels |
| Driver, REST-seeded (feed.rs) | phase of `run_once`, socket, buffered deltas, the book | connect, buffer, snapshot, replay, consume, end | `select!` between snapshot and frames, old or truncated snapshots, lost batches, close during buffering, half-open sockets | the book is always a cut of one state of the exchange, never crosses a hole, and recovers by itself |
| Driver, socket-seeded (feed.rs) | one book and one `Metrics` per symbol | route an event, truncate, count, verify, print | symbols seeded one by one, one failure drops all | each symbol's book is independent of the others until the session ends |
| Reconnect loop (feed.rs `run`) | `backoff`, `started` | end of session, sleep, double | what counts as healthy | delays double to the cap, reset only when deserved |
| Binance adapter | none | parse a depth event, fetch the snapshot | snapshot depth of 1000 | - |
| Coinbase adapter | counter per symbol, outlives sessions | parse, next number | counter and book must agree whenever a book is seeded | the synthetic sequence never gaps |
| Kraken adapter | counter and precision per symbol, outlive sessions | parse, truncate, verify | depth-10 book that is told of no removals, precision not yet known | a book that passed the check equals the exchange's top 10 |
| CRC32, timestamps | none | pure functions | boundaries, malformed input | equal their reference definitions |
| Metrics | window and total counters, print clock | record, maybe_print | counters across windows and sessions | every line reports exactly what was applied since the line before it, a total what the session applied and verified (section 4, item 4: not what the runbook says) |

Interaction: adapters hand `BookEvent`s to the driver by return value; the only
concurrency inside the program is the `select!` of `buffer_then_snapshot`
between the REST future and the socket. Outside it, the exchange, its stream and
its REST service run concurrently with the client. Nothing is persisted, so
there is no crash recovery to model: a restart of the process is a new first
session.

The hazards this gives rise to, with their lines and the properties aimed at
them, are listed in `PROJECT.json`.

## 2. Modules

| Module | Models |
|---|---|
| `OrderBook` | the book as a value and its operations as operators; no variables |
| `OrderBookAPI`, `MCOrderBookAPI` | arbitrary calls on a book, next to the code's loops |
| `BookReplica` | abstract specification: what any feed promises about its book |
| `BinanceFeed`, `MCBinanceFeed` | driver + Binance adapter + external exchange, network and REST |
| `SocketFeed` | driver on a connection with several symbols, seeded over the socket; external exchange and network |
| `CoinbaseFeed`, `MCCoinbaseFeed` | `SocketFeed` + Coinbase adapter |
| `KrakenFeed`, `MCKrakenFeed` | `SocketFeed` + Kraken adapter, precision table and checksum |
| `Reconnect`, `MCReconnect` | the loop of `run` |
| `Metrics`, `MCMetrics` | counters and status lines of a symbol through sessions |
| `Checksum` | `crc32` against the polynomial definition |
| `Rfc3339` | `rfc3339_to_epoch_ms` against a calendar |
| `MCUtility` | an instance of `Checksum` and `Rfc3339`, which share nothing |
| `OrderBookProofs`, `SocketFeedProofs` | lemmas that the other proofs share (section 5) |
| `OrderBookAPIProofs`, `BinanceFeedProofs`, `CoinbaseFeedProofs`, `KrakenFeedProofs`, `MetricsProofs`, `UtilityProofs` | theorems (section 5); `UtilityProofs` is about `Reconnect`, `Rfc3339` and `Checksum` |

`OrderBook` is extended by all feeds. `CoinbaseFeed` and `KrakenFeed` compose the
actions of `SocketFeed` with their adapter's. All three feeds implement
`BookReplica`, the last two once for each symbol.

### OrderBook

Prices are integers (ranks of the decimals: only their order matters) and a side
is a total function from prices with `NoLevel` for "no entry". `DeltaOutcome` has
the early returns of `apply_delta` in their order, `Succ` is the wrapping u64
increment, `SetLevels` is what the loop of `set_level` leaves. It says so in one
step (each price holds its last mention), so that it can be reasoned about
without recursion.

### OrderBookAPI

One action per public operation. Two books receive the same calls: `book` through
the operators above, `loop` through the code's statements (`FoldLeft` of
`set_level`, the `while` loops of `retain_top`, written as a recursive function).
`LoopsAgree` says they never differ, which is what entitles the other modules to
use the operators; section 5 proves it for every list and depth.
`AcceptedIffContiguous` compares the outcome with the comment of `apply_delta`
in unbounded integers; ids reach `IdMax`, so it also shows that the increment
never overflows: the stale test comes first. (Swapping the two tests breaks it.)

### BinanceFeed

| Model | Code |
|---|---|
| `phase` down, buffer, replay, stream | sleeping or connecting; the `select!` loop; the replay loop; the consume loop |
| `wire`, `sock` | frames the driver has not read; state of the connection |
| `rest` | the REST answer on its way |
| `buffered`, `book` | the locals of the same names |
| `truth`, `emitted` | external: the exchange's book after each update id; the last id its stream has sent |
| `seed`, `missed`, `faults` | history: the snapshot's id; ids whose batch was not sent on this connection; remaining fault budget |

The external exchange changes one level at a time and never crosses its own book.
Its stream sends batches `U = emitted + 1 .. u`, naming exactly the prices
touched, with final quantities. Batches go out whether or not anybody listens, so
a new connection begins at an arbitrary id. REST answers carry the best
`SnapshotLimit` levels of the current or, as a fault, of an earlier book. Other
faults: a batch lost, a frame to be ignored (any text that is not a depth event,
pings) or one whose levels do not parse, the server closing with or without a
close frame, a socket error, a failed REST request, and a peer that silently
disappears (`HalfOpen`). `SocketEnds` is the end of the stream in either loop: the
error of `buffer_then_snapshot` and the end of the `while let` of `run_once`.

Driver actions are whole steps between awaits, with one exception: the replay
loop is one step per delta. The code runs it without awaiting and on state no one
else sees, so the finer grain only adds stops between steps; in return the
invariants hold at each of them. `EndSession` is the return of `run_once` from
anywhere.

Update ids are numbered from 1 and the exchange has published id 1 before the
client starts. The backoff sleep is not part of this module: `Connect` may happen
at any time after a session, so the results hold for every delay.

### BookReplica

`view` is nothing, or an id with two sides. `Install` takes the best `Depth`
levels of one entry of the history, `Advance` moves to a strictly later entry, to
levels that entry really has, and `Discard` drops the view. Moving, a view must
keep up (`KeepsUp`): of the best `Kept` levels of the entry it has every one that
it knew before, and every one that changed since the entry it comes from. So a
view may lack a level only if its snapshot was too short for it (and then only
until the level changes), and may forget one only while others are better.

| Feed | View | `Depth` | `Kept` |
|---|---|---|---|
| `BinanceFeed` | the seeded book | `SnapshotLimit` | all prices: no truncation |
| `CoinbaseFeed` | each symbol's book, if it has missed nothing | all prices | all prices |
| `KrakenFeed` | the same | the depth | the depth, to which `retain_top` cuts the book |

### SocketFeed

| Model | Code |
|---|---|
| `sock`, `wire` | state of the connection; frames the driver has not read |
| `books` | the map `books` of `run_once`; a book that is not initialized is not in the map |
| `seq` | the adapter's map of counters, which outlives sessions |
| `truth`, `emitted`, `sent` | external: the exchange's book of each symbol after each of its updates; the last update a message has covered; snapshots (and instrument messages) sent on this connection |
| `at`, `missed`, `faults` | history: the update of the last message read; updates lost and not covered by a later snapshot; remaining fault budget |

The driver reads one frame at a time, so a frame is one step: `parse_message` with
its counter, `apply_event` with `retain_top` and `verify_checksum`, or one of the
early returns. `Count` is `next_seq`, which is the same in both adapters
(coinbase.rs:43-53, kraken.rs:53-63). `ReadUpdate` has the outcomes of
`apply_event`: applied, stale, a symbol without a book (ignored, but counted by
the adapter), gap, wrong checksum. `EndSession` drops the books of all symbols
and leaves `seq` alone. The numbers a message carries for the model's own use
(`at`) are read by no guard of the driver.

The exchange sends a snapshot of each symbol after the subscription, in any order
and with updates of any symbol before, between and after. What an update may list
is `Reports`: what a subscriber of that depth must be told, and changes outside
the depth if the exchange cares to send them. Faults: a lost message (which also
stands for one in a shape the adapter does not recognise, and for a further
element of Kraken's `data`), a repeated snapshot, noise, a frame whose levels do
not parse, a close with or without a close frame, a socket error.

### CoinbaseFeed, KrakenFeed

Coinbase has no depth limit (`Limit` not below the number of prices), and its
`ReadBad` may have reset a counter: a snapshot's reset precedes the parsing of its
levels, an update's count follows it.

Kraken truncates to `Limit` after every message and keeps `precision`. The
exchange lists a symbol with a precision that may change; the instrument message
comes at any time. `Token` is `kraken_token` as a number, for values that are whole
numbers; the rounding of a value with more decimals than the precision is left
out. `ChecksumOf` is the list of these tokens: equal checksums are taken to mean
equal tokens.

A session may end from outside (`ConnectionLost`) or, on Kraken, with an update
whose checksum cannot be right (`ChecksumMayFail`): the book has missed one, or the
adapter's precision is not the one the exchange took the checksum with.
`NoSpuriousResync` says of every end of a session, those after a fault included,
that it has such a cause at that step. What it excludes is the gap: a counter left
by an earlier session, or advanced by updates that the driver ignored, that does
not fit the book.

### Reconnect

Ticks of 500 ms; `elapsed` counts from `started` (before `connect_async`),
`upFor` from the established connection.

### Metrics

`metrics` is the entry of the symbol in the map of `run_once` (`None` before its
first delta); `log` is the history of session starts, replayed deltas, applied
deltas and printed lines. Only an event can print. A wrong checksum ends the
session after the delta was counted: the counters go with it. A total is
therefore one of its session (`TotalsAreVerified`), and `TotalsSinceStart`, the
total of the runbook, does not hold.

### Checksum, Rfc3339

Words are functions from 32 bit positions, so nothing overflows TLC's integers.
`RemainderOf` divides polynomials as IEEE 802.3 defines the checksum; the unit
test's vector is an assumption that TLC evaluates. `Rfc3339` walks a calendar day
by day, stamps texts and compares `Parse` with the instant; other texts (fields
that do not parse, out of range, or days that do not exist) arrive as well.
Instants are pairs of day and millisecond. The specifications of the two are
named `CrcSpec`, `ClockSpec` and so on, so that one module can extend both and
`Reconnect`.

## 3. Runs

| Run | Instance | Shows |
|---|---|---|
| `orderbook_api` | 3 prices, 2 quantities, ids 0..2, 7 lists with removals and repeated prices, truncation to 0..2 | operators equal the loops; exact acceptance; truncation keeps the best |
| `binance_safety` | 3 prices, 1 quantity, limit 1, 3 updates after the initial book, 1 fault of any kind | cut, exactness, uncrossed, no hole crossed, no resync before the first fault, implements `BookReplica` |
| `binance_liveness` | 2 prices, 2 updates, 2 faults, no half-open sockets | a detectable hole leads to a resync; the feed settles |
| `binance_best_bid` (violation) | as safety, no faults | a truncated snapshot hides the best bid |
| `binance_dead_socket` (violation) | as liveness, half-open sockets | a vanished peer is never noticed |
| `coinbase` | 2 symbols with 2 and 1 updates after the initial book, 2 prices, 1 fault of any kind | counters agree with books and do not overflow, damage of a loss is confined, every session ends for a cause of its own, each symbol implements `BookReplica`, the feed settles |
| `kraken` | 1 symbol, 3 prices, depth 1, 2 updates, 2 precisions, 1 fault of any kind | truncation is exact, a verified update leaves the exchange's top, every session ends for a cause of its own, the book implements `BookReplica`, the feed settles |
| `metrics` | a line every 2 ticks, 5 ticks, 5 events, offsets -1, 1 and 4 | totals and windows, pace across reconnects |
| `metrics_total` (violation) | same | a total leaves out the deltas of earlier sessions |
| `utility` | 12 walks of 800 days around leap years, full centuries and 1970; 5 times of the day; 19 other texts; two texts of up to 5 bytes over 2 digits | a stamp is read as its instant; `crc32` is the remainder; changes within 4 bytes are noticed |
| `reconnect` | the program's figures: 1, 60 and 20 ticks; sessions up to 22 | doubling, cap, reset |
| `reconnect_reset` (violation) | same | slow failures reset the backoff |

Why the bounds are enough. Three updates allow a snapshot that falls before,
inside and after a batch of two, with a batch lost before or after it. Three
prices with limit 1 give both a cut-off bid level and a side that the market can
move through. One fault suffices for safety, since ending a session resets
everything but the exchange; two in the liveness run let a second session fail
too. Deadlock is not checked in the `BinanceFeed` runs: when the exchange has
made its last update and everything is read, the system rightly stops.

In the socket-seeded runs the second symbol of `coinbase` is what a failure of
the first can disturb, and one fault allows every kind of loss before, between and
after the two snapshots, or a second session that finds the counters of the
first. Depth 1 of three prices lets a Kraken level leave the
depth, be removed or changed there, and return. The proofs of section 5 lift the
bounds of every safety property. For `metrics` five ticks hold two windows and a session
boundary, or two sessions with a line each; for the checksum a register of 32 bits
has been pushed out entirely after four bytes, and the loop body is the same for
each byte; for the timestamps the calendar repeats after 400 years, and the walks cover
each kind of year, the turn of each kind of century and of an era of
`days_from_civil`. Deadlock is not checked in these runs either: they stop when
the exchange, the clock, the texts or the calendar are at their bound.

Fairness of the socket-seeded feeds: one weak fairness condition for the exchange,
which goes on answering subscriptions and sending its updates, and one for the
driver (`Connect`, `Read`, `SocketEnds`), which is one task that the executor polls
whenever it is ready. Faults and updates are never fair.

Fairness of `BinanceFeed` (`FairSpec`): weak fairness of each driver step (the executor polls what
is ready, and a ready `select!` branch is eventually taken), of the stream
sending its batches and of the REST service answering. Faults, updates and
closing are never fair. `Settles` is conditional where the code is: a batch lost
with nothing after it leaves the book behind, so only holes covered by the
snapshot count as caught up. In the socket-seeded feeds it asks that every symbol
is seeded and, unless its last update was lost, has read it; that the book is the
exchange's is asked only of a symbol that misses nothing. What a loss leaves
behind there is the matter of `DamageConfined` and `VerifiedIsExchangeTop`.

## 4. Divergences from the documentation

Four runs end in a counterexample to a statement of the documentation; the
quotes are in `PROJECT.json`, `findings`.

1. Best bid/ask is the best of the levels the client has heard of. Levels beyond
   the 1000 of the snapshot are unknown until they change.
2. There is no read timeout: a half-open connection is awaited for ever.
3. The time a connection attempt takes counts as healthy time, so a blackholed
   connection (more than 10 s to fail) is retried every 0.5 s for ever instead of
   backing off to 30 s.
4. `total` does not count the deltas applied since the process started
   (RUNBOOK.md:69): the counters are created anew in each session (feed.rs:106).
   Deltas replayed from the buffer are in no total at all; the property does not
   even ask for them.

Two more disagreements were met while modelling. They show in the definitions
and have no run of their own:

5. README.md:88-91 and RUNBOOK.md:162 say that the Kraken checksum is verified
   after every update. Until the instrument message of a symbol has been read
   there is no precision and `verify_checksum` accepts (kraken.rs:245), hence the
   condition in `VerifiedIsExchangeTop`.
6. The comment at exchanges/mod.rs:30 says that malformed input yields `None`. The
   fields are checked for ranges only: February 31 is read as March 3, and a
   negative hour is accepted.

## 5. Proofs

### The Binance feed

`BinanceFeedProofs` proves, for all constants that satisfy the named assumptions
of `OrderBook` and `BinanceFeed` (finite price set, `0` and `NoLevel` are not
quantities, message lists are sequences of levels, the exchange starts uncrossed
and makes at most `IdMax` updates):

| Theorem | States |
|---|---|
| `TypeCorrect` | `Spec => []TypeOK` |
| `NoPhantoms` | `Spec => []NoPhantomLevels` |
| `Exactness` | `Spec => []ExactWithinDepth` |
| `NoHoleCrossed` | `Spec => []MissedUpdateBlocksBook` |
| `NeverCrossed` | `Spec => []BookUncrossed` |
| `OnlyFaultsEndSessions` | `Spec => NoSpuriousResync` |
| `ImplementsReplica` | `Spec => ReplicaSpec` |

All follow from `Invariant`, `Spec => []Inv`. The safety properties are not
inductive alone, because the book's future depends on the frames on their way.
`Inv` adds: every queued batch lies within the history, says truthfully what its
range did to each side (`Carries`), and contains no missed id (`BatchOK`); a
session that is down has empty queues; missed ids have been emitted; a book past
its snapshot has only ids that were emitted (`BookOK`, without which a batch lost
later could be one already applied).

The argument for a delta is `AppliedMoves`: if `apply_delta` accepts `first ..
last` on a book at `lid`, then `first - 1 <= lid < last`; a price the batch
mentions gets its value at `last`, and one it does not mention was not touched in
the whole range, so its value at `lid` is its value at `last`
(`UnmentionedUnchanged`). That is also where overlap with the snapshot is shown
harmless. `BookUncrossed` follows because a cut of an uncrossed book is
uncrossed. The refinement reuses the same lemma for `Advance`: a price that keeps its
value in the book kept it at the exchange, so whatever changed has been learned.

`NoSpuriousResync` of this feed says that a session cannot end before the first fault
(after a lost batch it has to). Its invariant `Calm` is about that time only: the
socket is open and carries nothing but deltas; the queued batches are contiguous
(`Contiguous`: each ends where the next begins, the last of `buffered` where the
first of `wire` begins, the last of `wire` at what the exchange has not sent yet);
and the snapshot on its way, or the book, reaches up to the first batch at least. The
last conjunct is where the order of the code counts, which subscribes before it asks
for the snapshot: whatever the snapshot lacks has been buffered, however the answer
and the stream interleave.

### The order book

`OrderBookAPIProofs` proves the four properties of the `orderbook_api` run for
every set of prices, every list of levels (repeated prices included) and every
depth:

| Theorem | States |
|---|---|
| `TypeCorrect` | `Spec => []TypeOK` |
| `OperatorsAreLoops` | `Spec => []LoopsAgree` |
| `AcceptanceIsExact` | `Spec => AcceptedIffContiguous` |
| `TruncationIsHarmless` | `Spec => TruncationKeepsBest` |

The loops are recursive functions, and induction over them is done without the
library's induction theorem: a closed form of the loop is stated for each number
of turns, and if it failed it would fail first at a least number (`HasMin`), one
turn after it held. For `set_level` the closed form is "what the list up to here
mentions last" (`AfterAll`, `SetLevelsLoop`); for `retain_top` one turn removes
the worst level, and the `n` best of what is left are the `n` best (`WorstCut`,
`RetainLoop`). That a loop defines a function at all (`LoopExists`, `CutExists`)
and only one (`LoopUnique`, `CutUnique`) is proved the same way.

`OrderBookProofs` holds the facts about depth that this and the Kraken proofs
need: ranks of prices (`Ranked`, `BestFirst`), that the best level survives, that
a cut of a cut is a cut (`CutTwice`), that what lies within the depth depends on
nothing beyond it (`SameTop`), and what `top_bids` and `top_asks` list (`Tops`).

### The Coinbase feed

`CoinbaseFeedProofs` proves, for every set of symbols, prices, lists and bounds
that satisfies the assumptions of `OrderBook`, `SocketFeed` and `CoinbaseFeed`:

| Theorem | States |
|---|---|
| `TypeCorrect` | `Spec => []TypeOK` |
| `NumbersFit` | `Spec => []NextNumberFits`: an update is never counted beyond the greatest number |
| `CountersMatch` | `Spec => []CounterMatchesBook` |
| `DamageIsConfined` | `Spec => []DamageConfined` |
| `OnlyFaultsEndSessions` | `Spec => NoSpuriousResync` |
| `ImplementsReplica` | `Spec => ReplicaSpec` |

Again all follow from `Spec => []Inv`. What makes it inductive does not depend on
the adapter: it is `Base`, which `SocketFeedProofs` shows to be kept by the
operations of `SocketFeed` and which both feeds share. Its conjuncts:

- `Chains`: for each symbol, the messages on the wire lead in order from the last
  message read to the last one sent (`Chain`). A snapshot
  on the wire shows the exchange's book; an update tells what became of an
  earlier book, and whatever lies between that book and the messages before it
  is in `missed`, provided the symbol has, or will by then have, a book.
- `Counters`: a counter is never ahead of the exchange's update, because each
  update read is a strictly later one. So the counter does not reach `IdMax`
  before the exchange does, its successor is one more, and an update is never
  stale or a gap to a book that agrees with the counter (`UpdateOutcome`). This
  is what `NumbersFit` and `OnlyFaultsEndSessions` rest on: in no session, whatever
  counters it begins with, does an update end it.
- `Faulty`: what ends a session is on the wire or the socket only after a fault.

Each operation has a lemma that says it keeps `Inv`; the lemmas `ChainEmpty`,
`ChainOther`, `ChainSent`, `ChainSkipped`, `ChainRead` and `ChainLost` say what it
does to a chain. `DamageConfined` is inductive with `Chains`: at a price the update
does not mention nothing changed since its base, and if something changed between
the book and the base, a missed update did it (`Changed`, by the first of them).
The refinement then needs no invariant of its own: a book that missed nothing is
exactly the exchange's (`Exact`), and each step either publishes an entry or moves
`at` forward (`Progress`). The rest, `RefinesStep`, holds for any feed whose exact
books are what `Views` says, and is in `SocketFeedProofs`.

### The Kraken feed

`KrakenFeedProofs` proves all the safety properties of the `kraken` run, for every
depth, set of prices and set of precisions:

| Theorem | States |
|---|---|
| `TypeCorrect` | `KSpec => []TypeOK` |
| `CountersMatch` | `KSpec => []CounterMatchesBook` |
| `BooksAreExact` | `KSpec => []ExactWithoutLoss` |
| `OnlyFaultsEndSessions` | `KSpec => NoSpuriousResync` |
| `VerifiedBooksAreExact` | `TokensTellApart => (KSpec => VerifiedIsExchangeTop)` |
| `ImplementsReplica` | `KSpec => ReplicaSpec` |

The invariant is `TypeOK /\ Base /\ ExactWithoutLoss /\ Honest /\ Calm`. The
difficulty is the depth: the exchange never says that a level has left it, and
need not mention what happens beyond it. `Chain` therefore follows the exchange's
top of the book only (`Shown`), and `UpdatedCut` shows that it is enough: an
update that reports what a subscriber must be told, applied to the top and
truncated, gives the new top, because what the truncated book lacks is worse than
all it has, and whatever comes up from beyond the depth must be listed. `Honest`
says that a checksum on the wire is that of the exchange's book at that update,
before the first fault with the current precision; `Calm`, that until then nothing
is missed and no listing has changed.

`OnlyFaultsEndSessions` has two parts. In any session, a book that has missed
nothing passes a checksum that the exchange took with the adapter's precision
(`ChecksumHolds`, from `ExactWithoutLoss`), and no update is a gap; so a session
ends with its connection or where `ChecksumMayFail` holds. Before the first fault
that cannot hold either (`CalmHolds`, from `Honest` and `Calm`).

`VerifiedBooksAreExact` has a hypothesis, `TokensTellApart`: levels that differ
have different tokens. It is not true of all figures, since 10 with no decimals
and 1.0 with one have the same token, so a set of precisions must be such that
the tokens of its prices and quantities differ; TLC evaluates it on the instance
(`LevelsAreToldApart` in `MCKrakenFeed`). Under it, the property needs no history:
equal checksums mean equal lists of tokens, hence equal levels, hence the
exchange's top, even if updates were lost before.

The refinement is the one of Coinbase with `ExactWithoutLoss` for `Exact`: both
feeds share `Views` and `RefinesStep`. That a truncated book keeps up is where
`Kept` counts. A level that leaves the depth is forgotten, and what happens to it
out there need not be told; when it comes back it is again among the best `Kept`,
and the book has it because the exchange lists whatever comes up (`Told`).

### Metrics

`MetricsProofs` proves all the properties of the `metrics` run for all clocks,
offsets and lengths of a window. `TypeCorrect` and `LinesPaced` use the invariant
that live counters remember a last print that no line of any session is later
than. `TotalsVerified` and `WindowsDivide` use `WindowInv`, which says of each
line of the log that it reports what lies between it and the line before it
(`AllRight`), and of live counters that they hold what lies after the last line
(`Open`). The count and the greatest latency are read off the log directly. The
mean is a sum over a set of entries, a fold in any order, so the proofs first show
that a sum of latencies exists, is unique and does not depend on the order in
which they are taken (`HasMin` again: a least set with two sums). `NoneAssumption`
says that `None` is no record of counters.

### Reconnect, timestamps and the checksum

`UtilityProofs` proves the properties of three small modules.

| Theorem | States |
|---|---|
| `TypeCorrect` | `Spec => []TypeOK` of `Reconnect` |
| `HealthyConnectionsReset` | `Spec => []HealthyResets` |
| `DelaysDouble` | `Spec => ShortSessionsBackOff` |
| `InstantsFit` | `ClockSpec => []InstantOK` of `Rfc3339` |
| `StampsAreRead` | `ClockSpec => []ReadsTheClock` |
| `ChecksumIsRemainder` | `CrcSpec => []IsRemainder` of `Checksum` |
| `BurstsNoticed` | `CrcSpec => []BurstsAreNoticed` |

Those about `Reconnect` hold for every first and greatest backoff and every
threshold. The invariant relates the backoff to the last delay, and the time a
connection was up to the time since the attempt began.

`StampsAreRead` says that `rfc3339_to_epoch_ms` is right on every day of every
year, however many digits the fraction has. The clock counts its days one by one;
the code computes them from eras of 400 years that begin in March. `DayNext` shows
that the computed number grows by one from each day of the calendar to the next:
within a month, from month to month by the formula with 153 (`MonthStart`), and
over February by `MarchNext`, which compares the leap days of the code with the
rule for leap years. `NewYear` shows that both agree on the first of January of
each year, by stepping from 1970 in both directions. What is assumed
(`StampAssumption`): the times of a stamp are times of the day, other texts have
numbers or `Bad` in their fields. The model has unbounded integers; that a year of
many digits overflows an i64 is a hazard it does not cover.

The two theorems about `Checksum` hold for texts of every length over every set of
bytes. Both go through a register that takes the text bit by bit (`Serial`): a bit
is added to bit 0, then a round follows.

- Eight such steps are the body of the code's loop, which adds a byte at once.
  After t rounds of it the register differs from the serial one by the bits still to
  come (`Pending`); a round keeps that relation (`PendingNext`, `Eaten`).
- After k steps the long division has left zeros in the first k digits, the serial
  register plus the next 32 digits after them, and the rest of the text unread
  (`Left`). A step of the division keeps it (`LeftNext`): the code's polynomial is
  the generator without its highest coefficient (`PolynomialIs`), and the bit that
  a round puts in at the top is that coefficient. After the last step the remainder
  is the register (`RemainderIs`).
- For bursts, the top bit of a register tells whether the last round added the
  polynomial, so a round can be undone (`Backwards`): what is known of two
  registers above bit p is known of them above bit p + 1 one step earlier, and all
  of it where the texts have the same bit. Registers that agree at the end
  therefore agree in the top bit 31 steps before the last difference; there the
  first difference shows (`BurstDistinguishes`). Four bytes are 32 bits
  (`BurstHasFirstBit`).

The division and the loop are recursive functions over an interval, so what they
return at k follows from what they return at k - 1; the inductions are again by the
least counterexample (`HasMin`).

### Only model-checked

Liveness (`Settles`, `HoleLeadsToResync`) is out of the prover's reach, and so is
that the check vector of the unit test has its checksum: TLC evaluates it. That
`RemainderOf` is the division IEEE 802.3 means rests on its definition and that
vector.

## 6. Not modelled

- `main.rs`: parses arguments and starts the loop; it has no state afterwards.
- `replay.rs`: tests over recorded sessions. Their assertions are properties here
  (`BookUncrossed`, `CounterMatchesBook`).
- JSON, URLs, TLS and logging. A text that does not parse is a frame of kind
  "noise" or "bad", as the adapter treats it.
- `total_levels`, the floating point of the rate and the text of a status line.
- Collisions of CRC32 beyond `BurstsAreNoticed`, and of the concatenated tokens.
- A wrong snapshot: the exchange of the models sends true ones (Kraken does not
  check the snapshot's checksum, so one would be noticed at the next update).
- Sixty as a second: it is accepted, but the calendar of `Rfc3339` stamps none.
- Memory: `buffered` grows while a REST request hangs, and the models bound the
  updates, so nothing is said of its size.
- A connection attempt that never returns: `Connect` is fair in the feeds, and
  `Reconnect` treats the time it takes as part of the session.
