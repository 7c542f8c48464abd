------------------------- MODULE BinanceFeedProofs -------------------------
(***************************************************************************)
(* Proofs about BinanceFeed, for every set of prices and quantities, every *)
(* snapshot limit and every bound.                                         *)
(***************************************************************************)
EXTENDS BinanceFeed, SequenceTheorems, TLAPS

----------------------------------------------------------------------------
(* The inductive invariant.                                                *)

\* A batch on its way describes a range of updates the exchange has made, says
\* what they did to both sides, and none of them is among the missed ones.
BatchOK(f) ==
  /\ f \in Delta
  /\ 1 < f.first /\ f.first <= f.last /\ f.last <= emitted
  /\ Carries(f.bids, "bids", f.first, f.last)
  /\ Carries(f.asks, "asks", f.first, f.last)
  /\ (f.first .. f.last) \cap missed = {}

WireOK   == \A i \in DOMAIN wire : wire[i].kind = "delta" => BatchOK(wire[i])
BufferOK == \A i \in DOMAIN buffered : BatchOK(buffered[i])
DownOK   == phase = "down" => sock = "none" /\ wire = <<>> /\ buffered = <<>>
MissedOK == missed \subseteq 1 .. emitted

\* The session's book reflects an update the exchange has made; beyond the
\* snapshot it has only what some batch covered.
BookOK ==
  Seeded => /\ book.initialized
            /\ seed \in 1 .. Len(truth)
            /\ book.lastUpdateId \in seed .. Len(truth)
            /\ book.lastUpdateId = seed \/ book.lastUpdateId <= emitted

Queues == WireOK /\ BufferOK /\ DownOK /\ MissedOK
Cut    == BookOK /\ NoPhantomLevels /\ ExactWithinDepth /\ MissedUpdateBlocksBook

Inv == TypeOK /\ Queues /\ Cut

----------------------------------------------------------------------------
(* Lemmas about the operators.                                             *)

LEMMA KeepTopType ==
  ASSUME NEW side \in Side, NEW n \in Nat
  PROVE  KeepTopBids(side, n) \in Side /\ KeepTopAsks(side, n) \in Side
  BY DEF KeepTopBids, KeepTopAsks, Side

\* What a message leaves at each price of a side.
LEMMA SetLevelsAt ==
  ASSUME NEW side, NEW ls, NEW p \in Price
  PROVE  SetLevels(side, ls)[p] = IF Mentions(ls, p)
                                    THEN Stored(ls[LastMention(ls, p)].qty)
                                    ELSE side[p]
  BY DEF SetLevels

LEMMA NewBookType == NewBook \in Book
  BY IdAssumption DEF NewBook, Book, EmptySide, Side, Id

----------------------------------------------------------------------------
(* The history only grows.                                                 *)

LEMMA HistoryGrows ==
  ASSUME TypeOK, UpdateBook
  PROVE  /\ truth' \in Seq(ExchangeBook)
         /\ Len(truth') = Len(truth) + 1
         /\ Len(truth') \in 1 .. MaxUpdates
         /\ \A i \in 1 .. Len(truth) : truth'[i] = truth[i]
<1>1. PICK s \in Sides, l \in Level :
        /\ Uncrossed([truth[Len(truth)] EXCEPT ![s] = SetLevel(truth[Len(truth)][s], l)])
        /\ truth' = Append(truth, [truth[Len(truth)] EXCEPT ![s] = SetLevel(truth[Len(truth)][s], l)])
  BY DEF UpdateBook
<1> DEFINE old == truth[Len(truth)]
           new == [old EXCEPT ![s] = SetLevel(old[s], l)]
<1>2. old \in [bids : Side, asks : Side]
  BY DEF TypeOK, ExchangeBook
<1>3. old[s] \in Side
  BY <1>2 DEF Sides
<1>4. SetLevel(old[s], l) \in Side
  BY <1>3 DEF SetLevel, Side, Stored, Level
<1>5. new \in [bids : Side, asks : Side]
  <2>1. CASE s = "bids"
    BY <1>2, <1>4, <2>1
  <2>2. CASE s = "asks"
    BY <1>2, <1>4, <2>2
  <2> QED BY <2>1, <2>2 DEF Sides
<1>6. new \in ExchangeBook
  BY <1>1, <1>5 DEF ExchangeBook
<1>7. truth' = Append(truth, new)
  BY <1>1
<1> HIDE DEF new
<1> QED BY <1>6, <1>7, BoundAssumption DEF UpdateBook, TypeOK

\* A batch stays good while the history grows, as long as none of its updates
\* becomes a missed one.
LEMMA BatchStable ==
  ASSUME TypeOK, NEW f, BatchOK(f),
         \A i \in 1 .. Len(truth) : truth'[i] = truth[i],
         emitted' \in Nat, emitted <= emitted',
         (f.first .. f.last) \cap missed' = {}
  PROVE  BatchOK(f)'
<1>1. f.first \in Int /\ f.last \in Int
  BY DEF BatchOK, Delta, Id
<1>2. \A i \in (f.first - 1) .. f.last : truth'[i] = truth[i]
  BY <1>1 DEF BatchOK, TypeOK
<1>3. ASSUME NEW s, NEW ls, Carries(ls, s, f.first, f.last)
      PROVE  Carries(ls, s, f.first, f.last)'
  <2>1. \A p \in Price : Touched(s, p, f.first, f.last)' <=> Touched(s, p, f.first, f.last)
    <3>1. truth'[f.first - 1] = truth[f.first - 1]
      BY <1>1, <1>2 DEF BatchOK
    <3>2. \A i \in f.first .. f.last : truth'[i] = truth[i]
      BY <1>1, <1>2
    <3> QED BY <3>1, <3>2 DEF Touched
  <2>2. truth'[f.last] = truth[f.last]
    BY <1>1, <1>2 DEF BatchOK
  <2> QED BY <1>3, <2>1, <2>2 DEF Carries
<1> QED BY <1>1, <1>3 DEF BatchOK, TypeOK

\* The batches of the exchange are good when they are sent.
LEMMA BatchSent ==
  ASSUME TypeOK, MissedOK, emitted < Len(truth), NEW f \in Batches,
         emitted' = Len(truth), UNCHANGED <<truth, missed>>
  PROVE  BatchOK(f)'
<1>1. f \in Delta
  BY IdAssumption, BoundAssumption DEF Batches, Delta, Id, TypeOK
<1>2. f.first = emitted + 1 /\ f.last = Len(truth)
  BY DEF Batches
<1>3. (f.first .. f.last) \cap missed = {}
  BY <1>2 DEF MissedOK, TypeOK
<1>4. /\ Carries(f.bids, "bids", f.first, f.last)
      /\ Carries(f.asks, "asks", f.first, f.last)
  BY DEF Batches
<1>5. /\ Carries(f.bids, "bids", f.first, f.last)'
      /\ Carries(f.asks, "asks", f.first, f.last)'
  BY <1>4 DEF Carries, Touched
<1> QED BY <1>1, <1>2, <1>3, <1>5 DEF BatchOK, TypeOK

\* What every step within a session does to the history.
Grows ==
  /\ Len(truth') \in Nat /\ Len(truth) <= Len(truth')
  /\ \A i \in 1 .. Len(truth) : truth'[i] = truth[i]
  /\ emitted' \in Nat /\ emitted <= emitted'
  /\ missed' \subseteq missed \cup {k \in Nat : k > emitted}

LEMMA BatchKept ==
  ASSUME TypeOK, Grows, NEW f, BatchOK(f)
  PROVE  BatchOK(f)'
<1>1. (f.first .. f.last) \cap missed' = {}
  BY DEF BatchOK, Grows, TypeOK, Delta, Id
<1> QED BY <1>1, BatchStable DEF Grows

\* A queue whose frames were there before, or are good, stays good.
LEMMA WireKept ==
  ASSUME TypeOK, Grows, WireOK,
         \A j \in DOMAIN wire' : wire'[j].kind = "delta" =>
           \/ \E i \in DOMAIN wire : wire'[j] = wire[i]
           \/ BatchOK(wire[j])'
  PROVE  WireOK'
<1> SUFFICES ASSUME NEW j \in DOMAIN wire', wire'[j].kind = "delta",
                    NEW i \in DOMAIN wire, wire'[j] = wire[i]
             PROVE  BatchOK(wire[j])'
  BY DEF WireOK
<1>1. BatchOK(wire[i])
  BY DEF WireOK
<1>2. PICK f : f = wire[i]
  OBVIOUS
<1>3. BatchOK(f)
  BY <1>1, <1>2
<1>4. BatchOK(f)'
  BY <1>3, BatchKept
<1> QED BY <1>2, <1>4

LEMMA BufferKept ==
  ASSUME TypeOK, Grows, BufferOK,
         \A j \in DOMAIN buffered' :
           \/ \E i \in DOMAIN buffered : buffered'[j] = buffered[i]
           \/ BatchOK(buffered[j])'
  PROVE  BufferOK'
<1> SUFFICES ASSUME NEW j \in DOMAIN buffered',
                    NEW i \in DOMAIN buffered, buffered'[j] = buffered[i]
             PROVE  BatchOK(buffered[j])'
  BY DEF BufferOK
<1>1. BatchOK(buffered[i])
  BY DEF BufferOK
<1>2. PICK f : f = buffered[i]
  OBVIOUS
<1>3. BatchOK(f)
  BY <1>1, <1>2
<1>4. BatchOK(f)'
  BY <1>3, BatchKept
<1> QED BY <1>2, <1>4

----------------------------------------------------------------------------
(* The book.                                                               *)

\* A step that leaves the book alone keeps it a cut of the history.
LEMMA CutKept ==
  ASSUME TypeOK, Grows, Cut, UNCHANGED <<book, seed>>, Seeded' => Seeded
  PROVE  Cut'
<1> SUFFICES ASSUME Seeded, Seeded' PROVE Cut'
  BY DEF Cut, BookOK, NoPhantomLevels, ExactWithinDepth, MissedUpdateBlocksBook
<1>1. BookOK'
  BY DEF Cut, BookOK, Grows, TypeOK
<1>2. /\ book.lastUpdateId \in 1 .. Len(truth)
      /\ seed \in 1 .. Len(truth)
  BY DEF Cut, BookOK, TypeOK
<1>3. /\ truth'[book.lastUpdateId] = truth[book.lastUpdateId]
      /\ truth'[seed] = truth[seed]
  BY <1>2 DEF Grows
<1>4. NoPhantomLevels'
  BY <1>3 DEF Cut, NoPhantomLevels
<1>5. ExactWithinDepth'
  BY <1>3 DEF Cut, ExactWithinDepth
<1>6. MissedUpdateBlocksBook'
  BY <1>2 DEF Cut, BookOK, MissedUpdateBlocksBook, Grows, TypeOK
<1> QED BY <1>1, <1>4, <1>5, <1>6 DEF Cut

\* Over a range of updates, a price that a batch does not mention is the same
\* at every update from the one before the range to its end.
LEMMA UnmentionedUnchanged ==
  ASSUME TypeOK, NEW f, BatchOK(f), NEW i \in (f.first - 1) .. f.last,
         NEW p \in Price
  PROVE  /\ ~ Mentions(f.bids, p) => truth[i].bids[p] = truth[f.last].bids[p]
         /\ ~ Mentions(f.asks, p) => truth[i].asks[p] = truth[f.last].asks[p]
<1>1. f.first \in Int /\ f.last \in Int /\ f.first <= f.last
  BY DEF BatchOK, Delta, Id
<1>2. i = f.first - 1 \/ i \in f.first .. f.last
  BY <1>1
<1>3. f.last \in f.first .. f.last
  BY <1>1
<1>4. ASSUME ~ Mentions(f.bids, p)
      PROVE  truth[i].bids[p] = truth[f.last].bids[p]
  <2>1. ~ Touched("bids", p, f.first, f.last)
    BY <1>4 DEF BatchOK, Carries
  <2> QED BY <1>2, <1>3, <2>1 DEF Touched
<1>5. ASSUME ~ Mentions(f.asks, p)
      PROVE  truth[i].asks[p] = truth[f.last].asks[p]
  <2>1. ~ Touched("asks", p, f.first, f.last)
    BY <1>5 DEF BatchOK, Carries
  <2> QED BY <1>2, <1>3, <2>1 DEF Touched
<1> QED BY <1>4, <1>5

\* What apply_delta does when it accepts a good batch: it moves strictly
\* forward without a hole, and every price it does not set is one the exchange
\* has not changed.
LEMMA AppliedMoves ==
  ASSUME TypeOK, Cut, Seeded, NEW f, BatchOK(f), Apply(f),
         DeltaOutcome(book, f.first, f.last) = "applied"
  PROVE  /\ f.last \in 1 .. Len(truth) /\ f.first \in Int /\ f.last \in Id
         /\ book.lastUpdateId < f.last /\ f.first - 1 <= book.lastUpdateId
         /\ book'.lastUpdateId = f.last /\ book'.initialized
         /\ \A p \in Price :
              \/ book'.bids[p] = truth[f.last].bids[p]
              \/ /\ book'.bids[p] = book.bids[p]
                 /\ truth[book.lastUpdateId].bids[p] = truth[f.last].bids[p]
         /\ \A p \in Price :
              \/ book'.asks[p] = truth[f.last].asks[p]
              \/ /\ book'.asks[p] = book.asks[p]
                 /\ truth[book.lastUpdateId].asks[p] = truth[f.last].asks[p]
         /\ book' \in Book
<1> DEFINE lid == book.lastUpdateId
<1>1. /\ book.initialized /\ lid \in 1 .. Len(truth) /\ lid \in Id
  BY DEF Cut, BookOK, TypeOK, Book
<1>2. f.first \in Id /\ f.last \in Id
  BY DEF BatchOK, Delta
<1>3. lid < f.last /\ f.first - 1 <= lid
  BY <1>1, <1>2, IdAssumption DEF DeltaOutcome, Succ, Id
<1>4. book' = [bids |-> SetLevels(book.bids, f.bids),
               asks |-> SetLevels(book.asks, f.asks),
               lastUpdateId |-> f.last, initialized |-> book.initialized]
  BY DEF Apply, WithDelta, TypeOK, Book
<1>5. f.last \in 1 .. Len(truth) /\ lid \in (f.first - 1) .. f.last
  BY <1>1, <1>2, <1>3 DEF BatchOK, TypeOK, Id
<1>6. ASSUME NEW p \in Price
      PROVE  \/ book'.bids[p] = truth[f.last].bids[p]
             \/ /\ book'.bids[p] = book.bids[p]
                /\ truth[lid].bids[p] = truth[f.last].bids[p]
  <2>1. CASE Mentions(f.bids, p)
    BY <1>4, <2>1, SetLevelsAt DEF BatchOK, Carries
  <2>2. CASE ~ Mentions(f.bids, p)
    BY <1>4, <1>5, <2>2, SetLevelsAt, UnmentionedUnchanged
  <2> QED BY <2>1, <2>2
<1>7. ASSUME NEW p \in Price
      PROVE  \/ book'.asks[p] = truth[f.last].asks[p]
             \/ /\ book'.asks[p] = book.asks[p]
                /\ truth[lid].asks[p] = truth[f.last].asks[p]
  <2>1. CASE Mentions(f.asks, p)
    BY <1>4, <2>1, SetLevelsAt DEF BatchOK, Carries
  <2>2. CASE ~ Mentions(f.asks, p)
    BY <1>4, <1>5, <2>2, SetLevelsAt, UnmentionedUnchanged
  <2> QED BY <2>1, <2>2
<1>8. book' \in Book
  <2>1. truth[f.last].bids \in Side /\ truth[f.last].asks \in Side
    BY <1>5 DEF TypeOK, ExchangeBook
  <2>2. book.bids \in Side /\ book.asks \in Side
    BY DEF TypeOK, Book
  <2>3. /\ book'.bids = [p \in Price |-> book'.bids[p]]
        /\ book'.asks = [p \in Price |-> book'.asks[p]]
    BY <1>4 DEF SetLevels
  <2>4. book'.bids \in Side /\ book'.asks \in Side
    BY <1>6, <1>7, <2>1, <2>2, <2>3 DEF Side
  <2> QED BY <1>1, <1>2, <1>4, <2>4 DEF Book
<1>9. book'.lastUpdateId = f.last /\ book'.initialized
  BY <1>1, <1>4
<1> QED BY <1>2, <1>3, <1>5, <1>6, <1>7, <1>8, <1>9 DEF Id

\* Applying a good batch moves a cut of the history to a later cut.
LEMMA CutAdvances ==
  ASSUME TypeOK, Cut, Seeded, NEW f, BatchOK(f), Apply(f),
         UNCHANGED <<truth, emitted, seed, missed>>
  PROVE  Cut' /\ book' \in Book
<1> DEFINE lid == book.lastUpdateId
<1>1. CASE DeltaOutcome(book, f.first, f.last) # "applied"
  <2>1. book' = book
    BY <1>1 DEF Apply
  <2>2. Cut'
    BY <2>1 DEF Cut, BookOK, NoPhantomLevels, ExactWithinDepth,
                MissedUpdateBlocksBook, Seeded
  <2> QED BY <2>1, <2>2 DEF TypeOK
<1>2. CASE DeltaOutcome(book, f.first, f.last) = "applied"
  <2>1. /\ f.last \in 1 .. Len(truth) /\ f.first \in Int
        /\ lid < f.last /\ f.first - 1 <= lid
        /\ book'.lastUpdateId = f.last /\ book'.initialized
    BY <1>2, AppliedMoves
  <2>2. /\ seed \in 1 .. Len(truth) /\ lid \in seed .. Len(truth)
    BY DEF Cut, BookOK
  <2>3. BookOK'
    BY <2>1, <2>2 DEF BookOK, BatchOK, TypeOK
  <2>4. NoPhantomLevels'
    BY <1>2, <2>1, AppliedMoves DEF Cut, NoPhantomLevels, Sides, Prices
  <2>5. ExactWithinDepth'
    BY <1>2, <2>1, AppliedMoves DEF Cut, ExactWithinDepth
  <2>6. MissedUpdateBlocksBook'
    <3> SUFFICES ASSUME NEW k \in missed, ~ (k <= seed)
                 PROVE  f.last < k
      BY <2>1 DEF MissedUpdateBlocksBook
    <3>1. lid < k
      BY DEF Cut, MissedUpdateBlocksBook
    <3>2. k \in Int /\ k \notin f.first .. f.last
      BY DEF TypeOK, BatchOK
    <3> QED BY <2>1, <2>2, <3>1, <3>2
  <2> QED BY <1>2, <2>3, <2>4, <2>5, <2>6, AppliedMoves DEF Cut
<1> QED BY <1>1, <1>2

----------------------------------------------------------------------------
(* The invariant is inductive.                                             *)

LEMMA InitInv == Init => Inv
<1> SUFFICES ASSUME Init PROVE Inv
  OBVIOUS
<1>1. TypeOK
  <2>1. PICK b \in InitialBooks : truth = <<b>>
    BY DEF Init
  <2>2. b \in ExchangeBook
    BY <2>1, InitialAssumption DEF ExchangeBook
  <2>3. truth \in Seq(ExchangeBook) /\ Len(truth) = 1
    BY <2>1, <2>2
  <2> QED BY <2>3, NewBookType, BoundAssumption, IdAssumption DEF Init, TypeOK, Phase
<1>2. Queues
  BY DEF Init, Queues, WireOK, BufferOK, DownOK, MissedOK
<1>3. Cut
  BY DEF Init, Cut, BookOK, NoPhantomLevels, ExactWithinDepth,
         MissedUpdateBlocksBook, Seeded
<1> QED BY <1>1, <1>2, <1>3 DEF Inv

\* However a session ends, nothing of it is left.
LEMMA EndSessionInv ==
  ASSUME TypeOK, EndSession, faults' \in 0 .. MaxFaults
  PROVE  Inv'
<1>1. TypeOK'
  BY NewBookType DEF TypeOK, EndSession, exchangeVars, Phase
<1>2. Queues'
  BY DEF EndSession, Queues, WireOK, BufferOK, DownOK, MissedOK
<1>3. Cut'
  BY DEF EndSession, Cut, BookOK, NoPhantomLevels, ExactWithinDepth,
         MissedUpdateBlocksBook, Seeded
<1> QED BY <1>1, <1>2, <1>3 DEF Inv

LEMMA FaultBound ==
  ASSUME TypeOK, Fault
  PROVE  faults' \in 0 .. MaxFaults
  BY BoundAssumption DEF TypeOK, Fault

\* The steps of the environment, none of which touches the book.
LEMMA EnvironmentInv ==
  ASSUME Inv, Environment
  PROVE  Inv'
<1> USE DEF Inv
<1>1. CASE UpdateBook
  <2>1. /\ UNCHANGED <<emitted, sock, wire, rest, phase, buffered, book, seed, missed, faults>>
    BY <1>1 DEF UpdateBook, sessionVars
  <2>2. TypeOK'
    BY <1>1, <2>1, HistoryGrows DEF TypeOK
  <2>3. Grows
    BY <1>1, <2>1, HistoryGrows DEF Grows, TypeOK
  <2>4. Queues'
    BY <2>1, <2>3, WireKept, BufferKept DEF Queues, DownOK, MissedOK
  <2>5. Cut'
    BY <2>1, <2>3, CutKept DEF Seeded
  <2> QED BY <2>2, <2>4, <2>5
<1>2. CASE EmitFrame
  <2>1. PICK f \in Batches : wire' = Append(wire, f)
    BY <1>2 DEF EmitFrame
  <2>2. /\ emitted < Len(truth) /\ emitted' = Len(truth)
        /\ UNCHANGED <<truth, sock, rest, phase, buffered, book, seed, missed, faults>>
        /\ sock = "open"
    BY <1>2 DEF EmitFrame
  <2>3. BatchOK(f)'
    BY <2>1, <2>2, BatchSent DEF Queues
  <2>4. f \in Delta
    BY <2>3 DEF BatchOK
  <2>5. TypeOK'
    BY <2>1, <2>2, <2>4 DEF TypeOK, Frame
  <2>6. Grows
    BY <2>2 DEF Grows, TypeOK
  <2>7. WireOK'
    <3> SUFFICES ASSUME NEW j \in DOMAIN wire', ~ \E i \in DOMAIN wire : wire'[j] = wire[i]
                 PROVE  wire'[j] = f
      BY <2>1, <2>3, <2>6, WireKept DEF Queues
    <3> QED BY <2>1, <2>4 DEF TypeOK, Frame
  <2>8. BufferOK'
    BY <2>2, <2>6, BufferKept DEF Queues
  <2>9. Queues'
    BY <2>2, <2>7, <2>8 DEF Queues, DownOK, MissedOK, TypeOK
  <2>10. Cut'
    BY <2>2, <2>6, CutKept DEF Seeded
  <2> QED BY <2>5, <2>9, <2>10
<1>3. ASSUME Miss, faults' \in 0 .. MaxFaults PROVE Inv'
  <2>1. /\ emitted < Len(truth) /\ emitted' = Len(truth)
        /\ missed' = missed \cup (emitted + 1 .. Len(truth))
        /\ UNCHANGED <<truth, sock, wire, rest, phase, buffered, book, seed>>
    BY <1>3 DEF Miss
  <2>2. missed' \subseteq 1 .. Len(truth) /\ emitted' \in 1 .. Len(truth)
    <3>1. /\ emitted \in Nat /\ 1 <= emitted /\ Len(truth) \in Nat
          /\ missed \subseteq 1 .. Len(truth)
      BY DEF TypeOK
    <3>2. emitted + 1 .. Len(truth) \subseteq 1 .. Len(truth)
      BY <3>1
    <3>3. emitted' \in 1 .. Len(truth)
      BY <2>1, <3>1
    <3> QED BY <2>1, <3>1, <3>2, <3>3
  <2>3. TypeOK'
    BY <1>3, <2>1, <2>2 DEF TypeOK
  <2>4. Grows
    BY <2>1 DEF Grows, TypeOK
  <2>5. WireOK' /\ BufferOK'
    BY <2>1, <2>4, WireKept, BufferKept DEF Queues
  <2>6. Queues'
    BY <2>1, <2>2, <2>5 DEF Queues, DownOK, MissedOK
  <2>7. Cut'
    BY <2>1, <2>4, CutKept DEF Seeded
  <2> QED BY <2>3, <2>6, <2>7
<1>4. CASE EmitUnheard
  BY <1>3, <1>4 DEF EmitUnheard, TypeOK
<1>5. CASE LoseFrame
  BY <1>3, <1>5, FaultBound DEF LoseFrame
<1>6. ASSUME UNCHANGED <<truth, emitted, phase, buffered, book, seed, missed>>,
             sock' \in {"none", "open", "closed", "dead"},
             rest' \in 0 .. Len(truth), faults' \in 0 .. MaxFaults,
             phase = "down" => UNCHANGED <<sock, wire>>,
             \/ UNCHANGED wire
             \/ \E o \in Other : wire' = Append(wire, o)
      PROVE  Inv'
  <2>1. wire' \in Seq(Frame)
    <3>1. wire \in Seq(Frame) /\ Other \subseteq Frame
      BY DEF TypeOK, Frame
    <3> QED BY <1>6, <3>1
  <2>2. TypeOK'
    BY <1>6, <2>1 DEF TypeOK
  <2>3. Grows
    BY <1>6 DEF Grows, TypeOK
  <2>4. WireOK'
    <3>1. CASE UNCHANGED wire
      BY <2>3, <3>1, WireKept DEF Queues
    <3>2. CASE \E o \in Other : wire' = Append(wire, o)
      <4>1. PICK o \in Other : wire' = Append(wire, o)
        BY <3>2
      <4>2. o.kind # "delta"
        BY DEF Other
      <4>3. ASSUME NEW j \in DOMAIN wire', wire'[j].kind = "delta"
            PROVE  \E i \in DOMAIN wire : wire'[j] = wire[i]
        <5>1. wire \in Seq(Frame) /\ o \in Frame
          BY DEF TypeOK, Frame
        <5> QED BY <4>1, <4>2, <4>3, <5>1
      <4> QED BY <2>3, <4>3, WireKept DEF Queues
    <3> QED BY <1>6, <3>1, <3>2
  <2>5. BufferOK'
    BY <1>6, <2>3, BufferKept DEF Queues
  <2>6. Queues'
    BY <1>6, <2>4, <2>5 DEF Queues, DownOK, MissedOK
  <2>7. Cut'
    BY <1>6, <2>3, CutKept DEF Seeded
  <2> QED BY <2>2, <2>6, <2>7
<1>7. CASE SendOther
  BY <1>6, <1>7, FaultBound DEF SendOther, exchangeVars, Queues, DownOK, TypeOK, Other
<1>8. CASE ServerClose
  BY <1>6, <1>8, FaultBound DEF ServerClose, exchangeVars, Queues, DownOK, TypeOK, Other
<1>9. CASE GoSilent
  BY <1>6, <1>9, FaultBound DEF GoSilent, exchangeVars, Queues, DownOK, TypeOK
<1>10. CASE ServeSnapshot
  BY <1>6, <1>10 DEF ServeSnapshot, exchangeVars, TypeOK
<1>11. CASE ServeStale
  BY <1>6, <1>11, FaultBound DEF ServeStale, exchangeVars, TypeOK
<1> QED BY <1>1, <1>2, <1>4, <1>5, <1>7, <1>8, <1>9, <1>10, <1>11 DEF Environment


\* The snapshot starts a cut: the best levels of one entry of the history.
LEMMA SnapshotArrivesInv ==
  ASSUME Inv, SnapshotArrives
  PROVE  Inv'
<1> USE DEF Inv
<1> DEFINE snap == truth[rest]
<1>1. PICK b \in Listings(KeepTopBids(snap.bids, SnapshotLimit)),
           a \in Listings(KeepTopAsks(snap.asks, SnapshotLimit)) :
        book' = ApplySnapshot(NewBook, b, a, rest)
  BY DEF SnapshotArrives
<1>2. /\ phase = "buffer" /\ phase' = "replay"
      /\ rest # 0 /\ seed' = rest /\ rest' = 0
      /\ UNCHANGED <<truth, emitted, sock, wire, buffered, missed, faults>>
  BY DEF SnapshotArrives, exchangeVars
<1>3. book' = [bids |-> KeepTopBids(snap.bids, SnapshotLimit),
               asks |-> KeepTopAsks(snap.asks, SnapshotLimit),
               lastUpdateId |-> rest, initialized |-> TRUE]
  BY <1>1 DEF ApplySnapshot, Listings
<1>4. rest \in 1 .. Len(truth) /\ rest \in Id
  BY <1>2, IdAssumption, BoundAssumption DEF TypeOK, Id
<1>5. snap.bids \in Side /\ snap.asks \in Side
  BY <1>4 DEF TypeOK, ExchangeBook
<1>6. book' \in Book
  BY <1>3, <1>4, <1>5, KeepTopType, BoundAssumption DEF Book
<1>7. TypeOK'
  BY <1>2, <1>4, <1>6 DEF TypeOK, Phase
<1>8. Grows
  BY <1>2 DEF Grows, TypeOK
<1>9. Queues'
  BY <1>2, <1>8, WireKept, BufferKept DEF Queues, DownOK, MissedOK
<1>10. Cut'
  <2>1. BookOK'
    BY <1>2, <1>3, <1>4 DEF BookOK, TypeOK
  <2>2. NoPhantomLevels'
    BY <1>2, <1>3 DEF NoPhantomLevels, KeepTopBids, KeepTopAsks, Sides, Prices
  <2>3. ExactWithinDepth'
    BY <1>2, <1>3 DEF ExactWithinDepth, KeepTopBids, KeepTopAsks
  <2>4. MissedUpdateBlocksBook'
    BY <1>2, <1>3, <1>4 DEF MissedUpdateBlocksBook, TypeOK
  <2> QED BY <2>1, <2>2, <2>3, <2>4 DEF Cut
<1> QED BY <1>7, <1>9, <1>10

\* The steps of the driver.
LEMMA DriverInv ==
  ASSUME Inv, Driver
  PROVE  Inv'
<1> USE DEF Inv
<1>1. faults \in 0 .. MaxFaults
  BY DEF TypeOK
<1>2. CASE Connect
  <2>1. /\ phase = "down" /\ phase' = "buffer"
        /\ sock' = "open" /\ missed' = 1 .. emitted
        /\ UNCHANGED <<truth, emitted, wire, rest, buffered, book, seed, faults>>
    BY <1>2 DEF Connect, exchangeVars
  <2>2. wire = <<>> /\ buffered = <<>>
    BY <2>1 DEF Queues, DownOK
  <2>3. TypeOK'
    <3>1. 1 .. emitted \subseteq 1 .. Len(truth)
      BY DEF TypeOK
    <3> QED BY <2>1, <3>1 DEF TypeOK, Phase
  <2>4. Queues'
    BY <2>1, <2>2 DEF Queues, WireOK, BufferOK, DownOK, MissedOK
  <2>5. Cut'
    BY <2>1 DEF Cut, BookOK, NoPhantomLevels, ExactWithinDepth,
                MissedUpdateBlocksBook, Seeded
  <2> QED BY <2>3, <2>4, <2>5
<1>3. CASE BufferFrame
  <2> DEFINE f == Head(wire)
  <2>1. CASE f.kind = "bad" /\ EndSession /\ UNCHANGED faults
    BY <1>1, <2>1, EndSessionInv
  <2>2. CASE f.kind # "bad" /\ ~ (f.kind = "bad" /\ EndSession)
    <3>1. /\ phase = "buffer" /\ wire # <<>>
          /\ buffered' = IF f.kind = "delta" THEN Append(buffered, f) ELSE buffered
          /\ wire' = Tail(wire)
          /\ UNCHANGED <<truth, emitted, sock, rest, phase, book, seed, missed, faults>>
      BY <1>3, <2>2 DEF BufferFrame, exchangeVars
    <3>2. f \in Frame /\ f = wire[1] /\ 1 \in DOMAIN wire
      BY <3>1 DEF TypeOK
    <3>3. f.kind = "delta" => BatchOK(wire[1]) /\ f \in Delta
      BY <3>2 DEF Queues, WireOK, BatchOK
    <3>4. TypeOK'
      BY <3>1, <3>3 DEF TypeOK
    <3>5. Grows
      BY <3>1 DEF Grows, TypeOK
    <3>6. WireOK'
      BY <3>1, <3>5, WireKept DEF Queues, TypeOK
    <3>7. f.kind = "delta" => \A g : g = f => BatchOK(g)'
      BY <3>2, <3>3, <3>5, BatchKept
    <3>8. BufferOK'
      BY <3>1, <3>3, <3>5, <3>7, BufferKept DEF Queues, TypeOK
    <3>9. Queues'
      BY <3>1, <3>6, <3>8 DEF Queues, DownOK, MissedOK
    <3>10. Cut'
      BY <3>1, <3>5, CutKept DEF Seeded
    <3> QED BY <3>4, <3>9, <3>10
  <2> QED BY <1>3, <2>1, <2>2 DEF BufferFrame
<1>4. CASE SnapshotArrives
  BY <1>4, SnapshotArrivesInv
<1>5. CASE SnapshotFails
  BY <1>5, EndSessionInv, FaultBound DEF SnapshotFails
<1>6. CASE ReplayFrame
  <2> DEFINE f == Head(buffered)
  <2>1. CASE EndSession /\ UNCHANGED faults
    BY <1>1, <2>1, EndSessionInv
  <2>2. CASE ~ (EndSession /\ UNCHANGED faults)
    <3>1. /\ phase = "replay" /\ buffered # <<>> /\ Apply(f)
          /\ buffered' = Tail(buffered)
          /\ UNCHANGED <<truth, emitted, sock, wire, rest, phase, seed, missed, faults>>
      BY <1>6, <2>2 DEF ReplayFrame, exchangeVars
    <3>2. f = buffered[1] /\ 1 \in DOMAIN buffered
      BY <3>1 DEF TypeOK
    <3>3. PICK g : g = f
      OBVIOUS
    <3>4. BatchOK(g) /\ Apply(g)
      BY <3>1, <3>2, <3>3 DEF Queues, BufferOK
    <3>5. Cut' /\ book' \in Book
      BY <3>1, <3>4, CutAdvances DEF Seeded
    <3>6. TypeOK'
      BY <3>1, <3>5 DEF TypeOK
    <3>7. Grows
      BY <3>1 DEF Grows, TypeOK
    <3>8. BufferOK'
      BY <3>1, <3>7, BufferKept DEF Queues, TypeOK
    <3>9. WireOK'
      BY <3>1, <3>7, WireKept DEF Queues
    <3>10. Queues'
      BY <3>1, <3>8, <3>9 DEF Queues, DownOK, MissedOK
    <3> QED BY <3>5, <3>6, <3>10
  <2> QED BY <2>1, <2>2
<1>7. CASE ReplayDone
  <2>1. /\ phase = "replay" /\ phase' = "stream"
        /\ UNCHANGED <<truth, emitted, sock, wire, rest, buffered, book, seed, missed, faults>>
    BY <1>7 DEF ReplayDone, exchangeVars
  <2>2. TypeOK'
    BY <2>1 DEF TypeOK, Phase
  <2>3. Grows
    BY <2>1 DEF Grows, TypeOK
  <2>4. Queues'
    BY <2>1, <2>3, WireKept, BufferKept DEF Queues, DownOK, MissedOK
  <2>5. Cut'
    BY <2>1, <2>3, CutKept DEF Seeded
  <2> QED BY <2>2, <2>4, <2>5
<1>8. CASE StreamFrame
  <2> DEFINE f == Head(wire)
  <2>1. CASE EndSession /\ UNCHANGED faults
    BY <1>1, <2>1, EndSessionInv
  <2>2. CASE ~ (EndSession /\ UNCHANGED faults)
    <3>1. /\ phase = "stream" /\ wire # <<>>
          /\ (f.kind = "delta" /\ Apply(f)) \/ UNCHANGED book
          /\ wire' = Tail(wire)
          /\ UNCHANGED <<truth, emitted, sock, rest, phase, buffered, seed, missed, faults>>
      BY <1>8, <2>2 DEF StreamFrame, exchangeVars
    <3>2. f = wire[1] /\ 1 \in DOMAIN wire
      BY <3>1 DEF TypeOK
    <3>3. Grows
      BY <3>1 DEF Grows, TypeOK
    <3>4. Cut' /\ book' \in Book
      <4>1. CASE f.kind = "delta" /\ Apply(f)
        <5>1. PICK g : g = f
          OBVIOUS
        <5>2. BatchOK(g) /\ Apply(g)
          BY <3>2, <4>1, <5>1 DEF Queues, WireOK
        <5> QED BY <3>1, <5>2, CutAdvances DEF Seeded
      <4>2. CASE UNCHANGED book
        BY <3>1, <3>3, <4>2, CutKept DEF Seeded, TypeOK
      <4> QED BY <3>1, <4>1, <4>2
    <3>5. TypeOK'
      BY <3>1, <3>4 DEF TypeOK
    <3>6. WireOK'
      BY <3>1, <3>3, WireKept DEF Queues, TypeOK
    <3>7. BufferOK'
      BY <3>1, <3>3, BufferKept DEF Queues
    <3>8. Queues'
      BY <3>1, <3>6, <3>7 DEF Queues, DownOK, MissedOK
    <3> QED BY <3>4, <3>5, <3>8
  <2> QED BY <2>1, <2>2
<1>9. CASE SocketEnds
  BY <1>1, <1>9, EndSessionInv DEF SocketEnds
<1>10. CASE SocketFails
  BY <1>10, EndSessionInv, FaultBound DEF SocketFails
<1> QED BY <1>2, <1>3, <1>4, <1>5, <1>6, <1>7, <1>8, <1>9, <1>10 DEF Driver

LEMMA StutterInv ==
  ASSUME Inv, UNCHANGED vars
  PROVE  Inv'
<1>1. UNCHANGED <<truth, emitted, sock, wire, rest, phase, buffered, book, seed, missed, faults>>
  BY DEF vars, exchangeVars, sessionVars
<1>2. TypeOK'
  BY <1>1 DEF Inv, TypeOK
<1>3. Grows
  BY <1>1 DEF Inv, Grows, TypeOK
<1>4. Queues'
  BY <1>1, <1>3, WireKept, BufferKept DEF Inv, Queues, DownOK, MissedOK
<1>5. Cut'
  BY <1>1, <1>3, CutKept DEF Inv, Seeded
<1> QED BY <1>2, <1>4, <1>5 DEF Inv

\* A cut of an uncrossed book is uncrossed.
LEMMA InvUncrossed == Inv => BookUncrossed
<1> SUFFICES ASSUME Inv, Seeded PROVE Uncrossed(book)
  BY DEF BookUncrossed
<1>1. truth[book.lastUpdateId] \in ExchangeBook
  BY DEF Inv, Cut, BookOK, TypeOK
<1>2. Uncrossed(truth[book.lastUpdateId])
  BY <1>1 DEF ExchangeBook
<1>3. /\ \A p \in Prices(book.bids) : book.bids[p] = truth[book.lastUpdateId].bids[p]
      /\ \A p \in Prices(book.asks) : book.asks[p] = truth[book.lastUpdateId].asks[p]
  BY DEF Inv, Cut, NoPhantomLevels, Sides
<1> QED BY <1>2, <1>3 DEF Uncrossed, Prices

----------------------------------------------------------------------------
(* No session ends before the first fault.                                 *)

\* The first id the frames of q cover, or that of what follows them.
FirstOf(q, next) == IF q = <<>> THEN next ELSE q[1].first

\* The batches of q follow each other without a hole, and next follows them.
Contiguous(q, next) ==
  \A i \in DOMAIN q : q[i].last + 1 = IF i = Len(q) THEN next ELSE q[i + 1].first

\* The first id that the book has not been told of: the buffer comes first,
\* then the socket, then what the exchange has not sent yet.
Unbuffered == FirstOf(wire, emitted + 1)
Unread     == FirstOf(buffered, Unbuffered)

\* Where the REST answer and the buffer can be.
PhaseOK ==
  /\ phase # "buffer" => rest = 0
  /\ phase = "stream" => buffered = <<>>

\* Before the first fault the batches lead without a hole from the snapshot or
\* the book to the last one sent.
Calm ==
  (faults = MaxFaults /\ phase # "down") =>
    /\ sock = "open"
    /\ \A i \in DOMAIN wire : wire[i].kind = "delta"
    /\ Contiguous(wire, emitted + 1)
    /\ Contiguous(buffered, Unbuffered)
    /\ rest # 0 => Unread <= rest + 1
    /\ Seeded => Unread <= book.lastUpdateId + 1

LEMMA ContiguousAppend ==
  ASSUME NEW F, NEW q \in Seq(F), NEW f \in F, NEW next,
         Contiguous(q, f.first), f.last + 1 = next
  PROVE  /\ Contiguous(Append(q, f), next)
         /\ FirstOf(Append(q, f), next) = FirstOf(q, f.first)
<1> DEFINE r == Append(q, f)
<1>1. /\ r \in Seq(F) /\ Len(r) = Len(q) + 1 /\ DOMAIN r = 1 .. Len(q) + 1
      /\ Len(q) \in Nat /\ DOMAIN q = 1 .. Len(q)
      /\ \A i \in 1 .. Len(q) : r[i] = q[i]
      /\ r[Len(q) + 1] = f
  OBVIOUS
<1>2. q # <<>> => Len(q) >= 1
  OBVIOUS
<1>3. q = <<>> => Len(q) = 0
  OBVIOUS
<1>4. r # <<>>
  OBVIOUS
<1> HIDE DEF r
<1>5. Contiguous(r, next)
  BY <1>1 DEF Contiguous
<1>6. FirstOf(r, next) = FirstOf(q, f.first)
  BY <1>1, <1>2, <1>3, <1>4 DEF FirstOf
<1> QED BY <1>5, <1>6 DEF r

LEMMA ContiguousTail ==
  ASSUME NEW F, NEW q \in Seq(F), q # <<>>, NEW next, Contiguous(q, next)
  PROVE  /\ Contiguous(Tail(q), next)
         /\ FirstOf(Tail(q), next) = Head(q).last + 1
         /\ FirstOf(q, next) = Head(q).first
<1> DEFINE r == Tail(q)
<1>1. /\ Len(q) \in Nat /\ Len(q) >= 1 /\ DOMAIN q = 1 .. Len(q) /\ Head(q) = q[1]
      /\ Len(r) = Len(q) - 1 /\ DOMAIN r = 1 .. Len(q) - 1
      /\ \A i \in 1 .. Len(q) - 1 : r[i] = q[i + 1]
  OBVIOUS
<1>2. r = <<>> <=> Len(q) = 1
  <2>1. \A t \in Seq(F) : t = <<>> <=> Len(t) = 0
    OBVIOUS
  <2>2. r \in Seq(F)
    OBVIOUS
  <2> HIDE DEF r
  <2> QED BY <1>1, <2>1, <2>2
<1> HIDE DEF r
<1>3. Contiguous(r, next)
  BY <1>1 DEF Contiguous
<1>4. FirstOf(r, next) = Head(q).last + 1
  BY <1>1, <1>2 DEF FirstOf, Contiguous
<1> QED BY <1>1, <1>3, <1>4 DEF FirstOf, r

\* A batch that starts no later than the id after the book's is no gap, and
\* the book has what it covers afterwards.
LEMMA NoGap ==
  ASSUME TypeOK, Cut, Seeded, NEW f, BatchOK(f), f.first <= book.lastUpdateId + 1
  PROVE  /\ ~ IsGap(f)
         /\ Apply(f) => f.last + 1 <= book'.lastUpdateId + 1
<1>1. /\ book \in Book /\ book.initialized
      /\ book.lastUpdateId \in Nat /\ book.lastUpdateId <= IdMax
      /\ f.first \in Nat /\ f.last \in Nat /\ f.last <= IdMax
  BY IdAssumption DEF Cut, BookOK, TypeOK, Book, BatchOK, Delta, Id
<1>2. ~ IsGap(f)
  BY <1>1, IdAssumption DEF IsGap, DeltaOutcome, Succ
<1>3. ASSUME Apply(f) PROVE f.last <= book'.lastUpdateId
  <2>1. CASE DeltaOutcome(book, f.first, f.last) = "applied"
    <3>1. book'.lastUpdateId = f.last
      BY <1>1, <1>3, <2>1 DEF Apply, WithDelta, Book
    <3> QED BY <1>1, <3>1
  <2>2. CASE DeltaOutcome(book, f.first, f.last) # "applied"
    <3>1. book' = book
      BY <1>3, <2>2 DEF Apply
    <3>2. f.last <= book.lastUpdateId
      BY <1>1, <1>2, <2>2, IdAssumption DEF IsGap, DeltaOutcome, Succ
    <3> QED BY <3>1, <3>2
  <2> QED BY <2>1, <2>2
<1>4. ASSUME Apply(f) PROVE book'.lastUpdateId \in Int
  BY <1>1, <1>4 DEF Apply, WithDelta, Book
<1> QED BY <1>1, <1>2, <1>3, <1>4

CalmInv == PhaseOK /\ Calm

LEMMA FaultSeen ==
  ASSUME TypeOK, Fault
  PROVE  faults' < MaxFaults
  BY BoundAssumption DEF TypeOK, Fault

\* What of the state Calm depends on.
calmVars == <<phase, rest, buffered, sock, wire, emitted, book, faults>>

LEMMA CalmKept ==
  ASSUME CalmInv, UNCHANGED calmVars
  PROVE  CalmInv'
  BY DEF CalmInv, PhaseOK, Calm, calmVars, Seeded, Contiguous, FirstOf, Unread,
         Unbuffered

\* After a fault, or without a session, there is little to keep.
LEMMA CalmOver ==
  ASSUME PhaseOK', faults' < MaxFaults \/ phase' = "down", TypeOK'
  PROVE  CalmInv'
  BY BoundAssumption DEF CalmInv, Calm, TypeOK

LEMMA CalmEnds ==
  ASSUME EndSession
  PROVE  CalmInv'
  BY DEF EndSession, CalmInv, Calm, PhaseOK

LEMMA EmitFrameCalm ==
  ASSUME Inv, CalmInv, EmitFrame
  PROVE  CalmInv'
<1>1. PICK f \in Batches : wire' = Append(wire, f)
  BY DEF EmitFrame
<1>2. /\ emitted' = Len(truth)
      /\ UNCHANGED <<sock, rest, phase, buffered, book, faults>>
  BY DEF EmitFrame
<1>3. PhaseOK'
  BY <1>2 DEF CalmInv, PhaseOK
<1>4. SUFFICES ASSUME faults = MaxFaults, phase # "down" PROVE Calm'
  BY <1>2, <1>3 DEF CalmInv, Calm
<1>5. /\ f.kind = "delta" /\ f.first = emitted + 1 /\ f.last + 1 = emitted' + 1
  BY <1>2 DEF Batches
<1>6. wire \in Seq(Frame) /\ f \in Frame
  <2>1. /\ f.kind = "delta" /\ f.bids \in LevelList /\ f.asks \in LevelList
        /\ f.first = emitted + 1 /\ f.last = Len(truth)
        /\ f = [kind |-> f.kind, bids |-> f.bids, asks |-> f.asks,
                first |-> f.first, last |-> f.last]
    BY DEF Batches
  <2>2. f.first \in Id /\ f.last \in Id
    BY <2>1, IdAssumption, BoundAssumption DEF Inv, TypeOK, Id, EmitFrame
  <2>3. f \in Delta
    BY <2>1, <2>2 DEF Delta
  <2> QED BY <2>3 DEF Inv, TypeOK, Frame
<1>7. /\ Contiguous(wire', emitted' + 1)
      /\ FirstOf(wire', emitted' + 1) = FirstOf(wire, emitted + 1)
  <2>1. Contiguous(wire, f.first)
    BY <1>4, <1>5 DEF CalmInv, Calm
  <2> DEFINE next == emitted' + 1
  <2>2. f.last + 1 = next
    BY <1>5
  <2> HIDE DEF next
  <2>3. /\ Contiguous(Append(wire, f), next)
        /\ FirstOf(Append(wire, f), next) = FirstOf(wire, f.first)
    BY <1>6, <2>1, <2>2, ContiguousAppend
  <2> QED BY <1>1, <1>5, <2>3 DEF next
<1>8. Unbuffered' = Unbuffered /\ Unread' = Unread
  BY <1>2, <1>7 DEF Unbuffered, Unread, FirstOf
<1>9. \A i \in DOMAIN wire' : wire'[i].kind = "delta"
  <2>1. \A i \in DOMAIN wire : wire[i].kind = "delta"
    BY <1>4 DEF CalmInv, Calm
  <2> QED BY <1>1, <1>5, <1>6, <2>1
<1>10. Contiguous(buffered, Unbuffered)' <=> Contiguous(buffered, Unbuffered)
  BY <1>2, <1>8 DEF Contiguous
<1>11. Contiguous(wire, emitted + 1)'
  BY <1>7 DEF Contiguous
<1> QED BY <1>2, <1>4, <1>8, <1>9, <1>10, <1>11 DEF CalmInv, Calm, Seeded

\* The snapshot is not older than what the connection has carried.
LEMMA ServeSnapshotCalm ==
  ASSUME Inv, CalmInv, ServeSnapshot
  PROVE  CalmInv'
<1>1. /\ phase = "buffer" /\ rest' = Len(truth)
      /\ UNCHANGED <<emitted, sock, wire, phase, buffered, book, faults>>
  BY DEF ServeSnapshot, exchangeVars
<1>2. PhaseOK'
  BY <1>1 DEF CalmInv, PhaseOK
<1>3. ASSUME faults = MaxFaults PROVE Unread <= Len(truth) + 1
  <2>1. emitted \in Nat /\ Len(truth) \in Nat /\ emitted <= Len(truth)
    BY DEF Inv, TypeOK
  <2>2. Unbuffered <= Len(truth) + 1
    <3>1. CASE wire = <<>>
      BY <2>1, <3>1 DEF Unbuffered, FirstOf
    <3>2. CASE wire # <<>>
      <4>1. 1 \in DOMAIN wire /\ wire[1].kind = "delta"
        BY <1>1, <1>3, <3>2 DEF CalmInv, Calm, Inv, TypeOK
      <4>2. BatchOK(wire[1])
        BY <4>1 DEF Inv, Queues, WireOK
      <4> QED BY <2>1, <3>2, <4>2 DEF BatchOK, Delta, Id, Unbuffered, FirstOf
    <3> QED BY <3>1, <3>2
  <2>3. CASE buffered = <<>>
    BY <2>2, <2>3 DEF Unread, FirstOf
  <2>4. CASE buffered # <<>>
    <3>1. 1 \in DOMAIN buffered
      BY <2>4 DEF Inv, TypeOK
    <3>2. BatchOK(buffered[1])
      BY <3>1 DEF Inv, Queues, BufferOK
    <3> QED BY <2>1, <2>4, <3>2 DEF BatchOK, Delta, Id, Unread, FirstOf
  <2> QED BY <2>3, <2>4
<1> QED BY <1>1, <1>2, <1>3
        DEF CalmInv, Calm, Seeded, Unread, Unbuffered, Contiguous, FirstOf


LEMMA EnvironmentCalm ==
  ASSUME Inv, CalmInv, Environment
  PROVE  CalmInv' /\ phase' = phase
<1>1. TypeOK'
  BY EnvironmentInv DEF Inv
<1>2. TypeOK
  BY DEF Inv
<1>3. CASE UpdateBook
  BY <1>3, CalmKept DEF UpdateBook, sessionVars, calmVars
<1>4. CASE EmitFrame
  BY <1>4, EmitFrameCalm DEF EmitFrame
<1>5. CASE EmitUnheard
  <2>1. /\ sock # "open"
        /\ UNCHANGED <<sock, wire, rest, phase, buffered, book, faults>>
    BY <1>5 DEF EmitUnheard, Miss
  <2>2. ~ (faults = MaxFaults /\ phase # "down")
    BY <2>1 DEF CalmInv, Calm
  <2> QED BY <2>1, <2>2 DEF CalmInv, Calm, PhaseOK
<1>6. CASE LoseFrame
  BY <1>1, <1>2, <1>6, FaultSeen, CalmOver DEF LoseFrame, Miss, CalmInv, PhaseOK
<1>7. CASE SendOther
  BY <1>1, <1>2, <1>7, FaultSeen, CalmOver DEF SendOther, CalmInv, PhaseOK
<1>8. CASE ServerClose
  BY <1>1, <1>2, <1>8, FaultSeen, CalmOver DEF ServerClose, CalmInv, PhaseOK
<1>9. CASE GoSilent
  BY <1>1, <1>2, <1>9, FaultSeen, CalmOver DEF GoSilent, CalmInv, PhaseOK
<1>10. CASE ServeSnapshot
  BY <1>10, ServeSnapshotCalm DEF ServeSnapshot
<1>11. CASE ServeStale
  BY <1>1, <1>2, <1>11, FaultSeen, CalmOver DEF ServeStale, CalmInv, PhaseOK
<1> QED BY <1>3, <1>4, <1>5, <1>6, <1>7, <1>8, <1>9, <1>10, <1>11 DEF Environment

\* What a step of the driver must show: it keeps the invariant, and if it ends
\* the session then the first fault lies behind it.
CalmStep == CalmInv' /\ (phase # "down" /\ phase' = "down" => faults' < MaxFaults)

LEMMA BufferFrameCalm ==
  ASSUME Inv, CalmInv, BufferFrame
  PROVE  CalmStep
<1> DEFINE f == Head(wire)
<1>1. faults' = faults /\ phase = "buffer" /\ wire # <<>>
  BY DEF BufferFrame
<1>2. CASE faults < MaxFaults
  <2>1. PhaseOK' /\ TypeOK'
    BY DriverInv DEF Inv, Driver, BufferFrame, CalmInv, PhaseOK, EndSession
  <2> QED BY <1>1, <1>2, <2>1, CalmOver DEF CalmStep
<1>3. CASE faults = MaxFaults
  <2>1. wire \in Seq(Frame) /\ buffered \in Seq(Delta) /\ 1 \in DOMAIN wire /\ f = wire[1]
    BY <1>1 DEF Inv, TypeOK
  <2>2. f.kind = "delta" /\ f \in Delta
    BY <1>1, <1>3, <2>1 DEF CalmInv, Calm, Inv, Queues, WireOK, BatchOK
  <2>3. /\ buffered' = Append(buffered, f) /\ wire' = Tail(wire)
        /\ UNCHANGED <<emitted, sock, rest, phase, book>>
    BY <2>2 DEF BufferFrame, exchangeVars
  <2>4. Contiguous(wire, emitted + 1) /\ Contiguous(buffered, Unbuffered)
    BY <1>1, <1>3 DEF CalmInv, Calm
  <2>5. /\ Contiguous(Tail(wire), emitted + 1)
        /\ FirstOf(Tail(wire), emitted + 1) = f.last + 1
        /\ Unbuffered = f.first
    BY <1>1, <2>1, <2>4, ContiguousTail DEF Unbuffered
  <2>6. /\ Contiguous(Append(buffered, f), f.last + 1)
        /\ FirstOf(Append(buffered, f), f.last + 1) = FirstOf(buffered, f.first)
    <3> DEFINE next == f.last + 1
    <3>1. PICK g \in Delta : g = f
      BY <2>2
    <3>2. Contiguous(buffered, g.first) /\ g.last + 1 = next
      BY <2>4, <2>5, <3>1
    <3> HIDE DEF f, next
    <3>3. /\ Contiguous(Append(buffered, g), next)
          /\ FirstOf(Append(buffered, g), next) = FirstOf(buffered, g.first)
      BY <2>1, <3>2, ContiguousAppend
    <3> QED BY <3>1, <3>3 DEF next
  <2>7. Unbuffered' = f.last + 1 /\ Unread' = Unread
    BY <2>3, <2>5, <2>6 DEF Unbuffered, Unread
  <2>8. Contiguous(wire, emitted + 1)' /\ Contiguous(buffered, Unbuffered)'
    BY <2>3, <2>5, <2>6, <2>7 DEF Contiguous
  <2>9. \A i \in DOMAIN wire' : wire'[i].kind = "delta"
    <3>1. \A i \in DOMAIN wire : wire[i].kind = "delta"
      BY <1>1, <1>3 DEF CalmInv, Calm
    <3> QED BY <1>1, <2>1, <2>3, <3>1
  <2>10. Calm' /\ PhaseOK'
    BY <1>1, <1>3, <2>3, <2>7, <2>8, <2>9 DEF CalmInv, Calm, PhaseOK, Seeded
  <2> QED BY <1>1, <2>3, <2>10 DEF CalmStep, CalmInv
<1> QED BY <1>2, <1>3, BoundAssumption DEF Inv, TypeOK

LEMMA ReplayFrameCalm ==
  ASSUME Inv, CalmInv, ReplayFrame
  PROVE  CalmStep
<1>1. faults' = faults /\ phase = "replay" /\ buffered # <<>>
  BY DEF ReplayFrame
<1>2. CASE faults < MaxFaults
  <2>1. PhaseOK' /\ TypeOK'
    BY DriverInv DEF Inv, Driver, ReplayFrame, CalmInv, PhaseOK, EndSession
  <2> QED BY <1>1, <1>2, <2>1, CalmOver DEF CalmStep
<1>3. CASE faults = MaxFaults
  <2>1. buffered \in Seq(Delta) /\ 1 \in DOMAIN buffered /\ Head(buffered) = buffered[1]
    BY <1>1 DEF Inv, TypeOK
  <2>2. PICK f : f = Head(buffered)
    OBVIOUS
  <2>3. BatchOK(f)
    BY <2>1, <2>2 DEF Inv, Queues, BufferOK
  <2>4. /\ Contiguous(Tail(buffered), Unbuffered)
        /\ FirstOf(Tail(buffered), Unbuffered) = f.last + 1
        /\ Unread = f.first
    <3>1. Contiguous(buffered, Unbuffered)
      BY <1>1, <1>3 DEF CalmInv, Calm
    <3> QED BY <1>1, <2>1, <2>2, <3>1, ContiguousTail DEF Unread
  <2>5. Seeded /\ f.first <= book.lastUpdateId + 1
    BY <1>1, <1>3, <2>4 DEF CalmInv, Calm, Seeded
  <2>6. ~ IsGap(f) /\ (Apply(f) => f.last + 1 <= book'.lastUpdateId + 1)
    BY <2>3, <2>5, NoGap DEF Inv
  <2>7. /\ Apply(f) /\ buffered' = Tail(buffered)
        /\ UNCHANGED <<emitted, sock, wire, rest, phase>>
    BY <2>2, <2>6 DEF ReplayFrame, exchangeVars
  <2>8. Unbuffered' = Unbuffered /\ Unread' = f.last + 1
    BY <2>4, <2>7 DEF Unbuffered, Unread, FirstOf
  <2>9. Contiguous(wire, emitted + 1)' /\ Contiguous(buffered, Unbuffered)'
    <3>1. Contiguous(wire, emitted + 1)
      BY <1>1, <1>3 DEF CalmInv, Calm
    <3> QED BY <2>4, <2>7, <2>8, <3>1 DEF Contiguous
  <2>10. Calm' /\ PhaseOK'
    BY <1>1, <1>3, <2>6, <2>7, <2>8, <2>9 DEF CalmInv, Calm, PhaseOK, Seeded
  <2> QED BY <1>1, <2>7, <2>10 DEF CalmStep, CalmInv
<1> QED BY <1>2, <1>3, BoundAssumption DEF Inv, TypeOK

LEMMA StreamFrameCalm ==
  ASSUME Inv, CalmInv, StreamFrame
  PROVE  CalmStep
<1>1. faults' = faults /\ phase = "stream" /\ wire # <<>>
  BY DEF StreamFrame
<1>2. CASE faults < MaxFaults
  <2>1. PhaseOK' /\ TypeOK'
    BY DriverInv DEF Inv, Driver, StreamFrame, CalmInv, PhaseOK, EndSession
  <2> QED BY <1>1, <1>2, <2>1, CalmOver DEF CalmStep
<1>3. CASE faults = MaxFaults
  <2>1. wire \in Seq(Frame) /\ 1 \in DOMAIN wire /\ Head(wire) = wire[1]
    BY <1>1 DEF Inv, TypeOK
  <2>2. PICK f : f = Head(wire)
    OBVIOUS
  <2>3. BatchOK(f) /\ f.kind = "delta"
    BY <1>1, <1>3, <2>1, <2>2 DEF CalmInv, Calm, Inv, Queues, WireOK
  <2>4. /\ Contiguous(Tail(wire), emitted + 1)
        /\ FirstOf(Tail(wire), emitted + 1) = f.last + 1
        /\ Unbuffered = f.first
    <3>1. Contiguous(wire, emitted + 1)
      BY <1>1, <1>3 DEF CalmInv, Calm
    <3> QED BY <1>1, <2>1, <2>2, <3>1, ContiguousTail DEF Unbuffered
  <2>5. buffered = <<>> /\ Unread = f.first
    BY <1>1, <2>4 DEF CalmInv, PhaseOK, Unread, FirstOf
  <2>6. Seeded /\ f.first <= book.lastUpdateId + 1
    BY <1>1, <1>3, <2>5 DEF CalmInv, Calm, Seeded
  <2>7. ~ IsGap(f) /\ (Apply(f) => f.last + 1 <= book'.lastUpdateId + 1)
    BY <2>3, <2>6, NoGap DEF Inv
  <2>8. /\ Apply(f) /\ wire' = Tail(wire)
        /\ UNCHANGED <<emitted, sock, buffered, rest, phase>>
    BY <2>2, <2>3, <2>7 DEF StreamFrame, exchangeVars
  <2>9. Unbuffered' = f.last + 1 /\ Unread' = f.last + 1
    BY <2>4, <2>5, <2>8 DEF Unbuffered, Unread, FirstOf
  <2>10. Contiguous(wire, emitted + 1)' /\ Contiguous(buffered, Unbuffered)'
    BY <2>4, <2>5, <2>8 DEF Contiguous
  <2>11. \A i \in DOMAIN wire' : wire'[i].kind = "delta"
    <3>1. \A i \in DOMAIN wire : wire[i].kind = "delta"
      BY <1>1, <1>3 DEF CalmInv, Calm
    <3> QED BY <1>1, <2>1, <2>8, <3>1
  <2>12. Calm' /\ PhaseOK'
    BY <1>1, <1>3, <2>7, <2>8, <2>9, <2>10, <2>11 DEF CalmInv, Calm, PhaseOK, Seeded
  <2> QED BY <1>1, <2>8, <2>12 DEF CalmStep, CalmInv
<1> QED BY <1>2, <1>3, BoundAssumption DEF Inv, TypeOK

LEMMA DriverCalm ==
  ASSUME Inv, CalmInv, Driver
  PROVE  CalmStep
<1>1. TypeOK
  BY DEF Inv
<1>2. CASE Connect
  <2>1. /\ phase = "down" /\ phase' = "buffer" /\ sock' = "open"
        /\ UNCHANGED <<emitted, wire, rest, buffered, faults>>
    BY <1>2 DEF Connect, exchangeVars
  <2>2. wire = <<>> /\ buffered = <<>> /\ rest = 0
    BY <2>1 DEF Inv, Queues, DownOK, CalmInv, PhaseOK
  <2> QED BY <2>1, <2>2 DEF CalmStep, CalmInv, PhaseOK, Calm, Contiguous, Seeded
<1>3. CASE SnapshotArrives
  <2>1. /\ phase = "buffer" /\ rest # 0 /\ phase' = "replay" /\ rest' = 0
        /\ UNCHANGED <<emitted, sock, wire, buffered, faults>>
    BY <1>3 DEF SnapshotArrives, exchangeVars
  <2>2. book'.lastUpdateId = rest
    BY <1>3 DEF SnapshotArrives, ApplySnapshot
  <2>3. Unread' = Unread /\ Unbuffered' = Unbuffered
    BY <2>1 DEF Unread, Unbuffered, FirstOf
  <2>4. Calm'
    BY <2>1, <2>2, <2>3 DEF CalmInv, Calm, Contiguous, Seeded
  <2> QED BY <2>1, <2>4 DEF CalmStep, CalmInv, PhaseOK
<1>4. CASE ReplayDone
  <2>1. /\ phase = "replay" /\ phase' = "stream" /\ buffered = <<>>
        /\ UNCHANGED <<emitted, sock, rest, wire, buffered, book, faults>>
    BY <1>4 DEF ReplayDone, exchangeVars
  <2>2. Unread' = Unread /\ Unbuffered' = Unbuffered
    BY <2>1 DEF Unread, Unbuffered, FirstOf
  <2>3. Calm'
    BY <2>1, <2>2 DEF CalmInv, Calm, Contiguous, Seeded
  <2> QED BY <2>1, <2>3 DEF CalmStep, CalmInv, PhaseOK
<1>5. CASE SnapshotFails \/ SocketFails
  BY <1>1, <1>5, CalmEnds, FaultSeen DEF SnapshotFails, SocketFails, CalmStep
<1>6. CASE SocketEnds
  <2>1. faults # MaxFaults
    BY <1>6 DEF SocketEnds, CalmInv, Calm
  <2> QED BY <1>1, <1>6, <2>1, CalmEnds, BoundAssumption DEF SocketEnds, CalmStep, TypeOK
<1> QED BY <1>2, <1>3, <1>4, <1>5, <1>6, BufferFrameCalm, ReplayFrameCalm,
           StreamFrameCalm DEF Driver

\* One step, whichever it is.
LEMMA NextCalm ==
  ASSUME Inv, CalmInv, [Next]_vars
  PROVE  CalmStep
<1>1. CASE UNCHANGED vars
  BY <1>1, CalmKept DEF vars, exchangeVars, sessionVars, calmVars, CalmStep
<1> QED BY <1>1, EnvironmentCalm, DriverCalm DEF Next, CalmStep

----------------------------------------------------------------------------
(* The theorems.                                                           *)

\* The strengthening of the safety invariants that every step preserves.
THEOREM Invariant == Spec => []Inv
<1>1. Init => Inv
  BY InitInv
<1>2. Inv /\ [Next]_vars => Inv'
  BY EnvironmentInv, DriverInv, StutterInv DEF Next
<1> QED BY <1>1, <1>2, PTL DEF Spec

\* Every variable keeps its type: update ids, counters and queues of the
\* driver stay within their ranges (apply_snapshot, apply_delta, run_once).
THEOREM TypeCorrect == Spec => []TypeOK
<1>1. Inv => TypeOK
  BY DEF Inv
<1> QED BY <1>1, Invariant, PTL

\* Every level of the replica is the exchange's at the update id the replica
\* claims, whatever the interleaving of snapshot, buffer and stream
\* (buffer_then_snapshot, apply_delta).
THEOREM NoPhantoms == Spec => []NoPhantomLevels
<1>1. Inv => NoPhantomLevels
  BY DEF Inv, Cut
<1> QED BY <1>1, Invariant, PTL

\* Within the depth of the snapshot the replica is exact.
THEOREM Exactness == Spec => []ExactWithinDepth
<1>1. Inv => ExactWithinDepth
  BY DEF Inv, Cut
<1> QED BY <1>1, Invariant, PTL

\* The replica never steps over an update it was not sent (the gap test of
\* apply_delta).
THEOREM NoHoleCrossed == Spec => []MissedUpdateBlocksBook
<1>1. Inv => MissedUpdateBlocksBook
  BY DEF Inv, Cut
<1> QED BY <1>1, Invariant, PTL

\* The replica's best bid is below its best ask.
THEOREM NeverCrossed == Spec => []BookUncrossed
  BY InvUncrossed, Invariant, PTL

\* Opening the stream before asking for the snapshot leaves no gap to resync
\* from: as long as the exchange and the network are without fault, no session
\* ends (buffer_then_snapshot, the replay and the consume loop of run_once).
THEOREM OnlyFaultsEndSessions == Spec => NoSpuriousResync
<1>1. Init => CalmInv
  BY DEF Init, CalmInv, PhaseOK, Calm
<1>2. Inv /\ CalmInv /\ [Next]_vars => CalmInv'
  BY NextCalm DEF CalmStep
<1>3. Inv /\ CalmInv /\ [Next]_vars
        => [phase # "down" /\ phase' = "down" => faults' < MaxFaults]_vars
  BY NextCalm DEF CalmStep
<1> QED BY <1>1, <1>2, <1>3, Invariant, PTL DEF Spec, NoSpuriousResync

----------------------------------------------------------------------------
(* The feed implements BookReplica.                                        *)

\* BookReplica reads the operators of OrderBook as this module does.
LEMMA SameOperators ==
  /\ Replica!Side = Side
  /\ Replica!ExchangeBook = ExchangeBook
  /\ \A side : Replica!Prices(side) = Prices(side)
  /\ \A side, n : /\ Replica!KeepTopBids(side, n) = KeepTopBids(side, n)
                   /\ Replica!KeepTopAsks(side, n) = KeepTopAsks(side, n)
<1>1. Replica!Side = Side
  BY DEF Side, Replica!Side
<1>2. \A side : Replica!Prices(side) = Prices(side)
  BY DEF Prices, Replica!Prices
<1>3. \A b : Replica!Uncrossed(b) <=> Uncrossed(b)
  BY <1>2 DEF Uncrossed, Replica!Uncrossed
<1>4. Replica!ExchangeBook = ExchangeBook
  BY <1>1, <1>3 DEF ExchangeBook, Replica!ExchangeBook
<1>5. \A side, n, p : /\ Replica!InTopBids(side, n, p) <=> InTopBids(side, n, p)
                      /\ Replica!InTopAsks(side, n, p) <=> InTopAsks(side, n, p)
  <2>1. \A S : Replica!Cardinality(S) = Cardinality(S)
    BY Zenon DEF Cardinality, Replica!Cardinality
  <2> QED BY <1>2, <2>1 DEF InTopBids, InTopAsks, Replica!InTopBids, Replica!InTopAsks
<1>6. \A side, n : /\ Replica!KeepTopBids(side, n) = KeepTopBids(side, n)
                   /\ Replica!KeepTopAsks(side, n) = KeepTopAsks(side, n)
  BY <1>5 DEF KeepTopBids, KeepTopAsks, Replica!KeepTopBids, Replica!KeepTopAsks
<1> QED BY <1>1, <1>2, <1>4, <1>6

LEMMA ViewSeeded ==
  ASSUME TypeOK, Cut, Seeded
  PROVE  view # NoView
<1>1. view.id = book.lastUpdateId /\ book.lastUpdateId # 0
  BY DEF view, Cut, BookOK, TypeOK
<1> QED BY <1>1 DEF NoView

LEMMA RefinesInit == Init => Replica!Init
<1> SUFFICES ASSUME Init PROVE Replica!Init
  OBVIOUS
<1>1. PICK b \in InitialBooks : truth = <<b>>
  BY DEF Init
<1>2. b \in Replica!ExchangeBook
  BY InitialAssumption, SameOperators DEF ExchangeBook
<1>3. view = NoView
  BY DEF Init, view, Seeded
<1> QED BY <1>1, <1>2, <1>3 DEF Replica!Init

\* Dropping the session drops the view, if there was one.
LEMMA RefinesEnd ==
  ASSUME TypeOK, Cut, EndSession
  PROVE  [Replica!Next]_(Replica!vars)
<1>1. view' = NoView /\ UNCHANGED truth
  BY DEF EndSession, view, Seeded, exchangeVars, NoView
<1>2. CASE Seeded
  BY <1>1, <1>2, ViewSeeded DEF Replica!Next, Replica!Discard
<1>3. CASE ~ Seeded
  BY <1>1, <1>3 DEF view, Replica!vars
<1> QED BY <1>2, <1>3

\* apply_delta, when it returns Ok, is an Advance or changes nothing.
LEMMA RefinesApply ==
  ASSUME TypeOK, Cut, Seeded, Seeded', NEW f, BatchOK(f), Apply(f), UNCHANGED truth
  PROVE  [Replica!Next]_(Replica!vars)
<1>1. CASE DeltaOutcome(book, f.first, f.last) # "applied"
  BY <1>1 DEF Apply, view, Seeded, Replica!vars
<1>2. CASE DeltaOutcome(book, f.first, f.last) = "applied"
  <2>1. /\ view = [id |-> book.lastUpdateId, bids |-> book.bids, asks |-> book.asks]
        /\ view' = [id |-> f.last, bids |-> book'.bids, asks |-> book'.asks]
    BY <1>2, AppliedMoves DEF view
  <2>2. /\ f.last \in DOMAIN truth /\ f.last > view.id
        /\ book'.bids \in Side /\ book'.asks \in Side
    BY <1>2, <2>1, AppliedMoves DEF Book, TypeOK, Id
  <2>3. Replica!CutOf(view', truth[f.last])
    BY <1>2, <2>1, AppliedMoves, SameOperators
       DEF Replica!CutOf, Replica!Sides, Cut, NoPhantomLevels, Sides, Prices
  <2>4. Replica!KeepsUp(view, view', truth[view.id], truth[f.last])
    <3> DEFINE b == truth[f.last]
    <3>1. /\ \A p \in Price :
               \/ book'.bids[p] = b.bids[p]
               \/ /\ book'.bids[p] = book.bids[p]
                  /\ truth[view.id].bids[p] = b.bids[p]
          /\ \A p \in Price :
               \/ book'.asks[p] = b.asks[p]
               \/ /\ book'.asks[p] = book.asks[p]
                  /\ truth[view.id].asks[p] = b.asks[p]
      BY <1>2, <2>1, AppliedMoves
    <3>2. /\ \A p \in Prices(Replica!Best(b).bids) : p \in Price /\ b.bids[p] # NoLevel
          /\ \A p \in Prices(Replica!Best(b).asks) : p \in Price /\ b.asks[p] # NoLevel
      BY SameOperators DEF Replica!Best, KeepTopBids, KeepTopAsks, Prices
    <3> HIDE DEF b
    <3> QED  BY <2>1, <3>1, <3>2, SameOperators DEF Replica!KeepsUp, Replica!Sides, Prices, b
  <2>5. Replica!Advance
    BY <2>1, <2>2, <2>3, <2>4, ViewSeeded, SameOperators DEF Replica!Advance
  <2> QED BY <2>5 DEF Replica!Next
<1> QED BY <1>1, <1>2

LEMMA RefinesNext ==
  ASSUME Inv, [Next]_vars
  PROVE  [Replica!Next]_(Replica!vars)
<1> USE DEF Inv
<1>1. CASE UpdateBook
  <2>1. UNCHANGED <<phase, book>>
    BY <1>1 DEF UpdateBook, sessionVars
  <2>2. UNCHANGED view
    BY <2>1 DEF view, Seeded
  <2>3. PICK new : truth' = Append(truth, new)
    BY <1>1 DEF UpdateBook
  <2>4. new = truth'[Len(truth) + 1] /\ truth' \in Seq(ExchangeBook)
    BY <1>1, <2>3, HistoryGrows DEF TypeOK
  <2>5. new \in Replica!ExchangeBook
    BY <1>1, <2>4, HistoryGrows, SameOperators DEF TypeOK
  <2> QED BY <2>2, <2>3, <2>5 DEF Replica!Next, Replica!Publish
<1>2. ASSUME UNCHANGED <<truth, phase, book>> PROVE UNCHANGED Replica!vars
  BY <1>2 DEF view, Seeded, Replica!vars
<1>3. CASE EmitFrame \/ EmitUnheard \/ LoseFrame \/ SendOther \/ ServerClose
           \/ GoSilent \/ ServeSnapshot \/ ServeStale
  BY <1>2, <1>3 DEF EmitFrame, EmitUnheard, LoseFrame, Miss, SendOther, ServerClose,
                    GoSilent, ServeSnapshot, ServeStale, exchangeVars
<1>4. CASE Connect
  BY <1>4 DEF Connect, exchangeVars, view, Seeded, Replica!vars
<1>5. CASE BufferFrame
  <2>1. EndSession \/ UNCHANGED <<truth, phase, book>>
    BY <1>5 DEF BufferFrame, exchangeVars
  <2> QED BY <1>2, <2>1, RefinesEnd
<1>6. CASE SnapshotArrives
  <2>1. /\ phase = "buffer" /\ phase' = "replay" /\ rest # 0 /\ UNCHANGED truth
    BY <1>6 DEF SnapshotArrives, exchangeVars
  <2>2. /\ book'.lastUpdateId = rest
        /\ book'.bids = KeepTopBids(truth[rest].bids, SnapshotLimit)
        /\ book'.asks = KeepTopAsks(truth[rest].asks, SnapshotLimit)
    BY <1>6 DEF SnapshotArrives, Listings, ApplySnapshot
  <2>3. /\ view = NoView
        /\ view' = [id |-> rest,
                    bids |-> KeepTopBids(truth[rest].bids, SnapshotLimit),
                    asks |-> KeepTopAsks(truth[rest].asks, SnapshotLimit)]
    BY <2>1, <2>2 DEF view, Seeded
  <2>4. rest \in DOMAIN truth
    BY <2>1 DEF TypeOK
  <2> QED BY <2>1, <2>3, <2>4, SameOperators DEF Replica!Next, Replica!Install
<1>7. CASE ReplayFrame
  <2>1. CASE EndSession
    BY <2>1, RefinesEnd
  <2>2. CASE ~ EndSession
    <3>1. PICK f : f = Head(buffered)
      OBVIOUS
    <3>2. /\ phase = "replay" /\ phase' = "replay" /\ Apply(f) /\ UNCHANGED truth
          /\ buffered # <<>>
      BY <1>7, <2>2, <3>1 DEF ReplayFrame, exchangeVars
    <3>3. BatchOK(f)
      BY <3>1, <3>2 DEF Queues, BufferOK, TypeOK
    <3> QED BY <3>2, <3>3, RefinesApply DEF Seeded
  <2> QED BY <2>1, <2>2
<1>8. CASE ReplayDone
  BY <1>8 DEF ReplayDone, exchangeVars, view, Seeded, Replica!vars
<1>9. CASE StreamFrame
  <2>1. CASE EndSession
    BY <2>1, RefinesEnd
  <2>2. CASE UNCHANGED <<truth, phase, book>>
    BY <1>2, <2>2
  <2>3. CASE ~ EndSession /\ ~ UNCHANGED <<truth, phase, book>>
    <3>1. PICK f : f = Head(wire)
      OBVIOUS
    <3>2. /\ phase = "stream" /\ phase' = "stream" /\ Apply(f) /\ UNCHANGED truth
          /\ wire # <<>> /\ f.kind = "delta"
      BY <1>9, <2>3, <3>1 DEF StreamFrame, exchangeVars
    <3>3. BatchOK(f)
      BY <3>1, <3>2 DEF Queues, WireOK, TypeOK
    <3> QED BY <3>2, <3>3, RefinesApply DEF Seeded
  <2> QED BY <2>1, <2>2, <2>3
<1>10. CASE SnapshotFails \/ SocketEnds \/ SocketFails
  BY <1>10, RefinesEnd DEF SnapshotFails, SocketEnds, SocketFails
<1>11. CASE UNCHANGED vars
  BY <1>2, <1>11 DEF vars, exchangeVars, sessionVars
<1> QED BY <1>1, <1>3, <1>4, <1>5, <1>6, <1>7, <1>8, <1>9, <1>10, <1>11
        DEF Next, Environment, Driver

\* The feed keeps the promise of BookReplica: its view is installed from a
\* snapshot, then only moves to later entries of the exchange's history, each
\* time to a cut of that entry that remembers what it knew, until the session
\* ends.
THEOREM ImplementsReplica == Spec => ReplicaSpec
<1>1. Init => Replica!Init
  BY RefinesInit
<1>2. Inv /\ [Next]_vars => [Replica!Next]_(Replica!vars)
  BY RefinesNext
<1> QED BY <1>1, <1>2, Invariant, PTL DEF Spec, ReplicaSpec, Replica!Spec
============================================================================
