------------------------- MODULE CoinbaseFeedProofs -------------------------
(***************************************************************************)
(* Proofs about CoinbaseFeed, for every set of symbols, prices and lists   *)
(* and every bound.  The inductive part is the chain of messages of each   *)
(* symbol (SocketFeedProofs): it keeps the adapter's counter below the     *)
(* number of the exchange's update, so that it never wraps or skips, and   *)
(* says which updates a book can have missed.                              *)
(***************************************************************************)
EXTENDS CoinbaseFeed, SocketFeedProofs

Inv == TypeOK /\ Base /\ DamageConfined

----------------------------------------------------------------------------
(* The whole book is shown.                                                *)

LEMMA ShownAll ==
  ASSUME NEW side \in Side, NEW k \in Sides
  PROVE  Shown(k, side) = side
  BY NothingCut, FullBook DEF Shown

\* Without a limit every change is told.
LEMMA ToldAll ==
  ASSUME NEW k \in Sides, NEW then \in Side, NEW now \in Side, NEW ls,
         Told(k, ls, then, now)
  PROVE  \A p \in Price : IF Mentions(ls, p)
                            THEN Stored(ls[LastMention(ls, p)].qty) = now[p]
                            ELSE then[p] = now[p]
<1>1. Shown(k, then) = then /\ Shown(k, now) = now
  BY ShownAll
<1> QED  BY <1>1 DEF Told

----------------------------------------------------------------------------
(* Damage.                                                                 *)

Confined(book, t, a, m) ==
  \A side \in Sides, p \in Price :
    \/ book[side][p] = t[a][side][p]
    \/ \E k \in m : k <= a /\ k > 1 /\ t[k][side][p] # t[k - 1][side][p]

\* A price that differs between two books of the history was touched between.
LEMMA Changed ==
  ASSUME NEW t, NEW side, NEW p, NEW a \in Nat, NEW b \in Nat, a <= b,
         t[a][side][p] # t[b][side][p]
  PROVE  \E k \in a + 1 .. b : t[k][side][p] # t[k - 1][side][p]
<1> DEFINE D == {k \in a + 1 .. b : t[k][side][p] # t[a][side][p]}
<1>1. b \in D
  OBVIOUS
<1>2. D \subseteq Nat
  OBVIOUS
<1>3. PICK k \in D : \A j \in D : k <= j
  BY <1>1, <1>2, HasMin
<1>4. t[k - 1][side][p] = t[a][side][p]
  <2>1. CASE k = a + 1
    BY <2>1
  <2>2. CASE k > a + 1
    <3>1. k - 1 \in a + 1 .. b /\ ~(k <= k - 1)
      BY <2>2
    <3> QED  BY <1>3, <3>1
  <2> QED  BY <2>1, <2>2
<1> QED  BY <1>4

\* An update whose base is at most missed updates away from the book.
LEMMA UpdateConfined ==
  ASSUME NEW book \in Book, NEW t, NEW m \in SUBSET Nat, NEW a \in Nat \ {0}, NEW b \in Nat,
         NEW c \in Nat, a <= b, b < c, \A k \in 1 .. b : k <= a \/ k \in m,
         Confined(book, t, a, m), NEW bids, NEW asks,
         Reported(bids, asks, t[b], t[c]), t[b] \in ExchangeBook, t[c] \in ExchangeBook,
         NEW new, new.bids = SetLevels(book.bids, bids), new.asks = SetLevels(book.asks, asks)
  PROVE  Confined(new, t, c, m)
<1>2. ASSUME NEW side \in Sides, NEW p \in Price,
             t[b][side][p] = t[c][side][p], new[side][p] = book[side][p]
      PROVE  \/ new[side][p] = t[c][side][p]
             \/ \E k \in m : k <= c /\ k > 1 /\ t[k][side][p] # t[k - 1][side][p]
  <2>1. CASE book[side][p] = t[b][side][p]
    BY <1>2, <2>1
  <2>2. CASE \E k \in m : k <= a /\ k > 1 /\ t[k][side][p] # t[k - 1][side][p]
    <3>1. PICK k \in m : k <= a /\ k > 1 /\ t[k][side][p] # t[k - 1][side][p]
      BY <2>2
    <3>2. k \in Nat /\ k <= c
      BY <3>1
    <3> QED  BY <3>1, <3>2
  <2>3. CASE t[a][side][p] # t[b][side][p]
    <3>1. PICK k \in a + 1 .. b : t[k][side][p] # t[k - 1][side][p]
      BY <2>3, Changed
    <3>2. k \in m /\ k <= c /\ k > 1
      OBVIOUS
    <3> QED  BY <3>1, <3>2
  <2> QED  BY <2>1, <2>2, <2>3 DEF Confined
<1>3. ASSUME NEW p \in Price
      PROVE  /\ \/ new.bids[p] = t[c].bids[p]
                \/ t[b].bids[p] = t[c].bids[p] /\ new.bids[p] = book.bids[p]
             /\ \/ new.asks[p] = t[c].asks[p]
                \/ t[b].asks[p] = t[c].asks[p] /\ new.asks[p] = book.asks[p]
  <2>1. /\ t[b].bids \in Side /\ t[c].bids \in Side /\ "bids" \in Sides
        /\ t[b].asks \in Side /\ t[c].asks \in Side /\ "asks" \in Sides
    BY DEF ExchangeBook, Sides
  <2>2. /\ IF Mentions(bids, p) THEN Stored(bids[LastMention(bids, p)].qty) = t[c].bids[p]
                                ELSE t[b].bids[p] = t[c].bids[p]
        /\ IF Mentions(asks, p) THEN Stored(asks[LastMention(asks, p)].qty) = t[c].asks[p]
                                ELSE t[b].asks[p] = t[c].asks[p]
    BY <2>1, ToldAll DEF Reported
  <2> QED  BY <2>2 DEF SetLevels
<1> QED  BY <1>2, <1>3 DEF Confined, Sides

----------------------------------------------------------------------------
(* The invariant is preserved.                                             *)

\* A session ends only with its connection, which a fault has broken.
EndIsFaulty == SessionEnds => faults' < MaxFaults /\ ConnectionLost

LEMMA InvTypes ==
  ASSUME Inv
  PROVE  /\ Base /\ BaseTypes /\ wire \in Seq(Frame)
         /\ sent \subseteq {"snapshot"} \X Symbol /\ faults \in 0 .. MaxFaults
  BY DEF Inv, TypeOK, Base

LEMMA TypeOKNext ==
  ASSUME Base', wire' \in Seq(Frame), sent' \subseteq {"snapshot"} \X Symbol
  PROVE  TypeOK'
  BY DEF TypeOK, Base, BaseTypes

LEMMA InitInv == Init => Inv
<1> SUFFICES ASSUME Init PROVE Inv
  OBVIOUS
<1>1. Base
  BY BaseInit
<1>2. TypeOK
  BY <1>1 DEF TypeOK, Base, BaseTypes, Init
<1>3. DamageConfined
  BY DEF DamageConfined, Seeded, NewBook, Init
<1> QED  BY <1>1, <1>2, <1>3 DEF Inv

\* The books and what was read of them stay as they are.
LEMMA DamageKept ==
  ASSUME Inv, UNCHANGED <<truth, books, at, missed>>
  PROVE  DamageConfined'
  BY DEF Inv, DamageConfined, Seeded, Touched

LEMMA UpdateBookInv ==
  ASSUME Inv, NEW s \in Symbol, UpdateBook(s)
  PROVE  Inv'
<1>1. Base'
  BY InvTypes, BaseUpdateBook
<1>2. TypeOK'
  BY <1>1, InvTypes, TypeOKNext DEF UpdateBook, sessionVars
<1>3. DamageConfined'
  <2> SUFFICES ASSUME NEW z \in Symbol, Seeded(z), NEW k \in Sides, NEW p \in Price
               PROVE  \/ books[z][k][p] = truth'[z][at[z]][k][p]
                      \/ \E i \in missed[z] : i <= at[z] /\ Touched(z, k, p, i)'
    BY DEF DamageConfined, UpdateBook, sessionVars, historyVars, Seeded
  <2>1. at[z] \in 1 .. Len(truth[z]) /\ missed[z] \subseteq Nat /\ Len(truth[z]) \in Nat
    BY InvTypes, ReadRange, Types DEF Base, Counters
  <2>2. \A i \in 1 .. Len(truth[z]) : truth'[z][i] = truth[z][i]
    BY InvTypes, Lengthened
  <2>3. \A i \in missed[z] : i <= at[z] /\ Touched(z, k, p, i) => Touched(z, k, p, i)'
    <3> SUFFICES ASSUME NEW i \in missed[z], i <= at[z], Touched(z, k, p, i)
                 PROVE  Touched(z, k, p, i)'
      OBVIOUS
    <3>1. i \in 1 .. Len(truth[z]) /\ i - 1 \in 1 .. Len(truth[z])
      BY <2>1 DEF Touched
    <3> QED  BY <2>2, <3>1 DEF Touched
  <2> QED  BY <2>1, <2>2, <2>3 DEF Inv, DamageConfined
<1> QED  BY <1>1, <1>2, <1>3 DEF Inv

LEMMA SnapshotsInv ==
  ASSUME Inv, NEW s \in Symbol, SendSnapshot(s) \/ RepeatSnapshot(s)
  PROVE  Inv' /\ sock' = sock
<1>1. Snapshot(s)
  BY DEF SendSnapshot, RepeatSnapshot
<1>2. sent' \subseteq {"snapshot"} \X Symbol
  BY InvTypes DEF SendSnapshot, RepeatSnapshot
<1>3. faults' \in 0 .. MaxFaults /\ faults' \in {faults, faults - 1}
  <2>1. CASE SendSnapshot(s)
    BY <2>1, InvTypes DEF SendSnapshot
  <2>2. CASE RepeatSnapshot(s)
    BY <2>2, InvTypes, FaultFacts DEF RepeatSnapshot
  <2> QED  BY <2>1, <2>2
<1>4. /\ Base'
      /\ \E b, a \in LevelList :
           wire' = Append(wire, [kind |-> "snapshot", symbol |-> s, bids |-> b,
                                 asks |-> a, at |-> Now(s)])
  BY <1>1, <1>3, InvTypes, BaseSnapshot
<1>5. wire' \in Seq(Frame)
  <2>1. PICK b \in LevelList, a \in LevelList :
          wire' = Append(wire, [kind |-> "snapshot", symbol |-> s, bids |-> b,
                                asks |-> a, at |-> Now(s)])
    BY <1>4
  <2>2. [kind |-> "snapshot", symbol |-> s, bids |-> b, asks |-> a, at |-> Now(s)] \in Frame
    BY InvTypes, Types DEF Frame
  <2> QED  BY <2>1, <2>2, InvTypes
<1>6. UNCHANGED <<truth, sock, books, at, missed>>
  BY <1>1 DEF Snapshot, BringUpToDate, historyVars
<1> QED  BY <1>2, <1>4, <1>5, <1>6, TypeOKNext, DamageKept DEF Inv

LEMMA SendUpdateInv ==
  ASSUME Inv, NEW s \in Symbol, SendUpdate(s, "none")
  PROVE  Inv' /\ sock' = sock
<1>1. /\ Base'
      /\ \E b, a \in LevelList :
           wire' = Append(wire, [kind |-> "update", symbol |-> s, bids |-> b, asks |-> a,
                                 at |-> Now(s), checksum |-> "none"])
  BY InvTypes, BaseSendUpdate
<1>2. wire' \in Seq(Frame)
  <2>1. PICK b \in LevelList, a \in LevelList :
          wire' = Append(wire, [kind |-> "update", symbol |-> s, bids |-> b, asks |-> a,
                                at |-> Now(s), checksum |-> "none"])
    BY <1>1
  <2>2. [kind |-> "update", symbol |-> s, bids |-> b, asks |-> a,
         at |-> Now(s), checksum |-> "none"] \in Frame
    BY InvTypes, Types DEF Frame
  <2> QED  BY <2>1, <2>2, InvTypes
<1>3. UNCHANGED <<truth, sent, sock, books, at, missed>>
  BY DEF SendUpdate, BringUpToDate, historyVars
<1>4. sent' \subseteq {"snapshot"} \X Symbol
  BY <1>3, InvTypes
<1> QED  BY <1>1, <1>2, <1>3, <1>4, TypeOKNext, DamageKept DEF Inv

LEMMA LoseUpdateInv ==
  ASSUME Inv, NEW s \in Symbol, LoseUpdate(s)
  PROVE  Inv' /\ sock' = sock
<1>1. Base'
  BY InvTypes, BaseLoseUpdate
<1>2. UNCHANGED <<truth, sent, sock, wire, books, at>>
  BY DEF LoseUpdate, sessionVars
<1>3. TypeOK'
  BY <1>1, <1>2, InvTypes, TypeOKNext
<1>4. \A z \in Symbol : missed[z] \subseteq missed'[z]
  BY DEF LoseUpdate, Inv, TypeOK
<1>5. DamageConfined'
  BY <1>2, <1>4 DEF Inv, DamageConfined, Seeded, Touched
<1> QED  BY <1>1, <1>2, <1>3, <1>5 DEF Inv

\* A frame about no book is sent, or the server goes away.
LEMMA AsideInv ==
  ASSUME Inv, (\E k \in {"noise", "bad"} : SendOther(k)) \/ ServerClose
  PROVE  Inv' /\ sock' # "none"
<1>1. faults' \in 0 .. MaxFaults /\ faults' < MaxFaults
  BY InvTypes, FaultFacts DEF SendOther, ServerClose
<1>2. \E f \in Frame : (\A z : ~About(f, z)) /\ wire' \in {wire, Append(wire, f)}
  <2>1. \A k \in {"noise", "bad", "close"} : [kind |-> k] \in Frame /\ \A z : ~About([kind |-> k], z)
    BY DEF Frame, About
  <2> QED  BY <2>1 DEF SendOther, ServerClose
<1>3. PICK f \in Frame : (\A z : ~About(f, z)) /\ wire' \in {wire, Append(wire, f)}
  BY <1>2
<1>4. /\ UNCHANGED <<truth, emitted, sent, books, seq, at, missed>>
      /\ sock' \in {"open", "closed"}
  BY DEF SendOther, ServerClose, exchangeVars, historyVars
<1>5. wire \in Seq(Frame) /\ wire' \in Seq(Frame)
  BY <1>3, InvTypes
<1>6. Base'
  BY <1>1, <1>3, <1>4, InvTypes, BaseAside
<1>7. TypeOK'
  BY <1>4, <1>5, <1>6, InvTypes, TypeOKNext
<1> QED  BY <1>4, <1>6, <1>7, DamageKept DEF Inv

\* A session ends; a counter may have been reset before.
LEMMA EndSessionInv ==
  ASSUME Inv, EndSession, UNCHANGED historyVars, faults' \in 0 .. MaxFaults,
         seq' \in [Symbol -> Id], \A s \in Symbol : seq'[s] = seq[s] \/ seq'[s] = 0
  PROVE  Inv'
<1>1. Base'
  BY InvTypes, BaseEndOnly
<1>2. TypeOK'
  <2>1. wire' \in Seq(Frame) /\ sent' \subseteq {"snapshot"} \X Symbol
    BY DEF EndSession
  <2> QED  BY <1>1, <2>1, TypeOKNext
<1>3. DamageConfined'
  BY DEF DamageConfined, EndSession, Seeded, NewBook
<1> QED  BY <1>1, <1>2, <1>3 DEF Inv

\* What a frame about a symbol is made of.
LEMMA FrameFacts ==
  ASSUME Inv, wire # <<>>, Head(wire).kind \in {"snapshot", "update"}
  PROVE  /\ Head(wire).symbol \in Symbol /\ About(Head(wire), Head(wire).symbol)
         /\ Head(wire).bids \in Seq(Level) /\ Head(wire).asks \in Seq(Level)
<1>1. Head(wire) \in Frame
  BY InvTypes, HeadTailProperties
<1> QED  BY <1>1, LevelListAssumption DEF Frame, About

LEMMA TailTyped ==
  ASSUME Inv, wire # <<>>, Base', Consume
  PROVE  TypeOK'
<1>1. Tail(wire) \in Seq(Frame) /\ sent \subseteq {"snapshot"} \X Symbol
  BY InvTypes, HeadTailProperties
<1> QED  BY <1>1, TypeOKNext DEF Consume

LEMMA ReadNoiseInv ==
  ASSUME Inv, wire # <<>>, ReadNoise(Head(wire))
  PROVE  Inv' /\ sock' = sock
<1>1. Consume /\ UNCHANGED <<truth, sock, books, seq, at, missed, faults>>
  BY DEF ReadNoise, Consume, exchangeVars, historyVars
<1>2. \A z : ~About(Head(wire), z)
  BY DEF ReadNoise, About
<1>3. Base'
  BY <1>1, <1>2, InvTypes, BaseSkip
<1> QED  BY <1>1, <1>3, TailTyped, DamageKept DEF Inv

LEMMA ReadSnapshotInv ==
  ASSUME Inv, wire # <<>>, ReadSnapshot(Head(wire))
  PROVE  Inv' /\ sock' = sock
<1> DEFINE s == Head(wire).symbol
<1>1. s \in Symbol /\ Head(wire).bids \in Seq(Level) /\ Head(wire).asks \in Seq(Level)
  BY FrameFacts DEF ReadSnapshot
<1>2. About(Head(wire), s)
  BY DEF ReadSnapshot, About
<1>3. Head(wire).at \in Nat \ {0} /\ Head(wire).at <= emitted[s]
  BY <1>1, <1>2, InvTypes, HeadFacts
<1> HIDE DEF s
<1>4. /\ Base'
      /\ books'[s] \in Book /\ at'[s] = Head(wire).at
      /\ \A k \in Sides : books'[s][k] = Shown(k, truth[s][at'[s]][k])
      /\ \A z \in Symbol \ {s} : /\ books'[z] = books[z] /\ at'[z] = at[z]
                                 /\ missed'[z] = missed[z]
  BY <1>1, InvTypes, BaseReadSnapshot DEF s
<1>5. Consume /\ truth' = truth /\ sock' = sock
  BY DEF ReadSnapshot, Consume, exchangeVars
<1>6. \A k \in Sides : books'[s][k] = truth[s][at'[s]][k]
  <2>1. at'[s] \in 1 .. emitted[s]
    BY <1>1, <1>3, <1>4, InvTypes, ReadRange
  <2> QED  BY <1>1, <1>4, <2>1, InvTypes, HistoryTypes, ShownAll
<1>7. DamageConfined'
  <2> SUFFICES ASSUME NEW z \in Symbol, Seeded(z)'
               PROVE  Confined(books'[z], truth[z], at'[z], missed'[z])
    BY <1>5 DEF DamageConfined, Confined, Touched
  <2>1. CASE z = s
    BY <1>6, <2>1 DEF Confined
  <2>2. CASE z # s
    BY <1>4, <2>2 DEF Inv, DamageConfined, Confined, Touched, Seeded
  <2> QED  BY <2>1, <2>2
<1> QED  BY <1>4, <1>5, <1>7, TailTyped DEF Inv

LEMMA ReadUpdateInv ==
  ASSUME Inv, wire # <<>>, ReadUpdate(Head(wire), TRUE)
  PROVE  Inv' /\ sock' = sock
<1> DEFINE f == Head(wire)
           s == f.symbol
<1>1. s \in Symbol /\ f.bids \in Seq(Level) /\ f.asks \in Seq(Level)
  BY FrameFacts DEF ReadUpdate
<1>2. IsUpdate(f, s) /\ About(f, s)
  BY DEF ReadUpdate, IsUpdate, About
<1>3. /\ f.at \in Nat \ {0} /\ f.at <= emitted[s]
      /\ Chain(s, wire, at[s], emitted[s], missed[s], Seeded(s), truth[s])
  BY <1>1, <1>2, InvTypes, HeadFacts
<1>4. PICK b \in Nat \ {0} : TellsFrom(f, at[s], missed[s], Seeded(s), truth[s], b)
  <2> HIDE DEF s
  <2> QED  BY <1>2, <1>3, InvTypes, ChainHead
<1>5. Base'
  BY <1>1, InvTypes, BaseReadUpdate
<1>6. /\ UNCHANGED <<truth, emitted, missed, faults, sock>>
      /\ at' = [at EXCEPT ![s] = f.at] /\ Consume
      /\ \/ Seeded(s) /\ books' = [books EXCEPT ![s] = Updated(f)]
         \/ ~Seeded(s) /\ books' = books
  <2> HIDE DEF s
  <2>1. Head(wire).symbol = s
    BY DEF s
  <2>2. /\ UNCHANGED <<truth, emitted, missed, faults>>
        /\ at' = [at EXCEPT ![s] = Head(wire).at]
        /\ \/ Seeded(s) /\ books' = [books EXCEPT ![s] = Updated(Head(wire))] /\ Consume
           \/ ~Seeded(s) /\ books' = books /\ Consume
    BY <1>1, <2>1, InvTypes, UpdateEffect
  <2> QED  BY <2>2 DEF Consume
<1>7. Updated(f) \in Book /\ Updated(f).bids = SetLevels(books[s].bids, f.bids)
      /\ Updated(f).asks = SetLevels(books[s].asks, f.asks)
      /\ Updated(f).initialized = books[s].initialized
  <2>1. Succ(seq[s]) \in Id
    BY <1>1, <1>2, InvTypes, UpdateOutcome
  <2>2. books[s] \in Book /\ books[s].bids \in Side /\ books[s].asks \in Side
    BY <1>1, InvTypes, Types DEF Book
  <2>3. SetLevels(books[s].bids, f.bids) \in Side /\ SetLevels(books[s].asks, f.asks) \in Side
    BY <1>1, <2>2, SetLevelsType
  <2> HIDE DEF f, s
  <2>4. s = f.symbol
    BY DEF s
  <2> QED  BY <1>1, <2>1, <2>2, <2>3, <2>4, UpdatedType, ShownAll DEF Sides
<1> HIDE DEF f, s
<1>8. /\ at'[s] = f.at
      /\ \A z \in Symbol \ {s} : books'[z] = books[z] /\ at'[z] = at[z]
      /\ books'[s] = IF Seeded(s) THEN Updated(f) ELSE books[s]
  BY <1>1, <1>6 DEF Inv, TypeOK
<1>9. \A z \in Symbol : books'[z].initialized = books[z].initialized
  BY <1>7, <1>8
<1>10. ASSUME Seeded(s) PROVE Confined(Updated(f), truth[s], f.at, missed[s])
  <2>1. at[s] \in Nat \ {0} /\ Confined(books[s], truth[s], at[s], missed[s])
    BY <1>1, <1>10, InvTypes, ReadRange
    DEF Inv, Base, Counters, DamageConfined, Confined, Touched
  <2>2. books[s] \in Book /\ missed[s] \in SUBSET Nat /\ emitted[s] \in Nat
    BY <1>1, InvTypes, Types, ReadRange
  <2>3. \A k \in 1 .. b : k <= at[s] \/ k \in missed[s]
    BY <1>4, <1>10 DEF TellsFrom
  <2>4. at[s] <= b /\ b < f.at /\ Reported(f.bids, f.asks, truth[s][b], truth[s][f.at])
    BY <1>4 DEF TellsFrom
  <2>5. b \in 1 .. emitted[s] /\ f.at \in 1 .. emitted[s]
    BY <1>3, <2>2, <2>4
  <2>6. truth[s][b] \in ExchangeBook /\ truth[s][f.at] \in ExchangeBook
    BY <1>1, <2>5, InvTypes, HistoryTypes
  <2> QED  BY <1>3, <1>7, <2>1, <2>2, <2>3, <2>4, <2>6, UpdateConfined
<1>11. DamageConfined'
  <2> SUFFICES ASSUME NEW z \in Symbol, books'[z].initialized
               PROVE  Confined(books'[z], truth[z], at'[z], missed[z])
    BY <1>6 DEF DamageConfined, Confined, Touched, Seeded
  <2>1. Seeded(z)
    BY <1>9 DEF Seeded
  <2>2. CASE z = s
    BY <1>8, <1>10, <2>1, <2>2
  <2>3. CASE z # s
    BY <1>8, <2>1, <2>3 DEF Inv, DamageConfined, Confined, Touched
  <2> QED  BY <2>2, <2>3
<1> QED  BY <1>5, <1>6, <1>11, TailTyped DEF Inv

LEMMA ReadEndInv ==
  ASSUME Inv, wire # <<>>, ReadBad(Head(wire)) \/ ReadClose(Head(wire))
  PROVE  Inv' /\ EndIsFaulty
<1>1. seq \in [Symbol -> Id] /\ 0 \in Id
  BY IdAssumption DEF Inv, TypeOK, Id
<1>2. /\ EndSession /\ UNCHANGED historyVars /\ faults' = faults
      /\ Head(wire).kind \in {"bad", "close"}
  BY DEF ReadBad, ReadClose
<1>3. seq' \in [Symbol -> Id] /\ \A s \in Symbol : seq'[s] = seq[s] \/ seq'[s] = 0
  BY <1>1 DEF ReadBad, ReadClose, Count
<1>4. Inv'
  BY <1>2, <1>3, InvTypes, EndSessionInv
<1>5. faults < MaxFaults
  BY <1>2, InvTypes, ReadEnds
<1>6. ConnectionLost
  BY <1>2 DEF ConnectionLost
<1> QED  BY <1>2, <1>4, <1>5, <1>6 DEF EndIsFaulty

LEMMA SocketEndInv ==
  ASSUME Inv, SocketEnds \/ SocketFails
  PROVE  Inv' /\ EndIsFaulty
<1>1. EndSession /\ UNCHANGED historyVars /\ seq' = seq
  BY DEF SocketEnds, SocketFails
<1>2. faults' \in 0 .. MaxFaults /\ faults' < MaxFaults /\ ConnectionLost
  <2>1. CASE SocketEnds
    <3>1. faults' = faults /\ sock = "closed" /\ wire = <<>>
      BY <2>1 DEF SocketEnds
    <3>2. ConnectionLost
      BY <3>1 DEF ConnectionLost
    <3> QED  BY <3>1, <3>2, InvTypes, BoundAssumption DEF Base, Faulty
  <2>2. CASE SocketFails
    <3>1. faults' \in 0 .. MaxFaults /\ faults' < MaxFaults /\ faults' = faults - 1
      BY <2>2, InvTypes, FaultFacts DEF SocketFails, Fault
    <3>2. faults' < faults
      BY <3>1, InvTypes
    <3> QED  BY <3>1, <3>2 DEF ConnectionLost
  <2> QED  BY <2>1, <2>2
<1>3. Inv'
  BY <1>1, <1>2, EndSessionInv DEF Inv, TypeOK
<1> QED  BY <1>2, <1>3 DEF EndIsFaulty

LEMMA KeptInv ==
  ASSUME Inv, Connect \/ UNCHANGED vars
  PROVE  Inv' /\ EndIsFaulty
<1>1. /\ UNCHANGED <<truth, emitted, sent, wire, books, seq, at, missed, faults>>
      /\ sock' = "open" \/ sock' = sock
  BY DEF Connect, vars, exchangeVars, sessionVars, historyVars
<1>2. Base'
  BY <1>1, InvTypes, BaseKept
<1>3. TypeOK'
  BY <1>1, <1>2, InvTypes, TypeOKNext
<1> QED  BY <1>1, <1>2, <1>3, DamageKept DEF Inv, EndIsFaulty, SessionEnds

LEMMA EnvironmentInv ==
  ASSUME Inv, Environment
  PROVE  Inv' /\ EndIsFaulty
<1>1. ASSUME NEW s \in Symbol, UpdateBook(s) PROVE Inv' /\ sock' = sock
  BY <1>1, UpdateBookInv DEF UpdateBook, sessionVars
<1>2. ASSUME NEW s \in Symbol,
             SendSnapshot(s) \/ RepeatSnapshot(s) \/ SendUpdate(s, "none") \/ LoseUpdate(s)
      PROVE  Inv' /\ sock' = sock
  BY <1>2, SnapshotsInv, SendUpdateInv, LoseUpdateInv
<1>3. ASSUME (\E k \in {"noise", "bad"} : SendOther(k)) \/ ServerClose
      PROVE  Inv' /\ sock' # "none"
  BY <1>3, AsideInv
<1> QED  BY <1>1, <1>2, <1>3 DEF Environment, EndIsFaulty, SessionEnds

LEMMA ReadInv ==
  ASSUME Inv, Read
  PROVE  Inv' /\ EndIsFaulty
<1>1. wire # <<>>
  BY DEF Read
<1>2. ASSUME \/ ReadSnapshot(Head(wire)) \/ ReadUpdate(Head(wire), TRUE)
             \/ ReadNoise(Head(wire))
      PROVE  Inv' /\ sock' = sock
  BY <1>1, <1>2, ReadSnapshotInv, ReadUpdateInv, ReadNoiseInv
<1>3. ASSUME ReadBad(Head(wire)) \/ ReadClose(Head(wire)) PROVE Inv' /\ EndIsFaulty
  BY <1>1, <1>3, ReadEndInv
<1> QED  BY <1>2, <1>3 DEF Read, EndIsFaulty, SessionEnds

LEMMA Preserved ==
  ASSUME Inv, [Next]_vars
  PROVE  Inv' /\ EndIsFaulty
  BY EnvironmentInv, ReadInv, SocketEndInv, KeptInv DEF Next, Driver

----------------------------------------------------------------------------
(* Theorems.                                                               *)

\* The chain of messages, the counters, the books and the faults stay together
\* in every behaviour: the inductive invariant of the feed.
THEOREM Invariant == Spec => []Inv
<1>1. Inv /\ [Next]_vars => Inv'
  BY Preserved
<1> QED  BY <1>1, InitInv, PTL DEF Spec

\* Every variable keeps its type: books hold no zero quantities, and messages
\* carry only what the exchange sends (coinbase.rs, parse_message).
THEOREM TypeCorrect == Spec => []TypeOK
<1>1. Inv => TypeOK
  BY DEF Inv
<1> QED  BY <1>1, Invariant, PTL

\* An update is counted without overflow in every session, as long as the
\* exchange's updates can be numbered: counters that outlive sessions are
\* never more than the updates made (coinbase.rs, next_seq).
THEOREM NumbersFit == Spec => []NextNumberFits
<1>1. Inv => NextNumberFits
  <2> SUFFICES ASSUME Inv, wire # <<>>, Head(wire).kind = "update"
               PROVE  seq[Head(wire).symbol] < IdMax
    BY DEF NextNumberFits
  <2> DEFINE s == Head(wire).symbol
  <2>1. s \in Symbol /\ IsUpdate(Head(wire), s)
    BY FrameFacts DEF IsUpdate
  <2> HIDE DEF s
  <2>2. seq[s] < IdMax
    BY <2>1, InvTypes, UpdateOutcome
  <2> QED  BY <2>2 DEF s
<1> QED  BY <1>1, Invariant, PTL

\* The number that the adapter gives the next update is the one its book
\* expects, however many sessions and unseeded updates came before
\* (coinbase.rs, next_seq, and feed.rs, apply_event).
THEOREM CountersMatch == Spec => []CounterMatchesBook
<1>1. Inv => CounterMatchesBook
  BY DEF Inv, Base
<1> QED  BY <1>1, Invariant, PTL

\* Lost updates, which the adapter cannot notice, leave a book wrong only at
\* prices that one of them touched.
THEOREM DamageIsConfined == Spec => []DamageConfined
<1>1. Inv => DamageConfined
  BY DEF Inv
<1> QED  BY <1>1, Invariant, PTL

\* The driver never ends a session on its own account, in the first session as
\* in every later one: each end has its cause on that session's connection, a
\* frame that does not parse or closes, the end of the stream or an error, and
\* an update never looks like a gap (coinbase.rs, next_seq, and feed.rs,
\* apply_event).
THEOREM OnlyFaultsEndSessions == Spec => NoSpuriousResync
<1>1. Inv /\ [Next]_vars =>
        [SessionEnds => faults' < MaxFaults /\ ConnectionLost]_vars
  BY Preserved DEF EndIsFaulty
<1> QED  BY <1>1, Invariant, PTL DEF Spec, NoSpuriousResync

----------------------------------------------------------------------------
(* The refinement.                                                         *)

\* A book that has missed nothing is the exchange's, as of its last message.
LEMMA Exact ==
  ASSUME Inv, NEW s \in Symbol, Seeded(s), Unbroken(s)
  PROVE  /\ at[s] \in 1 .. Len(truth[s]) /\ at[s] \in Nat \ {0}
         /\ truth[s][at[s]] \in ExchangeBook
         /\ books[s].bids = truth[s][at[s]].bids
         /\ books[s].asks = truth[s][at[s]].asks
<1>1. /\ at[s] \in Nat \ {0} /\ at[s] <= emitted[s] /\ emitted[s] <= Len(truth[s])
      /\ Len(truth[s]) \in Nat /\ emitted[s] \in Nat
  BY InvTypes, ReadRange DEF Base, Counters
<1>2. at[s] \in 1 .. Len(truth[s])
  BY <1>1
<1>3. truth[s][at[s]] \in ExchangeBook /\ books[s] \in Book /\ missed[s] \subseteq Nat
  BY <1>1, InvTypes, HistoryTypes, Types
<1>4. ~ \E k \in missed[s] : k <= at[s] /\ k > 1
  BY <1>1, <1>3 DEF Unbroken
<1>5. \A side \in Sides, p \in Price : books[s][side][p] = truth[s][at[s]][side][p]
  BY <1>4 DEF Inv, DamageConfined, Touched
<1>6. /\ books[s].bids \in Side /\ books[s].asks \in Side
      /\ truth[s][at[s]].bids \in Side /\ truth[s][at[s]].asks \in Side
  BY <1>3 DEF ExchangeBook, Book
<1>7. /\ books[s].bids = truth[s][at[s]].bids
      /\ books[s].asks = truth[s][at[s]].asks
  BY <1>5, <1>6 DEF Sides, Side
<1> QED  BY <1>1, <1>2, <1>3, <1>7

LEMMA ExactBooks == Inv => ExactWithoutLoss
<1> SUFFICES ASSUME Inv, NEW s \in Symbol, Seeded(s), Unbroken(s) PROVE Matches(s)
  BY DEF ExactWithoutLoss
<1>1. /\ truth[s][at[s]] \in ExchangeBook
      /\ books[s].bids = truth[s][at[s]].bids /\ books[s].asks = truth[s][at[s]].asks
  BY Exact
<1>2. \A k \in Sides : Shown(k, truth[s][at[s]][k]) = truth[s][at[s]][k]
  BY <1>1, ShownAll DEF ExchangeBook, Sides
<1> QED  BY <1>1, <1>2 DEF Matches, View, Sides

\* What a step does to the history and to what has been read of a symbol.
LEMMA Progress ==
  ASSUME Inv, Next, NEW s \in Symbol
  PROVE  Moves(s)
<1>1. at[s] \in Nat
  BY InvTypes, Types
<1>2. ASSUME truth' = truth, at' = at PROVE Moves(s)
  BY <1>1, <1>2 DEF Moves
<1>3. ASSUME EndSession, at' = at PROVE Moves(s)
  BY <1>2, <1>3 DEF EndSession, exchangeVars
<1>4. CASE Environment
  <2>1. ASSUME NEW z \in Symbol,
               SendSnapshot(z) \/ RepeatSnapshot(z) \/ SendUpdate(z, "none") \/ LoseUpdate(z)
        PROVE  truth' = truth /\ at' = at
    BY <2>1 DEF SendSnapshot, RepeatSnapshot, Snapshot, SendUpdate, BringUpToDate,
                LoseUpdate, historyVars
  <2>2. ASSUME NEW k \in {"noise", "bad"}, SendOther(k)
        PROVE  truth' = truth /\ at' = at
    BY <2>2 DEF SendOther, exchangeVars, historyVars
  <2>3. ASSUME ServerClose PROVE truth' = truth /\ at' = at
    BY <2>3 DEF ServerClose, exchangeVars, historyVars
  <2> QED  BY <1>2, <1>4, <2>1, <2>2, <2>3, InvTypes, MovesPublished DEF Environment
<1>5. CASE Connect
  BY <1>2, <1>5 DEF Connect, exchangeVars, historyVars
<1>6. CASE SocketEnds \/ SocketFails
  BY <1>3, <1>6 DEF SocketEnds, SocketFails, historyVars
<1>7. CASE Read
  <2> DEFINE f == Head(wire)
  <2>1. wire # <<>>
    BY <1>7 DEF Read
  <2>2. ASSUME ReadSnapshot(f) \/ ReadUpdate(f, TRUE) PROVE Moves(s)
    <3>1. f.symbol \in Symbol /\ About(f, f.symbol) /\ Base /\ wire \in Seq(Frame)
      BY <2>1, <2>2, InvTypes, FrameFacts DEF ReadSnapshot, ReadUpdate
    <3>2. truth' = truth /\ at' = [at EXCEPT ![f.symbol] = f.at]
      BY <2>2 DEF ReadSnapshot, ReadUpdate, Consume, EndSession, exchangeVars
    <3> QED  BY <2>1, <3>1, <3>2, MovesRead
  <2>3. ASSUME ReadNoise(f) PROVE truth' = truth /\ at' = at
    BY <2>3 DEF ReadNoise, Consume, exchangeVars, historyVars
  <2>4. ASSUME ReadBad(f) \/ ReadClose(f) PROVE EndSession /\ at' = at
    BY <2>4 DEF ReadBad, ReadClose, historyVars
  <2> QED  BY <1>2, <1>3, <1>7, <2>2, <2>3, <2>4 DEF Read
<1> QED  BY <1>4, <1>5, <1>6, <1>7 DEF Next, Driver

\* Each symbol keeps the promise of BookReplica, on the shared connection, for
\* as long as no update of it is lost: its view is installed from a snapshot,
\* moves only to later entries of the exchange's history, each time exactly,
\* and is discarded with the session.
THEOREM ImplementsReplica == Spec => ReplicaSpec
<1>1. Inv => Base /\ ExactWithoutLoss
  BY ExactBooks DEF Inv
<1>2. Views /\ Views' /\ Inv /\ [Next]_vars =>
        [\A s \in Symbol : [Replica(s)!Next]_(Replica(s)!vars)]_vars
  BY Progress, RefinesStep
<1> QED  BY <1>1, <1>2, ViewsNow, Invariant, RefinesInit, PTL DEF Spec, ReplicaSpec
============================================================================
