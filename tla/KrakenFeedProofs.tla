-------------------------- MODULE KrakenFeedProofs --------------------------
(***************************************************************************)
(* Proofs about KrakenFeed, for every set of symbols, prices, lists and    *)
(* precisions, every depth and every bound.  The inductive part is again   *)
(* the chain of messages of each symbol (SocketFeedProofs); beside it      *)
(* stand that a book of limited depth which has missed nothing is the view *)
(* the exchange shows, and what the checksums on the wire are taken of.    *)
(***************************************************************************)
EXTENDS KrakenFeed, SocketFeedProofs

\* The checksum of an update is taken of the exchange's book after it, with
\* some precision that the symbol has been listed with.
Sealed(f, t) ==
  f.kind = "update" =>
    \E p \in Precision : f.checksum = ChecksumOf(t[f.symbol][f.at], p)

\* A frame that knows the precision the symbol is listed with now.
Current(f, t, l) ==
  /\ f.kind = "instrument" => f.precision = l[f.symbol]
  /\ f.kind = "update" => f.checksum = ChecksumOf(t[f.symbol][f.at], l[f.symbol])

Honest ==
  \A i \in 1 .. Len(wire) :
    Sealed(wire[i], truth) /\ (faults = MaxFaults => Current(wire[i], truth, listed))

\* Before the first fault nothing is missed and no listing has changed.
Calm ==
  faults = MaxFaults =>
    \A s \in Symbol : missed[s] = {} /\ precision[s] \in {NotLearned, listed[s]}

Inv == TypeOK /\ Base /\ ExactWithoutLoss /\ Honest /\ Calm

----------------------------------------------------------------------------
(* Checksums.                                                              *)

\* A checksum is taken of what is shown of a book.
LEMMA ChecksumShown ==
  ASSUME NEW b, NEW c, NEW p, \A k \in Sides : Shown(k, b[k]) = Shown(k, c[k])
  PROVE  ChecksumOf(b, p) = ChecksumOf(c, p)
<1>1. /\ KeepTopBids(b.bids, Limit) = KeepTopBids(c.bids, Limit)
      /\ KeepTopAsks(b.asks, Limit) = KeepTopAsks(c.asks, Limit)
  BY DEF Sides, Shown
<1>2. TopAsks(b, Limit) = TopAsks(c, Limit) /\ TopBids(b, Limit) = TopBids(c, Limit)
  BY <1>1, Tops
<1> QED  BY <1>2 DEF ChecksumOf

----------------------------------------------------------------------------
(* The invariant is preserved.                                             *)

\* A session ends only with its connection, which a fault has broken, or by a
\* checksum that a fault has made wrong.
EndIsFaulty ==
  SessionEnds => faults' < MaxFaults /\ (ConnectionLost \/ ChecksumMayFail)

LEMMA InvTypes ==
  ASSUME Inv
  PROVE  /\ Base /\ BaseTypes /\ wire \in Seq(Frame)
         /\ sent \subseteq {"snapshot", "instrument"} \X Symbol /\ faults \in 0 .. MaxFaults
         /\ precision \in [Symbol -> Precision \cup {NotLearned}]
         /\ listed \in [Symbol -> Precision] /\ MaxFaults \in Nat
  BY BoundAssumption DEF Inv, TypeOK, Base

LEMMA TypeOKNext ==
  ASSUME Base', wire' \in Seq(Frame), sent' \subseteq {"snapshot", "instrument"} \X Symbol,
         precision' \in [Symbol -> Precision \cup {NotLearned}],
         listed' \in [Symbol -> Precision]
  PROVE  TypeOK'
  BY DEF TypeOK, Base, BaseTypes

LEMMA InitInv == KInit => Inv
<1> SUFFICES ASSUME KInit PROVE Inv
  OBVIOUS
<1>1. Init /\ Base
  BY BaseInit DEF KInit
<1>2. TypeOK
  BY <1>1 DEF TypeOK, Base, BaseTypes, KInit, Init
<1>3. ExactWithoutLoss
  BY <1>1 DEF ExactWithoutLoss, Seeded, NewBook, Init
<1>4. Honest /\ Calm
  BY <1>1 DEF Honest, Calm, KInit, Init
<1> QED  BY <1>1, <1>2, <1>3, <1>4 DEF Inv

\* The books and what was read of them stay as they are.
LEMMA ExactKept ==
  ASSUME Inv, UNCHANGED <<truth, books, at>>, \A s \in Symbol : missed[s] \subseteq missed'[s]
  PROVE  ExactWithoutLoss'
<1>1. \A s \in Symbol : /\ Matches(s)' <=> Matches(s)
                        /\ Unbroken(s)' => Unbroken(s)
                        /\ Seeded(s)' <=> Seeded(s)
  BY DEF Matches, View, Unbroken, Seeded
<1> QED  BY <1>1 DEF Inv, ExactWithoutLoss

\* A frame is sent or read, or the wire is dropped.
LEMMA HonestKept ==
  ASSUME Inv, truth' = truth, NEW f, Sealed(f, truth),
         faults' = MaxFaults =>
           faults = MaxFaults /\ listed' = listed /\ Current(f, truth, listed),
         \/ wire' \in {wire, Append(wire, f), <<>>}
         \/ wire # <<>> /\ wire' = Tail(wire)
  PROVE  Honest'
<1>1. wire \in Seq(Frame)
  BY InvTypes
<1>2. \A i \in 1 .. Len(wire') : wire'[i] = f \/ \E j \in 1 .. Len(wire) : wire'[i] = wire[j]
  <2>1. CASE wire' = wire \/ wire' = <<>>
    BY <2>1
  <2>2. CASE wire' = Append(wire, f)
    <3>1. /\ Len(wire') = Len(wire) + 1 /\ Len(wire) \in Nat
          /\ \A i \in 1 .. Len(wire) : wire'[i] = wire[i]
          /\ wire'[Len(wire) + 1] = f
      BY <1>1, <2>2, AppendFacts
    <3> QED  BY <3>1
  <2>3. CASE wire # <<>> /\ wire' = Tail(wire)
    <3>1. /\ Len(wire') = Len(wire) - 1 /\ Len(wire) \in Nat
          /\ \A i \in 1 .. Len(wire') : wire'[i] = wire[i + 1]
      BY <1>1, <2>3, HeadTailProperties
    <3> QED  BY <3>1
  <2> QED  BY <2>1, <2>2, <2>3
<1>3. /\ \A j \in 1 .. Len(wire) : Sealed(wire[j], truth)
      /\ faults = MaxFaults => \A j \in 1 .. Len(wire) : Current(wire[j], truth, listed)
  BY DEF Inv, Honest
<1>4. ASSUME NEW i \in 1 .. Len(wire')
      PROVE  Sealed(wire'[i], truth) /\ (faults' = MaxFaults => Current(wire'[i], truth, listed'))
  BY <1>2, <1>3
<1> QED  BY <1>4 DEF Honest

\* A frame that is about no book and no listing.
LEMMA Indifferent ==
  ASSUME NEW k \in {"noise", "bad", "close"}, NEW t, NEW l
  PROVE  /\ [kind |-> k] \in Frame /\ \A z : ~About([kind |-> k], z)
         /\ Sealed([kind |-> k], t) /\ Current([kind |-> k], t, l)
  BY DEF Frame, About, Sealed, Current

\* The wire gets shorter or is dropped.
LEMMA HonestLess ==
  ASSUME Inv, truth' = truth, faults' = MaxFaults => faults = MaxFaults /\ listed' = listed,
         \/ wire' = wire \/ wire' = <<>>
         \/ wire # <<>> /\ wire' = Tail(wire)
  PROVE  Honest'
<1> DEFINE f == [kind |-> "noise"]
<1>1. Sealed(f, truth) /\ Current(f, truth, listed)
  BY Indifferent
<1> HIDE DEF f
<1> QED  BY <1>1, HonestKept

\* Nothing is missed that was not, and the adapter learns nothing new.
LEMMA CalmKept ==
  ASSUME Inv, faults' = MaxFaults =>
           /\ faults = MaxFaults /\ UNCHANGED precisionVars
           /\ \A s \in Symbol : missed'[s] \subseteq missed[s]
  PROVE  Calm'
<1> SUFFICES ASSUME faults' = MaxFaults, NEW s \in Symbol
             PROVE  missed'[s] = {} /\ precision'[s] \in {NotLearned, listed'[s]}
  BY DEF Calm
<1>1. missed[s] = {} /\ precision[s] \in {NotLearned, listed[s]}
  BY DEF Inv, Calm
<1> QED  BY <1>1 DEF precisionVars

LEMMA UpdateBookInv ==
  ASSUME Inv, NEW s \in Symbol, UpdateBook(s), UNCHANGED precisionVars
  PROVE  Inv' /\ sock' = sock
<1> USE DEF UpdateBook, sessionVars, historyVars, precisionVars
<1>1. Base'
  BY InvTypes, BaseUpdateBook
<1>2. TypeOK'
  BY <1>1, InvTypes, TypeOKNext
<1>3. ASSUME NEW z \in Symbol, NEW i \in 1 .. emitted[z]
      PROVE  truth'[z][i] = truth[z][i]
  <2>1. i \in 1 .. Len(truth[z])
    BY InvTypes, ReadRange
  <2> QED  BY <2>1, InvTypes, Lengthened
<1>4. ExactWithoutLoss'
  <2> SUFFICES ASSUME NEW z \in Symbol, Seeded(z), Unbroken(z)
               PROVE  Matches(z)'
    BY DEF ExactWithoutLoss, Seeded, Unbroken
  <2>1. Matches(z) /\ at[z] \in 1 .. emitted[z]
    BY InvTypes, ReadRange DEF Inv, ExactWithoutLoss, Base, Counters
  <2>2. truth'[z][at[z]] = truth[z][at[z]]
    BY <1>3, <2>1
  <2> QED  BY <2>1, <2>2 DEF Matches, View
<1>5. Honest'
  <2> SUFFICES ASSUME NEW i \in 1 .. Len(wire)
               PROVE  /\ Sealed(wire[i], truth')
                      /\ faults = MaxFaults => Current(wire[i], truth', listed)
    BY DEF Honest
  <2>1. Sealed(wire[i], truth) /\ (faults = MaxFaults => Current(wire[i], truth, listed))
    BY DEF Inv, Honest
  <2>2. ASSUME wire[i].kind = "update"
        PROVE  truth'[wire[i].symbol][wire[i].at] = truth[wire[i].symbol][wire[i].at]
    <3> DEFINE z == wire[i].symbol
    <3>1. wire[i] \in Frame
      BY InvTypes, ElementOfSeq
    <3>2. z \in Symbol /\ About(wire[i], z)
      BY <2>2, <3>1 DEF Frame, About
    <3> HIDE DEF z
    <3>3. InOrder(z, wire, at[z], emitted[z]) /\ emitted[z] \in Nat
      BY <3>2, InvTypes, ReadRange DEF Base, Chains, Chain
    <3>4. wire[i].at \in 1 .. emitted[z]
      BY <3>2, <3>3 DEF InOrder
    <3>5. truth'[z][wire[i].at] = truth[z][wire[i].at]
      BY <1>3, <3>2, <3>4
    <3> QED  BY <3>5 DEF z
  <2> QED  BY <2>1, <2>2 DEF Sealed, Current
<1>6. Calm'
  BY CalmKept
<1> QED  BY <1>1, <1>2, <1>4, <1>5, <1>6 DEF Inv

LEMMA SnapshotsInv ==
  ASSUME Inv, NEW s \in Symbol, SendSnapshot(s) \/ RepeatSnapshot(s), UNCHANGED precisionVars
  PROVE  Inv' /\ sock' = sock
<1>1. Snapshot(s)
  BY DEF SendSnapshot, RepeatSnapshot
<1>2. sent' \subseteq {"snapshot", "instrument"} \X Symbol
  BY InvTypes DEF SendSnapshot, RepeatSnapshot
<1>3. /\ faults' \in 0 .. MaxFaults /\ faults' \in {faults, faults - 1}
      /\ faults' = MaxFaults => faults = MaxFaults
  <2>1. CASE SendSnapshot(s)
    BY <2>1, InvTypes DEF SendSnapshot
  <2>2. CASE RepeatSnapshot(s)
    BY <2>2, InvTypes, FaultFacts DEF RepeatSnapshot
  <2> QED  BY <2>1, <2>2
<1>4. /\ Base'
      /\ \E b, a \in LevelList :
           wire' = Append(wire, [kind |-> "snapshot", symbol |-> s, bids |-> b,
                                 asks |-> a, at |-> Now(s)])
  BY <1>1, <1>3, InvTypes, BaseSnapshot
<1>5. PICK b \in LevelList, a \in LevelList :
        wire' = Append(wire, [kind |-> "snapshot", symbol |-> s, bids |-> b,
                              asks |-> a, at |-> Now(s)])
  BY <1>4
<1> DEFINE f == [kind |-> "snapshot", symbol |-> s, bids |-> b, asks |-> a, at |-> Now(s)]
<1>6. f \in Frame /\ Sealed(f, truth) /\ Current(f, truth, listed)
  BY InvTypes, Types DEF Frame, Sealed, Current
<1>7. UNCHANGED <<truth, sock, books, at, missed, precision, listed>>
  BY <1>1 DEF Snapshot, BringUpToDate, historyVars, precisionVars
<1>8. wire' = Append(wire, f)
  BY <1>5
<1> HIDE DEF f
<1>9. TypeOK'
  BY <1>2, <1>4, <1>6, <1>7, <1>8, InvTypes, TypeOKNext
<1>10. ExactWithoutLoss' /\ Calm'
  BY <1>3, <1>7, ExactKept, CalmKept
<1>11. Honest'
  BY <1>3, <1>6, <1>7, <1>8, HonestKept
<1> QED  BY <1>4, <1>7, <1>9, <1>10, <1>11 DEF Inv

\* The newest book of the exchange has a checksum.
LEMMA ChecksumType ==
  ASSUME Inv, NEW s \in Symbol
  PROVE  /\ listed[s] \in Precision
         /\ ChecksumOf(truth[s][Now(s)], listed[s]) \in Checksums
<1>1. Now(s) \in 1 .. Len(truth[s]) /\ truth[s] \in Seq(ExchangeBook)
  <2>1. BaseTypes
    BY InvTypes
  <2>2. /\ truth[s] \in Seq(ExchangeBook) /\ emitted[s] \in 1 .. Now(s)
        /\ Now(s) = Len(truth[s]) /\ Now(s) \in Nat
    BY <2>1, Types
  <2> QED  BY <2>2
<1>2. truth[s][Now(s)] \in [bids : Side, asks : Side]
  BY <1>1, ElementOfSeq DEF ExchangeBook
<1>3. listed[s] \in Precision
  BY InvTypes
<1> QED  BY <1>2, <1>3 DEF Checksums

LEMMA SendUpdateInv ==
  ASSUME Inv, NEW s \in Symbol, SendKrakenUpdate(s), UNCHANGED precisionVars
  PROVE  Inv' /\ sock' = sock
<1> DEFINE c == ChecksumOf(truth[s][Now(s)], listed[s])
<1>1. c \in Checksums /\ listed[s] \in Precision
  BY ChecksumType
<1>2. c = ChecksumOf(truth[s][Now(s)], listed[s]) /\ SendUpdate(s, c)
  BY DEF SendKrakenUpdate
<1> HIDE DEF c
<1>3. /\ Base'
      /\ \E b, a \in LevelList :
           wire' = Append(wire, [kind |-> "update", symbol |-> s, bids |-> b, asks |-> a,
                                 at |-> Now(s), checksum |-> c])
  BY <1>2, InvTypes, BaseSendUpdate
<1>4. PICK b \in LevelList, a \in LevelList :
        wire' = Append(wire, [kind |-> "update", symbol |-> s, bids |-> b, asks |-> a,
                              at |-> Now(s), checksum |-> c])
  BY <1>3
<1> DEFINE f == [kind |-> "update", symbol |-> s, bids |-> b, asks |-> a,
                 at |-> Now(s), checksum |-> c]
<1>5. f \in Frame
  <2>1. Now(s) \in Nat
    BY InvTypes, Types
  <2> QED  BY <1>1, <2>1 DEF Frame
<1>6. Sealed(f, truth) /\ Current(f, truth, listed)
  BY <1>1, <1>2 DEF Sealed, Current
<1>7. wire' = Append(wire, f)
  BY <1>4
<1> HIDE DEF f
<1>8. UNCHANGED <<truth, sent, sock, books, at, missed, faults, precision, listed>>
  BY <1>2 DEF SendUpdate, BringUpToDate, historyVars, precisionVars
<1>9. TypeOK'
  BY <1>3, <1>5, <1>7, <1>8, InvTypes, TypeOKNext
<1>10. ExactWithoutLoss' /\ Calm'
  BY <1>8, ExactKept, CalmKept
<1>11. Honest'
  BY <1>6, <1>7, <1>8, HonestKept
<1> QED  BY <1>3, <1>8, <1>9, <1>10, <1>11 DEF Inv

LEMMA LoseUpdateInv ==
  ASSUME Inv, NEW s \in Symbol, LoseUpdate(s), UNCHANGED precisionVars
  PROVE  Inv' /\ sock' = sock
<1>1. Base'
  BY InvTypes, BaseLoseUpdate
<1>2. UNCHANGED <<truth, sent, sock, wire, books, at, precision, listed>>
  BY DEF LoseUpdate, sessionVars, precisionVars
<1>3. faults' < MaxFaults
  BY InvTypes, FaultFacts DEF LoseUpdate
<1>4. TypeOK'
  BY <1>1, <1>2, InvTypes, TypeOKNext
<1>5. \A z \in Symbol : missed[z] \subseteq missed'[z]
  BY DEF LoseUpdate, Inv, TypeOK
<1>6. ExactWithoutLoss'
  BY <1>2, <1>5, ExactKept
<1>7. Honest' /\ Calm'
  BY <1>2, <1>3, InvTypes, HonestLess, CalmKept
<1> QED  BY <1>1, <1>2, <1>4, <1>6, <1>7 DEF Inv

\* A frame about no book is sent, or the server goes away.
LEMMA AsideInv ==
  ASSUME Inv, (\E k \in {"noise", "bad"} : SendOther(k)) \/ ServerClose,
         UNCHANGED precisionVars
  PROVE  Inv' /\ sock' # "none"
<1>1. faults' \in 0 .. MaxFaults /\ faults' < MaxFaults
  BY InvTypes, FaultFacts DEF SendOther, ServerClose
<1>2. PICK k \in {"noise", "bad", "close"} : wire' \in {wire, Append(wire, [kind |-> k])}
  BY DEF SendOther, ServerClose
<1> DEFINE f == [kind |-> k]
<1>3. /\ f \in Frame /\ \A z : ~About(f, z)
      /\ Sealed(f, truth) /\ Current(f, truth, listed)
  BY Indifferent
<1>4. wire' \in {wire, Append(wire, f)}
  BY <1>2
<1> HIDE DEF f
<1>5. /\ UNCHANGED <<truth, emitted, sent, books, seq, at, missed, precision, listed>>
      /\ sock' \in {"open", "closed"}
  BY DEF SendOther, ServerClose, exchangeVars, historyVars, precisionVars
<1>6. Base'
  BY <1>1, <1>3, <1>4, <1>5, InvTypes, BaseAside
<1>7. TypeOK'
  BY <1>3, <1>4, <1>5, <1>6, InvTypes, TypeOKNext
<1>8. ExactWithoutLoss' /\ Calm'
  BY <1>1, <1>5, InvTypes, ExactKept, CalmKept
<1>9. Honest'
  <2>1. faults' # MaxFaults
    BY <1>1, InvTypes
  <2> QED  BY <1>3, <1>4, <1>5, <2>1, HonestKept
<1> QED  BY <1>5, <1>6, <1>7, <1>8, <1>9 DEF Inv

LEMMA SendInstrumentInv ==
  ASSUME Inv, NEW s \in Symbol, SendInstrument(s)
  PROVE  Inv' /\ sock' = sock
<1> DEFINE f == [kind |-> "instrument", symbol |-> s, precision |-> listed[s]]
<1>1. f \in Frame /\ (\A z : ~About(f, z)) /\ f.kind \notin {"bad", "close"}
  BY InvTypes DEF Frame, About
<1>2. Sealed(f, truth) /\ Current(f, truth, listed)
  BY DEF Sealed, Current
<1>3. wire' = Append(wire, f)
  BY DEF SendInstrument
<1> HIDE DEF f
<1>4. UNCHANGED <<truth, emitted, sock, books, seq, at, missed, faults, precision, listed>>
  BY DEF SendInstrument, exchangeVars, historyVars, precisionVars
<1>5. sent' \subseteq {"snapshot", "instrument"} \X Symbol
  BY InvTypes DEF SendInstrument
<1>6. sock \in {"none", "open", "closed"}
  BY InvTypes DEF BaseTypes
<1>7. Base'
  BY <1>1, <1>3, <1>4, <1>6, InvTypes, BaseAside
<1>8. TypeOK'
  BY <1>1, <1>3, <1>4, <1>5, <1>7, InvTypes, TypeOKNext
<1>9. ExactWithoutLoss' /\ Calm'
  BY <1>4, ExactKept, CalmKept DEF precisionVars
<1>10. Honest'
  BY <1>2, <1>3, <1>4, HonestKept
<1> QED  BY <1>4, <1>7, <1>8, <1>9, <1>10 DEF Inv

LEMMA ChangePrecisionInv ==
  ASSUME Inv, NEW s \in Symbol, ChangePrecision(s)
  PROVE  Inv' /\ sock' = sock
<1>1. faults' \in 0 .. MaxFaults /\ faults' < MaxFaults
  BY InvTypes, FaultFacts DEF ChangePrecision
<1>2. UNCHANGED <<truth, emitted, sock, wire, books, seq, at, missed, precision>>
  BY DEF ChangePrecision, exchangeVars, historyVars
<1>3. listed' \in [Symbol -> Precision] /\ sent' \subseteq {"snapshot", "instrument"} \X Symbol
  BY InvTypes DEF ChangePrecision
<1>4. sock \in {"none", "open", "closed"}
  BY InvTypes DEF BaseTypes
<1>5. Base'
  <2> DEFINE f == [kind |-> "noise"]
  <2>1. \A z : ~About(f, z)
    BY Indifferent
  <2> HIDE DEF f
  <2> QED  BY <1>1, <1>2, <1>4, <2>1, InvTypes, BaseAside
<1>6. TypeOK'
  BY <1>2, <1>3, <1>5, InvTypes, TypeOKNext
<1>7. ExactWithoutLoss' /\ Calm' /\ Honest'
  BY <1>1, <1>2, InvTypes, ExactKept, CalmKept, HonestLess
<1> QED  BY <1>2, <1>5, <1>6, <1>7 DEF Inv

----------------------------------------------------------------------------
(* The steps of the driver.                                                *)

\* A session ends.
LEMMA EndSessionInv ==
  ASSUME Inv, EndSession, UNCHANGED <<historyVars, seq, precisionVars>>,
         faults' \in 0 .. MaxFaults, faults' = MaxFaults => faults = MaxFaults
  PROVE  Inv'
<1> USE DEF precisionVars
<1>1. Base'
  <2>1. seq' \in [Symbol -> Id] /\ \A s \in Symbol : seq'[s] = seq[s]
    BY InvTypes DEF BaseTypes
  <2> QED  BY <2>1, InvTypes, BaseEndOnly
<1>2. wire' = <<>> /\ sent' = {} /\ truth' = truth
  BY DEF EndSession, exchangeVars
<1>3. TypeOK'
  BY <1>1, <1>2, InvTypes, TypeOKNext
<1>4. ExactWithoutLoss'
  BY DEF ExactWithoutLoss, EndSession, Seeded, NewBook
<1>5. Honest' /\ Calm'
  BY <1>2, HonestLess, CalmKept DEF historyVars
<1> QED  BY <1>1, <1>3, <1>4, <1>5 DEF Inv

\* What a frame about a symbol is made of.
LEMMA FrameFacts ==
  ASSUME Inv, wire # <<>>, Head(wire).kind \in {"snapshot", "update"}
  PROVE  /\ Head(wire).symbol \in Symbol /\ About(Head(wire), Head(wire).symbol)
         /\ Head(wire).bids \in Seq(Level) /\ Head(wire).asks \in Seq(Level)
<1>1. Head(wire) \in Frame
  BY InvTypes, HeadTailProperties
<1> QED  BY <1>1, LevelListAssumption DEF Frame, About

\* What the next update was sealed with.
LEMMA HeadHonest ==
  ASSUME Inv, wire # <<>>
  PROVE  /\ Sealed(Head(wire), truth)
         /\ faults = MaxFaults => Current(Head(wire), truth, listed)
<1>1. 1 \in 1 .. Len(wire) /\ Head(wire) = wire[1]
  BY InvTypes, HeadTailProperties
<1> QED  BY <1>1 DEF Inv, Honest

LEMMA TailTyped ==
  ASSUME Inv, wire # <<>>, Base', Consume, listed' = listed,
         precision' \in [Symbol -> Precision \cup {NotLearned}]
  PROVE  TypeOK' /\ sock' = sock /\ truth' = truth /\ wire' = Tail(wire)
<1>1. Tail(wire) \in Seq(Frame) /\ sent \subseteq {"snapshot", "instrument"} \X Symbol
  BY InvTypes, HeadTailProperties
<1> QED  BY <1>1, InvTypes, TypeOKNext DEF Consume, exchangeVars

LEMMA ReadNoiseInv ==
  ASSUME Inv, wire # <<>>, ReadNoise(Head(wire)), UNCHANGED precisionVars
  PROVE  Inv' /\ sock' = sock
<1>1. Consume /\ UNCHANGED <<truth, books, seq, at, missed, faults, precision, listed>>
  BY DEF ReadNoise, Consume, exchangeVars, historyVars, precisionVars
<1>2. \A z : ~About(Head(wire), z)
  BY DEF ReadNoise, About
<1>3. Base'
  BY <1>1, <1>2, InvTypes, BaseSkip
<1>4. TypeOK' /\ sock' = sock /\ wire' = Tail(wire)
  BY <1>1, <1>3, InvTypes, TailTyped
<1>5. ExactWithoutLoss' /\ Honest' /\ Calm'
  BY <1>1, <1>4, ExactKept, HonestLess, CalmKept
<1> QED  BY <1>3, <1>4, <1>5 DEF Inv

LEMMA ReadInstrumentInv ==
  ASSUME Inv, wire # <<>>, ReadInstrument(Head(wire)), UNCHANGED listed
  PROVE  Inv' /\ sock' = sock
<1> DEFINE f == Head(wire)
<1>1. Consume /\ UNCHANGED <<truth, books, seq, at, missed, faults, listed>>
  BY DEF ReadInstrument, Consume, exchangeVars, historyVars
<1>2. \A z : ~About(f, z)
  BY DEF ReadInstrument, About
<1>3. f.kind = "instrument" /\ f.symbol \in Symbol /\ f.precision \in Precision
  <2>1. f \in Frame
    BY InvTypes, HeadTailProperties
  <2>2. f.kind = "instrument"
    BY DEF ReadInstrument
  <2> HIDE DEF f
  <2> QED  BY <2>1, <2>2 DEF Frame
<1>4. precision' = [precision EXCEPT ![f.symbol] = f.precision]
  BY DEF ReadInstrument
<1>5. faults = MaxFaults => f.precision = listed[f.symbol]
  BY <1>3, HeadHonest DEF Current
<1>6. Base'
  BY <1>1, <1>2, InvTypes, BaseSkip
<1> HIDE DEF f
<1>7. /\ precision' \in [Symbol -> Precision \cup {NotLearned}]
      /\ \A z \in Symbol : precision'[z] = IF z = f.symbol THEN f.precision ELSE precision[z]
  BY <1>3, <1>4, InvTypes
<1>8. TypeOK' /\ sock' = sock /\ wire' = Tail(wire)
  BY <1>1, <1>6, <1>7, InvTypes, TailTyped
<1>9. ExactWithoutLoss' /\ Honest'
  BY <1>1, <1>8, ExactKept, HonestLess
<1>10. Calm'
  BY <1>1, <1>5, <1>7 DEF Inv, Calm
<1> QED  BY <1>6, <1>8, <1>9, <1>10 DEF Inv

LEMMA ReadSnapshotInv ==
  ASSUME Inv, wire # <<>>, ReadSnapshot(Head(wire)), UNCHANGED precisionVars
  PROVE  /\ Inv' /\ sock' = sock
         /\ \A s \in Symbol : at'[s] # at[s] => Matches(s)'
<1>0. Head(wire).bids \in Seq(Level) /\ Head(wire).asks \in Seq(Level)
  BY FrameFacts DEF ReadSnapshot
<1>1. PICK s \in Symbol : Head(wire).symbol = s
  BY FrameFacts DEF ReadSnapshot
<1>2. /\ Base' /\ \A k \in Sides : books'[s][k] = Shown(k, truth[s][at'[s]][k])
      /\ \A z \in Symbol \ {s} : /\ books'[z] = books[z] /\ at'[z] = at[z]
                                 /\ missed'[z] = missed[z]
  BY <1>0, <1>1, InvTypes, BaseReadSnapshot
<1>3. Consume /\ UNCHANGED <<precision, listed, faults>>
  BY DEF ReadSnapshot, precisionVars
<1>4. TypeOK' /\ sock' = sock /\ truth' = truth /\ wire' = Tail(wire)
  BY <1>2, <1>3, InvTypes, TailTyped
<1>5. Matches(s)'
  BY <1>2, <1>4 DEF Matches, View
<1>6. ASSUME NEW z \in Symbol, z # s
      PROVE  /\ Matches(z)' <=> Matches(z)
             /\ Seeded(z)' <=> Seeded(z)
             /\ Unbroken(z)' <=> Unbroken(z)
  BY <1>2, <1>4, <1>6 DEF Matches, View, Seeded, Unbroken
<1>7. ExactWithoutLoss'
  BY <1>5, <1>6 DEF Inv, ExactWithoutLoss
<1>8. Honest'
  BY <1>3, <1>4, HonestLess
<1>9. Calm'
  <2>1. \A z \in Symbol : missed'[z] \subseteq missed[z]
    BY <1>1, InvTypes DEF ReadSnapshot, BaseTypes
  <2> QED  BY <1>3, <2>1, CalmKept DEF precisionVars
<1>10. \A z \in Symbol : at'[z] # at[z] => Matches(z)'
  BY <1>2, <1>5
<1> QED  BY <1>2, <1>4, <1>7, <1>8, <1>9, <1>10 DEF Inv

\* The book that an update leaves is cut to what is shown of it.
LEMMA UpdatedCut ==
  ASSUME Inv, wire # <<>>, ReadKrakenUpdate(Head(wire)), NEW s \in Symbol,
         Head(wire).symbol = s
  PROVE  LET f == Head(wire) IN
           /\ Updated(f) \in Book /\ Updated(f).initialized = books[s].initialized
           /\ Updated(f).bids = Shown("bids", SetLevels(books[s].bids, f.bids))
           /\ Updated(f).asks = Shown("asks", SetLevels(books[s].asks, f.asks))
           /\ \A k \in Sides : Shown(k, Updated(f)[k]) = Updated(f)[k]
<1> DEFINE f == Head(wire)
<1>1. IsUpdate(f, s) /\ f.bids \in Seq(Level) /\ f.asks \in Seq(Level)
  BY FrameFacts DEF ReadKrakenUpdate, IsUpdate
<1>2. Succ(seq[s]) \in Id /\ books[s] \in Book
  BY <1>1, InvTypes, UpdateOutcome, Types
<1> HIDE DEF f
<1>3. /\ Updated(f) \in Book /\ Updated(f).initialized = books[s].initialized
      /\ Updated(f).bids = Shown("bids", SetLevels(books[s].bids, f.bids))
      /\ Updated(f).asks = Shown("asks", SetLevels(books[s].asks, f.asks))
  BY <1>1, <1>2, UpdatedType DEF f
<1>4. SetLevels(books[s].bids, f.bids) \in Side /\ SetLevels(books[s].asks, f.asks) \in Side
  BY <1>1, <1>2, SetLevelsType DEF Book
<1>5. \A k \in Sides : Shown(k, Updated(f)[k]) = Updated(f)[k]
  BY <1>3, <1>4, ShownTwice DEF Sides
<1> QED  BY <1>3, <1>5 DEF f

\* A seeded book that has missed nothing up to an update becomes what the
\* exchange shows after it.
LEMMA UpdatedExact ==
  ASSUME Inv, wire # <<>>, ReadKrakenUpdate(Head(wire)), NEW s \in Symbol,
         Head(wire).symbol = s, Seeded(s), missed[s] \cap (1 .. Head(wire).at) = {}
  PROVE  \A k \in Sides : Updated(Head(wire))[k] = Shown(k, truth[s][Head(wire).at][k])
<1> DEFINE f == Head(wire)
<1>1. /\ IsUpdate(f, s) /\ About(f, s)
      /\ f.bids \in Seq(Level) /\ f.asks \in Seq(Level)
  BY FrameFacts DEF ReadKrakenUpdate, IsUpdate
<1>2. /\ f.at \in Nat \ {0} /\ f.at <= emitted[s] /\ emitted[s] \in Nat
      /\ Chain(s, wire, at[s], emitted[s], missed[s], Seeded(s), truth[s])
  BY <1>1, InvTypes, HeadFacts, ReadRange
<1>3. PICK b \in Nat \ {0} : TellsFrom(f, at[s], missed[s], Seeded(s), truth[s], b)
  BY <1>1, <1>2, InvTypes, ChainHead
<1> HIDE DEF f
<1>4. at[s] \in Nat \ {0} /\ missed[s] \subseteq Nat
  BY InvTypes, Types DEF Base, Counters
<1>5. b = at[s]
  <2>1. at[s] <= b /\ b < f.at /\ b \in 1 .. b /\ b \in 1 .. f.at
    BY <1>2, <1>3 DEF TellsFrom
  <2>2. b <= at[s] \/ b \in missed[s]
    BY <1>3, <2>1 DEF TellsFrom
  <2> QED  BY <1>4, <2>1, <2>2 DEF f
<1>6. at[s] < f.at /\ Reported(f.bids, f.asks, truth[s][at[s]], truth[s][f.at])
  BY <1>3, <1>5 DEF TellsFrom
<1>7. Matches(s)
  <2>1. Unbroken(s)
    BY <1>2, <1>4, <1>6 DEF Unbroken, f
  <2> QED  BY <2>1 DEF Inv, ExactWithoutLoss
<1> DEFINE then == truth[s][at[s]]
           now  == truth[s][f.at]
<1>8. then.bids \in Side /\ then.asks \in Side /\ now.bids \in Side /\ now.asks \in Side
  <2>1. at[s] \in 1 .. emitted[s] /\ f.at \in 1 .. emitted[s]
    BY <1>2, <1>4, <1>6
  <2> QED  BY <2>1, InvTypes, HistoryTypes
<1>9. books[s].bids = Shown("bids", then.bids) /\ books[s].asks = Shown("asks", then.asks)
  BY <1>7 DEF Matches, View, Sides
<1>10. /\ Told("bids", f.bids, then.bids, now.bids)
       /\ Told("asks", f.asks, then.asks, now.asks)
  BY <1>6 DEF Reported
<1> HIDE DEF then, now
<1>11. /\ Shown("bids", SetLevels(Shown("bids", then.bids), f.bids)) = Shown("bids", now.bids)
       /\ Shown("asks", SetLevels(Shown("asks", then.asks), f.asks)) = Shown("asks", now.asks)
  BY <1>1, <1>8, <1>10, ToldShows DEF Sides
<1>12. /\ Updated(f).bids = Shown("bids", SetLevels(books[s].bids, f.bids))
       /\ Updated(f).asks = Shown("asks", SetLevels(books[s].asks, f.asks))
  BY UpdatedCut DEF f
<1>13. \A k \in Sides : Updated(f)[k] = Shown(k, now[k])
  BY <1>9, <1>11, <1>12 DEF Sides
<1> QED  BY <1>13 DEF f, now

\* The checksum of a book that has missed nothing is right, in every session,
\* unless the exchange took it with another precision.
LEMMA ChecksumHolds ==
  ASSUME Inv, wire # <<>>, ReadKrakenUpdate(Head(wire)), NEW s \in Symbol,
         Head(wire).symbol = s, Seeded(s), ~ChecksumMayFail
  PROVE  VerifyChecksum(s, Updated(Head(wire)), Head(wire).checksum)
<1> DEFINE f == Head(wire)
           b == truth[s][f.at]
<1>1. /\ ~ \E k \in missed[s] : k <= f.at
      /\ precision[s] = NotLearned \/ f.checksum = ChecksumOf(b, precision[s])
  BY DEF ChecksumMayFail, ReadKrakenUpdate
<1>2. missed[s] \cap (1 .. f.at) = {}
  BY <1>1
<1>3. \A k \in Sides : Shown(k, Updated(f)[k]) = Shown(k, b[k])
  <2>1. \A k \in Sides : Updated(f)[k] = Shown(k, b[k])
    BY <1>2, UpdatedExact
  <2>2. \A k \in Sides : Shown(k, Updated(f)[k]) = Updated(f)[k]
    BY UpdatedCut
  <2> QED  BY <2>1, <2>2
<1> HIDE DEF f, b
<1>4. ChecksumOf(Updated(f), precision[s]) = ChecksumOf(b, precision[s])
  <2> DEFINE new == Updated(f)
             p   == precision[s]
  <2>1. \A k \in Sides : Shown(k, new[k]) = Shown(k, b[k])
    BY <1>3
  <2> HIDE DEF new, p
  <2>2. ChecksumOf(new, p) = ChecksumOf(b, p)
    BY <2>1, ChecksumShown
  <2> QED  BY <2>2 DEF new, p
<1> QED  BY <1>1, <1>4 DEF VerifyChecksum, f

\* Before the first fault no checksum can fail.
LEMMA CalmHolds ==
  ASSUME Inv, ChecksumMayFail
  PROVE  faults < MaxFaults
<1> SUFFICES ASSUME faults = MaxFaults PROVE FALSE
  BY InvTypes
<1> DEFINE f == Head(wire)
           s == f.symbol
<1>1. wire # <<>> /\ f.kind = "update"
  BY DEF ChecksumMayFail
<1>2. s \in Symbol
  BY <1>1, FrameFacts
<1>3. missed[s] = {} /\ precision[s] \in {NotLearned, listed[s]}
  BY <1>2 DEF Inv, Calm
<1>4. f.checksum = ChecksumOf(truth[s][f.at], listed[s])
  BY <1>1, HeadHonest DEF Current
<1>5. \/ \E k \in missed[s] : k <= f.at
      \/ precision[s] # NotLearned /\ f.checksum # ChecksumOf(truth[s][f.at], precision[s])
  BY DEF ChecksumMayFail
<1> HIDE DEF s, f
<1> QED  BY <1>3, <1>4, <1>5

LEMMA ReadUpdateInv ==
  ASSUME Inv, wire # <<>>, ReadKrakenUpdate(Head(wire)), UNCHANGED precisionVars
  PROVE  Inv' /\ EndIsFaulty
<1> DEFINE f == Head(wire)
<1>0. f.bids \in Seq(Level) /\ f.asks \in Seq(Level)
  BY FrameFacts DEF ReadKrakenUpdate
<1>1. PICK s \in Symbol : f.symbol = s /\ About(f, s)
  BY FrameFacts DEF ReadKrakenUpdate
<1> DEFINE verified == VerifyChecksum(s, Updated(f), f.checksum)
<1>2. f.at \in Nat
  BY <1>1, InvTypes, HeadFacts
<1>3. ReadUpdate(f, verified)
  BY <1>1 DEF ReadKrakenUpdate
<1> HIDE DEF verified
<1>4. Base'
  BY <1>0, <1>1, <1>3, InvTypes, BaseReadUpdate
<1>5. /\ UNCHANGED <<truth, emitted, missed, faults>>
      /\ at' = [at EXCEPT ![s] = f.at]
      /\ \/ Seeded(s) /\ ~verified /\ EndSession
         \/ Seeded(s) /\ verified /\ books' = [books EXCEPT ![s] = Updated(f)] /\ Consume
         \/ ~Seeded(s) /\ books' = books /\ Consume
  BY <1>1, <1>3, InvTypes, UpdateEffect
<1>6. Calm'
  BY <1>5, CalmKept
<1>7. CASE Seeded(s) /\ ~verified /\ EndSession
  <2>1. ChecksumMayFail /\ faults < MaxFaults
    <3>1. ChecksumMayFail
      BY <1>1, <1>7, ChecksumHolds DEF verified
    <3> QED  BY <3>1, CalmHolds
  <2>2. wire' = <<>> /\ sent' = {}
    BY <1>7 DEF EndSession
  <2>3. TypeOK'
    BY <1>4, <2>2, InvTypes, TypeOKNext DEF precisionVars
  <2>4. ExactWithoutLoss'
    BY <1>7 DEF ExactWithoutLoss, EndSession, Seeded, NewBook
  <2>5. Honest'
    BY <1>5, <2>2, HonestLess DEF precisionVars
  <2> QED  BY <1>4, <1>5, <1>6, <2>1, <2>3, <2>4, <2>5 DEF Inv, EndIsFaulty
<1>8. CASE Consume /\ (\/ Seeded(s) /\ books' = [books EXCEPT ![s] = Updated(f)]
                       \/ ~Seeded(s) /\ books' = books)
  <2>1. TypeOK' /\ sock' = sock /\ wire' = Tail(wire)
    BY <1>4, <1>8, InvTypes, TailTyped DEF precisionVars
  <2>2. Honest'
    BY <1>5, <2>1, HonestLess DEF precisionVars
  <2>3. /\ at'[s] = f.at
        /\ \A z \in Symbol \ {s} : books'[z] = books[z] /\ at'[z] = at[z]
        /\ books'[s] = IF Seeded(s) THEN Updated(f) ELSE books[s]
    BY <1>1, <1>2, <1>5, <1>8 DEF Inv, TypeOK
  <2>4. ASSUME Seeded(s)', Unbroken(s)' PROVE Matches(s)'
    <3>1. Seeded(s)
      BY <2>3, <2>4 DEF Seeded
    <3>2. missed[s] \cap (1 .. f.at) = {}
      BY <1>5, <2>3, <2>4 DEF Unbroken
    <3>3. \A k \in Sides : books'[s][k] = Shown(k, truth[s][at'[s]][k])
      BY <1>1, <2>3, <3>1, <3>2, UpdatedExact
    <3> QED  BY <1>5, <3>3 DEF Matches, View
  <2>5. ASSUME NEW z \in Symbol, z # s
        PROVE  /\ Matches(z)' <=> Matches(z)
               /\ Seeded(z)' <=> Seeded(z)
               /\ Unbroken(z)' <=> Unbroken(z)
    BY <1>5, <2>3, <2>5 DEF Matches, View, Seeded, Unbroken
  <2>6. ExactWithoutLoss'
    BY <2>4, <2>5 DEF Inv, ExactWithoutLoss
  <2> QED  BY <1>4, <1>6, <2>1, <2>2, <2>6 DEF Inv, EndIsFaulty, SessionEnds
<1> QED  BY <1>5, <1>7, <1>8

LEMMA ReadEndInv ==
  ASSUME Inv, wire # <<>>, ReadBad(Head(wire)) \/ ReadClose(Head(wire)),
         UNCHANGED precisionVars
  PROVE  Inv' /\ EndIsFaulty
<1>1. /\ EndSession /\ UNCHANGED <<historyVars, seq>> /\ faults' = faults
      /\ Head(wire).kind \in {"bad", "close"}
  BY DEF ReadBad, ReadClose
<1>2. Inv'
  BY <1>1, InvTypes, EndSessionInv
<1>3. faults < MaxFaults /\ ConnectionLost
  BY <1>1, InvTypes, ReadEnds DEF ConnectionLost
<1> QED  BY <1>1, <1>2, <1>3 DEF EndIsFaulty

LEMMA SocketEndInv ==
  ASSUME Inv, SocketEnds \/ SocketFails, UNCHANGED precisionVars
  PROVE  Inv' /\ EndIsFaulty
<1>1. EndSession /\ UNCHANGED <<historyVars, seq>>
  BY DEF SocketEnds, SocketFails
<1>2. /\ faults' \in 0 .. MaxFaults /\ faults' < MaxFaults /\ faults' # MaxFaults
      /\ ConnectionLost
  <2>1. CASE SocketEnds
    <3>1. faults' = faults /\ sock = "closed" /\ wire = <<>>
      BY <2>1 DEF SocketEnds
    <3>2. ConnectionLost
      BY <3>1 DEF ConnectionLost
    <3> QED  BY <3>1, <3>2, InvTypes DEF Base, Faulty
  <2>2. CASE SocketFails
    <3>1. faults' \in 0 .. MaxFaults /\ faults' < MaxFaults /\ faults' = faults - 1
      BY <2>2, InvTypes, FaultFacts DEF SocketFails
    <3>2. faults' < faults /\ faults' # MaxFaults
      BY <3>1, InvTypes
    <3> QED  BY <3>1, <3>2 DEF ConnectionLost
  <2> QED  BY <2>1, <2>2
<1>3. Inv'
  BY <1>1, <1>2, EndSessionInv
<1> QED  BY <1>2, <1>3 DEF EndIsFaulty

LEMMA KeptInv ==
  ASSUME Inv, Connect \/ UNCHANGED vars, UNCHANGED precisionVars
  PROVE  Inv' /\ EndIsFaulty
<1>1. /\ UNCHANGED <<truth, emitted, sent, wire, books, seq, at, missed, faults>>
      /\ UNCHANGED <<precision, listed>>
      /\ sock' = "open" \/ sock' = sock
  BY DEF Connect, vars, exchangeVars, sessionVars, historyVars, precisionVars
<1>2. Base'
  BY <1>1, InvTypes, BaseKept
<1>3. TypeOK'
  BY <1>1, <1>2, InvTypes, TypeOKNext
<1>4. ExactWithoutLoss' /\ Honest' /\ Calm'
  BY <1>1, ExactKept, HonestLess, CalmKept DEF precisionVars
<1> QED  BY <1>1, <1>2, <1>3, <1>4 DEF Inv, EndIsFaulty, SessionEnds

LEMMA EnvironmentInv ==
  ASSUME Inv, Environment
  PROVE  Inv' /\ EndIsFaulty
<1>1. ASSUME NEW s \in Symbol, SendInstrument(s) \/ ChangePrecision(s)
      PROVE  Inv' /\ sock' = sock
  BY <1>1, SendInstrumentInv, ChangePrecisionInv
<1>2. ASSUME UNCHANGED precisionVars, NEW s \in Symbol,
             \/ UpdateBook(s) \/ SendSnapshot(s) \/ RepeatSnapshot(s)
             \/ SendKrakenUpdate(s) \/ LoseUpdate(s)
      PROVE  Inv' /\ sock' = sock
  BY <1>2, UpdateBookInv, SnapshotsInv, SendUpdateInv, LoseUpdateInv
<1>3. ASSUME UNCHANGED precisionVars, (\E k \in {"noise", "bad"} : SendOther(k)) \/ ServerClose
      PROVE  Inv' /\ sock' # "none"
  BY <1>3, AsideInv
<1> QED  BY <1>1, <1>2, <1>3 DEF Environment, EndIsFaulty, SessionEnds

LEMMA ReadInv ==
  ASSUME Inv, Read
  PROVE  Inv' /\ EndIsFaulty
<1>1. wire # <<>> /\ UNCHANGED listed
  BY DEF Read
<1>2. \/ ReadInstrument(Head(wire))
      \/ /\ UNCHANGED precisionVars
         /\ \/ ReadSnapshot(Head(wire)) \/ ReadKrakenUpdate(Head(wire))
            \/ ReadNoise(Head(wire)) \/ ReadBad(Head(wire)) \/ ReadClose(Head(wire))
  BY DEF Read, precisionVars
<1>3. CASE ReadInstrument(Head(wire))
  BY <1>1, <1>3, ReadInstrumentInv DEF EndIsFaulty, SessionEnds
<1>4. CASE UNCHANGED precisionVars /\ (ReadSnapshot(Head(wire)) \/ ReadNoise(Head(wire)))
  BY <1>1, <1>4, ReadSnapshotInv, ReadNoiseInv DEF EndIsFaulty, SessionEnds
<1>5. CASE UNCHANGED precisionVars /\ ReadKrakenUpdate(Head(wire))
  BY <1>1, <1>5, ReadUpdateInv
<1>6. CASE UNCHANGED precisionVars /\ (ReadBad(Head(wire)) \/ ReadClose(Head(wire)))
  BY <1>1, <1>6, ReadEndInv
<1> QED  BY <1>2, <1>3, <1>4, <1>5, <1>6

LEMMA Preserved ==
  ASSUME Inv, [KNext]_krakenVars
  PROVE  Inv' /\ EndIsFaulty
<1>1. \/ Environment \/ Read
      \/ UNCHANGED precisionVars /\ (Connect \/ UNCHANGED vars)
      \/ UNCHANGED precisionVars /\ (SocketEnds \/ SocketFails)
  BY DEF KNext, Driver, krakenVars
<1> QED  BY <1>1, EnvironmentInv, ReadInv, SocketEndInv, KeptInv

----------------------------------------------------------------------------
(* Theorems.                                                               *)

\* The chains of messages, the counters, the books, the checksums on the wire
\* and the faults stay together in every behaviour: the inductive invariant.
THEOREM Invariant == KSpec => []Inv
<1>1. Inv /\ [KNext]_krakenVars => Inv'
  BY Preserved
<1> QED  BY <1>1, InitInv, PTL DEF KSpec

\* Every variable keeps its type: books hold no zero quantities, the table of
\* precisions only precisions that a symbol can be listed with, and every
\* checksum is one of a book of the exchange (kraken.rs, parse_message).
THEOREM TypeCorrect == KSpec => []TypeOK
<1>1. Inv => TypeOK
  BY DEF Inv
<1> QED  BY <1>1, Invariant, PTL

\* The number that the adapter gives the next update is the one its book
\* expects, whatever sessions, unseeded updates and wrong checksums came before
\* (kraken.rs, next_seq, and feed.rs, apply_event).
THEOREM CountersMatch == KSpec => []CounterMatchesBook
<1>1. Inv => CounterMatchesBook
  BY DEF Inv, Base
<1> QED  BY <1>1, Invariant, PTL

\* A book cut to the depth after each message is exactly what the exchange
\* shows, for every depth, while nothing is missed: levels that are pushed out
\* need no message and come back with one (feed.rs, apply_event, retain_top).
THEOREM BooksAreExact == KSpec => []ExactWithoutLoss
<1>1. Inv => ExactWithoutLoss
  BY DEF Inv
<1> QED  BY <1>1, Invariant, PTL

\* The driver never ends a session on its own account, in the first session as
\* in every later one: an end has its cause on that session's connection, or
\* the update it came with found a book that had missed one, or the adapter
\* holding a precision that the exchange no longer uses.  No update looks like
\* a gap, and a book of limited depth that has missed nothing passes the
\* checksum, although precisions, snapshots and updates arrive in no fixed
\* order (kraken.rs, next_seq and verify_checksum).
THEOREM OnlyFaultsEndSessions == KSpec => NoSpuriousResync
<1>1. Inv /\ [KNext]_krakenVars =>
        [SessionEnds => faults' < MaxFaults
                        /\ (ConnectionLost \/ ChecksumMayFail)]_krakenVars
  BY Preserved DEF EndIsFaulty
<1> QED  BY <1>1, Invariant, PTL DEF KSpec, NoSpuriousResync

----------------------------------------------------------------------------
(* What a verified checksum shows.                                         *)

Backwards(l) == [i \in 1 .. Len(l) |-> l[Len(l) + 1 - i]]

LEMMA SameInterval ==
  ASSUME NEW i \in Nat, NEW j \in Nat, 1 .. i = 1 .. j
  PROVE  i = j
<1>1. \A k \in Int : 1 <= k /\ k <= i <=> 1 <= k /\ k <= j
  <2>1. \A k \in Int : k \in 1 .. i <=> 1 <= k /\ k <= i
    OBVIOUS
  <2>2. \A k \in Int : k \in 1 .. j <=> 1 <= k /\ k <= j
    OBVIOUS
  <2> QED  BY <2>1, <2>2
<1> QED  BY <1>1

LEMMA BackwardsType ==
  ASSUME NEW S, NEW l \in Seq(S)
  PROVE  Backwards(l) \in Seq(S)
  BY DEF Backwards

LEMMA BackwardsOnce ==
  ASSUME NEW S, NEW l \in Seq(S), NEW m \in Seq(S), Backwards(l) = Backwards(m)
  PROVE  l = m
<1>1. /\ DOMAIN l = 1 .. Len(l) /\ Len(l) \in Nat /\ DOMAIN m = 1 .. Len(m) /\ Len(m) \in Nat
      /\ l = [i \in 1 .. Len(l) |-> l[i]] /\ m = [i \in 1 .. Len(m) |-> m[i]]
  OBVIOUS
<1>2. 1 .. Len(l) = 1 .. Len(m)
  BY DEF Backwards
<1>3. Len(l) = Len(m)
  BY <1>1, <1>2, SameInterval
<1>4. ASSUME NEW i \in 1 .. Len(l) PROVE l[i] = m[i]
  <2> DEFINE j == Len(l) + 1 - i
  <2>1. j \in 1 .. Len(l) /\ Len(l) + 1 - j = i
    BY <1>1
  <2> HIDE DEF j
  <2>2. Backwards(l)[j] = l[i] /\ Backwards(m)[j] = m[i]
    BY <1>3, <2>1 DEF Backwards
  <2> QED  BY <2>2
<1> QED  BY <1>1, <1>3, <1>4

\* Equal tokens are tokens of equal levels.
LEMMA TokensOnce ==
  ASSUME TokensTellApart, NEW l \in Seq(Price \X Qty), NEW m \in Seq(Price \X Qty),
         NEW p \in Precision, NEW q \in Precision, Tokens(l, p) = Tokens(m, q)
  PROVE  l = m
<1>1. /\ DOMAIN l = 1 .. Len(l) /\ DOMAIN m = 1 .. Len(m)
      /\ Len(l) \in Nat /\ Len(m) \in Nat
  OBVIOUS
<1>2. DOMAIN l = DOMAIN m
  BY DEF Tokens
<1>3. Len(l) = Len(m)
  BY <1>1, <1>2, SameInterval
<1>4. ASSUME NEW i \in 1 .. Len(l) PROVE l[i] = m[i]
  <2>1. l[i] \in Price \X Qty /\ m[i] \in Price \X Qty
    BY <1>3
  <2>2. Tokens(l, p)[i] = Tokens(m, q)[i]
    OBVIOUS
  <2>3. /\ Tokens(l, p)[i] = <<Token(l[i][1], p.price), Token(l[i][2], p.qty)>>
        /\ Tokens(m, q)[i] = <<Token(m[i][1], q.price), Token(m[i][2], q.qty)>>
    BY <1>1, <1>2 DEF Tokens
  <2>4. /\ Token(l[i][1], p.price) = Token(m[i][1], q.price)
        /\ Token(l[i][2], p.qty) = Token(m[i][2], q.qty)
    BY <2>2, <2>3
  <2> QED  BY <2>1, <2>4 DEF TokensTellApart
<1> QED  BY <1>1, <1>3, <1>4

\* Books with equal checksums show the same levels.
LEMMA ChecksumTells ==
  ASSUME TokensTellApart, NEW b, NEW c, NEW p \in Precision, NEW q \in Precision,
         \A k \in Sides : b[k] \in Side /\ c[k] \in Side,
         ChecksumOf(b, p) = ChecksumOf(c, q)
  PROVE  \A k \in Sides : Shown(k, b[k]) = Shown(k, c[k])
<1> DEFINE ba == Shown("asks", b.asks)
           bb == Shown("bids", b.bids)
           ca == Shown("asks", c.asks)
           cb == Shown("bids", c.bids)
<1>1. ba \in Side /\ bb \in Side /\ ca \in Side /\ cb \in Side
  BY ShownTop DEF Sides
<1>2. /\ TopAsks(b, Limit) = Spelled(ba) /\ TopBids(b, Limit) = Backwards(Spelled(bb))
      /\ TopAsks(c, Limit) = Spelled(ca) /\ TopBids(c, Limit) = Backwards(Spelled(cb))
  BY Tops DEF Shown, Backwards
<1>3. /\ Tokens(TopAsks(b, Limit), p) = Tokens(TopAsks(c, Limit), q)
      /\ Tokens(TopBids(b, Limit), p) = Tokens(TopBids(c, Limit), q)
  BY DEF ChecksumOf
<1> HIDE DEF ba, bb, ca, cb
<1> DEFINE sba == Spelled(ba)
           sbb == Spelled(bb)
           sca == Spelled(ca)
           scb == Spelled(cb)
<1>4. /\ sba \in Seq(Price \X Qty) /\ sbb \in Seq(Price \X Qty)
      /\ sca \in Seq(Price \X Qty) /\ scb \in Seq(Price \X Qty)
  BY <1>1, SpelledType
<1>5. /\ Tokens(sba, p) = Tokens(sca, q)
      /\ Tokens(Backwards(sbb), p) = Tokens(Backwards(scb), q)
  BY <1>2, <1>3
<1> HIDE DEF sba, sbb, sca, scb
<1>6. Backwards(sbb) \in Seq(Price \X Qty) /\ Backwards(scb) \in Seq(Price \X Qty)
  BY <1>4, BackwardsType
<1>7. sba = sca /\ Backwards(sbb) = Backwards(scb)
  <2> DEFINE rbb == Backwards(sbb)
             rcb == Backwards(scb)
  <2>1. sba = sca
    BY <1>4, <1>5, TokensOnce
  <2>2. rbb \in Seq(Price \X Qty) /\ rcb \in Seq(Price \X Qty) /\ Tokens(rbb, p) = Tokens(rcb, q)
    BY <1>5, <1>6
  <2> HIDE DEF rbb, rcb
  <2>3. rbb = rcb
    BY <2>2, TokensOnce
  <2> QED  BY <2>1, <2>3 DEF rbb, rcb
<1>8. sbb = scb
  BY <1>4, <1>7, BackwardsOnce
<1>9. ba = ca /\ bb = cb
  BY <1>1, <1>7, <1>8, SpelledOnce DEF sba, sbb, sca, scb
<1> QED  BY <1>9 DEF ba, bb, ca, cb, Sides

\* Only snapshots and updates move what has been read of a book.
LEMMA WhatReads ==
  ASSUME Inv, [KNext]_krakenVars, at' # at
  PROVE  /\ wire # <<>> /\ UNCHANGED precisionVars
         /\ ReadSnapshot(Head(wire)) \/ ReadKrakenUpdate(Head(wire))
<1>1. ASSUME Environment PROVE at' = at
  <2>1. ASSUME NEW s \in Symbol, SendInstrument(s) \/ ChangePrecision(s)
        PROVE  at' = at
    BY <2>1 DEF SendInstrument, ChangePrecision, historyVars
  <2>2. ASSUME NEW s \in Symbol, \/ UpdateBook(s) \/ SendSnapshot(s) \/ RepeatSnapshot(s)
                                 \/ SendKrakenUpdate(s) \/ LoseUpdate(s)
        PROVE  at' = at
    BY <2>2 DEF UpdateBook, SendSnapshot, RepeatSnapshot, Snapshot, SendKrakenUpdate,
                SendUpdate, BringUpToDate, LoseUpdate, historyVars
  <2>3. ASSUME (\E k \in {"noise", "bad"} : SendOther(k)) \/ ServerClose
        PROVE  at' = at
    BY <2>3 DEF SendOther, ServerClose, historyVars
  <2> QED  BY <1>1, <2>1, <2>2, <2>3 DEF Environment
<1>2. ASSUME Connect \/ SocketEnds \/ SocketFails \/ UNCHANGED vars PROVE at' = at
  BY <1>2 DEF Connect, SocketEnds, SocketFails, vars, historyVars
<1>3. Read
  BY <1>1, <1>2 DEF KNext, Driver, krakenVars
<1>4. ASSUME ReadInstrument(Head(wire)) \/ ReadNoise(Head(wire))
             \/ ReadBad(Head(wire)) \/ ReadClose(Head(wire))
      PROVE  at' = at
  BY <1>4 DEF ReadInstrument, ReadNoise, ReadBad, ReadClose, historyVars
<1> QED  BY <1>3, <1>4 DEF Read, precisionVars

LEMMA VerifiedStep ==
  ASSUME TokensTellApart, Inv, [KNext]_krakenVars, NEW s \in Symbol,
         Reads(s), precision[s] # NotLearned
  PROVE  Matches(s)'
<1>1. /\ wire # <<>> /\ UNCHANGED precisionVars /\ at'[s] # at[s]
      /\ ReadSnapshot(Head(wire)) \/ ReadKrakenUpdate(Head(wire))
  BY WhatReads DEF Reads
<1>2. CASE ReadSnapshot(Head(wire))
  BY <1>1, <1>2, ReadSnapshotInv
<1>3. CASE ReadKrakenUpdate(Head(wire))
  <2> DEFINE f == Head(wire)
             b == truth[s][f.at]
             verified == VerifyChecksum(f.symbol, Updated(f), f.checksum)
  <2>1. /\ f.symbol \in Symbol /\ About(f, f.symbol) /\ IsUpdate(f, f.symbol)
        /\ ReadUpdate(f, verified)
    BY <1>1, <1>3, FrameFacts DEF ReadKrakenUpdate, IsUpdate
  <2>2. at' = [at EXCEPT ![f.symbol] = f.at] /\ at \in [Symbol -> Nat]
    BY <2>1, InvTypes DEF ReadUpdate, BaseTypes
  <2>3. f.symbol = s /\ at'[s] = f.at
    BY <1>1, <2>1, <2>2
  <2>4. f.at \in 1 .. emitted[s]
    <3>1. f.at \in Nat \ {0} /\ f.at <= emitted[s] /\ emitted[s] \in Nat
      BY <1>1, <2>1, <2>3, InvTypes, HeadFacts, ReadRange
    <3> QED  BY <3>1
  <2> HIDE DEF verified
  <2>5. /\ UNCHANGED truth
        /\ \/ EndSession
           \/ Seeded(s) /\ verified /\ books' = [books EXCEPT ![s] = Updated(f)]
           \/ ~Seeded(s) /\ books' = books
    BY <1>1, <2>1, <2>3, InvTypes, UpdateEffect
  <2>6. verified /\ books' = [books EXCEPT ![s] = Updated(f)]
    BY <2>5 DEF Reads, Seeded, EndSession, NewBook
  <2>7. ChecksumOf(Updated(f), precision[s]) = f.checksum
    BY <2>3, <2>6 DEF VerifyChecksum, verified
  <2>8. PICK p \in Precision : f.checksum = ChecksumOf(b, p)
    BY <1>1, <2>1, <2>3, HeadHonest DEF Sealed, IsUpdate
  <2>9. precision[s] \in Precision
    BY InvTypes
  <2>10. /\ Updated(f) \in Book
         /\ \A k \in Sides : Shown(k, Updated(f)[k]) = Updated(f)[k]
    BY <1>1, <1>3, <2>3, UpdatedCut
  <2>11. \A k \in Sides : b[k] \in Side
    BY <2>4, InvTypes, HistoryTypes
  <2> DEFINE new == Updated(f)
             r   == precision[s]
  <2>12. \A k \in Sides : new[k] \in Side
    BY <2>10 DEF Book, Sides
  <2>13. ChecksumOf(new, r) = ChecksumOf(b, p) /\ r \in Precision
    BY <2>7, <2>8, <2>9
  <2> HIDE DEF new, r, b, f
  <2>14. \A k \in Sides : Shown(k, new[k]) = Shown(k, b[k])
    BY <2>11, <2>12, <2>13, ChecksumTells
  <2>15. books'[s] = new
    BY <2>6, InvTypes DEF new, BaseTypes
  <2>16. \A k \in Sides : books'[s][k] = Shown(k, b[k])
    BY <2>10, <2>14, <2>15 DEF new
  <2>17. \A k \in Sides : books'[s][k] = Shown(k, truth'[s][at'[s]][k])
    BY <2>3, <2>5, <2>16 DEF b
  <2> QED  BY <2>17 DEF Matches, View
<1> QED  BY <1>1, <1>2, <1>3

\* Where tokens tell levels apart, an update whose checksum was verified leaves
\* its book exactly what the exchange shows, whatever was lost before and
\* whichever precision the adapter still holds; otherwise the session ends
\* (kraken.rs, verify_checksum, and feed.rs, apply_event).
THEOREM VerifiedBooksAreExact ==
  ASSUME TokensTellApart
  PROVE  KSpec => VerifiedIsExchangeTop
<1>1. Inv /\ [KNext]_krakenVars =>
        [\A s \in Symbol : Reads(s) /\ precision[s] # NotLearned => Matches(s)']_krakenVars
  BY VerifiedStep
<1> QED  BY <1>1, Invariant, PTL DEF KSpec, VerifiedIsExchangeTop

----------------------------------------------------------------------------
(* The refinement.                                                         *)

LEMMA Progress ==
  ASSUME Inv, [KNext]_krakenVars, NEW s \in Symbol
  PROVE  Moves(s)
<1>1. at[s] \in Nat
  BY InvTypes, Types
<1>2. ASSUME truth' = truth, at' = at PROVE Moves(s)
  BY <1>1, <1>2 DEF Moves
<1>3. (\E z \in Symbol : UpdateBook(z)) \/ truth' = truth
  <2>1. ASSUME Environment PROVE (\E z \in Symbol : UpdateBook(z)) \/ truth' = truth
    BY <2>1 DEF Environment, SendInstrument, ChangePrecision, SendSnapshot, RepeatSnapshot,
                Snapshot, SendKrakenUpdate, SendUpdate, BringUpToDate, LoseUpdate, SendOther,
                ServerClose, exchangeVars
  <2>2. ASSUME Driver PROVE truth' = truth
    BY <2>2 DEF Driver, Read, ReadInstrument, ReadSnapshot, ReadKrakenUpdate, ReadUpdate,
                ReadNoise, ReadBad, ReadClose, Connect, SocketEnds, SocketFails, Consume,
                EndSession, exchangeVars
  <2> QED  BY <2>1, <2>2 DEF KNext, krakenVars, vars, exchangeVars
<1>4. ASSUME NEW z \in Symbol, UpdateBook(z) PROVE Moves(s)
  BY <1>4, InvTypes, MovesPublished
<1>5. ASSUME truth' = truth, at' # at PROVE Moves(s)
  <2> DEFINE f == Head(wire)
  <2>1. wire # <<>> /\ (ReadSnapshot(f) \/ ReadKrakenUpdate(f))
    BY <1>5, WhatReads
  <2>2. f.symbol \in Symbol /\ About(f, f.symbol) /\ Base /\ wire \in Seq(Frame)
    BY <2>1, InvTypes, FrameFacts DEF ReadSnapshot, ReadKrakenUpdate
  <2>3. at' = [at EXCEPT ![f.symbol] = f.at]
    BY <2>1 DEF ReadSnapshot, ReadKrakenUpdate, ReadUpdate
  <2> QED  BY <1>5, <2>1, <2>2, <2>3, MovesRead
<1> QED  BY <1>2, <1>3, <1>4, <1>5

\* While no update of a symbol is lost, its book implements BookReplica: cut
\* again after every message, it keeps up with the exchange's best levels
\* (apply_event, retain_top).
THEOREM ImplementsReplica == KSpec => ReplicaSpec
<1>1. Inv => Base /\ ExactWithoutLoss
  BY DEF Inv
<1>2. Views /\ Views' /\ Inv /\ [KNext]_krakenVars =>
        [\A s \in Symbol : [Replica(s)!Next]_(Replica(s)!vars)]_vars
  BY Progress, RefinesStep
<1>3. KInit => Init
  BY DEF KInit
<1> QED  BY <1>1, <1>2, <1>3, ViewsNow, Invariant, RefinesInit, PTL DEF KSpec, ReplicaSpec
============================================================================
