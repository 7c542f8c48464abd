------------------------------ MODULE Metrics ------------------------------
(***************************************************************************)
(* The status line of one symbol: the counters of src/src/metrics.rs and   *)
(* the way run_once and apply_event of src/src/feed.rs drive them through  *)
(* sessions.  Counters are created by the first delta a session applies    *)
(* and dropped with the session; a line is printed at most once a second,  *)
(* and only when an event arrives.  The prices on the line are left out,   *)
(* and total_levels, which nothing reads.                                  *)
(***************************************************************************)
EXTENDS Integers, FiniteSets, Sequences, FiniteSetsExt

CONSTANTS
  PrintEvery,   \* print_every, in ticks of the clock
  Offsets,      \* receive time minus event time, as the two clocks show it
  NoTime,       \* the event carries no time
  None,         \* there are no counters
  MaxTime,      \* bound: ticks of the clock
  MaxEvents     \* bound: starts of sessions, replayed and applied deltas

ASSUME MetricsAssumption ==
  /\ PrintEvery \in Nat \ {0} /\ MaxTime \in Nat /\ MaxEvents \in Nat
  /\ Offsets \subseteq Int /\ NoTime \notin Int

VARIABLES
  now,       \* the clock
  session,   \* "down", "unseeded", "seeded": whether the symbol has a book
  metrics,   \* the Metrics value of the symbol, or None
  log        \* history: what happened and the lines printed, in order

vars == <<now, session, metrics, log>>

Counters == [total : Nat, updates : Nat, sum : Nat, count : Nat, max : Nat,
             windowStart : Nat, lastPrint : Nat]
ASSUME NoneAssumption == None \notin Counters

Summary  == (Nat \X Nat) \cup {None}
Entry    == [kind : {"start", "replayed"}, at : Nat] \cup
            [kind : {"applied"}, at : Nat, latency : Nat \cup {NoTime}] \cup
            [kind : {"line"}, at : Nat, updates : Nat, elapsed : Nat,
             latency : Summary, total : Nat]

TypeOK ==
  /\ now \in 0 .. MaxTime
  /\ session \in {"down", "unseeded", "seeded"}
  /\ metrics \in Counters \cup {None}
  /\ log \in Seq(Entry)

Init == now = 0 /\ session = "down" /\ metrics = None /\ log = <<>>

----------------------------------------------------------------------------
(* Metrics and Latency.                                                    *)

\* Mutant: new counters are due for a line at once.
NewAndDue ==
  [total |-> 0, updates |-> 0, sum |-> 0, count |-> 0, max |-> 0,
   windowStart |-> now, lastPrint |-> now - PrintEvery]

\* Metrics::new
New ==
  [total |-> 0, updates |-> 0, sum |-> 0, count |-> 0, max |-> 0,
   windowStart |-> now, lastPrint |-> now]

\* record_update, with Latency::record
RecordUpdate(m, latency) ==
  LET timed == latency # NoTime
  IN  [total   |-> m.total + 1,
       updates |-> m.updates + 1,
       sum     |-> IF timed THEN m.sum + latency ELSE m.sum,
       count   |-> IF timed THEN m.count + 1 ELSE m.count,
       max     |-> IF timed /\ m.max < latency THEN latency ELSE m.max,
       windowStart |-> m.windowStart,
       lastPrint   |-> m.lastPrint]

\* Latency::summary
SummaryOf(m) == IF m.count = 0 THEN None ELSE <<m.sum \div m.count, m.max>>

Line(m) ==
  [kind |-> "line", at |-> now, updates |-> m.updates,
   elapsed |-> now - m.windowStart, latency |-> SummaryOf(m), total |-> m.total]

\* Mutant: the latencies of a window are kept when it ends.
NextWindowKeepsLatency(m) ==
  [m EXCEPT !.updates = 0, !.windowStart = now, !.lastPrint = now]

\* The end of maybe_print, with Latency::reset.
NextWindow(m) ==
  [m EXCEPT !.updates = 0, !.sum = 0, !.count = 0, !.max = 0,
            !.windowStart = now, !.lastPrint = now]

\* maybe_print on counters m, after the events es.
MaybePrint(m, es) ==
  IF m = None \/ now - m.lastPrint < PrintEvery
    THEN metrics' = m /\ log' = log \o es
    ELSE metrics' = NextWindow(m) /\ log' = log \o es \o <<Line(m)>>

----------------------------------------------------------------------------
(* The driver.                                                             *)

\* Mutant: the difference of the clocks wraps; below zero stands for it.
LatencyWrapping(offset) == offset

\* recv_ms.saturating_sub(event_time)
Latency(offset) ==
  IF offset = NoTime THEN NoTime ELSE IF offset < 0 THEN 0 ELSE offset

Event(k) == [kind |-> k, at |-> now]
Events   == Cardinality({i \in DOMAIN log : log[i].kind # "line"})

Tick == now < MaxTime /\ now' = now + 1 /\ UNCHANGED <<session, metrics, log>>

\* run_once begins, with neither books nor counters.
Start ==
  /\ session = "down" /\ Events < MaxEvents
  /\ session' = "unseeded" /\ log' = Append(log, Event("start"))
  /\ UNCHANGED <<now, metrics>>

\* buffer_then_snapshot seeds the book, and counts none of the deltas it
\* replays.
SeedByRest(replayed) ==
  /\ session = "unseeded" /\ Events + replayed <= MaxEvents
  /\ session' = "seeded" /\ log' = log \o [i \in 1 .. replayed |-> Event("replayed")]
  /\ UNCHANGED <<now, metrics>>

\* apply_event with a snapshot.
Snapshot ==
  /\ session # "down" /\ session' = "seeded"
  /\ MaybePrint(metrics, <<>>)
  /\ UNCHANGED now

\* apply_event with a delta that is too old.
StaleDelta ==
  /\ session = "seeded"
  /\ MaybePrint(metrics, <<>>)
  /\ UNCHANGED <<now, session>>

\* run_once returns and its counters are dropped: a gap, a close, an error.
EndSession ==
  /\ session # "down" /\ session' = "down"
  /\ metrics' = None
  /\ UNCHANGED <<now, log>>

Counted(offset) ==
  RecordUpdate(IF metrics = None THEN New ELSE metrics, Latency(offset))

\* Mutant: a wrong checksum does not end the session.
ApplyUnverified(offset, verified) ==
  /\ session = "seeded" /\ Events < MaxEvents
  /\ MaybePrint(Counted(offset),
       IF verified THEN <<[kind |-> "applied", at |-> now,
                           latency |-> Latency(offset)]>> ELSE <<>>)
  /\ UNCHANGED <<now, session>>

\* apply_event with the next delta: it is counted, then verified, and a wrong
\* checksum ends the session with the counters.
Apply(offset, verified) ==
  /\ session = "seeded" /\ Events < MaxEvents
  /\ \/ /\ ~verified
        /\ EndSession
     \/ /\ verified
        /\ MaybePrint(Counted(offset), <<[kind |-> "applied", at |-> now,
                                          latency |-> Latency(offset)]>>)
        /\ UNCHANGED <<now, session>>

Next ==
  \/ Tick \/ Start \/ Snapshot \/ StaleDelta \/ EndSession
  \/ \E replayed \in 0 .. MaxEvents : SeedByRest(replayed)
  \/ \E offset \in Offsets \cup {NoTime}, verified \in BOOLEAN :
       Apply(offset, verified)

Spec == Init /\ [][Next]_vars

----------------------------------------------------------------------------
(* Properties.                                                             *)

Is(k, i) == log[i].kind = k
Lines    == {i \in DOMAIN log : Is("line", i)}

\* What line i reports on begins after the last entry before it of kind k.
Since(i, kinds) ==
  Max({0} \cup {j \in 1 .. i - 1 : log[j].kind \in kinds})
AppliedAfter(j, i) == {k \in j + 1 .. i - 1 : Is("applied", k)}

\* A line's total is the number of deltas that apply_event has applied since
\* the session began, none of them one whose checksum was wrong, although a
\* delta is counted before it is verified.  Deltas of earlier sessions, and
\* those applied from the buffer, are not in it: the counters begin with the
\* session (run_once), and buffer_then_snapshot has none.
TotalsAreVerified ==
  \A i \in Lines : log[i].total = Cardinality(AppliedAfter(Since(i, {"start"}), i))

\* The lines divide a session: each one reports exactly the updates and
\* latencies applied since the line before it, over the time since then
\* (maybe_print, Latency::reset).
WindowsDivideSession ==
  \A i \in Lines :
    LET from    == Since(i, {"start", "line"})
        applied == AppliedAfter(from, i)
        timed   == {k \in applied : log[k].latency # NoTime}
    IN /\ log[i].updates = Cardinality(applied)
       /\ log[i].elapsed = log[i].at - (IF Is("line", from) THEN log[from].at
                                        ELSE log[Min(applied)].at)
       /\ log[i].latency =
            IF timed = {} THEN None
            ELSE <<MapThenSumSet(LAMBDA k : log[k].latency, timed) \div Cardinality(timed),
                   Max({log[k].latency : k \in timed})>>

\* The runbook: the total on a line counts the "applied deltas since process
\* start" (src/RUNBOOK.md:69).  It is not even asked for those that
\* buffer_then_snapshot applies.
TotalsSinceStart ==
  \A i \in Lines : log[i].total = Cardinality(AppliedAfter(0, i))

\* "At most once per print_every" (src/src/metrics.rs:45): any two lines of the
\* symbol, of one session or of two.
LinesArePaced ==
  \A i, j \in Lines : i < j => log[j].at - log[i].at >= PrintEvery
============================================================================
