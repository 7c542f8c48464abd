----------------------------- MODULE Reconnect -----------------------------
(***************************************************************************)
(* The reconnect loop of src/src/feed.rs (run): sessions that end, and the *)
(* sleeps between them, in ticks of 500 ms.                                *)
(***************************************************************************)
EXTENDS Integers

CONSTANTS
  First,     \* first backoff: 500 ms
  Max,       \* max_backoff: 30 s
  Healthy,   \* a session longer than this resets the backoff: 10 s
  MaxTicks   \* bound: ticks the model distinguishes in one session

ASSUME BackoffAssumption ==
  /\ First \in Nat \ {0} /\ Max \in Nat /\ First <= Max
ASSUME TickAssumption ==
  /\ Healthy \in Nat /\ MaxTicks \in Nat /\ Healthy < MaxTicks

VARIABLES
  phase,     \* "connect", "up", "sleep"
  elapsed,   \* ticks since `started`
  upFor,     \* ticks since the connection was established
  backoff,   \* the variable of run
  delay      \* the last sleep, 0 before the first

vars == <<phase, elapsed, upFor, backoff, delay>>

TypeOK ==
  /\ phase \in {"connect", "up", "sleep"}
  /\ elapsed \in 0 .. MaxTicks /\ upFor \in 0 .. MaxTicks
  /\ backoff \in First .. Max
  /\ delay \in 0 .. Max

Init ==
  /\ phase = "connect"
  /\ elapsed = 0 /\ upFor = 0
  /\ backoff = First
  /\ delay = 0

\* Time passes in run_once.
Tick ==
  /\ phase # "sleep" /\ elapsed < MaxTicks
  /\ elapsed' = elapsed + 1
  /\ upFor' = IF phase = "up" THEN upFor + 1 ELSE upFor
  /\ UNCHANGED <<phase, backoff, delay>>

\* connect_async returns.
Connected ==
  /\ phase = "connect"
  /\ phase' = "up"
  /\ UNCHANGED <<elapsed, upFor, backoff, delay>>

\* Mutant: a long session does not reset the backoff.
BackoffNeverReset == backoff

\* Mutant: every session resets the backoff.
BackoffAlwaysReset == First

\* The backoff once the session's length is taken into account.
BackoffAfterSession == IF elapsed > Healthy THEN First ELSE backoff

\* run_once returns, with Ok or an error, connected or not; run goes to sleep.
SessionEnds ==
  /\ phase # "sleep"
  /\ phase' = "sleep"
  /\ backoff' = BackoffAfterSession
  /\ delay' = BackoffAfterSession
  /\ UNCHANGED <<elapsed, upFor>>

\* Mutant: the doubling is not capped.
DoubledUncapped == 2 * backoff

\* (backoff * 2).min(max_backoff)
Doubled == IF 2 * backoff < Max THEN 2 * backoff ELSE Max

\* The sleep is over; the next round starts its clock.
Wake ==
  /\ phase = "sleep"
  /\ phase' = "connect"
  /\ elapsed' = 0 /\ upFor' = 0
  /\ backoff' = Doubled
  /\ UNCHANGED delay

Next == Tick \/ Connected \/ SessionEnds \/ Wake

Spec == Init /\ [][Next]_vars

----------------------------------------------------------------------------
(* Properties.                                                             *)

\* A connection that stayed up longer than Healthy is retried after the first
\* backoff, whatever failed before it (RUNBOOK.md: "Backoff resets to 0.5s
\* after any session that stays healthy for >10s").
HealthyResets == phase = "sleep" /\ upFor > Healthy => delay = First

\* Between two short sessions the delay doubles until the cap, and it never
\* leaves First .. Max.
ShortSessionsBackOff ==
  [][phase # "sleep" /\ phase' = "sleep" /\ elapsed <= Healthy =>
       delay' = IF delay = 0 THEN First
                ELSE IF 2 * delay < Max THEN 2 * delay ELSE Max]_vars

\* "A session that stayed up long enough is healthy - reset the backoff": the
\* delay shrinks only after a connection that was up that long.
ResetOnlyWhenHealthy ==
  [][delay' < delay => upFor > Healthy]_vars
============================================================================
