----------------------------- MODULE MCUtility -----------------------------
(***************************************************************************)
(* An instance of Rfc3339 and Checksum for TLC: walks of a year and more   *)
(* through leap years, full centuries and the epoch, texts with one field  *)
(* wrong, and checksums of texts over two digits.  The two share nothing,  *)
(* so that a behaviour is one of the clock, from any of the years, or one  *)
(* of the checksum, from a single year.                                    *)
(***************************************************************************)
EXTENDS Rfc3339, Checksum

MCFirstYears == {1600, 1900, 1968, 1969, 1999, 2000, 2023, 2024, 2099, 2100, 2399, 2400}

At(h, m, s, f, ms) == [hour |-> h, min |-> m, sec |-> s, frac |-> f, ms |-> ms]

MCTimes ==
  {At(0, 0, 0, <<>>, 0), At(12, 34, 56, <<7, 8, 9, 0, 1, 2>>, 789),
   At(20, 42, 27, <<5>>, 500), At(9, 5, 1, <<0, 4>>, 40),
   At(23, 59, 59, <<9, 9, 9, 9>>, 999)}

Good == [parts |-> TRUE, year |-> 2023, month |-> 2, day |-> 28,
         hour |-> 0, min |-> 0, sec |-> 0, frac |-> <<>>]

MCOthers ==
  {Good, [Good EXCEPT !.parts = FALSE], [Good EXCEPT !.frac = <<1, Bad>>],
   [Good EXCEPT !.sec = 60]} \cup
  {[Good EXCEPT ![f] = Bad] : f \in {"year", "month", "day", "hour", "min", "sec"}} \cup
  {[Good EXCEPT !.month = m] : m \in {0, 13}} \cup
  {[Good EXCEPT !.day = d] : d \in {0, 29, 31, 32}} \cup
  {[Good EXCEPT !.hour = h] : h \in {-1, 24}} \cup
  {[Good EXCEPT !.year = 1970, !.month = 1, !.day = 1, !.min = -1]}

MCByte == {48, 57}

UtilityInit == ClockInit /\ CrcInit

UtilityNext ==
  \/ bytes["ours"] = <<>> /\ ClockNext /\ UNCHANGED crcVars
  \/ /\ date.year = 2000 /\ walked = 0 /\ text = None
     /\ CrcNext /\ UNCHANGED clockVars

UtilitySpec == UtilityInit /\ [][UtilityNext]_<<clockVars, crcVars>>
============================================================================
