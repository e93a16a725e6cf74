---------------------------- MODULE MCDailyRun -----------------------------
(***************************************************************************)
(* Instances of DailyRun for TLC: a full day's run next to ones by hand.   *)
(***************************************************************************)
EXTENDS DailyRun

\* Two thresholds; the first needs two batches of BatchLimit = 2.
Hear(n) == [number |-> n, day |-> "day", text |-> "copy"]
SomeRows == [t \in Thresholds |->
  IF t = "SEVEN_DAYS" THEN <<Hear("a"), Hear("b"), Hear("a"), Hear("x"), Hear("c")>>
  ELSE <<Hear("b")>>]
Dial == [n \in {"a", "b", "c", "x"} |-> IF n = "x" THEN Unusable ELSE n]
Tag == [d \in Dialable |-> d]

\* The schedule's run, and a run by hand that names a threshold twice.
Events == [r \in Runs |->
  CASE r = "daily"  -> <<"SEVEN_DAYS", "ONE_DAY">>
    [] r = "byhand" -> <<"ONE_DAY", "ONE_DAY">>
    [] r = "dry"    -> <<"SEVEN_DAYS">>
    [] r = "typo"   -> Unparsable]
Retries == [r \in Runs |-> IF r = "daily" THEN 3 ELSE 1]
=============================================================================
