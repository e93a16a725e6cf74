------------------------- MODULE MCReminderPipeline -------------------------
(***************************************************************************)
(* Instances of ReminderPipeline for TLC: somebody's hearing is seven days *)
(* out, nobody's is tomorrow, and either threshold may fail the run.       *)
(***************************************************************************)
EXTENDS ReminderPipeline

CONSTANTS w1, w2

Hear(n) == [number |-> n, day |-> "day", text |-> "copy"]
OneHearing == [t \in Thresholds |-> IF t = "SEVEN_DAYS" THEN <<Hear("a")>> ELSE <<>>]
Dial == [n \in Numbers |-> n]
Tag == [d \in Dialable |-> d]

Daily == [r \in Runs |-> <<"SEVEN_DAYS", "ONE_DAY">>]
Retries == [r \in Runs |-> 2]
TheReminder == {<<"SEVEN_DAYS", "day", "a">>}
=============================================================================
