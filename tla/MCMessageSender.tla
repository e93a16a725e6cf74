-------------------------- MODULE MCMessageSender --------------------------
(***************************************************************************)
(* Instances of MessageSender for TLC: which request carries which         *)
(* reminder_id and body.                                                   *)
(***************************************************************************)
EXTENDS MessageSender, TLC

CONSTANTS m1, m2, d1, k1, w1, w2

\* Two messages and a direct request that all ask for one reminder: the
\* daily run queued twice, and somebody posting it by hand.
SharedIds == [r \in Requests |-> k1]

\* One message and the direct request rely on what stands in for an id: the
\* SQS message id, and nothing.
MixedIds == [r \in Requests |-> IF r = m1 THEN k1 ELSE NoId]

AllOk == [r \in Requests |-> "ok"]

\* One message has a number that normalize_us_phone refuses.
OneUndialable == [r \in Requests |-> IF r = m1 THEN "undialable" ELSE "ok"]

\* The two workers are interchangeable, and so are two messages that carry
\* the same id and body.
AlikeWorkers == Permutations({w1, w2})
Interchangeable == Permutations({m1, m2}) \cup AlikeWorkers
=============================================================================
