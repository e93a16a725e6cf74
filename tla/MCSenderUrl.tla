---------------------------- MODULE MCSenderUrl -----------------------------
(***************************************************************************)
(* Instances of SenderUrl for TLC: a queue message and a POST for one      *)
(* reminder, and the requests that something is wrong with.                *)
(***************************************************************************)
EXTENDS SenderUrl, TLC

CONSTANTS m1, w1, w2, k1

Ids == [r \in Requests |-> IF r \in {m1, "post", "again"} THEN k1 ELSE NoId]
ContentOf == [r \in Requests |-> CASE r = "garbled" -> "malformed"
                                   [] r = "landline" -> "undialable"
                                   [] OTHER -> "ok"]
Methods == [d \in Direct |-> CASE d = "get" -> "GET" [] d = "put" -> "PUT" [] OTHER -> "POST"]
KeysShown == [d \in Direct |-> CASE d = "keyless" -> NoKey [] d \in {"again", "get"} -> 1 [] OTHER -> 0]
AlikeWorkers == Permutations({w1, w2})
=============================================================================
