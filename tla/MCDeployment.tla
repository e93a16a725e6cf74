---------------------------- MODULE MCDeployment ----------------------------
(***************************************************************************)
(* An instance of Deployment for TLC: the deployment and its undoing, and  *)
(* two people who load by hand meanwhile, one of them with a mistyped      *)
(* number.  The weekly reseed is left to the proofs: it is a load without  *)
(* a phone, as the deployment's own is, and as often retried.              *)
(***************************************************************************)
EXTENDS Deployment

KindOf == [l \in Loads |->
  CASE l = "deploy" -> "Create"
    [] l = "undo" -> "Delete"
    [] OTHER -> "by hand"]

\* An event of CloudFormation may hold a phone, too; nothing may read it.
Phones == [l \in Loads |->
  CASE l = "deploy" -> "404-555-9999"
    [] l = "ada" -> "(404) 555-1234"
    [] l = "typo" -> "555-0134"
    [] OTHER -> NoPhone]

Numbers == {"(404) 555-1234", "404-555-9999", "555-0134"}
Dial == [n \in Numbers |-> CASE n = "(404) 555-1234" -> "+14045551234"
                             [] n = "404-555-9999" -> "+14045559999"
                             [] OTHER -> Unusable]

\* Asynchronous events are retried twice, a person's invocation is not.
Attempts == [l \in Loads |-> IF Kind[l] = "by hand" THEN 1 ELSE 3]
=============================================================================
