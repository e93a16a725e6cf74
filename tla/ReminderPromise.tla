-------------------------- MODULE ReminderPromise --------------------------
(***************************************************************************)
(* What the sender promises about reminders, without queue, workers, log   *)
(* or time.  A request asks for a reminder.  It may be reported as kept    *)
(* only if the reminder has been texted; otherwise it is, at some point,   *)
(* given up openly.  Once a texted reminder is sealed it is never texted   *)
(* again, whoever asks for it.                                             *)
(***************************************************************************)
EXTENDS Naturals

CONSTANTS
  Requests,     \* what callers ask for
  Reminders,    \* the reminders they may mean
  ReminderFor   \* the reminder in Reminders each request asks for

VARIABLES
  standing,     \* of each request: "unasked", "owed", "kept" or "given up"
  texts,        \* texts accepted on behalf of each request
  sealed        \* reminders that will not be texted again

vars == <<standing, texts, sealed>>

Texted(k) == \E r \in Requests : ReminderFor[r] = k /\ texts[r] > 0

Move(r, from, to) ==
  /\ standing[r] = from
  /\ standing' = [standing EXCEPT ![r] = to]
  /\ UNCHANGED texts

\* A producer may ask for several at once.
Ask(asked) ==
  /\ \A r \in asked : standing[r] = "unasked"
  /\ standing' = [r \in Requests |-> IF r \in asked THEN "owed" ELSE standing[r]]
  /\ UNCHANGED texts

Keep(r)   == Texted(ReminderFor[r]) /\ Move(r, "owed", "kept")
GiveUp(r) == Move(r, "owed", "given up")

Text(r) ==
  /\ standing[r] # "unasked"
  /\ ReminderFor[r] \notin sealed
  /\ texts' = [texts EXCEPT ![r] = @ + 1]
  /\ UNCHANGED standing

\* Any step may seal reminders that have been texted; none is ever unsealed.
Seal ==
  /\ sealed \subseteq sealed'
  /\ sealed' \subseteq Reminders
  /\ \A k \in sealed' \ sealed : Texted(k)'

Init ==
  /\ standing = [r \in Requests |-> "unasked"]
  /\ texts = [r \in Requests |-> 0]
  /\ sealed = {}

Next ==
  /\ \/ \E asked \in SUBSET Requests : Ask(asked)
     \/ \E r \in Requests : Keep(r) \/ GiveUp(r) \/ Text(r)
     \/ UNCHANGED <<standing, texts>>
  /\ Seal

Spec == Init /\ [][Next]_vars
=============================================================================
