--------------------------- MODULE MCReminderPlan ---------------------------
(***************************************************************************)
(* The plan over every list of up to MaxRows hearings, built row by row,   *)
(* and the digit rules over every entry of up to MaxTyped characters,      *)
(* typed one by one.                                                       *)
(***************************************************************************)
EXTENDS ReminderPlan

CONSTANTS Label, MaxRows, Mark, Varied, MaxTyped

Phone == INSTANCE PhoneNumbers

ASSUME MarkAssumption == Mark \notin 0..9

VARIABLES rows, entry
planVars == <<rows, entry>>

\* Up to the exchange's first digit every character matters; after it, their
\* number does.
Character == IF Len(entry) < Varied THEN {0, 1, 5, Mark} ELSE {5}

AddRow ==
  /\ entry = <<>>
  /\ Len(rows) < MaxRows
  /\ \E h \in Hearing : rows' = Append(rows, h)
  /\ UNCHANGED entry

Type ==
  /\ rows = <<>>
  /\ Len(entry) < MaxTyped
  /\ \E c \in Character : entry' = Append(entry, c)
  /\ UNCHANGED rows

PlanInit == rows = <<>> /\ entry = <<>>
PlanNext == AddRow \/ Type
PlanSpec == PlanInit /\ [][PlanNext]_planVars

\* "(404) 555-2134", "1.404.555.2134", "770-555-9876" and "404-555-2134 x2".
Parens == <<Mark, 4, 0, 4, Mark, Mark, 5, 5, 5, Mark, 2, 1, 3, 4>>
Dotted == <<1, Mark, 4, 0, 4, Mark, 5, 5, 5, Mark, 2, 1, 3, 4>>
Dashed == <<7, 7, 0, Mark, 5, 5, 5, Mark, 9, 8, 7, 6>>
Extended == <<4, 0, 4, Mark, 5, 5, 5, Mark, 2, 1, 3, 4, Mark, Mark, 2>>
Stored == {Parens, Dotted, Dashed, Extended}
Normal == [n \in Stored |-> Phone!Normalize(n)]
E164Numbers == {Phone!E164(Phone!Digits(n)) : n \in {Parens, Dashed}}
Tag == [d \in E164Numbers |-> d]

\* What _plan queues for these rows is what it should queue, and no row is
\* lost or counted twice in the summary of the run.
PlansTheFirstOfEach == PlansFirstHearings(Label, rows) /\ EveryHearingCounts(Label, rows)

\* Whatever is typed, the number dialled is the one that was meant.
DialsWhatWasTyped == Phone!DialsWhatIsSpelled(entry)

\* What the daily run queues, the sender does not refuse or change.
SenderTakesWhatIsQueued == Phone!NormalizedOnceIsEnough(entry)
=============================================================================
