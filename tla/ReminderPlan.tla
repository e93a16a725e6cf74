---------------------------- MODULE ReminderPlan ----------------------------
(***************************************************************************)
(* Which texts one threshold sends: SenderLogic._plan of                   *)
(* lambda/reminders/logic.py with the ids and recipients of                *)
(* lambda/reminders/messages.py.  A pure function of the hearings that the *)
(* query returned, in the query's order.                                   *)
(***************************************************************************)
EXTENDS Naturals, FiniteSets, SequencesExt

CONSTANTS
  Numbers,     \* phone numbers as the court database holds them
  Dialable,    \* numbers in E.164 form
  Unusable,    \* what normalize_us_phone raises ValueError for
  Days,        \* calendar days of hearings
  Texts,       \* what message() may return
  NoText,      \* message() returned None
  DialOf,      \* normalize_us_phone
  TagOf        \* _number_tag: the eight hex digits of a number's hash

ASSUME PlanAssumption ==
  /\ DialOf \in [Numbers -> Dialable \cup {Unusable}]
  /\ Dialable \subseteq DOMAIN TagOf
  /\ Unusable \notin Dialable
  /\ NoText \notin Texts

\* A row of the query, with the text this threshold's message() gives it.
Hearing == [number : Numbers, day : Days, text : Texts \cup {NoText}]

\* recipient() and reminder_id(): one id per label, day and number.
Recipient(h) == DialOf[h.number]
ReminderId(label, h) == <<label, h.day, TagOf[Recipient(h)]>>

\* The ReminderMessage that a hearing is queued as.
Message(label, h) ==
  [to |-> Recipient(h), message |-> h.text, reminder_id |-> ReminderId(label, h)]

Reasons == {"no_message", "unusable_phone", "duplicate"}
NothingPlanned ==
  [messages |-> <<>>, skipped |-> [why \in Reasons |-> 0], seen |-> {}]

Skip(plan, why) == [plan EXCEPT !.skipped[why] = @ + 1]

\* Plausible bugs in Consider.  A hearing without a text still claims its id ...
ConsiderSeenFirst(label, plan, h) ==
  IF Recipient(h) = Unusable THEN Skip(plan, "unusable_phone")
  ELSE IF ReminderId(label, h) \in plan.seen THEN Skip(plan, "duplicate")
  ELSE IF h.text = NoText
  THEN [Skip(plan, "no_message") EXCEPT !.seen = @ \cup {ReminderId(label, h)}]
  ELSE [plan EXCEPT
          !.messages = Append(@, Message(label, h)),
          !.seen = @ \cup {ReminderId(label, h)}]

\* ... or ids already seen are not remembered.
ConsiderForgetful(label, plan, h) ==
  IF h.text = NoText THEN Skip(plan, "no_message")
  ELSE IF Recipient(h) = Unusable THEN Skip(plan, "unusable_phone")
  ELSE [plan EXCEPT
          !.messages = Append(@, Message(label, h))]

\* The body of the loop: skip the hearing, saying why, or plan its text.
Consider(label, plan, h) ==
  IF h.text = NoText THEN Skip(plan, "no_message")
  ELSE IF Recipient(h) = Unusable THEN Skip(plan, "unusable_phone")
  ELSE IF ReminderId(label, h) \in plan.seen THEN Skip(plan, "duplicate")
  ELSE [plan EXCEPT
          !.messages = Append(@, Message(label, h)),
          !.seen = @ \cup {ReminderId(label, h)}]

Plan(label, hearings) ==
  FoldLeft(LAMBDA plan, h : Consider(label, plan, h), NothingPlanned, hearings)

-----------------------------------------------------------------------------
(* What the plan must be, stated without the loop.                         *)

Textable(h) == h.text # NoText /\ Recipient(h) # Unusable

\* Hearings that the copy cannot tell apart: one number, one court date.
SameText(h, g) == Recipient(h) = Recipient(g) /\ h.day = g.day

\* The messages are those of the first textable hearing of each number and
\* day, in the order of the query: nobody is texted twice about a day, and
\* nobody's hearing is dropped because of another's (_plan, reminder_id).
\* It holds only while no two numbers share a tag.
FirstHearings(hearings) ==
  {i \in DOMAIN hearings :
     /\ Textable(hearings[i])
     /\ \A j \in 1..(i - 1) :
          Textable(hearings[j]) => ~SameText(hearings[i], hearings[j])}

PlansFirstHearings(label, hearings) ==
  LET firsts == FirstHearings(hearings)
      planned == Plan(label, hearings).messages
      Place(i) == Cardinality({j \in firsts : j <= i})
  IN /\ Len(planned) = Cardinality(firsts)
     /\ \A i \in firsts : planned[Place(i)] = Message(label, hearings[i])

\* Every hearing is accounted for: planned, or counted under one reason, and
\* under "duplicate" only if its number is texted about that day anyway.
EveryHearingCounts(label, hearings) ==
  LET plan == Plan(label, hearings)
      counted(Why(_)) == Cardinality({i \in DOMAIN hearings : Why(hearings[i])})
  IN /\ plan.skipped["no_message"] = counted(LAMBDA h : h.text = NoText)
     /\ plan.skipped["unusable_phone"] =
          counted(LAMBDA h : h.text # NoText /\ Recipient(h) = Unusable)
     /\ plan.skipped["duplicate"] + Len(plan.messages) = counted(Textable)
=============================================================================
