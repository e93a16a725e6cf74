-------------------------- MODULE ReminderCalendar --------------------------
(***************************************************************************)
(* The calendar of the development environment: the seed fixtures, whose   *)
(* dates hang off the day they are loaded, the weekly reseed and the daily *)
(* run of cdk_stack/cdk_stack.py, the reminder query of lambda/court_db,   *)
(* and the two clocks it all runs on: the server's, which is UTC, and the  *)
(* court's, which is some hours behind.                                    *)
(*                                                                         *)
(* A day has three slots: "evening" is the server's date but still the     *)
(* court's day before; "morning", from the court's midnight, holds the     *)
(* reseed hour; "daytime" begins with the daily run.  A reseed is one step *)
(* here (DatabaseLoader has its steps), and so is a run (DailyRun).        *)
(***************************************************************************)
EXTENDS Integers, FiniteSets

CONSTANTS
  NotSeeded,     \* no fixtures have been loaded yet
  HandRunSlots,  \* when somebody may invoke CourtBotMain by hand
  Horizon,       \* bound: slots
  MaxHands,      \* bound: reseeds and runs by hand
  MaxMissed      \* bound: scheduled events whose every attempt fails

ASSUME CalendarAssumption ==
  /\ NotSeeded \notin Int
  /\ HandRunSlots \subseteq {"evening", "morning", "daytime"}
  /\ Horizon \in Nat /\ MaxHands \in Nat /\ MaxMissed \in Nat

VARIABLES
  now,       \* slots since the Monday this begins on
  anchor,    \* the server's date when the fixtures were last loaded
  byHand,    \* they were loaded by hand, or by a deploy
  due,       \* scheduled events of this slot that have still to happen
  notices,   \* the texts sent
  missed,    \* scheduled events that failed for good
  hands      \* reseeds and runs by hand

vars == <<now, anchor, byHand, due, notices, missed, hands>>

Leads == {7, 3, 1}

SlotsPerDay == 3
Slot == CASE now % SlotsPerDay = 0 -> "evening"
          [] now % SlotsPerDay = 1 -> "morning"
          [] OTHER -> "daytime"

\* CURRENT_DATE, or CONVERT(DATE, GETDATE()), on a server that runs in UTC;
\* and the date in Georgia at that moment.
ServerDate == now \div SlotsPerDay
CourtDate  == IF Slot = "evening" THEN ServerDate - 1 ELSE ServerDate
Monday(day) == day % 7 = 0

-----------------------------------------------------------------------------
(* The fixtures, by the number of the case of their first defendant.  Times *)
(* are in hours from the midnight the fixtures are anchored at.             *)

Unusable == "unusable"

\* A phone row: its type and number as typed, and what normalize_us_phone
\* makes of that number.  Rows the query could not tell apart are one.
Phone(case, type, typed, dials) ==
  [case |-> case, type |-> type, typed |-> typed, dials |-> dials]

PhoneRows == {
  Phone(101, "CELL", "parens", "0101"),   Phone(102, "MOBILE", "bare", "0103"),
  Phone(103, "HOME", "dotted", "0104"),   Phone(104, "CELL", "E.164", "0105"),
  Phone(104, "Cell", "dashes", "0112"),   Phone(105, "CELL", "leading 1", "0106"),
  Phone(106, "CELL", "mixed", "0107"),    Phone(107, "CELL", "dashes", "0108"),
  Phone(107, "CELL", "parens", "0108"),   Phone(108, "CELL", "spaces", "0109"),
  Phone(108, "MOBILE", "extension", Unusable),
  Phone(109, "CELL", "dashes", "0111"),   Phone(109, "CELL PHONE", "parens", "0111"),
  Phone(111, "CELL", "UNKNOWN", Unusable), Phone(111, "CELL", "5550134", Unusable),
  Phone(111, "CELL", "", Unusable),
  Phone(112, "CELL", "E.164", "0116"),    Phone(113, "CELL", "E.164", "0117"),
  Phone(114, "CELL", "E.164", "0118") }

Hearing(case, days, hour) == [case |-> case, at |-> 24 * days + hour]

\* A plausible bug in HearingRows: the daily hearings end with the week.
HearingRowsOneWeek == {
  Hearing(101, 7, 9), Hearing(112, 7, 9), Hearing(113, 3, 10), Hearing(114, 1, 11) }
  \cup {Hearing(109, days, 8) : days \in 1..7}

HearingRows == {
  Hearing(101, 7, 9),   Hearing(101, 30, 9), Hearing(102, 7, 13), Hearing(103, 7, 10),
  Hearing(104, 7, 0),   Hearing(105, 8, 0),  Hearing(106, 3, 9),  Hearing(107, 7, 10),
  Hearing(108, 7, 11),  Hearing(110, 7, 14), Hearing(111, 7, 15),
  Hearing(112, 7, 9),   Hearing(113, 3, 10), Hearing(114, 1, 11) }
  \cup {Hearing(109, days, 8) : days \in 1..14}

-----------------------------------------------------------------------------
(* The reminder query.                                                     *)

\* A plausible bug in InWindow: BETWEEN, which takes the next midnight too.
InWindowInclusive(at, lead) ==
  LET from == 24 * (ServerDate - anchor + lead) IN from <= at /\ at <= from + 24

\* From midnight `lead` days out to the midnight after, on the server's clock.
InWindow(at, lead) ==
  LET from == 24 * (ServerDate - anchor + lead) IN from <= at /\ at < from + 24

\* PhoneType IN ('CELL', 'MOBILE'), compared without regard to case.
CellPhone(type) == type \in {"CELL", "Cell", "MOBILE"}

\* No case has two hearings in one window, so a phone row stands for one row
\* of the query.
UpcomingHearings(lead) ==
  IF anchor = NotSeeded THEN {}
  ELSE {p \in PhoneRows : CellPhone(p.type) /\
          \E h \in HearingRows : h.case = p.case /\ InWindow(h.at, lead)}

\* What a run texts: one notice per threshold, hearing date and number.  A
\* number that cannot be dialled is skipped, and an id already in the sent
\* log is dropped by the sender.  The text was sent on a date of the court.
IdOf(notice) == <<notice.lead, notice.hearing, notice.number>>

\* A plausible bug in Textable: numbers are queued as they were typed.
TextableAll(rows) == rows
Textable(rows) == {p \in rows : p.dials # Unusable}

Due(lead) ==
  {[lead |-> lead, hearing |-> ServerDate + lead, number |-> p.dials, sent |-> CourtDate] :
     p \in Textable(UpcomingHearings(lead))}

RunReminders ==
  LET texted == {IdOf(n) : n \in notices}
  IN notices' = notices \cup
       {n \in UNION {Due(lead) : lead \in Leads} : IdOf(n) \notin texted}

-----------------------------------------------------------------------------
(* The schedule.                                                           *)

\* Plausible bugs in Scheduled: a reseed every day, a reseed on Sundays, and a
\* daily run at midnight UTC.
ScheduledDaily(slot, day) ==
  (IF slot = "morning" THEN {"reseed"} ELSE {})
    \cup (IF slot = "daytime" THEN {"run"} ELSE {})
ScheduledSundays(slot, day) ==
  (IF slot = "morning" /\ Monday(day + 1) THEN {"reseed"} ELSE {})
    \cup (IF slot = "daytime" THEN {"run"} ELSE {})
ScheduledAtMidnight(slot, day) ==
  (IF slot = "morning" /\ Monday(day) THEN {"reseed"} ELSE {})
    \cup (IF slot = "evening" THEN {"run"} ELSE {})

\* CourtDatabaseWeeklyReseed at RESEED_HOUR_UTC on RESEED_WEEKDAY, and
\* CourtBotDailyReminders at DAILY_RUN_HOUR_UTC.
Scheduled(slot, day) ==
  (IF slot = "morning" /\ Monday(day) THEN {"reseed"} ELSE {})
    \cup (IF slot = "daytime" THEN {"run"} ELSE {})

\* Time passes once what is due has run or failed for good: both finish
\* within minutes, and EventBridge's retries within the slot.
Tick ==
  /\ due = {}
  /\ now < Horizon
  /\ now' = now + 1
  /\ due' = Scheduled(Slot', ServerDate')
  /\ UNCHANGED <<anchor, byHand, notices, missed, hands>>

WeeklyReseed ==
  /\ "reseed" \in due
  /\ due' = due \ {"reseed"}
  /\ anchor' = ServerDate
  /\ byHand' = FALSE
  /\ UNCHANGED <<now, notices, missed, hands>>

DailyRun ==
  /\ "run" \in due
  /\ due' = due \ {"run"}
  /\ RunReminders
  /\ UNCHANGED <<now, anchor, byHand, missed, hands>>

\* Every attempt of a scheduled event fails.
Miss(event) ==
  /\ event \in due
  /\ missed < MaxMissed
  /\ missed' = missed + 1
  /\ due' = due \ {event}
  /\ UNCHANGED <<now, anchor, byHand, notices, hands>>

\* A deploy with a new seed version, or the loader invoked by hand.
HandReseed ==
  /\ hands < MaxHands
  /\ hands' = hands + 1
  /\ anchor' = ServerDate
  /\ byHand' = TRUE
  /\ UNCHANGED <<now, due, notices, missed>>

HandRun ==
  /\ Slot \in HandRunSlots
  /\ hands < MaxHands
  /\ hands' = hands + 1
  /\ RunReminders
  /\ UNCHANGED <<now, anchor, byHand, due, missed>>

Init ==
  /\ now = 0
  /\ anchor = NotSeeded
  /\ byHand = FALSE
  /\ due = Scheduled(Slot, ServerDate)
  /\ notices = {}
  /\ missed = 0
  /\ hands = 0

Next ==
  \/ Tick \/ WeeklyReseed \/ DailyRun \/ HandReseed \/ HandRun
  \/ \E event \in {"reseed", "run"} : Miss(event)

Spec == Init /\ [][Next]_vars

-----------------------------------------------------------------------------
(* Properties.                                                             *)

Days == 0..(Horizon \div SlotsPerDay)
Dialable == {p.dials : p \in PhoneRows} \ {Unusable}

TypeOK ==
  /\ now \in 0..Horizon
  /\ anchor \in Days \cup {NotSeeded}
  /\ byHand \in BOOLEAN
  /\ due \subseteq {"reseed", "run"}
  /\ notices \subseteq [lead : Leads, hearing : Nat, number : Dialable, sent : Int]
  /\ missed \in 0..MaxMissed
  /\ hands \in 0..MaxHands

\* A reminder that says a hearing is `lead` days away goes out that many of
\* the court's days before it (CourtCaseRepository: "the window is
\* court-local"; OneDayReminder: "your court date is tomorrow").
WindowIsCourtLocal == \A n \in notices : n.hearing = n.sent + n.lead

\* "No threshold ever comes back empty" (README, the weekly reseed), at any
\* hour of any day, as long as no scheduled reseed failed for good: on the
\* evening a week after a load, too, when case 109 is left.  README says the
\* opposite under "Why you have to reseed" ("within a week nothing sits at seven,
\* three or one day and the reminder query comes back empty"), as do
\* local_reseed.py and the test of the weekly reseed ("a week after a reseed
\* nothing sits at the 7/3/1 reminder thresholds"); the fixtures do not.
NoThresholdEmpty ==
  anchor # NotSeeded /\ missed = 0 =>
    \A lead \in Leads : UpcomingHearings(lead) # {}

\* Right after loading, each cadence holds the rows, the dialable rows and
\* the distinct numbers of README's table "What each cadence contains".
Cadence(lead) ==
  LET rows == UpcomingHearings(lead)
      dialable == {p \in rows : p.dials # Unusable}
  IN <<Cardinality(rows), Cardinality(dialable), Cardinality({p.dials : p \in dialable})>>

CadencesAreAsDocumented ==
  anchor = ServerDate =>
    /\ Cadence(7) = <<13, 9, 8>>
    /\ Cadence(3) = <<3, 3, 3>>
    /\ Cadence(1) = <<2, 2, 2>>

\* The ladder cases a run finds on each day of a week the reseed started are
\* those of README's table "The dev database re-seeds itself weekly".
Ladder(lead) == {p.case : p \in UpcomingHearings(lead)} \cap {112, 113, 114}
LadderFollowsTheTable ==
  Slot = "daytime" /\ anchor # NotSeeded /\ ~byHand /\ missed = 0 =>
    LET weekday == ServerDate % 7 IN
    /\ Ladder(7) = IF weekday = 0 THEN {112} ELSE {}
    /\ Ladder(3) = IF weekday = 0 THEN {113} ELSE IF weekday = 4 THEN {112} ELSE {}
    /\ Ladder(1) = IF weekday = 0 THEN {114} ELSE IF weekday = 2 THEN {113}
                   ELSE IF weekday = 6 THEN {112} ELSE {}

\* "A week is also exactly one hearing's pass through the reminders"
\* (_weekly_reseed): by Sunday, the hearing case 112 has on Monday has been
\* texted seven, three and one days ahead, whatever was run by hand meanwhile.
OneHearingPassesThrough ==
  Slot = "daytime" /\ ServerDate % 7 = 6 /\ due = {} /\ ~byHand /\ missed = 0 =>
    \A lead \in Leads : \E n \in notices :
      n.lead = lead /\ n.hearing = ServerDate + 1 /\ n.number = "0116"
=============================================================================
