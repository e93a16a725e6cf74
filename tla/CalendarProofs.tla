--------------------------- MODULE CalendarProofs ---------------------------
(***************************************************************************)
(* Proofs about the calendar, for any horizon and any number of reseeds    *)
(* and runs by hand: what the texts say of the days left, that no          *)
(* threshold is ever empty, what the runs of a week find and text, and     *)
(* what each cadence holds.                                                *)
(***************************************************************************)
EXTENDS ReminderCalendar, FiniteSetTheorems, TLAPS

\* The scheduled run is due only when both clocks show the same date.
DaytimeInv ==
  /\ now \in Nat
  /\ "run" \in due => Slot = "daytime"

\* With it, the property is inductive.
CourtLocalInv == DaytimeInv /\ WindowIsCourtLocal

\* A run of the daytime, or of the morning, says the right number of days.
LEMMA RunIsCourtLocal ==
  ASSUME WindowIsCourtLocal, RunReminders, now \in Nat, Slot # "evening"
  PROVE  WindowIsCourtLocal'
<1>1. CourtDate = ServerDate
  BY DEF CourtDate
<1>2. ASSUME NEW lead \in Leads, NEW n \in Due(lead)
      PROVE  n.hearing = n.sent + n.lead
  <2>1. ServerDate \in Int /\ lead \in Int
    BY DEF ServerDate, SlotsPerDay, Leads
  <2> QED BY <1>1, <1>2, <2>1 DEF Due
<1>3. \A n \in notices' : n \in notices \/ \E lead \in Leads : n \in Due(lead)
  BY DEF RunReminders
<1> QED BY <1>2, <1>3 DEF WindowIsCourtLocal

\* It holds at first ...
LEMMA CourtLocalInit == Init => CourtLocalInv
BY DEF Init, CourtLocalInv, DaytimeInv, WindowIsCourtLocal, Scheduled, Slot

\* ... and every step keeps it, unless somebody runs the handler in the
\* evening.
LEMMA CourtLocalStep ==
  ASSUME "evening" \notin HandRunSlots
  PROVE  CourtLocalInv /\ [Next]_vars => CourtLocalInv'
<1> SUFFICES ASSUME CourtLocalInv, [Next]_vars PROVE CourtLocalInv'
  OBVIOUS
<1> USE DEF CourtLocalInv
<1>1. CASE UNCHANGED vars
  BY <1>1 DEF vars, DaytimeInv, WindowIsCourtLocal, Slot
<1>2. CASE Tick
  <2>1. now' \in Nat
    BY <1>2 DEF Tick, DaytimeInv
  <2>2. "run" \in due' => Slot' = "daytime"
    BY <1>2 DEF Tick, Scheduled
  <2> QED BY <1>2, <2>1, <2>2 DEF Tick, DaytimeInv, WindowIsCourtLocal
<1>3. CASE WeeklyReseed \/ HandReseed \/ \E event \in {"reseed", "run"} : Miss(event)
  BY <1>3 DEF WeeklyReseed, HandReseed, Miss, DaytimeInv, WindowIsCourtLocal, Slot
<1>4. CASE DailyRun
  <2>1. WindowIsCourtLocal'
    BY <1>4, RunIsCourtLocal DEF DailyRun, DaytimeInv
  <2> QED BY <1>4, <2>1 DEF DailyRun, DaytimeInv, Slot
<1>5. CASE HandRun
  <2>1. WindowIsCourtLocal'
    BY <1>5, RunIsCourtLocal DEF HandRun, DaytimeInv
  <2> QED BY <1>5, <2>1 DEF HandRun, DaytimeInv, Slot
<1> QED BY <1>1, <1>2, <1>3, <1>4, <1>5 DEF Next

\* As long as nobody runs CourtBotMain by hand in the evening of Georgia, each
\* text says how many of the court's days are left, whatever is reseeded,
\* missed or run by hand at other times.
THEOREM RunsByDayAreCourtLocal ==
  ASSUME "evening" \notin HandRunSlots
  PROVE  Spec => []WindowIsCourtLocal
<1>1. CourtLocalInv => WindowIsCourtLocal
  BY DEF CourtLocalInv
<1>2. CourtLocalInv /\ [Next]_vars => CourtLocalInv'
  BY CourtLocalStep
<1> QED BY CourtLocalInit, <1>1, <1>2, PTL DEF Spec

-----------------------------------------------------------------------------
\* The Monday the scheduled reseed was last due on: on a Monday, that of the
\* week before until the reseed of this one has been.
WeekStart ==
  IF Monday(ServerDate) /\ (Slot = "evening" \/ "reseed" \in due)
  THEN ServerDate - 7 ELSE ServerDate - (ServerDate % 7)

\* The texts that a run may send.
Notice == [lead : Leads, hearing : Nat, number : Dialable, sent : Int]

\* The types, and that events are due only in the slots that schedule them.
CalendarInv ==
  /\ now \in Nat /\ now <= Horizon
  /\ due \subseteq Scheduled(Slot, ServerDate)
  /\ byHand \in BOOLEAN
  /\ notices \subseteq Notice
  /\ missed \in Nat /\ missed <= MaxMissed
  /\ hands \in Nat /\ hands <= MaxHands

\* The fixtures were loaded today or before.
AnchorInv == anchor # NotSeeded => anchor \in Nat /\ anchor <= ServerDate

\* Unless an event failed for good, they have been loaded since the first
\* morning.
SeededInv ==
  missed = 0 /\ now # 0 /\ ~(now = 1 /\ "reseed" \in due) => anchor # NotSeeded

\* Unless an event failed for good, they are never older than the last Monday
\* whose reseed is over, and of that Monday if nobody loaded them by hand.
FreshInv ==
  anchor # NotSeeded /\ missed = 0 => WeekStart <= anchor /\ (~byHand => anchor = WeekStart)

\* The scheduled run of that day is over.
Ran(day) ==
  \/ day < ServerDate
  \/ day = ServerDate /\ Slot = "daytime" /\ "run" \notin due

\* The hearing that case 112 has on the Monday to come was texted that far
\* ahead.
Told(lead) ==
  \E n \in notices : n.lead = lead /\ n.hearing = WeekStart + 7 /\ n.number = "0116"

\* Each run of the week that was to text it has done so.
PassInv ==
  anchor # NotSeeded /\ missed = 0 /\ ~byHand =>
    \A lead \in Leads : Ran(WeekStart + 7 - lead) => Told(lead)

\* What the two clocks may show.
LEMMA ClockFacts ==
  ASSUME now \in Nat
  PROVE  /\ ServerDate \in Nat
         /\ ServerDate % 7 \in 0..6
         /\ Slot \in {"evening", "morning", "daytime"}
         /\ now = 0 => Slot = "evening" /\ ServerDate = 0
         /\ now <= Horizon => ServerDate <= Horizon \div SlotsPerDay
<1>1. ServerDate \in Nat
  BY DEF ServerDate, SlotsPerDay
<1>2. ServerDate % 7 \in 0..6
  BY <1>1
<1>3. Slot \in {"evening", "morning", "daytime"}
  BY DEF Slot
<1>4. now = 0 => Slot = "evening" /\ ServerDate = 0
  BY DEF Slot, ServerDate, SlotsPerDay
<1>5. now <= Horizon => ServerDate <= Horizon \div SlotsPerDay
  BY CalendarAssumption DEF ServerDate, SlotsPerDay
<1> QED BY <1>1, <1>2, <1>3, <1>4, <1>5

\* How they go on.
LEMMA ClockTicks ==
  ASSUME now \in Nat, now' = now + 1
  PROVE  /\ Slot = "evening" => Slot' = "morning" /\ ServerDate' = ServerDate
         /\ Slot = "morning" => Slot' = "daytime" /\ ServerDate' = ServerDate
         /\ Slot = "daytime" => Slot' = "evening" /\ ServerDate' = ServerDate + 1
<1>1. CASE now % 3 = 0
  <2>1. (now + 1) % 3 = 1 /\ (now + 1) \div 3 = now \div 3
    BY <1>1
  <2> QED BY <1>1, <2>1 DEF Slot, ServerDate, SlotsPerDay
<1>2. CASE now % 3 = 1
  <2>1. (now + 1) % 3 = 2 /\ (now + 1) \div 3 = now \div 3
    BY <1>2
  <2> QED BY <1>2, <2>1 DEF Slot, ServerDate, SlotsPerDay
<1>3. CASE now % 3 = 2
  <2>1. (now + 1) % 3 = 0 /\ (now + 1) \div 3 = now \div 3 + 1
    BY <1>3
  <2> QED BY <1>3, <2>1 DEF Slot, ServerDate, SlotsPerDay
<1> QED BY <1>1, <1>2, <1>3

\* Today is within a week of the start of the week, and a full week after it
\* just until the reseed of a Monday.
LEMMA WeekFacts ==
  ASSUME now \in Nat
  PROVE  /\ WeekStart \in Int
         /\ WeekStart <= ServerDate
         /\ ServerDate <= WeekStart + 7
         /\ ServerDate = WeekStart + 7 <=>
              Monday(ServerDate) /\ (Slot = "evening" \/ "reseed" \in due)
<1>1. ServerDate \in Nat /\ ServerDate % 7 \in 0..6
  BY ClockFacts
<1>2. CASE Monday(ServerDate) /\ (Slot = "evening" \/ "reseed" \in due)
  <2>1. WeekStart = ServerDate - 7
    BY <1>2 DEF WeekStart
  <2> QED BY <1>1, <1>2, <2>1
<1>3. CASE ~(Monday(ServerDate) /\ (Slot = "evening" \/ "reseed" \in due))
  <2>1. WeekStart = ServerDate - (ServerDate % 7)
    BY <1>3 DEF WeekStart
  <2> QED BY <1>1, <1>3, <2>1
<1> QED BY <1>2, <1>3

\* A new slot leaves the reseed of the week where it was: a Monday that begins
\* still waits for its own.
LEMMA WeekStartTicks ==
  ASSUME CalendarInv, Tick
  PROVE  WeekStart' = WeekStart
<1>1. now \in Nat /\ now' = now + 1 /\ due = {} /\ due' = Scheduled(Slot', ServerDate')
  BY DEF CalendarInv, Tick
<1>2. ServerDate \in Nat /\ Slot \in {"evening", "morning", "daytime"}
  BY <1>1, ClockFacts
<1>3. CASE Slot = "evening"
  <2>1. Slot' = "morning" /\ ServerDate' = ServerDate
    BY <1>1, <1>3, ClockTicks
  <2>2. "reseed" \in due' <=> Monday(ServerDate)
    BY <1>1, <2>1 DEF Scheduled
  <2> QED BY <1>1, <1>3, <2>1, <2>2 DEF WeekStart
<1>4. CASE Slot = "morning"
  <2>1. Slot' = "daytime" /\ ServerDate' = ServerDate
    BY <1>1, <1>4, ClockTicks
  <2>2. "reseed" \notin due'
    BY <1>1, <2>1 DEF Scheduled
  <2> QED BY <1>1, <1>4, <2>1, <2>2 DEF WeekStart
<1>5. CASE Slot = "daytime"
  <2>1. Slot' = "evening" /\ ServerDate' = ServerDate + 1
    BY <1>1, <1>5, ClockTicks
  <2>2. WeekStart = ServerDate - (ServerDate % 7)
    BY <1>1, <1>5 DEF WeekStart
  <2>3. CASE ServerDate % 7 = 6
    <3>1. (ServerDate + 1) % 7 = 0
      BY <1>2, <2>3
    <3>2. WeekStart' = (ServerDate + 1) - 7
      BY <2>1, <3>1 DEF WeekStart, Monday
    <3> QED BY <1>2, <2>2, <2>3, <3>2
  <2>4. CASE ServerDate % 7 # 6
    <3>1. (ServerDate + 1) % 7 = (ServerDate % 7) + 1 /\ ServerDate % 7 \in 0..6
      BY <1>2, <2>4
    <3>2. WeekStart' = (ServerDate + 1) - ((ServerDate + 1) % 7)
      BY <2>1, <3>1 DEF WeekStart, Monday
    <3> QED BY <1>2, <2>2, <3>1, <3>2
  <2> QED BY <2>3, <2>4
<1> QED BY <1>2, <1>3, <1>4, <1>5

\* What is due is a text that may be sent.
LEMMA DueIsANotice ==
  ASSUME now \in Nat, NEW lead \in Leads, NEW n \in Due(lead)
  PROVE  n \in Notice
<1>1. ServerDate \in Nat /\ CourtDate \in Int /\ lead \in Nat
  BY ClockFacts DEF CourtDate, Leads
<1>2. \A p \in Textable(UpcomingHearings(lead)) : p.dials \in Dialable
  BY DEF Textable, UpcomingHearings, Dialable
<1>3. ServerDate + lead \in Nat
  BY <1>1
<1> QED BY <1>1, <1>2, <1>3 DEF Due, Notice

\* A run only adds texts.
LEMMA RunAddsNotices ==
  ASSUME now \in Nat, notices \subseteq Notice, RunReminders
  PROVE  notices \subseteq notices' /\ notices' \subseteq Notice
<1>1. \A n \in notices' : n \in notices \/ \E lead \in Leads : n \in Due(lead)
  BY DEF RunReminders
<1>2. notices \subseteq notices'
  BY DEF RunReminders
<1> QED BY <1>1, <1>2, DueIsANotice

\* Every step keeps the types.
LEMMA CalendarStep == CalendarInv /\ [Next]_vars => CalendarInv'
<1> SUFFICES ASSUME CalendarInv, [Next]_vars PROVE CalendarInv'
  OBVIOUS
<1>1. now \in Nat /\ Horizon \in Nat /\ MaxHands \in Nat /\ MaxMissed \in Nat
  BY CalendarAssumption DEF CalendarInv
<1>2. CASE Tick
  <2>1. now' \in Nat /\ now' <= Horizon
    BY <1>1, <1>2 DEF Tick
  <2> QED BY <1>2, <2>1 DEF Tick, CalendarInv
<1>3. CASE WeeklyReseed
  BY <1>3 DEF WeeklyReseed, CalendarInv, Slot, ServerDate
<1>4. CASE DailyRun
  <2>1. notices' \subseteq Notice
    BY <1>1, <1>4, RunAddsNotices DEF DailyRun, CalendarInv
  <2> QED BY <1>4, <2>1 DEF DailyRun, CalendarInv, Slot, ServerDate
<1>5. CASE HandReseed
  <2>1. hands' \in Nat /\ hands' <= MaxHands
    BY <1>1, <1>5 DEF HandReseed, CalendarInv
  <2> QED BY <1>5, <2>1 DEF HandReseed, CalendarInv, Slot, ServerDate
<1>6. CASE HandRun
  <2>1. hands' \in Nat /\ hands' <= MaxHands
    BY <1>1, <1>6 DEF HandRun, CalendarInv
  <2>2. notices' \subseteq Notice
    BY <1>1, <1>6, RunAddsNotices DEF HandRun, CalendarInv
  <2> QED BY <1>6, <2>1, <2>2 DEF HandRun, CalendarInv, Slot, ServerDate
<1>7. ASSUME NEW event \in {"reseed", "run"}, Miss(event)
      PROVE  CalendarInv'
  <2>1. missed' \in Nat /\ missed' <= MaxMissed
    BY <1>1, <1>7 DEF Miss, CalendarInv
  <2> QED BY <1>7, <2>1 DEF Miss, CalendarInv, Slot, ServerDate
<1>8. CASE UNCHANGED vars
  BY <1>8 DEF vars, CalendarInv, Slot, ServerDate
<1> QED BY <1>2, <1>3, <1>4, <1>5, <1>6, <1>7, <1>8 DEF Next

\* All the invariants hold at first.
LEMMA CalendarInit == Init => CalendarInv /\ AnchorInv /\ SeededInv /\ FreshInv /\ PassInv
<1> SUFFICES ASSUME Init PROVE CalendarInv /\ AnchorInv /\ SeededInv /\ FreshInv /\ PassInv
  OBVIOUS
<1>1. Horizon \in Nat /\ MaxHands \in Nat /\ MaxMissed \in Nat
  BY CalendarAssumption
<1>2. now \in Nat /\ now <= Horizon
  BY <1>1 DEF Init
<1>3. hands \in Nat /\ hands <= MaxHands
  BY <1>1 DEF Init
<1>4. missed \in Nat /\ missed <= MaxMissed
  BY <1>1 DEF Init
<1>5. byHand \in BOOLEAN /\ notices \subseteq Notice /\ due \subseteq Scheduled(Slot, ServerDate)
  BY DEF Init
<1>6. CalendarInv
  BY <1>2, <1>3, <1>4, <1>5 DEF CalendarInv
<1> QED BY <1>6 DEF Init, AnchorInv, SeededInv, FreshInv, PassInv

\* Every step keeps the anchor in the past.
LEMMA AnchorStep == CalendarInv /\ AnchorInv /\ [Next]_vars => AnchorInv'
<1> SUFFICES ASSUME CalendarInv, AnchorInv, [Next]_vars PROVE AnchorInv'
  OBVIOUS
<1>1. now \in Nat /\ ServerDate \in Nat
  BY ClockFacts DEF CalendarInv
<1>2. CASE Tick
  <2>1. Slot \in {"evening", "morning", "daytime"} /\ now' = now + 1
    BY <1>1, <1>2, ClockFacts DEF Tick
  <2>2. ServerDate' \in {ServerDate, ServerDate + 1}
    BY <1>1, <2>1, ClockTicks
  <2> QED BY <1>1, <1>2, <2>2 DEF Tick, AnchorInv
<1>3. CASE WeeklyReseed \/ HandReseed
  BY <1>1, <1>3 DEF WeeklyReseed, HandReseed, AnchorInv, ServerDate
<1>4. CASE DailyRun \/ HandRun \/ (\E event \in {"reseed", "run"} : Miss(event)) \/ UNCHANGED vars
  BY <1>4 DEF DailyRun, HandRun, Miss, vars, AnchorInv, ServerDate
<1> QED BY <1>2, <1>3, <1>4 DEF Next

\* The first morning's reseed loads the fixtures, and nothing unloads them.
LEMMA SeededStep == CalendarInv /\ SeededInv /\ [Next]_vars => SeededInv'
<1> SUFFICES ASSUME CalendarInv, SeededInv, [Next]_vars PROVE SeededInv'
  OBVIOUS
<1>1. now \in Nat
  BY DEF CalendarInv
<1>2. CASE Tick
  <2>1. now' = now + 1 /\ due = {} /\ anchor' = anchor /\ missed' = missed
        /\ due' = Scheduled(Slot', ServerDate')
    BY <1>2 DEF Tick
  <2>2. CASE now = 0
    <3>1. Slot' = "morning" /\ ServerDate' = 0 /\ now' = 1
      BY <1>1, <2>1, <2>2, ClockFacts, ClockTicks
    <3>2. "reseed" \in due'
      BY <2>1, <3>1 DEF Scheduled, Monday
    <3> QED BY <3>1, <3>2 DEF SeededInv
  <2>3. CASE now # 0
    BY <2>1, <2>3 DEF SeededInv
  <2> QED BY <2>2, <2>3
<1>3. CASE WeeklyReseed \/ HandReseed
  <2>1. ServerDate \in Int
    BY <1>1, ClockFacts
  <2>2. anchor' # NotSeeded
    BY <1>3, <2>1, CalendarAssumption DEF WeeklyReseed, HandReseed
  <2> QED BY <2>2 DEF SeededInv
<1>4. CASE DailyRun
  BY <1>4 DEF DailyRun, SeededInv
<1>5. ASSUME NEW event \in {"reseed", "run"}, Miss(event)
      PROVE  SeededInv'
  <2>1. missed' # 0
    BY <1>5 DEF Miss, CalendarInv
  <2> QED BY <2>1 DEF SeededInv
<1>6. CASE HandRun \/ UNCHANGED vars
  BY <1>6 DEF HandRun, vars, SeededInv
<1> QED BY <1>2, <1>3, <1>4, <1>5, <1>6 DEF Next

\* A week's reseed brings the anchor to its Monday, and a load by hand beyond
\* it.
LEMMA FreshStep == CalendarInv /\ FreshInv /\ [Next]_vars => FreshInv'
<1> SUFFICES ASSUME CalendarInv, FreshInv, [Next]_vars PROVE FreshInv'
  OBVIOUS
<1>1. now \in Nat
  BY DEF CalendarInv
<1>2. CASE Tick
  <2>1. WeekStart' = WeekStart
    BY <1>2, WeekStartTicks
  <2> QED BY <1>2, <2>1 DEF Tick, FreshInv
<1>3. CASE WeeklyReseed
  <2>1. Slot = "morning" /\ Monday(ServerDate)
    BY <1>3 DEF WeeklyReseed, CalendarInv, Scheduled
  <2>2. ServerDate' = ServerDate /\ Slot' = Slot /\ "reseed" \notin due' /\ anchor' = ServerDate
    BY <1>3 DEF WeeklyReseed, ServerDate, Slot
  <2>3. ServerDate \in Nat
    BY <1>1, ClockFacts
  <2>4. WeekStart' = ServerDate - 0
    BY <2>1, <2>2 DEF WeekStart, Monday
  <2> QED BY <2>2, <2>3, <2>4 DEF FreshInv
<1>4. CASE HandReseed
  <2>1. WeekStart' = WeekStart /\ anchor' = ServerDate /\ byHand' = TRUE
    BY <1>4 DEF HandReseed, WeekStart, ServerDate, Slot
  <2>2. WeekStart <= ServerDate
    BY <1>1, WeekFacts
  <2> QED BY <2>1, <2>2 DEF FreshInv
<1>5. CASE DailyRun
  <2>1. WeekStart' = WeekStart
    BY <1>5 DEF DailyRun, WeekStart, ServerDate, Slot
  <2> QED BY <1>5, <2>1 DEF DailyRun, FreshInv
<1>6. ASSUME NEW event \in {"reseed", "run"}, Miss(event)
      PROVE  FreshInv'
  <2>1. missed' # 0
    BY <1>6 DEF Miss, CalendarInv
  <2> QED BY <2>1 DEF FreshInv
<1>7. CASE HandRun \/ UNCHANGED vars
  <2>1. WeekStart' = WeekStart
    BY <1>7 DEF HandRun, vars, WeekStart, ServerDate, Slot
  <2> QED BY <1>7, <2>1 DEF HandRun, vars, FreshInv
<1> QED BY <1>2, <1>3, <1>4, <1>5, <1>6, <1>7 DEF Next

\* The hearings of the ladder and of the daily case, off the table.
LEMMA HearingsOfCases ==
  /\ \A h \in HearingRows : h.case = 112 => h.at = 177
  /\ \A h \in HearingRows : h.case = 113 => h.at = 82
  /\ \A h \in HearingRows : h.case = 114 => h.at = 35
  /\ \E h \in HearingRows : h.case = 112 /\ h.at = 177
  /\ \E h \in HearingRows : h.case = 113 /\ h.at = 82
  /\ \E h \in HearingRows : h.case = 114 /\ h.at = 35
  /\ \A days \in 1..14 : \E h \in HearingRows : h.case = 109 /\ h.at = 24 * days + 8
<1>1. /\ \A h \in HearingRows : h.case = 112 => h.at = 177
      /\ \A h \in HearingRows : h.case = 113 => h.at = 82
      /\ \A h \in HearingRows : h.case = 114 => h.at = 35
  BY DEF HearingRows, Hearing
<1>2. /\ Hearing(112, 7, 9) \in HearingRows
      /\ Hearing(113, 3, 10) \in HearingRows
      /\ Hearing(114, 1, 11) \in HearingRows
      /\ \A days \in 1..14 : Hearing(109, days, 8) \in HearingRows
  BY DEF HearingRows
<1>3. /\ Hearing(112, 7, 9).case = 112 /\ Hearing(112, 7, 9).at = 177
      /\ Hearing(113, 3, 10).case = 113 /\ Hearing(113, 3, 10).at = 82
      /\ Hearing(114, 1, 11).case = 114 /\ Hearing(114, 1, 11).at = 35
      /\ \A days \in 1..14 : Hearing(109, days, 8).case = 109 /\ Hearing(109, days, 8).at = 24 * days + 8
  BY DEF Hearing
<1> QED BY <1>1, <1>2, <1>3

\* Their phones.
LEMMA PhonesOfCases ==
  /\ \E p \in PhoneRows : p.case = 109 /\ CellPhone(p.type)
  /\ \A p \in PhoneRows : p.case \in {112, 113, 114} => CellPhone(p.type) /\ p.dials # Unusable
  /\ \E p \in PhoneRows : p.case = 112 /\ p.dials = "0116"
  /\ \E p \in PhoneRows : p.case = 113
  /\ \E p \in PhoneRows : p.case = 114
<1>1. /\ Phone(109, "CELL", "dashes", "0111") \in PhoneRows
      /\ Phone(112, "CELL", "E.164", "0116") \in PhoneRows
      /\ Phone(113, "CELL", "E.164", "0117") \in PhoneRows
      /\ Phone(114, "CELL", "E.164", "0118") \in PhoneRows
  BY DEF PhoneRows
<1>2. /\ Phone(109, "CELL", "dashes", "0111").case = 109
      /\ Phone(109, "CELL", "dashes", "0111").type = "CELL"
      /\ Phone(112, "CELL", "E.164", "0116").case = 112
      /\ Phone(112, "CELL", "E.164", "0116").dials = "0116"
      /\ Phone(113, "CELL", "E.164", "0117").case = 113
      /\ Phone(114, "CELL", "E.164", "0118").case = 114
  BY DEF Phone
<1>3. /\ \A p \in PhoneRows : p.case \in {112, 113, 114} => p.type = "CELL"
      /\ \A p \in PhoneRows : p.case = 112 => p.dials = "0116"
      /\ \A p \in PhoneRows : p.case = 113 => p.dials = "0117"
      /\ \A p \in PhoneRows : p.case = 114 => p.dials = "0118"
  BY DEF PhoneRows, Phone
<1>4. "0116" # "unusable" /\ "0117" # "unusable" /\ "0118" # "unusable"
  OBVIOUS
<1> QED BY <1>1, <1>2, <1>3, <1>4 DEF CellPhone, Unusable

\* As long as no scheduled event failed for good, no threshold comes back
\* empty in any slot of any day, however long it runs and whatever is reseeded
\* by hand: the fixtures hold hearings for fourteen days, and are never more
\* than seven days old (README, the weekly reseed).
THEOREM NoCadenceIsEmpty == Spec => []NoThresholdEmpty
<1>1. CalendarInv /\ AnchorInv /\ FreshInv => NoThresholdEmpty
  <2> SUFFICES ASSUME CalendarInv, AnchorInv, FreshInv, anchor # NotSeeded, missed = 0,
                      NEW lead \in Leads
               PROVE  UpcomingHearings(lead) # {}
    BY DEF NoThresholdEmpty
  <2> DEFINE days == ServerDate - anchor + lead
  <2>1. ServerDate \in Nat /\ anchor \in Nat /\ lead \in 1..7
    BY ClockFacts DEF CalendarInv, AnchorInv, Leads
  <2>2. WeekStart <= anchor /\ anchor <= ServerDate /\ ServerDate <= WeekStart + 7
    BY WeekFacts DEF CalendarInv, AnchorInv, FreshInv
  <2>3. WeekStart \in Int
    BY WeekFacts DEF CalendarInv
  <2>4. days \in 1..14
    BY <2>1, <2>2, <2>3
  <2>5. PICK h \in HearingRows : h.case = 109 /\ h.at = 24 * days + 8
    <3> HIDE DEF days
    <3> QED BY <2>4, HearingsOfCases
  <2>6. PICK p \in PhoneRows : p.case = 109 /\ CellPhone(p.type)
    BY PhonesOfCases
  <2>7. InWindow(h.at, lead)
    BY <2>1, <2>5 DEF InWindow
  <2>8. p \in UpcomingHearings(lead)
    BY <2>5, <2>6, <2>7 DEF UpcomingHearings
  <2> QED BY <2>8
<1> QED BY <1>1, CalendarInit, CalendarStep, AnchorStep, FreshStep, PTL DEF Spec

\* Every reachable state of the calendar is well typed; above all, the
\* fixtures are never anchored in the future.
THEOREM TypeCorrect == Spec => []TypeOK
<1>1. CalendarInv /\ AnchorInv => TypeOK
  <2> SUFFICES ASSUME CalendarInv, AnchorInv PROVE TypeOK
    OBVIOUS
  <2>1. now \in 0..Horizon /\ missed \in 0..MaxMissed /\ hands \in 0..MaxHands
    BY CalendarAssumption DEF CalendarInv
  <2>2. anchor \in Days \cup {NotSeeded}
    <3>1. Horizon \div SlotsPerDay \in Int /\ ServerDate \in Nat
      BY CalendarAssumption, ClockFacts DEF SlotsPerDay, CalendarInv
    <3>2. ServerDate <= Horizon \div SlotsPerDay
      BY ClockFacts DEF CalendarInv
    <3>3. anchor # NotSeeded => anchor \in Nat /\ anchor <= ServerDate
      BY DEF AnchorInv
    <3> QED BY <3>1, <3>2, <3>3 DEF Days
  <2>3. due \subseteq {"reseed", "run"}
    BY DEF CalendarInv, Scheduled
  <2>4. byHand \in BOOLEAN
    BY DEF CalendarInv
  <2>5. notices \subseteq [lead : Leads, hearing : Nat, number : Dialable, sent : Int]
    BY DEF CalendarInv, Notice
  <2> QED BY <2>1, <2>2, <2>3, <2>4, <2>5 DEF TypeOK
<1> QED BY <1>1, CalendarInit, CalendarStep, AnchorStep, PTL DEF Spec

\* Each ladder case is found just when its hearing is that far from the
\* anchor.
LEMMA LadderIs ==
  ASSUME now \in Nat, anchor \in Nat, anchor # NotSeeded, NEW lead \in Leads,
         NEW ahead, ahead = ServerDate - anchor + lead, ahead \in Nat
  PROVE  /\ 112 \in Ladder(lead) <=> ahead = 7
         /\ 113 \in Ladder(lead) <=> ahead = 3
         /\ 114 \in Ladder(lead) <=> ahead = 1
         /\ Ladder(lead) \subseteq {112, 113, 114}
<1>1. ServerDate \in Nat /\ lead \in Nat
  BY ClockFacts DEF Leads
<1>2. ASSUME NEW case \in {112, 113, 114}
      PROVE  case \in Ladder(lead) <=>
               \E h \in HearingRows : h.case = case /\ InWindow(h.at, lead)
  <2>1. case \in Ladder(lead) <=> \E p \in UpcomingHearings(lead) : p.case = case
    BY DEF Ladder
  <2>2. ASSUME NEW h \in HearingRows, h.case = case, InWindow(h.at, lead)
        PROVE  \E p \in UpcomingHearings(lead) : p.case = case
    <3>1. PICK p \in PhoneRows : p.case = case
      BY PhonesOfCases
    <3>2. CellPhone(p.type)
      BY <3>1, PhonesOfCases
    <3>3. p \in UpcomingHearings(lead)
      BY <2>2, <3>1, <3>2 DEF UpcomingHearings
    <3> QED BY <3>1, <3>3
  <2>3. ASSUME NEW p \in UpcomingHearings(lead), p.case = case
        PROVE  \E h \in HearingRows : h.case = case /\ InWindow(h.at, lead)
    BY <2>3 DEF UpcomingHearings
  <2> QED BY <2>1, <2>2, <2>3
<1>3. ASSUME NEW at \in Nat
      PROVE  InWindow(at, lead) <=> 24 * ahead <= at /\ at < 24 * ahead + 24
  BY <1>1 DEF InWindow
<1>4. 112 \in Ladder(lead) <=> ahead = 7
  <2>1. 112 \in Ladder(lead) <=> InWindow(177, lead)
    BY <1>2, HearingsOfCases
  <2>2. InWindow(177, lead) <=> 24 * ahead <= 177 /\ 177 < 24 * ahead + 24
    BY <1>3
  <2> QED BY <2>1, <2>2
<1>5. 113 \in Ladder(lead) <=> ahead = 3
  <2>1. 113 \in Ladder(lead) <=> InWindow(82, lead)
    BY <1>2, HearingsOfCases
  <2>2. InWindow(82, lead) <=> 24 * ahead <= 82 /\ 82 < 24 * ahead + 24
    BY <1>3
  <2> QED BY <2>1, <2>2
<1>6. 114 \in Ladder(lead) <=> ahead = 1
  <2>1. 114 \in Ladder(lead) <=> InWindow(35, lead)
    BY <1>2, HearingsOfCases
  <2>2. InWindow(35, lead) <=> 24 * ahead <= 35 /\ 35 < 24 * ahead + 24
    BY <1>3
  <2> QED BY <2>1, <2>2
<1> QED BY <1>4, <1>5, <1>6 DEF Ladder

\* In a week the reseed started, the anchor is its Monday by any daytime.
LEMMA WeekdayOf ==
  ASSUME CalendarInv, FreshInv, Slot = "daytime", anchor # NotSeeded, ~byHand, missed = 0
  PROVE  /\ anchor = ServerDate - (ServerDate % 7)
         /\ anchor = WeekStart
         /\ ServerDate \in Nat /\ ServerDate % 7 \in 0..6
<1>1. anchor = WeekStart
  BY DEF FreshInv
<1>2. "reseed" \notin due
  <2>1. "daytime" # "morning"
    OBVIOUS
  <2> QED BY <2>1 DEF CalendarInv, Scheduled
<1>3. WeekStart = ServerDate - (ServerDate % 7)
  BY <1>2 DEF WeekStart
<1> QED BY <1>1, <1>3, ClockFacts DEF CalendarInv

\* In any week that the reseed started, the cases of the ladder a run finds on
\* each weekday are those of README's table, for ever.
THEOREM LadderIsAsTabled == Spec => []LadderFollowsTheTable
<1>1. CalendarInv /\ AnchorInv /\ FreshInv => LadderFollowsTheTable
  <2> SUFFICES ASSUME CalendarInv, AnchorInv, FreshInv,
                      Slot = "daytime", anchor # NotSeeded, ~byHand, missed = 0
               PROVE  LET weekday == ServerDate % 7 IN
                      /\ Ladder(7) = IF weekday = 0 THEN {112} ELSE {}
                      /\ Ladder(3) = IF weekday = 0 THEN {113} ELSE IF weekday = 4 THEN {112} ELSE {}
                      /\ Ladder(1) = IF weekday = 0 THEN {114} ELSE IF weekday = 2 THEN {113}
                                     ELSE IF weekday = 6 THEN {112} ELSE {}
    BY DEF LadderFollowsTheTable
  <2> DEFINE weekday == ServerDate % 7
  <2>1. now \in Nat /\ anchor \in Nat
    BY DEF CalendarInv, AnchorInv
  <2>2. weekday \in 0..6 /\ ServerDate - anchor = weekday
    BY <2>1, WeekdayOf
  <2> HIDE DEF weekday
  <2>3. ASSUME NEW lead \in Leads
        PROVE  /\ 112 \in Ladder(lead) <=> weekday + lead = 7
               /\ 113 \in Ladder(lead) <=> weekday + lead = 3
               /\ 114 \in Ladder(lead) <=> weekday + lead = 1
               /\ Ladder(lead) \subseteq {112, 113, 114}
    <3>1. weekday + lead = ServerDate - anchor + lead /\ weekday + lead \in Nat
      BY <2>2 DEF Leads
    <3> QED BY <2>1, <3>1, LadderIs
  <2>4. 7 \in Leads /\ 3 \in Leads /\ 1 \in Leads
    BY DEF Leads
  <2>5. Ladder(7) = IF weekday = 0 THEN {112} ELSE {}
    BY <2>2, <2>3, <2>4
  <2>6. Ladder(3) = IF weekday = 0 THEN {113} ELSE IF weekday = 4 THEN {112} ELSE {}
    BY <2>2, <2>3, <2>4
  <2>7. Ladder(1) = IF weekday = 0 THEN {114} ELSE IF weekday = 2 THEN {113}
                    ELSE IF weekday = 6 THEN {112} ELSE {}
    BY <2>2, <2>3, <2>4
  <2> QED BY <2>5, <2>6, <2>7 DEF weekday
<1> QED BY <1>1, CalendarInit, CalendarStep, AnchorStep, FreshStep, PTL DEF Spec

\* A run that finds case 112 texts it, unless it was texted before.
LEMMA RunTells ==
  ASSUME CalendarInv, AnchorInv, RunReminders, NEW lead \in Leads, anchor # NotSeeded,
         ServerDate - anchor + lead = 7
  PROVE  \E n \in notices' :
           n.lead = lead /\ n.hearing = ServerDate + lead /\ n.number = "0116"
<1>1. ServerDate \in Nat /\ anchor \in Nat /\ lead \in Nat
  BY ClockFacts DEF CalendarInv, AnchorInv, Leads
<1>2. PICK h \in HearingRows : h.case = 112 /\ h.at = 177
  BY HearingsOfCases
<1>3. PICK p \in PhoneRows : p.case = 112 /\ p.dials = "0116"
  BY PhonesOfCases
<1>4. CellPhone(p.type) /\ p.dials # Unusable
  BY <1>3, PhonesOfCases
<1>5. InWindow(h.at, lead)
  BY <1>1, <1>2 DEF InWindow
<1>6. p \in Textable(UpcomingHearings(lead))
  BY <1>2, <1>3, <1>4, <1>5 DEF UpcomingHearings, Textable
<1> DEFINE n == [lead |-> lead, hearing |-> ServerDate + lead, number |-> p.dials, sent |-> CourtDate]
<1>7. n \in Due(lead)
  BY <1>6 DEF Due
<1>8. IdOf(n) = <<lead, ServerDate + lead, "0116">>
  BY <1>3 DEF IdOf
<1>9. CASE \E m \in notices : IdOf(m) = IdOf(n)
  <2>1. PICK m \in notices : IdOf(m) = <<lead, ServerDate + lead, "0116">>
    BY <1>8, <1>9
  <2>2. m.lead = lead /\ m.hearing = ServerDate + lead /\ m.number = "0116"
    BY <2>1 DEF IdOf
  <2> QED BY <2>1, <2>2 DEF RunReminders
<1>10. CASE ~\E m \in notices : IdOf(m) = IdOf(n)
  <2> HIDE DEF n
  <2>1. n \in notices'
    BY <1>7, <1>10 DEF RunReminders
  <2> QED BY <1>3, <2>1 DEF n
<1> QED BY <1>9, <1>10

\* Each day's run texts what is due that day, and no reseed of the same week
\* takes a text back or moves the hearing.
LEMMA PassStep == CalendarInv /\ AnchorInv /\ FreshInv /\ PassInv /\ [Next]_vars => PassInv'
<1> SUFFICES ASSUME CalendarInv, AnchorInv, FreshInv, PassInv, [Next]_vars,
                    anchor' # NotSeeded, missed' = 0, ~byHand',
                    NEW lead \in Leads, Ran(WeekStart + 7 - lead)'
             PROVE  Told(lead)'
  BY DEF PassInv, Leads
<1>1. now \in Nat /\ ServerDate \in Nat /\ lead \in 1..7 /\ WeekStart \in Int
  BY ClockFacts, WeekFacts DEF CalendarInv, Leads
<1>2. ASSUME anchor' = anchor, missed' = missed, byHand' = byHand, WeekStart' = WeekStart,
             notices \subseteq notices', Ran(WeekStart + 7 - lead)
      PROVE  Told(lead)'
  <2>1. Told(lead)
    BY <1>2 DEF PassInv
  <2> QED BY <1>2, <2>1 DEF Told
<1>3. ASSUME now' = now, "run" \in due' <=> "run" \in due, WeekStart' = WeekStart
      PROVE  Ran(WeekStart + 7 - lead)
  BY <1>3 DEF Ran, Slot, ServerDate
<1>4. CASE Tick
  <2>1. WeekStart' = WeekStart
    BY <1>4, WeekStartTicks
  <2>2. Ran(WeekStart + 7 - lead)
    <3>1. PICK day \in Int : day = WeekStart + 7 - lead
      BY <1>1
    <3>2. \/ day < ServerDate'
          \/ day = ServerDate' /\ Slot' = "daytime" /\ "run" \notin due'
      BY <2>1, <3>1 DEF Ran
    <3>3. /\ now' = now + 1 /\ due = {} /\ due' = Scheduled(Slot', ServerDate')
          /\ Slot \in {"evening", "morning", "daytime"}
      BY <1>1, <1>4, ClockFacts DEF Tick
    <3>4. \/ day < ServerDate
          \/ day = ServerDate /\ Slot = "daytime" /\ "run" \notin due
      <4>1. CASE Slot = "evening" \/ Slot = "morning"
        <5>1. ServerDate' = ServerDate
          BY <1>1, <3>3, <4>1, ClockTicks
        <5>2. Slot' = "daytime" => "run" \in due'
          BY <3>3 DEF Scheduled
        <5> QED BY <3>2, <5>1, <5>2
      <4>2. CASE Slot = "daytime"
        <5>1. ServerDate' = ServerDate + 1 /\ Slot' = "evening"
          BY <1>1, <3>3, <4>2, ClockTicks
        <5>2. "evening" # "daytime"
          OBVIOUS
        <5>3. day < ServerDate + 1
          BY <3>2, <5>1, <5>2
        <5>4. day < ServerDate \/ day = ServerDate
          BY <1>1, <5>3
        <5> QED BY <3>3, <4>2, <5>4
      <4> QED BY <3>3, <4>1, <4>2
    <3> QED BY <3>1, <3>4 DEF Ran
  <2> QED BY <1>2, <1>4, <2>1, <2>2 DEF Tick
<1>5. CASE WeeklyReseed
  <2>1. Slot = "morning" /\ Monday(ServerDate)
    BY <1>5 DEF WeeklyReseed, CalendarInv, Scheduled
  <2>2. ServerDate' = ServerDate /\ Slot' = Slot /\ "reseed" \notin due'
    BY <1>5 DEF WeeklyReseed, ServerDate, Slot
  <2>3. WeekStart' = ServerDate - 0
    BY <2>1, <2>2 DEF WeekStart, Monday
  <2>4. "morning" # "daytime"
    OBVIOUS
  <2>5. (WeekStart + 7 - lead)' = ServerDate + 7 - lead
    BY <1>1, <2>3
  <2>6. ServerDate + 7 - lead < ServerDate
    BY <2>1, <2>2, <2>4, <2>5 DEF Ran
  <2> QED BY <1>1, <2>6
<1>6. CASE HandReseed
  BY <1>6 DEF HandReseed
<1>7. CASE DailyRun
  <2>1. /\ WeekStart' = WeekStart /\ anchor' = anchor /\ missed' = missed /\ byHand' = byHand
        /\ Slot = "daytime"
    BY <1>7 DEF DailyRun, WeekStart, ServerDate, Slot, CalendarInv, Scheduled
  <2>2. notices \subseteq notices'
    BY <1>7 DEF DailyRun, RunReminders
  <2>3. CASE Ran(WeekStart + 7 - lead)
    BY <1>2, <2>1, <2>2, <2>3
  <2>4. CASE ~Ran(WeekStart + 7 - lead)
    <3>1. ServerDate' = ServerDate
      BY <1>7 DEF DailyRun, ServerDate
    <3>2. WeekStart + 7 - lead = ServerDate
      BY <2>1, <2>4, <3>1 DEF Ran
    <3>3. anchor = WeekStart
      BY <2>1 DEF FreshInv
    <3>4. ServerDate - anchor + lead = 7 /\ ServerDate + lead = WeekStart + 7
      BY <1>1, <3>2, <3>3
    <3>5. RunReminders /\ anchor # NotSeeded
      BY <1>7, <2>1 DEF DailyRun
    <3>6. \E n \in notices' :
            n.lead = lead /\ n.hearing = ServerDate + lead /\ n.number = "0116"
      BY <3>4, <3>5, RunTells
    <3> QED BY <2>1, <3>4, <3>6 DEF Told
  <2> QED BY <2>3, <2>4
<1>8. CASE HandRun
  <2>1. /\ WeekStart' = WeekStart /\ anchor' = anchor /\ missed' = missed /\ byHand' = byHand
        /\ now' = now /\ due' = due
    BY <1>8 DEF HandRun, WeekStart, ServerDate, Slot
  <2>2. notices \subseteq notices'
    BY <1>8 DEF HandRun, RunReminders
  <2> QED BY <1>2, <1>3, <2>1, <2>2
<1>9. CASE \E event \in {"reseed", "run"} : Miss(event)
  <2>1. missed' # 0
    BY <1>9 DEF Miss, CalendarInv
  <2> QED BY <2>1
<1>10. CASE UNCHANGED vars
  <2>1. WeekStart' = WeekStart
    BY <1>10 DEF vars, WeekStart, ServerDate, Slot
  <2> QED BY <1>2, <1>3, <1>10, <2>1 DEF vars
<1> QED BY <1>4, <1>5, <1>6, <1>7, <1>8, <1>9, <1>10 DEF Next

\* By Sunday of any week that the reseed started, the hearing case 112 has on
\* Monday has been texted seven, three and one days ahead, whatever was run by
\* hand meanwhile ("a week is also exactly one hearing's pass through the
\* reminders", _weekly_reseed).
THEOREM AWeekIsOnePass == Spec => []OneHearingPassesThrough
<1>1. CalendarInv /\ AnchorInv /\ SeededInv /\ FreshInv /\ PassInv => OneHearingPassesThrough
  <2> SUFFICES ASSUME CalendarInv, AnchorInv, SeededInv, FreshInv, PassInv,
                      Slot = "daytime", ServerDate % 7 = 6, due = {}, ~byHand, missed = 0,
                      NEW lead \in Leads
               PROVE  \E n \in notices :
                        n.lead = lead /\ n.hearing = ServerDate + 1 /\ n.number = "0116"
    BY DEF OneHearingPassesThrough
  <2>1. now \in Nat /\ ServerDate \in Nat /\ lead \in 1..7
    BY ClockFacts DEF CalendarInv, Leads
  <2>2. now # 0
    <3>1. "daytime" # "evening"
      OBVIOUS
    <3> QED BY <2>1, <3>1, ClockFacts
  <2>3. anchor # NotSeeded
    BY <2>2 DEF SeededInv
  <2>4. anchor = WeekStart /\ anchor = ServerDate - 6
    BY <2>3, WeekdayOf
  <2>5. WeekStart + 7 - lead <= ServerDate /\ WeekStart + 7 = ServerDate + 1
    BY <2>1, <2>4
  <2>6. Ran(WeekStart + 7 - lead)
    BY <2>1, <2>4, <2>5 DEF Ran
  <2>7. Told(lead)
    BY <2>3, <2>6 DEF PassInv
  <2> QED BY <2>5, <2>7 DEF Told
<1> QED BY <1>1, CalendarInit, CalendarStep, AnchorStep, SeededStep, FreshStep, PassStep, PTL
        DEF Spec

-----------------------------------------------------------------------------
\* SMT takes no empty string and none with a space: these go by name.
NoNumber == ""
Leading == "leading 1"
PhoneCell == "CELL PHONE"

\* The cases with a hearing that many days from the anchor.
CasesAhead(lead) ==
  CASE lead = 7 -> {101, 102, 103, 104, 107, 108, 109, 110, 111, 112}
    [] lead = 3 -> {106, 109, 113}
    [] lead = 1 -> {109, 114}

\* The hour of that hearing.
HourOf(case) ==
  CASE case = 104 -> 0 [] case = 109 -> 8 [] case \in {101, 106, 112} -> 9
    [] case \in {103, 107, 113} -> 10 [] case \in {108, 114} -> 11
    [] case = 102 -> 13 [] case = 110 -> 14 [] case = 111 -> 15

\* What the query finds that many days from it, off the table of phones, and
\* what it finds on none of those days.
SevenAhead == {
  Phone(101, "CELL", "parens", "0101"),   Phone(102, "MOBILE", "bare", "0103"),
  Phone(104, "CELL", "E.164", "0105"),    Phone(104, "Cell", "dashes", "0112"),
  Phone(107, "CELL", "dashes", "0108"),   Phone(107, "CELL", "parens", "0108"),
  Phone(108, "CELL", "spaces", "0109"),   Phone(108, "MOBILE", "extension", Unusable),
  Phone(109, "CELL", "dashes", "0111"),
  Phone(111, "CELL", "UNKNOWN", Unusable), Phone(111, "CELL", "5550134", Unusable),
  Phone(111, "CELL", NoNumber, Unusable), Phone(112, "CELL", "E.164", "0116") }
ThreeAhead == {
  Phone(106, "CELL", "mixed", "0107"),    Phone(109, "CELL", "dashes", "0111"),
  Phone(113, "CELL", "E.164", "0117") }
OneAhead == {
  Phone(109, "CELL", "dashes", "0111"),   Phone(114, "CELL", "E.164", "0118") }
Others == {
  Phone(103, "HOME", "dotted", "0104"),   Phone(105, "CELL", Leading, "0106"),
  Phone(109, PhoneCell, "parens", "0111") }

RowsAhead(lead) ==
  CASE lead = 7 -> SevenAhead [] lead = 3 -> ThreeAhead [] lead = 1 -> OneAhead

\* On the day of the load the window of a lead is that day of the table.
LEMMA CasesOfTheDay ==
  ASSUME now \in Nat, anchor = ServerDate, NEW lead \in Leads, NEW case
  PROVE  (\E h \in HearingRows : h.case = case /\ InWindow(h.at, lead))
           <=> case \in CasesAhead(lead)
<1>1. ServerDate \in Nat /\ anchor \in Nat
  BY ClockFacts
<1>2. lead \in Nat /\ ServerDate - anchor + lead = lead
  BY <1>1 DEF Leads
<1>3. ASSUME NEW at
      PROVE  InWindow(at, lead) <=> 24 * lead <= at /\ at < 24 * lead + 24
  BY <1>2 DEF InWindow
<1>4. lead \in {7, 3, 1}
  BY DEF Leads
<1>5. ASSUME NEW h \in HearingRows
      PROVE  24 * lead <= h.at /\ h.at < 24 * lead + 24 => h.case \in CasesAhead(lead)
  BY <1>4 DEF HearingRows, Hearing, CasesAhead
<1>6. ASSUME case \in CasesAhead(lead)
      PROVE  \E h \in HearingRows : h.case = case /\ 24 * lead <= h.at /\ h.at < 24 * lead + 24
  <2> DEFINE hour == HourOf(case)
  <2>1. hour \in 0..23
    BY <1>4, <1>6 DEF CasesAhead, HourOf
  <2>2. Hearing(case, lead, hour) \in HearingRows
    <3>1. CASE lead = 7
      BY <1>6, <3>1 DEF CasesAhead, HourOf, HearingRows
    <3>2. CASE lead = 3
      BY <1>6, <3>2 DEF CasesAhead, HourOf, HearingRows
    <3>3. CASE lead = 1
      BY <1>6, <3>3 DEF CasesAhead, HourOf, HearingRows
    <3> QED BY <1>4, <3>1, <3>2, <3>3
  <2>3. Hearing(case, lead, hour).case = case /\ Hearing(case, lead, hour).at = 24 * lead + hour
    BY DEF Hearing
  <2> HIDE DEF hour
  <2> QED BY <1>2, <2>1, <2>2, <2>3
<1> QED BY <1>3, <1>5, <1>6

\* A phone row has what it is made of.
LEMMA PhoneFields ==
  \A case, type, typed, dials :
    /\ Phone(case, type, typed, dials).case = case
    /\ Phone(case, type, typed, dials).type = type
    /\ Phone(case, type, typed, dials).typed = typed
    /\ Phone(case, type, typed, dials).dials = dials
BY DEF Phone

\* That is the whole table.
LEMMA PhoneTable == PhoneRows = SevenAhead \cup ThreeAhead \cup OneAhead \cup Others
<1>1. ASSUME NEW p \in PhoneRows
      PROVE  p \in SevenAhead \/ p \in ThreeAhead \/ p \in OneAhead \/ p \in Others
  BY ZenonT(90) DEF PhoneRows, SevenAhead, ThreeAhead, OneAhead, Others, NoNumber, Leading, PhoneCell
<1>2. ASSUME NEW p \in SevenAhead PROVE p \in PhoneRows
  BY ZenonT(90) DEF SevenAhead, PhoneRows, NoNumber
<1>3. ASSUME NEW p \in ThreeAhead PROVE p \in PhoneRows
  BY ZenonT(90) DEF ThreeAhead, PhoneRows
<1>4. ASSUME NEW p \in OneAhead PROVE p \in PhoneRows
  BY ZenonT(90) DEF OneAhead, PhoneRows
<1>5. ASSUME NEW p \in Others PROVE p \in PhoneRows
  BY ZenonT(90) DEF Others, PhoneRows, Leading, PhoneCell
<1> QED BY <1>1, <1>2, <1>3, <1>4, <1>5

\* They can be called, and are of the cases of that day.
LEMMA CallableCases ==
  \A lead \in {7, 3, 1} : \A p \in RowsAhead(lead) :
    CellPhone(p.type) /\ p.case \in CasesAhead(lead)
<1>1. ASSUME NEW p \in RowsAhead(7)
      PROVE  CellPhone(p.type) /\ p.case \in CasesAhead(7)
  BY <1>1, PhoneFields DEF RowsAhead, SevenAhead, ThreeAhead, OneAhead, CellPhone, CasesAhead
<1>2. ASSUME NEW p \in RowsAhead(3)
      PROVE  CellPhone(p.type) /\ p.case \in CasesAhead(3)
  BY <1>2, PhoneFields DEF RowsAhead, SevenAhead, ThreeAhead, OneAhead, CellPhone, CasesAhead
<1>3. ASSUME NEW p \in RowsAhead(1)
      PROVE  CellPhone(p.type) /\ p.case \in CasesAhead(1)
  BY <1>3, PhoneFields DEF RowsAhead, SevenAhead, ThreeAhead, OneAhead, CellPhone, CasesAhead
<1> QED BY <1>1, <1>2, <1>3

\* So the query finds the rows of its day.
LEMMA RowsOfTheDay ==
  ASSUME now \in Nat, anchor = ServerDate, NEW lead \in Leads
  PROVE  UpcomingHearings(lead) = RowsAhead(lead)
<1>1. anchor # NotSeeded
  BY ClockFacts, CalendarAssumption
<1>2. UpcomingHearings(lead) = {p \in PhoneRows : CellPhone(p.type) /\ p.case \in CasesAhead(lead)}
  BY <1>1, CasesOfTheDay DEF UpcomingHearings
<1>3. lead \in {7, 3, 1}
  BY DEF Leads
<1>4. RowsAhead(lead) \subseteq PhoneRows
  BY <1>3, PhoneTable DEF RowsAhead
<1>5. \A p \in RowsAhead(lead) : CellPhone(p.type) /\ p.case \in CasesAhead(lead)
  BY <1>3, CallableCases
<1>6. ASSUME NEW p \in PhoneRows, CellPhone(p.type), p.case \in CasesAhead(lead)
      PROVE  p \in RowsAhead(lead)
  <2>1. p \notin Others
    <3>1. ~CellPhone(PhoneCell)
      BY Zenon DEF CellPhone, PhoneCell
    <3>2. ~CellPhone("HOME") /\ 105 \notin CasesAhead(lead)
      BY <1>3 DEF CellPhone, CasesAhead
    <3> QED BY <1>6, <3>1, <3>2, PhoneFields DEF Others
  <2>2. PICK other \in {7, 3, 1} : p \in RowsAhead(other)
    BY <2>1, PhoneTable DEF RowsAhead
  <2>3. lead = other \/ p.case = 109
    BY <1>3, <1>6, <2>2, CallableCases DEF CasesAhead
  <2>4. p.case = 109 => p = Phone(109, "CELL", "dashes", "0111")
    BY <2>2, PhoneFields DEF RowsAhead, SevenAhead, ThreeAhead, OneAhead
  <2>5. Phone(109, "CELL", "dashes", "0111") \in RowsAhead(lead)
    BY <1>3 DEF RowsAhead, SevenAhead, ThreeAhead, OneAhead
  <2> QED BY <2>2, <2>3, <2>4, <2>5
<1> QED BY <1>2, <1>4, <1>5, <1>6

\* A finite set of n elements, and one element more.
Counts(S, n) == IsFiniteSet(S) /\ Cardinality(S) = n

LEMMA OneMore ==
  ASSUME NEW S, NEW n \in Nat, Counts(S, n), NEW x, x \notin S
  PROVE  Counts(S \cup {x}, n + 1)
BY FS_AddElement DEF Counts

\* Two, three and four elements.
LEMMA CountsTwo ==
  ASSUME NEW a, NEW b, a # b
  PROVE  Counts({a, b}, 2)
<1>1. Counts({}, 0)
  BY FS_EmptySet DEF Counts
<1>2. Counts({} \cup {b}, 0 + 1)
  BY <1>1, OneMore
<1>3. Counts({b} \cup {a}, 1 + 1)
  <2>1. {} \cup {b} = {b}
    OBVIOUS
  <2> QED BY <1>2, <2>1, OneMore
<1>4. {b} \cup {a} = {a, b}
  OBVIOUS
<1> QED BY <1>3, <1>4

LEMMA CountsThree ==
  ASSUME NEW a, NEW b, NEW c, a # b, a # c, b # c
  PROVE  Counts({a, b, c}, 3)
<1>1. Counts({b, c} \cup {a}, 2 + 1)
  BY CountsTwo, OneMore
<1>2. {b, c} \cup {a} = {a, b, c}
  OBVIOUS
<1> QED BY <1>1, <1>2

LEMMA CountsFour ==
  ASSUME NEW a, NEW b, NEW c, NEW d, a # b, a # c, a # d, b # c, b # d, c # d
  PROVE  Counts({a, b, c, d}, 4)
<1>1. Counts({b, c, d} \cup {a}, 3 + 1)
  BY CountsThree, OneMore
<1>2. {b, c, d} \cup {a} = {a, b, c, d}
  OBVIOUS
<1> QED BY <1>1, <1>2

\* Two sets that share nothing.
LEMMA CountsTogether ==
  ASSUME NEW S, NEW T, NEW m \in Nat, NEW n \in Nat,
         Counts(S, m), Counts(T, n), S \cap T = {}
  PROVE  Counts(S \cup T, m + n)
<1>1. IsFiniteSet(S \cup T) /\ Cardinality(S \cup T) = m + n - Cardinality(S \cap T)
  BY FS_Union DEF Counts
<1>2. Cardinality(S \cap T) = 0
  BY FS_EmptySet
<1> QED BY <1>1, <1>2 DEF Counts

\* The rows of three days and of one day ahead.
LEMMA CountsOfTheRest == Counts(ThreeAhead, 3) /\ Counts(OneAhead, 2)
<1>1. Counts(ThreeAhead, 3)
  <2> DEFINE a == Phone(106, "CELL", "mixed", "0107")
             b == Phone(109, "CELL", "dashes", "0111")
             c == Phone(113, "CELL", "E.164", "0117")
  <2>1. a # b /\ a # c /\ b # c
    BY PhoneFields
  <2>2. ThreeAhead = {a, b, c}
    BY DEF ThreeAhead
  <2> HIDE DEF a, b, c
  <2> QED BY <2>1, <2>2, CountsThree
<1>2. Counts(OneAhead, 2)
  <2> DEFINE a == Phone(109, "CELL", "dashes", "0111")
             b == Phone(114, "CELL", "E.164", "0118")
  <2>1. a # b
    BY PhoneFields
  <2>2. OneAhead = {a, b}
    BY DEF OneAhead
  <2> HIDE DEF a, b
  <2> QED BY <2>1, <2>2, CountsTwo
<1> QED BY <1>1, <1>2

\* The rows of each day, those that can be dialled, and their numbers.
LEMMA CountsOfTheDays ==
  /\ Counts(SevenAhead, 13) /\ Counts(Textable(SevenAhead), 9)
  /\ Counts({p.dials : p \in Textable(SevenAhead)}, 8)
  /\ Counts(ThreeAhead, 3) /\ Counts(Textable(ThreeAhead), 3)
  /\ Counts({p.dials : p \in Textable(ThreeAhead)}, 3)
  /\ Counts(OneAhead, 2) /\ Counts(Textable(OneAhead), 2)
  /\ Counts({p.dials : p \in Textable(OneAhead)}, 2)
<1> DEFINE one == {Phone(101, "CELL", "parens", "0101"), Phone(102, "MOBILE", "bare", "0103"),
                   Phone(104, "CELL", "E.164", "0105"), Phone(104, "Cell", "dashes", "0112")}
           two == {Phone(107, "CELL", "dashes", "0108"), Phone(107, "CELL", "parens", "0108"),
                   Phone(108, "CELL", "spaces", "0109")}
           three == {Phone(109, "CELL", "dashes", "0111"), Phone(112, "CELL", "E.164", "0116")}
           four == {Phone(108, "MOBILE", "extension", Unusable),
                    Phone(111, "CELL", "UNKNOWN", Unusable),
                    Phone(111, "CELL", "5550134", Unusable),
                    Phone(111, "CELL", NoNumber, Unusable)}
<1>1. Counts(one, 4)
  <2> DEFINE a == Phone(101, "CELL", "parens", "0101")
             b == Phone(102, "MOBILE", "bare", "0103")
             c == Phone(104, "CELL", "E.164", "0105")
             d == Phone(104, "Cell", "dashes", "0112")
  <2>1. a # b /\ a # c /\ a # d /\ b # c /\ b # d /\ c # d
    BY PhoneFields
  <2>2. one = {a, b, c, d}
    OBVIOUS
  <2> HIDE DEF a, b, c, d, one
  <2> QED BY <2>1, <2>2, CountsFour
<1>2. Counts(two, 3)
  <2> DEFINE a == Phone(107, "CELL", "dashes", "0108")
             b == Phone(107, "CELL", "parens", "0108")
             c == Phone(108, "CELL", "spaces", "0109")
  <2>1. a # b /\ a # c /\ b # c
    BY PhoneFields
  <2>2. two = {a, b, c}
    OBVIOUS
  <2> HIDE DEF a, b, c, two
  <2> QED BY <2>1, <2>2, CountsThree
<1>3. Counts(three, 2)
  <2> DEFINE a == Phone(109, "CELL", "dashes", "0111")
             b == Phone(112, "CELL", "E.164", "0116")
  <2>1. a # b
    BY PhoneFields
  <2>2. three = {a, b}
    OBVIOUS
  <2> HIDE DEF a, b, three
  <2> QED BY <2>1, <2>2, CountsTwo
<1>4. Counts(four, 4)
  <2> DEFINE a == Phone(108, "MOBILE", "extension", Unusable)
             b == Phone(111, "CELL", "UNKNOWN", Unusable)
             c == Phone(111, "CELL", "5550134", Unusable)
             d == Phone(111, "CELL", NoNumber, Unusable)
  <2>1. NoNumber # "UNKNOWN" /\ NoNumber # "5550134"
    BY Zenon DEF NoNumber
  <2>2. a # b /\ a # c /\ a # d /\ b # c /\ b # d /\ c # d
    BY <2>1, PhoneFields
  <2>3. four = {a, b, c, d}
    OBVIOUS
  <2> HIDE DEF a, b, c, d, four
  <2> QED BY <2>2, <2>3, CountsFour
<1>5. Textable(SevenAhead) = one \cup two \cup three /\ SevenAhead = one \cup two \cup three \cup four
  <2>1. SevenAhead = one \cup two \cup three \cup four
    BY ZenonT(90) DEF SevenAhead
  <2>2. \A p \in one \cup two \cup three : p.dials # Unusable
    BY PhoneFields DEF Unusable
  <2>3. \A p \in four : p.dials = Unusable
    BY PhoneFields
  <2> HIDE DEF one, two, three, four
  <2> QED BY <2>1, <2>2, <2>3 DEF Textable
<1>6. one \cap two = {} /\ (one \cup two) \cap three = {} /\ (one \cup two \cup three) \cap four = {}
  <2>1. \A p \in one : p.case \in 101..106
    BY PhoneFields
  <2>2. \A p \in two : p.case \in {107, 108}
    BY PhoneFields
  <2>3. \A p \in three : p.case \in {109, 112}
    BY PhoneFields
  <2>4. \A p \in four : p.dials = Unusable
    BY PhoneFields
  <2>5. \A p \in one \cup two \cup three : p.dials # Unusable
    BY PhoneFields DEF Unusable
  <2> HIDE DEF one, two, three, four
  <2> QED BY <2>1, <2>2, <2>3, <2>4, <2>5
<1>7. Counts(SevenAhead, 13) /\ Counts(Textable(SevenAhead), 9)
  <2> HIDE DEF one, two, three, four
  <2>1. Counts(one \cup two, 4 + 3)
    BY <1>1, <1>2, <1>6, CountsTogether
  <2>2. Counts((one \cup two) \cup three, 7 + 2)
    BY <1>3, <1>6, <2>1, CountsTogether
  <2>3. Counts(one \cup two \cup three, 9)
    BY <2>2
  <2>4. Counts((one \cup two \cup three) \cup four, 9 + 4)
    <3> DEFINE rest == one \cup two \cup three
    <3>1. Counts(rest, 9) /\ rest \cap four = {}
      BY <1>6, <2>3
    <3> HIDE DEF rest
    <3>2. Counts(rest \cup four, 9 + 4)
      BY <1>4, <3>1, CountsTogether
    <3> QED BY <3>2 DEF rest
  <2> QED BY <1>5, <2>3, <2>4
<1>8. Counts({p.dials : p \in Textable(SevenAhead)}, 8)
  <2>1. {p.dials : p \in Textable(SevenAhead)} =
          {"0101", "0103", "0105", "0112"} \cup {"0108", "0109", "0111", "0116"}
    <3>1. \A p \in one \cup two \cup three :
            p.dials \in {"0101", "0103", "0105", "0112", "0108", "0109", "0111", "0116"}
      BY PhoneFields
    <3>2. \A d \in {"0101", "0103", "0105", "0112", "0108", "0109", "0111", "0116"} :
            \E p \in one \cup two \cup three : p.dials = d
      BY PhoneFields
    <3> HIDE DEF one, two, three, four
    <3> QED BY <1>5, <3>1, <3>2
  <2>2. Counts({"0101", "0103", "0105", "0112"}, 4) /\ Counts({"0108", "0109", "0111", "0116"}, 4)
    BY CountsFour
  <2>3. {"0101", "0103", "0105", "0112"} \cap {"0108", "0109", "0111", "0116"} = {}
    OBVIOUS
  <2>4. Counts({"0101", "0103", "0105", "0112"} \cup {"0108", "0109", "0111", "0116"}, 4 + 4)
    BY <2>2, <2>3, CountsTogether
  <2> QED BY <2>1, <2>4
<1>9. /\ Counts(ThreeAhead, 3) /\ Textable(ThreeAhead) = ThreeAhead
      /\ Counts({p.dials : p \in ThreeAhead}, 3)
  <2>1. Counts(ThreeAhead, 3)
    BY CountsOfTheRest
  <2>2. Textable(ThreeAhead) = ThreeAhead
    BY PhoneFields DEF ThreeAhead, Textable, Unusable
  <2>3. {p.dials : p \in ThreeAhead} = {"0107", "0111", "0117"}
    BY PhoneFields DEF ThreeAhead
  <2>4. Counts({"0107", "0111", "0117"}, 3)
    BY CountsThree
  <2> QED BY <2>1, <2>2, <2>3, <2>4
<1>10. /\ Counts(OneAhead, 2) /\ Textable(OneAhead) = OneAhead
       /\ Counts({p.dials : p \in OneAhead}, 2)
  <2>1. Counts(OneAhead, 2)
    BY CountsOfTheRest
  <2>2. Textable(OneAhead) = OneAhead
    BY PhoneFields DEF OneAhead, Textable, Unusable
  <2>3. {p.dials : p \in OneAhead} = {"0111", "0118"}
    BY PhoneFields DEF OneAhead
  <2>4. Counts({"0111", "0118"}, 2)
    BY CountsTwo
  <2> QED BY <2>1, <2>2, <2>3, <2>4
<1> QED BY <1>7, <1>8, <1>9, <1>10

\* On the day the fixtures are loaded, whatever day that is and whoever loads
\* them, each cadence holds the rows, the dialable rows and the distinct
\* numbers of README's table "What each cadence contains".
THEOREM CadencesAreTheTable == Spec => []CadencesAreAsDocumented
<1>1. CalendarInv => CadencesAreAsDocumented
  <2> SUFFICES ASSUME CalendarInv, anchor = ServerDate PROVE CadencesAreAsDocumented
    BY DEF CadencesAreAsDocumented
  <2>1. \A lead \in Leads : UpcomingHearings(lead) = RowsAhead(lead)
    BY RowsOfTheDay DEF CalendarInv
  <2>2. /\ UpcomingHearings(7) = SevenAhead
        /\ UpcomingHearings(3) = ThreeAhead
        /\ UpcomingHearings(1) = OneAhead
    BY <2>1 DEF Leads, RowsAhead
  <2>3. /\ Cadence(7) = <<13, 9, 8>>
        /\ Cadence(3) = <<3, 3, 3>>
        /\ Cadence(1) = <<2, 2, 2>>
    BY <2>2, CountsOfTheDays DEF Cadence, Counts, Textable
  <2> QED BY <2>3 DEF CadencesAreAsDocumented
<1> QED BY <1>1, CalendarInit, CalendarStep, PTL DEF Spec
=============================================================================
