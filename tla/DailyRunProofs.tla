--------------------------- MODULE DailyRunProofs ---------------------------
(***************************************************************************)
(* Proofs about the plan of one threshold, for every list of hearings the  *)
(* query may return, by induction along the fold that Plan is; and about   *)
(* the daily run, for any number of runs, thresholds, retries and          *)
(* failures and any size of batch.                                         *)
(***************************************************************************)
EXTENDS DailyRun, DataLemmas, SequenceTheorems, WellFoundedInduction

\* The plan of one threshold.

\* The ids, the messages and the plans that a label may come to.
PlannableIds(label) == {label} \X Days \X Range(TagOf)
PlannableMessages(label) ==
  [to : Dialable, message : Texts, reminder_id : PlannableIds(label)]
Plans(label) ==
  [messages : Seq(PlannableMessages(label)), skipped : [Reasons -> Nat],
   seen : SUBSET PlannableIds(label)]

\* A textable hearing has a number that can be dialled, and a message.
LEMMA TextableFacts ==
  ASSUME NEW label, NEW h \in Hearing, Textable(h)
  PROVE  /\ Recipient(h) \in Dialable
         /\ ReminderId(label, h) \in PlannableIds(label)
         /\ Message(label, h) \in PlannableMessages(label)
         /\ Message(label, h).reminder_id = ReminderId(label, h)
<1>1. h.number \in Numbers /\ h.day \in Days /\ h.text \in Texts
  BY DEF Hearing, Textable
<1>2. Recipient(h) \in Dialable
  BY <1>1, PlanAssumption DEF Recipient, Textable
<1>3. TagOf[Recipient(h)] \in Range(TagOf)
  BY <1>2, PlanAssumption DEF Range
<1>4. ReminderId(label, h) \in PlannableIds(label)
  BY <1>1, <1>3 DEF ReminderId, PlannableIds
<1> QED BY <1>1, <1>2, <1>4 DEF Message, PlannableMessages

\* Skipping adds one to the count of its reason and changes nothing else.
LEMMA SkipIsCounted ==
  ASSUME NEW label, NEW plan \in Plans(label), NEW why \in Reasons
  PROVE  /\ Skip(plan, why).messages = plan.messages
         /\ Skip(plan, why).seen = plan.seen
         /\ Skip(plan, why).skipped \in [Reasons -> Nat]
         /\ Skip(plan, why).skipped[why] = plan.skipped[why] + 1
         /\ \A other \in Reasons \ {why} :
              Skip(plan, why).skipped[other] = plan.skipped[other]
         /\ Skip(plan, why) \in Plans(label)
<1>1. plan.skipped \in [Reasons -> Nat]
  BY DEF Plans
<1> DEFINE counted == [plan.skipped EXCEPT ![why] = @ + 1]
<1>2. counted \in [Reasons -> Nat] /\ counted[why] = plan.skipped[why] + 1
  BY <1>1
<1>3. \A other \in Reasons \ {why} : counted[other] = plan.skipped[other]
  BY <1>1
<1>4. Skip(plan, why) = [plan EXCEPT !.skipped = counted]
  BY DEF Skip
<1> HIDE DEF counted
<1>5. plan = [messages |-> plan.messages, skipped |-> plan.skipped, seen |-> plan.seen]
  BY DEF Plans
<1>6. Skip(plan, why) = [messages |-> plan.messages, skipped |-> counted, seen |-> plan.seen]
  BY <1>4, <1>5
<1>7. plan.messages \in Seq(PlannableMessages(label)) /\ plan.seen \in SUBSET PlannableIds(label)
  BY DEF Plans
<1>8. Skip(plan, why) \in Plans(label)
  BY <1>2, <1>6, <1>7 DEF Plans
<1> QED BY <1>2, <1>3, <1>6, <1>8

\* One turn of the loop makes a plan of a plan.
LEMMA ConsiderType ==
  ASSUME NEW label, NEW plan \in Plans(label), NEW h \in Hearing
  PROVE  Consider(label, plan, h) \in Plans(label)
<1>1. ASSUME NEW why \in Reasons
      PROVE  Skip(plan, why) \in Plans(label)
  BY SkipIsCounted DEF Plans
<1>2. {"no_message", "unusable_phone", "duplicate"} \subseteq Reasons
  BY DEF Reasons
<1>3. CASE Textable(h) /\ ReminderId(label, h) \notin plan.seen
  <2>1. Consider(label, plan, h) =
          [plan EXCEPT !.messages = Append(@, Message(label, h)),
                       !.seen = @ \cup {ReminderId(label, h)}]
    BY <1>3 DEF Consider, Textable
  <2>2. Message(label, h) \in PlannableMessages(label)
    BY <1>3, TextableFacts
  <2>3. ReminderId(label, h) \in PlannableIds(label)
    BY <1>3, TextableFacts
  <2> HIDE DEF PlannableMessages, PlannableIds
  <2>4. plan.messages \in Seq(PlannableMessages(label))
    BY DEF Plans
  <2>5. Append(plan.messages, Message(label, h)) \in Seq(PlannableMessages(label))
    BY <2>2, <2>4, AppendProperties
  <2> QED BY <2>1, <2>3, <2>5 DEF Plans
<1>4. CASE ~(Textable(h) /\ ReminderId(label, h) \notin plan.seen)
  BY <1>1, <1>2, <1>4 DEF Consider, Textable
<1> QED BY <1>3, <1>4

\* A textable hearing whose id is new adds its message at the end.
LEMMA ConsiderPlans ==
  ASSUME NEW label, NEW plan \in Plans(label), NEW h \in Hearing,
         Textable(h), ReminderId(label, h) \notin plan.seen
  PROVE  LET next == Consider(label, plan, h) IN
         /\ next.messages = Append(plan.messages, Message(label, h))
         /\ next.seen = plan.seen \cup {ReminderId(label, h)}
         /\ next.skipped = plan.skipped
         /\ Len(next.messages) = Len(plan.messages) + 1
         /\ next.messages[Len(plan.messages) + 1] = Message(label, h)
         /\ \A i \in 1..Len(plan.messages) : next.messages[i] = plan.messages[i]
<1>1. plan = [messages |-> plan.messages, skipped |-> plan.skipped, seen |-> plan.seen]
  BY DEF Plans
<1>2. Consider(label, plan, h) =
        [plan EXCEPT !.messages = Append(@, Message(label, h)),
                     !.seen = @ \cup {ReminderId(label, h)}]
  BY DEF Consider, Textable
<1>3. Consider(label, plan, h) =
        [messages |-> Append(plan.messages, Message(label, h)), skipped |-> plan.skipped,
         seen |-> plan.seen \cup {ReminderId(label, h)}]
  BY <1>1, <1>2
<1>4. plan.messages \in Seq(PlannableMessages(label))
  BY DEF Plans
<1>5. Message(label, h) \in PlannableMessages(label)
  BY TextableFacts
<1> HIDE DEF PlannableMessages
<1> DEFINE longer == Append(plan.messages, Message(label, h))
<1>6. /\ Len(longer) = Len(plan.messages) + 1
      /\ \A i \in 1..Len(plan.messages) : longer[i] = plan.messages[i]
      /\ longer[Len(plan.messages) + 1] = Message(label, h)
  BY <1>4, <1>5, AppendProperties
<1> HIDE DEF longer
<1>7. Consider(label, plan, h).messages = longer
  BY <1>3 DEF longer
<1>8. /\ Consider(label, plan, h).skipped = plan.skipped
      /\ Consider(label, plan, h).seen = plan.seen \cup {ReminderId(label, h)}
  BY <1>3
<1> QED BY <1>6, <1>7, <1>8 DEF longer

\* Any other hearing adds nothing, and is counted under its reason.
LEMMA ConsiderSkips ==
  ASSUME NEW label, NEW plan \in Plans(label), NEW h \in Hearing,
         ~(Textable(h) /\ ReminderId(label, h) \notin plan.seen)
  PROVE  LET next == Consider(label, plan, h) IN
         /\ next.messages = plan.messages
         /\ next.seen = plan.seen
         /\ h.text = NoText => next = Skip(plan, "no_message")
         /\ h.text # NoText /\ Recipient(h) = Unusable => next = Skip(plan, "unusable_phone")
         /\ Textable(h) => next = Skip(plan, "duplicate")
<1>1. /\ h.text = NoText => Consider(label, plan, h) = Skip(plan, "no_message")
      /\ h.text # NoText /\ Recipient(h) = Unusable
           => Consider(label, plan, h) = Skip(plan, "unusable_phone")
      /\ Textable(h) => Consider(label, plan, h) = Skip(plan, "duplicate")
  BY DEF Consider, Textable
<1>2. \E why \in Reasons : Consider(label, plan, h) = Skip(plan, why)
  BY <1>1 DEF Textable, Reasons
<1> QED BY <1>1, <1>2, SkipIsCounted

\* The plans after 0, 1, 2 ... hearings of the list.
IsPlanTable(upto, label, hearings) ==
  /\ upto \in [0..Len(hearings) -> Plans(label)]
  /\ upto[0] = NothingPlanned
  /\ \A n \in 0..(Len(hearings) - 1) :
       upto[n + 1] = Consider(label, upto[n], hearings[n + 1])

\* The fold that Plan is has such a table, and Plan is its last entry: what a
\* turn of the loop preserves holds of the plan.
LEMMA PlanUnfolds ==
  ASSUME NEW label, NEW hearings \in Seq(Hearing)
  PROVE  \E upto : /\ IsPlanTable(upto, label, hearings)
                   /\ Plan(label, hearings) = upto[Len(hearings)]
<1> DEFINE D == 1..Len(hearings)
           V == Plans(label)
           pick == [s \in SUBSET D |-> Max(s)]
           step == [p \in D \X V |-> Consider(label, p[2], hearings[p[1]])]
           Folds(f) == f = [s \in SUBSET D |-> IF s = {} THEN NothingPlanned
                              ELSE Consider(label, f[s \ {Max(s)}], hearings[Max(s)])]
           fold == CHOOSE f : Folds(f)
<1>1. Len(hearings) \in Nat /\ DOMAIN hearings = D /\ \A i \in D : hearings[i] \in Hearing
  BY LenProperties, ElementOfSeq
<1>2. IsFiniteSet(D)
  BY <1>1, FS_Interval
<1>3. ASSUME NEW s \in SUBSET D, s # {}
      PROVE  Max(s) \in s /\ \A y \in s : y <= Max(s)
  <2>1. IsFiniteSet(s)
    BY <1>2, FS_Subset
  <2>2. s \in SUBSET Nat
    OBVIOUS
  <2> QED BY <1>3, <2>1, <2>2, MaxOfNumbers
<1>4. NothingPlanned \in V
  <2>1. <<>> \in Seq(PlannableMessages(label))
    BY EmptySeq
  <2> QED BY <2>1 DEF NothingPlanned, Plans
<1>5. step \in [D \X V -> V]
  BY <1>1, ConsiderType
<1> HIDE DEF V
<1>6. PICK f \in [SUBSET D -> V] : \A s \in SUBSET D :
           f[s] = IF s = {} THEN NothingPlanned ELSE step[<<pick[s], f[s \ {pick[s]}]>>]
  <2>1. \A s \in SUBSET D : s # {} => pick[s] \in s
    BY <1>3
  <2> HIDE DEF pick, step, D
  <2>2. HasFold(D, V, NothingPlanned, pick, step)
    BY <1>2, <1>4, <1>5, <2>1, FoldExists
  <2> QED BY <2>2 DEF HasFold
<1>7. ASSUME NEW s \in SUBSET D
      PROVE  f[s] = IF s = {} THEN NothingPlanned
                    ELSE Consider(label, f[s \ {Max(s)}], hearings[Max(s)])
  <2>1. CASE s = {}
    BY <1>6, <2>1
  <2>2. CASE s # {}
    <3>1. pick[s] = Max(s) /\ Max(s) \in D
      BY <1>3, <2>2
    <3>2. f[s \ {Max(s)}] \in V
      BY <1>3, <2>2
    <3> QED BY <1>6, <2>2, <3>1, <3>2
  <2> QED BY <2>1, <2>2
<1>8. Folds(f)
  BY <1>7
<1>9. Folds(fold)
  <2> HIDE DEF Folds
  <2> QED BY <1>8
<1>10. Plan(label, hearings) = fold[D]
  BY <1>1 DEF Plan, FoldLeft, MapThenFoldSet
<1>11. ASSUME NEW s \in SUBSET D
       PROVE  fold[s] = IF s = {} THEN NothingPlanned
                        ELSE Consider(label, fold[s \ {Max(s)}], hearings[Max(s)])
  <2> HIDE DEF fold
  <2> QED BY <1>9
<1> HIDE DEF fold, Folds
<1> DEFINE upto == [n \in 0..Len(hearings) |-> fold[1..n]]
<1>12. upto[0] = NothingPlanned
  <2>1. 1..0 = {}
    OBVIOUS
  <2>2. fold[{}] = NothingPlanned
    BY <1>11
  <2> QED BY <1>1, <2>1, <2>2
<1>13. ASSUME NEW n \in 0..(Len(hearings) - 1)
       PROVE  upto[n + 1] = Consider(label, upto[n], hearings[n + 1])
  <2>1. 1..(n + 1) \in SUBSET D /\ n + 1 \in 1..(n + 1)
    BY <1>1
  <2>2. Max(1..(n + 1)) = n + 1
    <3>1. Max(1..(n + 1)) \in 1..(n + 1)
      BY <1>3, <2>1
    <3>2. n + 1 <= Max(1..(n + 1))
      BY <1>3, <2>1
    <3> QED BY <3>1, <3>2
  <2>3. (1..(n + 1)) \ {n + 1} = 1..n
    BY <1>1
  <2>4. fold[1..(n + 1)] = Consider(label, fold[1..n], hearings[n + 1])
    BY <1>11, <2>1, <2>2, <2>3
  <2>5. n \in 0..Len(hearings) /\ n + 1 \in 0..Len(hearings)
    BY <1>1
  <2> QED BY <2>4, <2>5
<1>14. upto \in [0..Len(hearings) -> Plans(label)]
  <2> DEFINE good == {n \in 0..Len(hearings) : upto[n] \in Plans(label)}
  <2>1. 0 \in good
    BY <1>1, <1>4, <1>12 DEF V
  <2>2. ASSUME NEW n \in 0..(Len(hearings) - 1), n \in good
        PROVE  n + 1 \in good
    <3>1. hearings[n + 1] \in Hearing /\ n + 1 \in 0..Len(hearings)
      BY <1>1
    <3>2. upto[n] \in Plans(label)
      BY <2>2
    <3>3. upto[n + 1] \in Plans(label)
      <4> HIDE DEF upto
      <4> QED BY <1>13, <3>1, <3>2, ConsiderType
    <3> QED BY <3>1, <3>3
  <2> HIDE DEF good
  <2>3. \A n \in 0..Len(hearings) : n \in good
    BY <1>1, <2>1, <2>2, InductionUpTo
  <2> QED BY <2>3 DEF good
<1>15. Plan(label, hearings) = upto[Len(hearings)]
  BY <1>1, <1>10
<1> HIDE DEF upto
<1> QED BY <1>12, <1>13, <1>14, <1>15 DEF IsPlanTable

\* The ids of the textable ones among the first n hearings.
IdsUpTo(label, hearings, n) ==
  {ReminderId(label, hearings[i]) : i \in {j \in 1..n : Textable(hearings[j])}}

\* After n hearings the plan holds one message for each id met so far.
HoldsEachOnce(label, hearings, n, plan) ==
  /\ plan.seen = IdsUpTo(label, hearings, n)
  /\ \A i \in 1..Len(plan.messages) : plan.messages[i].reminder_id \in plan.seen
  /\ \A id \in plan.seen : \E i \in 1..Len(plan.messages) : plan.messages[i].reminder_id = id
  /\ \A i, j \in 1..Len(plan.messages) :
       plan.messages[i].reminder_id = plan.messages[j].reminder_id => i = j

\* A turn of the loop keeps that.
LEMMA HoldsEachOnceStep ==
  ASSUME NEW label, NEW hearings \in Seq(Hearing), NEW n \in 0..(Len(hearings) - 1),
         NEW plan \in Plans(label), HoldsEachOnce(label, hearings, n, plan)
  PROVE  HoldsEachOnce(label, hearings, n + 1, Consider(label, plan, hearings[n + 1]))
<1> DEFINE h == hearings[n + 1]
           id == ReminderId(label, h)
           next == Consider(label, plan, h)
<1>1. h \in Hearing
  BY LenProperties, ElementOfSeq
<1>2. Len(plan.messages) \in Nat
  BY LenProperties DEF Plans
<1>3. IdsUpTo(label, hearings, n + 1) =
        plan.seen \cup (IF Textable(h) THEN {id} ELSE {})
  <2>1. \A i : i \in 1..(n + 1) <=> i \in 1..n \/ i = n + 1
    BY LenProperties
  <2>2. {j \in 1..(n + 1) : Textable(hearings[j])} =
          {j \in 1..n : Textable(hearings[j])} \cup (IF Textable(h) THEN {n + 1} ELSE {})
    BY <2>1
  <2> QED BY <2>2 DEF IdsUpTo, HoldsEachOnce
<1>4. CASE Textable(h) /\ id \notin plan.seen
  <2>1. /\ next.seen = plan.seen \cup {id}
        /\ Len(next.messages) = Len(plan.messages) + 1
        /\ next.messages[Len(plan.messages) + 1].reminder_id = id
        /\ \A i \in 1..Len(plan.messages) : next.messages[i] = plan.messages[i]
    <3>1. /\ next.seen = plan.seen \cup {id}
          /\ Len(next.messages) = Len(plan.messages) + 1
          /\ next.messages[Len(plan.messages) + 1] = Message(label, h)
          /\ \A i \in 1..Len(plan.messages) : next.messages[i] = plan.messages[i]
      BY <1>1, <1>4, ConsiderPlans
    <3>2. Message(label, h).reminder_id = id
      BY <1>1, <1>4, TextableFacts
    <3> HIDE DEF next, id, h
    <3> QED BY <3>1, <3>2
  <2> HIDE DEF next, id, h
  <2>2. next.seen = IdsUpTo(label, hearings, n + 1)
    BY <1>3, <1>4, <2>1
  <2>3. \A i : i \in 1..Len(next.messages)
                 <=> i \in 1..Len(plan.messages) \/ i = Len(plan.messages) + 1
    BY <1>2, <2>1
  <2>4. ASSUME NEW i \in 1..Len(next.messages)
        PROVE  next.messages[i].reminder_id =
                 IF i \in 1..Len(plan.messages) THEN plan.messages[i].reminder_id ELSE id
    BY <2>1, <2>3
  <2>5. \A i \in 1..Len(next.messages) : next.messages[i].reminder_id \in next.seen
    BY <2>1, <2>4 DEF HoldsEachOnce
  <2>6. \A k \in next.seen : \E i \in 1..Len(next.messages) : next.messages[i].reminder_id = k
    <3>1. ASSUME NEW k \in plan.seen
          PROVE  \E i \in 1..Len(next.messages) : next.messages[i].reminder_id = k
      <4>1. PICK i \in 1..Len(plan.messages) : plan.messages[i].reminder_id = k
        BY DEF HoldsEachOnce
      <4> QED BY <2>1, <2>3, <4>1
    <3>2. \E i \in 1..Len(next.messages) : next.messages[i].reminder_id = id
      BY <2>1, <2>3
    <3> QED BY <2>1, <3>1, <3>2
  <2>7. ASSUME NEW i \in 1..Len(next.messages), NEW j \in 1..Len(next.messages),
               next.messages[i].reminder_id = next.messages[j].reminder_id
        PROVE  i = j
    <3>1. \A m \in 1..Len(plan.messages) : plan.messages[m].reminder_id # id
      BY <1>4 DEF HoldsEachOnce
    <3>2. CASE i \in 1..Len(plan.messages) /\ j \in 1..Len(plan.messages)
      BY <2>4, <2>7, <3>2 DEF HoldsEachOnce
    <3>3. CASE i \in 1..Len(plan.messages) /\ j \notin 1..Len(plan.messages)
      BY <2>4, <2>7, <3>1, <3>3
    <3>4. CASE i \notin 1..Len(plan.messages) /\ j \in 1..Len(plan.messages)
      BY <2>4, <2>7, <3>1, <3>4
    <3>5. CASE i \notin 1..Len(plan.messages) /\ j \notin 1..Len(plan.messages)
      BY <2>3, <3>5
    <3> QED BY <3>2, <3>3, <3>4, <3>5
  <2> QED BY <2>2, <2>5, <2>6, <2>7 DEF HoldsEachOnce, next, h
<1>5. CASE ~(Textable(h) /\ id \notin plan.seen)
  <2>1. next.messages = plan.messages /\ next.seen = plan.seen
    BY <1>1, <1>5, ConsiderSkips
  <2>2. IdsUpTo(label, hearings, n + 1) = plan.seen
    BY <1>3, <1>5
  <2> QED BY <2>1, <2>2 DEF HoldsEachOnce
<1> QED BY <1>4, <1>5

\* So every entry of the table holds each id once.
LEMMA TableHoldsEachOnce ==
  ASSUME NEW label, NEW hearings \in Seq(Hearing), NEW upto,
         IsPlanTable(upto, label, hearings)
  PROVE  \A n \in 0..Len(hearings) : HoldsEachOnce(label, hearings, n, upto[n])
<1> DEFINE good == {n \in 0..Len(hearings) : HoldsEachOnce(label, hearings, n, upto[n])}
<1>1. Len(hearings) \in Nat
  BY LenProperties
<1>2. HoldsEachOnce(label, hearings, 0, NothingPlanned)
  <2>1. Len(NothingPlanned.messages) = 0 /\ NothingPlanned.seen = {}
    BY EmptySeq DEF NothingPlanned
  <2>2. IdsUpTo(label, hearings, 0) = {}
    BY DEF IdsUpTo
  <2> QED BY <2>1, <2>2 DEF HoldsEachOnce
<1>3. 0 \in good
  BY <1>1, <1>2 DEF IsPlanTable
<1>4. ASSUME NEW n \in 0..(Len(hearings) - 1), n \in good
      PROVE  n + 1 \in good
  <2>1. upto[n] \in Plans(label) /\ n + 1 \in 0..Len(hearings)
    BY <1>1 DEF IsPlanTable
  <2>2. HoldsEachOnce(label, hearings, n + 1, Consider(label, upto[n], hearings[n + 1]))
    BY <1>4, <2>1, HoldsEachOnceStep
  <2>3. upto[n + 1] = Consider(label, upto[n], hearings[n + 1])
    BY DEF IsPlanTable
  <2> QED BY <2>1, <2>2, <2>3
<1> HIDE DEF good
<1>5. \A n \in 0..Len(hearings) : n \in good
  BY <1>1, <1>3, <1>4, InductionUpTo
<1> QED BY <1>5 DEF good

\* The plan of any list of hearings holds one message for each id that a
\* textable hearing of it has, and no other, whatever numbers share a tag:
\* nobody is planned to be texted twice under one label about one day (`seen`
\* in _plan).
THEOREM PlanHoldsEachOnce ==
  ASSUME NEW label, NEW hearings \in Seq(Hearing)
  PROVE  /\ Plan(label, hearings) \in Plans(label)
         /\ HoldsEachOnce(label, hearings, Len(hearings), Plan(label, hearings))
<1>1. PICK upto : /\ IsPlanTable(upto, label, hearings)
                  /\ Plan(label, hearings) = upto[Len(hearings)]
  BY PlanUnfolds
<1>2. Len(hearings) \in 0..Len(hearings)
  BY LenProperties
<1>3. upto[Len(hearings)] \in Plans(label)
  BY <1>1, <1>2 DEF IsPlanTable
<1> QED BY <1>1, <1>2, <1>3, TableHoldsEachOnce

\* No two numbers share a tag, as long as which the id tells people apart.
TagsTellApart == \A d, e \in Dialable : TagOf[d] = TagOf[e] => d = e

\* Then two hearings have one id just when their texts are the same.
LEMMA SameIdIsSameText ==
  ASSUME TagsTellApart, NEW label,
         NEW g \in Hearing, Textable(g), NEW h \in Hearing, Textable(h)
  PROVE  ReminderId(label, g) = ReminderId(label, h) <=> SameText(g, h)
<1>1. Recipient(g) \in Dialable /\ Recipient(h) \in Dialable
  BY TextableFacts
<1> QED BY <1>1 DEF ReminderId, SameText, TagsTellApart

\* The first hearings, of their number and day, among the first n of the list.
FirstUpTo(hearings, n) == {i \in FirstHearings(hearings) : i <= n}

\* After n hearings the messages are those of the first ones, in order.
PlansFirstUpTo(label, hearings, n, plan) ==
  /\ Len(plan.messages) = Cardinality(FirstUpTo(hearings, n))
  /\ \A i \in FirstUpTo(hearings, n) :
       plan.messages[Cardinality(FirstUpTo(hearings, i))] = Message(label, hearings[i])

\* There are finitely many of them, and no fewer further down the list.
LEMMA FirstUpToFacts ==
  ASSUME NEW hearings \in Seq(Hearing), NEW n \in 0..Len(hearings)
  PROVE  /\ IsFiniteSet(FirstUpTo(hearings, n))
         /\ Cardinality(FirstUpTo(hearings, n)) \in Nat
         /\ FirstUpTo(hearings, n) \subseteq 1..n
         /\ \A i \in 1..n : Cardinality(FirstUpTo(hearings, i)) <= Cardinality(FirstUpTo(hearings, n))
         /\ n \in FirstUpTo(hearings, n) => Cardinality(FirstUpTo(hearings, n)) # 0
<1>1. Len(hearings) \in Nat /\ DOMAIN hearings = 1..Len(hearings)
  BY LenProperties
<1>2. FirstUpTo(hearings, n) \subseteq 1..n
  BY <1>1 DEF FirstUpTo, FirstHearings
<1>3. IsFiniteSet(1..n)
  BY <1>1, FS_Interval
<1>4. IsFiniteSet(FirstUpTo(hearings, n))
  BY <1>2, <1>3, FS_Subset
<1>5. Cardinality(FirstUpTo(hearings, n)) \in Nat
  BY <1>4, FS_CardinalityType
<1>6. ASSUME NEW i \in 1..n
      PROVE  Cardinality(FirstUpTo(hearings, i)) <= Cardinality(FirstUpTo(hearings, n))
  <2>1. FirstUpTo(hearings, i) \subseteq FirstUpTo(hearings, n)
    BY <1>1 DEF FirstUpTo, FirstHearings
  <2> QED BY <1>4, <2>1, FS_Subset
<1>7. n \in FirstUpTo(hearings, n) => Cardinality(FirstUpTo(hearings, n)) # 0
  BY <1>4, FS_EmptySet
<1> QED BY <1>2, <1>4, <1>5, <1>6, <1>7

\* A hearing is a first one just when it is textable and its id is new.
LEMMA FirstIffNotSeen ==
  ASSUME TagsTellApart, NEW label, NEW hearings \in Seq(Hearing),
         NEW n \in 0..(Len(hearings) - 1),
         NEW plan, plan.seen = IdsUpTo(label, hearings, n)
  PROVE  n + 1 \in FirstHearings(hearings) <=>
           /\ Textable(hearings[n + 1])
           /\ ReminderId(label, hearings[n + 1]) \notin plan.seen
<1> DEFINE h == hearings[n + 1]
<1>1. Len(hearings) \in Nat /\ DOMAIN hearings = 1..Len(hearings)
  BY LenProperties
<1>2. \A i \in 1..Len(hearings) : hearings[i] \in Hearing
  BY ElementOfSeq
<1>3. ASSUME Textable(h)
      PROVE  ReminderId(label, h) \notin plan.seen <=>
               \A j \in 1..n : Textable(hearings[j]) => ~SameText(h, hearings[j])
  <2>1. ASSUME NEW j \in 1..n, Textable(hearings[j])
        PROVE  ReminderId(label, h) = ReminderId(label, hearings[j])
                 <=> SameText(h, hearings[j])
    BY <1>1, <1>2, <1>3, <2>1, SameIdIsSameText
  <2>2. ReminderId(label, h) \in plan.seen <=>
          \E j \in 1..n : /\ Textable(hearings[j])
                          /\ ReminderId(label, h) = ReminderId(label, hearings[j])
    BY DEF IdsUpTo
  <2> QED BY <2>1, <2>2
<1>4. n + 1 \in DOMAIN hearings /\ (n + 1) - 1 = n
  BY <1>1
<1> QED BY <1>3, <1>4 DEF FirstHearings

\* The next hearing joins them, or does not.
LEMMA FirstUpToStep ==
  ASSUME NEW hearings \in Seq(Hearing), NEW n \in 0..(Len(hearings) - 1)
  PROVE  /\ n + 1 \notin FirstUpTo(hearings, n)
         /\ n + 1 \in FirstHearings(hearings)
              => FirstUpTo(hearings, n + 1) = FirstUpTo(hearings, n) \cup {n + 1}
         /\ n + 1 \notin FirstHearings(hearings)
              => FirstUpTo(hearings, n + 1) = FirstUpTo(hearings, n)
<1>1. Len(hearings) \in Nat /\ DOMAIN hearings = 1..Len(hearings)
  BY LenProperties
<1>2. \A i \in FirstHearings(hearings) : i <= n + 1 <=> i <= n \/ i = n + 1
  BY <1>1 DEF FirstHearings
<1> QED BY <1>1, <1>2 DEF FirstUpTo

\* A turn of the loop plans the next hearing just when it is a first one.
LEMMA PlansFirstStep ==
  ASSUME TagsTellApart, NEW label, NEW hearings \in Seq(Hearing),
         NEW n \in 0..(Len(hearings) - 1), NEW plan \in Plans(label),
         plan.seen = IdsUpTo(label, hearings, n),
         PlansFirstUpTo(label, hearings, n, plan)
  PROVE  PlansFirstUpTo(label, hearings, n + 1, Consider(label, plan, hearings[n + 1]))
<1> DEFINE h == hearings[n + 1]
           next == Consider(label, plan, h)
           Place(i) == Cardinality(FirstUpTo(hearings, i))
<1>1. h \in Hearing /\ Len(hearings) \in Nat
  BY LenProperties, ElementOfSeq
<1>2. Len(plan.messages) \in Nat
  BY LenProperties DEF Plans
<1>3. n \in 0..Len(hearings) /\ n + 1 \in 0..Len(hearings)
  BY <1>1
<1>4. Len(plan.messages) = Place(n)
  BY DEF PlansFirstUpTo
<1>5. CASE Textable(h) /\ ReminderId(label, h) \notin plan.seen
  <2>1. /\ Len(next.messages) = Len(plan.messages) + 1
        /\ next.messages[Len(plan.messages) + 1] = Message(label, h)
        /\ \A i \in 1..Len(plan.messages) : next.messages[i] = plan.messages[i]
    BY <1>1, <1>5, ConsiderPlans
  <2>2. n + 1 \in FirstHearings(hearings)
    BY <1>5, FirstIffNotSeen
  <2>3. /\ FirstUpTo(hearings, n + 1) = FirstUpTo(hearings, n) \cup {n + 1}
        /\ n + 1 \notin FirstUpTo(hearings, n)
    BY <2>2, FirstUpToStep
  <2>4. IsFiniteSet(FirstUpTo(hearings, n))
    BY <1>3, FirstUpToFacts
  <2>5. Place(n + 1) = Place(n) + 1
    BY <2>3, <2>4, FS_AddElement
  <2> HIDE DEF next, h
  <2>6. ASSUME NEW i \in FirstUpTo(hearings, n)
        PROVE  next.messages[Place(i)] = Message(label, hearings[i])
    <3>1. i \in 1..n
      BY <1>3, FirstUpToFacts
    <3>2. i \in 0..Len(hearings) /\ i \in FirstUpTo(hearings, i)
      BY <1>3, <3>1 DEF FirstUpTo
    <3>3. Place(i) \in Nat /\ Place(i) # 0
      BY <3>2, FirstUpToFacts
    <3>4. Place(i) <= Place(n)
      BY <1>3, <3>1, FirstUpToFacts
    <3>5. Place(i) \in 1..Len(plan.messages)
      BY <1>2, <1>4, <3>3, <3>4
    <3> QED BY <2>1, <3>5 DEF PlansFirstUpTo
  <2>7. next.messages[Place(n + 1)] = Message(label, hearings[n + 1])
    BY <1>4, <2>1, <2>5 DEF h
  <2> QED BY <1>4, <2>1, <2>3, <2>5, <2>6, <2>7 DEF PlansFirstUpTo, next, h
<1>6. CASE ~(Textable(h) /\ ReminderId(label, h) \notin plan.seen)
  <2>1. next.messages = plan.messages
    BY <1>1, <1>6, ConsiderSkips
  <2>2. n + 1 \notin FirstHearings(hearings)
    BY <1>6, FirstIffNotSeen
  <2>3. FirstUpTo(hearings, n + 1) = FirstUpTo(hearings, n)
    BY <2>2, FirstUpToStep
  <2> QED BY <2>1, <2>3 DEF PlansFirstUpTo
<1> QED BY <1>5, <1>6

\* While no two numbers share a tag, the plan of any list of hearings is the
\* first textable hearing of each number and day, in the order of the query:
\* nobody's hearing is dropped because of another's (_plan, reminder_id).
THEOREM PlansTheFirst ==
  ASSUME TagsTellApart, NEW label, NEW hearings \in Seq(Hearing)
  PROVE  PlansFirstHearings(label, hearings)
<1>1. PICK upto : /\ IsPlanTable(upto, label, hearings)
                  /\ Plan(label, hearings) = upto[Len(hearings)]
  BY PlanUnfolds
<1> DEFINE good == {n \in 0..Len(hearings) : PlansFirstUpTo(label, hearings, n, upto[n])}
<1>2. Len(hearings) \in Nat /\ DOMAIN hearings = 1..Len(hearings)
  BY LenProperties
<1>3. 0 \in good
  <2>1. Len(NothingPlanned.messages) = 0
    BY EmptySeq DEF NothingPlanned
  <2>2. FirstUpTo(hearings, 0) = {}
    BY <1>2 DEF FirstUpTo, FirstHearings
  <2>3. Cardinality(FirstUpTo(hearings, 0)) = 0
    BY <2>2, FS_EmptySet
  <2>4. PlansFirstUpTo(label, hearings, 0, NothingPlanned)
    BY <2>1, <2>2, <2>3 DEF PlansFirstUpTo
  <2> QED BY <1>1, <1>2, <2>4 DEF IsPlanTable
<1>4. ASSUME NEW n \in 0..(Len(hearings) - 1), n \in good
      PROVE  n + 1 \in good
  <2>1. n \in 0..Len(hearings) /\ n + 1 \in 0..Len(hearings)
    BY <1>2
  <2>2. upto[n] \in Plans(label) /\ upto[n + 1] = Consider(label, upto[n], hearings[n + 1])
    BY <1>1, <2>1 DEF IsPlanTable
  <2>3. upto[n].seen = IdsUpTo(label, hearings, n)
    <3>1. HoldsEachOnce(label, hearings, n, upto[n])
      BY <1>1, <2>1, TableHoldsEachOnce
    <3> QED BY <3>1 DEF HoldsEachOnce
  <2>4. PlansFirstUpTo(label, hearings, n, upto[n])
    BY <1>4
  <2>5. PlansFirstUpTo(label, hearings, n + 1, Consider(label, upto[n], hearings[n + 1]))
    BY <2>2, <2>3, <2>4, PlansFirstStep
  <2> QED BY <2>1, <2>2, <2>5
<1>5. Len(hearings) \in good
  <2> HIDE DEF good
  <2>1. \A n \in 0..Len(hearings) : n \in good
    BY <1>2, <1>3, <1>4, InductionUpTo
  <2> QED BY <1>2, <2>1
<1>6. PlansFirstUpTo(label, hearings, Len(hearings), Plan(label, hearings))
  BY <1>1, <1>5
<1>7. FirstUpTo(hearings, Len(hearings)) = FirstHearings(hearings)
  BY <1>2 DEF FirstUpTo, FirstHearings
<1> QED BY <1>6, <1>7 DEF PlansFirstUpTo, PlansFirstHearings, FirstUpTo

\* The rows that count under each reason, and those that can be texted.
SilentRows(hearings) == {i \in DOMAIN hearings : hearings[i].text = NoText}
UnusableRows(hearings) ==
  {i \in DOMAIN hearings : hearings[i].text # NoText /\ Recipient(hearings[i]) = Unusable}
TextableRows(hearings) == {i \in DOMAIN hearings : Textable(hearings[i])}

\* After n hearings every one of them is planned or counted.
CountsUpTo(hearings, n, plan) ==
  /\ plan.skipped["no_message"] = Cardinality(Below(SilentRows(hearings), n))
  /\ plan.skipped["unusable_phone"] = Cardinality(Below(UnusableRows(hearings), n))
  /\ plan.skipped["duplicate"] + Len(plan.messages)
       = Cardinality(Below(TextableRows(hearings), n))

\* One more of either is one more of both.
LEMMA OneMoreOfEither ==
  ASSUME NEW a \in Nat, NEW b \in Nat, NEW c, a + b = c
  PROVE  a + (b + 1) = c + 1 /\ (a + 1) + b = c + 1
OBVIOUS

\* A turn of the loop counts its hearing once.
LEMMA CountsStep ==
  ASSUME NEW label, NEW hearings \in Seq(Hearing), NEW n \in 0..(Len(hearings) - 1),
         NEW plan \in Plans(label), CountsUpTo(hearings, n, plan)
  PROVE  CountsUpTo(hearings, n + 1, Consider(label, plan, hearings[n + 1]))
<1> DEFINE h == hearings[n + 1]
           next == Consider(label, plan, h)
           Silent(k) == Cardinality(Below(SilentRows(hearings), k))
           Wrong(k) == Cardinality(Below(UnusableRows(hearings), k))
           Sent(k) == Cardinality(Below(TextableRows(hearings), k))
<1>1. h \in Hearing /\ Len(hearings) \in Nat /\ DOMAIN hearings = 1..Len(hearings)
  BY LenProperties, ElementOfSeq
<1>2. n + 1 \in DOMAIN hearings
  BY <1>1
<1>3. /\ Silent(n) \in Nat
      /\ h.text = NoText => Silent(n + 1) = Silent(n) + 1
      /\ h.text # NoText => Silent(n + 1) = Silent(n)
  <2>1. SilentRows(hearings) \in SUBSET (1..Len(hearings))
    BY <1>1 DEF SilentRows
  <2>2. n + 1 \in SilentRows(hearings) <=> h.text = NoText
    BY <1>2 DEF SilentRows
  <2> HIDE DEF h
  <2> QED BY <1>1, <2>1, <2>2, CountStep
<1>4. /\ Wrong(n) \in Nat
      /\ h.text # NoText /\ Recipient(h) = Unusable => Wrong(n + 1) = Wrong(n) + 1
      /\ ~(h.text # NoText /\ Recipient(h) = Unusable) => Wrong(n + 1) = Wrong(n)
  <2>1. UnusableRows(hearings) \in SUBSET (1..Len(hearings))
    BY <1>1 DEF UnusableRows
  <2>2. n + 1 \in UnusableRows(hearings) <=> h.text # NoText /\ Recipient(h) = Unusable
    BY <1>2 DEF UnusableRows
  <2> HIDE DEF h
  <2> QED BY <1>1, <2>1, <2>2, CountStep
<1>5. /\ Sent(n) \in Nat
      /\ Textable(h) => Sent(n + 1) = Sent(n) + 1
      /\ ~Textable(h) => Sent(n + 1) = Sent(n)
  <2>1. TextableRows(hearings) \in SUBSET (1..Len(hearings))
    BY <1>1 DEF TextableRows
  <2>2. n + 1 \in TextableRows(hearings) <=> Textable(h)
    BY <1>2 DEF TextableRows
  <2> HIDE DEF h
  <2> QED BY <1>1, <2>1, <2>2, CountStep
<1>6. /\ plan.skipped["no_message"] = Silent(n)
      /\ plan.skipped["unusable_phone"] = Wrong(n)
      /\ plan.skipped["duplicate"] + Len(plan.messages) = Sent(n)
  BY DEF CountsUpTo
<1>7. Len(plan.messages) \in Nat /\ plan.skipped["duplicate"] \in Nat
  BY LenProperties DEF Plans, Reasons
<1>8. SUFFICES /\ next.skipped["no_message"] = Silent(n + 1)
               /\ next.skipped["unusable_phone"] = Wrong(n + 1)
               /\ next.skipped["duplicate"] + Len(next.messages) = Sent(n + 1)
  BY DEF CountsUpTo
<1>9. CASE Textable(h) /\ ReminderId(label, h) \notin plan.seen
  <2>1. next.skipped = plan.skipped /\ Len(next.messages) = Len(plan.messages) + 1
    BY <1>1, <1>9, ConsiderPlans
  <2>2. h.text # NoText /\ Recipient(h) # Unusable
    BY <1>9 DEF Textable
  <2> HIDE DEF next, h, Silent, Wrong, Sent
  <2>3. Silent(n + 1) = Silent(n) /\ Wrong(n + 1) = Wrong(n) /\ Sent(n + 1) = Sent(n) + 1
    BY <1>3, <1>4, <1>5, <1>9, <2>2
  <2>4. next.skipped["duplicate"] + Len(next.messages) = Sent(n) + 1
    <3> DEFINE d == plan.skipped["duplicate"]
               l == Len(plan.messages)
    <3>1. d \in Nat /\ l \in Nat /\ d + l = Sent(n)
      BY <1>6, <1>7
    <3> HIDE DEF d, l
    <3>2. d + (l + 1) = Sent(n) + 1
      BY <3>1, OneMoreOfEither
    <3> QED BY <2>1, <3>2 DEF d, l
  <2> QED BY <1>6, <2>1, <2>3, <2>4
<1>10. CASE ~(Textable(h) /\ ReminderId(label, h) \notin plan.seen)
  <2>1. ASSUME NEW why \in Reasons, next = Skip(plan, why)
        PROVE  /\ next.messages = plan.messages
               /\ next.skipped[why] = plan.skipped[why] + 1
               /\ \A other \in Reasons \ {why} : next.skipped[other] = plan.skipped[other]
    BY <2>1, SkipIsCounted
  <2>2. Reasons = {"no_message", "unusable_phone", "duplicate"}
    BY DEF Reasons
  <2>3. /\ h.text = NoText => next = Skip(plan, "no_message")
        /\ h.text # NoText /\ Recipient(h) = Unusable => next = Skip(plan, "unusable_phone")
        /\ Textable(h) => next = Skip(plan, "duplicate")
    BY <1>1, <1>10, ConsiderSkips
  <2>4. Textable(h) <=> h.text # NoText /\ Recipient(h) # Unusable
    BY DEF Textable
  <2> HIDE DEF next, h, Silent, Wrong, Sent
  <2>5. CASE h.text = NoText
    BY <1>3, <1>4, <1>5, <1>6, <1>7, <2>1, <2>2, <2>3, <2>4, <2>5
  <2>6. CASE h.text # NoText /\ Recipient(h) = Unusable
    BY <1>3, <1>4, <1>5, <1>6, <1>7, <2>1, <2>2, <2>3, <2>4, <2>6
  <2>7. CASE h.text # NoText /\ Recipient(h) # Unusable
    <3>1. next = Skip(plan, "duplicate")
      BY <2>3, <2>4, <2>7
    <3>2. /\ next.messages = plan.messages
          /\ next.skipped["duplicate"] = plan.skipped["duplicate"] + 1
          /\ next.skipped["no_message"] = plan.skipped["no_message"]
          /\ next.skipped["unusable_phone"] = plan.skipped["unusable_phone"]
      BY <2>1, <2>2, <3>1
    <3>3. Silent(n + 1) = Silent(n) /\ Wrong(n + 1) = Wrong(n) /\ Sent(n + 1) = Sent(n) + 1
      BY <1>3, <1>4, <1>5, <2>4, <2>7
    <3>4. next.skipped["duplicate"] + Len(next.messages) = Sent(n) + 1
      <4> DEFINE d == plan.skipped["duplicate"]
                 l == Len(plan.messages)
      <4>1. d \in Nat /\ l \in Nat /\ d + l = Sent(n)
        BY <1>6, <1>7
      <4> HIDE DEF d, l
      <4>2. (d + 1) + l = Sent(n) + 1
        BY <4>1, OneMoreOfEither
      <4> QED BY <3>2, <4>2 DEF d, l
    <3> QED BY <1>6, <3>2, <3>3, <3>4
  <2> QED BY <2>5, <2>6, <2>7
<1> QED BY <1>9, <1>10

\* Every hearing of any list is planned, or counted under the reason it was
\* skipped for: none is lost, and the summary of a run adds up
\* (SenderLogic._plan, RunSummary).
THEOREM PlanCountsEveryHearing ==
  ASSUME NEW label, NEW hearings \in Seq(Hearing)
  PROVE  EveryHearingCounts(label, hearings)
<1>1. PICK upto : /\ IsPlanTable(upto, label, hearings)
                  /\ Plan(label, hearings) = upto[Len(hearings)]
  BY PlanUnfolds
<1> DEFINE good == {n \in 0..Len(hearings) : CountsUpTo(hearings, n, upto[n])}
<1>2. Len(hearings) \in Nat /\ DOMAIN hearings = 1..Len(hearings)
  BY LenProperties
<1>3. 0 \in good
  <2>1. /\ Len(NothingPlanned.messages) = 0
        /\ NothingPlanned.skipped["no_message"] = 0
        /\ NothingPlanned.skipped["unusable_phone"] = 0
        /\ NothingPlanned.skipped["duplicate"] = 0
    BY EmptySeq DEF NothingPlanned, Reasons
  <2>2. /\ Below(SilentRows(hearings), 0) = {}
        /\ Below(UnusableRows(hearings), 0) = {}
        /\ Below(TextableRows(hearings), 0) = {}
    BY <1>2 DEF Below, SilentRows, UnusableRows, TextableRows
  <2>3. CountsUpTo(hearings, 0, NothingPlanned)
    <3>1. Cardinality({}) = 0
      BY FS_EmptySet
    <3>2. NothingPlanned.skipped["duplicate"] + Len(NothingPlanned.messages) = 0
      BY <2>1
    <3> QED BY <2>1, <2>2, <3>1, <3>2, Zenon DEF CountsUpTo
  <2> QED BY <1>1, <1>2, <2>3 DEF IsPlanTable
<1>4. ASSUME NEW n \in 0..(Len(hearings) - 1), n \in good
      PROVE  n + 1 \in good
  <2>1. n \in 0..Len(hearings) /\ n + 1 \in 0..Len(hearings)
    BY <1>2
  <2>2. upto[n] \in Plans(label) /\ upto[n + 1] = Consider(label, upto[n], hearings[n + 1])
    BY <1>1, <2>1 DEF IsPlanTable
  <2>3. CountsUpTo(hearings, n, upto[n])
    BY <1>4
  <2>4. CountsUpTo(hearings, n + 1, Consider(label, upto[n], hearings[n + 1]))
    BY <2>2, <2>3, CountsStep
  <2> QED BY <2>1, <2>2, <2>4
<1>5. Len(hearings) \in good
  <2> HIDE DEF good
  <2>1. \A n \in 0..Len(hearings) : n \in good
    BY <1>2, <1>3, <1>4, InductionUpTo
  <2> QED BY <1>2, <2>1
<1>6. CountsUpTo(hearings, Len(hearings), Plan(label, hearings))
  BY <1>1, <1>5
<1>7. /\ Below(SilentRows(hearings), Len(hearings)) = SilentRows(hearings)
      /\ Below(UnusableRows(hearings), Len(hearings)) = UnusableRows(hearings)
      /\ Below(TextableRows(hearings), Len(hearings)) = TextableRows(hearings)
  BY <1>2 DEF Below, SilentRows, UnusableRows, TextableRows
<1> QED BY <1>6, <1>7
        DEF CountsUpTo, EveryHearingCounts, SilentRows, UnusableRows, TextableRows

-----------------------------------------------------------------------------
\* The daily run.

\* The messages that a plan may hold.
Msgs == [to : Dialable, message : Texts, reminder_id : Thresholds \X Days \X Range(TagOf)]

\* What is left of a list after its first n entries.
From(messages, n) == SubSeq(messages, n + 1, Len(messages))

\* How far publish has come in the plan of the threshold at hand.
PlanOf(r) == Planned[Head(todo[r])]
Sent(r)  == Len(PlanOf(r)) - Len(current[r])

\* The handler has still to be invoked, or to be invoked again.
Resting(r) == phase[r] \in {"waiting", "raised"}

\* The type of the variables, but for the attempts and what is being
\* published.
Shape ==
  /\ phase \in [Runs -> {"waiting", "running", "returned", "raised", "gave up"}]
  /\ todo \in [Runs -> Seq(Thresholds)]
  /\ failed \in [Runs -> [now : SUBSET AllIds, total : SUBSET AllIds]]
  /\ broken \in [Runs -> SUBSET Thresholds]
  /\ outbox \in [AllIds -> Nat]
  /\ faults \in 0..MaxFaults

\* No run is invoked more often than Lambda invokes it, and one that rests has
\* an invocation left.
PhaseInv ==
  /\ attempt \in [Runs -> Nat]
  /\ \A r \in Runs :
       /\ attempt[r] <= Invocations[r]
       /\ Resting(r) => attempt[r] < Invocations[r]
       /\ Running(r) => attempt[r] # 0 /\ Requested[r] # Unparsable

\* What publish has still to send is the rest of the plan of the threshold at
\* hand: batches leave nothing out and repeat nothing.
MidPlan(r) ==
  /\ todo[r] # <<>>
  /\ Sent(r) \in 0..Len(PlanOf(r))
  /\ current[r] = From(PlanOf(r), Sent(r))

\* publish always works on such a rest.
CurrentInv ==
  /\ current \in [Runs -> Seq(Msgs) \cup {NotPublishing}]
  /\ \A r \in Runs : current[r] # NotPublishing => MidPlan(r)

\* The inductive invariant behind the type invariant.
Inv == Shape /\ PhaseInv /\ CurrentInv

\* Of a threshold the loop is done with, and that did not break, every
\* reminder is queued or reported.
LoopInv(r) ==
  \A t \in Asked(r) \ (broken[r] \cup ToSet(todo[r])) : \A k \in IdsOf(Planned[t]) :
    outbox[k] > 0 \/ k \in failed[r].total

\* Of the threshold at hand, so is every reminder that publish is past.
PublishInv(r) ==
  current[r] # NotPublishing => \A k \in IdsOf(PlanOf(r)) \ IdsOf(current[r]) :
    outbox[k] > 0 \/ k \in failed[r].now

\* Both hold of every run that is at work and no dry run.
QueuedInv == \A r \in Runs : Running(r) /\ ~DryRun(r) => LoopInv(r) /\ PublishInv(r)

\* 1 when publish is past k in the plan of t: the threshold at hand still
\* counts in todo, but will not queue k again.
Ahead(r, t, k) ==
  IF current[r] # NotPublishing /\ t = Head(todo[r]) /\ k \notin IdsOf(current[r]) THEN 1 ELSE 0

\* How often this invocation may still queue k ...
Pending(r, t, k) == IF Running(r) THEN Times(t, todo[r]) - Ahead(r, t, k) ELSE 0

\* ... and how often the run may have queued it by now.
Spent(r, t, k) == attempt[r] * Times(t, Requested[r]) - Pending(r, t, k)

\* The runs that may queue reminders of t at all.
Feeders(t) == {r \in Runs : ~DryRun(r) /\ t \in Asked(r)}

\* The loop goes through no threshold more often than the event asks for it.
TimesInv ==
  \A r \in Runs : Running(r) =>
    \A t \in Thresholds : Times(t, todo[r]) <= Times(t, Requested[r])

\* The queue holds no more copies of k than the runs may have queued: an
\* invocation pays for its copies one by one, where CopiesComeFromRuns counts
\* those it still may make as well.
CopiesInv ==
  \A t \in Thresholds : \A k \in IdsOf(Planned[t]) :
    outbox[k] <= SumFunctionOnSet([r \in Feeders(t) |-> Spent(r, t, k)], Feeders(t))

\* No two messages have one id.
Distinct(messages) ==
  \A i, j \in 1..Len(messages) : messages[i].reminder_id = messages[j].reminder_id => i = j

\* The ids of a list, by their places.
LEMMA IdsOfSeq ==
  ASSUME NEW messages \in Seq(Msgs)
  PROVE  IdsOf(messages) = {messages[i].reminder_id : i \in 1..Len(messages)}
<1>1. DOMAIN messages = 1..Len(messages)
  BY LenProperties
<1> QED BY <1>1 DEF IdsOf, ToSet

\* An id is in a list if a message at some place has it.
LEMMA InIdsOf ==
  ASSUME NEW messages \in Seq(Msgs)
  PROVE  \A k : k \in IdsOf(messages)
                 <=> \E i \in 1..Len(messages) : messages[i].reminder_id = k
<1>1. IdsOf(messages) = {messages[i].reminder_id : i \in 1..Len(messages)}
  BY IdsOfSeq
<1> QED BY <1>1

\* A plan holds each id once, and ids of its own threshold only.
LEMMA PlannedFacts ==
  ASSUME NEW t \in Thresholds
  PROVE  /\ Planned[t] \in Seq(Msgs)
         /\ Distinct(Planned[t])
         /\ \A k \in IdsOf(Planned[t]) : k[1] = t
         /\ IdsOf(Planned[t]) \subseteq AllIds
<1> DEFINE plan == Plan(t, Rows[t])
<1>1. Rows[t] \in Seq(Hearing)
  BY RunsAssumption
<1>2. plan \in Plans(t) /\ HoldsEachOnce(t, Rows[t], Len(Rows[t]), plan)
  BY <1>1, PlanHoldsEachOnce
<1>3. Planned[t] = plan.messages
  BY DEF Planned
<1> HIDE DEF plan
<1>4. plan.messages \in Seq(PlannableMessages(t))
  BY <1>2 DEF Plans
<1>5. /\ Len(plan.messages) \in Nat
      /\ DOMAIN plan.messages = 1..Len(plan.messages)
      /\ \A i \in 1..Len(plan.messages) : plan.messages[i] \in PlannableMessages(t)
  BY <1>4, LenProperties, ElementOfSeq
<1>6. PlannableMessages(t) \subseteq Msgs
  BY DEF PlannableMessages, PlannableIds, Msgs
<1>7. \A i \in 1..Len(plan.messages) : plan.messages[i].reminder_id[1] = t
  BY <1>5 DEF PlannableMessages, PlannableIds
<1>8. plan.messages \in Seq(Msgs)
  BY <1>4, <1>6, SeqDef
<1>9. Distinct(plan.messages)
  BY <1>2 DEF HoldsEachOnce, Distinct
<1>10. \A k \in IdsOf(plan.messages) : k[1] = t
  BY <1>7, <1>8, IdsOfSeq
<1> QED BY <1>3, <1>8, <1>9, <1>10 DEF AllIds

\* There are finitely many reminders on a day.
LEMMA IdsAreFinite == IsFiniteSet(AllIds)
<1>1. ASSUME NEW t \in Thresholds
      PROVE  IsFiniteSet(IdsOf(Planned[t]))
  <2> DEFINE S == 1..Len(Planned[t])
             T == IdsOf(Planned[t])
             place == [i \in S |-> Planned[t][i].reminder_id]
  <2>1. Planned[t] \in Seq(Msgs)
    BY PlannedFacts
  <2>2. T = {Planned[t][i].reminder_id : i \in S}
    BY <2>1, IdsOfSeq
  <2>3. place \in Surjection(S, T)
    BY <2>2 DEF Surjection
  <2>4. Len(Planned[t]) \in Nat
    BY <2>1, LenProperties
  <2>5. IsFiniteSet(S)
    BY <2>4, FS_Interval
  <2> HIDE DEF S, T, place
  <2>6. IsFiniteSet(T)
    BY <2>3, <2>5, FS_Surjection
  <2> QED BY <2>6 DEF T
<1> DEFINE ids == {IdsOf(Planned[t]) : t \in Thresholds}
           idsOf == [t \in Thresholds |-> IdsOf(Planned[t])]
<1>2. idsOf \in Surjection(Thresholds, ids)
  BY DEF Surjection
<1>3. \A T \in ids : IsFiniteSet(T)
  BY <1>1
<1>4. AllIds = UNION ids
  BY DEF AllIds
<1> HIDE DEF ids, idsOf
<1>5. IsFiniteSet(ids)
  BY <1>2, RunsAssumption, FS_Surjection
<1> QED BY <1>3, <1>4, <1>5, FS_UNION

\* So does what is left of it.
LEMMA SuffixFacts ==
  ASSUME NEW plan \in Seq(Msgs), Distinct(plan), NEW n \in 0..Len(plan)
  PROVE  LET rest == From(plan, n) IN
         /\ rest \in Seq(Msgs)
         /\ Len(plan) \in Nat
         /\ Len(rest) = Len(plan) - n
         /\ \A i \in 1..Len(rest) : rest[i] = plan[n + i]
         /\ Distinct(rest)
         /\ IdsOf(rest) \subseteq IdsOf(plan)
         /\ n = 0 => rest = plan
<1> DEFINE rest == From(plan, n)
<1>1. Len(plan) \in Nat /\ \A i \in 1..Len(plan) : plan[i] \in Msgs
  BY LenProperties, ElementOfSeq
<1> HIDE DEF Msgs
<1>2. \A i \in (n + 1)..Len(plan) : plan[i] \in Msgs
  BY <1>1
<1>3. /\ rest \in Seq(Msgs)
      /\ Len(rest) = IF n + 1 <= Len(plan) THEN Len(plan) - (n + 1) + 1 ELSE 0
      /\ \A i \in 1..(Len(plan) - (n + 1) + 1) : rest[i] = plan[(n + 1) + i - 1]
  BY <1>1, <1>2, SubSeqProperties DEF From
<1> HIDE DEF rest
<1>4. Len(rest) = Len(plan) - n
  BY <1>1, <1>3
<1>5. \A i \in 1..Len(rest) : rest[i] = plan[n + i] /\ n + i \in 1..Len(plan)
  BY <1>1, <1>3, <1>4
<1>6. Distinct(rest)
  <2>1. SUFFICES ASSUME NEW i \in 1..Len(rest), NEW j \in 1..Len(rest),
                        rest[i].reminder_id = rest[j].reminder_id
                 PROVE  i = j
    BY DEF Distinct
  <2>2. n + i \in 1..Len(plan) /\ n + j \in 1..Len(plan)
    BY <1>5
  <2>3. plan[n + i].reminder_id = plan[n + j].reminder_id
    BY <1>5, <2>1
  <2>4. n + i = n + j
    BY <2>2, <2>3 DEF Distinct
  <2> QED BY <1>1, <2>4
<1>7. IdsOf(rest) \subseteq IdsOf(plan)
  <2>1. SUFFICES ASSUME NEW k \in IdsOf(rest) PROVE k \in IdsOf(plan)
    OBVIOUS
  <2>2. PICK i \in 1..Len(rest) : rest[i].reminder_id = k
    BY <1>3, <2>1, InIdsOf
  <2>3. n + i \in 1..Len(plan) /\ plan[n + i].reminder_id = k
    BY <1>5, <2>2
  <2> QED BY <2>3, InIdsOf
<1>8. n = 0 => rest = plan
  BY <1>3, <1>4, <1>5, <1>1, SeqEqual
<1> QED BY <1>1, <1>3, <1>4, <1>5, <1>6, <1>7, <1>8 DEF rest

\* A batch and what is left after it share no id and lose none, and what is
\* left is a rest of the plan again.
LEMMA BatchFacts ==
  ASSUME NEW plan \in Seq(Msgs), Distinct(plan), NEW n \in 0..Len(plan),
         NEW rest, rest = From(plan, n), rest # <<>>
  PROVE  LET after == AfterBatch(rest)
             m == Len(plan) - Len(after)
         IN /\ after \in Seq(Msgs)
            /\ m \in 0..Len(plan)
            /\ after = From(plan, m)
            /\ IdsOf(rest) = IdsOf(Batch(rest)) \cup IdsOf(after)
            /\ IdsOf(Batch(rest)) \cap IdsOf(after) = {}
<1> DEFINE b == IF Len(rest) < BatchLimit THEN Len(rest) ELSE BatchLimit
           batch == Batch(rest)
           after == AfterBatch(rest)
<1>1. /\ rest \in Seq(Msgs) /\ Len(plan) \in Nat /\ Len(rest) = Len(plan) - n
      /\ Distinct(rest)
      /\ \A i \in 1..Len(rest) : rest[i] = plan[n + i]
  BY SuffixFacts
<1> HIDE DEF Msgs
<1>2. Len(rest) \in Nat /\ (\A i \in 1..Len(rest) : rest[i] \in Msgs)
  BY <1>1, LenProperties, ElementOfSeq
<1>3. b \in 0..Len(rest)
  BY <1>2, RunsAssumption
<1>4. batch = SubSeq(rest, 1, b)
  BY DEF Batch
<1> HIDE DEF b, batch
<1>5. /\ batch \in Seq(Msgs) /\ Len(batch) = b
      /\ \A i \in 1..b : batch[i] = rest[i]
  <2>1. \A i \in 1..b : rest[i] \in Msgs
    BY <1>2, <1>3
  <2>2. 1 \in Int /\ b \in Int
    BY <1>2, <1>3
  <2>3. /\ batch \in Seq(Msgs)
        /\ Len(batch) = IF 1 <= b THEN b - 1 + 1 ELSE 0
        /\ \A i \in 1..(b - 1 + 1) : batch[i] = rest[1 + i - 1]
    BY <1>4, <2>1, <2>2, SubSeqProperties
  <2> QED BY <1>2, <1>3, <2>3
<1>6. after = From(rest, b)
  BY <1>5 DEF AfterBatch, From, batch
<1> HIDE DEF after
<1>7. /\ after \in Seq(Msgs) /\ Len(after) = Len(rest) - b
      /\ \A i \in 1..Len(after) : after[i] = rest[b + i]
  BY <1>1, <1>3, <1>6, SuffixFacts
<1> DEFINE m == Len(plan) - Len(after)
<1>8. m = n + b /\ m \in 0..Len(plan)
  BY <1>1, <1>2, <1>3, <1>7
<1> HIDE DEF m
<1>9. after = From(plan, m)
  <2> DEFINE other == From(plan, m)
  <2>1. /\ other \in Seq(Msgs) /\ Len(other) = Len(plan) - m
        /\ \A i \in 1..Len(other) : other[i] = plan[m + i]
    BY <1>8, SuffixFacts
  <2> HIDE DEF other
  <2>2. Len(other) = Len(after)
    BY <1>1, <1>2, <1>3, <1>7, <1>8, <2>1
  <2>3. ASSUME NEW i \in 1..Len(after)
        PROVE  after[i] = other[i]
    <3>1. after[i] = rest[b + i] /\ b + i \in 1..Len(rest)
      BY <1>2, <1>3, <1>7
    <3>2. rest[b + i] = plan[n + (b + i)]
      BY <1>1, <3>1
    <3>3. other[i] = plan[m + i]
      BY <2>1, <2>2
    <3>4. n + (b + i) = m + i
      BY <1>2, <1>3, <1>8
    <3> QED BY <3>1, <3>2, <3>3, <3>4
  <2>4. after = other
    BY <1>7, <2>1, <2>2, <2>3, SeqEqual
  <2> QED BY <2>4 DEF other
<1>10. IdsOf(rest) = IdsOf(batch) \cup IdsOf(after)
  <2>1. \A i : i \in 1..Len(rest) <=> i \in 1..b \/ \E j \in 1..Len(after) : i = b + j
    <3>1. ASSUME NEW i \in 1..Len(rest), i \notin 1..b
          PROVE  i - b \in 1..Len(after) /\ i = b + (i - b)
      BY <1>2, <1>3, <1>7, <3>1
    <3>2. \A i \in 1..b : i \in 1..Len(rest)
      BY <1>2, <1>3
    <3>3. \A j \in 1..Len(after) : b + j \in 1..Len(rest)
      BY <1>2, <1>3, <1>7
    <3> QED BY <3>1, <3>2, <3>3
  <2>2. \A k : k \in IdsOf(rest) <=> \E i \in 1..Len(rest) : rest[i].reminder_id = k
    BY <1>1, InIdsOf
  <2>3. \A k : k \in IdsOf(batch) <=> \E i \in 1..b : rest[i].reminder_id = k
    <3>1. \A k : k \in IdsOf(batch) <=> \E i \in 1..b : batch[i].reminder_id = k
      BY <1>5, InIdsOf
    <3> QED BY <1>5, <3>1
  <2>4. \A k : k \in IdsOf(after) <=> \E j \in 1..Len(after) : rest[b + j].reminder_id = k
    <3>1. \A k : k \in IdsOf(after) <=> \E j \in 1..Len(after) : after[j].reminder_id = k
      BY <1>7, InIdsOf
    <3> QED BY <1>7, <3>1
  <2>5. \A k : k \in IdsOf(rest) <=> k \in IdsOf(batch) \/ k \in IdsOf(after)
    <3> HIDE DEF after
    <3>1. ASSUME NEW k, k \in IdsOf(rest)
          PROVE  k \in IdsOf(batch) \/ k \in IdsOf(after)
      <4>1. PICK i \in 1..Len(rest) : rest[i].reminder_id = k
        BY <2>2, <3>1
      <4> QED BY <2>1, <2>3, <2>4, <4>1
    <3>2. ASSUME NEW k, k \in IdsOf(batch) \/ k \in IdsOf(after)
          PROVE  k \in IdsOf(rest)
      BY <2>1, <2>2, <2>3, <2>4, <3>2
    <3> QED BY <3>1, <3>2
  <2> QED BY <2>5
<1>11. IdsOf(batch) \cap IdsOf(after) = {}
  <2>1. SUFFICES ASSUME NEW k, k \in IdsOf(batch), k \in IdsOf(after) PROVE FALSE
    OBVIOUS
  <2>2. PICK i \in 1..b : rest[i].reminder_id = k
    BY <1>5, <2>1, InIdsOf
  <2>3. PICK j \in 1..Len(after) : rest[b + j].reminder_id = k
    BY <1>7, <2>1, InIdsOf
  <2>4. i \in 1..Len(rest) /\ b + j \in 1..Len(rest) /\ i # b + j
    BY <1>2, <1>3, <1>7
  <2> QED BY <1>1, <2>2, <2>3, <2>4 DEF Distinct
<1> QED BY <1>7, <1>8, <1>9, <1>10, <1>11 DEF m, after, batch

\* The threshold at hand and its plan.
LEMMA MidPlanFacts ==
  ASSUME Shape, NEW r \in Runs, todo[r] # <<>>
  PROVE  /\ Head(todo[r]) \in Thresholds
         /\ Tail(todo[r]) \in Seq(Thresholds)
         /\ PlanOf(r) \in Seq(Msgs)
         /\ Len(PlanOf(r)) \in Nat
         /\ Distinct(PlanOf(r))
         /\ IdsOf(PlanOf(r)) \subseteq AllIds
         /\ MidPlan(r) => IdsOf(current[r]) \subseteq IdsOf(PlanOf(r))
<1>1. Head(todo[r]) \in Thresholds /\ Tail(todo[r]) \in Seq(Thresholds)
  BY HeadTailProperties DEF Shape
<1>2. PlanOf(r) \in Seq(Msgs) /\ Distinct(PlanOf(r)) /\ IdsOf(PlanOf(r)) \subseteq AllIds
  BY <1>1, PlannedFacts DEF PlanOf
<1>3. Len(PlanOf(r)) \in Nat
  BY <1>2, LenProperties
<1>4. MidPlan(r) => IdsOf(current[r]) \subseteq IdsOf(PlanOf(r))
  BY <1>2, SuffixFacts DEF MidPlan
<1> QED BY <1>1, <1>2, <1>3, <1>4

\* The invariant says at least what the type invariant says.
LEMMA InvTypeOK ==
  ASSUME Inv
  PROVE  TypeOK
<1>1. ASSUME NEW r \in Runs, current[r] # NotPublishing
      PROVE  IdsOf(current[r]) \subseteq AllIds
  BY <1>1, MidPlanFacts DEF Inv, CurrentInv, MidPlan
<1>2. \A r \in Runs : attempt[r] \in 0..Invocations[r]
  BY RunsAssumption DEF Inv, PhaseInv
<1> QED BY <1>1, <1>2 DEF TypeOK, Inv, Shape

\* Queueing adds one copy of each of the ids, and no other.
LEMMA PutFacts ==
  ASSUME outbox \in [AllIds -> Nat], NEW ids, Put(ids)
  PROVE  /\ outbox' \in [AllIds -> Nat]
         /\ \A k \in AllIds : outbox'[k] = IF k \in ids THEN outbox[k] + 1 ELSE outbox[k]
BY DEF Put

\* A threshold that breaks leaves the loop well typed and outside publish.
LEMMA BreakFacts ==
  ASSUME Inv, NEW r \in Runs, todo[r] # <<>>, Break(r)
  PROVE  /\ broken' \in [Runs -> SUBSET Thresholds]
         /\ todo' \in [Runs -> Seq(Thresholds)]
         /\ failed' \in [Runs -> [now : SUBSET AllIds, total : SUBSET AllIds]]
         /\ CurrentInv'
<1>1. Head(todo[r]) \in Thresholds /\ Tail(todo[r]) \in Seq(Thresholds)
  BY MidPlanFacts DEF Inv
<1>2. /\ broken' \in [Runs -> SUBSET Thresholds]
      /\ todo' \in [Runs -> Seq(Thresholds)]
      /\ failed' \in [Runs -> [now : SUBSET AllIds, total : SUBSET AllIds]]
  <2>1. broken' \in [Runs -> SUBSET Thresholds]
    BY <1>1 DEF Break, Inv, Shape
  <2>2. todo' \in [Runs -> Seq(Thresholds)]
    BY <1>1 DEF Break, Inv, Shape
  <2>3. failed' \in [Runs -> [now : SUBSET AllIds, total : SUBSET AllIds]]
    <3> DEFINE none == [failed[r] EXCEPT !.now = {}]
    <3>1. failed \in [Runs -> [now : SUBSET AllIds, total : SUBSET AllIds]]
      BY DEF Inv, Shape
    <3>2. none \in [now : SUBSET AllIds, total : SUBSET AllIds]
      BY <3>1
    <3>3. failed' = [failed EXCEPT ![r] = none]
      BY DEF Break
    <3> HIDE DEF none
    <3> QED BY <3>1, <3>2, <3>3
  <2> QED BY <2>1, <2>2, <2>3
<1>3. current' \in [Runs -> Seq(Msgs) \cup {NotPublishing}]
  BY DEF Break, Inv, CurrentInv
<1>4. ASSUME NEW q \in Runs, current'[q] # NotPublishing
      PROVE  MidPlan(q)'
  <2>1. q # r /\ current'[q] = current[q] /\ todo'[q] = todo[q]
    BY <1>4 DEF Break, Inv, CurrentInv, Shape
  <2> QED BY <1>4, <2>1 DEF MidPlan, Sent, PlanOf, Inv, CurrentInv, Planned, From
<1> QED BY <1>2, <1>3, <1>4 DEF CurrentInv

\* Failures stay within their bound.
LEMMA FaultCounts ==
  ASSUME Shape, NEW f, Fault(f)
  PROVE  faults' \in 0..MaxFaults
<1>1. MaxFaults \in Nat
  BY RunsAssumption
<1>2. faults \in 0..MaxFaults
  BY DEF Shape
<1>3. faults < MaxFaults /\ faults' = faults + 1
  BY DEF Fault
<1> QED BY <1>1, <1>2, <1>3

\* A step of one run leaves the others in the middle of their plans.
LEMMA OthersStay ==
  ASSUME Inv, NEW r \in Runs,
         current' \in [Runs -> Seq(Msgs) \cup {NotPublishing}],
         \A q \in Runs \ {r} : current'[q] = current[q] /\ todo'[q] = todo[q],
         current'[r] # NotPublishing => MidPlan(r)'
  PROVE  CurrentInv'
<1>1. ASSUME NEW q \in Runs, q # r, current'[q] # NotPublishing
      PROVE  MidPlan(q)'
  BY <1>1 DEF MidPlan, Sent, PlanOf, Inv, CurrentInv, Planned, From
<1> QED BY <1>1 DEF CurrentInv

\* The invariant holds at first ...
LEMMA InvInit == Init => Inv
<1> SUFFICES ASSUME Init PROVE Inv
  OBVIOUS
<1>1. \A r \in Runs : Invocations[r] \in Nat \ {0}
  BY RunsAssumption
<1>2. Shape
  <2>1. <<>> \in Seq(Thresholds)
    BY EmptySeq
  <2>2. MaxFaults \in Nat
    BY RunsAssumption
  <2> QED BY <2>1, <2>2 DEF Init, Shape
<1>3. PhaseInv
  BY <1>1 DEF Init, PhaseInv, Resting, Running
<1>4. CurrentInv
  BY DEF Init, CurrentInv
<1> QED BY <1>2, <1>3, <1>4 DEF Inv

\* ... and every step keeps it.
LEMMA InvStep == Inv /\ [Next]_vars => Inv'
<1> SUFFICES ASSUME Inv, [Next]_vars PROVE Inv'
  OBVIOUS
<1> USE DEF Inv
<1>1. \A r \in Runs : Invocations[r] \in Nat \ {0}
  BY RunsAssumption
<1>2. NotPublishing \notin Seq(Msgs) /\ MaxFaults \in Nat
  BY RunsAssumption DEF Msgs
<1>3. ASSUME NEW r \in Runs, Invoke(r)
      PROVE  Inv'
  <2>1. todo' \in [Runs -> Seq(Thresholds)]
    BY <1>3, RunsAssumption DEF Invoke, Shape
  <2>2. Shape'
    BY <1>3, <2>1 DEF Invoke, Shape
  <2>3. PhaseInv'
    <3>1. /\ attempt[r] < Invocations[r] /\ attempt[r] \in Nat /\ Requested[r] # Unparsable
          /\ attempt' = [attempt EXCEPT ![r] = @ + 1]
          /\ phase' = [phase EXCEPT ![r] = "running"]
      BY <1>3 DEF Invoke, PhaseInv, Resting
    <3>2. ASSUME NEW q \in Runs
          PROVE  /\ attempt'[q] <= Invocations[q]
                 /\ Resting(q)' => attempt'[q] < Invocations[q]
                 /\ Running(q)' => attempt'[q] # 0 /\ Requested[q] # Unparsable
      <4>1. CASE q = r
        <5>1. attempt'[q] = attempt[r] + 1 /\ phase'[q] = "running"
          BY <3>1, <4>1 DEF Shape, PhaseInv
        <5>2. Invocations[r] \in Nat
          BY <1>1
        <5> QED BY <3>1, <4>1, <5>1, <5>2 DEF Resting, Running
      <4>2. CASE q # r
        BY <3>1, <4>2 DEF Shape, PhaseInv, Resting, Running
      <4> QED BY <4>1, <4>2
    <3>3. attempt' \in [Runs -> Nat]
      BY <3>1 DEF PhaseInv
    <3> QED BY <3>2, <3>3 DEF PhaseInv
  <2>4. CurrentInv'
    <3>1. current' \in [Runs -> Seq(Msgs) \cup {NotPublishing}] /\ current'[r] = NotPublishing
      BY <1>3 DEF Invoke, CurrentInv
    <3>2. \A q \in Runs \ {r} : current'[q] = current[q] /\ todo'[q] = todo[q]
      BY <1>3 DEF Invoke, CurrentInv, Shape
    <3> QED BY <3>1, <3>2, OthersStay
  <2> QED BY <2>2, <2>3, <2>4
<1>4. ASSUME NEW r \in Runs, Refuse(r)
      PROVE  Inv'
  <2>1. Shape'
    BY <1>4 DEF Refuse, Shape
  <2>2. PhaseInv'
    <3>1. attempt[r] \in Nat /\ attempt[r] < Invocations[r] /\ Invocations[r] \in Nat
      BY <1>1, <1>4 DEF Refuse, PhaseInv, Resting
    <3>2. attempt' = [attempt EXCEPT ![r] = attempt[r] + 1]
      BY <1>4 DEF Refuse
    <3>3. phase' = [phase EXCEPT ![r] = IF attempt[r] + 1 < Invocations[r]
                                        THEN "raised" ELSE "gave up"]
      BY <1>4 DEF Refuse
    <3>4. attempt' \in [Runs -> Nat]
      BY <3>1, <3>2 DEF PhaseInv
    <3>5. ASSUME NEW q \in Runs
          PROVE  /\ attempt'[q] <= Invocations[q]
                 /\ Resting(q)' => attempt'[q] < Invocations[q]
                 /\ Running(q)' => attempt'[q] # 0 /\ Requested[q] # Unparsable
      <4>1. CASE q = r
        <5>1. attempt'[q] = attempt[r] + 1
          BY <3>2, <4>1 DEF PhaseInv
        <5>2. phase'[q] = IF attempt[r] + 1 < Invocations[r] THEN "raised" ELSE "gave up"
          BY <3>3, <4>1 DEF Shape
        <5>3. CASE attempt[r] + 1 < Invocations[r]
          BY <3>1, <4>1, <5>1, <5>2, <5>3 DEF Resting, Running
        <5>4. CASE ~(attempt[r] + 1 < Invocations[r])
          <6>1. "gave up" \notin {"waiting", "raised", "running"}
            OBVIOUS
          <6>2. ~Resting(q)' /\ ~Running(q)'
            BY <4>1, <5>2, <5>4, <6>1 DEF Resting, Running
          <6> QED BY <3>1, <4>1, <5>1, <6>2
        <5> QED BY <5>3, <5>4
      <4>2. CASE q # r
        BY <3>2, <3>3, <4>2 DEF Shape, PhaseInv, Resting, Running
      <4> QED BY <4>1, <4>2
    <3> QED BY <3>4, <3>5 DEF PhaseInv
  <2>3. CurrentInv'
    BY <1>4 DEF Refuse, CurrentInv, MidPlan, Sent, PlanOf, Planned, From
  <2> QED BY <2>1, <2>2, <2>3
<1>5. ASSUME NEW r \in Runs, Generate(r)
      PROVE  Inv'
  <2>1. Shape' /\ PhaseInv'
    BY <1>5 DEF Generate, Shape, PhaseInv, Resting, Running
  <2>2. PlanOf(r) \in Seq(Msgs) /\ Distinct(PlanOf(r)) /\ Len(PlanOf(r)) \in Nat
    BY <1>5, MidPlanFacts DEF Generate
  <2>3. current' = [current EXCEPT ![r] = PlanOf(r)] /\ todo' = todo
    BY <1>5 DEF Generate, PlanOf
  <2>4. /\ current' \in [Runs -> Seq(Msgs) \cup {NotPublishing}]
        /\ current'[r] = PlanOf(r)
        /\ \A q \in Runs \ {r} : current'[q] = current[q] /\ todo'[q] = todo[q]
    BY <2>2, <2>3 DEF CurrentInv
  <2>5. MidPlan(r)'
    <3>1. todo'[r] # <<>> /\ PlanOf(r)' = PlanOf(r)
      BY <1>5 DEF Generate, PlanOf, Planned
    <3>2. Sent(r)' = 0
      BY <2>2, <2>4, <3>1 DEF Sent
    <3>3. From(PlanOf(r), 0) = PlanOf(r)
      BY <2>2, SuffixFacts
    <3>4. From(PlanOf(r), 0) = From(PlanOf(r), Sent(r))'
      BY <3>1, <3>2 DEF From
    <3> QED BY <2>2, <2>4, <3>1, <3>2, <3>3, <3>4 DEF MidPlan
  <2> QED BY <2>1, <2>4, <2>5, OthersStay
<1>6. ASSUME NEW r \in Runs, QueryFails(r)
      PROVE  Inv'
  <2>1. todo[r] # <<>> /\ Break(r)
    BY <1>6 DEF QueryFails
  <2>2. Shape'
    <3>1. faults' \in 0..MaxFaults
      BY <1>6, FaultCounts DEF QueryFails
    <3> QED BY <1>6, <2>1, <3>1, BreakFacts DEF QueryFails, Shape, Break
  <2>3. PhaseInv'
    BY <2>1 DEF Break, PhaseInv, Resting, Running
  <2> QED BY <2>1, <2>2, <2>3, BreakFacts
<1>7. ASSUME NEW r \in Runs, PublishBatch(r)
      PROVE  Inv'
  <2>1. /\ current[r] # NotPublishing /\ current[r] # <<>> /\ todo' = todo
        /\ current' = [current EXCEPT ![r] = AfterBatch(current[r])]
    BY <1>7 DEF PublishBatch, Publishing
  <2>2. MidPlan(r)
    BY <2>1 DEF CurrentInv
  <2>3. PlanOf(r) \in Seq(Msgs) /\ Distinct(PlanOf(r))
    BY <2>2, MidPlanFacts DEF MidPlan
  <2> DEFINE after == AfterBatch(current[r])
             m == Len(PlanOf(r)) - Len(after)
  <2>4. /\ after \in Seq(Msgs) /\ m \in 0..Len(PlanOf(r))
        /\ after = From(PlanOf(r), m)
        /\ IdsOf(current[r]) = IdsOf(Batch(current[r])) \cup IdsOf(after)
    BY <2>1, <2>2, <2>3, BatchFacts DEF MidPlan
  <2>5. IdsOf(Batch(current[r])) \subseteq AllIds
    BY <2>2, <2>4, MidPlanFacts DEF MidPlan
  <2> HIDE DEF after, m
  <2>6. PICK rejected \in SUBSET IdsOf(Batch(current[r])) :
          /\ IF rejected = {} THEN UNCHANGED faults ELSE Fault("entry")
          /\ Put(IdsOf(Batch(current[r])) \ rejected)
          /\ failed' = [failed EXCEPT ![r].now = @ \cup rejected]
    BY <1>7 DEF PublishBatch
  <2>7. faults' \in 0..MaxFaults
    BY <2>6, FaultCounts DEF Shape
  <2>8. outbox' \in [AllIds -> Nat]
    BY <2>6, PutFacts DEF Shape
  <2>9. failed' \in [Runs -> [now : SUBSET AllIds, total : SUBSET AllIds]]
    <3> DEFINE more == [failed[r] EXCEPT !.now = @ \cup rejected]
    <3>1. failed \in [Runs -> [now : SUBSET AllIds, total : SUBSET AllIds]]
      BY DEF Shape
    <3>2. more \in [now : SUBSET AllIds, total : SUBSET AllIds]
      BY <2>5, <3>1
    <3>3. failed' = [failed EXCEPT ![r] = more]
      BY <2>6
    <3> HIDE DEF more
    <3> QED BY <3>1, <3>2, <3>3
  <2>10. Shape' /\ PhaseInv'
    BY <1>7, <2>7, <2>8, <2>9 DEF PublishBatch, Shape, PhaseInv, Resting, Running
  <2>11. /\ current' \in [Runs -> Seq(Msgs) \cup {NotPublishing}]
         /\ current'[r] = after
         /\ \A q \in Runs \ {r} : current'[q] = current[q] /\ todo'[q] = todo[q]
    BY <2>1, <2>4 DEF CurrentInv, after
  <2>12. MidPlan(r)'
    <3>1. PlanOf(r)' = PlanOf(r)
      BY <2>1 DEF PlanOf, Planned
    <3>2. Sent(r)' = m
      BY <2>11, <3>1 DEF Sent, m
    <3>3. todo'[r] # <<>>
      BY <2>1, <2>2 DEF MidPlan
    <3>4. From(PlanOf(r), m) = From(PlanOf(r), Sent(r))'
      BY <3>1, <3>2 DEF From
    <3> QED BY <2>4, <2>11, <3>1, <3>2, <3>3, <3>4 DEF MidPlan
  <2> QED BY <2>10, <2>11, <2>12, OthersStay
<1>8. ASSUME NEW r \in Runs, PublishFails(r)
      PROVE  Inv'
  <2>1. current[r] # NotPublishing /\ Break(r)
    BY <1>8 DEF PublishFails, Publishing
  <2>2. todo[r] # <<>>
    BY <2>1 DEF CurrentInv, MidPlan
  <2>3. outbox' \in [AllIds -> Nat]
    <3>1. PICK taken \in SUBSET IdsOf(Batch(current[r])) : Put(taken)
      BY <1>8 DEF PublishFails
    <3> QED BY <3>1, PutFacts DEF Shape
  <2>4. faults' \in 0..MaxFaults
    BY <1>8, FaultCounts DEF PublishFails
  <2>5. Shape'
    BY <2>1, <2>2, <2>3, <2>4, BreakFacts DEF Shape, Break
  <2>6. PhaseInv'
    BY <2>1 DEF Break, PhaseInv, Resting, Running
  <2> QED BY <2>1, <2>2, <2>5, <2>6, BreakFacts
<1>9. ASSUME NEW r \in Runs, PublishNothing(r)
      PROVE  Inv'
  <2>1. /\ current[r] # NotPublishing /\ todo' = todo
        /\ current' = [current EXCEPT ![r] = <<>>]
    BY <1>9 DEF PublishNothing, Publishing
  <2>2. Shape' /\ PhaseInv'
    BY <1>9 DEF PublishNothing, Shape, PhaseInv, Resting, Running
  <2>3. MidPlan(r)
    BY <2>1 DEF CurrentInv
  <2>4. PlanOf(r) \in Seq(Msgs) /\ Distinct(PlanOf(r)) /\ Len(PlanOf(r)) \in Nat
    BY <2>3, MidPlanFacts DEF MidPlan
  <2>5. <<>> \in Seq(Msgs) /\ Len(<<>>) = 0
    BY EmptySeq
  <2>6. /\ current' \in [Runs -> Seq(Msgs) \cup {NotPublishing}]
        /\ current'[r] = <<>>
        /\ \A q \in Runs \ {r} : current'[q] = current[q] /\ todo'[q] = todo[q]
    BY <2>1, <2>5 DEF CurrentInv
  <2>7. MidPlan(r)'
    <3>1. PlanOf(r)' = PlanOf(r) /\ todo'[r] # <<>>
      BY <2>1, <2>3 DEF PlanOf, Planned, MidPlan
    <3>2. Sent(r)' = Len(PlanOf(r))
      BY <2>4, <2>5, <2>6, <3>1 DEF Sent
    <3>3. From(PlanOf(r), Len(PlanOf(r))) = <<>>
      BY <2>4, SubSeqEmpty DEF From
    <3>4. From(PlanOf(r), Len(PlanOf(r))) = From(PlanOf(r), Sent(r))'
      BY <3>1, <3>2 DEF From
    <3> QED BY <2>4, <2>6, <3>1, <3>2, <3>3, <3>4 DEF MidPlan
  <2> QED BY <2>2, <2>6, <2>7, OthersStay
<1>10. ASSUME NEW r \in Runs, Conclude(r)
       PROVE  Inv'
  <2>1. current[r] # NotPublishing
    BY <1>10 DEF Conclude, Publishing
  <2>2. Tail(todo[r]) \in Seq(Thresholds)
    BY <2>1, MidPlanFacts DEF CurrentInv, MidPlan
  <2>3. failed' \in [Runs -> [now : SUBSET AllIds, total : SUBSET AllIds]]
    BY <1>10 DEF Conclude, Shape
  <2>4. Shape'
    BY <1>10, <2>2, <2>3 DEF Conclude, Shape
  <2>5. PhaseInv'
    BY <1>10 DEF Conclude, PhaseInv, Resting, Running
  <2>6. /\ current' \in [Runs -> Seq(Msgs) \cup {NotPublishing}]
        /\ current'[r] = NotPublishing
        /\ \A q \in Runs \ {r} : current'[q] = current[q] /\ todo'[q] = todo[q]
    BY <1>10 DEF Conclude, CurrentInv, Shape
  <2> QED BY <2>4, <2>5, <2>6, OthersStay
<1>11. ASSUME NEW r \in Runs, Answer(r)
       PROVE  Inv'
  <2>1. Shape' /\ PhaseInv'
    BY <1>1, <1>11 DEF Answer, AnswerPhase, RaisedPhase, Shape, PhaseInv, Resting, Running
  <2>2. CurrentInv'
    BY <1>11 DEF Answer, CurrentInv, MidPlan, Sent, PlanOf, Planned, From
  <2> QED BY <2>1, <2>2
<1>12. ASSUME NEW r \in Runs, Crash(r)
       PROVE  Inv'
  <2>1. Shape' /\ PhaseInv'
    <3>1. faults' \in 0..MaxFaults
      BY <1>12, FaultCounts DEF Crash
    <3> QED BY <1>1, <1>12, <3>1
            DEF Crash, RaisedPhase, Shape, PhaseInv, Resting, Running
  <2>2. CurrentInv'
    BY <1>12 DEF Crash, CurrentInv, MidPlan, Sent, PlanOf, Planned, From
  <2> QED BY <2>1, <2>2
<1>13. CASE UNCHANGED vars
  <2>1. Shape' /\ PhaseInv'
    BY <1>13 DEF vars, Shape, PhaseInv, Resting, Running
  <2>2. CurrentInv'
    BY <1>13 DEF vars, CurrentInv, MidPlan, Sent, PlanOf, Planned, From
  <2> QED BY <2>1, <2>2
<1> HIDE DEF Inv
<1> QED BY <1>3, <1>4, <1>5, <1>6, <1>7, <1>8, <1>9, <1>10, <1>11, <1>12, <1>13
        DEF Next, Start, Handle, Failure

\* Every reachable state is well typed: in particular no run is invoked more
\* often than Lambda's retries allow, and publish only ever handles messages
\* of the day's plans.
THEOREM TypeCorrect == Spec => []TypeOK
<1>1. Spec => []Inv
  BY InvInit, InvStep, PTL DEF Spec
<1> QED BY <1>1, InvTypeOK, PTL

\* A step of one run.
Step(r) == Start(r) \/ Handle(r) \/ Failure(r)

\* Such a step changes nothing of another run.
LEMMA OtherRunsStay ==
  ASSUME Inv, NEW r \in Runs, Step(r), NEW q \in Runs, q # r
  PROVE  /\ phase'[q] = phase[q] /\ attempt'[q] = attempt[q] /\ todo'[q] = todo[q]
         /\ current'[q] = current[q] /\ failed'[q] = failed[q] /\ broken'[q] = broken[q]
<1> USE DEF Inv, Shape, PhaseInv, CurrentInv
<1>1. CASE Invoke(r)
  BY <1>1 DEF Invoke
<1>2. CASE Refuse(r)
  BY <1>2 DEF Refuse
<1>3. CASE Generate(r)
  BY <1>3 DEF Generate
<1>4. CASE QueryFails(r)
  BY <1>4 DEF QueryFails, Break
<1>5. CASE PublishBatch(r)
  BY <1>5 DEF PublishBatch
<1>6. CASE PublishFails(r)
  BY <1>6 DEF PublishFails, Break
<1>7. CASE PublishNothing(r)
  BY <1>7 DEF PublishNothing
<1>8. CASE Conclude(r)
  BY <1>8 DEF Conclude
<1>9. CASE Answer(r)
  BY <1>9 DEF Answer
<1>10. CASE Crash(r)
  BY <1>10 DEF Crash
<1> QED BY <1>1, <1>2, <1>3, <1>4, <1>5, <1>6, <1>7, <1>8, <1>9, <1>10
        DEF Step, Start, Handle, Failure

\* The handler never takes a message off the queue.
LEMMA QueueGrows ==
  ASSUME Inv, NEW r \in Runs, Step(r), NEW k \in AllIds
  PROVE  outbox[k] \in Nat /\ outbox'[k] \in Nat /\ outbox[k] <= outbox'[k]
<1>1. outbox \in [AllIds -> Nat]
  BY DEF Inv, Shape
<1>2. ASSUME NEW ids, Put(ids)
      PROVE  outbox'[k] \in Nat /\ outbox[k] <= outbox'[k]
  BY <1>1, <1>2, PutFacts
<1>3. ASSUME outbox' = outbox
      PROVE  outbox'[k] \in Nat /\ outbox[k] <= outbox'[k]
  BY <1>1, <1>3
<1>4. CASE PublishBatch(r)
  BY <1>1, <1>2, <1>4 DEF PublishBatch
<1>5. CASE PublishFails(r)
  BY <1>1, <1>2, <1>5 DEF PublishFails
<1>6. CASE outbox' = outbox
  BY <1>1, <1>3, <1>6
<1> QED BY <1>4, <1>5, <1>6
        DEF Step, Start, Handle, Failure, Invoke, Refuse, Generate, QueryFails,
            PublishNothing, Conclude, Answer, Crash

\* So the other runs keep what QueuedInv says of them.
LEMMA OtherRunsKeepQueued ==
  ASSUME Inv, QueuedInv, NEW r \in Runs, Step(r), NEW q \in Runs, q # r,
         Running(q)', ~DryRun(q)
  PROVE  LoopInv(q)' /\ PublishInv(q)'
<1>1. /\ phase'[q] = phase[q] /\ todo'[q] = todo[q] /\ current'[q] = current[q]
      /\ failed'[q] = failed[q] /\ broken'[q] = broken[q]
  BY OtherRunsStay
<1>2. LoopInv(q) /\ PublishInv(q)
  BY <1>1 DEF QueuedInv, Running
<1>3. ASSUME NEW k \in AllIds, outbox[k] > 0
      PROVE  outbox'[k] > 0
  BY <1>3, QueueGrows
<1>4. \A t \in Thresholds : IdsOf(Planned[t]) \subseteq AllIds
  BY PlannedFacts
<1>5. LoopInv(q)'
  <2>1. Asked(q) \subseteq Thresholds
    BY RunsAssumption, LenProperties DEF Asked, ToSet
  <2> QED BY <1>1, <1>2, <1>3, <1>4, <2>1 DEF LoopInv, Planned
<1>6. PublishInv(q)'
  <2>1. current[q] # NotPublishing => IdsOf(PlanOf(q)) \subseteq AllIds
    BY MidPlanFacts DEF Inv, CurrentInv, MidPlan
  <2> QED BY <1>1, <1>2, <1>3, <2>1 DEF PublishInv, PlanOf, Planned, IdsOf
<1> QED BY <1>5, <1>6

\* A list is its first entry and the others.
LEMMA FirstAndRest ==
  ASSUME NEW s \in Seq(Thresholds), s # <<>>
  PROVE  ToSet(s) = {Head(s)} \cup ToSet(Tail(s))
<1>1. /\ Len(s) \in Nat /\ DOMAIN s = 1..Len(s) /\ Len(s) # 0
  BY LenProperties, EmptySeq
<1>2. /\ Tail(s) \in Seq(Thresholds) /\ Len(Tail(s)) = Len(s) - 1
      /\ \A i \in 1..Len(Tail(s)) : Tail(s)[i] = s[i + 1]
  BY HeadTailProperties
<1>3. DOMAIN Tail(s) = 1..Len(Tail(s))
  BY <1>2, LenProperties
<1>4. Head(s) = s[1]
  OBVIOUS
<1>5. ASSUME NEW t \in ToSet(s), t # Head(s)
      PROVE  t \in ToSet(Tail(s))
  <2>1. PICK i \in 1..Len(s) : s[i] = t
    BY <1>1 DEF ToSet
  <2>2. i - 1 \in 1..Len(Tail(s)) /\ (i - 1) + 1 = i
    BY <1>1, <1>2, <1>4, <1>5, <2>1
  <2> QED BY <1>2, <1>3, <2>1, <2>2 DEF ToSet
<1>6. \A t \in ToSet(Tail(s)) : t \in ToSet(s)
  BY <1>1, <1>2, <1>3 DEF ToSet
<1>7. Head(s) \in ToSet(s)
  BY <1>1, <1>4 DEF ToSet
<1> QED BY <1>5, <1>6, <1>7

\* A threshold that breaks is excused, and the run keeps the rest.
LEMMA BreakKeepsQueued ==
  ASSUME Inv, QueuedInv, NEW r \in Runs, Running(r), ~DryRun(r), todo[r] # <<>>, Break(r),
         \A k \in AllIds : outbox[k] > 0 => outbox'[k] > 0
  PROVE  LoopInv(r)' /\ PublishInv(r)'
<1>1. LoopInv(r)
  BY DEF QueuedInv
<1>2. ToSet(todo[r]) = {Head(todo[r])} \cup ToSet(Tail(todo[r]))
  BY FirstAndRest DEF Inv, Shape
<1>3. /\ todo'[r] = Tail(todo[r]) /\ broken'[r] = broken[r] \cup {Head(todo[r])}
      /\ current'[r] = NotPublishing /\ failed'[r].total = failed[r].total
  BY DEF Break, Inv, Shape, CurrentInv
<1>4. \A t \in Asked(r) : IdsOf(Planned[t]) \subseteq AllIds
  BY RunsAssumption, LenProperties, PlannedFacts DEF Asked, ToSet
<1>5. LoopInv(r)'
  BY <1>1, <1>2, <1>3, <1>4 DEF LoopInv, Planned
<1> QED BY <1>3, <1>5 DEF PublishInv

\* The run that takes the step keeps what QueuedInv says of it.
LEMMA OwnStepKeepsQueued ==
  ASSUME Inv, QueuedInv, NEW r \in Runs, Step(r), Running(r)', ~DryRun(r)
  PROVE  LoopInv(r)' /\ PublishInv(r)'
<1>1. \A k \in AllIds : outbox[k] > 0 => outbox'[k] > 0
  BY QueueGrows
<1>2. \A t \in Asked(r) : IdsOf(Planned[t]) \subseteq AllIds
  BY RunsAssumption, LenProperties, PlannedFacts DEF Asked, ToSet
<1>3. CASE Invoke(r)
  <2>1. todo'[r] = Requested[r] /\ current'[r] = NotPublishing
    BY <1>3 DEF Invoke, Inv, Shape, CurrentInv
  <2>2. Asked(r) = ToSet(Requested[r])
    BY <1>3 DEF Invoke, Asked
  <2> QED BY <2>1, <2>2 DEF LoopInv, PublishInv
<1>4. CASE Generate(r)
  <2>1. LoopInv(r)
    BY <1>4 DEF Generate, Choosing, QueuedInv
  <2>2. /\ current'[r] = PlanOf(r) /\ todo' = todo /\ failed' = failed
        /\ broken' = broken /\ outbox' = outbox
    BY <1>4 DEF Generate, PlanOf, Inv, CurrentInv
  <2>3. LoopInv(r)'
    BY <2>1, <2>2 DEF LoopInv, Planned
  <2>4. PublishInv(r)'
    BY <2>2 DEF PublishInv, PlanOf, Planned, IdsOf
  <2> QED BY <2>3, <2>4
<1>5. CASE QueryFails(r)
  BY <1>1, <1>5, BreakKeepsQueued DEF QueryFails, Choosing
<1>6. CASE PublishFails(r)
  <2>1. todo[r] # <<>>
    BY <1>6 DEF PublishFails, Publishing, Inv, CurrentInv, MidPlan
  <2> QED BY <1>1, <1>6, <2>1, BreakKeepsQueued DEF PublishFails, Publishing
<1>7. CASE PublishBatch(r)
  <2>1. /\ Running(r) /\ current[r] # NotPublishing /\ current[r] # <<>>
        /\ todo' = todo /\ broken' = broken
        /\ current'[r] = AfterBatch(current[r])
    BY <1>7 DEF PublishBatch, Publishing, Inv, CurrentInv
  <2>2. LoopInv(r) /\ PublishInv(r) /\ MidPlan(r)
    BY <2>1 DEF QueuedInv, Inv, CurrentInv
  <2>3. /\ PlanOf(r) \in Seq(Msgs) /\ Distinct(PlanOf(r)) /\ IdsOf(PlanOf(r)) \subseteq AllIds
        /\ IdsOf(current[r]) \subseteq IdsOf(PlanOf(r))
    BY <2>2, MidPlanFacts DEF Inv, MidPlan
  <2>4. IdsOf(current[r]) = IdsOf(Batch(current[r])) \cup IdsOf(AfterBatch(current[r]))
    BY <2>1, <2>2, <2>3, BatchFacts DEF MidPlan
  <2>5. PICK rejected \in SUBSET IdsOf(Batch(current[r])) :
          /\ Put(IdsOf(Batch(current[r])) \ rejected)
          /\ failed' = [failed EXCEPT ![r].now = @ \cup rejected]
    BY <1>7 DEF PublishBatch
  <2>6. failed'[r].now = failed[r].now \cup rejected /\ failed'[r].total = failed[r].total
    BY <2>5 DEF Inv, Shape
  <2>7. LoopInv(r)'
    BY <1>1, <1>2, <2>1, <2>2, <2>6 DEF LoopInv, Planned
  <2>8. ASSUME NEW k \in IdsOf(PlanOf(r)), k \notin IdsOf(AfterBatch(current[r]))
        PROVE  outbox'[k] > 0 \/ k \in failed'[r].now
    <3>1. CASE k \notin IdsOf(current[r])
      BY <1>1, <2>1, <2>2, <2>3, <2>6, <3>1 DEF PublishInv
    <3>2. CASE k \in rejected
      BY <2>6, <3>2
    <3>3. CASE k \in IdsOf(Batch(current[r])) \ rejected
      <4>1. k \in AllIds /\ outbox[k] \in Nat
        BY <2>3 DEF Inv, Shape
      <4>2. outbox'[k] = outbox[k] + 1
        BY <2>5, <3>3, <4>1 DEF Put
      <4> QED BY <4>1, <4>2
    <3> QED BY <2>4, <2>8, <3>1, <3>2, <3>3
  <2>9. PublishInv(r)'
    <3>1. PlanOf(r)' = PlanOf(r) /\ IdsOf(current[r])' = IdsOf(AfterBatch(current[r]))
      BY <2>1 DEF PlanOf, Planned, IdsOf
    <3>2. IdsOf(PlanOf(r))' = IdsOf(PlanOf(r))
      BY <3>1 DEF IdsOf
    <3> QED BY <2>8, <3>1, <3>2 DEF PublishInv
  <2> QED BY <2>7, <2>9
<1>8. CASE Conclude(r)
  <2>1. /\ Running(r) /\ current[r] = <<>> /\ current[r] # NotPublishing
        /\ todo'[r] = Tail(todo[r]) /\ current'[r] = NotPublishing
        /\ broken' = broken /\ outbox' = outbox
        /\ failed'[r].total = failed[r].now \cup failed[r].total
    BY <1>8 DEF Conclude, Publishing, Inv, Shape, CurrentInv
  <2>2. LoopInv(r) /\ PublishInv(r) /\ todo[r] # <<>>
    BY <2>1 DEF QueuedInv, Inv, CurrentInv, MidPlan
  <2>3. ToSet(todo[r]) = {Head(todo[r])} \cup ToSet(Tail(todo[r]))
    BY <2>2, FirstAndRest DEF Inv, Shape
  <2>4. IdsOf(current[r]) = {}
    BY <2>1 DEF IdsOf, ToSet
  <2>5. \A k \in IdsOf(PlanOf(r)) : outbox[k] > 0 \/ k \in failed[r].now
    BY <2>1, <2>2, <2>4 DEF PublishInv
  <2>6. LoopInv(r)'
    BY <2>1, <2>2, <2>3, <2>5 DEF LoopInv, PlanOf, Planned
  <2> QED BY <2>1, <2>6 DEF PublishInv
<1>9. ~Refuse(r) /\ ~Answer(r) /\ ~Crash(r)
  <2>1. "gave up" # "running" /\ "raised" # "running" /\ "returned" # "running"
    OBVIOUS
  <2> QED BY <2>1 DEF Refuse, Answer, Crash, AnswerPhase, RaisedPhase, Running, Inv, Shape
<1>10. ~PublishNothing(r)
  BY DEF PublishNothing
<1> QED BY <1>3, <1>4, <1>5, <1>6, <1>7, <1>8, <1>9, <1>10 DEF Step, Start, Handle, Failure

\* So every step keeps QueuedInv.
LEMMA QueuedStep == Inv /\ QueuedInv /\ [Next]_vars => QueuedInv'
<1> SUFFICES ASSUME Inv, QueuedInv, [Next]_vars PROVE QueuedInv'
  OBVIOUS
<1>1. CASE Next
  <2>1. PICK r \in Runs : Step(r)
    BY <1>1 DEF Next, Step
  <2>2. ASSUME NEW q \in Runs, Running(q)', ~DryRun(q)
        PROVE  LoopInv(q)' /\ PublishInv(q)'
    BY <2>1, <2>2, OwnStepKeepsQueued, OtherRunsKeepQueued
  <2> QED BY <2>2 DEF QueuedInv, DryRun
<1>2. CASE UNCHANGED vars
  BY <1>2 DEF vars, QueuedInv, LoopInv, PublishInv, Running, PlanOf, Planned, IdsOf
<1> QED BY <1>1, <1>2

\* When the loop is done, all that is asked for is what it is done with.
LEMMA QueuedImplies == QueuedInv => EveryReminderIsQueuedOrReported
<1> SUFFICES ASSUME QueuedInv, NEW r \in Runs, Choosing(r), todo[r] = <<>>, ~DryRun(r),
                    NEW t \in Asked(r) \ broken[r], NEW k \in IdsOf(Planned[t])
             PROVE  outbox[k] > 0 \/ k \in failed[r].total
  BY DEF EveryReminderIsQueuedOrReported
<1>1. LoopInv(r)
  BY DEF QueuedInv, Choosing
<1>2. ToSet(todo[r]) = {}
  BY DEF ToSet
<1> QED BY <1>1, <1>2 DEF LoopInv

\* When the handler is about to answer, every reminder of a threshold it was
\* asked for is queued, or is reported as failed, or its threshold is among
\* those that broke: one broken threshold or rejected entry stops no other, in
\* any number of overlapping runs (handler: "somebody's hearing is tomorrow";
\* OutboxQueue.publish).
THEOREM QueuedOrReported == Spec => []EveryReminderIsQueuedOrReported
<1>1. Init => QueuedInv
  BY DEF Init, QueuedInv, Running
<1> QED BY <1>1, QueuedImplies, InvInit, InvStep, QueuedStep, PTL DEF Spec

\* A run that answered 200 has left out no reminder it was asked for.
AnsweredInv ==
  \A r \in Runs : phase[r] = "returned" /\ ~DryRun(r) =>
    \A t \in Asked(r) : \A k \in IdsOf(Planned[t]) :
      outbox[k] > 0 \/ k \in failed[r].total

\* When it answered, nothing was broken and the loop was done; since then
\* others have only added to the queue.
LEMMA AnsweredStep == Inv /\ QueuedInv /\ AnsweredInv /\ [Next]_vars => AnsweredInv'
<1> SUFFICES ASSUME Inv, QueuedInv, AnsweredInv, [Next]_vars PROVE AnsweredInv'
  OBVIOUS
<1>1. CASE Next
  <2>1. PICK r \in Runs : Step(r)
    BY <1>1 DEF Next, Step
  <2> SUFFICES ASSUME NEW q \in Runs, phase'[q] = "returned", ~DryRun(q),
                      NEW t \in Asked(q), NEW k \in IdsOf(Planned[t])
               PROVE  outbox'[k] > 0 \/ k \in failed'[q].total
    BY DEF AnsweredInv, DryRun, Asked, Planned, IdsOf
  <2>2. t \in Thresholds
    BY RunsAssumption, LenProperties DEF Asked, ToSet
  <2>3. k \in AllIds
    BY <2>2, PlannedFacts
  <2>4. outbox[k] \in Nat /\ outbox'[k] \in Nat /\ outbox[k] <= outbox'[k]
    BY <2>1, <2>3, QueueGrows
  <2>5. CASE phase[q] = "returned" /\ failed'[q] = failed[q]
    <3>1. outbox[k] > 0 \/ k \in failed[q].total
      BY <2>5 DEF AnsweredInv
    <3> QED BY <2>4, <2>5, <3>1
  <2>6. CASE q = r /\ Answer(r)
    <3>1. Running(q) /\ todo[q] = <<>> /\ failed' = failed /\ broken[q] = {}
      BY <2>6 DEF Answer, Choosing, AnswerPhase, RaisedPhase, Inv, Shape
    <3>2. LoopInv(q)
      BY <3>1 DEF QueuedInv
    <3>3. ToSet(todo[q]) = {}
      BY <3>1 DEF ToSet
    <3>4. outbox[k] > 0 \/ k \in failed[q].total
      BY <3>1, <3>2, <3>3 DEF LoopInv
    <3> QED BY <2>4, <3>1, <3>4
  <2>7. CASE q # r
    BY <2>1, <2>5, <2>7, OtherRunsStay
  <2>8. CASE q = r /\ ~Answer(r)
    <3>1. phase \in [Runs -> {"waiting", "running", "returned", "raised", "gave up"}]
      BY DEF Inv, Shape
    <3>2. phase'[r] # "returned"
      BY <2>1, <2>8, <3>1
         DEF Step, Start, Handle, Failure, Invoke, Refuse, Generate, QueryFails, PublishBatch,
             PublishFails, PublishNothing, Conclude, Crash, Break, Choosing, Publishing,
             Running, RaisedPhase
    <3> QED BY <2>8, <3>2
  <2> QED BY <2>6, <2>7, <2>8
<1>2. CASE UNCHANGED vars
  BY <1>2 DEF vars, AnsweredInv, Planned, IdsOf
<1> QED BY <1>1, <1>2

\* Nothing has been rejected: publish reports no failed entry, now or before.
NothingRejected == \A r \in Runs : failed[r].now = {} /\ failed[r].total = {}

\* Only SQS's rejection of an entry is ever reported as a failed entry.
LEMMA NothingRejectedStep ==
  ASSUME "entry" \notin Faults
  PROVE  Inv /\ NothingRejected /\ [Next]_vars => NothingRejected'
<1> SUFFICES ASSUME Inv, NothingRejected, [Next]_vars PROVE NothingRejected'
  OBVIOUS
<1>1. failed \in [Runs -> [now : SUBSET AllIds, total : SUBSET AllIds]]
  BY DEF Inv, Shape
<1>2. ASSUME NEW r \in Runs, Break(r)
      PROVE  NothingRejected'
  BY <1>1, <1>2 DEF Break, NothingRejected
<1>3. ASSUME NEW r \in Runs, Invoke(r)
      PROVE  NothingRejected'
  BY <1>1, <1>3 DEF Invoke, NothingRejected
<1>4. ASSUME NEW r \in Runs, PublishBatch(r)
      PROVE  NothingRejected'
  <2>1. PICK rejected \in SUBSET IdsOf(Batch(current[r])) :
          /\ IF rejected = {} THEN UNCHANGED faults ELSE Fault("entry")
          /\ failed' = [failed EXCEPT ![r].now = @ \cup rejected]
    BY <1>4 DEF PublishBatch
  <2>2. rejected = {}
    BY <2>1 DEF Fault
  <2> QED BY <1>1, <2>1, <2>2 DEF NothingRejected
<1>5. ASSUME NEW r \in Runs, Conclude(r)
      PROVE  NothingRejected'
  BY <1>1, <1>5 DEF Conclude, NothingRejected
<1>6. CASE failed' = failed
  BY <1>6 DEF NothingRejected
<1> QED BY <1>2, <1>3, <1>4, <1>5, <1>6
        DEF Next, Start, Handle, Failure, Refuse, Generate, QueryFails, PublishFails,
            PublishNothing, Answer, Crash, vars

\* "Raising is what makes a broken run visible ... rather than passing as a
\* quiet success" (handler), and SQS's rejection of single entries, which
\* publish counts and the handler answers with 200, is the one exception: where
\* SQS rejects none, a run that answers 200 has queued all it was asked for,
\* through whatever other failures, retries and overlapping runs.
THEOREM OnlyRejectedEntriesPassQuietly ==
  ASSUME "entry" \notin Faults
  PROVE  Spec => []NoQuietSuccess
<1>1. Init => QueuedInv /\ AnsweredInv /\ NothingRejected
  BY DEF Init, QueuedInv, AnsweredInv, NothingRejected, Running
<1>2. Inv /\ NothingRejected /\ [Next]_vars => NothingRejected'
  BY NothingRejectedStep
<1>3. AnsweredInv /\ NothingRejected => NoQuietSuccess
  BY DEF AnsweredInv, NothingRejected, NoQuietSuccess
<1> QED BY <1>1, <1>2, <1>3, InvInit, InvStep, QueuedStep, AnsweredStep, PTL DEF Spec

\* How often a threshold is in a list is a number, and not 0 if it is there.
LEMMA TimesFacts ==
  ASSUME NEW s \in Seq(Thresholds), NEW t
  PROVE  Times(t, s) \in Nat /\ (t \in ToSet(s) <=> Times(t, s) # 0)
<1> DEFINE at == {i \in DOMAIN s : s[i] = t}
<1>1. Len(s) \in Nat /\ DOMAIN s = 1..Len(s)
  BY LenProperties
<1>2. IsFiniteSet(1..Len(s))
  BY <1>1, FS_Interval
<1>3. IsFiniteSet(at)
  BY <1>1, <1>2, FS_Subset
<1>4. Cardinality(at) \in Nat /\ (Cardinality(at) = 0 <=> at = {})
  BY <1>3, FS_CardinalityType, FS_EmptySet
<1>5. Times(t, s) = Cardinality(at)
  BY DEF Times
<1> QED BY <1>4, <1>5 DEF ToSet

\* The list after its first entry has one less of that entry.
LEMMA TimesTail ==
  ASSUME NEW s \in Seq(Thresholds), s # <<>>, NEW t
  PROVE  Times(t, s) = Times(t, Tail(s)) + (IF t = Head(s) THEN 1 ELSE 0)
<1> DEFINE at == {i \in 1..Len(s) : s[i] = t}
           later == {i \in 2..Len(s) : s[i] = t}
           rest == {i \in 1..Len(Tail(s)) : Tail(s)[i] = t}
           shift == [i \in rest |-> i + 1]
<1>1. /\ Len(s) \in Nat /\ DOMAIN s = 1..Len(s) /\ Len(s) # 0
  BY LenProperties, EmptySeq
<1>2. /\ Tail(s) \in Seq(Thresholds) /\ Len(Tail(s)) = Len(s) - 1
      /\ \A i \in 1..Len(Tail(s)) : Tail(s)[i] = s[i + 1]
  BY HeadTailProperties
<1>3. DOMAIN Tail(s) = 1..Len(Tail(s))
  BY <1>2, LenProperties
<1>4. Head(s) = s[1]
  OBVIOUS
<1>5. IsFiniteSet(rest)
  <2>1. IsFiniteSet(1..Len(Tail(s)))
    BY <1>1, <1>2, FS_Interval
  <2> QED BY <2>1, FS_Subset
<1>6. shift \in Bijection(rest, later)
  <2>1. \A i \in rest : i + 1 \in later
    BY <1>1, <1>2
  <2>2. shift \in [rest -> later]
    BY <2>1
  <2>3. \A i, j \in rest : shift[i] = shift[j] => i = j
    OBVIOUS
  <2>4. \A i \in later : i - 1 \in rest /\ shift[i - 1] = i
    <3>1. ASSUME NEW i \in later
          PROVE  i - 1 \in rest
      <4>1. i - 1 \in 1..Len(Tail(s)) /\ (i - 1) + 1 = i
        BY <1>1, <1>2
      <4> QED BY <1>2, <4>1
    <3>2. ASSUME NEW i \in later
          PROVE  shift[i - 1] = i
      BY <3>1
    <3> QED BY <3>1, <3>2
  <2>5. \A i \in later : \E j \in rest : shift[j] = i
    BY <2>4
  <2> HIDE DEF shift, rest, later
  <2> QED BY <2>2, <2>3, <2>5, Fun_IsBij
<1>7. IsFiniteSet(later) /\ Cardinality(later) = Cardinality(rest)
  <2> HIDE DEF rest, later, shift
  <2>1. ExistsBijection(rest, later)
    BY <1>6 DEF ExistsBijection
  <2> QED BY <1>5, <2>1, FS_Bijection
<1>8. Times(t, s) = Cardinality(at) /\ Times(t, Tail(s)) = Cardinality(rest)
  BY <1>1, <1>3 DEF Times
<1>9. CASE t = Head(s)
  <2>1. at = later \cup {1} /\ 1 \notin later
    <3>1. \A i : i \in 1..Len(s) <=> i \in 2..Len(s) \/ i = 1
      BY <1>1
    <3> QED BY <1>4, <1>9, <3>1
  <2> HIDE DEF at, later
  <2>2. Cardinality(later \cup {1}) = Cardinality(later) + 1
    BY <1>7, <2>1, FS_AddElement
  <2> QED BY <1>7, <1>8, <1>9, <2>1, <2>2
<1>10. CASE t # Head(s)
  <2>1. at = later
    <3>1. \A i : i \in 1..Len(s) <=> i \in 2..Len(s) \/ i = 1
      BY <1>1
    <3> QED BY <1>4, <1>10, <3>1
  <2>2. Cardinality(rest) \in Nat
    BY <1>5, FS_CardinalityType
  <2> HIDE DEF at, later, rest
  <2> QED BY <1>7, <1>8, <1>10, <2>1, <2>2
<1> QED BY <1>9, <1>10

\* What an event asks for, when it can be parsed.
LEMMA RequestedFacts ==
  ASSUME NEW r \in Runs, Requested[r] # Unparsable, NEW t
  PROVE  /\ Requested[r] \in Seq(Thresholds)
         /\ Times(t, Requested[r]) \in Nat
         /\ t \in Asked(r) <=> Times(t, Requested[r]) # 0
<1>1. Requested[r] \in Seq(Thresholds)
  BY RunsAssumption
<1> QED BY <1>1, TimesFacts DEF Asked

\* What is pending is no more than the event asks for.
LEMMA PendingFacts ==
  ASSUME Inv, TimesInv, NEW t \in Thresholds, NEW r \in Runs, Requested[r] # Unparsable, NEW k
  PROVE  /\ Times(t, todo[r]) \in Nat
         /\ Ahead(r, t, k) \in {0, 1}
         /\ Ahead(r, t, k) <= Times(t, todo[r])
         /\ Pending(r, t, k) \in Nat
         /\ Pending(r, t, k) <= Times(t, Requested[r])
         /\ attempt[r] \in Nat
         /\ Running(r) => attempt[r] # 0
<1>1. todo[r] \in Seq(Thresholds)
  BY DEF Inv, Shape
<1>2. Times(t, todo[r]) \in Nat
  BY <1>1, TimesFacts
<1>3. Times(t, Requested[r]) \in Nat
  BY RequestedFacts
<1>4. Ahead(r, t, k) \in {0, 1}
  BY DEF Ahead
<1>5. Ahead(r, t, k) <= Times(t, todo[r])
  <2>1. CASE Ahead(r, t, k) = 0
    BY <1>2, <2>1
  <2>2. CASE Ahead(r, t, k) # 0
    <3>1. todo[r] # <<>> /\ t = Head(todo[r])
      BY <2>2 DEF Ahead, Inv, CurrentInv, MidPlan
    <3>2. t \in ToSet(todo[r])
      BY <1>1, <3>1, FirstAndRest
    <3>3. Times(t, todo[r]) # 0
      BY <1>1, <3>2, TimesFacts
    <3> QED BY <1>2, <1>4, <3>3
  <2> QED BY <2>1, <2>2
<1>6. Running(r) => Times(t, todo[r]) <= Times(t, Requested[r])
  BY DEF TimesInv
<1>7. attempt[r] \in Nat
  BY DEF Inv, PhaseInv
<1>8. Running(r) => attempt[r] # 0
  BY DEF Inv, PhaseInv
<1>9. Pending(r, t, k) \in Nat
  BY <1>2, <1>4, <1>5 DEF Pending
<1>10. Pending(r, t, k) <= Times(t, Requested[r])
  BY <1>2, <1>3, <1>4, <1>5, <1>6 DEF Pending
<1> QED BY <1>2, <1>4, <1>5, <1>7, <1>8, <1>9, <1>10

\* So what is spent is a number, and no more than CopiesComeFromRuns allows.
LEMMA SpentFacts ==
  ASSUME Inv, TimesInv, NEW t \in Thresholds, NEW r \in Feeders(t), NEW k
  PROVE  /\ attempt[r] * Times(t, Requested[r]) \in Nat
         /\ Spent(r, t, k) \in Nat
         /\ Spent(r, t, k) <= attempt[r] * Times(t, Requested[r])
<1> DEFINE times == Times(t, Requested[r])
           pending == Pending(r, t, k)
<1>1. r \in Runs /\ Requested[r] # Unparsable
  BY DEF Feeders, Asked
<1>2. times \in Nat
  BY <1>1, RequestedFacts
<1>3. pending \in Nat /\ attempt[r] \in Nat
  BY <1>1, PendingFacts
<1>4. pending <= times
  BY <1>1, PendingFacts
<1>5. attempt[r] = 0 => pending = 0
  BY <1>1, PendingFacts DEF Pending
<1>6. Spent(r, t, k) = attempt[r] * times - pending
  BY DEF Spent
<1> HIDE DEF times, pending
<1>7. attempt[r] * times \in Nat
  BY <1>2, <1>3
<1>8. attempt[r] # 0 => times <= attempt[r] * times
  <2>1. SUFFICES ASSUME attempt[r] # 0 PROVE times <= attempt[r] * times
    OBVIOUS
  <2>2. attempt[r] - 1 \in Nat /\ (attempt[r] - 1) * times \in Nat
    BY <1>2, <1>3, <2>1
  <2>3. attempt[r] * times = (attempt[r] - 1) * times + times
    BY <1>2, <1>3
  <2> QED BY <1>2, <2>2, <2>3
<1>9. Spent(r, t, k) \in Nat /\ Spent(r, t, k) <= attempt[r] * times
  BY <1>2, <1>3, <1>4, <1>5, <1>6, <1>7, <1>8
<1> QED BY <1>7, <1>9 DEF times

\* The loop only takes thresholds off its list.
LEMMA TimesStep == Inv /\ TimesInv /\ [Next]_vars => TimesInv'
<1> SUFFICES ASSUME Inv, TimesInv, [Next]_vars, NEW q \in Runs, Running(q)',
                    NEW t \in Thresholds
             PROVE  Times(t, todo'[q]) <= Times(t, Requested[q])
  BY DEF TimesInv, Times
<1>1. Running(q) => Times(t, todo[q]) <= Times(t, Requested[q])
  BY DEF TimesInv
<1>2. CASE todo'[q] = todo[q] /\ Running(q)
  BY <1>1, <1>2
<1>3. CASE todo'[q] = Tail(todo[q]) /\ todo[q] # <<>> /\ Running(q)
  <2>1. todo[q] \in Seq(Thresholds) /\ Tail(todo[q]) \in Seq(Thresholds)
    BY <1>3, MidPlanFacts DEF Inv, Shape
  <2>2. Requested[q] \in Seq(Thresholds)
    BY <1>3, RequestedFacts DEF Inv, PhaseInv
  <2>3. Times(t, todo[q]) \in Nat
    BY <2>1, TimesFacts
  <2>4. Times(t, Tail(todo[q])) \in Nat
    BY <2>1, TimesFacts
  <2>5. Times(t, Requested[q]) \in Nat
    BY <2>2, TimesFacts
  <2>6. Times(t, todo[q]) = Times(t, Tail(todo[q])) + (IF t = Head(todo[q]) THEN 1 ELSE 0)
    BY <1>3, <2>1, TimesTail
  <2> QED BY <1>1, <1>3, <2>3, <2>4, <2>5, <2>6
<1>4. CASE todo'[q] = Requested[q] /\ Requested[q] # Unparsable
  <2>1. Times(t, Requested[q]) \in Nat
    BY <1>4, RequestedFacts
  <2> QED BY <1>4, <2>1
<1>5. CASE UNCHANGED vars
  BY <1>2, <1>5 DEF vars, Running
<1>6. ASSUME NEW r \in Runs, Step(r)
      PROVE  \/ todo'[q] = todo[q] /\ Running(q)
             \/ todo'[q] = Tail(todo[q]) /\ todo[q] # <<>> /\ Running(q)
             \/ todo'[q] = Requested[q] /\ Requested[q] # Unparsable
  <2>1. CASE q # r
    BY <1>6, <2>1, OtherRunsStay DEF Running
  <2>2. CASE q = r /\ Invoke(r)
    BY <2>2 DEF Invoke, Inv, Shape
  <2>3. CASE q = r /\ (Generate(r) \/ PublishBatch(r) \/ PublishNothing(r) \/ Answer(r) \/ Crash(r))
    BY <2>3 DEF Generate, PublishBatch, PublishNothing, Answer, Crash, Choosing, Publishing
  <2>4. CASE q = r /\ (QueryFails(r) \/ PublishFails(r) \/ Conclude(r))
    <3>1. Running(r) /\ todo[r] # <<>>
      BY <2>4 DEF QueryFails, PublishFails, Conclude, Choosing, Publishing,
                  Inv, CurrentInv, MidPlan
    <3>2. todo'[r] = Tail(todo[r])
      BY <2>4 DEF QueryFails, PublishFails, Conclude, Break, Inv, Shape
    <3> QED BY <2>4, <3>1, <3>2
  <2>5. CASE q = r /\ Refuse(r)
    <3>1. "gave up" # "running" /\ "raised" # "running"
      OBVIOUS
    <3> QED BY <2>5, <3>1 DEF Refuse, Running, Inv, Shape
  <2> QED BY <1>6, <2>1, <2>2, <2>3, <2>4, <2>5 DEF Step, Start, Handle, Failure
<1> QED BY <1>2, <1>3, <1>4, <1>5, <1>6 DEF Next, Step

\* Within an invocation, what is no longer pending is spent.
LEMMA SpentByPending ==
  ASSUME Inv, TimesInv, NEW t \in Thresholds, NEW r \in Feeders(t), NEW k,
         attempt'[r] = attempt[r], Pending(r, t, k)' \in Nat
  PROVE  /\ Spent(r, t, k)' \in Int
         /\ Pending(r, t, k)' <= Pending(r, t, k) => Spent(r, t, k) <= Spent(r, t, k)'
         /\ Pending(r, t, k)' < Pending(r, t, k) => Spent(r, t, k) < Spent(r, t, k)'
<1> DEFINE all == attempt[r] * Times(t, Requested[r])
           before == Pending(r, t, k)
           after == Pending(r, t, k)'
<1>1. all \in Nat
  BY SpentFacts
<1>2. before \in Nat
  BY PendingFacts DEF Feeders, Asked
<1>3. Spent(r, t, k) = all - before
  BY DEF Spent
<1>4. Spent(r, t, k)' = all - after
  BY DEF Spent, Times
<1> HIDE DEF all, before, after
<1>5. after \in Nat
  BY DEF after
<1>6. /\ Spent(r, t, k)' \in Int
      /\ after <= before => Spent(r, t, k) <= Spent(r, t, k)'
      /\ after < before => Spent(r, t, k) < Spent(r, t, k)'
  BY <1>1, <1>2, <1>3, <1>4, <1>5
<1> QED BY <1>6 DEF before, after

\* A step spends nothing twice, and pays for a copy that it queues.
SpendsForIt(r, t, k) ==
  /\ Spent(r, t, k)' \in Nat
  /\ Spent(r, t, k) <= Spent(r, t, k)'
  /\ outbox'[k] # outbox[k] =>
       outbox'[k] = outbox[k] + 1 /\ Spent(r, t, k) < Spent(r, t, k)'

\* A batch holds ids of the threshold at hand only, and publish is past them
\* once it is sent.
LEMMA BatchIsOfHead ==
  ASSUME Inv, TimesInv, NEW r \in Runs, Publishing(r), current[r] # <<>>,
         NEW t \in Thresholds, NEW k \in IdsOf(Planned[t]), k \in IdsOf(Batch(current[r]))
  PROVE  /\ t = Head(todo[r]) /\ t \in Asked(r)
         /\ k \in IdsOf(current[r]) /\ k \notin IdsOf(AfterBatch(current[r]))
<1>1. MidPlan(r) /\ todo[r] # <<>>
  BY DEF Inv, CurrentInv, Publishing, MidPlan
<1>2. PlanOf(r) \in Seq(Msgs) /\ Distinct(PlanOf(r)) /\ Head(todo[r]) \in Thresholds
  BY <1>1, MidPlanFacts DEF Inv
<1>3. /\ IdsOf(current[r]) = IdsOf(Batch(current[r])) \cup IdsOf(AfterBatch(current[r]))
      /\ IdsOf(Batch(current[r])) \cap IdsOf(AfterBatch(current[r])) = {}
  BY <1>1, <1>2, BatchFacts DEF MidPlan
<1>4. k \in IdsOf(current[r]) /\ k \notin IdsOf(AfterBatch(current[r]))
  BY <1>3
<1>5. k \in IdsOf(PlanOf(r))
  BY <1>1, <1>4, MidPlanFacts DEF Inv
<1>6. t = Head(todo[r])
  <2>1. k[1] = t
    BY PlannedFacts
  <2>2. k[1] = Head(todo[r])
    BY <1>2, <1>5, PlannedFacts DEF PlanOf
  <2> QED BY <2>1, <2>2
<1>7. t \in Asked(r)
  <2>1. todo[r] \in Seq(Thresholds)
    BY DEF Inv, Shape
  <2>2. t \in ToSet(todo[r])
    BY <1>1, <1>6, <2>1, FirstAndRest
  <2>3. Times(t, todo[r]) # 0
    BY <2>1, <2>2, TimesFacts
  <2>4. Times(t, todo[r]) \in Nat
    BY <2>1, TimesFacts
  <2>5. Running(r) /\ Requested[r] # Unparsable
    BY DEF Publishing, Inv, PhaseInv
  <2>6. Times(t, todo[r]) <= Times(t, Requested[r])
    BY <2>5 DEF TimesInv
  <2>7. Times(t, Requested[r]) \in Nat
    BY <2>5, RequestedFacts
  <2>8. Times(t, Requested[r]) # 0
    BY <2>3, <2>4, <2>6, <2>7
  <2> QED BY <2>5, <2>8, RequestedFacts
<1> QED BY <1>4, <1>6, <1>7

\* Only a batch queues anything, one copy of each entry.
LEMMA QueuesOnlyTheBatch ==
  ASSUME Inv, NEW r \in Runs, Step(r), NEW k \in AllIds, outbox'[k] # outbox[k]
  PROVE  /\ outbox'[k] = outbox[k] + 1
         /\ PublishBatch(r) \/ PublishFails(r)
         /\ Publishing(r) /\ ~DryRun(r) /\ current[r] # <<>>
         /\ k \in IdsOf(Batch(current[r]))
<1>1. outbox \in [AllIds -> Nat]
  BY DEF Inv, Shape
<1>2. ASSUME NEW ids, Put(ids)
      PROVE  k \in ids /\ outbox'[k] = outbox[k] + 1
  BY <1>1, <1>2, PutFacts
<1>3. CASE PublishBatch(r)
  <2>1. PICK rejected \in SUBSET IdsOf(Batch(current[r])) :
          Put(IdsOf(Batch(current[r])) \ rejected)
    BY <1>3 DEF PublishBatch
  <2> QED BY <1>2, <1>3, <2>1 DEF PublishBatch
<1>4. CASE PublishFails(r)
  <2>1. PICK taken \in SUBSET IdsOf(Batch(current[r])) : Put(taken)
    BY <1>4 DEF PublishFails
  <2> QED BY <1>2, <1>4, <2>1 DEF PublishFails
<1>5. PublishBatch(r) \/ PublishFails(r)
  BY DEF Step, Start, Handle, Failure, Invoke, Refuse, Generate, QueryFails,
         PublishNothing, Conclude, Answer, Crash
<1> QED BY <1>3, <1>4, <1>5

\* Each step of a run pays for what it queues.
LEMMA OwnStepSpends ==
  ASSUME Inv, TimesInv, NEW t \in Thresholds, NEW k \in IdsOf(Planned[t]),
         NEW r \in Feeders(t), Step(r)
  PROVE  SpendsForIt(r, t, k)
<1> DEFINE left == Times(t, todo[r])
           rest == Times(t, Tail(todo[r]))
           ahead == Ahead(r, t, k)
           before == Pending(r, t, k)
           after == Pending(r, t, k)'
<1>1. r \in Runs /\ ~DryRun(r) /\ Requested[r] # Unparsable
  BY DEF Feeders, Asked
<1>2. k \in AllIds
  BY PlannedFacts
<1>3. left \in Nat /\ ahead \in {0, 1} /\ before \in Nat
  BY <1>1, PendingFacts
<1>4. ahead <= left
  BY <1>1, PendingFacts
<1>5. Running(r) => before = left - ahead
  BY DEF Pending
<1>6. ASSUME attempt'[r] = attempt[r], after \in Nat, after <= before,
             outbox'[k] # outbox[k] => after < before
      PROVE  SpendsForIt(r, t, k)
  <2>1. outbox'[k] # outbox[k] => outbox'[k] = outbox[k] + 1
    BY <1>1, <1>2, QueuesOnlyTheBatch
  <2>2. Spent(r, t, k) <= Spent(r, t, k)'
    BY <1>6, SpentByPending
  <2>3. outbox'[k] # outbox[k] => Spent(r, t, k) < Spent(r, t, k)'
    BY <1>6, SpentByPending
  <2>4. Spent(r, t, k)' \in Int
    BY <1>6, SpentByPending
  <2>5. Spent(r, t, k) \in Nat
    BY SpentFacts
  <2>6. Spent(r, t, k)' \in Nat
    BY <2>2, <2>4, <2>5
  <2> QED BY <2>1, <2>2, <2>3, <2>6 DEF SpendsForIt
<1>7. ASSUME todo[r] # <<>>
      PROVE  rest \in Nat /\ left = rest + (IF t = Head(todo[r]) THEN 1 ELSE 0)
  <2>1. todo[r] \in Seq(Thresholds) /\ Tail(todo[r]) \in Seq(Thresholds)
    BY <1>1, <1>7, MidPlanFacts DEF Inv, Shape
  <2> QED BY <1>7, <2>1, TimesFacts, TimesTail
<1>8. ASSUME todo[r] # <<>>, Running(r)', todo'[r] = Tail(todo[r]), current'[r] = NotPublishing
      PROVE  after = rest
  <2>1. Ahead(r, t, k)' = 0
    BY <1>8 DEF Ahead
  <2>2. after = Times(t, todo'[r]) - 0
    BY <1>8, <2>1 DEF Pending, Times
  <2> QED BY <1>7, <1>8, <2>2
<1>9. ASSUME current[r] # NotPublishing, t # Head(todo[r])
      PROVE  ahead = 0
  BY <1>9 DEF Ahead
<1>10. CASE Invoke(r)
  <2> DEFINE times == Times(t, Requested[r])
  <2>1. /\ ~Running(r) /\ Running(r)' /\ todo'[r] = Requested[r]
        /\ current'[r] = NotPublishing /\ attempt'[r] = attempt[r] + 1 /\ outbox' = outbox
    BY <1>1, <1>10 DEF Invoke, Running, Inv, Shape, PhaseInv, CurrentInv
  <2>2. before = 0
    BY <2>1 DEF Pending
  <2>3. Ahead(r, t, k)' = 0
    BY <2>1 DEF Ahead
  <2>4. after = times - 0
    BY <2>1, <2>3 DEF Pending, Times
  <2>5. times \in Nat
    BY <1>1, RequestedFacts
  <2>6. attempt[r] \in Nat
    BY <1>1 DEF Inv, PhaseInv
  <2>7. Spent(r, t, k) = attempt[r] * times - 0
    BY <2>2 DEF Spent
  <2>8. Spent(r, t, k)' = (attempt[r] + 1) * times - times
    <3>1. Spent(r, t, k)' = attempt'[r] * times - after
      BY DEF Spent, Times
    <3> QED BY <2>1, <2>4, <2>5, <3>1
  <2> HIDE DEF times
  <2>9. Spent(r, t, k)' = Spent(r, t, k) /\ Spent(r, t, k) \in Nat
    BY <2>5, <2>6, <2>7, <2>8
  <2> QED BY <2>1, <2>9 DEF SpendsForIt
<1>11. CASE Generate(r)
  <2>1. /\ Running(r) /\ Running(r)' /\ todo' = todo /\ attempt' = attempt
        /\ current[r] = NotPublishing /\ current'[r] = PlanOf(r) /\ outbox' = outbox
    BY <1>1, <1>11 DEF Generate, Choosing, Running, PlanOf, Inv, CurrentInv
  <2>2. ahead = 0
    BY <2>1 DEF Ahead
  <2>3. Ahead(r, t, k)' = 0
    <3>1. t = Head(todo[r]) => k \in IdsOf(PlanOf(r))
      BY DEF PlanOf
    <3>2. IdsOf(current[r])' = IdsOf(PlanOf(r))
      BY <2>1 DEF IdsOf
    <3> QED BY <2>1, <3>1, <3>2 DEF Ahead
  <2>4. after = left - 0
    BY <2>1, <2>3 DEF Pending, Times
  <2> QED BY <1>3, <1>5, <1>6, <2>1, <2>2, <2>4
<1>12. CASE QueryFails(r)
  <2>1. /\ Running(r) /\ Running(r)' /\ attempt' = attempt /\ todo[r] # <<>>
        /\ current[r] = NotPublishing /\ outbox' = outbox
        /\ todo'[r] = Tail(todo[r]) /\ current'[r] = NotPublishing
    BY <1>1, <1>12 DEF QueryFails, Break, Choosing, Running, Inv, Shape, CurrentInv
  <2>2. ahead = 0
    BY <2>1 DEF Ahead
  <2>3. after = rest
    BY <1>8, <2>1
  <2> HIDE DEF left, rest, ahead, before, after
  <2>4. rest \in Nat /\ rest <= left
    BY <1>3, <1>7, <2>1
  <2>5. after <= before /\ after \in Nat
    BY <1>3, <1>5, <2>1, <2>2, <2>3, <2>4
  <2> QED BY <1>6, <2>1, <2>5
<1>13. CASE PublishFails(r)
  <2>1. /\ Running(r) /\ Running(r)' /\ attempt' = attempt /\ Publishing(r)
        /\ current[r] # NotPublishing /\ current[r] # <<>> /\ todo[r] # <<>>
        /\ todo'[r] = Tail(todo[r]) /\ current'[r] = NotPublishing
    BY <1>1, <1>13 DEF PublishFails, Break, Publishing, Running, Inv, Shape, CurrentInv, MidPlan
  <2>2. after = rest
    BY <1>8, <2>1
  <2>3. outbox'[k] # outbox[k] => t = Head(todo[r]) /\ ahead = 0
    <3>1. SUFFICES ASSUME outbox'[k] # outbox[k] PROVE t = Head(todo[r]) /\ ahead = 0
      OBVIOUS
    <3>2. k \in IdsOf(Batch(current[r]))
      BY <1>1, <1>2, <3>1, QueuesOnlyTheBatch
    <3>3. t = Head(todo[r]) /\ k \in IdsOf(current[r])
      BY <1>1, <2>1, <3>2, BatchIsOfHead
    <3> QED BY <3>3 DEF Ahead
  <2> HIDE DEF left, rest, ahead, before, after
  <2>4. rest \in Nat /\ left = rest + (IF t = Head(todo[r]) THEN 1 ELSE 0)
    BY <1>7, <2>1
  <2>5. before = left - ahead
    BY <1>5, <2>1
  <2>6. t # Head(todo[r]) => ahead = 0
    BY <1>9, <2>1
  <2>7. after <= before /\ after \in Nat
    BY <1>3, <2>2, <2>4, <2>5, <2>6
  <2>8. outbox'[k] # outbox[k] => after < before
    BY <1>3, <2>2, <2>3, <2>4, <2>5
  <2> QED BY <1>6, <2>1, <2>7, <2>8
<1>14. CASE PublishBatch(r)
  <2>1. /\ Running(r) /\ Running(r)' /\ attempt' = attempt /\ Publishing(r)
        /\ current[r] # NotPublishing /\ current[r] # <<>> /\ todo' = todo
        /\ current'[r] = AfterBatch(current[r])
    BY <1>1, <1>14 DEF PublishBatch, Publishing, Running, Inv, CurrentInv
  <2>2. MidPlan(r)
    BY <1>1, <2>1 DEF Inv, CurrentInv
  <2>3. PlanOf(r) \in Seq(Msgs) /\ Distinct(PlanOf(r))
    BY <1>1, <2>2, MidPlanFacts DEF Inv, MidPlan
  <2>4. /\ IdsOf(current[r]) = IdsOf(Batch(current[r])) \cup IdsOf(AfterBatch(current[r]))
        /\ AfterBatch(current[r]) \in Seq(Msgs)
    BY <2>1, <2>2, <2>3, BatchFacts DEF MidPlan
  <2>5. AfterBatch(current[r]) # NotPublishing
    BY <2>4, RunsAssumption DEF Msgs
  <2>6. IdsOf(current[r])' = IdsOf(AfterBatch(current[r]))
    BY <2>1 DEF IdsOf
  <2> DEFINE later == Ahead(r, t, k)'
  <2>7. later = IF t = Head(todo[r]) /\ k \notin IdsOf(AfterBatch(current[r])) THEN 1 ELSE 0
    BY <2>1, <2>5, <2>6 DEF Ahead
  <2>8. ahead = IF t = Head(todo[r]) /\ k \notin IdsOf(current[r]) THEN 1 ELSE 0
    BY <2>1 DEF Ahead
  <2>9. ahead <= later /\ later \in {0, 1}
    BY <2>4, <2>7, <2>8
  <2>10. outbox'[k] # outbox[k] => ahead = 0 /\ later = 1
    <3>1. SUFFICES ASSUME outbox'[k] # outbox[k] PROVE ahead = 0 /\ later = 1
      OBVIOUS
    <3>2. k \in IdsOf(Batch(current[r]))
      BY <1>1, <1>2, <3>1, QueuesOnlyTheBatch
    <3>3. /\ t = Head(todo[r]) /\ k \in IdsOf(current[r])
          /\ k \notin IdsOf(AfterBatch(current[r]))
      BY <1>1, <2>1, <3>2, BatchIsOfHead
    <3> QED BY <2>7, <2>8, <3>3
  <2>11. after = left - later
    BY <2>1 DEF Pending, Times
  <2>12. later <= left
    <3>1. CASE t = Head(todo[r])
      <4>1. left # 0
        BY <1>1, <1>7, <2>2, <3>1 DEF MidPlan
      <4> QED BY <1>3, <2>9, <4>1
    <3>2. CASE t # Head(todo[r])
      BY <1>3, <2>7, <3>2
    <3> QED BY <3>1, <3>2
  <2> HIDE DEF left, rest, ahead, before, after, later
  <2>13. before = left - ahead
    BY <1>5, <2>1
  <2>14. after <= before /\ after \in Nat
    BY <1>3, <2>9, <2>11, <2>12, <2>13
  <2>15. outbox'[k] # outbox[k] => after < before
    BY <1>3, <2>10, <2>11, <2>13
  <2> QED BY <1>6, <2>1, <2>14, <2>15
<1>15. CASE Conclude(r)
  <2>1. /\ Running(r) /\ Running(r)' /\ attempt' = attempt /\ outbox' = outbox
        /\ current[r] # NotPublishing /\ current[r] = <<>> /\ todo[r] # <<>>
        /\ todo'[r] = Tail(todo[r]) /\ current'[r] = NotPublishing
    BY <1>1, <1>15 DEF Conclude, Publishing, Running, Inv, Shape, CurrentInv, MidPlan
  <2>2. after = rest
    BY <1>8, <2>1
  <2>3. ahead = IF t = Head(todo[r]) THEN 1 ELSE 0
    <3>1. IdsOf(current[r]) = {}
      BY <2>1 DEF IdsOf, ToSet
    <3> QED BY <2>1, <3>1 DEF Ahead
  <2> HIDE DEF left, rest, ahead, before, after
  <2>4. rest \in Nat /\ left = rest + (IF t = Head(todo[r]) THEN 1 ELSE 0)
    BY <1>7, <2>1
  <2>5. before = left - ahead
    BY <1>5, <2>1
  <2>6. after <= before /\ after \in Nat
    BY <2>2, <2>3, <2>4, <2>5
  <2> QED BY <1>6, <2>1, <2>6
<1>16. CASE Answer(r) \/ Crash(r)
  <2>1. "gave up" # "running" /\ "raised" # "running" /\ "returned" # "running"
    OBVIOUS
  <2>2. ~Running(r)' /\ attempt' = attempt /\ outbox' = outbox
    BY <1>1, <1>16, <2>1 DEF Answer, Crash, AnswerPhase, RaisedPhase, Running, Inv, Shape
  <2>3. after = 0
    BY <2>2 DEF Pending
  <2> QED BY <1>3, <1>6, <2>2, <2>3
<1>17. ~Refuse(r) /\ ~PublishNothing(r)
  BY <1>1 DEF Refuse, PublishNothing
<1> QED BY <1>10, <1>11, <1>12, <1>13, <1>14, <1>15, <1>16, <1>17 DEF Step, Start, Handle, Failure

\* There are finitely many runs to sum over.
LEMMA FeedersAreFinite ==
  ASSUME NEW t
  PROVE  IsFiniteSet(Feeders(t))
<1>1. IsFiniteSet(Runs) /\ Feeders(t) \subseteq Runs
  BY RunsAssumption DEF Feeders
<1> QED BY <1>1, FS_Subset

\* A step of one run spends nothing of another's.
LEMMA SpentByOthers ==
  ASSUME Inv, TimesInv, NEW t \in Thresholds, NEW k, NEW r \in Runs, Step(r),
         NEW q \in Runs, q # r
  PROVE  Spent(q, t, k)' = Spent(q, t, k)
<1>1. /\ phase'[q] = phase[q] /\ attempt'[q] = attempt[q] /\ todo'[q] = todo[q]
      /\ current'[q] = current[q]
  BY OtherRunsStay
<1>2. IdsOf(current[q])' = IdsOf(current[q])
  BY <1>1 DEF IdsOf
<1>3. Ahead(q, t, k)' = Ahead(q, t, k)
  BY <1>1, <1>2 DEF Ahead
<1>4. Pending(q, t, k)' = Pending(q, t, k)
  BY <1>1, <1>3 DEF Pending, Running, Times
<1> QED BY <1>1, <1>4 DEF Spent, Times

\* So no step queues a copy that no run pays for.
LEMMA CopiesStep == Inv /\ TimesInv /\ CopiesInv /\ [Next]_vars => CopiesInv'
<1> SUFFICES ASSUME Inv, TimesInv, CopiesInv, [Next]_vars, NEW t \in Thresholds,
                    NEW k \in IdsOf(Planned[t])
             PROVE  outbox'[k] <= SumFunctionOnSet([r \in Feeders(t) |-> Spent(r, t, k)'], Feeders(t))
  BY DEF CopiesInv, Planned, IdsOf, Feeders, DryRun, Asked
<1> DEFINE S == Feeders(t)
           g == [r \in S |-> Spent(r, t, k)]
           h == [r \in S |-> Spent(r, t, k)']
<1>1. IsFiniteSet(S)
  BY FeedersAreFinite
<1>2. k \in AllIds
  BY PlannedFacts
<1>3. outbox[k] <= SumFunctionOnSet(g, S)
  BY DEF CopiesInv
<1>4. outbox[k] \in Nat
  BY <1>2 DEF Inv, Shape
<1>5. \A r \in S : g[r] \in Nat
  BY SpentFacts
<1>6. CASE Next
  <2>1. PICK r \in Runs : Step(r)
    BY <1>6 DEF Next, Step
  <2>2. \A q \in S \ {r} : h[q] = g[q]
    BY <2>1, SpentByOthers DEF Feeders
  <2>3. CASE r \in S
    <3>1. SpendsForIt(r, t, k)
      BY <2>1, <2>3, OwnStepSpends
    <3>2. g[r] \in Nat /\ h[r] \in Nat /\ g[r] <= h[r]
      BY <1>5, <2>3, <3>1 DEF SpendsForIt
    <3>3. outbox'[k] # outbox[k] => outbox'[k] = outbox[k] + 1
      BY <3>1 DEF SpendsForIt
    <3>4. outbox'[k] # outbox[k] => g[r] < h[r]
      BY <2>3, <3>1 DEF SpendsForIt
    <3> HIDE DEF g, h, S
    <3>5. \A q \in S : h[q] \in Nat
      BY <1>5, <2>2, <3>2
    <3>6. \A q \in S : g[q] <= h[q]
      BY <1>5, <2>2, <3>2
    <3>7. SumFunctionOnSet(g, S) \in Nat
      BY <1>1, <1>5, SumEquation
    <3>8. SumFunctionOnSet(h, S) \in Nat
      BY <1>1, <3>5, SumEquation
    <3>9. CASE outbox'[k] = outbox[k]
      <4>1. SumFunctionOnSet(g, S) <= SumFunctionOnSet(h, S)
        BY <1>1, <1>5, <3>5, <3>6, SumMonotone
      <4>2. outbox'[k] <= SumFunctionOnSet(h, S)
        BY <1>3, <1>4, <3>7, <3>8, <3>9, <4>1
      <4> QED BY <4>2 DEF h, S
    <3>10. CASE outbox'[k] # outbox[k]
      <4>1. SumFunctionOnSet(g, S) < SumFunctionOnSet(h, S)
        BY <1>1, <1>5, <2>3, <3>4, <3>5, <3>6, <3>10, SumGrows
      <4>2. outbox'[k] <= SumFunctionOnSet(h, S)
        BY <1>3, <1>4, <3>3, <3>7, <3>8, <3>10, <4>1
      <4> QED BY <4>2 DEF h, S
    <3> QED BY <3>9, <3>10
  <2>4. CASE r \notin S
    <3>1. outbox'[k] = outbox[k]
      <4>1. SUFFICES ASSUME outbox'[k] # outbox[k] PROVE FALSE
        OBVIOUS
      <4>2. /\ Publishing(r) /\ ~DryRun(r) /\ current[r] # <<>>
            /\ k \in IdsOf(Batch(current[r]))
        BY <1>2, <2>1, <4>1, QueuesOnlyTheBatch
      <4>3. t \in Asked(r)
        BY <4>2, BatchIsOfHead
      <4> QED BY <2>4, <4>2, <4>3 DEF Feeders
    <3>2. h = g
      BY <2>2, <2>4
    <3> QED BY <1>3, <3>1, <3>2
  <2> QED BY <2>3, <2>4
<1>7. CASE UNCHANGED vars
  <2>1. ASSUME NEW r \in Runs
        PROVE  Spent(r, t, k)' = Spent(r, t, k)
    <3>1. Ahead(r, t, k)' = Ahead(r, t, k)
      BY <1>7 DEF vars, Ahead, IdsOf
    <3> QED BY <1>7, <3>1 DEF vars, Spent, Pending, Running, Times
  <2>2. h = g
    BY <2>1 DEF Feeders
  <2> QED BY <1>3, <1>7, <2>2 DEF vars
<1> QED BY <1>6, <1>7

\* Nothing is queued or spent at first.
LEMMA CopiesInit == Init => TimesInv /\ CopiesInv
<1> SUFFICES ASSUME Init PROVE TimesInv /\ CopiesInv
  OBVIOUS
<1>1. TimesInv
  BY DEF Init, TimesInv, Running
<1>2. ASSUME NEW t \in Thresholds, NEW k \in IdsOf(Planned[t])
      PROVE  outbox[k] <= SumFunctionOnSet([r \in Feeders(t) |-> Spent(r, t, k)], Feeders(t))
  <2> DEFINE S == Feeders(t)
             g == [r \in S |-> Spent(r, t, k)]
  <2>1. Inv
    BY InvInit
  <2>2. \A r \in S : g[r] \in Nat
    BY <1>1, <2>1, SpentFacts
  <2>3. IsFiniteSet(S)
    BY FeedersAreFinite
  <2>4. outbox[k] = 0
    BY PlannedFacts DEF Init
  <2> HIDE DEF g, S
  <2>5. SumFunctionOnSet(g, S) \in Nat
    BY <2>2, <2>3, SumEquation
  <2>6. outbox[k] <= SumFunctionOnSet(g, S)
    BY <2>4, <2>5
  <2> QED BY <2>6 DEF g, S
<1> QED BY <1>1, <1>2 DEF CopiesInv

\* What the runs have spent is at most what CopiesComeFromRuns grants them.
LEMMA CopiesImply == Inv /\ TimesInv /\ CopiesInv => CopiesComeFromRuns
<1> SUFFICES ASSUME Inv, TimesInv, CopiesInv, NEW t \in Thresholds, NEW k \in IdsOf(Planned[t])
             PROVE  outbox[k] <= SumFunction([r \in {r \in Runs : ~DryRun(r) /\ t \in Asked(r)} |->
                                                attempt[r] * Times(t, Requested[r])])
  BY DEF CopiesComeFromRuns
<1> DEFINE S == Feeders(t)
           g == [r \in S |-> Spent(r, t, k)]
           h == [r \in S |-> attempt[r] * Times(t, Requested[r])]
<1>1. IsFiniteSet(S)
  BY FeedersAreFinite
<1>2. \A r \in S : g[r] \in Nat
  BY SpentFacts
<1>3. \A r \in S : h[r] \in Nat
  BY SpentFacts
<1>4. \A r \in S : g[r] <= h[r]
  BY SpentFacts
<1>5. outbox[k] <= SumFunctionOnSet(g, S)
  BY DEF CopiesInv
<1>6. outbox[k] \in Nat
  BY PlannedFacts DEF Inv, Shape
<1>7. SumFunction(h) = SumFunctionOnSet(h, S)
  BY DEF SumFunction
<1> HIDE DEF g, h, S
<1>8. SumFunctionOnSet(g, S) <= SumFunctionOnSet(h, S)
  BY <1>1, <1>2, <1>3, <1>4, SumMonotone
<1>9. SumFunctionOnSet(g, S) \in Nat
  BY <1>1, <1>2, SumEquation
<1>10. SumFunctionOnSet(h, S) \in Nat
  BY <1>1, <1>3, SumEquation
<1>11. outbox[k] <= SumFunction(h)
  BY <1>5, <1>6, <1>7, <1>8, <1>9, <1>10
<1> QED BY <1>11 DEF h, S, Feeders

\* Nor more often than Lambda may invoke them at all.
LEMMA CopiesAreFew ==
  ASSUME Inv, TimesInv, CopiesInv, NEW t \in Thresholds, NEW k \in IdsOf(Planned[t])
  PROVE  LET most == SumFunction([r \in {r \in Runs : ~DryRun(r) /\ t \in Asked(r)} |->
                                    Invocations[r] * Times(t, Requested[r])])
         IN  outbox[k] \in Nat /\ most \in Nat /\ outbox[k] <= most
<1> DEFINE S == Feeders(t)
           g == [r \in S |-> attempt[r] * Times(t, Requested[r])]
           h == [r \in S |-> Invocations[r] * Times(t, Requested[r])]
<1>1. IsFiniteSet(S)
  BY FeedersAreFinite
<1>2. ASSUME NEW r \in S
      PROVE  g[r] \in Nat /\ h[r] \in Nat /\ g[r] <= h[r]
  <2>1. Requested[r] \in Seq(Thresholds)
    BY RunsAssumption DEF Feeders, Asked
  <2> DEFINE a == attempt[r]
             b == Invocations[r]
             n == Times(t, Requested[r])
  <2>2. a \in Nat /\ b \in Nat /\ a <= b
    BY RunsAssumption DEF Inv, PhaseInv, Feeders
  <2>3. n \in Nat
    BY <2>1, TimesFacts
  <2>4. g[r] = a * n /\ h[r] = b * n
    OBVIOUS
  <2> HIDE DEF a, b, n, g, h
  <2>5. a * n \in Nat /\ b * n \in Nat /\ a * n <= b * n
    BY <2>2, <2>3
  <2> QED BY <2>4, <2>5
<1>3. outbox[k] <= SumFunction(g)
  BY CopiesImply DEF CopiesComeFromRuns, Feeders
<1>4. SumFunction(g) = SumFunctionOnSet(g, S) /\ SumFunction(h) = SumFunctionOnSet(h, S)
  BY DEF SumFunction
<1>5. outbox[k] \in Nat
  BY PlannedFacts DEF Inv, Shape
<1> HIDE DEF g, h, S
<1>6. SumFunctionOnSet(g, S) <= SumFunctionOnSet(h, S)
  BY <1>1, <1>2, SumMonotone
<1>7. SumFunctionOnSet(g, S) \in Nat
  BY <1>1, <1>2, SumEquation
<1>8. SumFunctionOnSet(h, S) \in Nat
  BY <1>1, <1>2, SumEquation
<1>9. outbox[k] <= SumFunction(h) /\ SumFunction(h) \in Nat
  BY <1>3, <1>4, <1>5, <1>6, <1>7, <1>8
<1> QED BY <1>5, <1>9 DEF h, S, Feeders

\* The queue holds a reminder no more often than the runs that may queue it
\* were invoked for its threshold: no batch repeats an entry or goes past the
\* end of the plan, a dry run queues nothing, and neither does a threshold
\* nobody asked for (OutboxQueue._batched, DryRunOutbox, handler).
THEOREM CopiesAreBounded == Spec => []CopiesComeFromRuns
BY InvInit, CopiesInit, InvStep, TimesStep, CopiesStep, CopiesImply, PTL DEF Spec

\* What is left of a run, in order of weight: the times Lambda may still invoke
\* it, the invocation at work, its thresholds, the query of the one at hand, and
\* what publish has still to send.
Left(r) ==
  <<Invocations[r] - attempt[r],
    IF Running(r) THEN 1 ELSE 0,
    Len(todo[r]),
    IF Choosing(r) THEN 1 ELSE 0,
    IF Publishing(r) THEN Len(current[r]) ELSE 0>>

Less == {pair \in Nat \X Nat : pair[1] < pair[2]}

\* The order of words over the numbers: nothing descends in it for ever.
Before == LexProductOrdering(Less, Nat, 5)

LEMMA NothingDescendsForEver == IsWellFoundedOn(Before, [1..5 -> Nat])
<1>1. IsWellFoundedOn(Less, Nat)
  <2>1. ASSUME NEW T \in SUBSET Nat, T # {}
        PROVE  \E x \in T : \A y \in T : <<y, x>> \notin Less
    <3> DEFINE good == {n \in Nat : \A m \in 0..n : m \in T => \E x \in T : \A y \in T : ~ y < x}
    <3>1. 0 \in good
      BY <2>1
    <3>2. ASSUME NEW n \in Nat, n \in good
          PROVE  n + 1 \in good
      BY <2>1, <3>2
    <3> HIDE DEF good
    <3>3. \A n \in Nat : n \in good
      BY <3>1, <3>2, Induction
    <3>4. PICK n : n \in T
      BY <2>1
    <3>5. n \in Nat /\ n \in 0..n /\ n \in good
      BY <2>1, <3>3, <3>4
    <3>6. PICK x \in T : \A y \in T : ~ y < x
      BY <3>4, <3>5 DEF good
    <3>7. ASSUME NEW y \in T PROVE <<y, x>> \notin Less
      BY <3>6 DEF Less
    <3> QED BY <3>7
  <2> QED BY <2>1, MinWF
<1> QED BY <1>1, WFLexProductOrdering DEF Before

\* A word comes before another when it is less at the first place they differ.
LEMMA BeforeFacts ==
  ASSUME NEW v \in [1..5 -> Nat], NEW w \in [1..5 -> Nat],
         \/ v[1] < w[1]
         \/ v[1] = w[1] /\ v[2] < w[2]
         \/ v[1] = w[1] /\ v[2] = w[2] /\ v[3] < w[3]
         \/ v[1] = w[1] /\ v[2] = w[2] /\ v[3] = w[3] /\ v[4] < w[4]
         \/ v[1] = w[1] /\ v[2] = w[2] /\ v[3] = w[3] /\ v[4] = w[4] /\ v[5] < w[5]
  PROVE  <<v, w>> \in Before
<1>1. \A j \in 1..5 : v[j] < w[j] => <<v[j], w[j]>> \in Less
  BY DEF Less
<1>2. PICK j \in 1..5 : v[j] < w[j] /\ \A i \in 1..(j - 1) : v[i] = w[i]
  <2>1. 1..(1 - 1) = {} /\ 1..(2 - 1) = {1} /\ 1..(3 - 1) = {1, 2}
        /\ 1..(4 - 1) = {1, 2, 3} /\ 1..(5 - 1) = {1, 2, 3, 4}
    OBVIOUS
  <2> QED BY <2>1
<1> QED BY <1>1, <1>2 DEF Before, LexProductOrdering

\* What is left of a run is told in numbers.
IsLeft(r) ==
  /\ Left(r) \in [1..5 -> Nat]
  /\ Left(r)[1] = Invocations[r] - attempt[r]
  /\ Left(r)[2] = IF Running(r) THEN 1 ELSE 0
  /\ Left(r)[3] = Len(todo[r])
  /\ Left(r)[4] = IF Choosing(r) THEN 1 ELSE 0
  /\ Left(r)[5] = IF Publishing(r) THEN Len(current[r]) ELSE 0

LEMMA LeftFacts == Inv => \A r \in Runs : IsLeft(r)
<1> SUFFICES ASSUME Inv, NEW r \in Runs PROVE IsLeft(r)
  OBVIOUS
<1>1. Invocations[r] - attempt[r] \in Nat
  BY RunsAssumption DEF Inv, PhaseInv
<1>2. Len(todo[r]) \in Nat
  BY LenProperties DEF Inv, Shape
<1>3. Publishing(r) => Len(current[r]) \in Nat
  <2>1. Publishing(r) => current[r] \in Seq(Msgs)
    BY DEF Inv, CurrentInv, Publishing
  <2> QED BY <2>1, LenProperties
<1> DEFINE a == Invocations[r] - attempt[r]
           b == IF Running(r) THEN 1 ELSE 0
           c == Len(todo[r])
           d == IF Choosing(r) THEN 1 ELSE 0
           e == IF Publishing(r) THEN Len(current[r]) ELSE 0
<1>4. a \in Nat /\ b \in Nat /\ c \in Nat /\ d \in Nat /\ e \in Nat
  BY <1>1, <1>2, <1>3
<1>5. Left(r) = <<a, b, c, d, e>>
  BY DEF Left
<1> HIDE DEF a, b, c, d, e
<1>6. /\ <<a, b, c, d, e>> \in [1..5 -> Nat]
      /\ <<a, b, c, d, e>>[1] = a /\ <<a, b, c, d, e>>[2] = b /\ <<a, b, c, d, e>>[3] = c
      /\ <<a, b, c, d, e>>[4] = d /\ <<a, b, c, d, e>>[5] = e
  BY <1>4
<1> QED BY <1>5, <1>6 DEF IsLeft, a, b, c, d, e

LEMMA LeftFactsNext == (Inv)' => (\A r \in Runs : IsLeft(r))'
BY LeftFacts, PTL

\* A batch is never empty: what is left after it is shorter.
LEMMA AfterBatchIsShorter ==
  ASSUME NEW rest \in Seq(Msgs), Len(rest) \in Nat, Len(rest) > 0
  PROVE  AfterBatch(rest) \in Seq(Msgs) /\ Len(AfterBatch(rest)) < Len(rest)
<1> HIDE DEF Msgs
<1> DEFINE b == IF Len(rest) < BatchLimit THEN Len(rest) ELSE BatchLimit
<1>1. b \in 1..Len(rest)
  BY RunsAssumption
<1>2. \A i \in 1..Len(rest) : rest[i] \in Msgs
  BY ElementOfSeq
<1>3. Batch(rest) = SubSeq(rest, 1, b)
  BY DEF Batch
<1> HIDE DEF b
<1>4. Len(Batch(rest)) = b
  <2>1. 1 \in Int /\ b \in Int /\ \A i \in 1..b : rest[i] \in Msgs
    BY <1>1, <1>2
  <2>2. Len(SubSeq(rest, 1, b)) = IF 1 <= b THEN b - 1 + 1 ELSE 0
    BY <2>1, SubSeqProperties
  <2> QED BY <1>1, <1>3, <2>2
<1>5. b + 1 \in Int /\ Len(rest) \in Int /\ \A i \in (b + 1)..Len(rest) : rest[i] \in Msgs
  BY <1>1, <1>2
<1>6. /\ SubSeq(rest, b + 1, Len(rest)) \in Seq(Msgs)
      /\ Len(SubSeq(rest, b + 1, Len(rest))) =
           IF b + 1 <= Len(rest) THEN Len(rest) - (b + 1) + 1 ELSE 0
  BY <1>5, SubSeqProperties
<1>7. AfterBatch(rest) = SubSeq(rest, b + 1, Len(rest))
  BY <1>4 DEF AfterBatch
<1> QED BY <1>1, <1>6, <1>7

\* A step of a run leaves less of it.
LEMMA OwnStepLeavesLess ==
  ASSUME Inv, Inv', NEW r \in Runs, Step(r)
  PROVE  <<Left(r)', Left(r)>> \in Before
<1> DEFINE v == Left(r)'
           w == Left(r)
<1>1. /\ w \in [1..5 -> Nat]
      /\ w[1] = Invocations[r] - attempt[r]
      /\ w[2] = IF Running(r) THEN 1 ELSE 0
      /\ w[3] = Len(todo[r])
      /\ w[4] = IF Choosing(r) THEN 1 ELSE 0
      /\ w[5] = IF Publishing(r) THEN Len(current[r]) ELSE 0
  BY LeftFacts DEF IsLeft
<1>2. /\ v \in [1..5 -> Nat]
      /\ v[1] = Invocations[r] - attempt'[r]
      /\ v[2] = IF Running(r)' THEN 1 ELSE 0
      /\ v[3] = Len(todo'[r])
      /\ v[4] = IF Choosing(r)' THEN 1 ELSE 0
      /\ v[5] = IF Publishing(r)' THEN Len(current'[r]) ELSE 0
  BY LeftFactsNext DEF IsLeft
<1> HIDE DEF v, w
<1>3. Invocations[r] \in Nat /\ attempt[r] \in Nat
  BY RunsAssumption DEF Inv, PhaseInv
<1>4. CASE Start(r)
  <2>1. attempt'[r] = attempt[r] + 1
    BY <1>4 DEF Start, Invoke, Refuse, Inv, PhaseInv
  <2>2. v[1] < w[1]
    <3>1. v[1] = Invocations[r] - (attempt[r] + 1)
      BY <1>2, <2>1
    <3>2. w[1] = Invocations[r] - attempt[r]
      BY <1>1
    <3> QED BY <1>3, <3>1, <3>2
  <2> QED BY <1>1, <1>2, <2>2, BeforeFacts DEF v, w
<1>5. CASE Answer(r) \/ Crash(r)
  <2>1. "gave up" # "running" /\ "raised" # "running" /\ "returned" # "running"
    OBVIOUS
  <2>2. ~Running(r)' /\ attempt' = attempt /\ Running(r)
    BY <1>5, <2>1 DEF Answer, Crash, AnswerPhase, RaisedPhase, Running, Choosing, Inv, Shape
  <2>3. v[1] = w[1] /\ v[2] < w[2]
    BY <1>1, <1>2, <2>2
  <2> QED BY <1>1, <1>2, <2>3, BeforeFacts DEF v, w
<1>6. CASE QueryFails(r) \/ PublishFails(r) \/ Conclude(r)
  <2>1. todo[r] # <<>>
    BY <1>6 DEF QueryFails, PublishFails, Conclude, Publishing, Inv, CurrentInv, MidPlan
  <2>2. attempt' = attempt /\ phase' = phase /\ todo'[r] = Tail(todo[r])
    BY <1>6 DEF QueryFails, PublishFails, Conclude, Break, Inv, Shape
  <2>3. Len(Tail(todo[r])) < Len(todo[r])
    <3>1. todo[r] \in Seq(Thresholds)
      BY DEF Inv, Shape
    <3> QED BY <2>1, <3>1
  <2>4. v[1] = w[1] /\ v[2] = w[2] /\ v[3] < w[3]
    BY <1>1, <1>2, <2>2, <2>3 DEF Running
  <2> QED BY <1>1, <1>2, <2>4, BeforeFacts DEF v, w
<1>7. CASE Generate(r)
  <2>1. Choosing(r) /\ current'[r] = PlanOf(r) /\ current[r] = NotPublishing
    BY <1>7 DEF Generate, Choosing, PlanOf, Inv, CurrentInv
  <2>2. attempt' = attempt /\ phase' = phase /\ todo' = todo
    BY <1>7 DEF Generate
  <2>3. ~Choosing(r)'
    <3>1. PlanOf(r) \in Seq(Msgs)
      BY <1>7, MidPlanFacts DEF Generate, Inv
    <3>2. NotPublishing \notin Seq(Msgs)
      BY RunsAssumption DEF Msgs
    <3> QED BY <2>1, <3>1, <3>2 DEF Choosing
  <2>4. v[1] = w[1] /\ v[2] = w[2] /\ v[3] = w[3] /\ v[4] < w[4]
    BY <1>1, <1>2, <2>1, <2>2, <2>3 DEF Running
  <2> QED BY <1>1, <1>2, <2>4, BeforeFacts DEF v, w
<1>8. CASE PublishBatch(r) \/ PublishNothing(r)
  <2>1. Publishing(r) /\ current[r] # <<>> /\ attempt' = attempt /\ phase' = phase /\ todo' = todo
    BY <1>8 DEF PublishBatch, PublishNothing
  <2>2. current[r] \in Seq(Msgs) /\ NotPublishing \notin Seq(Msgs)
    BY <2>1, RunsAssumption DEF Inv, CurrentInv, Publishing, Msgs
  <2>3. Len(current[r]) \in Nat /\ Len(current[r]) > 0
    <3> HIDE DEF Msgs
    <3> QED BY <2>1, <2>2, LenProperties, EmptySeq
  <2>4. Publishing(r)' /\ Len(current'[r]) < Len(current[r])
    <3>1. CASE PublishNothing(r)
      <4>1. current'[r] = <<>>
        BY <3>1 DEF PublishNothing, Inv, CurrentInv
      <4>2. <<>> \in Seq(Msgs) /\ Len(<<>>) = 0
        BY EmptySeq
      <4> QED BY <2>1, <2>2, <2>3, <4>1, <4>2 DEF Publishing, Running
    <3>2. CASE PublishBatch(r)
      <4>1. current'[r] = AfterBatch(current[r])
        BY <3>2 DEF PublishBatch, Inv, CurrentInv
      <4>2. AfterBatch(current[r]) \in Seq(Msgs)
            /\ Len(AfterBatch(current[r])) < Len(current[r])
        BY <2>2, <2>3, AfterBatchIsShorter
      <4> QED BY <2>1, <2>2, <4>1, <4>2 DEF Publishing, Running
    <3> QED BY <1>8, <3>1, <3>2
  <2>5. v[1] = w[1] /\ v[2] = w[2] /\ v[3] = w[3] /\ v[4] = w[4] /\ v[5] < w[5]
    BY <1>1, <1>2, <2>1, <2>4 DEF Running, Choosing, Publishing
  <2> QED BY <1>1, <1>2, <2>5, BeforeFacts DEF v, w
<1> QED BY <1>4, <1>5, <1>6, <1>7, <1>8 DEF Step, Handle, Failure

\* It leaves as much as there was of the others.
LEMMA RunGivesWay ==
  ASSUME Inv, Inv', NEW r \in Runs, Step(r)
  PROVE  /\ <<Left(r)', Left(r)>> \in Before
         /\ \A q \in Runs \ {r} : Left(q)' = Left(q)
<1>1. <<Left(r)', Left(r)>> \in Before
  BY OwnStepLeavesLess
<1>2. ASSUME NEW q \in Runs, q # r
      PROVE  Left(q)' = Left(q)
  <2>1. /\ phase'[q] = phase[q] /\ attempt'[q] = attempt[q] /\ todo'[q] = todo[q]
        /\ current'[q] = current[q]
    BY <1>2, OtherRunsStay
  <2> QED BY <2>1 DEF Left, Running, Choosing, Publishing
<1> QED BY <1>1, <1>2

\* No run goes on for ever: every step of one leaves less of it, in an order in
\* which nothing descends for ever, and as much as there was of every other.
\* However its thresholds break, its entries are rejected, its invocations die
\* and are retried, and other runs overlap with it, it ends (the loop and the
\* batches of the handler and OutboxQueue.publish, Lambda's limit on retries).
THEOREM EveryRunEnds ==
  /\ IsWellFoundedOn(Before, [1..5 -> Nat])
  /\ Spec => [][\E r \in Runs : /\ <<Left(r)', Left(r)>> \in Before
                                /\ \A q \in Runs \ {r} : Left(q)' = Left(q)]_vars
<1>1. Inv /\ Inv' /\ [Next]_vars =>
        [\E r \in Runs : /\ <<Left(r)', Left(r)>> \in Before
                         /\ \A q \in Runs \ {r} : Left(q)' = Left(q)]_vars
  BY RunGivesWay DEF Next, Step
<1>2. Spec => [][\E r \in Runs : /\ <<Left(r)', Left(r)>> \in Before
                                 /\ \A q \in Runs \ {r} : Left(q)' = Left(q)]_vars
  BY <1>1, InvInit, InvStep, PTL DEF Spec
<1> QED BY <1>2, NothingDescendsForEver
=============================================================================
