-------------------------- MODULE DeploymentProofs --------------------------
(***************************************************************************)
(* Proofs about the loader, for any number of loads, phones and failures,  *)
(* and about the first deployment it is part of, for any loads besides its *)
(* own, any failures, and any order in which CloudFormation creates the    *)
(* resources.  Those about the loader use DatabaseLoader alone, and so     *)
(* hold of it with or without its stack.                                   *)
(***************************************************************************)
EXTENDS Deployment, FiniteSetTheorems, TLAPS

\* The open transaction has rewritten no more cases than there are, and a
\* load has one open only while it is about to rewrite or commit.
TransactionInv ==
  /\ rewritten \in 0..3
  /\ writer \in Loads \cup {Nobody}

WholeInv == TransactionInv /\ LadderIsWhole

\* Pointing all three cases at a number points the whole ladder at it.
LEMMA PointedWhole ==
  ASSUME NEW number PROVE Pointed(number, Len(Ladder)) = [lead \in Leads |-> number]
<1>1. Len(Ladder) = 3 /\ Ladder[1] = 7 /\ Ladder[2] = 3 /\ Ladder[3] = 1
  BY DEF Ladder
<1>2. ASSUME NEW lead \in Leads PROVE \E i \in 1..Len(Ladder) : Ladder[i] = lead
  <2>1. lead = 7 \/ lead = 3 \/ lead = 1
    BY DEF Leads
  <2> QED BY <2>1, <1>1
<1> QED BY <1>2 DEF Pointed

\* A ladder that is one number throughout is whole, and so is one nobody touched.
LEMMA WholeLadders ==
  ASSUME \/ \E number : ladder' = [lead \in Leads |-> number]
         \/ LadderIsWhole /\ UNCHANGED ladder
  PROVE  LadderIsWhole'
BY DEF LadderIsWhole

\* Rolling back leaves no open transaction, or somebody else's.
LEMMA RollBackKeeps ==
  ASSUME NEW l \in Loads, TransactionInv, RollBack(l) PROVE TransactionInv'
BY DEF TransactionInv, RollBack, update

\* The ladder is whole at first ...
LEMMA WholeInit == Init => WholeInv
BY DEF Init, WholeInv, TransactionInv, LadderIsWhole

\* ... and every step leaves it whole.
LEMMA WholeStep == WholeInv /\ [Next]_vars => WholeInv'
<1> SUFFICES ASSUME WholeInv, [Next]_vars PROVE WholeInv'
  OBVIOUS
<1> USE DEF WholeInv
<1>0. Len(Ladder) = 3
  BY DEF Ladder
<1>1. CASE UNCHANGED vars
  BY <1>1, WholeLadders DEF vars, update, TransactionInv
<1>2. ASSUME NEW l \in Loads, Start(l) PROVE WholeInv'
  BY <1>2, WholeLadders DEF Start, Invoke, RefusePhone, update, TransactionInv
<1>3. ASSUME NEW l \in Loads, Handle(l) PROVE WholeInv'
  <2>1. CASE Load(l)
    BY <2>1, WholeLadders DEF Load, Loaded, update, TransactionInv
  <2>2. CASE Rewrite(l)
    <3>1. TransactionInv'
      BY <2>2, <1>0 DEF Rewrite, TransactionInv
    <3> QED BY <3>1, <2>2, WholeLadders DEF Rewrite
  <2>3. CASE CommitPhone(l)
    <3>1. ladder' = [lead \in Leads |-> Number(l)]
      BY <2>3, PointedWhole DEF CommitPhone
    <3> QED BY <3>1, <2>3, WholeLadders DEF CommitPhone, TransactionInv
  <2>4. CASE Count(l) \/ Return(l) \/ Respond(l)
    BY <2>4, WholeLadders DEF Count, Return, Respond, update, TransactionInv
  <2> QED BY <1>3, <2>1, <2>2, <2>3, <2>4 DEF Handle
<1>4. ASSUME NEW l \in Loads, Failure(l) PROVE WholeInv'
  <2>1. CASE LoadFails(l)
    BY <2>1, WholeLadders DEF LoadFails, Loaded, update, TransactionInv
  <2>2. CASE PhoneFails(l)
    <3>1. ladder' = [lead \in Leads |-> Number(l)] \/ UNCHANGED ladder
      BY <2>2, PointedWhole DEF PhoneFails
    <3>2. TransactionInv'
      BY <2>2, RollBackKeeps DEF PhoneFails
    <3> QED BY <3>1, <3>2, WholeLadders
  <2>3. CASE CountFails(l) \/ PutFails(l)
    BY <2>3, WholeLadders DEF CountFails, PutFails, update, TransactionInv
  <2>4. CASE Crash(l)
    <3>1. TransactionInv'
      BY <2>4, RollBackKeeps DEF Crash
    <3> QED BY <3>1, <2>4, WholeLadders DEF Crash
  <2> QED BY <1>4, <2>1, <2>2, <2>3, <2>4 DEF Failure
<1> QED BY <1>1, <1>2, <1>3, <1>4 DEF Next

\* No interleaving of loads, failures and retries leaves a number on part of
\* the reminder ladder: use_test_phone's UPDATEs are seen together or not at
\* all, and load_fixtures takes the number off every case.
THEOREM LadderStaysWhole == Spec => []LadderIsWhole
<1>1. WholeInv => LadderIsWhole
  BY DEF WholeInv
<1> QED BY WholeInit, WholeStep, <1>1, PTL DEF Spec

-----------------------------------------------------------------------------
(* What each load has done so far.                                         *)

TypeInv ==
  /\ stage \in [Loads -> Stages]
  /\ attempt \in [Loads -> Nat]
  /\ ladder \in [Leads -> Dialable \cup {Reserved}]
  /\ TransactionInv
  /\ seeded \subseteq Loads
  /\ answers \in [Loads -> Seq({"SUCCESS", "FAILED"})]
  /\ faults \in Nat /\ faults <= MaxFaults
  /\ silent \in Nat /\ silent <= faults

\* No invocation is under way for l.
Resting(l) == stage[l] \in {"waiting", "done", "raised", "gave up"}

\* Retries stay within their limit, and only a load with a number that can be
\* dialled, which is never CloudFormation's or the schedule's, rewrites the
\* ladder; whatever gets past loading has loaded; and CloudFormation has heard
\* of every invocation but the one under way.
LoadInv(l) ==
  /\ attempt[l] <= Invocations[l]
  /\ stage[l] \in {"waiting", "raised"} => attempt[l] < Invocations[l]
  /\ stage[l] # "waiting" => attempt[l] > 0
  /\ stage[l] \in {"load", "phone"} => Number(l) # Unusable /\ Kind[l] # "Delete"
  /\ stage[l] = "phone" => Number(l) # NoPhone
  /\ writer = l => stage[l] = "phone"
  /\ Kind[l] = "Delete" => l \notin seeded
  /\ Kind[l] # "Delete" /\ stage[l] \in {"phone", "count", "answer"} => l \in seeded
  /\ FromCloudFormation(l) /\ silent = 0 =>
       IF Resting(l) THEN attempt[l] = Len(answers[l]) ELSE attempt[l] = Len(answers[l]) + 1

LoaderInv == TypeInv /\ NumbersComeByHand /\ \A l \in Loads : LoadInv(l)

\* Only a person's number is ever dialled.
LEMMA NumberType ==
  ASSUME NEW l \in Loads
  PROVE  /\ Number(l) \in Dialable \cup {Unusable, NoPhone}
         /\ Number(l) # NoPhone => Kind[l] = "by hand"
         /\ FromCloudFormation(l) => Number(l) # Unusable
BY LoaderAssumption DEF Number, FromCloudFormation

\* What a load does is no business of the others.
LEMMA Bystander ==
  ASSUME TypeInv, NEW l \in Loads, NEW k \in Loads, k # l, LoadInv(k),
         stage'[k] = stage[k], attempt'[k] = attempt[k], answers'[k] = answers[k],
         k \in seeded' <=> k \in seeded, writer' = k => writer = k, silent' \in Nat,
         silent' >= silent
  PROVE  LoadInv(k)'
<1>1. silent' = 0 => silent = 0
  BY DEF TypeInv
<1> QED
  BY <1>1 DEF LoadInv, Resting, FromCloudFormation, Number

\* A failure is counted.
LEMMA FaultType ==
  ASSUME TypeInv, NEW f, Fault(f)
  PROVE  /\ faults' \in Nat /\ faults' <= MaxFaults
         /\ silent' \in Nat /\ silent' <= faults' /\ silent' >= silent
         /\ f \in {"put", "crash"} => silent' # 0
<1>1. MaxFaults \in Nat
  BY LoaderAssumption
<1>2. silent' = silent \/ silent' = silent + 1
  BY DEF Fault
<1>3. f \in {"put", "crash"} => silent' = silent + 1
  BY DEF Fault
<1> QED
  BY <1>1, <1>2, <1>3 DEF TypeInv, Fault

\* A load moves on alone.
LEMMA GoFacts ==
  ASSUME TypeInv, NEW l \in Loads, NEW s \in Stages, Go(l, s)
  PROVE  /\ stage' \in [Loads -> Stages] /\ stage'[l] = s
         /\ \A k \in Loads : k # l => stage'[k] = stage[k]
BY DEF TypeInv, Go

\* The stages an error leads to.
LEMMA ErrorStages ==
  ASSUME NEW l \in Loads
  PROVE  /\ Raised(l) \in {"raised", "gave up"} /\ Raised(l) \in Stages
         /\ Raised(l) = "raised" => attempt[l] < Invocations[l]
         /\ AfterError(l) = IF FromCloudFormation(l) THEN "report" ELSE Raised(l)
         /\ AfterError(l) \in {"report", "raised", "gave up"} /\ AfterError(l) \in Stages
BY DEF Raised, AfterError, Stages

\* The number a load points the ladder at can be dialled, and is a person's.
LEMMA PhoneNumber ==
  ASSUME NEW l \in Loads, LoadInv(l), stage[l] = "phone"
  PROVE  Number(l) \in Dialable /\ Kind[l] = "by hand" /\ ~FromCloudFormation(l)
<1>1. Number(l) \in Dialable /\ Kind[l] = "by hand"
  BY NumberType DEF LoadInv
<1> QED
  BY <1>1 DEF FromCloudFormation, Requests

\* What a load says is appended to what CloudFormation was told of it.
LEMMA SaidFacts ==
  ASSUME TypeInv, NEW l \in Loads
  PROVE  /\ Said(l) \in [Loads -> Seq({"SUCCESS", "FAILED"})]
         /\ Said(l)[l] = Append(answers[l], IF stage[l] = "answer" THEN "SUCCESS" ELSE "FAILED")
         /\ Len(Said(l)[l]) = Len(answers[l]) + 1 /\ Len(answers[l]) \in Nat
         /\ \A k \in Loads : k # l => Said(l)[k] = answers[k]
<1>1. answers[l] \in Seq({"SUCCESS", "FAILED"})
  BY DEF TypeInv
<1>2. PICK a \in {"SUCCESS", "FAILED"} : a = IF stage[l] = "answer" THEN "SUCCESS" ELSE "FAILED"
  OBVIOUS
<1>3. Said(l) = [answers EXCEPT ![l] = Append(answers[l], a)]
  BY <1>2 DEF Said
<1>4. /\ Append(answers[l], a) \in Seq({"SUCCESS", "FAILED"})
      /\ Len(Append(answers[l], a)) = Len(answers[l]) + 1 /\ Len(answers[l]) \in Nat
  BY <1>1
<1> QED
  BY <1>2, <1>3, <1>4 DEF TypeInv

\* Who rewrites the ladder when l fails.
LEMMA RollBackFacts ==
  ASSUME NEW l \in Loads, RollBack(l)
  PROVE  /\ writer' # l
         /\ \A k \in Loads : writer' = k => writer = k
BY LoaderAssumption DEF RollBack, update

\* Every step of one load keeps the types.
LEMMA TypeStep ==
  ASSUME TypeInv, NEW l \in Loads, LoadInv(l), Start(l) \/ Handle(l) \/ Failure(l)
  PROVE  TypeInv'
<1>0. {"phone", "load", "count", "answer", "report", "done", "raised", "gave up"} \subseteq Stages
  BY DEF Stages
<1>1. CASE Start(l)
  <2>1. stage' \in [Loads -> Stages]
    BY <1>0, <1>1, GoFacts DEF Start, Invoke, RefusePhone
  <2>2. attempt' \in [Loads -> Nat] /\ seeded' \subseteq Loads
    <3>1. attempt' = [attempt EXCEPT ![l] = @ + 1] /\ seeded' \in {seeded, seeded \ {l}}
      BY <1>1 DEF Start, Invoke, RefusePhone
    <3> QED
      BY <3>1 DEF TypeInv
  <2> QED
    BY <1>1, <2>1, <2>2 DEF Start, Invoke, RefusePhone, update, bounds, TypeInv, TransactionInv
<1>2. CASE Load(l)
  <2>1. stage' \in [Loads -> Stages]
    BY <1>0, <1>2, GoFacts DEF Load
  <2> QED
    BY <1>2, <2>1 DEF Load, Loaded, update, bounds, TypeInv, TransactionInv
<1>3. CASE Rewrite(l)
  <2>1. TransactionInv'
    <3>1. Len(Ladder) = 3 /\ TransactionInv
      BY DEF Ladder, TypeInv
    <3> QED
      BY <1>3, <3>1 DEF Rewrite, TransactionInv
  <2> QED
    BY <1>3, <2>1 DEF Rewrite, bounds, TypeInv
<1>4. CASE CommitPhone(l)
  <2>1. stage[l] = "phone" /\ ladder' = [lead \in Leads |-> Number(l)]
    BY <1>4, PointedWhole DEF CommitPhone, LoadInv
  <2>2. Number(l) \in Dialable
    BY <2>1, PhoneNumber
  <2>3. stage' \in [Loads -> Stages]
    BY <1>0, <1>4, GoFacts DEF CommitPhone
  <2> QED
    BY <1>4, <2>1, <2>2, <2>3 DEF CommitPhone, bounds, TypeInv, TransactionInv
<1>5. CASE Count(l) \/ Return(l)
  <2>1. stage' \in [Loads -> Stages]
    BY <1>0, <1>5, GoFacts DEF Count, Return
  <2> QED
    BY <1>5, <2>1 DEF Count, Return, update, bounds, TypeInv, TransactionInv
<1>6. CASE Respond(l)
  <2>1. stage' \in [Loads -> Stages]
    BY <1>0, <1>6, GoFacts, ErrorStages DEF Respond
  <2> QED
    BY <1>6, <2>1, SaidFacts DEF Respond, update, bounds, TypeInv, TransactionInv
<1>7. CASE LoadFails(l)
  <2>1. stage' \in [Loads -> Stages]
    BY <1>7, GoFacts, ErrorStages DEF LoadFails
  <2> QED
    BY <1>7, <2>1, FaultType DEF LoadFails, Loaded, update, TypeInv, TransactionInv
<1>8. CASE PhoneFails(l)
  <2>1. ladder' = [lead \in Leads |-> Number(l)] \/ UNCHANGED ladder
    BY <1>8, PointedWhole DEF PhoneFails
  <2>2. Number(l) \in Dialable
    BY <1>8, PhoneNumber DEF PhoneFails
  <2>3. TransactionInv'
    BY <1>8, RollBackKeeps DEF PhoneFails, TypeInv
  <2>4. stage' \in [Loads -> Stages]
    BY <1>8, GoFacts, ErrorStages DEF PhoneFails
  <2> QED
    BY <1>8, <2>1, <2>2, <2>3, <2>4, FaultType DEF PhoneFails, TypeInv
<1>9. CASE CountFails(l)
  <2>1. stage' \in [Loads -> Stages]
    BY <1>9, GoFacts, ErrorStages DEF CountFails
  <2> QED
    BY <1>9, <2>1, FaultType DEF CountFails, update, TypeInv, TransactionInv
<1>10. CASE PutFails(l)
  <2>1. stage' \in [Loads -> Stages]
    BY <1>10, GoFacts, ErrorStages DEF PutFails
  <2> QED
    BY <1>10, <2>1, FaultType, SaidFacts DEF PutFails, update, TypeInv, TransactionInv
<1>11. CASE Crash(l)
  <2>1. TransactionInv'
    BY <1>11, RollBackKeeps DEF Crash, TypeInv
  <2>2. stage' \in [Loads -> Stages]
    BY <1>11, GoFacts, ErrorStages DEF Crash
  <2> QED
    BY <1>11, <2>1, <2>2, FaultType DEF Crash, TypeInv
<1> QED
  BY <1>1, <1>2, <1>3, <1>4, <1>5, <1>6, <1>7, <1>8, <1>9, <1>10, <1>11 DEF Handle, Failure

\* What a step of l leaves of the others, and the counts it may raise.
Alone(l) ==
  /\ \A k \in Loads : k # l =>
       /\ stage'[k] = stage[k] /\ attempt'[k] = attempt[k] /\ answers'[k] = answers[k]
       /\ k \in seeded' <=> k \in seeded
       /\ writer' = k => writer = k
  /\ silent' >= silent

\* A step of one load leaves the others as they are.
LEMMA AloneStep ==
  ASSUME TypeInv, NEW l \in Loads, Start(l) \/ Handle(l) \/ Failure(l)
  PROVE  Alone(l)
<1>0. /\ {"phone", "load", "count", "answer", "report", "done", "raised", "gave up"} \subseteq Stages
      /\ Nobody \notin Loads
  BY LoaderAssumption DEF Stages
<1>s. silent >= silent
  BY DEF TypeInv
<1>1. CASE Start(l)
  <2>1. /\ \A k \in Loads : k # l => stage'[k] = stage[k]
        /\ attempt' = [attempt EXCEPT ![l] = @ + 1]
        /\ seeded' \in {seeded, seeded \ {l}} /\ UNCHANGED <<answers, writer, silent>>
    BY <1>0, <1>1, GoFacts DEF Start, Invoke, RefusePhone, update, bounds
  <2> QED
    BY <1>s, <2>1 DEF Alone, TypeInv
<1>2. CASE Load(l)
  BY <1>0, <1>s, <1>2, GoFacts DEF Alone, Load, Loaded, update, bounds
<1>3. CASE Rewrite(l)
  BY <1>s, <1>3 DEF Alone, Rewrite, bounds
<1>4. CASE CommitPhone(l)
  BY <1>0, <1>s, <1>4, GoFacts DEF Alone, CommitPhone, bounds
<1>5. CASE Count(l) \/ Return(l)
  BY <1>0, <1>s, <1>5, GoFacts DEF Alone, Count, Return, update, bounds
<1>6. CASE Respond(l)
  <2>1. \A k \in Loads : k # l => stage'[k] = stage[k]
    BY <1>0, <1>6, GoFacts, ErrorStages DEF Respond
  <2> QED
    BY <1>s, <1>6, <2>1, SaidFacts DEF Alone, Respond, update, bounds
<1>7. CASE LoadFails(l)
  BY <1>7, GoFacts, ErrorStages, FaultType DEF Alone, LoadFails, Loaded, update
<1>8. CASE PhoneFails(l)
  BY <1>8, GoFacts, ErrorStages, FaultType, RollBackFacts DEF Alone, PhoneFails
<1>9. CASE CountFails(l)
  BY <1>9, GoFacts, ErrorStages, FaultType DEF Alone, CountFails, update
<1>10. CASE PutFails(l)
  <2>1. \A k \in Loads : k # l => stage'[k] = stage[k]
    BY <1>10, GoFacts, ErrorStages DEF PutFails
  <2> QED
    BY <1>10, <2>1, SaidFacts, FaultType DEF Alone, PutFails, update
<1>11. CASE Crash(l)
  BY <1>11, GoFacts, ErrorStages, FaultType, RollBackFacts DEF Alone, Crash
<1> QED
  BY <1>1, <1>2, <1>3, <1>4, <1>5, <1>6, <1>7, <1>8, <1>9, <1>10, <1>11 DEF Handle, Failure

\* An invocation that ends, or that has an error to report, is within its
\* limit of retries and holds no lock.
LEMMA Ended ==
  ASSUME TypeInv, NEW l \in Loads, LoadInv(l), ~Resting(l),
         attempt' = attempt, writer' # l,
         stage'[l] \in {"report", "done", "raised", "gave up"},
         stage'[l] = "raised" => attempt[l] < Invocations[l],
         Kind[l] = "Delete" => l \notin seeded',
         FromCloudFormation(l) /\ silent' = 0 =>
           IF stage'[l] = "report" THEN attempt[l] = Len(answers'[l]) + 1
           ELSE attempt[l] = Len(answers'[l])
  PROVE  LoadInv(l)'
<1>1. stage[l] # "waiting"
  BY DEF Resting
<1> QED
  BY <1>1 DEF LoadInv, Resting, FromCloudFormation, Number

\* How each step leaves the load it belongs to.
LEMMA OwnLoad ==
  ASSUME TypeInv, TypeInv', NEW l \in Loads, LoadInv(l), Alone(l),
         Start(l) \/ Handle(l) \/ Failure(l)
  PROVE  LoadInv(l)'
<1>0. /\ {"phone", "load", "count", "answer", "report", "done", "raised", "gave up"} \subseteq Stages
      /\ l # Nobody
  BY LoaderAssumption DEF Stages
<1>s. silent' = 0 => silent = 0
  BY DEF Alone, TypeInv
<1>1. CASE Invoke(l)
  <2>1. /\ stage[l] \in {"waiting", "raised"} /\ stage'[l] = IF Kind[l] = "Delete" THEN "answer" ELSE "load"
        /\ attempt'[l] = attempt[l] + 1 /\ l \notin seeded' /\ UNCHANGED <<writer, answers, silent>>
        /\ Number(l) # Unusable
    BY <1>0, <1>1, GoFacts DEF Invoke, update, bounds, TypeInv
  <2>2. attempt[l] \in Nat /\ Invocations[l] \in Nat /\ Len(answers[l]) \in Nat
    BY LoaderAssumption, SaidFacts DEF TypeInv
  <2>9. /\ attempt[l] < Invocations[l]
        /\ FromCloudFormation(l) /\ silent = 0 => attempt[l] = Len(answers[l])
    BY <2>1 DEF LoadInv, Resting
  <2>3. attempt'[l] <= Invocations[l] /\ attempt'[l] > 0
    BY <2>1, <2>2, <2>9
  <2>4. FromCloudFormation(l) /\ silent' = 0 => attempt'[l] = Len(answers'[l]) + 1
    BY <2>1, <2>2, <2>9
  <2> QED
    BY <2>1, <2>3, <2>4 DEF LoadInv, Resting, FromCloudFormation, Number
<1>2. CASE RefusePhone(l)
  <2>1. /\ stage[l] \in {"waiting", "raised"} /\ stage'[l] \in {"raised", "gave up"}
        /\ stage'[l] = "raised" => attempt'[l] < Invocations[l]
        /\ attempt'[l] = attempt[l] + 1 /\ UNCHANGED <<writer, seeded>>
    <3>1. PICK s \in {"raised", "gave up"} : Go(l, s) /\ (s = "raised" => attempt[l] + 1 < Invocations[l])
      BY <1>2 DEF RefusePhone
    <3>2. attempt'[l] = attempt[l] + 1
      BY <1>2 DEF RefusePhone, TypeInv
    <3> QED
      BY <1>0, <1>2, <3>1, <3>2, GoFacts DEF RefusePhone, update
  <2>2. attempt[l] \in Nat /\ Invocations[l] \in Nat
    BY LoaderAssumption DEF TypeInv
  <2>3. ~FromCloudFormation(l) /\ writer # l
    BY <1>2, <2>1, NumberType DEF RefusePhone, LoadInv
  <2>9. attempt[l] < Invocations[l]
    BY <2>1 DEF LoadInv
  <2>4. attempt'[l] <= Invocations[l] /\ attempt'[l] > 0
    <3>1. attempt'[l] = attempt[l] + 1
      BY <2>1
    <3> QED
      BY <2>2, <2>9, <3>1
  <2> QED
    BY <2>1, <2>3, <2>4 DEF LoadInv, FromCloudFormation, Number
<1>3. CASE Load(l)
  <2>1. /\ stage[l] = "load" /\ stage'[l] = IF Number(l) = NoPhone THEN "count" ELSE "phone"
        /\ l \in seeded' /\ writer' # l /\ UNCHANGED <<attempt, answers, silent>>
    BY <1>0, <1>3, GoFacts DEF Load, Loaded, update, bounds
  <2> QED
    BY <2>1 DEF LoadInv, Resting, FromCloudFormation, Number
<1>4. CASE Rewrite(l)
  <2>1. stage[l] = "phone" /\ UNCHANGED <<stage, attempt, seeded, answers, silent>>
    BY <1>4 DEF Rewrite, bounds
  <2> QED
    BY <2>1 DEF LoadInv, Resting, FromCloudFormation, Number
<1>5. CASE CommitPhone(l)
  <2>1. /\ stage[l] = "phone" /\ stage'[l] = "count" /\ writer' # l
        /\ UNCHANGED <<attempt, seeded, answers, silent>>
    BY <1>0, <1>5, GoFacts DEF CommitPhone, bounds, LoadInv
  <2> QED
    BY <2>1 DEF LoadInv, Resting, FromCloudFormation, Number
<1>6. CASE Count(l)
  <2>1. /\ stage[l] = "count" /\ stage'[l] = "answer"
        /\ UNCHANGED <<attempt, writer, seeded, answers, silent>>
    BY <1>0, <1>6, GoFacts DEF Count, update, bounds
  <2> QED
    BY <2>1 DEF LoadInv, Resting, FromCloudFormation, Number
<1>7. CASE Return(l)
  <2>1. /\ stage[l] = "answer" /\ stage'[l] = "done" /\ ~FromCloudFormation(l)
        /\ UNCHANGED <<attempt, writer, seeded, answers, silent>>
    BY <1>0, <1>7, GoFacts DEF Return, update, bounds
  <2> QED
    BY <2>1, Ended DEF LoadInv, Resting
<1>8. CASE Respond(l)
  <2>1. /\ stage[l] \in {"answer", "report"} /\ stage'[l] \in {"done", "raised", "gave up"}
        /\ stage'[l] = "raised" => attempt[l] < Invocations[l]
        /\ UNCHANGED <<attempt, writer, seeded, silent>>
    BY <1>0, <1>8, GoFacts, ErrorStages DEF Respond, update, bounds
  <2>2. Len(answers'[l]) = Len(answers[l]) + 1 /\ Len(answers[l]) \in Nat
    BY <1>8, SaidFacts DEF Respond
  <2>3. writer # l /\ (Kind[l] = "Delete" => l \notin seeded)
    BY <2>1 DEF LoadInv
  <2>4. FromCloudFormation(l) /\ silent = 0 => attempt[l] = Len(answers[l]) + 1
    BY <2>1 DEF LoadInv, Resting
  <2>5. FromCloudFormation(l) /\ silent' = 0 =>
          stage'[l] # "report" /\ attempt[l] = Len(answers'[l])
    <3>1. stage'[l] # "report"
      BY <2>1
    <3> QED
      BY <2>1, <2>2, <2>4, <3>1
  <2>6. ~Resting(l)
    BY <2>1 DEF Resting
  <2> QED
    BY <2>1, <2>3, <2>5, <2>6, Ended
<1>9. ASSUME NEW f, Fault(f), ~Resting(l), UNCHANGED <<attempt, answers>>, writer' # l,
             Go(l, AfterError(l)), Kind[l] = "Delete" => l \notin seeded'
      PROVE  LoadInv(l)'
  <2>1. /\ stage'[l] = AfterError(l)
        /\ AfterError(l) = IF FromCloudFormation(l) THEN "report" ELSE Raised(l)
        /\ Raised(l) \in {"raised", "gave up"}
        /\ Raised(l) = "raised" => attempt[l] < Invocations[l]
    BY <1>9, GoFacts, ErrorStages
  <2>2. FromCloudFormation(l) /\ silent' = 0 => attempt[l] = Len(answers[l]) + 1
    BY <1>s, <1>9 DEF LoadInv
  <2> QED
    BY <1>9, <2>1, <2>2, Ended
<1>10. CASE LoadFails(l)
  <2>1. ~Resting(l) /\ writer' # l /\ (Kind[l] = "Delete" => l \notin seeded')
    BY <1>0, <1>10 DEF LoadFails, Loaded, update, LoadInv, Resting
  <2> QED
    BY <1>9, <1>10, <2>1 DEF LoadFails
<1>11. CASE PhoneFails(l)
  <2>1. ~Resting(l) /\ writer' # l /\ (Kind[l] = "Delete" => l \notin seeded')
    BY <1>11, RollBackFacts DEF PhoneFails, LoadInv, Resting
  <2> QED
    BY <1>9, <1>11, <2>1 DEF PhoneFails
<1>12. CASE CountFails(l)
  <2>1. ~Resting(l) /\ writer' # l /\ (Kind[l] = "Delete" => l \notin seeded')
    BY <1>12 DEF CountFails, update, LoadInv, Resting
  <2> QED
    BY <1>9, <1>12, <2>1 DEF CountFails
<1>13. ASSUME NEW f \in {"put", "crash"}, Fault(f), ~Resting(l), UNCHANGED <<attempt, seeded>>,
              writer' # l, Go(l, Raised(l))
       PROVE  LoadInv(l)'
  <2>1. /\ stage'[l] \in {"raised", "gave up"}
        /\ stage'[l] = "raised" => attempt[l] < Invocations[l]
    BY <1>13, GoFacts, ErrorStages
  <2>2. silent' # 0
    BY <1>13, FaultType
  <2>3. Kind[l] = "Delete" => l \notin seeded'
    BY <1>13 DEF LoadInv
  <2> QED
    BY <1>13, <2>1, <2>2, <2>3, Ended
<1>14. CASE PutFails(l)
  <2>1. ~Resting(l) /\ writer' # l
    BY <1>14 DEF PutFails, update, LoadInv, Resting
  <2> QED
    BY <1>13, <1>14, <2>1 DEF PutFails
<1>15. CASE Crash(l)
  <2>1. ~Resting(l) /\ writer' # l
    BY <1>15, RollBackFacts DEF Crash, Resting
  <2> QED
    BY <1>13, <1>15, <2>1 DEF Crash
<1> QED
  BY <1>1, <1>2, <1>3, <1>4, <1>5, <1>6, <1>7, <1>8, <1>10, <1>11, <1>12, <1>14, <1>15
     DEF Start, Handle, Failure

\* Whatever else a step does, an invocation that took place took place.
LEMMA AttemptsGrow ==
  ASSUME TypeInv, NEW l \in Loads, Start(l) \/ Handle(l) \/ Failure(l)
  PROVE  \A k \in Loads : attempt[k] > 0 => attempt'[k] > 0
<1>1. attempt' = attempt \/ attempt' = [attempt EXCEPT ![l] = @ + 1]
  BY DEF Start, Handle, Failure, Invoke, RefusePhone, Load, LoadFails, Rewrite, CommitPhone,
     PhoneFails, Count, CountFails, Return, Respond, PutFails, Crash
<1>2. ASSUME NEW k \in Loads, attempt[k] > 0 PROVE attempt'[k] > 0
  <2>1. attempt[k] \in Nat
    BY DEF TypeInv
  <2>2. attempt'[k] = attempt[k] \/ attempt'[k] = attempt[k] + 1
    BY <1>1 DEF TypeInv
  <2> QED
    BY <1>2, <2>1, <2>2
<1> QED
  BY <1>2

\* A number comes onto the ladder only from a load that was run by hand.
LEMMA NumbersStep ==
  ASSUME TypeInv, NumbersComeByHand, NEW l \in Loads, LoadInv(l),
         Start(l) \/ Handle(l) \/ Failure(l)
  PROVE  NumbersComeByHand'
<1>1. CASE ladder' = [lead \in Leads |-> Number(l)] /\ stage[l] = "phone"
  <2>1. Kind[l] = "by hand" /\ attempt[l] > 0
    BY <1>1, PhoneNumber DEF LoadInv
  <2>3. attempt'[l] > 0
    BY <2>1, AttemptsGrow
  <2>4. Number(l)' = Number(l)
    BY DEF Number, FromCloudFormation
  <2> QED
    BY <1>1, <2>1, <2>3, <2>4 DEF NumbersComeByHand
<1>2. CASE ladder' = [lead \in Leads |-> Reserved]
  BY <1>2 DEF NumbersComeByHand
<1>3. CASE UNCHANGED ladder
  <2>1. SUFFICES ASSUME NEW lead \in Leads, ladder[lead] # Reserved
                 PROVE  \E k \in Loads : Kind[k] = "by hand" /\ Number(k) = ladder[lead] /\ attempt'[k] > 0
    BY <1>3 DEF NumbersComeByHand, Number, FromCloudFormation
  <2>2. PICK k \in Loads : Kind[k] = "by hand" /\ Number(k) = ladder[lead] /\ attempt[k] > 0
    BY <2>1 DEF NumbersComeByHand
  <2>4. attempt'[k] > 0
    BY <2>2, AttemptsGrow
  <2> QED
    BY <2>2, <2>4
<1>4. CASE CommitPhone(l)
  BY <1>1, <1>4, PointedWhole DEF CommitPhone, LoadInv
<1>5. CASE PhoneFails(l)
  BY <1>1, <1>3, <1>5, PointedWhole DEF PhoneFails
<1>6. CASE ~CommitPhone(l) /\ ~PhoneFails(l)
  <2>1. UNCHANGED ladder \/ ladder' = [lead \in Leads |-> Reserved]
    BY <1>6 DEF Start, Handle, Failure, Invoke, RefusePhone, Load, LoadFails, Loaded, Rewrite,
       Count, CountFails, Return, Respond, PutFails, Crash
  <2> QED
    BY <1>2, <1>3, <2>1
<1> QED
  BY <1>4, <1>5, <1>6

\* LoaderInv is inductive.
LEMMA LoaderStep ==
  ASSUME LoaderInv, NEW l \in Loads, Start(l) \/ Handle(l) \/ Failure(l)
  PROVE  LoaderInv'
<1>1. TypeInv /\ NumbersComeByHand /\ \A k \in Loads : LoadInv(k)
  BY DEF LoaderInv
<1>2. TypeInv' /\ NumbersComeByHand' /\ Alone(l)
  BY <1>1, TypeStep, NumbersStep, AloneStep
<1>3. LoadInv(l)'
  BY <1>1, <1>2, OwnLoad
<1>4. ASSUME NEW k \in Loads, k # l PROVE LoadInv(k)'
  BY <1>1, <1>2, <1>4, Bystander DEF Alone, TypeInv
<1> QED
  BY <1>2, <1>3, <1>4 DEF LoaderInv

\* Every step keeps the loader's invariants,
LEMMA LoaderInductive == LoaderInv /\ [Next]_vars => LoaderInv'
<1>1. ASSUME LoaderInv, UNCHANGED vars PROVE LoaderInv'
  BY <1>1 DEF LoaderInv, TypeInv, TransactionInv, NumbersComeByHand, LoadInv, Resting,
     FromCloudFormation, Number, vars, update, bounds
<1> QED
  BY <1>1, LoaderStep DEF Next

\* which hold at first,
LEMMA LoaderInit == Init => LoaderInv
<1> SUFFICES ASSUME Init PROVE LoaderInv
  OBVIOUS
<1>1. TypeInv /\ NumbersComeByHand
  <2>1. MaxFaults \in Nat
    BY LoaderAssumption
  <2>2. 0 <= MaxFaults
    BY <2>1
  <2>3. answers \in [Loads -> Seq({"SUCCESS", "FAILED"})]
    BY DEF Init
  <2> QED
    BY <2>2, <2>3 DEF Init, TypeInv, TransactionInv, NumbersComeByHand, Stages
<1>2. ASSUME NEW l \in Loads PROVE LoadInv(l)
  <2>1. /\ stage[l] = "waiting" /\ attempt[l] = 0 /\ writer # l /\ l \notin seeded
        /\ Len(answers[l]) = 0 /\ Invocations[l] \in Nat \ {0}
    BY LoaderAssumption DEF Init
  <2> QED
    BY <2>1 DEF LoadInv, Resting
<1> QED
  BY <1>1, <1>2 DEF LoaderInv

\* and so always.
LEMMA LoaderCorrect == Spec => []LoaderInv
BY LoaderInit, LoaderInductive, PTL DEF Spec

\* The variables of the loader have their types; no load is tried more often
\* than Lambda tries it.
THEOREM LoaderTypeCorrect == Spec => []TypeOK
<1>1. LoaderInv => TypeOK
  <2> SUFFICES ASSUME LoaderInv PROVE TypeOK
    OBVIOUS
  <2>1. ASSUME NEW l \in Loads PROVE attempt[l] \in 0..Invocations[l]
    <3>1. Invocations[l] \in Nat /\ attempt[l] \in Nat
      BY LoaderAssumption DEF LoaderInv, TypeInv
    <3>2. attempt[l] <= Invocations[l]
      BY DEF LoaderInv, LoadInv
    <3> QED
      BY <3>1, <3>2
  <2>2. faults \in 0..MaxFaults /\ silent \in 0..MaxFaults
    <3>1. MaxFaults \in Nat
      BY LoaderAssumption
    <3>2. faults \in Nat /\ silent \in Nat /\ faults <= MaxFaults /\ silent <= faults
      BY DEF LoaderInv, TypeInv
    <3> QED
      BY <3>1, <3>2
  <2>3. Len(Ladder) = 3
    BY DEF Ladder
  <2> QED
    BY <2>1, <2>2, <2>3 DEF LoaderInv, TypeInv, TransactionInv, TypeOK
<1> QED
  BY <1>1, LoaderCorrect, PTL

\* No retry, crash or overlap of loads puts a number on the fixtures that a
\* person did not invoke the loader with: use_test_phone is out of reach of
\* the schedule, of CloudFormation and of a number that cannot be dialled.
THEOREM NumbersComeFromPeople == Spec => []NumbersComeByHand
<1>1. LoaderInv => NumbersComeByHand
  BY DEF LoaderInv
<1> QED
  BY <1>1, LoaderCorrect, PTL

\* Whatever fails short of a dying Lambda or a failing PUT, every invocation
\* CloudFormation asked for answers it exactly once (_seed_and_respond).
THEOREM EveryInvocationAnswers == Spec => []CloudFormationHearsBack
<1>1. LoaderInv => CloudFormationHearsBack
  <2> SUFFICES ASSUME LoaderInv, silent = 0, NEW l \in Loads, FromCloudFormation(l),
                      stage[l] \in {"done", "raised", "gave up"}
               PROVE  Len(answers[l]) = attempt[l]
    BY DEF CloudFormationHearsBack
  <2> QED
    BY DEF LoaderInv, LoadInv, Resting
<1> QED
  BY <1>1, LoaderCorrect, PTL

\* An answer of SUCCESS is the invocation's own: nothing else appends one.
LEMMA HonestStep ==
  ASSUME LoaderInv, Next, NEW l \in Loads
  PROVE  IF Kind[l] = "Delete" THEN l \notin seeded'
         ELSE answers'[l] = Append(answers[l], "SUCCESS") => l \in seeded
<1>1. PICK k \in Loads : Start(k) \/ Handle(k) \/ Failure(k)
  BY DEF Next
<1>2. LoaderInv'
  BY <1>1, LoaderStep
<1>3. Kind[l] = "Delete" => l \notin seeded'
  BY <1>2 DEF LoaderInv, LoadInv
<1>4. ASSUME Kind[l] # "Delete", answers'[l] = Append(answers[l], "SUCCESS")
      PROVE  l \in seeded
  <2>1. answers[l] \in Seq({"SUCCESS", "FAILED"})
    BY DEF LoaderInv, TypeInv
  <2>2. answers'[l] # answers[l]
    <3>1. Len(Append(answers[l], "SUCCESS")) = Len(answers[l]) + 1 /\ Len(answers[l]) \in Nat
      BY <2>1
    <3> QED
      BY <1>4, <3>1
  <2>3. k = l
    BY <1>1, <2>2, AloneStep DEF LoaderInv, Alone
  <2>4. CASE stage[l] = "answer"
    BY <1>4, <2>4 DEF LoaderInv, LoadInv
  <2>5. CASE stage[l] # "answer"
    <3>1. answers' = Said(l)
      BY <1>1, <2>2, <2>3 DEF Start, Handle, Failure, Invoke, RefusePhone, Load, LoadFails, Rewrite,
         CommitPhone, PhoneFails, Count, CountFails, Return, Respond, PutFails, Crash
    <3>2. answers'[l] = Append(answers[l], "FAILED")
      BY <2>5, <3>1, SaidFacts DEF LoaderInv
    <3>3. /\ Append(answers[l], "FAILED")[Len(answers[l]) + 1] = "FAILED"
          /\ Append(answers[l], "SUCCESS")[Len(answers[l]) + 1] = "SUCCESS"
      BY <2>1
    <3> QED
      BY <1>4, <3>2, <3>3
  <2> QED
    BY <2>4, <2>5
<1> QED
  BY <1>3, <1>4

\* CloudFormation hears SUCCESS of a Create or an Update only from an
\* invocation that committed the tables, and a Delete leaves them alone.
THEOREM AnswersStayHonest == Spec => AnswersAreHonest
<1>1. LoaderInv /\ [Next]_vars =>
      [\A l \in Loads :
         IF Kind[l] = "Delete" THEN l \notin seeded'
         ELSE answers'[l] = Append(answers[l], "SUCCESS") => l \in seeded]_vars
  BY HonestStep
<1> QED
  BY <1>1, LoaderCorrect, PTL DEF Spec, AnswersAreHonest

-----------------------------------------------------------------------------
(* Every load comes to an end.                                             *)

\* The steps an invocation has at most before it ends.
StageLeft(l) ==
  CASE stage[l] = "load"   -> 8
    [] stage[l] = "phone"  -> 7 - (IF writer = l THEN rewritten ELSE 0)
    [] stage[l] = "count"  -> 3
    [] stage[l] = "answer" -> 2
    [] stage[l] = "report" -> 1
    [] OTHER               -> 0

\* The steps that l has at most: those of the invocation, and nine for each
\* one Lambda has left.
StepsLeft(l) == 9 * (Invocations[l] - attempt[l]) + StageLeft(l)

LEMMA StageLeftType == TypeInv => \A l \in Loads : StageLeft(l) \in 0..8
<1> SUFFICES ASSUME TypeInv, NEW l \in Loads PROVE StageLeft(l) \in 0..8
  OBVIOUS
<1>1. rewritten \in 0..3
  BY DEF TypeInv, TransactionInv
<1> QED
  BY <1>1 DEF StageLeft

LEMMA StageLeftTypeNext == (TypeInv)' => (\A l \in Loads : StageLeft(l) \in 0..8)'
BY StageLeftType, PTL

LEMMA StepsLeftType ==
  ASSUME LoaderInv, NEW l \in Loads PROVE StepsLeft(l) \in 0..9 * Invocations[l]
<1>1. attempt[l] \in Nat /\ attempt[l] <= Invocations[l] /\ (stage[l] # "waiting" => attempt[l] > 0)
  BY DEF LoaderInv, LoadInv, TypeInv
<1>2. Invocations[l] \in Nat
  BY LoaderAssumption
<1>3. StageLeft(l) \in 0..8
  BY StageLeftType DEF LoaderInv
<1>4. stage[l] = "waiting" => StageLeft(l) = 0
  BY DEF StageLeft
<1> QED
  BY <1>1, <1>2, <1>3, <1>4 DEF StepsLeft

\* A step that starts no invocation brings the one under way nearer its end.
LEMMA InvocationShortens ==
  ASSUME LoaderInv, NEW l \in Loads, Handle(l) \/ Failure(l)
  PROVE  attempt' = attempt /\ StageLeft(l)' < StageLeft(l)
<1>0. /\ TypeInv /\ LoadInv(l) /\ l # Nobody
      /\ {"phone", "load", "count", "answer", "report", "done", "raised", "gave up"} \subseteq Stages
  BY LoaderAssumption DEF LoaderInv, TypeInv, Stages
<1>a. attempt' = attempt
  BY DEF Handle, Failure, Load, LoadFails, Rewrite, CommitPhone, PhoneFails, Count, CountFails,
     Return, Respond, PutFails, Crash
<1>b. rewritten \in 0..3
  BY <1>0 DEF TypeInv, TransactionInv
<1> DEFINE left == StageLeft(l)
           then == StageLeft(l)'
<1>c. /\ stage[l] = "load" => left = 8
      /\ stage[l] = "phone" => left = 7 - (IF writer = l THEN rewritten ELSE 0)
      /\ stage[l] = "count" => left = 3
      /\ stage[l] = "answer" => left = 2
      /\ stage[l] = "report" => left = 1
  BY DEF StageLeft
<1>d. /\ stage'[l] = "phone" => then = 7 - (IF writer' = l THEN rewritten' ELSE 0)
      /\ stage'[l] = "count" => then = 3
      /\ stage'[l] = "answer" => then = 2
      /\ stage'[l] = "report" => then = 1
      /\ stage'[l] \in {"done", "raised", "gave up"} => then = 0
  BY DEF StageLeft
<1> HIDE DEF left, then
<1>e. stage[l] = "phone" => left \in 4..7
  <2>1. ASSUME stage[l] = "phone", writer = l PROVE left \in 4..7
    <3>1. left = 7 - rewritten
      BY <1>c, <2>1
    <3> QED
      BY <1>b, <3>1
  <2>2. ASSUME stage[l] = "phone", writer # l PROVE left \in 4..7
    BY <1>c, <2>2
  <2> QED
    BY <2>1, <2>2
<1>1. CASE Load(l)
  <2>1. stage'[l] \in {"count", "phone"} /\ stage[l] = "load" /\ writer' # l
    BY <1>0, <1>1, GoFacts DEF Load, Loaded, update
  <2>2. left = 8
    BY <1>c, <2>1
  <2>3. stage'[l] = "phone" => then = 7
    BY <1>d, <2>1
  <2>4. then = 3 \/ then = 7
    BY <1>d, <2>1, <2>3
  <2>5. then < left
    BY <2>2, <2>4
  <2> QED
    BY <1>a, <2>5 DEF left, then
<1>2. CASE Rewrite(l)
  <2>1. /\ stage[l] = "phone" /\ stage'[l] = "phone" /\ writer' = l /\ rewritten' = rewritten + 1
        /\ writer \in {Nobody, l}
    BY <1>2 DEF Rewrite
  <2>2. then = 7 - (rewritten + 1)
    BY <1>d, <2>1
  <2>3. left = 7 \/ left = 7 - rewritten
    BY <1>c, <2>1
  <2>4. then < left
    BY <1>b, <2>2, <2>3
  <2> QED
    BY <1>a, <2>4 DEF left, then
<1>3. CASE CommitPhone(l)
  <2>1. stage[l] = "phone" /\ stage'[l] = "count"
    BY <1>0, <1>3, GoFacts DEF CommitPhone, LoadInv
  <2>2. then = 3 /\ left \in 4..7
    BY <1>d, <1>e, <2>1
  <2>3. then < left
    BY <2>2
  <2> QED
    BY <1>a, <2>3 DEF left, then
<1>4. CASE Count(l)
  <2>1. stage[l] = "count" /\ stage'[l] = "answer"
    BY <1>0, <1>4, GoFacts DEF Count
  <2>2. left = 3 /\ then = 2
    BY <1>c, <1>d, <2>1
  <2> QED
    BY <1>a, <2>2 DEF left, then
<1>5. CASE Return(l) \/ Respond(l) \/ PutFails(l)
  <2>1. stage[l] \in {"answer", "report"} /\ stage'[l] \in {"done", "raised", "gave up"}
    BY <1>0, <1>5, GoFacts, ErrorStages DEF Return, Respond, PutFails
  <2>2. left \in {1, 2} /\ then = 0
    BY <1>c, <1>d, <2>1
  <2> QED
    BY <1>a, <2>2 DEF left, then
<1>6. CASE LoadFails(l) \/ PhoneFails(l) \/ CountFails(l)
  <2>1. stage[l] \in {"load", "phone", "count"} /\ stage'[l] \in {"report", "raised", "gave up"}
    BY <1>0, <1>6, GoFacts, ErrorStages DEF LoadFails, PhoneFails, CountFails
  <2>2. left \in 3..8
    <3>1. stage[l] # "phone" => left \in {8, 3}
      BY <1>c, <2>1
    <3> QED
      BY <1>e, <3>1
  <2>3. then \in {0, 1}
    BY <1>d, <2>1
  <2>4. then < left
    BY <2>2, <2>3
  <2> QED
    BY <1>a, <2>4 DEF left, then
<1>7. CASE Crash(l)
  <2>1. /\ stage[l] \in {"load", "phone", "count", "answer", "report"}
        /\ stage'[l] \in {"raised", "gave up"}
    BY <1>0, <1>7, GoFacts, ErrorStages DEF Crash
  <2>2. left \in 1..8
    <3>1. stage[l] # "phone" => left \in {8, 3, 2, 1}
      BY <1>c, <2>1
    <3> QED
      BY <1>e, <3>1
  <2>3. then = 0
    BY <1>d, <2>1
  <2>4. then < left
    BY <2>2, <2>3
  <2> QED
    BY <1>a, <2>4 DEF left, then
<1> QED
  BY <1>1, <1>2, <1>3, <1>4, <1>5, <1>6, <1>7 DEF Handle, Failure

\* Every step of l leaves it fewer,
LEMMA LoadShortens ==
  ASSUME LoaderInv, TypeInv', NEW l \in Loads, Start(l) \/ Handle(l) \/ Failure(l)
  PROVE  StepsLeft(l)' < StepsLeft(l)
<1>0. /\ Invocations[l] \in Nat /\ attempt[l] \in Nat
      /\ StageLeft(l) \in 0..8 /\ StageLeft(l)' \in 0..8
  BY LoaderAssumption, StageLeftType, StageLeftTypeNext DEF LoaderInv, TypeInv
<1>1. CASE Start(l)
  <2>1. stage[l] \in {"waiting", "raised"} /\ attempt'[l] = attempt[l] + 1
    BY <1>1 DEF Start, Invoke, RefusePhone, LoaderInv, TypeInv
  <2>2. StageLeft(l) = 0
    BY <2>1 DEF StageLeft
  <2> QED
    BY <1>0, <2>1, <2>2 DEF StepsLeft
<1>2. CASE Handle(l) \/ Failure(l)
  <2>1. attempt'[l] = attempt[l] /\ StageLeft(l)' < StageLeft(l)
    BY <1>2, InvocationShortens
  <2> QED
    BY <1>0, <2>1 DEF StepsLeft
<1> QED
  BY <1>1, <1>2

\* and the others as many as they had, whatever they hold or wait for.
LEMMA OthersKeepTheirSteps ==
  ASSUME LoaderInv, NEW l \in Loads, Start(l) \/ Handle(l) \/ Failure(l),
         NEW k \in Loads, k # l
  PROVE  StepsLeft(k)' = StepsLeft(k)
<1>1. stage'[k] = stage[k] /\ attempt'[k] = attempt[k] /\ (writer' = k => writer = k)
  BY AloneStep DEF Alone, LoaderInv
<1>2. writer = k => writer' = k /\ rewritten' = rewritten
  <2>1. k # Nobody
    BY LoaderAssumption
  <2> QED
    BY <2>1 DEF Start, Handle, Failure, Invoke, RefusePhone, Load, LoadFails, Loaded, Rewrite,
       CommitPhone, PhoneFails, Count, CountFails, Return, Respond, PutFails, Crash, RollBack,
       update
<1>3. StageLeft(k)' = StageLeft(k)
  BY <1>1, <1>2 DEF StageLeft
<1> QED
  BY <1>1, <1>3 DEF StepsLeft

\* A step of the loader is a step of one load, which has fewer left for it.
LoadStep ==
  \E l \in Loads : /\ StepsLeft(l)' < StepsLeft(l)
                   /\ \A k \in Loads \ {l} : StepsLeft(k)' = StepsLeft(k)

LEMMA NextIsLoadStep == LoaderInv /\ Next => LoadStep
<1> SUFFICES ASSUME LoaderInv, Next PROVE LoadStep
  OBVIOUS
<1>1. PICK l \in Loads : Start(l) \/ Handle(l) \/ Failure(l)
  BY DEF Next
<1>2. TypeInv'
  BY LoaderInductive DEF LoaderInv
<1>3. StepsLeft(l)' < StepsLeft(l)
  BY <1>1, <1>2, LoadShortens
<1>4. \A k \in Loads \ {l} : StepsLeft(k)' = StepsLeft(k)
  BY <1>1, OthersKeepTheirSteps
<1> QED
  BY <1>3, <1>4 DEF LoadStep

\* No load goes on for ever, however its invocations fail and are retried and
\* others run meanwhile: it takes nine steps at most for each time Lambda
\* invokes the loader, each of its steps takes one of them, and nobody else's
\* gives any back (lambda_handler, Lambda's retry_attempts).
THEOREM EveryLoadEnds ==
  /\ Spec => [](\A l \in Loads : StepsLeft(l) \in 0..9 * Invocations[l])
  /\ Spec => [][LoadStep]_vars
<1>1. LoaderInv => \A l \in Loads : StepsLeft(l) \in 0..9 * Invocations[l]
  BY StepsLeftType
<1>2. LoaderInv /\ [Next]_vars => [LoadStep]_vars
  BY NextIsLoadStep
<1>3. Spec => [](\A l \in Loads : StepsLeft(l) \in 0..9 * Invocations[l])
  BY <1>1, LoaderCorrect, PTL
<1>4. Spec => [][LoadStep]_vars
  BY <1>2, LoaderCorrect, PTL DEF Spec
<1> QED
  BY <1>3, <1>4

-----------------------------------------------------------------------------
(* The loader in its stack is the loader.                                  *)

\* Each step of the deployment is one of the loader, or leaves it alone.
LEMMA DeploymentStep == [DeploymentNext]_everything => [Next]_vars
<1> SUFFICES ASSUME [DeploymentNext]_everything PROVE [Next]_vars
  OBVIOUS
<1>1. CASE CloudFormation
  BY <1>1 DEF CloudFormation, Create, Remove, CreateLogs, AskForSeed, HearFromSeed, Complete,
     GiveUpOn, AskToUndo, RolledBack
<1>2. ASSUME NEW l \in Loads, Run(l) \/ Serve(l) \/ Break(l) PROVE Next
  BY <1>2 DEF Run, Serve, Break, Next
<1>3. CASE UNCHANGED everything
  BY <1>3 DEF everything
<1> QED
  BY <1>1, <1>2, <1>3 DEF DeploymentNext

\* Whatever CloudFormation, the network and the log group allow or forbid, the
\* loader does nothing that DatabaseLoader does not say: its theorems hold of
\* every deployment.
THEOREM DeployedLoaderIsTheLoader == DeploymentSpec => Spec
<1>1. DeploymentInit => Init
  BY DEF DeploymentInit
<1> QED
  BY <1>1, DeploymentStep, PTL DEF DeploymentSpec, Spec

-----------------------------------------------------------------------------
(* Types.                                                                  *)

StackInv ==
  /\ made \subseteq DatabaseStack \cup LoaderStack
  /\ phase \in {"creating", "complete", "rolling back", "rolled back", "rollback failed"}
  /\ asked \subseteq {Deploy, Undo}
  /\ logs \in {"nobody", "runtime", "stack"}
  /\ tables \in BOOLEAN

\* Every step keeps the stack well typed.
LEMMA StackStep == StackInv /\ [DeploymentNext]_everything => StackInv'
<1> SUFFICES ASSUME StackInv, [DeploymentNext]_everything PROVE StackInv'
  OBVIOUS
<1>0. {"seed", "loader logs"} \subseteq LoaderStack
  BY DEF LoaderStack
<1>1. ASSUME NEW r \in DatabaseStack \cup LoaderStack, Create(r) \/ Remove(r) PROVE StackInv'
  BY <1>1 DEF Create, Remove, StackInv
<1>2. CASE CreateLogs \/ HearFromSeed
  BY <1>0, <1>2 DEF CreateLogs, HearFromSeed, StackInv
<1>3. CASE AskForSeed \/ Complete \/ AskToUndo \/ RolledBack \/ \E l \in {Deploy, Undo} : GiveUpOn(l)
  BY <1>3 DEF AskForSeed, Complete, AskToUndo, RolledBack, GiveUpOn, StackInv
<1>4. ASSUME NEW l \in Loads, Run(l) PROVE StackInv'
  BY <1>4 DEF Run, StackInv
<1>5. ASSUME NEW l \in Loads, Serve(l) \/ Break(l) PROVE StackInv'
  BY <1>5 DEF Serve, Break, Left, stack, StackInv
<1>6. CASE UNCHANGED everything
  BY <1>6 DEF everything, stack, StackInv
<1> QED
  BY <1>1, <1>2, <1>3, <1>4, <1>5, <1>6 DEF DeploymentNext, CloudFormation

\* The variables of the deployment have their types.
THEOREM DeploymentTypeCorrect == DeploymentSpec => []DeploymentTypeOK
<1>1. DeploymentInit => StackInv
  BY DEF DeploymentInit, StackInv
<1>2. StackInv /\ TypeOK => DeploymentTypeOK
  BY DEF StackInv, DeploymentTypeOK
<1> QED
  BY <1>1, <1>2, StackStep, DeployedLoaderIsTheLoader, LoaderTypeCorrect, PTL DEF DeploymentSpec

-----------------------------------------------------------------------------
(* A created seed means a seeded database.                                 *)

\* Whoever has loaded left tables, and so did whoever told CloudFormation of
\* a success.
SeededInv ==
  /\ seeded # {} => tables
  /\ answers[Deploy] # <<>> /\ Head(answers[Deploy]) = "SUCCESS" => tables
  /\ "seed" \in made => tables

\* The answer that counts is the first, and a success is sent by an invocation
\* that has loaded.
LEMMA FirstAnswer ==
  ASSUME LoaderInv, Next, SeededInv,
         answers'[Deploy] # <<>>, Head(answers'[Deploy]) = "SUCCESS"
  PROVE  tables
<1>0. Deploy \in Loads /\ Kind[Deploy] # "Delete" /\ answers[Deploy] \in Seq({"SUCCESS", "FAILED"})
  BY DeploymentAssumption DEF LoaderInv, TypeInv
<1>1. PICK l \in Loads : Start(l) \/ Handle(l) \/ Failure(l)
  BY DEF Next
<1>2. CASE answers'[Deploy] = answers[Deploy]
  BY <1>2 DEF SeededInv
<1>3. CASE answers'[Deploy] # answers[Deploy]
  <2>1. answers' = Said(l)
    BY <1>1, <1>3 DEF Start, Handle, Failure, Invoke, RefusePhone, Load, LoadFails, Rewrite,
       CommitPhone, PhoneFails, Count, CountFails, Return, Respond, PutFails, Crash
  <2>2. l = Deploy
    BY <1>0, <1>1, <1>3, AloneStep DEF LoaderInv, Alone
  <2>3. PICK a \in {"SUCCESS", "FAILED"} :
          answers'[Deploy] = Append(answers[Deploy], a)
          /\ a = IF stage[Deploy] = "answer" THEN "SUCCESS" ELSE "FAILED"
    BY <1>0, <2>1, <2>2, SaidFacts DEF LoaderInv
  <2>4. CASE answers[Deploy] # <<>>
    <3>1. Head(Append(answers[Deploy], a)) = Head(answers[Deploy])
      BY <1>0, <2>4
    <3> QED
      BY <2>3, <2>4, <3>1 DEF SeededInv
  <2>5. CASE answers[Deploy] = <<>>
    <3>1. Head(Append(<<>>, a)) = a
      OBVIOUS
    <3>2. stage[Deploy] = "answer"
      BY <2>3, <2>5, <3>1
    <3>3. Deploy \in seeded
      BY <1>0, <3>2 DEF LoaderInv, LoadInv
    <3> QED
      BY <3>3 DEF SeededInv
  <2> QED
    BY <2>4, <2>5
<1> QED
  BY <1>2, <1>3

\* Every step keeps what a created seed stands for.
LEMMA SeededStep == LoaderInv /\ SeededInv /\ [DeploymentNext]_everything => SeededInv'
<1> SUFFICES ASSUME LoaderInv, SeededInv, [DeploymentNext]_everything PROVE SeededInv'
  OBVIOUS
<1>1. CASE HearFromSeed
  BY <1>1 DEF HearFromSeed, SeededInv, vars
<1>2. CASE CloudFormation /\ ~HearFromSeed
  <2>1. UNCHANGED <<seeded, answers, tables>> /\ ("seed" \in made' => "seed" \in made)
    <3>1. ASSUME NEW r, Create(r) \/ Remove(r)
          PROVE  UNCHANGED <<seeded, answers, tables>> /\ ("seed" \in made' => "seed" \in made)
      <4>1. UNCHANGED <<vars, tables>>
        BY <3>1 DEF Create, Remove
      <4>2. "seed" \in made' => "seed" \in made
        BY <3>1 DEF Create, Remove
      <4> QED
        BY <4>1, <4>2 DEF vars
    <3>2. CASE CreateLogs \/ AskForSeed \/ Complete \/ AskToUndo \/ RolledBack
      <4>1. UNCHANGED <<vars, tables>>
        BY <3>2 DEF CreateLogs, AskForSeed, Complete, AskToUndo, RolledBack
      <4>2. "seed" \in made' => "seed" \in made
        <5>1. made' = made \/ made' = made \cup {"loader logs"}
          BY <3>2 DEF CreateLogs, AskForSeed, Complete, AskToUndo, RolledBack
        <5>2. "loader logs" # "seed"
          OBVIOUS
        <5> QED
          BY <5>1, <5>2
      <4> QED
        BY <4>1, <4>2 DEF vars
    <3>3. CASE \E l \in {Deploy, Undo} : GiveUpOn(l)
      BY <3>3 DEF GiveUpOn, vars
    <3> QED
      BY <1>2, <3>1, <3>2, <3>3 DEF CloudFormation
  <2> QED
    BY <2>1 DEF SeededInv
<1>3. ASSUME NEW l \in Loads, Run(l) PROVE SeededInv'
  <2>1. seeded' \subseteq seeded /\ UNCHANGED <<answers, made, tables>>
    BY <1>3 DEF Run, Start, Invoke, RefusePhone
  <2> QED
    BY <2>1 DEF SeededInv
<1>4. ASSUME NEW l \in Loads, Serve(l) \/ Break(l) PROVE SeededInv'
  <2>1. Next /\ tables' = (tables \/ seeded' \ seeded # {}) /\ UNCHANGED made
    BY <1>4 DEF Serve, Break, Left, Next, stack
  <2>2. seeded' # {} => tables'
    BY <2>1 DEF SeededInv
  <2>3. answers'[Deploy] # <<>> /\ Head(answers'[Deploy]) = "SUCCESS" => tables'
    BY <2>1, FirstAnswer
  <2> QED
    BY <2>1, <2>2, <2>3 DEF SeededInv
<1>5. CASE UNCHANGED everything
  BY <1>5 DEF everything, vars, stack, SeededInv
<1> QED
  BY <1>1, <1>2, <1>3, <1>4, <1>5 DEF DeploymentNext

\* A stack whose seed counts as created stands beside a database with tables
\* in it, whatever was retried, lost or raced (_seed_and_respond).
THEOREM CreatedMeansSeeded == DeploymentSpec => []StackIsSeeded
<1>1. DeploymentInit => LoaderInv /\ SeededInv
  <2>1. DeploymentInit => SeededInv
    BY DeploymentAssumption DEF DeploymentInit, Init, SeededInv
  <2> QED
    BY <2>1, LoaderInit DEF DeploymentInit
<1>2. LoaderInv /\ SeededInv /\ [DeploymentNext]_everything => (LoaderInv /\ SeededInv)'
  BY SeededStep, DeploymentStep, LoaderInductive
<1>3. SeededInv => StackIsSeeded
  BY DEF SeededInv, StackIsSeeded
<1> QED
  BY <1>1, <1>2, <1>3, PTL DEF DeploymentSpec

-----------------------------------------------------------------------------
(* The log group.                                                          *)

\* While the stack is being created, its own request comes after its log group.
LogsInv ==
  /\ asked \subseteq {Deploy, Undo}
  /\ "loader logs" \in made => logs = "stack"
  /\ phase = "creating" => Undo \notin asked /\ (Deploy \in asked => "loader logs" \in made)
  /\ OnlyOthersTakeTheLogGroup

\* A load that has run has run.
LEMMA NeverWaitsAgain ==
  ASSUME TypeInv, NEW l \in Loads, Start(l) \/ Handle(l) \/ Failure(l)
  PROVE  stage'[l] # "waiting" /\ \A k \in Loads : k # l => stage'[k] = stage[k]
<1>0. {"phone", "load", "count", "answer", "report", "done", "raised", "gave up"} \subseteq Stages
  BY DEF Stages
<1>1. CASE Rewrite(l)
  BY <1>1 DEF Rewrite
<1>2. CASE CommitPhone(l)
  BY <1>0, <1>2, GoFacts DEF CommitPhone
<1>3. CASE ~Rewrite(l) /\ ~CommitPhone(l)
  <2>1. \E s \in {"phone", "load", "count", "answer", "report", "done", "raised", "gave up"} : Go(l, s)
    BY <1>3, ErrorStages DEF Start, Handle, Failure, Invoke, RefusePhone, Load, LoadFails,
       PhoneFails, Count, CountFails, Return, Respond, PutFails, Crash
  <2> QED
    BY <1>0, <2>1, GoFacts
<1> QED
  BY <1>1, <1>2, <1>3

\* Every step keeps what is known of the log group.
LEMMA LogsStep == LoaderInv /\ LogsInv /\ [DeploymentNext]_everything => LogsInv'
<1> SUFFICES ASSUME LoaderInv, LogsInv, [DeploymentNext]_everything PROVE LogsInv'
  OBVIOUS
<1>1. CASE CreateLogs
  BY <1>1 DEF CreateLogs, LogsInv, OnlyOthersTakeTheLogGroup, FromCloudFormation
<1>2. CASE AskForSeed
  <2>1. /\ "loader logs" \in made /\ asked' = asked \cup {Deploy} /\ Deploy # Undo
        /\ UNCHANGED <<vars, made, phase, logs>>
    BY <1>2, DeploymentAssumption DEF AskForSeed, Ready, DependsOn, ToldToAwait
  <2> QED
    BY <2>1 DEF LogsInv, OnlyOthersTakeTheLogGroup, FromCloudFormation, vars
<1>3. ASSUME NEW r, Create(r) PROVE LogsInv'
  BY <1>3 DEF Create, LogsInv, OnlyOthersTakeTheLogGroup, FromCloudFormation, vars
<1>4. ASSUME NEW r, Remove(r) PROVE LogsInv'
  <2>1. /\ phase = "rolling back" /\ made' = made \ {r} /\ UNCHANGED <<phase, asked>>
        /\ logs' = IF r = "loader logs" THEN "nobody" ELSE logs
    BY <1>4 DEF Remove
  <2>2. "loader logs" \in made' => logs' = "stack"
    BY <2>1 DEF LogsInv
  <2> QED
    BY <2>1, <2>2 DEF LogsInv, OnlyOthersTakeTheLogGroup
<1>5. CASE HearFromSeed \/ Complete \/ AskToUndo \/ RolledBack \/ \E l \in {Deploy, Undo} : GiveUpOn(l)
  <2>1. /\ UNCHANGED <<vars, logs>> /\ made' \in {made, made \cup {"seed"}}
        /\ phase' = "creating" => phase = "creating" /\ asked' = asked
        /\ asked' \in {asked, asked \cup {Undo}}
    BY <1>5 DEF HearFromSeed, Complete, AskToUndo, RolledBack, GiveUpOn
  <2> QED
    BY <2>1 DEF LogsInv, OnlyOthersTakeTheLogGroup, FromCloudFormation, vars
<1>6. ASSUME NEW l \in Loads, Run(l) PROVE LogsInv'
  <2>1. /\ UNCHANGED <<made, phase, asked>>
        /\ logs' = IF logs = "nobody" THEN "runtime" ELSE logs
        /\ FromCloudFormation(l) => l \in asked
    BY <1>6 DEF Run, Sent
  <2>2. stage'[l] # "waiting" /\ \A k \in Loads : k # l => stage'[k] = stage[k]
    BY <1>6, NeverWaitsAgain DEF Run, LoaderInv
  <2>3. OnlyOthersTakeTheLogGroup'
    <3> SUFFICES ASSUME phase = "creating", logs' = "runtime"
                 PROVE  \E k \in Loads : ~FromCloudFormation(k) /\ stage'[k] # "waiting"
      BY <2>1 DEF OnlyOthersTakeTheLogGroup, FromCloudFormation
    <3>1. CASE logs = "runtime"
      BY <2>2, <3>1 DEF LogsInv, OnlyOthersTakeTheLogGroup
    <3>2. CASE logs = "nobody"
      <4>1. l \notin asked
        BY <2>1, <3>2 DEF LogsInv
      <4> QED
        BY <2>1, <2>2, <4>1
    <3> QED
      BY <2>1, <3>1, <3>2
  <2> QED
    BY <2>1, <2>3 DEF LogsInv
<1>7. ASSUME NEW l \in Loads, Serve(l) \/ Break(l) PROVE LogsInv'
  <2>1. UNCHANGED stack /\ (Start(l) \/ Handle(l) \/ Failure(l))
    BY <1>7 DEF Serve, Break
  <2>2. stage'[l] # "waiting" /\ \A k \in Loads : k # l => stage'[k] = stage[k]
    BY <2>1, NeverWaitsAgain DEF LoaderInv
  <2> QED
    BY <2>1, <2>2 DEF stack, LogsInv, OnlyOthersTakeTheLogGroup, FromCloudFormation
<1>8. CASE UNCHANGED everything
  BY <1>8 DEF everything, vars, stack, LogsInv, OnlyOthersTakeTheLogGroup, FromCloudFormation
<1> QED
  BY <1>1, <1>2, <1>3, <1>4, <1>5, <1>6, <1>7, <1>8 DEF DeploymentNext, CloudFormation

\* The deploy cannot fail on a log group that its own seed made the runtime
\* create, however the loads run (_seed_database's add_dependency).
THEOREM OwnSeedLeavesTheLogGroup == DeploymentSpec => []OnlyOthersTakeTheLogGroup
<1>1. DeploymentInit => LoaderInv /\ LogsInv
  <2>1. DeploymentInit => LogsInv
    BY DEF DeploymentInit, LogsInv, OnlyOthersTakeTheLogGroup
  <2> QED
    BY <2>1, LoaderInit DEF DeploymentInit
<1>2. LoaderInv /\ LogsInv /\ [DeploymentNext]_everything => (LoaderInv /\ LogsInv)'
  BY LogsStep, DeploymentStep, LoaderInductive
<1>3. LogsInv => OnlyOthersTakeTheLogGroup
  BY DEF LogsInv
<1> QED
  BY <1>1, <1>2, <1>3, PTL DEF DeploymentSpec

-----------------------------------------------------------------------------
(* The deployment comes to an end, and the loader is in it what it is      *)
(* alone.                                                                  *)

Resources == DatabaseStack \cup LoaderStack

LEMMA FiniteResources == IsFiniteSet(Resources)
<1> DEFINE a == {"vpc", "client group", "credentials", "database", "port open"}
           b == {"secrets endpoint", "s3 endpoint", "sqs endpoint", "credentials attached"}
           c == {"loader", "loader logs", "seed", "weekly rule"}
<1>1. ASSUME NEW p, NEW q, NEW r, NEW s PROVE IsFiniteSet({p, q} \cup {r, s})
  <2>1. IsFiniteSet({p} \cup {q})
    BY FS_Singleton, FS_AddElement
  <2>2. IsFiniteSet(({p} \cup {q}) \cup {r})
    BY <2>1, FS_AddElement
  <2>3. IsFiniteSet((({p} \cup {q}) \cup {r}) \cup {s})
    BY <2>2, FS_AddElement
  <2>4. {p, q} \cup {r, s} = (({p} \cup {q}) \cup {r}) \cup {s}
    OBVIOUS
  <2> QED BY <2>3, <2>4
<1>2. IsFiniteSet(b) /\ IsFiniteSet(c)
  <2>1. b = {"secrets endpoint", "s3 endpoint"} \cup {"sqs endpoint", "credentials attached"}
    BY Zenon
  <2>2. c = {"loader", "loader logs"} \cup {"seed", "weekly rule"}
    BY Zenon
  <2>3. IsFiniteSet({"secrets endpoint", "s3 endpoint"} \cup {"sqs endpoint", "credentials attached"})
    BY <1>1, Zenon
  <2>4. IsFiniteSet({"loader", "loader logs"} \cup {"seed", "weekly rule"})
    BY <1>1, Zenon
  <2> QED BY <2>1, <2>2, <2>3, <2>4, Zenon
<1>3. IsFiniteSet(a)
  <2>1. a = ({"vpc", "client group"} \cup {"credentials", "database"}) \cup {"port open"}
    BY Zenon
  <2>2. IsFiniteSet({"vpc", "client group"} \cup {"credentials", "database"})
    BY <1>1, Zenon
  <2>3. ASSUME NEW S, NEW x, IsFiniteSet(S) PROVE IsFiniteSet(S \cup {x})
    BY <2>3, FS_AddElement
  <2>4. IsFiniteSet(({"vpc", "client group"} \cup {"credentials", "database"}) \cup {"port open"})
    BY <2>2, <2>3, Zenon
  <2> QED BY <2>1, <2>4, Zenon
<1>4. Resources \subseteq (a \cup b) \cup c
  BY Zenon DEF Resources, DatabaseStack, LoaderStack, Endpoints
<1> HIDE DEF a, b, c
<1>5. IsFiniteSet((a \cup b) \cup c)
  <2>1. IsFiniteSet(a \cup b)
    BY <1>2, <1>3, FS_Union
  <2> QED BY <1>2, <2>1, FS_Union
<1> QED BY <1>4, <1>5, FS_Subset

\* What a stack that is being created, or undone, still lacks of being so.
StackLeft ==
  CASE phase = "creating"     -> 2 * Cardinality(Resources) + 2 - Cardinality(made)
    [] phase = "rolling back" -> 1 + Cardinality(made)
    [] OTHER                  -> 0

\* The steps CloudFormation has at most, with the requests it may still send.
Unsettled ==
  StackLeft + (IF Deploy \in asked THEN 0 ELSE 1) + (IF Undo \in asked THEN 0 ELSE 1)

\* How many resources there are, before and after one is made or removed.
LEMMA MadeCount ==
  ASSUME StackInv
  PROVE  /\ Cardinality(made) \in Nat /\ Cardinality(Resources) \in Nat
         /\ Cardinality(made) <= Cardinality(Resources)
         /\ \A r : Cardinality(made \cup {r}) =
                     IF r \in made THEN Cardinality(made) ELSE Cardinality(made) + 1
         /\ \A r \in made : Cardinality(made \ {r}) = Cardinality(made) - 1
<1>1. made \in SUBSET Resources
  BY DEF StackInv, Resources
<1>2. IsFiniteSet(made) /\ Cardinality(made) <= Cardinality(Resources)
  BY <1>1, FiniteResources, FS_Subset
<1>3. Cardinality(made) \in Nat /\ Cardinality(Resources) \in Nat
  BY <1>2, FiniteResources, FS_CardinalityType
<1>4. ASSUME NEW r
      PROVE  Cardinality(made \cup {r}) =
               IF r \in made THEN Cardinality(made) ELSE Cardinality(made) + 1
  BY <1>2, FS_AddElement
<1>5. ASSUME NEW r \in made PROVE Cardinality(made \ {r}) = Cardinality(made) - 1
  BY <1>2, FS_RemoveElement
<1> QED BY <1>2, <1>3, <1>4, <1>5

LEMMA StackLeftIs ==
  /\ phase = "creating" => StackLeft = 2 * Cardinality(Resources) + 2 - Cardinality(made)
  /\ phase = "rolling back" => StackLeft = 1 + Cardinality(made)
  /\ phase \notin {"creating", "rolling back"} => StackLeft = 0
BY DEF StackLeft

LEMMA StackLeftType == StackInv => StackLeft \in Nat
<1> SUFFICES ASSUME StackInv PROVE StackLeft \in Nat
  OBVIOUS
<1> DEFINE M == Cardinality(made)
           N == Cardinality(Resources)
<1>1. M \in Nat /\ N \in Nat /\ M <= N
  BY MadeCount
<1>2. /\ phase = "creating" => StackLeft = 2 * N + 2 - M
      /\ phase = "rolling back" => StackLeft = 1 + M
      /\ phase \notin {"creating", "rolling back"} => StackLeft = 0
  BY StackLeftIs
<1> HIDE DEF M, N
<1>3. CASE phase = "creating"
  <2>1. StackLeft = 2 * N + 2 - M
    BY <1>2, <1>3
  <2> QED BY <1>1, <2>1
<1>4. CASE phase # "creating"
  <2>1. StackLeft = 1 + M \/ StackLeft = 0
    BY <1>2, <1>4
  <2> QED BY <1>1, <2>1
<1> QED BY <1>3, <1>4

LEMMA UnsettledType == StackInv => Unsettled \in Nat
<1> SUFFICES ASSUME StackInv PROVE Unsettled \in Nat
  OBVIOUS
<1>1. StackLeft \in Nat
  BY StackLeftType
<1> QED BY <1>1 DEF Unsettled

\* The same a step later.
LEMMA StackLeftNext ==
  /\ (StackInv)' => (StackLeft \in Nat)'
  /\ (/\ phase = "creating" => StackLeft = 2 * Cardinality(Resources) + 2 - Cardinality(made)
      /\ phase = "rolling back" => StackLeft = 1 + Cardinality(made)
      /\ phase \notin {"creating", "rolling back"} => StackLeft = 0)'
<1>1. (StackInv)' => (StackLeft \in Nat)'
  BY StackLeftType, PTL
<1>2. (/\ phase = "creating" => StackLeft = 2 * Cardinality(Resources) + 2 - Cardinality(made)
       /\ phase = "rolling back" => StackLeft = 1 + Cardinality(made)
       /\ phase \notin {"creating", "rolling back"} => StackLeft = 0)'
  BY StackLeftIs, PTL
<1> QED BY <1>1, <1>2

\* Each of CloudFormation's steps takes one of them.
LEMMA CloudFormationSettles ==
  ASSUME StackInv, StackInv', CloudFormation
  PROVE  Unsettled' < Unsettled /\ UNCHANGED vars
<1> DEFINE M == Cardinality(made)
           N == Cardinality(Resources)
           left == StackLeft
           then == StackLeft'
<1>0. M \in Nat /\ N \in Nat /\ M <= N
  BY MadeCount
<1>s. left \in Nat /\ then \in Nat
  BY StackLeftType, StackLeftNext
<1>b. /\ phase = "creating" => left = 2 * N + 2 - M
      /\ phase = "rolling back" => left = 1 + M
  BY StackLeftIs
<1>a. /\ phase' = "creating" => then = 2 * N + 2 - M'
      /\ phase' = "rolling back" => then = 1 + M'
      /\ phase' \notin {"creating", "rolling back"} => then = 0
  BY StackLeftNext
<1>v. UNCHANGED vars
  BY DEF CloudFormation, Create, Remove, CreateLogs, AskForSeed, HearFromSeed, Complete,
     GiveUpOn, AskToUndo, RolledBack
<1>m. /\ \A r : r \notin made /\ made' = made \cup {r} => M' = M + 1
      /\ \A r \in made : made' = made \ {r} => M' = M - 1
      /\ made' = made => M' = M
  BY MadeCount
<1> HIDE DEF M, N, left, then
\* Something is made or removed, or a phase ends, and nothing is asked; ...
<1>1. ASSUME asked' = asked, then < left PROVE Unsettled' < Unsettled
  <2> DEFINE d == IF Deploy \in asked THEN 0 ELSE 1
             u == IF Undo \in asked THEN 0 ELSE 1
  <2>1. Unsettled = left + d + u /\ Unsettled' = then + d + u
    BY <1>1 DEF Unsettled, left, then
  <2>2. d \in Nat /\ u \in Nat
    OBVIOUS
  <2> HIDE DEF d, u
  <2>3. then + d + u < left + d + u
    BY <1>1, <1>s, <2>2
  <2> QED BY <2>1, <2>3
<1>2. ASSUME NEW r, r \notin made, made' = made \cup {r}, phase = "creating", phase' = "creating"
      PROVE  then < left
  <2>1. M' = M + 1
    BY <1>m, <1>2
  <2>2. left = 2 * N + 2 - M /\ then = 2 * N + 2 - M'
    BY <1>a, <1>b, <1>2
  <2> QED BY <1>0, <2>1, <2>2
<1>3. ASSUME made' = made, phase = "creating" /\ phase' # "creating"
      PROVE  then < left
  <2>1. M' = M
    BY <1>m, <1>3
  <2>2. left = 2 * N + 2 - M
    BY <1>b, <1>3
  <2>3. then = 1 + M' \/ then = 0
    BY <1>a, <1>3
  <2> QED BY <1>0, <2>1, <2>2, <2>3
<1>4. ASSUME phase = "rolling back", phase' \notin {"creating", "rolling back"}
      PROVE  then < left
  <2>1. left = 1 + M /\ then = 0
    BY <1>a, <1>b, <1>4
  <2> QED BY <1>0, <2>1
<1>5. ASSUME NEW r \in made, made' = made \ {r}, phase = "rolling back", phase' = phase
      PROVE  then < left
  <2>1. M' = M - 1
    BY <1>m, <1>5
  <2>2. left = 1 + M /\ then = 1 + M'
    BY <1>a, <1>b, <1>5
  <2> QED BY <1>0, <2>1, <2>2
\* ... or something is asked, and no more.
<1>6. ASSUME UNCHANGED <<made, phase>>,
             \/ Deploy \notin asked /\ asked' = asked \cup {Deploy}
             \/ Undo \notin asked /\ asked' = asked \cup {Undo}
      PROVE  Unsettled' < Unsettled
  <2> DEFINE d == IF Deploy \in asked THEN 0 ELSE 1
             u == IF Undo \in asked THEN 0 ELSE 1
  <2>1. then = left
    BY <1>6 DEF StackLeft, left, then
  <2>2. Deploy # Undo
    BY DeploymentAssumption
  <2>3. Unsettled = left + d + u /\ Unsettled' = left + d' + u'
    BY <2>1 DEF Unsettled, left, then
  <2>4. \/ d = 1 /\ d' = 0 /\ u' = u
        \/ u = 1 /\ u' = 0 /\ d' = d
    BY <1>6, <2>2
  <2>5. d \in Nat /\ u \in Nat
    OBVIOUS
  <2> HIDE DEF d, u
  <2>6. left + d' + u' < left + d + u
    BY <1>s, <2>4, <2>5
  <2> QED BY <2>3, <2>6
<1>7. ASSUME NEW r, Create(r) PROVE Unsettled' < Unsettled
  BY <1>1, <1>2, <1>7 DEF Create, Ready
<1>8. ASSUME NEW r, Remove(r) PROVE Unsettled' < Unsettled
  BY <1>1, <1>5, <1>8 DEF Remove
<1>9. CASE CreateLogs
  BY <1>1, <1>2, <1>3, <1>9 DEF CreateLogs, Ready
<1>10. CASE HearFromSeed
  BY <1>1, <1>2, <1>3, <1>10 DEF HearFromSeed
<1>11. CASE Complete
  BY <1>1, <1>3, <1>11 DEF Complete
<1>12. CASE RolledBack
  BY <1>1, <1>4, <1>12 DEF RolledBack
<1>13. ASSUME NEW l, GiveUpOn(l) PROVE Unsettled' < Unsettled
  BY <1>1, <1>3, <1>4, <1>13 DEF GiveUpOn
<1>14. CASE AskForSeed \/ AskToUndo
  BY <1>6, <1>14 DEF AskForSeed, AskToUndo
<1> QED
  BY <1>v, <1>7, <1>8, <1>9, <1>10, <1>11, <1>12, <1>13, <1>14 DEF CloudFormation

\* Neither CloudFormation nor a load goes on for ever: every step of the
\* deployment is one of CloudFormation's, of which there are fewer each time, or
\* one of a load's, which takes none of CloudFormation's away or back.  What
\* DeploymentSettles adds is that they do not stop short (the rollback of a
\* custom resource, the add_dependency calls of cdk_stack.py).
THEOREM TheDeploymentEnds ==
  /\ DeploymentSpec => [](Unsettled \in Nat)
  /\ DeploymentSpec =>
       [][\/ Unsettled' < Unsettled /\ \A l \in Loads : StepsLeft(l)' = StepsLeft(l)
          \/ Unsettled' = Unsettled /\ LoadStep]_everything
<1>1. DeploymentInit => StackInv /\ LoaderInv
  <2>1. DeploymentInit => StackInv
    BY DEF DeploymentInit, StackInv
  <2> QED
    BY <2>1, LoaderInit DEF DeploymentInit
<1>2. StackInv /\ LoaderInv /\ [DeploymentNext]_everything => (StackInv /\ LoaderInv)'
  BY StackStep, DeploymentStep, LoaderInductive
<1>3. StackInv => Unsettled \in Nat
  BY UnsettledType
<1>4. StackInv /\ StackInv' /\ LoaderInv /\ [DeploymentNext]_everything =>
        [\/ Unsettled' < Unsettled /\ \A l \in Loads : StepsLeft(l)' = StepsLeft(l)
         \/ Unsettled' = Unsettled /\ LoadStep]_everything
  <2> SUFFICES ASSUME StackInv, StackInv', LoaderInv, DeploymentNext
               PROVE  \/ Unsettled' < Unsettled /\ \A l \in Loads : StepsLeft(l)' = StepsLeft(l)
                      \/ Unsettled' = Unsettled /\ LoadStep
    OBVIOUS
  <2>1. CASE CloudFormation
    <3>1. Unsettled' < Unsettled /\ UNCHANGED vars
      BY <2>1, CloudFormationSettles
    <3>2. \A l \in Loads : StepsLeft(l)' = StepsLeft(l)
      BY <3>1 DEF StepsLeft, StageLeft, vars, update
    <3> QED
      BY <3>1, <3>2
  <2>2. ASSUME NEW l \in Loads, Run(l) \/ Serve(l) \/ Break(l)
        PROVE  Unsettled' = Unsettled /\ LoadStep
    <3>1. Next /\ UNCHANGED <<made, phase, asked>>
      BY <2>2 DEF Run, Serve, Break, Next, stack
    <3> QED
      BY <3>1, NextIsLoadStep DEF Unsettled, StackLeft
  <2> QED
    BY <2>1, <2>2 DEF DeploymentNext
<1>5. DeploymentSpec => [](Unsettled \in Nat)
  BY <1>1, <1>2, <1>3, PTL DEF DeploymentSpec
<1>6. DeploymentSpec =>
        [][\/ Unsettled' < Unsettled /\ \A l \in Loads : StepsLeft(l)' = StepsLeft(l)
           \/ Unsettled' = Unsettled /\ LoadStep]_everything
  BY <1>1, <1>2, <1>4, PTL DEF DeploymentSpec
<1> QED
  BY <1>5, <1>6

\* In its deployment, whatever CloudFormation makes, asks and undoes around it,
\* the loader leaves the ladder whole and a person's number where a person put
\* it, and tells CloudFormation the truth, once for each invocation (seed.py,
\* _seed_and_respond).
THEOREM TheDeploymentKeepsTheLoader ==
  /\ DeploymentSpec => [](LadderIsWhole /\ NumbersComeByHand /\ CloudFormationHearsBack)
  /\ DeploymentSpec => AnswersAreHonest
<1>1. DeploymentSpec => [](LadderIsWhole /\ NumbersComeByHand /\ CloudFormationHearsBack)
  BY DeployedLoaderIsTheLoader, LadderStaysWhole, NumbersComeFromPeople, EveryInvocationAnswers, PTL
<1>2. DeploymentSpec => AnswersAreHonest
  BY DeployedLoaderIsTheLoader, AnswersStayHonest
<1> QED
  BY <1>1, <1>2
=============================================================================
