--------------------------- MODULE PipelineProofs ---------------------------
(***************************************************************************)
(* Proofs about the pipeline, from those about its two ends: a step of one *)
(* end keeps that end's invariants, and the queue is all that they share.  *)
(***************************************************************************)
EXTENDS ReminderPipeline, DataLemmas, SequenceTheorems

Up == INSTANCE DailyRunProofs

Down == INSTANCE MessageSenderProofs WITH
  Direct       <- {},
  ReminderIds  <- Reminders,
  ReminderIdOf <- [m \in Messages |-> m[1]],
  BodyOf       <- [m \in Messages |-> "ok"],
  HasTable     <- TRUE,
  Faults       <- SenderFaults,
  MaxFaults    <- MaxSenderFaults,
  faults       <- mishaps

-----------------------------------------------------------------------------
(* The proofs speak of the same program as the pipeline.                   *)

\* A set is finite at either end when it is.
LEMMA Finite ==
  ASSUME NEW s
  PROVE  /\ Producer!IsFiniteSet(s) <=> IsFiniteSet(s)
         /\ Up!IsFiniteSet(s) <=> IsFiniteSet(s)
         /\ Sender!IsFiniteSet(s) <=> IsFiniteSet(s)
         /\ Down!IsFiniteSet(s) <=> IsFiniteSet(s)
BY DEF Producer!IsFiniteSet, Up!IsFiniteSet, Sender!IsFiniteSet, Down!IsFiniteSet, IsFiniteSet

\* What either end assumes of its constants.
LEMMA PlanHypothesis == Up!PlanAssumption
BY PipelineAssumption

LEMMA RunsHypothesis == Up!RunsAssumption
BY PipelineAssumption, Finite DEF Producer!Hearing, Up!Hearing, Producer!Range, Up!Range

LEMMA RequestsHypothesis == Down!RequestsAssumption
BY PipelineAssumption DEF Down!Requests, Sender!Requests, Down!Bodies, Sender!Bodies

LEMMA WorkersHypothesis == Down!WorkersAssumption
BY PipelineAssumption, Finite

LEMMA QueueHypothesis == Down!QueueAssumption
BY PipelineAssumption
   DEF Down!CleanFaults, Sender!CleanFaults, Down!DoubtfulFaults, Sender!DoubtfulFaults

\* The plans of the day, and the ids in them.
LEMMA SamePlans ==
  /\ Producer!Planned = Up!Planned
  /\ Producer!AllIds = Up!AllIds
  /\ \A messages : Producer!IdsOf(messages) = Up!IdsOf(messages)
<1>1. Producer!Planned = Up!Planned
  BY DEF Producer!Planned, Up!Planned, Producer!Plan, Up!Plan,
         Producer!FoldLeft, Up!FoldLeft, Producer!MapThenFoldSet,
         Up!MapThenFoldSet, Producer!Max, Up!Max, Producer!Consider,
         Up!Consider, Producer!Skip, Up!Skip, Producer!Recipient,
         Up!Recipient, Producer!ReminderId, Up!ReminderId, Producer!Message,
         Up!Message, Producer!NothingPlanned, Up!NothingPlanned,
         Producer!Reasons, Up!Reasons
<1>2. \A messages : Producer!IdsOf(messages) = Up!IdsOf(messages)
  BY DEF Producer!IdsOf, Up!IdsOf, Producer!ToSet, Up!ToSet
<1> QED BY <1>1, <1>2 DEF Producer!AllIds, Up!AllIds

\* A step of the daily run.
LEMMA SameRun ==
  ASSUME NEW r \in Runs
  PROVE  Producer!Start(r) \/ Producer!Handle(r) \/ Producer!Failure(r) <=> Up!Step(r)
<1>1. Producer!Start(r) <=> Up!Start(r)
  BY DEF Producer!Start, Up!Start, Producer!Invoke, Up!Invoke, Producer!Refuse, Up!Refuse
<1>2. /\ Producer!Choosing(r) <=> Up!Choosing(r)
      /\ Producer!Publishing(r) <=> Up!Publishing(r)
      /\ Producer!Running(r) <=> Up!Running(r)
      /\ Producer!DryRun(r) <=> Up!DryRun(r)
  BY DEF Producer!Choosing, Up!Choosing, Producer!Publishing, Up!Publishing,
         Producer!Running, Up!Running, Producer!DryRun, Up!DryRun
<1>3. \A f : Producer!Fault(f) <=> Up!Fault(f)
  BY DEF Producer!Fault, Up!Fault
<1>4. \A ids : Producer!Put(ids) <=> Up!Put(ids)
  BY SamePlans DEF Producer!Put, Up!Put
<1>5. /\ Producer!RaisedPhase(r) = Up!RaisedPhase(r)
      /\ Producer!AnswerPhase(r) = Up!AnswerPhase(r)
  BY DEF Producer!RaisedPhase, Up!RaisedPhase, Producer!AnswerPhase, Up!AnswerPhase
<1>6. Producer!Break(r) <=> Up!Break(r)
  BY DEF Producer!Break, Up!Break
<1>7. \A messages : /\ Producer!Batch(messages) = Up!Batch(messages)
                    /\ Producer!AfterBatch(messages) = Up!AfterBatch(messages)
  BY DEF Producer!Batch, Up!Batch, Producer!AfterBatch, Up!AfterBatch
<1>8. Producer!Handle(r) <=> Up!Handle(r)
  <2>1. Producer!Generate(r) <=> Up!Generate(r)
    BY <1>2, SamePlans DEF Producer!Generate, Up!Generate
  <2>2. Producer!PublishBatch(r) <=> Up!PublishBatch(r)
    BY <1>2, <1>3, <1>4, <1>7, SamePlans DEF Producer!PublishBatch, Up!PublishBatch
  <2>3. Producer!PublishNothing(r) <=> Up!PublishNothing(r)
    BY <1>2 DEF Producer!PublishNothing, Up!PublishNothing
  <2>4. Producer!Conclude(r) <=> Up!Conclude(r)
    BY <1>2 DEF Producer!Conclude, Up!Conclude
  <2>5. Producer!Answer(r) <=> Up!Answer(r)
    BY <1>2, <1>5 DEF Producer!Answer, Up!Answer
  <2> QED BY <2>1, <2>2, <2>3, <2>4, <2>5 DEF Producer!Handle, Up!Handle
<1>9. Producer!Failure(r) <=> Up!Failure(r)
  <2>1. Producer!QueryFails(r) <=> Up!QueryFails(r)
    BY <1>2, <1>3, <1>6 DEF Producer!QueryFails, Up!QueryFails
  <2>2. Producer!PublishFails(r) <=> Up!PublishFails(r)
    BY <1>2, <1>3, <1>4, <1>6, <1>7, SamePlans DEF Producer!PublishFails, Up!PublishFails
  <2>3. Producer!Crash(r) <=> Up!Crash(r)
    BY <1>2, <1>3, <1>5 DEF Producer!Crash, Up!Crash
  <2> QED BY <2>1, <2>2, <2>3 DEF Producer!Failure, Up!Failure
<1> QED BY <1>1, <1>8, <1>9 DEF Up!Step

\* A step of a worker ...
LEMMA SameWork == ASSUME NEW w \in Workers PROVE Sender!Work(w) <=> Down!Work(w)
BY DEF Sender!Work, Down!Work, Sender!BuildClient, Down!BuildClient,
       Sender!RefuseRequest, Down!RefuseRequest, Sender!CheckLog,
       Down!CheckLog, Sender!Post, Down!Post, Sender!RefuseNumber,
       Down!RefuseNumber, Sender!Accepted, Down!Accepted, Sender!Record,
       Down!Record, Sender!Finish, Down!Finish, Sender!Step, Down!Step,
       Sender!Fail, Down!Fail, Sender!Free, Down!Free, Sender!AlreadySent,
       Down!AlreadySent, Sender!Recorded, Down!Recorded, Sender!Id, Down!Id,
       Sender!queue, Down!queue, Sender!provider, Down!provider,
       Sender!bounds, Down!bounds

\* ... its failures ...
LEMMA SameFailure == ASSUME NEW w \in Workers PROVE Sender!Failure(w) <=> Down!Failure(w)
BY DEF Sender!Failure, Down!Failure, Sender!CheckLogFails,
       Down!CheckLogFails, Sender!Rejected, Down!Rejected,
       Sender!LostAnswer, Down!LostAnswer, Sender!RecordFails,
       Down!RecordFails, Sender!DeleteLost, Down!DeleteLost, Sender!Crash,
       Down!Crash, Sender!CrashMidSend, Down!CrashMidSend, Sender!Fault,
       Down!Fault, Sender!CleanFaults, Down!CleanFaults,
       Sender!DoubtfulFaults, Down!DoubtfulFaults, Sender!Fail, Down!Fail,
       Sender!Free, Down!Free, Sender!Recorded, Down!Recorded, Sender!Id,
       Down!Id, Sender!queue, Down!queue, Sender!provider, Down!provider

\* ... of the queue ...
LEMMA SameQueue ==
  ASSUME NEW m \in Messages
  PROVE  /\ \A w \in Workers : Sender!Receive(w, m) <=> Down!Receive(w, m)
         /\ \A w \in Workers : Sender!DeliverAgain(w, m) <=> Down!DeliverAgain(w, m)
         /\ Sender!DeadLetter(m) <=> Down!DeadLetter(m)
BY DEF Sender!Receive, Down!Receive, Sender!DeliverAgain, Down!DeliverAgain,
       Sender!DeadLetter, Down!DeadLetter, Sender!Visible, Down!Visible,
       Sender!MayDeliver, Down!MayDeliver, Sender!Exhausted, Down!Exhausted,
       Sender!Deliver, Down!Deliver, Sender!Assign, Down!Assign,
       Sender!Lease, Down!Lease, Sender!queue, Down!queue, Sender!worker,
       Down!worker, Sender!provider, Down!provider, Sender!bounds,
       Down!bounds

\* ... and of the others.
LEMMA SameOthers ==
  /\ \A m \in Messages : Sender!LateAccepted(m) <=> Down!LateAccepted(m)
  /\ \A m \in Messages : Sender!LateDropped(m) <=> Down!LateDropped(m)
  /\ Sender!FillSecret <=> Down!FillSecret
  /\ Sender!Tick <=> Down!Tick
BY DEF Sender!LateAccepted, Down!LateAccepted, Sender!LateDropped,
       Down!LateDropped, Sender!FillSecret, Down!FillSecret, Sender!Tick,
       Down!Tick, Sender!Busy, Down!Busy, Sender!queue, Down!queue,
       Sender!worker, Down!worker, Sender!provider, Down!provider,
       Sender!bounds, Down!bounds

-----------------------------------------------------------------------------
(* The inductive invariant.                                                *)

\* The n-th copy of a reminder has been queued exactly when the daily run has
\* queued that many, and is nobody's direct request.
CopiesInv ==
  \A m \in Messages : /\ status[m] # "new" <=> m[2] <= outbox[m[1]]
                      /\ status[m] \notin {"taken", "failed"}

DailyInv == Up!Inv /\ Up!QueuedInv /\ Up!AnsweredInv /\ Up!TimesInv /\ Up!CopiesInv
SenderInv == Down!TypeInv /\ Down!TextedInv /\ Down!LeaseInv /\ Down!RaceInv
PipelineInv == DailyInv /\ SenderInv /\ CopiesInv

\* What the daily run's own proofs say of its steps.
LEMMA DailyStep ==
  ASSUME DailyInv, [Up!Next]_(Up!vars)
  PROVE  DailyInv'
<1>1. Up!Inv'
  BY Up!InvStep, PlanHypothesis, RunsHypothesis DEF DailyInv
<1>2. Up!QueuedInv'
  BY Up!QueuedStep, PlanHypothesis, RunsHypothesis DEF DailyInv
<1>3. Up!AnsweredInv'
  BY Up!AnsweredStep, PlanHypothesis, RunsHypothesis DEF DailyInv
<1>4. Up!TimesInv'
  BY Up!TimesStep, PlanHypothesis, RunsHypothesis DEF DailyInv
<1>5. Up!CopiesInv'
  BY Up!CopiesStep, PlanHypothesis, RunsHypothesis DEF DailyInv
<1> QED BY <1>1, <1>2, <1>3, <1>4, <1>5 DEF DailyInv

\* Nothing the sender does changes how much was queued.
LEMMA DailyRests ==
  ASSUME DailyInv, UNCHANGED producer
  PROVE  DailyInv'
BY DailyStep DEF producer, Up!vars

\* The threshold that plans a reminder.
LEMMA ReminderFacts ==
  ASSUME NEW k \in Reminders
  PROVE  \E t \in Thresholds : k \in Up!IdsOf(Up!Planned[t])
BY PipelineAssumption, SamePlans DEF Up!AllIds

\* There are finitely many messages.
LEMMA MessagesAreFinite == IsFiniteSet(Messages) /\ Down!IsFiniteSet(Down!Requests)
<1>1. Up!IsFiniteSet(Up!AllIds)
  BY Up!IdsAreFinite, PlanHypothesis, RunsHypothesis
<1>2. IsFiniteSet(Reminders)
  BY <1>1, PipelineAssumption, SamePlans, Finite
<1>3. MaxCopies \in Int
  BY PipelineAssumption
<1>4. IsFiniteSet(1..MaxCopies)
  BY <1>3, FS_Interval
<1>5. IsFiniteSet(Messages)
  BY <1>2, <1>4, FS_Product DEF Messages
<1>6. Down!Requests = Messages
  BY DEF Down!Requests
<1> QED BY <1>5, <1>6, Finite

\* What the sender's own proofs say of its steps.
LEMMA SenderStep ==
  ASSUME SenderInv, [Down!Next]_(Down!vars)
  PROVE  SenderInv'
<1>1. Down!TypeInv'
  BY Down!TypeInductive, RequestsHypothesis, WorkersHypothesis, QueueHypothesis DEF SenderInv
<1>2. Down!TextedInv'
  BY Down!TextedInductive, RequestsHypothesis, WorkersHypothesis, QueueHypothesis DEF SenderInv
<1>3. Down!LeaseInv'
  BY Down!LeaseInductive, RequestsHypothesis, WorkersHypothesis, QueueHypothesis DEF SenderInv
<1>4. Down!RaceInv'
  BY Down!RaceInductive, MessagesAreFinite, RequestsHypothesis, WorkersHypothesis,
     QueueHypothesis DEF SenderInv
<1> QED BY <1>1, <1>2, <1>3, <1>4 DEF SenderInv

-----------------------------------------------------------------------------
(* A step of the pipeline is a step of one end.                            *)

\* What the sender's end may do.
SenderMoves ==
  \/ \E w \in Workers : Down!Work(w) \/ Down!Failure(w)
  \/ \E m \in Messages :
       \/ \E w \in Workers : Down!Receive(w, m) \/ Down!DeliverAgain(w, m)
       \/ Down!DeadLetter(m) \/ Down!LateAccepted(m) \/ Down!LateDropped(m)
  \/ Down!FillSecret
  \/ Down!Tick

\* All of it is the sender's, and is nothing to the daily run.
LEMMA StepOfOneEnd ==
  ASSUME Next
  PROVE  \/ \E r \in Runs : Up!Step(r) /\ Queued /\ UNCHANGED sender
         \/ SenderMoves /\ UNCHANGED producer
<1>1. ASSUME NEW r \in Runs,
             \/ Upstream(Producer!Start(r))
             \/ Upstream(Producer!Handle(r))
             \/ Upstream(Producer!Failure(r))
      PROVE  Up!Step(r) /\ Queued /\ UNCHANGED sender
  BY <1>1, SameRun DEF Upstream
<1>2. ASSUME NEW w \in Workers, Downstream(Sender!Work(w)) \/ Downstream(Sender!Failure(w))
      PROVE  SenderMoves /\ UNCHANGED producer
  BY <1>2, SameWork, SameFailure DEF Downstream, SenderMoves
<1>3. ASSUME NEW m \in Messages,
             \/ Downstream(Receive(m) \/ Sender!DeadLetter(m))
             \/ Downstream(\E w \in Workers : Sender!DeliverAgain(w, m))
      PROVE  SenderMoves /\ UNCHANGED producer
  BY <1>3, SameQueue DEF Downstream, SenderMoves, Receive
<1>4. ASSUME NEW m \in Messages,
             Downstream(Sender!LateAccepted(m) \/ Sender!LateDropped(m))
      PROVE  SenderMoves /\ UNCHANGED producer
  BY <1>4, SameOthers DEF Downstream, SenderMoves
<1>5. ASSUME Downstream(Sender!FillSecret) \/ Downstream(Sender!Tick)
      PROVE  SenderMoves /\ UNCHANGED producer
  BY <1>5, SameOthers DEF Downstream, SenderMoves
<1> QED BY <1>1, <1>2, <1>3, <1>4, <1>5 DEF Next

LEMMA SenderMovesAreSteps == SenderMoves => Down!Next
BY DEF SenderMoves, Down!Next, Down!Requests

\* The sender puts no message on the queue, and takes none as a direct
\* request.
LEMMA SenderQueuesNothing ==
  ASSUME SenderInv, SenderMoves, NEW m \in Messages
  PROVE  /\ status'[m] # "new" <=> status[m] # "new"
         /\ status[m] \notin {"taken", "failed"} => status'[m] \notin {"taken", "failed"}
<1>1. m \in Down!Requests /\ Down!Requests = Messages
  BY DEF Down!Requests
<1>2. status \in [Down!Requests -> {"new", "queued", "taken", "done", "dead", "failed"}]
  BY DEF SenderInv, Down!TypeInv, Down!TypeOK
<1>3. \A w \in Workers : Down!Fail(w) =>
        \/ status'[m] = status[m]
        \/ status[m] = "taken" /\ status'[m] = "failed"
  BY <1>1, <1>2 DEF Down!Fail
<1>4. ASSUME NEW w \in Workers, Down!Work(w) \/ Down!Failure(w)
      PROVE  \/ status'[m] = status[m]
             \/ status[m] = "taken" /\ status'[m] = "failed"
             \/ status[m] \in {"queued", "done"} /\ status'[m] = "done"
  <2>1. CASE Down!Finish(w)
    <3>1. job[w] \in Messages
      BY <1>1, <2>1 DEF SenderInv, Down!TypeInv, Down!JobOK, Down!Busy, Down!Finish
    <3>2. status[job[w]] \in {"queued", "done"}
      BY <3>1 DEF SenderInv, Down!LeaseInv, Down!HeldInv
    <3>3. status' = [status EXCEPT ![job[w]] = "done"]
      BY <2>1 DEF Down!Finish
    <3> QED BY <1>1, <1>2, <3>2, <3>3
  <2>2. CASE status' = status
    BY <2>2
  <2>3. CASE Down!Fail(w)
    BY <1>3, <2>3
  <2> QED BY <1>4, <2>1, <2>2, <2>3
          DEF Down!Work, Down!BuildClient, Down!RefuseRequest, Down!CheckLog, Down!Post,
              Down!RefuseNumber, Down!Accepted, Down!Record, Down!Failure, Down!CheckLogFails,
              Down!Rejected, Down!LostAnswer, Down!RecordFails, Down!DeleteLost, Down!Crash,
              Down!CrashMidSend
<1>5. ASSUME NEW q \in Messages, Down!DeadLetter(q)
      PROVE  \/ status'[m] = status[m]
             \/ status[m] = "queued" /\ status'[m] = "dead"
  BY <1>1, <1>2, <1>5 DEF Down!DeadLetter, Down!Visible
<1>6. CASE status' = status
  BY <1>6
<1> QED BY <1>4, <1>5, <1>6
        DEF SenderMoves, Down!Receive, Down!DeliverAgain, Down!LateAccepted, Down!LateDropped,
            Down!FillSecret, Down!Tick

\* What the daily run queued in a step, the queue takes at once.
LEMMA QueueTakesAll ==
  ASSUME DailyInv, SenderInv, CopiesInv, NEW r \in Runs, Up!Step(r), Queued, UNCHANGED sender
  PROVE  SenderInv' /\ CopiesInv'
<1> DEFINE some == {m \in Messages : status[m] = "new" /\ m[2] <= outbox'[m[1]]}
<1>1. Down!Requests = Messages
  BY DEF Down!Requests
<1>2. some \in SUBSET Messages /\ Down!EnqueueAll(some)
  BY <1>1 DEF Queued, sender, Down!EnqueueAll, Down!queue, Down!worker, Down!provider, Down!bounds
<1>3. SenderInv'
  <2>1. Down!TypeInv /\ Down!TextedInv /\ Down!LeaseInv /\ Down!RaceInv
    BY DEF SenderInv
  <2> HIDE DEF some
  <2>2. Down!TypeInv'
    BY <1>2, <2>1, Down!EnqueueAllKeeps, RequestsHypothesis, WorkersHypothesis, QueueHypothesis
  <2>3. Down!TextedInv'
    BY <1>2, <2>1, Down!EnqueueAllKeeps, RequestsHypothesis, WorkersHypothesis, QueueHypothesis
  <2>4. Down!LeaseInv'
    BY <1>2, <2>1, Down!EnqueueAllKeeps, RequestsHypothesis, WorkersHypothesis, QueueHypothesis
  <2>5. Down!RaceInv'
    BY <1>2, <2>1, Down!EnqueueAllKeeps, MessagesAreFinite, RequestsHypothesis,
       WorkersHypothesis, QueueHypothesis
  <2> QED BY <2>2, <2>3, <2>4, <2>5 DEF SenderInv
<1>4. ASSUME NEW m \in Messages
      PROVE  /\ status'[m] # "new" <=> m[2] <= outbox'[m[1]]
             /\ status'[m] \notin {"taken", "failed"}
  <2>1. m[1] \in Up!AllIds /\ m[2] \in Nat
    BY PipelineAssumption, SamePlans DEF Messages
  <2>2. /\ outbox[m[1]] \in Nat /\ outbox'[m[1]] \in Nat
        /\ outbox[m[1]] <= outbox'[m[1]]
    BY <2>1, Up!QueueGrows, PlanHypothesis, RunsHypothesis DEF DailyInv
  <2>3. status'[m] = IF status[m] = "new" /\ m[2] <= outbox'[m[1]] THEN "queued" ELSE status[m]
    BY DEF Queued
  <2>4. /\ status[m] # "new" <=> m[2] <= outbox[m[1]]
        /\ status[m] \notin {"taken", "failed"}
    BY DEF CopiesInv
  <2> QED BY <2>1, <2>2, <2>3, <2>4
<1> QED BY <1>3, <1>4 DEF CopiesInv

-----------------------------------------------------------------------------
(* The theorems.                                                           *)

\* The invariant holds at first ...
LEMMA PipelineInit == Init => PipelineInv
<1> SUFFICES ASSUME Init PROVE PipelineInv
  OBVIOUS
<1>1. Up!Init
  BY SamePlans DEF Init, Producer!Init, Up!Init
<1>2. Up!Inv
  BY <1>1, Up!InvInit, PlanHypothesis, RunsHypothesis
<1>3. Up!QueuedInv /\ Up!AnsweredInv
  BY <1>1 DEF Up!Init, Up!QueuedInv, Up!Running, Up!AnsweredInv
<1>4. Up!TimesInv
  BY <1>1, Up!CopiesInit, PlanHypothesis, RunsHypothesis
<1>5. Up!CopiesInv
  BY <1>1, Up!CopiesInit, PlanHypothesis, RunsHypothesis
<1>6. Down!Init
  BY DEF Init, Sender!Init, Down!Init, Sender!Requests, Down!Requests
<1>7. Down!TypeInv
  BY <1>6, Down!TypeInit, RequestsHypothesis, WorkersHypothesis, QueueHypothesis
<1>8. Down!TextedInv
  BY <1>6, Down!TextedInit, RequestsHypothesis, WorkersHypothesis, QueueHypothesis
<1>9. Down!LeaseInv
  BY <1>6, Down!LeaseInit, RequestsHypothesis, WorkersHypothesis, QueueHypothesis
<1>10. Down!RaceInv
  BY <1>6, Down!RaceInit, MessagesAreFinite, RequestsHypothesis, WorkersHypothesis,
     QueueHypothesis
<1>11. CopiesInv
  <2> SUFFICES ASSUME NEW m \in Messages
               PROVE  /\ status[m] # "new" <=> m[2] <= outbox[m[1]]
                      /\ status[m] \notin {"taken", "failed"}
    BY DEF CopiesInv
  <2>1. m[1] \in Up!AllIds /\ m[2] \in 1..MaxCopies
    BY PipelineAssumption, SamePlans DEF Messages
  <2>2. outbox[m[1]] = 0
    BY <1>1, <2>1 DEF Up!Init
  <2>3. status[m] = "new"
    BY <1>6 DEF Down!Init, Down!Requests
  <2> QED BY <2>1, <2>2, <2>3
<1> QED BY <1>2, <1>3, <1>4, <1>5, <1>7, <1>8, <1>9, <1>10, <1>11
        DEF PipelineInv, DailyInv, SenderInv

\* ... and after every step.
LEMMA PipelineStep == PipelineInv /\ [Next]_vars => PipelineInv'
<1> SUFFICES ASSUME PipelineInv, [Next]_vars PROVE PipelineInv'
  OBVIOUS
<1>0. DailyInv /\ SenderInv /\ CopiesInv
  BY DEF PipelineInv
<1>1. ASSUME NEW r \in Runs, Up!Step(r), Queued, UNCHANGED sender
      PROVE  PipelineInv'
  <2>1. Up!Next
    BY <1>1 DEF Up!Next, Up!Step
  <2>2. DailyInv'
    BY <1>0, <2>1, DailyStep
  <2>3. SenderInv' /\ CopiesInv'
    BY <1>0, <1>1, QueueTakesAll
  <2> QED BY <2>2, <2>3 DEF PipelineInv
<1>2. CASE SenderMoves /\ UNCHANGED producer
  <2>1. DailyInv'
    BY <1>0, <1>2, DailyRests
  <2>2. SenderInv'
    BY <1>0, <1>2, SenderMovesAreSteps, SenderStep
  <2>3. CopiesInv'
    BY <1>0, <1>2, SenderQueuesNothing DEF CopiesInv, producer
  <2> QED BY <2>1, <2>2, <2>3 DEF PipelineInv
<1>3. CASE UNCHANGED vars
  <2>1. UNCHANGED producer /\ UNCHANGED sender /\ status' = status
    BY <1>3 DEF vars
  <2>2. DailyInv'
    BY <1>0, <2>1, DailyRests
  <2>3. UNCHANGED Down!vars
    BY <2>1 DEF sender, Down!vars, Down!queue, Down!worker, Down!provider, Down!bounds
  <2>4. SenderInv'
    BY <1>0, <2>3, SenderStep
  <2>5. CopiesInv'
    BY <1>0, <2>1 DEF CopiesInv, producer
  <2> QED BY <2>2, <2>4, <2>5 DEF PipelineInv
<1> QED BY <1>1, <1>2, <1>3, StepOfOneEnd

\* No reminder is queued more often than there are messages for it.
LEMMA CopiesFit ==
  ASSUME DailyInv, NEW k \in Reminders
  PROVE  outbox[k] \in Nat /\ outbox[k] <= MaxCopies
<1>1. PICK t \in Thresholds : k \in Up!IdsOf(Up!Planned[t])
  BY ReminderFacts
<1> DEFINE most == SumFunction([r \in {r \in Runs : ~Producer!DryRun(r) /\ t \in Producer!Asked(r)} |->
                                  Invocations[r] * Producer!Times(t, Requested[r])])
           upMost == Up!SumFunction([r \in {r \in Runs : ~Up!DryRun(r) /\ t \in Up!Asked(r)} |->
                                       Invocations[r] * Up!Times(t, Requested[r])])
<1>2. outbox[k] \in Nat /\ upMost \in Nat /\ outbox[k] <= upMost
  BY <1>1, Up!CopiesAreFew, PlanHypothesis, RunsHypothesis DEF DailyInv
<1>3. upMost = most
  BY DEF Up!SumFunction, SumFunction, Up!SumFunctionOnSet, SumFunctionOnSet,
         Up!FoldFunctionOnSet, FoldFunctionOnSet, Up!MapThenFoldSet, MapThenFoldSet,
         Up!DryRun, Producer!DryRun, Up!Asked, Producer!Asked, Up!ToSet, Producer!ToSet,
         Up!Times, Producer!Times, Up!Cardinality, Producer!Cardinality
<1>4. most <= MaxCopies
  BY PipelineAssumption DEF Queueable
<1>5. MaxCopies \in Nat
  BY PipelineAssumption
<1> HIDE DEF most, upMost
<1> QED BY <1>2, <1>3, <1>4, <1>5

\* The messages of a reminder that have been queued are its first copies.
LEMMA QueuedCopies ==
  ASSUME DailyInv, CopiesInv, NEW k \in Reminders
  PROVE  Cardinality({m \in Copies(k) : status[m] # "new"}) = outbox[k]
<1> DEFINE S == 1..outbox[k]
           T == {m \in Copies(k) : status[m] # "new"}
           copy == [n \in S |-> <<k, n>>]
<1>1. outbox[k] \in Nat /\ outbox[k] <= MaxCopies /\ MaxCopies \in Nat
  BY CopiesFit, PipelineAssumption
<1>2. T = {<<k, n>> : n \in S}
  BY <1>1 DEF CopiesInv, Copies, Messages
<1>3. copy \in Bijection(S, T)
  <2>1. \A n \in S : copy[n] \in T
    BY <1>2
  <2>2. \A m \in T : \E n \in S : copy[n] = m
    BY <1>2
  <2>3. \A n, o \in S : copy[n] = copy[o] => n = o
    OBVIOUS
  <2>4. copy \in [S -> T]
    BY <2>1
  <2> HIDE DEF S, T, copy
  <2>5. DOMAIN copy = S
    BY <2>4
  <2>6. IsInjective(copy)
    BY <2>3, <2>5 DEF IsInjective
  <2> QED BY <2>2, <2>4, <2>6 DEF Bijection, Injection, Surjection
<1>4. IsFiniteSet(S) /\ Cardinality(S) = outbox[k]
  <2> DEFINE n == outbox[k]
  <2>1. n \in Nat
    BY <1>1
  <2> HIDE DEF n
  <2>2. n \in Int /\ 1 \in Int
    BY <2>1
  <2>3. IsFiniteSet(1..n) /\ Cardinality(1..n) = IF 1 > n THEN 0 ELSE n - 1 + 1
    BY <2>2, FS_Interval
  <2>4. IsFiniteSet(1..n) /\ Cardinality(1..n) = n
    BY <2>1, <2>3
  <2> QED BY <2>4 DEF n
<1> HIDE DEF S, T, copy
<1>5. Cardinality(T) = Cardinality(S)
  <2>1. ExistsBijection(S, T)
    BY <1>3 DEF ExistsBijection
  <2> QED BY <1>4, <2>1, FS_Bijection
<1>6. Cardinality(T) = outbox[k]
  BY <1>4, <1>5
<1> QED BY <1>6 DEF T

\* The type invariant of the pipeline: either end is well typed, and the queue
\* holds as many messages with a reminder's id as the daily run has put there
\* (Outbox.publish, CourtReminderStack._outbox).
THEOREM TypeCorrect == Spec => []TypeOK
<1>1. PipelineInv => TypeOK
  <2> SUFFICES ASSUME PipelineInv PROVE TypeOK
    OBVIOUS
  <2>1. Up!TypeOK
    BY Up!InvTypeOK, PlanHypothesis, RunsHypothesis DEF PipelineInv, DailyInv
  <2>2. Producer!TypeOK
    BY <2>1, SamePlans DEF Up!TypeOK, Producer!TypeOK
  <2>3. Down!TypeOK
    BY DEF PipelineInv, SenderInv, Down!TypeInv
  <2>4. Sender!TypeOK
    BY <2>3 DEF Down!TypeOK, Sender!TypeOK, Down!Requests, Sender!Requests,
                Down!Stages, Sender!Stages
  <2>5. \A k \in Reminders : Cardinality({m \in Copies(k) : status[m] # "new"}) = outbox[k]
    BY QueuedCopies DEF PipelineInv
  <2> QED BY <2>2, <2>4, <2>5 DEF TypeOK
<1> QED BY <1>1, PipelineInit, PipelineStep, PTL DEF Spec

\* A day's run that answers 200 has left nobody out: each person it was asked
\* to remind has been texted, or a message for them is on the queue or among
\* the dead letters, or the answer names their reminder as failed.  It takes
\* both ends: what the one queued, the other does not report as handled before
\* it was texted (handler, _handle_sqs).
THEOREM NobodyIsLeftOut == Spec => []NobodyIsForgotten
<1>1. PipelineInv => NobodyIsForgotten
  <2> SUFFICES ASSUME PipelineInv, NEW r \in Runs, phase[r] = "returned", ~Producer!DryRun(r),
                      NEW k \in AskedFor(r), k \notin failed[r].total
               PROVE  \/ Texted(k)
                      \/ \E m \in Copies(k) : status[m] \in {"queued", "dead"}
    BY DEF NobodyIsForgotten
  <2>0. DailyInv /\ SenderInv /\ CopiesInv
    BY DEF PipelineInv
  <2>1. PICK t \in Up!Asked(r) : k \in Up!IdsOf(Up!Planned[t])
    BY SamePlans DEF AskedFor, Producer!Asked, Up!Asked, Producer!ToSet, Up!ToSet
  <2>2. outbox[k] > 0
    BY <2>0, <2>1 DEF DailyInv, Up!AnsweredInv, Producer!DryRun, Up!DryRun
  <2>3. k \in Reminders
    <3>1. t \in Thresholds
      BY <2>1, RunsHypothesis, LenProperties DEF Up!Asked, Up!ToSet
    <3> QED BY <2>1, <3>1, PipelineAssumption, SamePlans DEF Up!AllIds
  <2>4. outbox[k] \in Nat /\ outbox[k] <= MaxCopies
    BY <2>0, <2>3, CopiesFit
  <2> DEFINE m == <<k, 1>>
  <2>5. m \in Copies(k) /\ m \in Messages /\ m[1] = k
    BY <2>2, <2>3, <2>4, PipelineAssumption DEF Copies, Messages
  <2>6. status[m] \notin {"new", "taken", "failed"}
    BY <2>0, <2>2, <2>4, <2>5 DEF CopiesInv
  <2>7. m \in Down!Requests /\ Down!Requests = Messages
    BY <2>5 DEF Down!Requests
  <2>8. status[m] \in {"queued", "done", "dead"}
    BY <2>0, <2>6, <2>7 DEF SenderInv, Down!TypeInv, Down!TypeOK
  <2>9. CASE status[m] = "done"
    <3>1. PICK s \in Messages : Down!SameReminder(m, s) /\ texts[s] > 0
      BY <2>0, <2>7, <2>9 DEF SenderInv, Down!TextedInv, Down!NoSilentMiss, Down!TextedFor
    <3>2. s[1] = k
      BY <2>5, <3>1, RequestsHypothesis DEF Down!SameReminder, Down!Id, Down!Requests, Messages
    <3> QED BY <3>1, <3>2 DEF Texted, Copies
  <2> QED BY <2>5, <2>8, <2>9
<1> QED BY <1>1, PipelineInit, PipelineStep, PTL DEF Spec

\* However often a run is retried, and whoever runs it again by hand, nobody
\* is texted about a hearing more often than there are invocations of the
\* sender to race for it, but for failures that leave a text in doubt
\* (handler: "running twice in a day"; _send checks the log before it texts).
THEOREM RetriesAreHarmless == Spec => []RetriesDoNotMultiply
<1>1. PipelineInv => RetriesDoNotMultiply
  <2> SUFFICES ASSUME PipelineInv, NEW k \in Reminders
               PROVE  TextsOf(k) <= Cardinality(Workers) + doubts
    BY DEF RetriesDoNotMultiply
  <2>1. Down!TypeInv /\ Down!RaceInv
    BY DEF PipelineInv, SenderInv
  <2>2. Down!OnlyRacesTextTwice
    BY <2>1, Down!RaceImplies, MessagesAreFinite, RequestsHypothesis, WorkersHypothesis,
       QueueHypothesis
  <2>3. Down!Cardinality(Workers) = Cardinality(Workers)
    BY DEF Down!Cardinality, Cardinality
  <2>4. Down!Requests = Messages
    BY DEF Down!Requests
  <2>5. CASE MaxCopies # 0
    <3> DEFINE m == <<k, 1>>
    <3>1. MaxCopies \in Nat
      BY PipelineAssumption
    <3>2. m \in Messages /\ m[1] = k
      BY <2>5, <3>1 DEF Messages
    <3>3. NoId \notin Reminders
      BY RequestsHypothesis
    <3> HIDE DEF m
    <3>4. Down!Askers(m) = Copies(k)
      BY <2>4, <3>2, <3>3 DEF Down!Askers, Copies
    <3>5. Down!TextsOf(m) = TextsOf(k)
      BY <2>4, <3>4 DEF Down!TextsOf, TextsOf, Down!SumFunctionOnSet, SumFunctionOnSet,
                        Down!FoldFunctionOnSet, FoldFunctionOnSet, Down!MapThenFoldSet, MapThenFoldSet
    <3> QED BY <2>2, <2>3, <2>4, <3>2, <3>5 DEF Down!OnlyRacesTextTwice
  <2>6. CASE MaxCopies = 0
    <3> DEFINE g == [m \in Messages |-> texts[m] + late[m]]
    <3>1. Copies(k) = {}
      BY <2>6 DEF Copies, Messages
    <3>2. SumFunctionOnSet(g, {}) = 0
      <4> HIDE DEF g
      <4> QED BY SumEquation, FS_EmptySet
    <3>3. TextsOf(k) = 0
      BY <3>1, <3>2 DEF TextsOf
    <3>4. doubts \in Nat
      BY <2>1, QueueHypothesis DEF Down!TypeInv, Down!TypeOK
    <3>5. Cardinality(Workers) \in Nat
      BY WorkersHypothesis, Finite, FS_CardinalityType
    <3> QED BY <3>3, <3>4, <3>5
  <2> QED BY <2>5, <2>6
<1> QED BY <1>1, PipelineInit, PipelineStep, PTL DEF Spec

-----------------------------------------------------------------------------
(* What was said of either end alone holds in the pipeline.                *)

\* The daily run is, in the pipeline, the daily run: the sender at work beside
\* it shows in none of its steps, so that whatever holds of it holds here
\* (handler, SenderLogic.run).
THEOREM DailyRunIsItself == Spec => Producer!Spec
<1>1. Init => Producer!Init
  BY DEF Init
<1>2. ASSUME [Next]_vars
      PROVE  [Producer!Next]_(Producer!vars)
  <2>1. ASSUME NEW r \in Runs, Up!Step(r)
        PROVE  Producer!Next
    BY <2>1, SameRun DEF Producer!Next
  <2>2. UNCHANGED producer => UNCHANGED Producer!vars
    BY DEF producer, Producer!vars
  <2>3. UNCHANGED vars => UNCHANGED producer
    BY DEF vars
  <2> QED BY <1>2, <2>1, <2>2, <2>3, StepOfOneEnd
<1> QED BY <1>1, <1>2, PTL DEF Spec, Producer!Spec

\* Both ends mean the same by the promise.
LEMMA SamePromise ==
  /\ Sender!Promise!Init <=> Down!Promise!Init
  /\ Sender!Promise!Next <=> Down!Promise!Next
  /\ \A k : Sender!Settled(k) <=> Down!Settled(k)
  /\ \A k : Sender!Settled(k)' <=> Down!Settled(k)'
<1>1. \A s : Sender!Standing(s) = Down!Standing(s)
  BY DEF Sender!Standing, Down!Standing
<1>2. \A r : Sender!Id(r) = Down!Id(r) /\ Sender!Reminder(r) = Down!Reminder(r)
  BY DEF Sender!Id, Down!Id, Sender!Reminder, Down!Reminder
<1>3. Sender!Requests = Down!Requests
  BY DEF Sender!Requests, Down!Requests
<1>4. \A k : Sender!Settled(k) <=> Down!Settled(k)
  BY <1>2, <1>3 DEF Sender!Settled, Down!Settled, Sender!AlreadySent, Down!AlreadySent,
                    Sender!InDoubt, Down!InDoubt
<1>5. \A k : Sender!Settled(k)' <=> Down!Settled(k)'
  BY <1>2, <1>3 DEF Sender!Settled, Down!Settled, Sender!AlreadySent, Down!AlreadySent,
                    Sender!InDoubt, Down!InDoubt, Sender!Id, Down!Id
<1>6. Sender!Promise!Init <=> Down!Promise!Init
  BY <1>1, <1>3, <1>4 DEF Sender!Promise!Init, Down!Promise!Init
<1>7. \A asked \in SUBSET Down!Requests : Sender!Promise!Ask(asked) <=> Down!Promise!Ask(asked)
  BY <1>1, <1>3 DEF Sender!Promise!Ask, Down!Promise!Ask
<1>8. \A r \in Down!Requests : Sender!Promise!Keep(r) <=> Down!Promise!Keep(r)
  BY <1>1, <1>2, <1>3
     DEF Sender!Promise!Keep, Down!Promise!Keep, Sender!Promise!Move, Down!Promise!Move,
         Sender!Promise!Texted, Down!Promise!Texted
<1>9. \A r \in Down!Requests : Sender!Promise!GiveUp(r) <=> Down!Promise!GiveUp(r)
  BY <1>1, <1>3
     DEF Sender!Promise!GiveUp, Down!Promise!GiveUp, Sender!Promise!Move, Down!Promise!Move
<1>10. \A r \in Down!Requests : Sender!Promise!Text(r) <=> Down!Promise!Text(r)
  BY <1>1, <1>2, <1>3, <1>4 DEF Sender!Promise!Text, Down!Promise!Text
<1>11. Sender!Promise!Seal <=> Down!Promise!Seal
  BY <1>2, <1>3, <1>4, <1>5
     DEF Sender!Promise!Seal, Down!Promise!Seal, Sender!Promise!Texted, Down!Promise!Texted
<1>12. Sender!Promise!Next <=> Down!Promise!Next
  BY <1>1, <1>3, <1>7, <1>8, <1>9, <1>10, <1>11 DEF Sender!Promise!Next, Down!Promise!Next
<1> QED BY <1>4, <1>5, <1>6, <1>12

\* Every step of the pipeline is one of the promise, and unsettles nothing.
LEMMA StepKeepsPromise ==
  ASSUME PipelineInv, PipelineInv', [Next]_vars
  PROVE  /\ Down!Promise!Next
         /\ \A k \in Reminders \cup Messages : Down!Settled(k) =>
              /\ Down!Settled(k)'
              /\ \A r \in Down!Requests : Down!Id(r) = k => texts'[r] = texts[r]
<1>0. Down!SenderInv /\ Down!SenderInv'
  BY DEF PipelineInv, SenderInv, Down!SenderInv
<1>1. ASSUME NEW r \in Runs, Queued, UNCHANGED sender
      PROVE  \E some \in SUBSET Messages : Down!EnqueueAll(some)
  <2> DEFINE some == {m \in Messages : status[m] = "new" /\ m[2] <= outbox'[m[1]]}
  <2>1. Down!Requests = Messages
    BY DEF Down!Requests
  <2>2. some \in SUBSET Messages /\ Down!EnqueueAll(some)
    BY <1>1, <2>1 DEF Queued, sender, Down!EnqueueAll, Down!queue, Down!worker, Down!provider, Down!bounds
  <2> QED BY <2>2
<1>2. ASSUME NEW some \in SUBSET Messages, Down!EnqueueAll(some)
      PROVE  /\ Down!Promise!Next
             /\ \A k \in Reminders \cup Messages : Down!Settled(k) =>
                  /\ Down!Settled(k)'
                  /\ \A r \in Down!Requests : Down!Id(r) = k => texts'[r] = texts[r]
  <2>1. /\ Down!Promise!Next
        /\ \A k : Down!Settled(k)' <=> Down!Settled(k)
    BY <1>0, <1>2, Down!EnqueueAllAsks, RequestsHypothesis, WorkersHypothesis, QueueHypothesis
  <2>2. texts' = texts
    BY <1>2 DEF Down!EnqueueAll, Down!provider
  <2> QED BY <2>1, <2>2
<1>3. ASSUME [Down!Next]_(Down!vars)
      PROVE  /\ Down!Promise!Next
             /\ \A k \in Reminders \cup Messages : Down!Settled(k) =>
                  /\ Down!Settled(k)'
                  /\ \A r \in Down!Requests : Down!Id(r) = k => texts'[r] = texts[r]
  <2>1. Down!Promise!Next
    BY <1>0, <1>3, Down!PromiseStep, RequestsHypothesis, WorkersHypothesis, QueueHypothesis
  <2>2. Down!TypeInv
    BY <1>0 DEF Down!SenderInv
  <2>3. ASSUME NEW k \in Reminders \cup Messages, Down!Settled(k)
        PROVE  /\ Down!Settled(k)'
               /\ \A r \in Down!Requests : Down!Id(r) = k => texts'[r] = texts[r]
    BY <1>3, <2>2, <2>3, Down!SettledStep, RequestsHypothesis, WorkersHypothesis, QueueHypothesis
  <2> QED BY <2>1, <2>3
<1>4. CASE UNCHANGED vars
  <2>1. UNCHANGED Down!vars
    BY <1>4 DEF vars, sender, Down!vars, Down!queue, Down!worker, Down!provider, Down!bounds
  <2> QED BY <1>3, <2>1
<1> QED BY <1>1, <1>2, <1>3, <1>4, StepOfOneEnd, SenderMovesAreSteps

\* The pipeline keeps the sender's promise, though its producer queues a batch
\* at once and may queue a reminder again while its text is on its way: no
\* reminder is reported as handled before it was texted, none is dropped
\* silently, none that is settled is texted again (_handle_sqs, _send).
THEOREM PipelineKeepsPromise == Spec => Sender!KeepsPromise
<1>1. Init => Sender!Promise!Init
  <2> SUFFICES ASSUME Init PROVE Sender!Promise!Init
    OBVIOUS
  <2>1. Down!Init
    BY DEF Init, Sender!Init, Down!Init, Sender!Requests, Down!Requests
  <2>2. Down!Promise!Init
    BY <2>1, Down!PromiseInit, RequestsHypothesis, WorkersHypothesis, QueueHypothesis
  <2> QED BY <2>2, SamePromise
<1>2. PipelineInv /\ PipelineInv' /\ [Next]_vars => [Sender!Promise!Next]_(Sender!Promise!vars)
  BY StepKeepsPromise, SamePromise
<1> QED BY <1>1, <1>2, PipelineInit, PipelineStep, PTL
        DEF Spec, Sender!KeepsPromise, Sender!Promise!Spec

\* Once a reminder's id is logged, nobody is past the check for it and
\* TrueDialog holds no stray push, no run of the day and no retry of one, and no
\* copy that is still on the queue, texts anybody about it again (_send).
THEOREM SettledRemindersStaySettled == Spec => Sender!SettledForGood
<1>1. PipelineInv /\ PipelineInv' /\ [Next]_vars =>
        [\A k \in Reminders \cup Messages : Sender!Settled(k) =>
           /\ Sender!Settled(k)'
           /\ \A r \in Sender!Requests : Sender!Id(r) = k => texts'[r] = texts[r]]_(Sender!vars)
  BY StepKeepsPromise, SamePromise DEF Sender!Requests, Down!Requests, Sender!Id, Down!Id
<1> QED BY <1>1, PipelineInit, PipelineStep, PTL DEF Spec, Sender!SettledForGood

\* So either end keeps its word where the other feeds it or is fed by it: what a
\* run was asked for is queued or reported, no more often than it was invoked,
\* and no message leaves the queue before its text is out, or has two
\* invocations, though a run may queue its reminder again at any time (handler,
\* OutboxQueue.publish; _handle_sqs).
THEOREM BothEndsKeepTheirWord ==
  Spec => [](/\ Producer!EveryReminderIsQueuedOrReported
             /\ Producer!CopiesComeFromRuns
             /\ Sender!NoSilentMiss
             /\ Sender!LogIsHonest
             /\ Sender!OneInvocationPerMessage)
<1>1. PipelineInv => Producer!EveryReminderIsQueuedOrReported
  <2> SUFFICES ASSUME PipelineInv PROVE Producer!EveryReminderIsQueuedOrReported
    OBVIOUS
  <2>1. Up!EveryReminderIsQueuedOrReported
    BY Up!QueuedImplies, PlanHypothesis, RunsHypothesis DEF PipelineInv, DailyInv
  <2> QED BY <2>1, SamePlans
          DEF Up!EveryReminderIsQueuedOrReported, Producer!EveryReminderIsQueuedOrReported,
              Up!Choosing, Producer!Choosing, Up!Running, Producer!Running, Up!DryRun,
              Producer!DryRun, Up!Asked, Producer!Asked, Up!ToSet, Producer!ToSet
<1>2. PipelineInv => Producer!CopiesComeFromRuns
  <2> SUFFICES ASSUME PipelineInv PROVE Producer!CopiesComeFromRuns
    OBVIOUS
  <2>1. Up!CopiesComeFromRuns
    BY Up!CopiesImply, PlanHypothesis, RunsHypothesis DEF PipelineInv, DailyInv
  <2> QED BY <2>1, SamePlans
          DEF Up!CopiesComeFromRuns, Producer!CopiesComeFromRuns,
              Up!SumFunction, Producer!SumFunction, Up!SumFunctionOnSet,
              Producer!SumFunctionOnSet, Up!FoldFunctionOnSet, Producer!FoldFunctionOnSet,
              Up!MapThenFoldSet, Producer!MapThenFoldSet, Up!DryRun, Producer!DryRun,
              Up!Asked, Producer!Asked, Up!ToSet, Producer!ToSet, Up!Times, Producer!Times,
              Up!Cardinality, Producer!Cardinality
<1>3. PipelineInv => Sender!NoSilentMiss /\ Sender!LogIsHonest
  BY DEF PipelineInv, SenderInv, Down!TextedInv, Down!NoSilentMiss, Sender!NoSilentMiss,
         Down!LogIsHonest, Sender!LogIsHonest, Down!TextedFor, Sender!TextedFor,
         Down!SameReminder, Sender!SameReminder, Down!Id, Sender!Id, Down!Requests,
         Sender!Requests
<1>4. PipelineInv => Sender!OneInvocationPerMessage
  BY DEF PipelineInv, SenderInv, Down!LeaseInv, Down!AloneInv, Sender!OneInvocationPerMessage
<1> QED BY <1>1, <1>2, <1>3, <1>4, PipelineInit, PipelineStep, PTL DEF Spec

\* The retry "is safe for the thresholds that already succeeded; their ids are
\* already sent" (handler).  What that takes: that a reminder's copies are handled
\* one after another, and that no text's fate is left in doubt.  Then nobody is
\* texted twice, however often the run is retried or invoked by hand.
THEOREM OneWorkerMakesRetriesSafe ==
  ASSUME SenderFaults \cap Sender!DoubtfulFaults = {}, Cardinality(Workers) <= 1
  PROVE  Spec => []RetryIsSafe
<1>1. Down!NoDoubts
  BY DEF Down!NoDoubts, Sender!DoubtfulFaults, Down!DoubtfulFaults
<1>2. Init => doubts = 0
  BY DEF Init, Sender!Init
<1>3. doubts = 0 /\ [Next]_vars => (doubts = 0)'
  <2> SUFFICES ASSUME doubts = 0, [Next]_vars PROVE doubts' = 0
    OBVIOUS
  <2>1. CASE SenderMoves
    BY <1>1, <2>1, SenderMovesAreSteps, Down!DoubtsStayAway, RequestsHypothesis,
       WorkersHypothesis, QueueHypothesis
  <2>2. CASE UNCHANGED sender
    BY <2>2 DEF sender
  <2> QED BY <2>1, <2>2, StepOfOneEnd DEF vars
<1>4. RetriesDoNotMultiply /\ Sender!TypeOK /\ doubts = 0 => RetryIsSafe
  <2> SUFFICES ASSUME RetriesDoNotMultiply, Sender!TypeOK, doubts = 0, NEW k \in Reminders
               PROVE  TextsOf(k) <= 1
    BY DEF RetryIsSafe
  <2> DEFINE n == TextsOf(k)
             most == Cardinality(Workers)
  <2>1. n <= most + doubts
    BY DEF RetriesDoNotMultiply
  <2>2. most \in Nat
    BY WorkersHypothesis, Finite, FS_CardinalityType
  <2>3. n \in Nat
    <3> DEFINE g == [m \in Messages |-> texts[m] + late[m]]
    <3>1. \A m \in Messages : texts[m] \in Nat /\ late[m] \in Nat
      BY DEF Sender!TypeOK, Sender!Requests
    <3>2. \A m \in Messages : g[m] \in Nat
      BY <3>1
    <3>3. Copies(k) \in SUBSET Messages /\ IsFiniteSet(Messages)
      BY MessagesAreFinite DEF Copies
    <3>4. n = SumFunctionOnSet(g, Copies(k))
      BY DEF TextsOf
    <3> HIDE DEF g, n
    <3> QED BY <3>2, <3>3, <3>4, SumEquation
  <2>4. most <= 1
    OBVIOUS
  <2> HIDE DEF n, most
  <2>5. n <= 1
    BY <2>1, <2>2, <2>3, <2>4
  <2> QED BY <2>5 DEF n
<1>5. TypeOK => Sender!TypeOK
  BY DEF TypeOK
<1> QED BY <1>2, <1>3, <1>4, <1>5, TypeCorrect, RetriesAreHarmless, PTL DEF Spec

\* The day ends.  A step of the daily run leaves less of one run, and no more
\* for the sender to do, since a copy that is queued was still to come; any other
\* step but the clock's leaves the runs as they are and the sender less.  Both
\* orders descend to an end (EveryRunEnds, NothingIsTriedForEver), so that no
\* retry of a run and no redelivery of a message keeps the two busy with each
\* other for ever.
THEOREM TheDayEnds ==
  Spec => [][\/ /\ Downstream(Sender!Tick)
                /\ Down!Remaining' = Down!Remaining
                /\ \A r \in Runs : Up!Left(r)' = Up!Left(r)
             \/ \E r \in Runs :
                  /\ <<Up!Left(r)', Up!Left(r)>> \in Up!Before
                  /\ \A q \in Runs \ {r} : Up!Left(q)' = Up!Left(q)
                  /\ Down!Remaining' <= Down!Remaining
             \/ /\ \A r \in Runs : Up!Left(r)' = Up!Left(r)
                /\ Down!Remaining' < Down!Remaining]_vars
<1> DEFINE Falls ==
      \/ /\ Downstream(Sender!Tick)
         /\ Down!Remaining' = Down!Remaining
         /\ \A r \in Runs : Up!Left(r)' = Up!Left(r)
      \/ \E r \in Runs :
           /\ <<Up!Left(r)', Up!Left(r)>> \in Up!Before
           /\ \A q \in Runs \ {r} : Up!Left(q)' = Up!Left(q)
           /\ Down!Remaining' <= Down!Remaining
      \/ /\ \A r \in Runs : Up!Left(r)' = Up!Left(r)
         /\ Down!Remaining' < Down!Remaining
<1>1. PipelineInv /\ PipelineInv' /\ [Next]_vars => [Falls]_vars
  <2> SUFFICES ASSUME PipelineInv, PipelineInv', Next PROVE Falls
    OBVIOUS
  <2>0. Up!Inv /\ Up!Inv' /\ Down!TypeInv /\ Down!TypeInv'
    BY DEF PipelineInv, DailyInv, SenderInv
  <2>1. ASSUME NEW r \in Runs, Up!Step(r), Queued, UNCHANGED sender
        PROVE  Falls
    <3>1. <<Up!Left(r)', Up!Left(r)>> \in Up!Before
      BY <2>0, <2>1, Up!RunGivesWay, PlanHypothesis, RunsHypothesis
    <3>2. \A q \in Runs \ {r} : Up!Left(q)' = Up!Left(q)
      BY <2>0, <2>1, Up!RunGivesWay, PlanHypothesis, RunsHypothesis
    <3> DEFINE some == {m \in Messages : status[m] = "new" /\ m[2] <= outbox'[m[1]]}
    <3>3. some \in SUBSET Messages /\ Down!EnqueueAll(some)
      BY <2>1 DEF Queued, sender, Down!EnqueueAll, Down!Requests, Down!queue, Down!worker,
                  Down!provider, Down!bounds
    <3> HIDE DEF some
    <3>4. Down!Remaining' <= Down!Remaining
      BY <2>0, <3>3, MessagesAreFinite, Down!EnqueueAllLeaves, RequestsHypothesis,
         WorkersHypothesis, QueueHypothesis
    <3> QED BY <3>1, <3>2, <3>4
  <2>2. CASE SenderMoves /\ UNCHANGED producer
    <3>1. \A r \in Runs : Up!Left(r)' = Up!Left(r)
      BY <2>2 DEF producer, Up!Left, Up!Running, Up!Choosing, Up!Publishing
    <3>2. Down!Tick => Down!Remaining' = Down!Remaining
      BY <2>0, MessagesAreFinite, Down!StepGivesWay, RequestsHypothesis, WorkersHypothesis,
         QueueHypothesis
    <3>3. ~Down!Tick => Down!Remaining' < Down!Remaining
      BY <2>0, <2>2, SenderMovesAreSteps, MessagesAreFinite, Down!StepGivesWay,
         RequestsHypothesis, WorkersHypothesis, QueueHypothesis
    <3>4. Down!Tick => Downstream(Sender!Tick)
      BY <2>2, SameOthers DEF Downstream
    <3> QED BY <3>1, <3>2, <3>3, <3>4
  <2> QED BY <2>1, <2>2, StepOfOneEnd
<1> HIDE DEF Falls
<1>2. Spec => [][Falls]_vars
  BY <1>1, PipelineInit, PipelineStep, PTL DEF Spec
<1> QED BY <1>2 DEF Falls
=============================================================================
