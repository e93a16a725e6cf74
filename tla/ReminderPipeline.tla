-------------------------- MODULE ReminderPipeline --------------------------
(***************************************************************************)
(* The pipeline of lambda/main.py's first lines, EventBridge to            *)
(* CourtBotMain to CourtBotOutbox to CourtBotMessageSender: the daily run  *)
(* (DailyRun) and the text sender (MessageSender) over one queue.          *)
(*                                                                         *)
(* What SQS accepts from the one is what it delivers to the other.  Lambda *)
(* may retry a run while the sender is at work on what an earlier attempt  *)
(* of it has queued.                                                       *)
(***************************************************************************)
EXTENDS Integers, Sequences, FiniteSets, Functions

CONSTANTS
  Numbers, Dialable, Unusable, Days, Texts, NoText, DialOf, TagOf,  \* the plan
  Thresholds, Rows, Runs, Requested, Unparsable, ForcedDry, StackDry,
  BatchLimit, Invocations, NotPublishing, Faults, MaxFaults,  \* the daily run
  Workers, NoId, NoRequest, DeliveryAttempts, SenderTimeout, VisibilityTimeout,
  SenderFaults, MaxSenderFaults, MaxRedeliveries,             \* the sender
  Reminders,    \* the ids of all those the thresholds' queries plan
  MaxCopies     \* bound: how often the runs of a day queue one reminder

VARIABLES
  phase, attempt, todo, current, failed, broken, outbox, faults,  \* DailyRun
  status, receives, hidden, pc, job, age, log, texts, late,
  configured, mishaps, doubts, redeliveries                       \* MessageSender

producer == <<phase, attempt, todo, current, failed, broken, outbox, faults>>
sender   == <<receives, hidden, pc, job, age, log, texts, late, configured,
              mishaps, doubts, redeliveries>>
vars     == <<producer, status, sender>>

Producer == INSTANCE DailyRun

\* The n-th message that carries a reminder's id.
Messages == Reminders \X (1..MaxCopies)
Copies(k) == {m \in Messages : m[1] = k}

Sender == INSTANCE MessageSender WITH
  Direct       <- {},
  ReminderIds  <- Reminders,
  ReminderIdOf <- [m \in Messages |-> m[1]],
  BodyOf       <- [m \in Messages |-> "ok"],  \* publish wrote it, from a plan
  HasTable     <- TRUE,
  Faults       <- SenderFaults,
  MaxFaults    <- MaxSenderFaults,
  faults       <- mishaps

\* How often the runs of the day may queue a threshold's reminders.
Queueable(t) ==
  SumFunction([r \in {r \in Runs : ~Producer!DryRun(r) /\ t \in Producer!Asked(r)} |->
                 Invocations[r] * Producer!Times(t, Requested[r])])

ASSUME PipelineAssumption ==
  /\ Producer!PlanAssumption /\ Producer!RunsAssumption
  /\ Sender!RequestsAssumption /\ Sender!WorkersAssumption /\ Sender!QueueAssumption
  /\ Reminders = Producer!AllIds
  /\ MaxCopies \in Nat
  /\ \A t \in Thresholds : Queueable(t) <= MaxCopies

TypeOK ==
  /\ Producer!TypeOK
  /\ Sender!TypeOK
  /\ \A k \in Reminders : Cardinality({m \in Copies(k) : status[m] # "new"}) = outbox[k]

-----------------------------------------------------------------------------
\* A plausible bug in Queued: SQS is believed to drop a second message with
\* the same reminder_id, as a FIFO queue would.
QueuedOnce == status' = [m \in Messages |->
  IF status[m] = "new" /\ m[2] = 1 /\ m[2] <= outbox'[m[1]] THEN "queued" ELSE status[m]]

\* SQS holds one more message for each copy it took in this step.
Queued == status' = [m \in Messages |->
  IF status[m] = "new" /\ m[2] <= outbox'[m[1]] THEN "queued" ELSE status[m]]

\* A step of one component: the queue takes what the daily run put on it; what
\* the sender does is nothing to the daily run.
Upstream(step)   == step /\ Queued /\ UNCHANGED sender
Downstream(step) == step /\ UNCHANGED producer

Receive(m) == \E w \in Workers : Sender!Receive(w, m)

Init == Producer!Init /\ Sender!Init

Next ==
  \/ \E r \in Runs : \/ Upstream(Producer!Start(r))
                     \/ Upstream(Producer!Handle(r))
                     \/ Upstream(Producer!Failure(r))
  \/ \E w \in Workers : \/ Downstream(Sender!Work(w))
                        \/ Downstream(Sender!Failure(w))
  \/ \E m \in Messages :
       \/ Downstream(Receive(m) \/ Sender!DeadLetter(m))
       \/ Downstream(\E w \in Workers : Sender!DeliverAgain(w, m))
       \/ Downstream(Sender!LateAccepted(m) \/ Sender!LateDropped(m))
  \/ Downstream(Sender!FillSecret)
  \/ Downstream(Sender!Tick)

Spec == Init /\ [][Next]_vars

\* What each component may count on, and nothing more: Lambda goes on with a
\* run and retries it; time, the workers and the queue do their part.
FairSpec ==
  /\ Spec
  /\ \A r \in Runs : WF_vars(Upstream(Producer!Start(r)))
                     /\ WF_vars(Upstream(Producer!Handle(r)))
  /\ \A w \in Workers : WF_vars(Downstream(Sender!Work(w)))
  /\ \A m \in Messages : WF_vars(Downstream(Receive(m) \/ Sender!DeadLetter(m)))
  /\ WF_vars(Downstream(Sender!Tick))

-----------------------------------------------------------------------------
(* Properties.                                                             *)

AskedFor(r) == UNION {Producer!IdsOf(Producer!Planned[t]) : t \in Producer!Asked(r)}
Texted(k) == \E m \in Copies(k) : texts[m] > 0
TextsOf(k) == SumFunctionOnSet([m \in Messages |-> texts[m] + late[m]], Copies(k))

\* A day's run that answers 200 leaves nobody out: each person it was asked
\* to remind has been texted, or a message for them is on the queue or among
\* the dead letters, or its answer names them as failed.  Neither end of the
\* queue can see to that alone.
NobodyIsForgotten ==
  \A r \in Runs : phase[r] = "returned" /\ ~Producer!DryRun(r) =>
    \A k \in AskedFor(r) :
      \/ Texted(k)
      \/ \E m \in Copies(k) : status[m] \in {"queued", "dead"}
      \/ k \in failed[r].total

\* However often a run is retried, and whoever runs it again by hand, nobody
\* is texted about a hearing more often than there are invocations to race,
\* but for failures that leave a text in doubt (handler: "running twice in a
\* day").
RetriesDoNotMultiply ==
  \A k \in Reminders : TextsOf(k) <= Cardinality(Workers) + doubts

\* The retry "is safe for the thresholds that already succeeded; their ids
\* are already sent" (handler): nobody is texted twice.
RetryIsSafe == \A k \in Reminders : TextsOf(k) <= 1

\* What a run was asked for ends: as long as fewer of its attempts fail than
\* Lambda makes, each of its reminders is texted, dead-lettered or reported.
EveryReminderEnds ==
  \A r \in Runs : MaxFaults < Invocations[r] /\ ~Producer!DryRun(r) =>
    \A k \in AskedFor(r) :
      <>(\/ Texted(k)
         \/ \E m \in Copies(k) : status[m] = "dead"
         \/ k \in failed[r].total)

\* With the TrueDialog secret filled in before the first run, and no more
\* failures at either end than it retries, the person is texted, unless SQS
\* rejected the entry.
RemindersReachPeople ==
  configured /\ MaxSenderFaults + MaxRedeliveries < DeliveryAttempts =>
    \A r \in Runs : MaxFaults < Invocations[r] /\ ~Producer!DryRun(r) =>
      \A k \in AskedFor(r) : <>(Texted(k) \/ k \in failed[r].total)
=============================================================================
