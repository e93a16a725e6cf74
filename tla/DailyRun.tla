------------------------------ MODULE DailyRun ------------------------------
(***************************************************************************)
(* The producer: lambda/main.py's handler, SenderLogic.run for each        *)
(* threshold, and the outbox it publishes to (lambda/reminders/outbox.py). *)
(*                                                                         *)
(* A run is one event: the daily one EventBridge fires, or an invocation   *)
(* by hand.  Lambda invokes the handler again when an asynchronous event   *)
(* ends in an error.  Runs may overlap; they share the queue.  The court   *)
(* database, SQS and Lambda's retries are external.                        *)
(***************************************************************************)
EXTENDS ReminderPlan

CONSTANTS
  Thresholds,    \* ReminderThreshold
  Rows,          \* what the query returns for each threshold today
  Runs,          \* the events of the day
  Requested,     \* the thresholds each event asks for, or Unparsable
  Unparsable,    \* a thresholds value that _requested refuses
  ForcedDry,     \* runs whose event has dry_run
  StackDry,      \* OUTBOX_QUEUE_URL unset, or REMINDERS_DRY_RUN true
  BatchLimit,    \* BATCH_LIMIT
  Invocations,   \* how often Lambda invokes the handler for one run at most
  NotPublishing, \* the handler is not inside publish
  Faults,        \* the kinds of failure that may happen
  MaxFaults      \* bound: failures in one behaviour

ASSUME RunsAssumption ==
  /\ Rows \in [Thresholds -> Seq(Hearing)]
  /\ IsFiniteSet(Thresholds) /\ IsFiniteSet(Runs)
  /\ Requested \in [Runs -> Seq(Thresholds) \cup {Unparsable}]
  /\ Unparsable \notin Seq(Thresholds)
  /\ NotPublishing \notin Seq([to : Dialable, message : Texts,
                               reminder_id : Thresholds \X Days \X Range(TagOf)])
  /\ ForcedDry \subseteq Runs
  /\ StackDry \in BOOLEAN
  /\ BatchLimit \in Nat \ {0}
  /\ Invocations \in [Runs -> Nat \ {0}]
  /\ Faults \subseteq {"query", "entry", "batch", "crash"}
  /\ MaxFaults \in Nat

VARIABLES
  phase,      \* of each run
  attempt,    \* invocations of the handler so far
  todo,       \* thresholds the loop has not finished
  current,    \* messages publish has still to send, or NotPublishing
  failed,     \* the ids the results of the run report as failed
  broken,     \* thresholds in `failures`
  outbox,     \* how many messages with each reminder_id the queue was given
  faults      \* failures so far

vars == <<phase, attempt, todo, current, failed, broken, outbox, faults>>

Planned == [t \in Thresholds |-> Plan(t, Rows[t]).messages]
IdsOf(messages) == {m.reminder_id : m \in ToSet(messages)}
AllIds == UNION {IdsOf(Planned[t]) : t \in Thresholds}

DryRun(r) == StackDry \/ r \in ForcedDry
Asked(r) == IF Requested[r] = Unparsable THEN {} ELSE ToSet(Requested[r])

TypeOK ==
  /\ phase \in [Runs -> {"waiting", "running", "returned", "raised", "gave up"}]
  /\ \A r \in Runs : attempt[r] \in 0..Invocations[r]
  /\ todo \in [Runs -> Seq(Thresholds)]
  /\ \A r \in Runs : current[r] # NotPublishing => IdsOf(current[r]) \subseteq AllIds
  /\ failed \in [Runs -> [now : SUBSET AllIds, total : SUBSET AllIds]]
  /\ broken \in [Runs -> SUBSET Thresholds]
  /\ outbox \in [AllIds -> Nat]
  /\ faults \in 0..MaxFaults

Running(r)    == phase[r] = "running"
Publishing(r) == Running(r) /\ current[r] # NotPublishing
Choosing(r)   == Running(r) /\ current[r] = NotPublishing

Fault(f) == f \in Faults /\ faults < MaxFaults /\ faults' = faults + 1

\* A plausible bug in RaisedPhase: one retry too many.
RaisedPhaseLate(r) == IF attempt[r] <= Invocations[r] THEN "raised" ELSE "gave up"

\* The invocation ended in an error: Lambda tries again, up to a limit.
RaisedPhase(r) == IF attempt[r] < Invocations[r] THEN "raised" ELSE "gave up"

\* `failures.append` and the error result, which drops what publish returned.
Break(r) ==
  /\ broken' = [broken EXCEPT ![r] = @ \cup {Head(todo[r])}]
  /\ todo' = [todo EXCEPT ![r] = Tail(@)]
  /\ current' = [current EXCEPT ![r] = NotPublishing]
  /\ failed' = [failed EXCEPT ![r].now = {}]
  /\ UNCHANGED <<phase, attempt>>

\* _batched: the next entries, and what is left after them.
Batch(messages) == SubSeq(messages, 1, IF Len(messages) < BatchLimit
                                       THEN Len(messages) ELSE BatchLimit)
\* A plausible bug in AfterBatch: consecutive slices overlap by one.
AfterBatchOverlapping(messages) ==
  IF Len(messages) <= BatchLimit THEN <<>>
  ELSE SubSeq(messages, BatchLimit, Len(messages))
AfterBatch(messages) == SubSeq(messages, Len(Batch(messages)) + 1, Len(messages))

Put(ids) == outbox' = [k \in AllIds |-> IF k \in ids THEN outbox[k] + 1 ELSE outbox[k]]

-----------------------------------------------------------------------------
\* Lambda invokes the handler, for the first time or again after an error;
\* _requested yields the thresholds.
Invoke(r) ==
  /\ phase[r] \in {"waiting", "raised"}
  /\ Requested[r] # Unparsable
  /\ phase' = [phase EXCEPT ![r] = "running"]
  /\ attempt' = [attempt EXCEPT ![r] = @ + 1]
  /\ todo' = [todo EXCEPT ![r] = Requested[r]]
  /\ current' = [current EXCEPT ![r] = NotPublishing]
  /\ failed' = [failed EXCEPT ![r] = [now |-> {}, total |-> {}]]
  /\ broken' = [broken EXCEPT ![r] = {}]
  /\ UNCHANGED <<outbox, faults>>

\* _requested or ReminderThreshold.parse raises before anything is done.
Refuse(r) ==
  /\ phase[r] \in {"waiting", "raised"}
  /\ Requested[r] = Unparsable
  /\ attempt' = [attempt EXCEPT ![r] = @ + 1]
  /\ phase' = [phase EXCEPT ![r] =
                 IF attempt[r] + 1 < Invocations[r] THEN "raised" ELSE "gave up"]
  /\ UNCHANGED <<todo, current, failed, broken, outbox, faults>>

\* run(): query and plan the next threshold, and start publishing.
Generate(r) ==
  /\ Choosing(r)
  /\ todo[r] # <<>>
  /\ current' = [current EXCEPT ![r] = Planned[Head(todo[r])]]
  /\ UNCHANGED <<phase, attempt, todo, failed, broken, outbox, faults>>

QueryFails(r) ==
  /\ Choosing(r)
  /\ todo[r] # <<>>
  /\ Fault("query")
  /\ Break(r)
  /\ UNCHANGED outbox

\* send_message_batch: SQS takes every entry, or rejects some of them, which
\* are counted rather than raised.
PublishBatch(r) ==
  /\ Publishing(r)
  /\ ~DryRun(r)
  /\ current[r] # <<>>
  /\ LET ids == IdsOf(Batch(current[r])) IN
     \E rejected \in SUBSET ids :
       /\ IF rejected = {} THEN UNCHANGED faults ELSE Fault("entry")
       /\ Put(ids \ rejected)
       /\ failed' = [failed EXCEPT ![r].now = @ \cup rejected]
  /\ current' = [current EXCEPT ![r] = AfterBatch(@)]
  /\ UNCHANGED <<phase, attempt, todo, broken>>

\* The call itself raises; SQS may have taken entries all the same.
PublishFails(r) ==
  /\ Publishing(r)
  /\ ~DryRun(r)
  /\ current[r] # <<>>
  /\ Fault("batch")
  /\ \E taken \in SUBSET IdsOf(Batch(current[r])) : Put(taken)
  /\ Break(r)

\* DryRunOutbox.publish reports the messages and queues nothing.
PublishNothing(r) ==
  /\ Publishing(r)
  /\ DryRun(r)
  /\ current[r] # <<>>
  /\ current' = [current EXCEPT ![r] = <<>>]
  /\ UNCHANGED <<phase, attempt, todo, failed, broken, outbox, faults>>

\* A plausible bug in Conclude: leaving the loop once a publish reported a
\* failed entry.
ConcludeAndStop(r) ==
  /\ Publishing(r)
  /\ current[r] = <<>>
  /\ current' = [current EXCEPT ![r] = NotPublishing]
  /\ todo' = [todo EXCEPT ![r] = IF failed[r].now = {} THEN Tail(@) ELSE <<>>]
  /\ failed' = [failed EXCEPT ![r] = [now |-> {}, total |-> @.now \cup @.total]]
  /\ UNCHANGED <<phase, attempt, broken, outbox, faults>>

\* run() returns its summary, and the handler adds it to the results.
Conclude(r) ==
  /\ Publishing(r)
  /\ current[r] = <<>>
  /\ current' = [current EXCEPT ![r] = NotPublishing]
  /\ todo' = [todo EXCEPT ![r] = Tail(@)]
  /\ failed' = [failed EXCEPT ![r] = [now |-> {}, total |-> @.now \cup @.total]]
  /\ UNCHANGED <<phase, attempt, broken, outbox, faults>>

\* A plausible bug in AnswerPhase: the handler returns 200 whatever broke.
AnswerAlways(r) == "returned"

\* The handler returns 200, or raises when a threshold broke.
AnswerPhase(r) == IF broken[r] = {} THEN "returned" ELSE RaisedPhase(r)

Answer(r) ==
  /\ Choosing(r)
  /\ todo[r] = <<>>
  /\ phase' = [phase EXCEPT ![r] = AnswerPhase(r)]
  /\ UNCHANGED <<attempt, todo, current, failed, broken, outbox, faults>>

\* The Lambda dies or times out at any point of the run.
Crash(r) ==
  /\ Running(r)
  /\ Fault("crash")
  /\ phase' = [phase EXCEPT ![r] = RaisedPhase(r)]
  /\ UNCHANGED <<attempt, todo, current, failed, broken, outbox>>

-----------------------------------------------------------------------------
Init ==
  /\ phase = [r \in Runs |-> "waiting"]
  /\ attempt = [r \in Runs |-> 0]
  /\ todo = [r \in Runs |-> <<>>]
  /\ current = [r \in Runs |-> NotPublishing]
  /\ failed = [r \in Runs |-> [now |-> {}, total |-> {}]]
  /\ broken = [r \in Runs |-> {}]
  /\ outbox = [k \in AllIds |-> 0]
  /\ faults = 0

Handle(r) ==
  \/ Generate(r) \/ PublishBatch(r) \/ PublishNothing(r) \/ Conclude(r) \/ Answer(r)

Start(r) == Invoke(r) \/ Refuse(r)
Failure(r) == QueryFails(r) \/ PublishFails(r) \/ Crash(r)

Next == \E r \in Runs : Start(r) \/ Handle(r) \/ Failure(r)

Spec == Init /\ [][Next]_vars

\* Lambda runs what it has started and retries what ended in an error.  The
\* first invocation of a run is the schedule's: one event arrives each day.
FairSpec == Spec /\ \A r \in Runs : WF_vars(Start(r)) /\ WF_vars(Handle(r))

-----------------------------------------------------------------------------
(* Properties.                                                             *)

Times(t, list) == Cardinality({i \in DOMAIN list : list[i] = t})

\* When the handler is about to answer, every threshold that was asked for
\* is queued, but for the ids the results report as failed, or is among the
\* thresholds that broke.  One broken threshold or rejected entry stops no
\* other (handler: "somebody's hearing is tomorrow"; publish).
EveryReminderIsQueuedOrReported ==
  \A r \in Runs : Choosing(r) /\ todo[r] = <<>> /\ ~DryRun(r) =>
    \A t \in Asked(r) \ broken[r] : \A k \in IdsOf(Planned[t]) :
      outbox[k] > 0 \/ k \in failed[r].total

\* The queue holds a reminder no more often than runs that may queue it were
\* invoked: no batch repeats an entry, a dry run queues nothing, and a
\* threshold nobody asked for queues nothing.
CopiesComeFromRuns ==
  \A t \in Thresholds : \A k \in IdsOf(Planned[t]) :
    outbox[k] <= SumFunction([r \in {r \in Runs : ~DryRun(r) /\ t \in Asked(r)} |->
                                       attempt[r] * Times(t, Requested[r])])

\* A run that fails less often than Lambda invokes it ends up having queued
\* everything it was asked for, but for the entries SQS rejected, which its
\* last answer reports: a threshold that broke once is run again.
EventuallyQueued ==
  \A r \in Runs : MaxFaults < Invocations[r] /\ ~DryRun(r) =>
    <>(\A t \in Asked(r) : \A k \in IdsOf(Planned[t]) :
         outbox[k] > 0 \/ k \in failed[r].total)

\* The ids of rejected entries are "returned, so the caller can decide what a
\* failure means" (Outbox.publish): a run that is not to pass "as a quiet success"
\* (handler, which says so of thresholds that broke) has queued all it was asked
\* for when it answers 200.
NoQuietSuccess ==
  \A r \in Runs : phase[r] = "returned" /\ ~DryRun(r) =>
    \A t \in Asked(r) : \A k \in IdsOf(Planned[t]) : outbox[k] > 0
=============================================================================
