--------------------------- MODULE MessageSender ---------------------------
(***************************************************************************)
(* The text sender: lambda/message_sender.py, the sent log it consults     *)
(* (lambda/sent_log.py) and the queue wiring of cdk_stack/cdk_stack.py.    *)
(*                                                                         *)
(* A request reaches the sender as a message of the outbox queue, which is *)
(* delivered at least once, or directly (function URL, console), which is  *)
(* answered once.  The queue and the TrueDialog service are external: they *)
(* are modelled by what the sender can observe of them.  One invocation    *)
(* handles one request, since OUTBOX_BATCH_SIZE is 1.                      *)
(***************************************************************************)
EXTENDS Integers, FiniteSets, Functions

CONSTANTS
  Messages,           \* requests that arrive on the outbox queue
  Direct,             \* requests that arrive by function URL or invocation
  Workers,            \* concurrent Lambda execution environments
  ReminderIds,        \* the reminder_ids a producer may set
  NoId,               \* a request without a reminder_id
  NoRequest,          \* what an idle worker is working on
  ReminderIdOf,       \* the reminder_id field of each request, or NoId
  BodyOf,             \* what the body of each request holds
  HasTable,           \* SENT_LOG_TABLE is set
  DeliveryAttempts,   \* OUTBOX_DELIVERY_ATTEMPTS
  SenderTimeout,      \* SENDER_TIMEOUT, in ticks
  VisibilityTimeout,  \* OUTBOX_VISIBILITY_TIMEOUT, in ticks
  Faults,             \* the kinds of failure that may happen
  MaxFaults,          \* bound: failures in one behaviour
  MaxRedeliveries     \* bound: deliveries SQS repeats with nothing wrong

Requests == Messages \cup Direct

\* After a doubtful failure nobody at this end knows whether the text went
\* out or was logged; a clean one leaves no such doubt.
CleanFaults    == {"log_read", "reject", "delete", "crash"}
DoubtfulFaults == {"lost_answer", "log_write", "crash_mid_send"}

\* "ok" is textable; "malformed" is no {to, message} object, in a queue message
\* or a POST; "undialable" parses but normalize_us_phone refuses its number.  An
\* invocation that names no recipient or no message asks for no text: it gets
\* the readiness report, and is none of these requests.
Bodies == {"ok", "malformed", "undialable"}

ASSUME RequestsAssumption ==
  /\ Messages \cap Direct = {}
  /\ ReminderIds \cap Requests = {}
  /\ NoId \notin ReminderIds \cup Requests
  /\ NoRequest \notin Requests
  /\ ReminderIdOf \in [Requests -> ReminderIds \cup {NoId}]
  /\ BodyOf \in [Requests -> Bodies]
  /\ HasTable \in BOOLEAN

\* Lambda's concurrency has a limit, if only the account's.
ASSUME WorkersAssumption == IsFiniteSet(Workers)

ASSUME QueueAssumption ==
  /\ DeliveryAttempts \in Nat \ {0}
  /\ SenderTimeout \in Nat
  /\ VisibilityTimeout \in Nat
  /\ SenderTimeout < VisibilityTimeout
  /\ Faults \subseteq CleanFaults \cup DoubtfulFaults
  /\ MaxFaults \in Nat
  /\ MaxRedeliveries \in Nat

VARIABLES
  status,       \* where each request stands
  receives,     \* how often the queue has handed each message out
  hidden,       \* ticks until a received message is visible again
  pc, job, age, \* of each worker: next step, its request, ticks it has run
  log,          \* the ids in the sent log table
  texts,        \* texts TrueDialog has accepted for each request
  late,         \* pushes TrueDialog may still take though nobody waits
  configured,   \* the TrueDialog secret has been filled in
  faults,       \* clean failures so far
  doubts,       \* doubtful failures so far
  redeliveries  \* repeated deliveries so far

queue  == <<receives, hidden>>
worker == <<pc, job, age>>
provider == <<texts, late>>
bounds == <<faults, doubts, redeliveries>>
vars   == <<status, queue, worker, log, provider, configured, bounds>>

Stages == {"idle", "start", "check", "send", "wait", "record", "finish"}

TypeOK ==
  /\ status \in [Requests -> {"new", "queued", "taken", "done", "dead", "failed"}]
  /\ receives \in [Messages -> 0..DeliveryAttempts]
  /\ hidden \in [Messages -> 0..VisibilityTimeout]
  /\ pc \in [Workers -> Stages]
  /\ job \in [Workers -> Requests \cup {NoRequest}]
  /\ age \in [Workers -> 0..SenderTimeout]
  /\ log \subseteq ReminderIds \cup Messages
  /\ texts \in [Requests -> Nat]
  /\ late \in [Requests -> Nat]
  /\ configured \in BOOLEAN
  /\ faults \in 0..MaxFaults
  /\ doubts \in 0..MaxFaults
  /\ redeliveries \in 0..MaxRedeliveries

-----------------------------------------------------------------------------
(* Plausible bugs, which no specification uses: put in the place of the    *)
(* definition each names, they show that the properties can fail.          *)

\* Id: the SQS message id is preferred to the request's own.
IdOfMessageFirst(r) == IF r \in Messages THEN r ELSE ReminderIdOf[r]

\* Recorded: the write goes to the log that remembers nothing.
RecordedNowhere(k) == log

\* MayDeliver: the redrive policy does not limit receives.
MayAlwaysDeliver(m) == TRUE

\* Exhausted: the redrive limit is off by one.
ExhaustedLater(m) == receives[m] > DeliveryAttempts

\* Lease: a message stays hidden no longer than the sender may run.
BriefLease == SenderTimeout

-----------------------------------------------------------------------------
(* The id a text is logged under, and the log itself.                      *)

\* request.get("reminder_id") or the SQS message id; a direct request
\* without a reminder_id has none at all.
Id(r) ==
  IF ReminderIdOf[r] # NoId THEN ReminderIdOf[r]
  ELSE IF r \in Messages THEN r ELSE NoId

\* Two requests that ask for the same reminder.
SameReminder(r, s) == r = s \/ (Id(r) = Id(s) /\ Id(r) # NoId)

AlreadySent(k) == HasTable /\ k # NoId /\ k \in log
Recorded(k) == IF HasTable /\ k # NoId THEN log \cup {k} ELSE log

-----------------------------------------------------------------------------
(* Helpers of the actions.                                                 *)

Busy(w) == pc[w] # "idle"
Step(w, from, to) == pc[w] = from /\ pc' = [pc EXCEPT ![w] = to]

\* A failure of kind f, within the bound on failures.
Fault(f) ==
  /\ f \in Faults
  /\ faults + doubts < MaxFaults
  /\ faults' = IF f \in CleanFaults THEN faults + 1 ELSE faults
  /\ doubts' = IF f \in DoubtfulFaults THEN doubts + 1 ELSE doubts
  /\ UNCHANGED redeliveries

Assign(w, r) ==
  /\ pc[w] = "idle"
  /\ pc' = [pc EXCEPT ![w] = "start"]
  /\ job' = [job EXCEPT ![w] = r]
  /\ age' = [age EXCEPT ![w] = 0]

Free(w) ==
  /\ pc' = [pc EXCEPT ![w] = "idle"]
  /\ job' = [job EXCEPT ![w] = NoRequest]
  /\ age' = [age EXCEPT ![w] = 0]

\* The invocation ends without the message being deleted: its id is in
\* batchItemFailures, or the invocation itself failed.  Either way the
\* message stays on the queue until its visibility timeout runs out.  The
\* caller of a direct request gets an error.
Fail(w) ==
  /\ Free(w)
  /\ status' = [status EXCEPT ![job[w]] = IF @ = "taken" THEN "failed" ELSE @]
  /\ UNCHANGED queue

Visible(m) == status[m] = "queued" /\ hidden[m] = 0

-----------------------------------------------------------------------------
(* The queue and the callers.                                              *)

\* The redrive policy, and how long a received message stays hidden.
MayDeliver(m) == receives[m] < DeliveryAttempts
Exhausted(m)  == receives[m] = DeliveryAttempts
Lease == VisibilityTimeout

\* A message is handed to an idle worker.
Deliver(w, m) ==
  /\ MayDeliver(m)
  /\ Assign(w, m)
  /\ receives' = [receives EXCEPT ![m] = @ + 1]
  /\ hidden' = [hidden EXCEPT ![m] = Lease]

\* A producer puts a message on the outbox queue.
Enqueue(m) ==
  /\ status[m] = "new"
  /\ status' = [status EXCEPT ![m] = "queued"]
  /\ UNCHANGED <<queue, worker, log, provider, configured, bounds>>

\* The event source mapping receives a visible message and invokes the sender.
Receive(w, m) ==
  /\ Visible(m)
  /\ Deliver(w, m)
  /\ UNCHANGED <<status, log, provider, configured, bounds>>

\* SQS delivers a message again on its own, although it is in flight or has
\* been deleted: a standard queue is at-least-once.
DeliverAgain(w, m) ==
  /\ status[m] \in {"queued", "done"}
  /\ receives[m] > 0
  /\ redeliveries < MaxRedeliveries
  /\ redeliveries' = redeliveries + 1
  /\ Deliver(w, m)
  /\ UNCHANGED <<status, log, provider, configured, faults, doubts>>

\* The redrive policy moves a message that was received too often.
DeadLetter(m) ==
  /\ Visible(m)
  /\ Exhausted(m)
  /\ status' = [status EXCEPT ![m] = "dead"]
  /\ UNCHANGED <<queue, worker, log, provider, configured, bounds>>

\* A direct request: a POST that passed the key check, or an invocation.
Call(w, d) ==
  /\ status[d] = "new"
  /\ Assign(w, d)
  /\ status' = [status EXCEPT ![d] = "taken"]
  /\ UNCHANGED <<queue, log, provider, configured, bounds>>

\* Somebody fills in the TrueDialog secret.
FillSecret ==
  /\ ~configured
  /\ configured' = TRUE
  /\ UNCHANGED <<status, queue, worker, log, provider, bounds>>

-----------------------------------------------------------------------------
(* The sender.                                                             *)

\* _client() succeeds and the body parses.
BuildClient(w) ==
  /\ Step(w, "start", "check")
  /\ configured /\ BodyOf[job[w]] # "malformed"
  /\ UNCHANGED <<status, queue, job, age, log, provider, configured, bounds>>

\* The secret holds placeholders (the whole batch raises), or the body is
\* not a {to, message} object.
RefuseRequest(w) ==
  /\ pc[w] = "start"
  /\ ~configured \/ BodyOf[job[w]] = "malformed"
  /\ Fail(w)
  /\ UNCHANGED <<log, provider, configured, bounds>>

\* A plausible bug in CheckLog: the log is read, and what it says ignored.
CheckLogIdly(w) ==
  /\ Step(w, "check", "send")
  /\ UNCHANGED <<status, queue, job, age, log, provider, configured, bounds>>

\* log.already_sent: a reminder already texted is dropped, and the message
\* counts as handled.
CheckLog(w) ==
  /\ Step(w, "check", IF AlreadySent(Id(job[w])) THEN "finish" ELSE "send")
  /\ UNCHANGED <<status, queue, job, age, log, provider, configured, bounds>>

CheckLogFails(w) ==
  /\ pc[w] = "check"
  /\ HasTable /\ Id(job[w]) # NoId
  /\ Fault("log_read")
  /\ Fail(w)
  /\ UNCHANGED <<log, provider, configured>>

\* A plausible bug in Post: the id is written before TrueDialog has answered.
PostAndRecord(w) ==
  /\ Step(w, "send", "wait")
  /\ BodyOf[job[w]] = "ok"
  /\ log' = Recorded(Id(job[w]))
  /\ UNCHANGED <<status, queue, job, age, provider, configured, bounds>>

\* send_message posts the push and waits for the answer.
Post(w) ==
  /\ Step(w, "send", "wait")
  /\ BodyOf[job[w]] = "ok"
  /\ UNCHANGED <<status, queue, job, age, log, provider, configured, bounds>>

\* normalize_us_phone raises before any HTTP call.
RefuseNumber(w) ==
  /\ pc[w] = "send"
  /\ BodyOf[job[w]] = "undialable"
  /\ Fail(w)
  /\ UNCHANGED <<log, provider, configured, bounds>>

\* TrueDialog accepts the text and its answer arrives.
Accepted(w) ==
  /\ Step(w, "wait", "record")
  /\ texts' = [texts EXCEPT ![job[w]] = @ + 1]
  /\ UNCHANGED <<status, queue, job, age, log, late, configured, bounds>>

\* A plausible bug in Rejected: an error status is taken for an answer.
RejectionIgnored(w) ==
  /\ Step(w, "wait", "finish")
  /\ Fault("reject")
  /\ UNCHANGED <<status, queue, job, age, log, provider, configured>>

\* TrueDialog itself refuses: it answers with a status below 500 that is no
\* 2xx, and is taken at its word that it did not accept the push.
Rejected(w) ==
  /\ pc[w] = "wait"
  /\ Fault("reject")
  /\ Fail(w)
  /\ UNCHANGED <<log, provider, configured>>

\* The connection drops, the ten-second timeout passes, a 2xx body is not an
\* object, or the status is a 5xx, a gateway's perhaps, that says nothing of
\* the push.  TrueDialog may have taken it, take it later, or never.
LostAnswer(w) ==
  /\ pc[w] = "wait"
  /\ Fault("lost_answer")
  /\ Fail(w)
  /\ late' = [late EXCEPT ![job[w]] = @ + 1]
  /\ UNCHANGED <<log, texts, configured>>

LateAccepted(r) ==
  /\ late[r] > 0
  /\ late' = [late EXCEPT ![r] = @ - 1]
  /\ texts' = [texts EXCEPT ![r] = @ + 1]
  /\ UNCHANGED <<status, queue, worker, log, configured, bounds>>

LateDropped(r) ==
  /\ late[r] > 0
  /\ late' = [late EXCEPT ![r] = @ - 1]
  /\ UNCHANGED <<status, queue, worker, log, texts, configured, bounds>>

\* log.record, skipped for a request without an id.
Record(w) ==
  /\ Step(w, "record", "finish")
  /\ log' = Recorded(Id(job[w]))
  /\ UNCHANGED <<status, queue, job, age, provider, configured, bounds>>

\* put_item raises, and may have been applied all the same: the text is out
\* but the message goes back on the queue.
RecordFails(w) ==
  /\ pc[w] = "record"
  /\ HasTable /\ Id(job[w]) # NoId
  /\ Fault("log_write")
  /\ Fail(w)
  /\ log' \in {log, Recorded(Id(job[w]))}
  /\ UNCHANGED <<provider, configured>>

\* The handler returns no failure: the event source mapping deletes the
\* message, or the caller gets its answer.
Finish(w) ==
  /\ pc[w] = "finish"
  /\ Free(w)
  /\ status' = [status EXCEPT ![job[w]] = "done"]
  /\ hidden' = [r \in Messages |-> IF r = job[w] THEN 0 ELSE hidden[r]]
  /\ UNCHANGED <<receives, log, provider, configured, bounds>>

\* The deletion does not reach the queue, or the answer not the caller.
DeleteLost(w) ==
  /\ pc[w] = "finish"
  /\ Fault("delete")
  /\ Fail(w)
  /\ UNCHANGED <<log, provider, configured>>

\* The Lambda dies with nothing in flight at TrueDialog.
Crash(w) ==
  /\ pc[w] \in {"start", "check", "send", "finish"}
  /\ Fault("crash")
  /\ Fail(w)
  /\ UNCHANGED <<log, provider, configured>>

\* The Lambda dies between handing TrueDialog the text and logging its id.
CrashMidSend(w) ==
  /\ pc[w] \in {"wait", "record"}
  /\ Fault("crash_mid_send")
  /\ Fail(w)
  /\ late' = IF pc[w] = "wait" THEN [late EXCEPT ![job[w]] = @ + 1] ELSE late
  /\ UNCHANGED <<log, texts, configured>>

\* Time passes.  Lambda ends an invocation at its timeout, so no worker runs
\* past it: at the limit it finishes, fails or crashes.
Tick ==
  /\ \A w \in Workers : Busy(w) => age[w] < SenderTimeout
  /\ age' = [w \in Workers |-> IF Busy(w) THEN age[w] + 1 ELSE 0]
  /\ hidden' = [m \in Messages |-> IF hidden[m] > 0 THEN hidden[m] - 1 ELSE 0]
  /\ UNCHANGED <<status, receives, pc, job, log, provider, configured, bounds>>

-----------------------------------------------------------------------------
Init ==
  /\ status = [r \in Requests |-> "new"]
  /\ receives = [m \in Messages |-> 0]
  /\ hidden = [m \in Messages |-> 0]
  /\ pc = [w \in Workers |-> "idle"]
  /\ job = [w \in Workers |-> NoRequest]
  /\ age = [w \in Workers |-> 0]
  /\ log = {}
  /\ texts = [r \in Requests |-> 0]
  /\ late = [r \in Requests |-> 0]
  /\ configured \in BOOLEAN
  /\ faults = 0
  /\ doubts = 0
  /\ redeliveries = 0

\* What a worker does when nothing goes wrong, and the refusals of the code.
Work(w) ==
  \/ BuildClient(w) \/ RefuseRequest(w) \/ CheckLog(w) \/ Post(w)
  \/ RefuseNumber(w) \/ Accepted(w) \/ Record(w) \/ Finish(w)

Failure(w) ==
  \/ CheckLogFails(w) \/ Rejected(w) \/ LostAnswer(w) \/ RecordFails(w)
  \/ DeleteLost(w) \/ Crash(w) \/ CrashMidSend(w)

Next ==
  \/ \E m \in Messages : Enqueue(m) \/ DeadLetter(m)
  \/ \E w \in Workers, m \in Messages : Receive(w, m) \/ DeliverAgain(w, m)
  \/ \E w \in Workers, d \in Direct : Call(w, d)
  \/ \E w \in Workers : Work(w) \/ Failure(w)
  \/ \E r \in Requests : LateAccepted(r) \/ LateDropped(r)
  \/ FillSecret
  \/ Tick

Spec == Init /\ [][Next]_vars

\* A running invocation goes on, time passes, and the event source mapping
\* polls a visible message as long as there is one.  Nothing obliges a
\* producer to enqueue, a fault to happen or TrueDialog to act late.
Fairness ==
  /\ WF_vars(Tick)
  /\ \A w \in Workers : WF_vars(Work(w))
  /\ \A m \in Messages : WF_vars(\E w \in Workers : Receive(w, m))
  /\ \A m \in Messages : WF_vars(DeadLetter(m))

FairSpec == Spec /\ Fairness

-----------------------------------------------------------------------------
(* Properties.                                                             *)

TextedFor(r) == \E s \in Requests : SameReminder(r, s) /\ texts[s] > 0

\* A message that has left the queue without being dead-lettered, and a
\* direct request answered without an error, stand for a text TrueDialog
\* accepted for that reminder: nobody is missed silently, whatever fails
\* (sent_log.py: "an occasional duplicate rather than a silent miss").
NoSilentMiss == \A r \in Requests : status[r] = "done" => TextedFor(r)

\* The log holds only ids whose text TrueDialog accepted: an id is never
\* written before its text (SentLog.record, called last by _send).
LogIsHonest ==
  \A k \in log : \E r \in Requests : Id(r) = k /\ texts[r] > 0

\* A message is handed out again, or dead-lettered, only when no invocation
\* is still working on it: the sender's timeout is shorter than the queue's
\* visibility timeout.  Only SQS's own redeliveries break this.
OneInvocationPerMessage ==
  redeliveries = 0 =>
    \A v, w \in Workers : job[v] = job[w] /\ job[v] \in Messages =>
      v = w /\ status[job[v]] = "queued"

\* Every text beyond the first of one request is paid for by a failure that
\* leaves its fate in doubt or by a delivery SQS repeated: retries after any
\* other failure do not text again.
ExtraTextsAreEarned ==
  HasTable => \A r \in Requests : texts[r] + late[r] <= 1 + doubts + redeliveries

\* "Two gaps remain" (sent_log.py), a crash before the id is written and a
\* race of two invocations: with neither, no request is texted twice.
RetryNeverTextsAgain == \A r \in Requests : texts[r] <= 1

\* Every text that has been, or may yet be, accepted for r's reminder, by the
\* reminder_id its producer set.
Askers(r) ==
  {s \in Requests : s = r \/ (ReminderIdOf[s] = ReminderIdOf[r] /\ ReminderIdOf[r] # NoId)}
TextsOf(r) == SumFunctionOnSet([s \in Requests |-> texts[s] + late[s]], Askers(r))

\* A reminder is texted no more often than there are invocations to race for
\* it, however many requests ask for it and however often SQS repeats them
\* (_send checks the log first); only failures in doubt add to that.
OnlyRacesTextTwice ==
  HasTable => \A r \in Requests : TextsOf(r) <= Cardinality(Workers) + doubts

\* A logged id that no invocation is past checking, and that TrueDialog has
\* no stray push for, is settled: nothing will text it.
InDoubt(w) == pc[w] \in {"send", "wait"}
Settled(k) ==
  /\ AlreadySent(k)
  /\ \A w \in Workers : InDoubt(w) => Id(job[w]) # k
  /\ \A r \in Requests : Id(r) = k => late[r] = 0

\* What is settled stays settled, and is never texted again, however often
\* its message or another one with the same id is delivered.
SettledForGood ==
  [][\A k \in ReminderIds \cup Messages : Settled(k) =>
       /\ Settled(k)'
       /\ \A r \in Requests : Id(r) = k => texts'[r] = texts[r]]_vars

\* The abstract promise, implemented by the sender: status is where a request
\* stands, and a reminder is sealed when its id is settled.
Reminder(r) == IF Id(r) = NoId THEN r ELSE Id(r)
Standing(s) == IF s = "new" THEN "unasked"
               ELSE IF s \in {"queued", "taken"} THEN "owed"
               ELSE IF s = "done" THEN "kept" ELSE "given up"

Promise == INSTANCE ReminderPromise WITH
  Reminders   <- ReminderIds \cup Requests,
  ReminderFor <- [r \in Requests |-> Reminder(r)],
  standing    <- [r \in Requests |-> Standing(status[r])],
  texts       <- texts,
  sealed      <- {k \in ReminderIds \cup Messages : Settled(k)}

\* The sender keeps the promise: no request is reported as done before its
\* reminder was texted, none is dropped without an error or a dead letter,
\* and no settled reminder is texted again.
KeepsPromise == Promise!Spec

\* Every message put on the outbox is, in the end, handled or dead-lettered:
\* none is retried for ever and none is forgotten.
EveryMessageSettles ==
  \A m \in Messages : status[m] = "queued" ~> status[m] \in {"done", "dead"}

\* A deliverable reminder whose first delivery is still ahead when the
\* TrueDialog secret is filled in is texted, as long as fewer deliveries fail
\* or are repeated than the queue allows attempts.
RemindersSurviveFaults ==
  MaxFaults + MaxRedeliveries < DeliveryAttempts =>
    \A m \in Messages :
      (status[m] = "queued" /\ receives[m] = 0 /\ configured /\ BodyOf[m] = "ok")
        ~> TextedFor(m)
=============================================================================
