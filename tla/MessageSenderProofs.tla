------------------------ MODULE MessageSenderProofs ------------------------
(***************************************************************************)
(* Proofs about the sender, for any number of messages, direct requests,   *)
(* workers, reminder ids, faults and redeliveries: its safety properties,  *)
(* that it keeps the promise, and how often it texts one request and one   *)
(* reminder.                                                               *)
(***************************************************************************)
EXTENDS MessageSender, DataLemmas

-----------------------------------------------------------------------------
(* Type correctness.                                                       *)

\* A worker has a request exactly while it is busy.
JobOK ==
  \A w \in Workers : /\ Busy(w) => job[w] \in Requests
                     /\ ~Busy(w) => job[w] = NoRequest

TypeInv == TypeOK /\ JobOK

\* The id of a request is one the log may hold, or none.
LEMMA IdType ==
  ASSUME NEW r \in Requests
  PROVE  /\ Id(r) \in ReminderIds \cup Messages \cup {NoId}
         /\ Id(r) # NoId => Id(r) \in ReminderIds \cup Messages
  BY RequestsAssumption DEF Id, Requests

\* What the log becomes is still a set of ids.
LEMMA RecordedType ==
  ASSUME NEW r \in Requests, log \subseteq ReminderIds \cup Messages
  PROVE  Recorded(Id(r)) \subseteq ReminderIds \cup Messages
  BY IdType DEF Recorded

\* What a failed invocation leaves behind.
LEMMA FailType ==
  ASSUME TypeInv, NEW w \in Workers, Busy(w), Fail(w)
  PROVE  /\ status' \in [Requests -> {"new", "queued", "taken", "done", "dead", "failed"}]
         /\ receives' \in [Messages -> 0..DeliveryAttempts]
         /\ hidden' \in [Messages -> 0..VisibilityTimeout]
         /\ pc' \in [Workers -> Stages]
         /\ job' \in [Workers -> Requests \cup {NoRequest}]
         /\ age' \in [Workers -> 0..SenderTimeout]
         /\ JobOK'
  BY QueueAssumption DEF TypeInv, TypeOK, JobOK, Busy, Fail, Free, queue, Stages

\* A fault stays within its bound.
LEMMA FaultType ==
  ASSUME TypeOK, NEW f, Fault(f)
  PROVE  /\ faults' \in 0..MaxFaults
         /\ doubts' \in 0..MaxFaults
         /\ redeliveries' \in 0..MaxRedeliveries
  BY QueueAssumption DEF TypeOK, Fault

\* TypeInv is inductive.
LEMMA TypeInductive == TypeInv /\ [Next]_vars => TypeInv'
<1> SUFFICES ASSUME TypeInv, [Next]_vars PROVE TypeInv'
  OBVIOUS
<1> USE QueueAssumption, RequestsAssumption
<1>1. ASSUME NEW m \in Messages, Enqueue(m) \/ DeadLetter(m)
      PROVE  TypeInv'
  BY <1>1 DEF TypeInv, TypeOK, JobOK, Busy, Enqueue, DeadLetter, Visible, queue, worker, provider, bounds, Requests
<1>2. ASSUME NEW w \in Workers, NEW m \in Messages, Receive(w, m)
      PROVE  TypeInv'
  BY <1>2 DEF TypeInv, TypeOK, JobOK, Busy, Receive, Deliver, Assign, MayDeliver, Lease, Visible, queue, worker, provider, bounds, Requests, Stages
<1>3. ASSUME NEW w \in Workers, NEW m \in Messages, DeliverAgain(w, m)
      PROVE  TypeInv'
  BY <1>3 DEF TypeInv, TypeOK, JobOK, Busy, DeliverAgain, Deliver, Assign, MayDeliver, Lease, queue, worker, provider, bounds, Requests, Stages
<1>4. ASSUME NEW w \in Workers, NEW d \in Direct, Call(w, d)
      PROVE  TypeInv'
  BY <1>4 DEF TypeInv, TypeOK, JobOK, Busy, Call, Assign, queue, worker, provider, bounds, Requests, Stages
<1>5. ASSUME NEW w \in Workers, Work(w)
      PROVE  TypeInv'
  <2>1. CASE BuildClient(w)
    BY <2>1 DEF TypeInv, TypeOK, JobOK, Busy, BuildClient, Step, queue, worker, provider, bounds, Stages
  <2>2. CASE RefuseRequest(w)
    BY <2>2, FailType DEF TypeInv, TypeOK, Busy, RefuseRequest, provider, bounds
  <2>3. CASE CheckLog(w)
    BY <2>3 DEF TypeInv, TypeOK, JobOK, Busy, CheckLog, Step, queue, worker, provider, bounds, Stages
  <2>4. CASE Post(w)
    BY <2>4 DEF TypeInv, TypeOK, JobOK, Busy, Post, Step, queue, worker, provider, bounds, Stages
  <2>5. CASE RefuseNumber(w)
    BY <2>5, FailType DEF TypeInv, TypeOK, Busy, RefuseNumber, provider, bounds
  <2>6. CASE Accepted(w)
    BY <2>6 DEF TypeInv, TypeOK, JobOK, Busy, Accepted, Step, queue, worker, provider, bounds, Stages
  <2>7. CASE Record(w)
    <3>1. job[w] \in Requests
      BY <2>7 DEF TypeInv, JobOK, Busy, Record, Step
    <3>2. log' \subseteq ReminderIds \cup Messages
      BY <2>7, <3>1, RecordedType DEF TypeInv, TypeOK, Record
    <3> QED
      BY <2>7, <3>2 DEF TypeInv, TypeOK, JobOK, Busy, Record, Step, queue, worker, provider, bounds, Stages
  <2>8. CASE Finish(w)
    BY <2>8 DEF TypeInv, TypeOK, JobOK, Busy, Finish, Free, queue, worker, provider, bounds, Stages
  <2> QED
    BY <1>5, <2>1, <2>2, <2>3, <2>4, <2>5, <2>6, <2>7, <2>8 DEF Work
<1>6. ASSUME NEW w \in Workers, Failure(w)
      PROVE  TypeInv'
  <2>1. CASE CheckLogFails(w)
    BY <2>1, FailType, FaultType DEF TypeInv, TypeOK, Busy, CheckLogFails, provider
  <2>2. CASE Rejected(w)
    BY <2>2, FailType, FaultType DEF TypeInv, TypeOK, Busy, Rejected, provider
  <2>3. CASE LostAnswer(w)
    <3>1. job[w] \in Requests
      BY <2>3 DEF TypeInv, JobOK, Busy, LostAnswer
    <3>2. late' \in [Requests -> Nat]
      BY <2>3, <3>1 DEF TypeInv, TypeOK, LostAnswer
    <3> QED
      BY <2>3, <3>2, FailType, FaultType DEF TypeInv, TypeOK, Busy, LostAnswer
  <2>4. CASE RecordFails(w)
    <3>1. job[w] \in Requests
      BY <2>4 DEF TypeInv, JobOK, Busy, RecordFails
    <3>2. log' \subseteq ReminderIds \cup Messages
      BY <2>4, <3>1, RecordedType DEF TypeInv, TypeOK, RecordFails
    <3> QED
      BY <2>4, <3>2, FailType, FaultType DEF TypeInv, TypeOK, Busy, RecordFails, provider
  <2>5. CASE DeleteLost(w)
    BY <2>5, FailType, FaultType DEF TypeInv, TypeOK, Busy, DeleteLost, provider
  <2>6. CASE Crash(w)
    BY <2>6, FailType, FaultType DEF TypeInv, TypeOK, Busy, Crash, provider
  <2>7. CASE CrashMidSend(w)
    <3>1. job[w] \in Requests
      BY <2>7 DEF TypeInv, JobOK, Busy, CrashMidSend
    <3>2. late' \in [Requests -> Nat]
      BY <2>7, <3>1 DEF TypeInv, TypeOK, CrashMidSend
    <3> QED
      BY <2>7, <3>2, FailType, FaultType DEF TypeInv, TypeOK, Busy, CrashMidSend
  <2> QED
    BY <1>6, <2>1, <2>2, <2>3, <2>4, <2>5, <2>6, <2>7 DEF Failure
<1>7. ASSUME NEW r \in Requests, LateAccepted(r) \/ LateDropped(r)
      PROVE  TypeInv'
  BY <1>7 DEF TypeInv, TypeOK, JobOK, Busy, LateAccepted, LateDropped, queue, worker, bounds
<1>8. CASE FillSecret
  BY <1>8 DEF TypeInv, TypeOK, JobOK, Busy, FillSecret, queue, worker, provider, bounds
<1>9. CASE Tick
  BY <1>9 DEF TypeInv, TypeOK, JobOK, Busy, Tick, provider, bounds
<1>10. CASE UNCHANGED vars
  BY <1>10 DEF TypeInv, TypeOK, JobOK, Busy, vars, queue, worker, provider, bounds
<1> QED
  BY <1>1, <1>2, <1>3, <1>4, <1>5, <1>6, <1>7, <1>8, <1>9, <1>10 DEF Next

\* The initial state is well typed.
LEMMA TypeInit == Init => TypeInv
  BY QueueAssumption, RequestsAssumption DEF Init, TypeInv, TypeOK, JobOK, Busy, Stages

\* Every state of the sender, its queue and its log is well typed: no message
\* is received more often than the redrive policy allows, none is hidden
\* longer than the visibility timeout and no invocation outlives its own.
THEOREM TypeCorrect == Spec => []TypeOK
<1>1. TypeInv => TypeOK
  BY DEF TypeInv
<1> QED
  BY <1>1, TypeInit, TypeInductive, PTL DEF Spec

-----------------------------------------------------------------------------
(* No silent miss.                                                         *)

\* A worker past the acceptance has had its text accepted; one that is about
\* to report success works on a reminder that has been texted.
ProgressOK ==
  \A w \in Workers : /\ pc[w] = "record" => texts[job[w]] > 0
                     /\ pc[w] = "finish" => TextedFor(job[w])

TextedInv == ProgressOK /\ LogIsHonest /\ NoSilentMiss

\* Requests that have been texted stay texted.
Growing == \A r \in Requests : texts[r] > 0 => texts'[r] > 0

\* No step takes an accepted text back.
LEMMA TextsGrow == TypeInv /\ [Next]_vars => Growing
<1> SUFFICES ASSUME TypeInv, [Next]_vars PROVE Growing
  OBVIOUS
<1>1. ASSUME NEW w \in Workers, Accepted(w) PROVE Growing
  BY <1>1 DEF Growing, Accepted, TypeInv, TypeOK
<1>2. ASSUME NEW r \in Requests, LateAccepted(r) PROVE Growing
  BY <1>2 DEF Growing, LateAccepted, TypeInv, TypeOK
<1>3. CASE UNCHANGED texts
  BY <1>3 DEF Growing
<1> QED
  BY <1>1, <1>2, <1>3 DEF Next, Work, Failure, Enqueue, DeadLetter, Receive, DeliverAgain,
     Call, BuildClient, RefuseRequest, CheckLog, Post, RefuseNumber, Record, Finish,
     CheckLogFails, Rejected, LostAnswer, RecordFails, DeleteLost, Crash, CrashMidSend,
     LateDropped, FillSecret, Tick, provider, vars

\* A reminder that has been texted stays so.
LEMMA TextedStable ==
  ASSUME Growing, NEW r \in Requests, TextedFor(r)
  PROVE  TextedFor(r)'
  BY DEF Growing, TextedFor, SameReminder

\* A step that logs nothing, reports nothing as done and moves no worker past
\* the acceptance of a text preserves TextedInv.
LEMMA QuietStep ==
  ASSUME TypeInv, TextedInv, Growing,
         log' = log,
         \A r \in Requests : status'[r] = "done" => status[r] = "done",
         \A w \in Workers : pc'[w] \in {"record", "finish"} =>
                              pc'[w] = pc[w] /\ job'[w] = job[w]
  PROVE  TextedInv'
<1>1. ProgressOK'
  <2> SUFFICES ASSUME NEW w \in Workers
               PROVE  /\ pc'[w] = "record" => texts'[job'[w]] > 0
                      /\ pc'[w] = "finish" => TextedFor(job[w])'
    BY DEF ProgressOK
  <2>1. pc[w] \in {"record", "finish"} => job[w] \in Requests
    BY DEF TypeInv, JobOK, Busy
  <2>2. CASE pc'[w] = "record"
    BY <2>1, <2>2 DEF TextedInv, ProgressOK, Growing
  <2>3. CASE pc'[w] = "finish"
    <3>1. PICK s \in Requests : SameReminder(job[w], s) /\ texts[s] > 0
      BY <2>3 DEF TextedInv, ProgressOK, TextedFor
    <3>2. job'[w] = job[w] /\ texts'[s] > 0
      BY <2>3, <3>1 DEF Growing
    <3> QED
      BY <2>3, <3>1, <3>2 DEF TextedFor, SameReminder, Id
  <2> QED
    BY <2>2, <2>3
<1>2. LogIsHonest'
  BY DEF TextedInv, LogIsHonest, Growing
<1>3. NoSilentMiss'
  BY TextedStable DEF TextedInv, NoSilentMiss
<1> QED
  BY <1>1, <1>2, <1>3 DEF TextedInv

\* A failed invocation preserves TextedInv.
LEMMA FailIsQuiet ==
  ASSUME TypeInv, TextedInv, Growing, NEW w \in Workers, Busy(w), Fail(w), log' = log
  PROVE  TextedInv'
  BY QuietStep DEF Fail, Free, TypeInv, TypeOK

\* TextedInv is inductive.
LEMMA TextedInductive == TypeInv /\ TextedInv /\ [Next]_vars => TextedInv'
<1> SUFFICES ASSUME TypeInv, TextedInv, [Next]_vars PROVE TextedInv'
  OBVIOUS
<1>0. Growing
  BY TextsGrow
<1>1. ASSUME NEW m \in Messages, Enqueue(m) \/ DeadLetter(m)
      PROVE  TextedInv'
  BY <1>0, <1>1, QuietStep DEF TypeInv, TypeOK, Enqueue, DeadLetter, worker
<1>2. ASSUME NEW w \in Workers, NEW r \in Requests, Assign(w, r), log' = log,
             \A q \in Requests : status'[q] = "done" => status[q] = "done"
      PROVE  TextedInv'
  BY <1>0, <1>2, QuietStep DEF TypeInv, TypeOK, Assign
<1>3. ASSUME NEW w \in Workers, NEW m \in Messages, Receive(w, m) \/ DeliverAgain(w, m)
      PROVE  TextedInv'
  BY <1>2, <1>3 DEF Receive, DeliverAgain, Deliver, Requests
<1>4. ASSUME NEW w \in Workers, NEW d \in Direct, Call(w, d)
      PROVE  TextedInv'
  BY <1>2, <1>4 DEF Call, TypeInv, TypeOK, Requests
<1>5. ASSUME NEW w \in Workers, Work(w)
      PROVE  TextedInv'
  <2>0. Busy(w) /\ job[w] \in Requests
    BY <1>5 DEF TypeInv, JobOK, Busy, Work, BuildClient, RefuseRequest, CheckLog, Post,
       RefuseNumber, Accepted, Record, Finish, Step
  <2>1. CASE BuildClient(w) \/ Post(w)
    BY <1>0, <2>1, QuietStep DEF BuildClient, Post, Step, TypeInv, TypeOK
  <2>2. CASE RefuseRequest(w) \/ RefuseNumber(w)
    BY <1>0, <2>0, <2>2, FailIsQuiet DEF RefuseRequest, RefuseNumber
  <2>3. CASE CheckLog(w)
    <3>1. CASE AlreadySent(Id(job[w]))
      <4>1. PICK s \in Requests : Id(s) = Id(job[w]) /\ texts[s] > 0
        BY <3>1 DEF AlreadySent, TextedInv, LogIsHonest
      <4>2. TextedFor(job[w])
        BY <3>1, <4>1 DEF TextedFor, SameReminder, AlreadySent
      <4>3. texts' = texts /\ job' = job /\ log' = log /\ status' = status
        BY <2>3 DEF CheckLog, provider
      <4>4. ASSUME NEW v \in Workers
            PROVE  /\ pc'[v] = "record" => texts[job[v]] > 0
                   /\ pc'[v] = "finish" => TextedFor(job[v])
        BY <2>3, <4>2 DEF CheckLog, Step, TypeInv, TypeOK, TextedInv, ProgressOK
      <4> QED
        BY <4>3, <4>4 DEF TextedInv, ProgressOK, LogIsHonest, NoSilentMiss, TextedFor
    <3>2. CASE ~AlreadySent(Id(job[w]))
      BY <1>0, <2>3, <3>2, QuietStep DEF CheckLog, Step, TypeInv, TypeOK
    <3> QED
      BY <3>1, <3>2
  <2>4. CASE Accepted(w)
    <3>1. texts'[job[w]] > 0 /\ job' = job /\ log' = log /\ status' = status
      BY <2>0, <2>4 DEF Accepted, TypeInv, TypeOK
    <3>2. ASSUME NEW v \in Workers
          PROVE  /\ pc'[v] = "record" => texts'[job[v]] > 0
                 /\ pc'[v] = "finish" => TextedFor(job[v])
      <4>1. pc[v] = "record" => job[v] \in Requests
        BY DEF TypeInv, JobOK, Busy
      <4> QED
        BY <1>0, <2>4, <3>1, <4>1 DEF Accepted, Step, TypeInv, TypeOK, TextedInv, ProgressOK, Growing
    <3>3. ASSUME NEW r \in Requests \cup {NoRequest}, TextedFor(r)
          PROVE  \E s \in Requests : SameReminder(r, s) /\ texts'[s] > 0
      BY <1>0, <3>3 DEF TextedFor, Growing
    <3>4. ProgressOK'
      BY <3>1, <3>2, <3>3 DEF ProgressOK, TextedFor, TypeInv, TypeOK
    <3>5. LogIsHonest' /\ NoSilentMiss'
      BY <1>0, <3>1, <3>3 DEF TextedInv, LogIsHonest, NoSilentMiss, Growing, TextedFor
    <3> QED
      BY <3>4, <3>5 DEF TextedInv
  <2>5. CASE Record(w)
    <3>1. texts[job[w]] > 0
      BY <2>5 DEF Record, Step, TextedInv, ProgressOK
    <3>2. TextedFor(job[w])
      BY <2>0, <3>1 DEF TextedFor, SameReminder
    <3>3. texts' = texts /\ job' = job /\ status' = status
      BY <2>5 DEF Record, provider
    <3>4. ProgressOK'
      <4>1. ASSUME NEW v \in Workers
            PROVE  /\ pc'[v] = "record" => texts[job[v]] > 0
                   /\ pc'[v] = "finish" => TextedFor(job[v])
        BY <2>5, <3>2 DEF Record, Step, TypeInv, TypeOK, TextedInv, ProgressOK
      <4> QED
        BY <3>3, <4>1 DEF ProgressOK, TextedFor
    <3>5. LogIsHonest'
      BY <2>0, <2>5, <3>1, <3>3 DEF Record, Recorded, TextedInv, LogIsHonest
    <3>6. NoSilentMiss'
      BY <3>3 DEF TextedInv, NoSilentMiss, TextedFor
    <3> QED
      BY <3>4, <3>5, <3>6 DEF TextedInv
  <2>6. CASE Finish(w)
    <3>1. TextedFor(job[w])
      BY <2>6 DEF Finish, TextedInv, ProgressOK
    <3>2. texts' = texts /\ log' = log
      BY <2>6 DEF Finish, provider
    <3>3. ASSUME NEW v \in Workers, v # w
          PROVE  pc'[v] = pc[v] /\ job'[v] = job[v]
      BY <2>6, <3>3 DEF Finish, Free, TypeInv, TypeOK
    <3>4. pc'[w] = "idle"
      BY <2>6 DEF Finish, Free, TypeInv, TypeOK
    <3>5. ASSUME NEW v \in Workers
          PROVE  /\ pc'[v] = "record" => texts[job'[v]] > 0
                 /\ pc'[v] = "finish" => \E s \in Requests : SameReminder(job'[v], s) /\ texts[s] > 0
      BY <3>3, <3>4 DEF TextedInv, ProgressOK, TextedFor
    <3>6. ProgressOK'
      BY <3>2, <3>5 DEF ProgressOK, TextedFor
    <3>7. LogIsHonest'
      BY <3>2 DEF TextedInv, LogIsHonest
    <3>8. ASSUME NEW r \in Requests, status'[r] = "done" PROVE TextedFor(r)
      BY <2>0, <2>6, <3>1, <3>8 DEF Finish, TypeInv, TypeOK, TextedInv, NoSilentMiss
    <3>9. NoSilentMiss'
      BY <3>2, <3>8 DEF NoSilentMiss, TextedFor
    <3> QED
      BY <3>6, <3>7, <3>9 DEF TextedInv
  <2> QED
    BY <1>5, <2>1, <2>2, <2>3, <2>4, <2>5, <2>6 DEF Work
<1>6. ASSUME NEW w \in Workers, Failure(w)
      PROVE  TextedInv'
  <2>1. Busy(w) /\ job[w] \in Requests /\ Fail(w)
    BY <1>6 DEF TypeInv, JobOK, Busy, Failure, CheckLogFails, Rejected, LostAnswer,
       RecordFails, DeleteLost, Crash, CrashMidSend
  <2>2. CASE RecordFails(w)
    <3>1. texts[job[w]] > 0 /\ texts' = texts
      BY <2>2 DEF RecordFails, TextedInv, ProgressOK, provider
    <3>2. ASSUME NEW v \in Workers, pc'[v] \in {"record", "finish"}
          PROVE  pc'[v] = pc[v] /\ job'[v] = job[v]
      BY <2>1, <3>2 DEF Fail, Free, TypeInv, TypeOK
    <3>3. ASSUME NEW v \in Workers
          PROVE  /\ pc'[v] = "record" => texts[job'[v]] > 0
                 /\ pc'[v] = "finish" => \E s \in Requests : SameReminder(job'[v], s) /\ texts[s] > 0
      BY <3>2 DEF TextedInv, ProgressOK, TextedFor
    <3>4. ProgressOK'
      BY <3>1, <3>3 DEF ProgressOK, TextedFor
    <3>5. LogIsHonest'
      BY <2>1, <2>2, <3>1 DEF RecordFails, Recorded, TextedInv, LogIsHonest
    <3>6. ASSUME NEW r \in Requests, status'[r] = "done" PROVE TextedFor(r)
      BY <2>1, <3>6 DEF Fail, TypeInv, TypeOK, TextedInv, NoSilentMiss
    <3>7. NoSilentMiss'
      BY <3>1, <3>6 DEF NoSilentMiss, TextedFor
    <3> QED
      BY <3>4, <3>5, <3>7 DEF TextedInv
  <2>3. CASE ~RecordFails(w)
    <3>1. log' = log
      BY <1>6, <2>3 DEF Failure, CheckLogFails, Rejected, LostAnswer, DeleteLost, Crash, CrashMidSend
    <3> QED
      BY <1>0, <2>1, <3>1, FailIsQuiet
  <2> QED
    BY <2>2, <2>3
<1>7. ASSUME NEW r \in Requests, LateAccepted(r) \/ LateDropped(r)
      PROVE  TextedInv'
  BY <1>0, <1>7, QuietStep DEF LateAccepted, LateDropped, worker
<1>8. CASE FillSecret \/ Tick \/ UNCHANGED vars
  BY <1>0, <1>8, QuietStep DEF FillSecret, Tick, vars, worker
<1> QED
  BY <1>1, <1>3, <1>4, <1>5, <1>6, <1>7, <1>8 DEF Next

\* TextedInv holds initially: nothing is done, logged or under way.
LEMMA TextedInit == Init => TextedInv
  BY DEF Init, TextedInv, ProgressOK, LogIsHonest, NoSilentMiss

\* Whatever fails, crashes or is delivered twice, a request is reported as
\* handled only if TrueDialog accepted a text for its reminder.
THEOREM NoReminderIsMissedSilently == Spec => []NoSilentMiss
<1>1. TypeInv /\ TextedInv => NoSilentMiss
  BY DEF TextedInv
<1>2. TypeInv /\ TextedInv /\ [Next]_vars => (TypeInv /\ TextedInv)'
  BY TypeInductive, TextedInductive
<1>3. Init => TypeInv /\ TextedInv
  BY TypeInit, TextedInit
<1> QED
  BY <1>1, <1>2, <1>3, PTL DEF Spec

\* The sent log never holds an id whose text TrueDialog has not accepted.
THEOREM LogStaysHonest == Spec => []LogIsHonest
<1>1. TypeInv /\ TextedInv => LogIsHonest
  BY DEF TextedInv
<1>2. TypeInv /\ TextedInv /\ [Next]_vars => (TypeInv /\ TextedInv)'
  BY TypeInductive, TextedInductive
<1>3. Init => TypeInv /\ TextedInv
  BY TypeInit, TextedInit
<1> QED
  BY <1>1, <1>2, <1>3, PTL DEF Spec

-----------------------------------------------------------------------------
(* One invocation per message.                                             *)

\* A message in a worker's hands is on the queue or was deleted by another
\* worker; if on the queue, it stays hidden for longer than the worker can
\* still run.  A direct request has one worker, until it is answered.
HeldInv ==
  \A w \in Workers :
    /\ job[w] \in Messages =>
         /\ status[job[w]] \in {"queued", "done"}
         /\ status[job[w]] = "queued" => hidden[job[w]] + age[w] >= VisibilityTimeout
    /\ job[w] \in Direct => status[job[w]] = "taken"
    /\ \A v \in Workers : job[v] = job[w] /\ job[w] \in Direct => v = w

\* As long as SQS repeats nothing, a message has one worker at most, and is
\* not deleted under it.
AloneInv ==
  redeliveries = 0 =>
    /\ \A w \in Workers : job[w] \in Messages => status[job[w]] = "queued"
    /\ \A v, w \in Workers : job[v] = job[w] /\ job[v] \in Messages => v = w

\* TrueDialog holds stray pushes only for requests that were made.
StrayInv == \A r \in Requests : late[r] > 0 => status[r] # "new"

LeaseInv == HeldInv /\ AloneInv /\ StrayInv

\* A visible message is in no worker's hands.
LEMMA VisibleIsIdle ==
  ASSUME TypeInv, LeaseInv, NEW m \in Messages, Visible(m), NEW w \in Workers
  PROVE  job[w] # m
  BY QueueAssumption DEF TypeInv, TypeOK, LeaseInv, HeldInv, Visible

\* A request that nobody has made is in no worker's hands.
LEMMA NewIsIdle ==
  ASSUME TypeInv, LeaseInv, NEW r \in Requests, status[r] = "new", NEW w \in Workers
  PROVE  job[w] # r
  BY DEF LeaseInv, HeldInv, Requests

\* A worker that lets go of its request disturbs no other worker's lease.
LEMMA LeaseFree ==
  ASSUME TypeInv, LeaseInv, NEW w \in Workers, Busy(w), Free(w),
         redeliveries' = redeliveries,
         \A r \in Requests : r # job[w] => status'[r] = status[r],
         \A m \in Messages : m # job[w] => hidden'[m] = hidden[m],
         job[w] \in Messages =>
           \/ status'[job[w]] = "done"
           \/ status'[job[w]] = status[job[w]] /\ hidden'[job[w]] = hidden[job[w]],
         status'[job[w]] # "new",
         \A r \in Requests : late'[r] > 0 => late[r] > 0 \/ r = job[w]
  PROVE  LeaseInv'
<1>1. \A v \in Workers : v # w => job'[v] = job[v] /\ age'[v] = age[v]
  BY DEF Free, TypeInv, TypeOK
<1>2. job'[w] = NoRequest /\ NoRequest \notin Messages \cup Direct
  BY RequestsAssumption DEF Free, TypeInv, TypeOK, Requests
<1>3. job[w] \in Messages \cup Direct /\ Messages \cap Direct = {}
  BY RequestsAssumption DEF TypeInv, JobOK, Requests
<1>4. \A v \in Workers : job[v] \in Messages \cup Direct => job[v] \in Requests
  BY DEF Requests
<1>5. HeldInv'
  BY <1>1, <1>2, <1>3, <1>4 DEF LeaseInv, HeldInv
<1>6. AloneInv'
  BY <1>1, <1>2, <1>3, <1>4 DEF LeaseInv, AloneInv
<1>7. StrayInv'
  BY DEF LeaseInv, StrayInv
<1> QED
  BY <1>5, <1>6, <1>7 DEF LeaseInv

\* A failed invocation preserves the lease of every other worker.
LEMMA LeaseFail ==
  ASSUME TypeInv, LeaseInv, NEW w \in Workers, Busy(w), Fail(w),
         redeliveries' = redeliveries,
         \A r \in Requests : late'[r] > 0 => late[r] > 0 \/ r = job[w]
  PROVE  LeaseInv'
<1>1. job[w] \in Requests /\ Messages \cap Direct = {}
  BY RequestsAssumption DEF TypeInv, JobOK
<1>2. status[job[w]] \in {"queued", "done", "taken"}
  BY <1>1 DEF LeaseInv, HeldInv, Requests
<1>3. job[w] \in Messages => status[job[w]] # "taken"
  BY DEF LeaseInv, HeldInv
<1>4. /\ Free(w)
      /\ hidden' = hidden
      /\ \A r \in Requests : r # job[w] => status'[r] = status[r]
      /\ status'[job[w]] = IF status[job[w]] = "taken" THEN "failed" ELSE status[job[w]]
  BY <1>1 DEF Fail, queue, TypeInv, TypeOK
<1> QED
  BY <1>2, <1>3, <1>4, LeaseFree

\* A step that touches no lease and no request in a worker's hands.
LEMMA LeaseQuiet ==
  ASSUME LeaseInv, TypeInv, UNCHANGED <<hidden, job, age, redeliveries>>,
         \A r \in Requests : status'[r] # status[r] =>
           status'[r] # "new" /\ \A w \in Workers : job[w] # r,
         \A r \in Requests : late'[r] > 0 => late[r] > 0
  PROVE  LeaseInv'
<1>1. HeldInv'
  BY DEF LeaseInv, HeldInv, Requests
<1>2. AloneInv'
  BY DEF LeaseInv, AloneInv, Requests
<1>3. StrayInv'
  BY DEF LeaseInv, StrayInv
<1> QED
  BY <1>1, <1>2, <1>3 DEF LeaseInv

\* LeaseInv is inductive.
LEMMA LeaseInductive == TypeInv /\ LeaseInv /\ [Next]_vars => LeaseInv'
<1> SUFFICES ASSUME TypeInv, LeaseInv, [Next]_vars PROVE LeaseInv'
  OBVIOUS
<1> USE QueueAssumption, RequestsAssumption
<1>1. ASSUME NEW m \in Messages, Enqueue(m)
      PROVE  LeaseInv'
  BY <1>1, LeaseQuiet, NewIsIdle DEF Enqueue, queue, worker, bounds, provider, TypeInv, TypeOK, Requests
<1>2. ASSUME NEW m \in Messages, DeadLetter(m)
      PROVE  LeaseInv'
  BY <1>2, LeaseQuiet, VisibleIsIdle DEF DeadLetter, queue, worker, bounds, provider, TypeInv, TypeOK, Requests
<1>3. ASSUME NEW w \in Workers, NEW m \in Messages, Deliver(w, m), status[m] \in {"queued", "done"},
             status' = status, late' = late,
             redeliveries' # 0 \/ (redeliveries' = redeliveries /\ Visible(m))
      PROVE  LeaseInv'
  <2>1. /\ job' = [job EXCEPT ![w] = m]
        /\ age' = [age EXCEPT ![w] = 0]
        /\ hidden' = [hidden EXCEPT ![m] = VisibilityTimeout]
    BY <1>3 DEF Deliver, Assign, Lease
  <2>2. HeldInv'
    BY <1>3, <2>1 DEF LeaseInv, HeldInv, TypeInv, TypeOK
  <2>3. AloneInv'
    BY <1>3, <2>1, VisibleIsIdle DEF LeaseInv, AloneInv, Visible, TypeInv, TypeOK
  <2>4. StrayInv'
    BY <1>3 DEF LeaseInv, StrayInv
  <2> QED
    BY <2>2, <2>3, <2>4 DEF LeaseInv
<1>4. ASSUME NEW w \in Workers, NEW m \in Messages, Receive(w, m) \/ DeliverAgain(w, m)
      PROVE  LeaseInv'
  BY <1>3, <1>4 DEF Receive, DeliverAgain, Visible, provider, bounds, TypeInv, TypeOK
<1>5. ASSUME NEW w \in Workers, NEW d \in Direct, Call(w, d)
      PROVE  LeaseInv'
  <2>1. /\ job' = [job EXCEPT ![w] = d]
        /\ age' = [age EXCEPT ![w] = 0]
        /\ status' = [status EXCEPT ![d] = "taken"]
        /\ UNCHANGED <<hidden, late, redeliveries>>
    BY <1>5 DEF Call, Assign, queue, provider, bounds
  <2>2. \A v \in Workers : job[v] # d
    BY <1>5, NewIsIdle DEF Call, Requests
  <2>3. HeldInv'
    BY <2>1, <2>2 DEF LeaseInv, HeldInv, TypeInv, TypeOK, Requests
  <2>4. AloneInv'
    BY <2>1, <2>2 DEF LeaseInv, AloneInv, TypeInv, TypeOK, Requests
  <2>5. StrayInv'
    BY <2>1 DEF LeaseInv, StrayInv, TypeInv, TypeOK, Requests
  <2> QED
    BY <2>3, <2>4, <2>5 DEF LeaseInv
<1>6. ASSUME NEW w \in Workers, Work(w)
      PROVE  LeaseInv'
  <2>1. CASE BuildClient(w) \/ CheckLog(w) \/ Post(w) \/ Accepted(w) \/ Record(w)
    BY <2>1, LeaseQuiet DEF BuildClient, CheckLog, Post, Accepted, Record, queue, provider, bounds
  <2>2. CASE RefuseRequest(w) \/ RefuseNumber(w)
    BY <2>2, LeaseFail DEF RefuseRequest, RefuseNumber, Busy, provider, bounds
  <2>3. CASE Finish(w)
    <3>1. job[w] \in Requests
      BY <2>3 DEF Finish, TypeInv, JobOK, Busy
    <3> QED
      BY <2>3, <3>1, LeaseFree DEF Finish, Busy, provider, bounds, TypeInv, TypeOK, Requests
  <2> QED
    BY <1>6, <2>1, <2>2, <2>3 DEF Work
<1>7. ASSUME NEW w \in Workers, Failure(w)
      PROVE  LeaseInv'
  <2>1. Busy(w) /\ Fail(w) /\ redeliveries' = redeliveries
    BY <1>7 DEF Busy, Failure, CheckLogFails, Rejected, LostAnswer, RecordFails,
       DeleteLost, Crash, CrashMidSend, Fault
  <2>2. late' = late \/ late' = [late EXCEPT ![job[w]] = @ + 1]
    BY <1>7 DEF Failure, CheckLogFails, Rejected, LostAnswer, RecordFails,
       DeleteLost, Crash, CrashMidSend, provider
  <2>3. \A r \in Requests : late'[r] > 0 => late[r] > 0 \/ r = job[w]
    BY <2>2 DEF TypeInv, TypeOK
  <2> QED
    BY <2>1, <2>3, LeaseFail
<1>8. ASSUME NEW r \in Requests, LateAccepted(r) \/ LateDropped(r)
      PROVE  LeaseInv'
  <2>1. \A q \in Requests : late'[q] > 0 => late[q] > 0
    BY <1>8 DEF LateAccepted, LateDropped, TypeInv, TypeOK
  <2> QED
    BY <1>8, <2>1, LeaseQuiet DEF LateAccepted, LateDropped, queue, worker, bounds
<1>9. CASE FillSecret \/ UNCHANGED vars
  BY <1>9, LeaseQuiet DEF FillSecret, vars, queue, worker, provider, bounds
<1>10. CASE Tick
  <2>1. ASSUME NEW w \in Workers, job[w] \in Messages, status[job[w]] = "queued"
        PROVE  hidden'[job[w]] + age'[w] >= VisibilityTimeout
    <3>1. Busy(w) /\ age[w] < SenderTimeout /\ hidden[job[w]] + age[w] >= VisibilityTimeout
      BY <1>10, <2>1 DEF Tick, LeaseInv, HeldInv, TypeInv, JobOK, Requests
    <3>2. hidden[job[w]] \in Nat /\ age[w] \in Nat /\ hidden[job[w]] > 0
      BY <2>1, <3>1 DEF TypeInv, TypeOK
    <3> QED
      BY <1>10, <2>1, <3>1, <3>2 DEF Tick
  <2> QED
    BY <1>10, <2>1 DEF Tick, LeaseInv, HeldInv, AloneInv, StrayInv, provider, bounds
<1> QED
  BY <1>1, <1>2, <1>4, <1>5, <1>6, <1>7, <1>8, <1>9, <1>10 DEF Next

\* No worker has a request initially.
LEMMA LeaseInit == Init => LeaseInv
  BY RequestsAssumption DEF Init, LeaseInv, HeldInv, AloneInv, StrayInv, Requests

\* Unless SQS itself repeats a delivery, no message is ever in the hands of
\* two invocations, nor dead-lettered or deleted under one that still works on
\* it: the one assumption is SenderTimeout < VisibilityTimeout.
THEOREM OneInvocationAtATime == Spec => []OneInvocationPerMessage
<1>1. TypeInv /\ LeaseInv => OneInvocationPerMessage
  BY DEF LeaseInv, AloneInv, OneInvocationPerMessage
<1>2. TypeInv /\ LeaseInv /\ [Next]_vars => (TypeInv /\ LeaseInv)'
  BY TypeInductive, LeaseInductive
<1>3. Init => TypeInv /\ LeaseInv
  BY TypeInit, LeaseInit
<1> QED
  BY <1>1, <1>2, <1>3, PTL DEF Spec

-----------------------------------------------------------------------------
(* Settled for good.                                                       *)

\* A request that a worker has yet to text, or that TrueDialog has a stray
\* push for: only these can still be texted.
Unsettled(r) == late[r] > 0 \/ \E w \in Workers : InDoubt(w) /\ job[w] = r

\* What one step may do to the log, to the workers past the check, and to the
\* texts of a request.
LEMMA StepFacts ==
  ASSUME TypeInv, [Next]_vars
  PROVE  /\ log \subseteq log'
         /\ \A w \in Workers : pc'[w] \in {"send", "wait"} =>
              /\ job'[w] = job[w]
              /\ InDoubt(w) \/ ~AlreadySent(Id(job[w]))
         /\ \A r \in Requests : ~Unsettled(r) =>
              texts'[r] = texts[r] /\ late'[r] = late[r]
<1> DEFINE LogGrows == log \subseteq log'
           Checked  == \A w \in Workers : pc'[w] \in {"send", "wait"} =>
                         /\ job'[w] = job[w]
                         /\ InDoubt(w) \/ ~AlreadySent(Id(job[w]))
           Texting  == \A r \in Requests : ~Unsettled(r) =>
                         texts'[r] = texts[r] /\ late'[r] = late[r]
<1> SUFFICES LogGrows /\ Checked /\ Texting
  OBVIOUS
<1>1. ASSUME NEW w \in Workers, Free(w) PROVE Checked
  BY <1>1 DEF Free, TypeInv, TypeOK, InDoubt
<1>2. ASSUME NEW w \in Workers, NEW r \in Requests, Assign(w, r) PROVE Checked
  BY <1>2 DEF Assign, TypeInv, TypeOK, InDoubt
<1>3. ASSUME UNCHANGED <<pc, job>> PROVE Checked
  BY <1>3 DEF InDoubt
<1>4. ASSUME UNCHANGED provider PROVE Texting
  BY <1>4 DEF provider
<1>5. ASSUME NEW m \in Messages,
             Enqueue(m) \/ DeadLetter(m) \/ \E w \in Workers : Receive(w, m) \/ DeliverAgain(w, m)
      PROVE  LogGrows /\ Checked /\ Texting
  BY <1>2, <1>3, <1>4, <1>5 DEF Enqueue, DeadLetter, Receive, DeliverAgain, Deliver, worker, Requests
<1>6. ASSUME NEW w \in Workers, NEW d \in Direct, Call(w, d)
      PROVE  LogGrows /\ Checked /\ Texting
  BY <1>2, <1>4, <1>6 DEF Call, Requests
<1>7. ASSUME NEW w \in Workers, Work(w)
      PROVE  LogGrows /\ Checked /\ Texting
  <2>1. CASE BuildClient(w) \/ CheckLog(w) \/ Post(w) \/ Record(w)
    BY <1>4, <2>1 DEF BuildClient, CheckLog, Post, Record, Recorded, Step, InDoubt, TypeInv, TypeOK
  <2>2. CASE RefuseRequest(w) \/ RefuseNumber(w) \/ Finish(w)
    BY <1>1, <1>4, <2>2 DEF RefuseRequest, RefuseNumber, Finish, Fail
  <2>3. CASE Accepted(w)
    BY <2>3 DEF Accepted, Step, InDoubt, Unsettled, TypeInv, TypeOK
  <2> QED
    BY <1>7, <2>1, <2>2, <2>3 DEF Work
<1>8. ASSUME NEW w \in Workers, Failure(w)
      PROVE  LogGrows /\ Checked /\ Texting
  <2>1. CASE CheckLogFails(w) \/ Rejected(w) \/ RecordFails(w) \/ DeleteLost(w) \/ Crash(w)
    BY <1>1, <1>4, <2>1 DEF CheckLogFails, Rejected, RecordFails, Recorded, DeleteLost, Crash, Fail
  <2>2. CASE LostAnswer(w) \/ CrashMidSend(w)
    <3>1. LogGrows /\ Checked
      BY <1>1, <2>2 DEF LostAnswer, CrashMidSend, Fail
    <3>2. Texting
      BY <2>2 DEF LostAnswer, CrashMidSend, InDoubt, Unsettled, TypeInv, TypeOK
    <3> QED
      BY <3>1, <3>2
  <2> QED
    BY <1>8, <2>1, <2>2 DEF Failure
<1>9. ASSUME NEW r \in Requests, LateAccepted(r) \/ LateDropped(r)
      PROVE  LogGrows /\ Checked /\ Texting
  BY <1>3, <1>9 DEF LateAccepted, LateDropped, worker, Unsettled, TypeInv, TypeOK
<1>10. CASE FillSecret \/ Tick \/ UNCHANGED vars
  BY <1>3, <1>4, <1>10 DEF FillSecret, Tick, vars, worker
<1> QED
  BY <1>5, <1>6, <1>7, <1>8, <1>9, <1>10 DEF Next

\* A settled id stays settled, and none of its requests is texted.
LEMMA SettledStep ==
  ASSUME TypeInv, [Next]_vars, NEW k \in ReminderIds \cup Messages, Settled(k)
  PROVE  /\ Settled(k)'
         /\ \A r \in Requests : Id(r) = k => texts'[r] = texts[r]
<1>1. \A w \in Workers : InDoubt(w) => job[w] \in Requests
  BY DEF InDoubt, TypeInv, JobOK, Busy
<1>2. \A r \in Requests : Id(r) = k => ~Unsettled(r) /\ late[r] = 0
  BY DEF Settled, Unsettled, TypeInv, TypeOK
<1>3. \A r \in Requests : Id(r) = k => texts'[r] = texts[r] /\ late'[r] = 0
  BY <1>2, StepFacts
<1>4. \A w \in Workers : pc'[w] \in {"send", "wait"} => job'[w] = job[w] /\ Id(job[w]) # k
  BY StepFacts DEF Settled
<1>5. AlreadySent(k)'
  BY StepFacts DEF Settled, AlreadySent
<1>6. ASSUME NEW w \in Workers, InDoubt(w)' PROVE (Id(job[w]) # k)'
  BY <1>4, <1>6 DEF InDoubt, Id
<1> QED
  BY <1>3, <1>5, <1>6 DEF Settled

\* Once an id is logged, no worker is past the check for it and TrueDialog
\* holds no stray push, no later delivery of any message with that id texts
\* anybody: retries and re-queued reminders are then safe for ever.
THEOREM SettledStaysSettled == Spec => SettledForGood
<1>1. TypeInv /\ [Next]_vars =>
        [\A k \in ReminderIds \cup Messages : Settled(k) =>
           /\ Settled(k)'
           /\ \A r \in Requests : Id(r) = k => texts'[r] = texts[r]]_vars
  BY SettledStep
<1> QED
  BY <1>1, TypeInit, TypeInductive, PTL DEF Spec, SettledForGood

-----------------------------------------------------------------------------
(* The sender implements ReminderPromise: every step of the sender is a    *)
(* step of the promise, or leaves it alone.                                *)

\* The ids that are sealed for the promise.
Sealed == {k \in ReminderIds \cup Messages : Settled(k)}

SenderInv == TypeInv /\ TextedInv /\ LeaseInv

\* The invariant of the sender that the refinement rests on.
LEMMA SenderInvariant ==
  /\ Init => SenderInv
  /\ SenderInv /\ [Next]_vars => SenderInv'
  BY TypeInit, TextedInit, LeaseInit, TypeInductive, TextedInductive, LeaseInductive
     DEF SenderInv

\* Two requests ask for the same reminder exactly if the promise thinks so.
LEMMA ReminderFacts ==
  ASSUME NEW r \in Requests
  PROVE  /\ Reminder(r) \in ReminderIds \cup Requests
         /\ \A s \in Requests : SameReminder(r, s) => Reminder(r) = Reminder(s)
         /\ \A k \in ReminderIds \cup Messages :
              Id(r) = k => Reminder(r) = k
         /\ Reminder(r) \in ReminderIds \cup Messages => Id(r) = Reminder(r)
  BY RequestsAssumption DEF Reminder, Id, SameReminder, Requests

\* Only texted reminders become sealed, and none is unsealed.
LEMMA SealStep == SenderInv /\ SenderInv' /\ [Next]_vars => Promise!Seal
<1> SUFFICES ASSUME SenderInv, SenderInv', [Next]_vars PROVE Promise!Seal
  OBVIOUS
<1>1. Sealed \subseteq Sealed'
  BY SettledStep DEF Sealed, SenderInv
<1>2. Sealed' \subseteq ReminderIds \cup Requests
  BY DEF Sealed, Requests
<1>3. ASSUME NEW k \in Sealed'
      PROVE  \E r \in Requests : Reminder(r) = k /\ texts'[r] > 0
  <2>1. k \in log' /\ k \in ReminderIds \cup Messages
    BY <1>3 DEF Sealed, Settled, AlreadySent
  <2>2. PICK r \in Requests : Id(r) = k /\ texts'[r] > 0
    BY <2>1 DEF SenderInv, TextedInv, LogIsHonest
  <2> QED
    BY <2>1, <2>2, ReminderFacts
<1>4. ASSUME NEW k \in Sealed'
      PROVE  \E r \in Requests : [q \in Requests |-> Reminder(q)][r] = k /\ texts'[r] > 0
  BY <1>3, <1>4
<1> QED
  BY <1>1, <1>2, <1>4 DEF Promise!Seal, Promise!Texted, Sealed

\* A change of one request's status is a move of the promise.
LEMMA MoveStep ==
  ASSUME SenderInv, NEW r \in Requests, NEW s, status' = [status EXCEPT ![r] = s], texts' = texts
  PROVE  Promise!Move(r, Standing(status[r]), Standing(s))
<1>1. status \in [Requests -> {"new", "queued", "taken", "done", "dead", "failed"}]
  BY DEF SenderInv, TypeInv, TypeOK
<1>2. [q \in Requests |-> Standing(status'[q])] =
        [[q \in Requests |-> Standing(status[q])] EXCEPT ![r] = Standing(s)]
  BY <1>1
<1> QED
  BY <1>1, <1>2 DEF Promise!Move, Standing

\* New requests that are queued, or taken by a worker, are asked of the promise.
LEMMA AskStep ==
  ASSUME SenderInv, NEW asked \in SUBSET Requests, \A r \in asked : status[r] = "new",
         NEW s \in {"queued", "taken"}, texts' = texts,
         status' = [r \in Requests |-> IF r \in asked THEN s ELSE status[r]]
  PROVE  Promise!Ask(asked)
BY DEF Promise!Ask, Standing

\* A request in a worker's hands was made and, if it has not been answered or
\* deleted by another worker, is owed its reminder.
LEMMA HeldStanding ==
  ASSUME SenderInv, NEW w \in Workers, Busy(w)
  PROVE  job[w] \in Requests /\ status[job[w]] \in {"queued", "taken", "done"}
  BY DEF SenderInv, TypeInv, JobOK, LeaseInv, HeldInv, Requests

\* A failed invocation gives a direct request up, and no other.
LEMMA FailMoves ==
  ASSUME SenderInv, NEW w \in Workers, Busy(w), Fail(w), texts' = texts
  PROVE  \/ \E r \in Requests : Promise!GiveUp(r)
         \/ status' = status
<1>1. job[w] \in Requests
  BY HeldStanding
<1>2. CASE status[job[w]] = "taken"
  <2>1. status' = [status EXCEPT ![job[w]] = "failed"]
    BY <1>2 DEF Fail
  <2>2. Promise!Move(job[w], Standing("taken"), Standing("failed"))
    BY <1>1, <1>2, <2>1, MoveStep
  <2> QED
    BY <1>1, <2>2 DEF Promise!GiveUp, Standing
<1>3. CASE status[job[w]] # "taken"
  BY <1>1, <1>3 DEF Fail, SenderInv, TypeInv, TypeOK
<1> QED
  BY <1>2, <1>3

\* An accepted text is a text of the promise: its reminder is not sealed.
LEMMA TextStep ==
  ASSUME SenderInv, NEW r \in Requests, status[r] # "new", status' = status,
         texts' = [texts EXCEPT ![r] = @ + 1],
         late[r] > 0 \/ \E w \in Workers : InDoubt(w) /\ job[w] = r
  PROVE  Promise!Text(r)
<1>1. ~Settled(Id(r))
  BY DEF Settled, SenderInv, TypeInv, TypeOK
<1>2. Reminder(r) \notin Sealed
  BY <1>1, ReminderFacts DEF Sealed
<1>3. Standing(status[r]) # "unasked"
  BY DEF Standing
<1> QED
  BY <1>2, <1>3 DEF Promise!Text, Sealed

\* What each step of the sender is for the promise, sealing apart.
LEMMA PromiseMoves ==
  ASSUME SenderInv, [Next]_vars
  PROVE  \/ \E asked \in SUBSET Requests : Promise!Ask(asked)
         \/ \E r \in Requests : Promise!Keep(r) \/ Promise!GiveUp(r) \/ Promise!Text(r)
         \/ status' = status /\ texts' = texts
<1> DEFINE Moves ==
             \/ \E asked \in SUBSET Requests : Promise!Ask(asked)
             \/ \E r \in Requests : Promise!Keep(r) \/ Promise!GiveUp(r) \/ Promise!Text(r)
           Rests == status' = status /\ texts' = texts
<1> SUFFICES Moves \/ Rests
  OBVIOUS
<1>1. ASSUME NEW m \in Messages, Enqueue(m) PROVE Moves
  <2>1. Promise!Ask({m})
    BY <1>1, AskStep DEF Enqueue, provider, Requests, SenderInv, TypeInv, TypeOK
  <2> QED
    BY <2>1 DEF Requests
<1>2. ASSUME NEW m \in Messages, DeadLetter(m) PROVE Moves
  <2>1. Promise!Move(m, Standing("queued"), Standing("dead"))
    BY <1>2, MoveStep DEF DeadLetter, Visible, provider, Requests
  <2> QED
    BY <2>1 DEF Promise!GiveUp, Standing, Requests
<1>3. ASSUME NEW w \in Workers, NEW d \in Direct, Call(w, d) PROVE Moves
  <2>1. Promise!Ask({d})
    BY <1>3, AskStep DEF Call, provider, Requests, SenderInv, TypeInv, TypeOK
  <2> QED
    BY <2>1 DEF Requests
<1>4. ASSUME NEW w \in Workers, NEW m \in Messages, Receive(w, m) \/ DeliverAgain(w, m)
      PROVE  Rests
  BY <1>4 DEF Receive, DeliverAgain, provider
<1>5. ASSUME NEW w \in Workers, Busy(w), Fail(w), texts' = texts PROVE Moves \/ Rests
  BY <1>5, FailMoves
<1>6. ASSUME NEW w \in Workers, Accepted(w) PROVE Moves
  <2>1. job[w] \in Requests /\ status[job[w]] # "new" /\ InDoubt(w)
    BY <1>6, HeldStanding DEF Accepted, Step, Busy, InDoubt
  <2>2. Promise!Text(job[w])
    BY <1>6, <2>1, TextStep DEF Accepted
  <2> QED
    BY <2>1, <2>2
<1>7. ASSUME NEW r \in Requests, LateAccepted(r) PROVE Moves
  <2>1. status[r] # "new"
    BY <1>7 DEF LateAccepted, SenderInv, LeaseInv, StrayInv
  <2>2. Promise!Text(r)
    BY <1>7, <2>1, TextStep DEF LateAccepted
  <2> QED
    BY <2>2
<1>8. ASSUME NEW w \in Workers, Finish(w) PROVE Moves \/ Rests
  <2>1. /\ job[w] \in Requests
        /\ status[job[w]] \in {"queued", "taken", "done"}
        /\ status' = [status EXCEPT ![job[w]] = "done"]
        /\ texts' = texts
    BY <1>8, HeldStanding DEF Finish, Busy, provider
  <2>2. CASE status[job[w]] = "done"
    BY <2>1, <2>2 DEF SenderInv, TypeInv, TypeOK
  <2>3. CASE status[job[w]] # "done"
    <3>1. Promise!Move(job[w], Standing(status[job[w]]), Standing("done"))
      BY <2>1, MoveStep
    <3>2. TextedFor(job[w])
      BY <1>8 DEF Finish, SenderInv, TextedInv, ProgressOK
    <3>3. \E s \in Requests : Reminder(s) = Reminder(job[w]) /\ texts[s] > 0
      BY <2>1, <3>2, ReminderFacts DEF TextedFor
    <3>4. Promise!Keep(job[w])
      BY <2>1, <2>3, <3>1, <3>3 DEF Promise!Keep, Promise!Texted, Standing
    <3> QED
      BY <2>1, <3>4
  <2> QED
    BY <2>2, <2>3
<1>9. ASSUME NEW w \in Workers, Work(w) PROVE Moves \/ Rests
  <2>1. CASE BuildClient(w) \/ CheckLog(w) \/ Post(w) \/ Record(w)
    BY <2>1 DEF BuildClient, CheckLog, Post, Record, provider
  <2>2. CASE RefuseRequest(w) \/ RefuseNumber(w)
    BY <1>5, <2>2 DEF RefuseRequest, RefuseNumber, Busy, provider
  <2> QED
    BY <1>6, <1>8, <1>9, <2>1, <2>2 DEF Work
<1>10. ASSUME NEW w \in Workers, Failure(w) PROVE Moves \/ Rests
  BY <1>5, <1>10 DEF Failure, CheckLogFails, Rejected, LostAnswer, RecordFails, DeleteLost,
     Crash, CrashMidSend, Busy, provider
<1>11. ASSUME NEW r \in Requests, LateDropped(r) PROVE Rests
  BY <1>11 DEF LateDropped
<1>12. CASE FillSecret \/ Tick \/ UNCHANGED vars
  BY <1>12 DEF FillSecret, Tick, vars, provider
<1> QED
  BY <1>1, <1>2, <1>3, <1>4, <1>7, <1>9, <1>10, <1>11, <1>12 DEF Next

\* Every step of the sender is a step of the promise.
LEMMA PromiseStep == SenderInv /\ SenderInv' /\ [Next]_vars => Promise!Next
<1> SUFFICES ASSUME SenderInv, SenderInv', [Next]_vars PROVE Promise!Next
  OBVIOUS
<1>1. Promise!Seal
  BY SealStep
<1>2. status' = status /\ texts' = texts =>
        UNCHANGED <<[r \in Requests |-> Standing(status[r])], texts>>
  OBVIOUS
<1> QED
  BY <1>1, <1>2, PromiseMoves DEF Promise!Next

\* The sender's initial states are initial states of the promise.
LEMMA PromiseInit == Init => Promise!Init
  BY DEF Init, Promise!Init, Standing, Settled, AlreadySent

\* The sender implements the promise: with any number of workers, faults and
\* repeated deliveries, no request is kept before its reminder was texted, none
\* is dropped silently, and no sealed reminder is texted again.
THEOREM SenderKeepsPromise == Spec => KeepsPromise
<1>1. SenderInv /\ SenderInv' /\ [Next]_vars => [Promise!Next]_(Promise!vars)
  BY PromiseStep
<1> QED
  BY <1>1, SenderInvariant, PromiseInit, PTL DEF Spec, KeepsPromise, Promise!Spec

-----------------------------------------------------------------------------
(* How often one request is texted: every text beyond the first is paid    *)
(* for, whatever fails.                                                    *)

\* The workers that may still text r: those past the check, and those before
\* it that the log will not stop.
Claims(r) ==
  {w \in Workers : /\ job[w] = r
                   /\ \/ pc[w] \in {"send", "wait"}
                      \/ pc[w] \in {"start", "check"} /\ ~AlreadySent(Id(r))}

\* A text r is still to get, with no worker on it and nothing in the log.
Open(r) ==
  IF /\ status[r] \in {"new", "queued"}
     /\ ~AlreadySent(Id(r))
     /\ \A w \in Workers : job[w] # r
  THEN 1 ELSE 0

\* The texts of r that are out, or may come of what is under way.
Charge(r) == texts[r] + late[r] + Cardinality(Claims(r)) + Open(r)

Charged == \A r \in Requests : Charge(r) <= 1 + doubts + redeliveries

\* Whoever is about to report a success has it in the log.
FinishedInv ==
  HasTable => \A w \in Workers :
    pc[w] = "finish" /\ Id(job[w]) # NoId => Id(job[w]) \in log

DuplicateInv == FinishedInv /\ (HasTable => Charged)

-----------------------------------------------------------------------------
(* Counting.                                                               *)

\* A part of a finite set is no larger, and smaller if it lacks something.
LEMMA Fewer ==
  ASSUME NEW S, IsFiniteSet(S), NEW T, T \subseteq S
  PROVE  /\ Cardinality(T) <= Cardinality(S)
         /\ \A w \in S : w \notin T => Cardinality(T) <= Cardinality(S) - 1
<1>1. Cardinality(T) <= Cardinality(S)
  BY FS_Subset
<1>2. ASSUME NEW w \in S, w \notin T PROVE Cardinality(T) <= Cardinality(S) - 1
  <2>1. IsFiniteSet(S \ {w}) /\ Cardinality(S \ {w}) = Cardinality(S) - 1
    BY <1>2, FS_RemoveElement
  <2>2. T \in SUBSET (S \ {w})
    BY <1>2
  <2> QED
    BY <2>1, <2>2, FS_Subset
<1> QED
  BY <1>1, <1>2

\* One more element adds one at most.
LEMMA OneMore ==
  ASSUME NEW S, IsFiniteSet(S), NEW w, NEW T, T \subseteq S \cup {w}
  PROVE  Cardinality(T) <= Cardinality(S) + 1
<1>0. Cardinality(S) \in Nat
  BY FS_CardinalityType
<1>1. /\ IsFiniteSet(S \cup {w})
      /\ Cardinality(S \cup {w}) = IF w \in S THEN Cardinality(S) ELSE Cardinality(S) + 1
  BY FS_AddElement
<1>2. Cardinality(T) <= Cardinality(S \cup {w})
  BY <1>1, FS_Subset
<1>3. IsFiniteSet(T)
  BY <1>1, FS_Subset
<1>4. Cardinality(T) \in Nat
  BY <1>3, FS_CardinalityType
<1> QED
  BY <1>0, <1>1, <1>2, <1>4

\* The claims to a request can be counted, before and after a step.
LEMMA ClaimsCount ==
  ASSUME NEW r
  PROVE  /\ IsFiniteSet(Claims(r)) /\ Cardinality(Claims(r)) \in Nat
         /\ IsFiniteSet(Claims(r)') /\ Cardinality(Claims(r)') \in Nat
<1>1. Claims(r) \in SUBSET Workers /\ Claims(r)' \in SUBSET Workers
  BY DEF Claims
<1> QED
  BY <1>1, WorkersAssumption, FS_Subset, FS_CardinalityType

\* A request is open or not.
LEMMA OpenType == ASSUME NEW r PROVE Open(r) \in 0..1 /\ Open(r)' \in 0..1
  BY DEF Open

-----------------------------------------------------------------------------
(* What one step charges to a request.                                     *)

\* The step adds no more to the charge than it adds to what pays for it.
Paid(r) ==
  Charge(r)' + doubts + redeliveries <= Charge(r) + doubts' + redeliveries'

\* A step that texts nobody, in numbers.
LEMMA PaidInNumbers ==
  ASSUME TypeInv, TypeInv', NEW r \in Requests,
         texts'[r] + late'[r] + Cardinality(Claims(r)') + Open(r)' + doubts + redeliveries
           <= texts[r] + late[r] + Cardinality(Claims(r)) + Open(r) + doubts' + redeliveries'
  PROVE  Paid(r)
  BY DEF Paid, Charge

\* All the quantities of the account are numbers.
LEMMA Numbers ==
  ASSUME TypeInv, TypeInv', NEW r \in Requests
  PROVE  /\ texts[r] \in Nat /\ late[r] \in Nat /\ texts'[r] \in Nat /\ late'[r] \in Nat
         /\ doubts \in Nat /\ redeliveries \in Nat /\ doubts' \in Nat /\ redeliveries' \in Nat
         /\ Open(r) \in 0..1 /\ Open(r)' \in 0..1
         /\ Cardinality(Claims(r)) \in Nat /\ Cardinality(Claims(r)') \in Nat
  BY OpenType, ClaimsCount, QueueAssumption DEF TypeInv, TypeOK

\* Nobody new has a claim to r, and r is not opened again.
LEMMA NothingNew ==
  ASSUME TypeInv, TypeInv', NEW r \in Requests,
         texts'[r] + late'[r] <= texts[r] + late[r],
         doubts <= doubts', redeliveries <= redeliveries',
         Claims(r)' \subseteq Claims(r), Open(r)' <= Open(r)
  PROVE  Paid(r)
<1>1. Cardinality(Claims(r)') <= Cardinality(Claims(r))
  BY ClaimsCount, Fewer
<1> QED
  BY <1>1, Numbers, PaidInNumbers

\* A worker with a claim gives it up, and what it leaves is one text or open.
LEMMA OneGone ==
  ASSUME TypeInv, TypeInv', NEW r \in Requests, NEW w \in Claims(r),
         texts'[r] + late'[r] + Open(r)' <= texts[r] + late[r] + Open(r) + 1 + (doubts' - doubts),
         redeliveries <= redeliveries',
         Claims(r)' \subseteq Claims(r), w \notin Claims(r)'
  PROVE  Paid(r)
<1>1. Cardinality(Claims(r)') <= Cardinality(Claims(r)) - 1
  BY ClaimsCount, Fewer
<1> QED
  BY <1>1, Numbers, PaidInNumbers

\* A worker gets a claim: what was open no longer is, or SQS repeats itself.
LEMMA OneComes ==
  ASSUME TypeInv, TypeInv', NEW r \in Requests, NEW w,
         texts'[r] + late'[r] <= texts[r] + late[r], doubts' = doubts,
         Open(r)' + redeliveries + 1 <= Open(r) + redeliveries',
         Claims(r)' \subseteq Claims(r) \cup {w}
  PROVE  Paid(r)
<1>1. Cardinality(Claims(r)') <= Cardinality(Claims(r)) + 1
  BY ClaimsCount, OneMore
<1> QED
  BY <1>1, Numbers, PaidInNumbers

-----------------------------------------------------------------------------
(* Steps.                                                                  *)

\* A failed invocation gives its claim up; only the doubtful ones, which are
\* paid for, may have texted, and only a worker that had no claim can leave
\* a request closed.
LEMMA PaidFail ==
  ASSUME TypeInv, TypeInv', LeaseInv, NEW w \in Workers, Busy(w), Fail(w),
         log \subseteq log', doubts <= doubts', redeliveries' = redeliveries,
         \A r \in Requests : r # job[w] => texts'[r] + late'[r] = texts[r] + late[r],
         texts'[job[w]] + late'[job[w]] <= texts[job[w]] + late[job[w]] + (doubts' - doubts),
         \/ w \in Claims(job[w])
         \/ AlreadySent(Id(job[w])) /\ doubts' = doubts
         \/ job[w] \in Direct /\ doubts' = doubts
         \/ doubts' = doubts + 1 /\ texts'[job[w]] + late'[job[w]] = texts[job[w]] + late[job[w]],
         NEW r \in Requests
  PROVE  Paid(r)
<1>1. job[w] \in Requests
  BY DEF TypeInv, JobOK
<1>2. /\ pc' = [pc EXCEPT ![w] = "idle"]
      /\ job' = [job EXCEPT ![w] = NoRequest]
      /\ status' = [status EXCEPT ![job[w]] = IF @ = "taken" THEN "failed" ELSE @]
  BY DEF Fail, Free
<1>3. AlreadySent(Id(r)) => AlreadySent(Id(r))'
  BY DEF AlreadySent
<1>4. Claims(r)' \subseteq Claims(r) /\ w \notin Claims(r)'
  BY <1>2, <1>3 DEF Claims, TypeInv, TypeOK
<1>5. CASE r # job[w]
  <2>1. status'[r] = status[r] /\ (\A v \in Workers : job'[v] # r => job[v] # r)
    BY <1>2, <1>5 DEF TypeInv, TypeOK
  <2>2. Open(r)' <= Open(r)
    BY <1>3, <2>1 DEF Open
  <2> QED
    BY <1>4, <1>5, <2>2, NothingNew, Numbers
<1>6. CASE r = job[w] /\ w \in Claims(r)
  <2>1. texts'[r] + late'[r] <= texts[r] + late[r] + (doubts' - doubts)
    BY <1>6
  <2>2. texts'[r] + late'[r] + Open(r)' <= texts[r] + late[r] + Open(r) + 1 + (doubts' - doubts)
    BY <2>1, Numbers
  <2>3. redeliveries <= redeliveries'
    BY Numbers
  <2> QED
    BY <1>4, <1>6, <2>2, <2>3, OneGone
<1>7. CASE r = job[w] /\ doubts' = doubts /\ (AlreadySent(Id(r)) \/ r \in Direct)
  <2>1. r \in Direct => status[r] = "taken"
    BY <1>7 DEF LeaseInv, HeldInv
  <2>2. r \in Direct => status'[r] = "failed"
    BY <1>2, <1>7, <2>1 DEF TypeInv, TypeOK
  <2>3. Open(r)' = 0
    BY <1>3, <1>7, <2>2 DEF Open
  <2>4. Open(r)' <= Open(r)
    BY <2>3, OpenType
  <2>5. texts'[r] + late'[r] <= texts[r] + late[r]
    BY <1>7, Numbers
  <2>6. redeliveries <= redeliveries'
    BY Numbers
  <2> QED
    BY <1>4, <1>7, <2>4, <2>5, <2>6, NothingNew
<1>8. CASE /\ r = job[w] /\ doubts' = doubts + 1
           /\ texts'[r] + late'[r] = texts[r] + late[r]
  <2>1. Cardinality(Claims(r)') <= Cardinality(Claims(r))
    BY <1>4, ClaimsCount, Fewer
  <2>2. Open(r)' <= Open(r) + 1
    BY OpenType
  <2>3. texts'[r] + late'[r] + Cardinality(Claims(r)') + Open(r)' + doubts + redeliveries
          <= texts[r] + late[r] + Cardinality(Claims(r)) + Open(r) + doubts' + redeliveries'
    BY <1>8, <2>1, <2>2, Numbers
  <2> QED
    BY <2>3, PaidInNumbers
<1> QED
  BY <1>5, <1>6, <1>7, <1>8

\* A worker takes r up.
LEMMA PaidAssign ==
  ASSUME TypeInv, TypeInv', NEW w \in Workers, NEW q \in Requests, Assign(w, q),
         UNCHANGED <<texts, late, log, doubts>>,
         \A r \in Requests : r # q => status'[r] = status[r],
         \/ redeliveries' = redeliveries /\ status[q] \in {"new", "queued"}
              /\ \A v \in Workers : job[v] # q
         \/ redeliveries' = redeliveries + 1,
         NEW r \in Requests
  PROVE  Paid(r)
<1>1. /\ pc[w] = "idle"
      /\ pc' = [pc EXCEPT ![w] = "start"]
      /\ job' = [job EXCEPT ![w] = q]
  BY DEF Assign
<1>2. AlreadySent(Id(r))' = AlreadySent(Id(r))
  BY DEF AlreadySent
<1>3. job[w] = NoRequest /\ NoRequest \notin Requests
  BY <1>1, RequestsAssumption DEF TypeInv, JobOK, Busy
<1>4. CASE r # q
  <2>1. Claims(r)' \subseteq Claims(r)
    BY <1>1, <1>2, <1>4 DEF Claims, TypeInv, TypeOK
  <2>2. \A v \in Workers : job'[v] # r => job[v] # r
    BY <1>1, <1>3 DEF TypeInv, TypeOK
  <2>3. Open(r)' <= Open(r)
    BY <1>2, <1>4, <2>2 DEF Open
  <2> QED
    BY <2>1, <2>3, NothingNew, Numbers
<1>5. CASE r = q
  <2>1. Claims(r)' \subseteq Claims(r) \cup {w}
    BY <1>1, <1>2 DEF Claims, TypeInv, TypeOK
  <2>2. job'[w] = r
    BY <1>1, <1>5 DEF TypeInv, TypeOK
  <2>3. Open(r)' = 0
    BY <2>2 DEF Open
  <2>4. CASE AlreadySent(Id(r))
    <3>1. Claims(r)' \subseteq Claims(r)
      BY <1>1, <1>2, <2>4 DEF Claims, TypeInv, TypeOK
    <3>2. Open(r)' <= Open(r) /\ redeliveries <= redeliveries'
      BY <2>3, Numbers
    <3> QED
      BY <3>1, <3>2, NothingNew, Numbers
  <2>5. CASE ~AlreadySent(Id(r))
    <3>1. Open(r) = 1 \/ redeliveries' = redeliveries + 1
      BY <1>5, <2>5 DEF Open
    <3>2. Open(r)' + redeliveries + 1 <= Open(r) + redeliveries'
      BY <2>3, <3>1, Numbers
    <3> QED
      BY <2>1, <3>2, OneComes, Numbers
  <2> QED
    BY <2>4, <2>5
<1> QED
  BY <1>4, <1>5

\* A step that leaves the workers their requests, and lets none of them back
\* before the check.
LEMMA PaidOnward ==
  ASSUME TypeInv, TypeInv', log \subseteq log', job' = job,
         doubts' = doubts, redeliveries' = redeliveries,
         \A w \in Workers : pc'[w] \in {"start", "check", "send", "wait"} =>
           \/ pc'[w] \in {"start", "check"} /\ pc[w] \in {"start", "check"}
           \/ pc'[w] \in {"send", "wait"} /\ pc[w] \in {"send", "wait"}
           \/ pc[w] = "check" /\ ~AlreadySent(Id(job[w])),
         NEW r \in Requests,
         status'[r] \in {"new", "queued"} => status[r] \in {"new", "queued"},
         texts'[r] + late'[r] <= texts[r] + late[r]
  PROVE  Paid(r)
<1>1. AlreadySent(Id(r)) => AlreadySent(Id(r))'
  BY DEF AlreadySent
<1>2. Claims(r)' \subseteq Claims(r)
  BY <1>1 DEF Claims
<1>3. Open(r)' <= Open(r)
  BY <1>1 DEF Open
<1> QED
  BY <1>2, <1>3, NothingNew, Numbers

\* TrueDialog accepts a text: the claim is used up.
LEMMA PaidAccepted ==
  ASSUME TypeInv, TypeInv', NEW w \in Workers, Accepted(w), NEW r \in Requests
  PROVE  Paid(r)
<1>1. /\ pc[w] = "wait" /\ pc' = [pc EXCEPT ![w] = "record"]
      /\ texts' = [texts EXCEPT ![job[w]] = @ + 1]
      /\ UNCHANGED <<status, job, log, late, doubts, redeliveries>>
  BY DEF Accepted, Step, bounds
<1>2. AlreadySent(Id(r))' = AlreadySent(Id(r))
  BY <1>1 DEF AlreadySent
<1>3. Claims(r)' \subseteq Claims(r) /\ w \notin Claims(r)'
  BY <1>1, <1>2 DEF Claims, TypeInv, TypeOK
<1>4. Open(r)' = Open(r)
  BY <1>1, <1>2 DEF Open
<1>5. CASE r # job[w]
  <2>1. texts'[r] + late'[r] <= texts[r] + late[r]
    BY <1>1, <1>5, Numbers DEF TypeInv, TypeOK
  <2> QED
    BY <1>1, <1>3, <1>4, <2>1, NothingNew, Numbers
<1>6. CASE r = job[w]
  <2>1. w \in Claims(r)
    BY <1>1, <1>6 DEF Claims
  <2>2. texts'[r] + late'[r] + Open(r)' <= texts[r] + late[r] + Open(r) + 1 + (doubts' - doubts)
    BY <1>1, <1>4, <1>6, Numbers DEF TypeInv, TypeOK
  <2>3. redeliveries <= redeliveries'
    BY Numbers, <1>1
  <2> QED
    BY <1>3, <2>1, <2>2, <2>3, OneGone
<1> QED
  BY <1>5, <1>6

\* Whatever fails.
LEMMA PaidFailure ==
  ASSUME TypeInv, TypeInv', LeaseInv, FinishedInv, HasTable,
         NEW w \in Workers, Failure(w), NEW r \in Requests
  PROVE  Paid(r)
<1>1. Busy(w) /\ Fail(w) /\ log \subseteq log' /\ job[w] \in Requests
  BY DEF Busy, Failure, CheckLogFails, Rejected, LostAnswer, RecordFails, Recorded,
     DeleteLost, Crash, CrashMidSend, TypeInv, JobOK
<1>2. job[w] \in Messages => Id(job[w]) # NoId
  BY RequestsAssumption DEF Id, Requests
<1>3. CASE CheckLogFails(w) \/ Rejected(w) \/ DeleteLost(w) \/ Crash(w)
  <2>1. doubts' = doubts /\ redeliveries' = redeliveries /\ UNCHANGED <<texts, late>>
    BY <1>3 DEF CheckLogFails, Rejected, DeleteLost, Crash, Fault, CleanFaults, DoubtfulFaults, provider
  <2>2. pc[w] \in {"start", "check", "send", "wait", "finish"}
    BY <1>3 DEF CheckLogFails, Rejected, DeleteLost, Crash
  <2>3. \/ w \in Claims(job[w])
        \/ AlreadySent(Id(job[w]))
        \/ job[w] \in Direct
    BY <1>1, <1>2, <2>2 DEF Claims, FinishedInv, AlreadySent, Requests
  <2>4. doubts <= doubts' /\ \A q \in Requests : texts'[q] + late'[q] = texts[q] + late[q]
    BY <2>1, Numbers
  <2>5. texts'[job[w]] + late'[job[w]] <= texts[job[w]] + late[job[w]] + (doubts' - doubts)
    BY <1>1, <2>1, Numbers
  <2> QED
    BY <1>1, <2>1, <2>3, <2>4, <2>5, PaidFail
<1>4. CASE RecordFails(w) \/ (CrashMidSend(w) /\ pc[w] = "record")
  <2>1. doubts' = doubts + 1 /\ redeliveries' = redeliveries /\ UNCHANGED <<texts, late>>
    BY <1>4 DEF RecordFails, CrashMidSend, Fault, CleanFaults, DoubtfulFaults, provider
  <2>2. doubts <= doubts' /\ \A q \in Requests : texts'[q] + late'[q] = texts[q] + late[q]
    BY <2>1, Numbers
  <2>3. texts'[job[w]] + late'[job[w]] <= texts[job[w]] + late[job[w]] + (doubts' - doubts)
    BY <1>1, <2>1, Numbers
  <2> QED
    BY <1>1, <2>1, <2>2, <2>3, PaidFail
<1>5. CASE LostAnswer(w) \/ (CrashMidSend(w) /\ pc[w] = "wait")
  <2>1. /\ doubts' = doubts + 1 /\ redeliveries' = redeliveries
        /\ texts' = texts /\ late' = [late EXCEPT ![job[w]] = @ + 1]
    BY <1>5 DEF LostAnswer, CrashMidSend, Fault, CleanFaults, DoubtfulFaults
  <2>2. pc[w] = "wait"
    BY <1>5 DEF LostAnswer
  <2>3. w \in Claims(job[w])
    BY <2>2 DEF Claims
  <2>4. doubts <= doubts'
    BY <2>1, Numbers
  <2>5. \A q \in Requests : q # job[w] => texts'[q] + late'[q] = texts[q] + late[q]
    BY <2>1 DEF TypeInv, TypeOK
  <2>6. texts'[job[w]] + late'[job[w]] <= texts[job[w]] + late[job[w]] + (doubts' - doubts)
    BY <1>1, <2>1, Numbers DEF TypeInv, TypeOK
  <2> QED
    BY <1>1, <2>1, <2>3, <2>4, <2>5, <2>6, PaidFail
<1> QED
  BY <1>3, <1>4, <1>5 DEF Failure, CrashMidSend

\* No step charges a request more than it pays.
LEMMA EveryStepPays ==
  ASSUME TypeInv, TypeInv', LeaseInv, FinishedInv, HasTable, [Next]_vars,
         NEW r \in Requests
  PROVE  Paid(r)
<1>1. ASSUME NEW m \in Messages, Enqueue(m) \/ DeadLetter(m) PROVE Paid(r)
  BY <1>1, PaidOnward, Numbers DEF Enqueue, DeadLetter, Visible, worker, provider, bounds, TypeInv, TypeOK, Requests
<1>2. ASSUME NEW w \in Workers, NEW m \in Messages, Receive(w, m) PROVE Paid(r)
  <2>1. status[m] = "queued" /\ \A v \in Workers : job[v] # m
    BY <1>2, VisibleIsIdle DEF Receive, Visible
  <2> QED
    BY <1>2, <2>1, PaidAssign DEF Receive, Deliver, provider, bounds, Requests
<1>3. ASSUME NEW w \in Workers, NEW m \in Messages, DeliverAgain(w, m) PROVE Paid(r)
  BY <1>3, PaidAssign DEF DeliverAgain, Deliver, provider, Requests
<1>4. ASSUME NEW w \in Workers, NEW d \in Direct, Call(w, d) PROVE Paid(r)
  <2>1. d \in Requests /\ status[d] = "new"
    BY <1>4 DEF Call, Requests
  <2>2. \A v \in Workers : job[v] # d
    BY <2>1, NewIsIdle
  <2> QED
    BY <1>4, <2>1, <2>2, PaidAssign DEF Call, provider, bounds, TypeInv, TypeOK
<1>5. ASSUME NEW w \in Workers, Work(w) PROVE Paid(r)
  <2>0. job[w] \in Requests /\ Busy(w)
    BY <1>5 DEF TypeInv, JobOK, Busy, Work, BuildClient, RefuseRequest, CheckLog, Post,
       RefuseNumber, Accepted, Record, Finish, Step
  <2>1. CASE BuildClient(w) \/ Post(w)
    BY <2>1, PaidOnward, Numbers DEF BuildClient, Post, Step, provider, bounds, TypeInv, TypeOK
  <2>2. CASE CheckLog(w)
    BY <2>2, PaidOnward, Numbers DEF CheckLog, Step, provider, bounds, TypeInv, TypeOK
  <2>3. CASE Record(w)
    BY <2>3, PaidOnward, Numbers DEF Record, Recorded, Step, provider, bounds, TypeInv, TypeOK
  <2>4. CASE Accepted(w)
    BY <2>4, PaidAccepted
  <2>5. CASE RefuseRequest(w) \/ RefuseNumber(w)
    <3>1. pc[w] \in {"start", "send"} /\ Fail(w) /\ UNCHANGED <<log, texts, late, doubts, redeliveries>>
      BY <2>5 DEF RefuseRequest, RefuseNumber, provider, bounds
    <3>2. w \in Claims(job[w]) \/ AlreadySent(Id(job[w]))
      BY <3>1 DEF Claims
    <3>3. doubts <= doubts' /\ \A q \in Requests : texts'[q] + late'[q] = texts[q] + late[q]
      BY <3>1, Numbers
    <3>4. texts'[job[w]] + late'[job[w]] <= texts[job[w]] + late[job[w]] + (doubts' - doubts)
      BY <2>0, <3>1, Numbers
    <3> QED
      BY <2>0, <3>1, <3>2, <3>3, <3>4, PaidFail
  <2>6. CASE Finish(w)
    <3>1. /\ pc[w] = "finish"
          /\ pc' = [pc EXCEPT ![w] = "idle"]
          /\ job' = [job EXCEPT ![w] = NoRequest]
          /\ status' = [status EXCEPT ![job[w]] = "done"]
          /\ UNCHANGED <<log, texts, late, doubts, redeliveries>>
      BY <2>6 DEF Finish, Free, provider, bounds
    <3>2. AlreadySent(Id(r))' = AlreadySent(Id(r))
      BY <3>1 DEF AlreadySent
    <3>3. Claims(r)' \subseteq Claims(r)
      BY <3>1, <3>2 DEF Claims, TypeInv, TypeOK
    <3>4. status'[r] \in {"new", "queued"} => r # job[w] /\ status'[r] = status[r]
      BY <3>1 DEF TypeInv, TypeOK
    <3>5. r # job[w] => \A v \in Workers : job'[v] # r => job[v] # r
      BY <3>1 DEF TypeInv, TypeOK
    <3>6. Open(r)' <= Open(r)
      BY <3>2, <3>4, <3>5 DEF Open
    <3> QED
      BY <3>1, <3>3, <3>6, NothingNew, Numbers
  <2> QED
    BY <1>5, <2>1, <2>2, <2>3, <2>4, <2>5, <2>6 DEF Work
<1>6. ASSUME NEW w \in Workers, Failure(w) PROVE Paid(r)
  BY <1>6, PaidFailure
<1>7. ASSUME NEW q \in Requests, LateAccepted(q) \/ LateDropped(q) PROVE Paid(r)
  <2>1. texts'[r] + late'[r] <= texts[r] + late[r]
    BY <1>7, Numbers DEF LateAccepted, LateDropped, TypeInv, TypeOK
  <2> QED
    BY <1>7, <2>1, PaidOnward DEF LateAccepted, LateDropped, worker, bounds
<1>8. CASE FillSecret \/ Tick \/ UNCHANGED vars
  BY <1>8, PaidOnward, Numbers DEF FillSecret, Tick, vars, worker, provider, bounds
<1> QED
  BY <1>1, <1>2, <1>3, <1>4, <1>5, <1>6, <1>7, <1>8 DEF Next

\* A worker reports a success only when the log has its id: either it found
\* the id there or it has written it.
LEMMA FinishedStep ==
  ASSUME TypeInv, [Next]_vars, FinishedInv
  PROVE  FinishedInv'
<1>0. log \subseteq log'
  BY StepFacts
<1>1. SUFFICES ASSUME HasTable, NEW w \in Workers, pc'[w] = "finish", Id(job'[w]) # NoId
               PROVE  Id(job'[w]) \in log'
  BY DEF FinishedInv, Id
<1> DEFINE CameHere ==
             \/ pc[w] = "finish" /\ job'[w] = job[w]
             \/ pc[w] = "check" /\ job'[w] = job[w] /\ AlreadySent(Id(job[w]))
             \/ pc[w] = "record" /\ job'[w] = job[w] /\ log' = Recorded(Id(job[w]))
<1>2. CameHere
  <2>1. ASSUME NEW v \in Workers, Free(v) PROVE CameHere
    BY <1>1, <2>1 DEF Free, TypeInv, TypeOK
  <2>2. ASSUME NEW v \in Workers, NEW q, Assign(v, q) PROVE CameHere
    BY <1>1, <2>2 DEF Assign, TypeInv, TypeOK
  <2>3. ASSUME NEW v \in Workers, Work(v) PROVE CameHere
    <3>1. CASE BuildClient(v) \/ Post(v) \/ Accepted(v) \/ CheckLog(v) \/ Record(v)
      BY <1>1, <3>1 DEF BuildClient, Post, Accepted, CheckLog, Record, Step, TypeInv, TypeOK
    <3>2. CASE RefuseRequest(v) \/ RefuseNumber(v) \/ Finish(v)
      BY <2>1, <3>2 DEF RefuseRequest, RefuseNumber, Finish, Fail
    <3> QED
      BY <2>3, <3>1, <3>2 DEF Work
  <2>4. ASSUME NEW v \in Workers, Failure(v) PROVE CameHere
    BY <2>1, <2>4 DEF Failure, CheckLogFails, Rejected, LostAnswer, RecordFails, DeleteLost,
       Crash, CrashMidSend, Fail
  <2>5. CASE UNCHANGED <<pc, job>>
    BY <1>1, <2>5
  <2> QED
    BY <2>2, <2>3, <2>4, <2>5 DEF Next, Enqueue, DeadLetter, Receive, DeliverAgain, Deliver,
       Call, LateAccepted, LateDropped, FillSecret, Tick, worker, vars
<1> QED
  BY <1>0, <1>1, <1>2 DEF FinishedInv, AlreadySent, Recorded

\* Every step keeps the account balanced ...
LEMMA DuplicateStep ==
  ASSUME TypeInv, LeaseInv, DuplicateInv, [Next]_vars
  PROVE  DuplicateInv'
<1>1. TypeInv' /\ FinishedInv'
  BY TypeInductive, FinishedStep DEF DuplicateInv
<1>2. ASSUME HasTable, NEW r \in Requests
      PROVE  Charge(r)' <= 1 + doubts' + redeliveries'
  <2>1. Paid(r) /\ Charge(r) <= 1 + doubts + redeliveries
    BY <1>1, <1>2, EveryStepPays DEF DuplicateInv, Charged
  <2>2. Charge(r) \in Nat /\ Charge(r)' \in Nat
    BY <1>1, Numbers DEF Charge
  <2> QED
    BY <1>1, <2>1, <2>2, Numbers DEF Paid
<1> QED
  BY <1>1, <1>2 DEF DuplicateInv, Charged

\* ... and it is balanced at first.
LEMMA DuplicateInit == Init => DuplicateInv
<1> SUFFICES ASSUME Init PROVE DuplicateInv
  OBVIOUS
<1>1. FinishedInv
  BY DEF Init, FinishedInv
<1>2. ASSUME NEW r \in Requests PROVE Charge(r) <= 1 + doubts + redeliveries
  <2>1. Claims(r) = {}
    BY DEF Init, Claims
  <2>2. Cardinality(Claims(r)) = 0
    BY <2>1, FS_EmptySet
  <2>3. texts[r] = 0 /\ late[r] = 0 /\ doubts = 0 /\ redeliveries = 0
    BY DEF Init
  <2> QED
    BY <2>2, <2>3, OpenType DEF Charge
<1> QED
  BY <1>1, <1>2 DEF DuplicateInv, Charged

\* However many workers there are and whatever fails, each text of a request
\* beyond the first is paid for by a failure that left its fate in doubt or by
\* a delivery SQS repeated.
THEOREM ExtraTextsArePaidFor == Spec => []ExtraTextsAreEarned
<1>1. TypeInv /\ DuplicateInv => ExtraTextsAreEarned
  <2> SUFFICES ASSUME TypeInv, DuplicateInv, HasTable, NEW r \in Requests
               PROVE  texts[r] + late[r] <= 1 + doubts + redeliveries
    BY DEF ExtraTextsAreEarned
  <2>1. Charge(r) <= 1 + doubts + redeliveries
    BY DEF DuplicateInv, Charged
  <2>2. Cardinality(Claims(r)) \in Nat /\ Open(r) \in 0..1
    BY ClaimsCount, OpenType
  <2>3. texts[r] \in Nat /\ late[r] \in Nat /\ doubts \in Nat /\ redeliveries \in Nat
    BY QueueAssumption DEF TypeInv, TypeOK
  <2> QED
    BY <2>1, <2>2, <2>3 DEF Charge
<1>2. TypeInv /\ LeaseInv /\ DuplicateInv /\ [Next]_vars => (TypeInv /\ LeaseInv /\ DuplicateInv)'
  BY TypeInductive, LeaseInductive, DuplicateStep
<1>3. Init => TypeInv /\ LeaseInv /\ DuplicateInv
  BY TypeInit, LeaseInit, DuplicateInit
<1> QED
  BY <1>1, <1>2, <1>3, PTL DEF Spec

-----------------------------------------------------------------------------
(* How often a reminder is texted.                                         *)

\* Nobody starts to text r's reminder any more: its id is in the log, or r is
\* a direct request without an id, which is taken up once.
Shut(r) == AlreadySent(Id(r)) \/ (Id(r) = NoId /\ status[r] # "new")

\* The workers that may text it all the same ...
Racers(r) ==
  {w \in Workers : /\ job[w] \in Askers(r)
                   /\ \/ pc[w] \in {"send", "wait"}
                      \/ Id(r) = NoId /\ pc[w] \in {"start", "check"}}

\* ... and those that have, and are about to write its id.
Writers(r) == {w \in Workers : job[w] \in Askers(r) /\ pc[w] = "record"}

\* Until the reminder is shut, each of its texts has a worker that is about
\* to shut it, or a failure that left it in doubt.  From then on the workers
\* that raced for it, and nobody else, may each add one.
Raced(r) ==
  /\ ~Shut(r) => TextsOf(r) <= Cardinality(Writers(r)) + doubts
  /\ Shut(r) => TextsOf(r) + Cardinality(Racers(r)) <= Cardinality(Workers) + doubts

RaceInv == HasTable => \A r \in Requests : Raced(r)

\* The texts of a reminder grow by no more than the step sends.
LEMMA TextsOfStep ==
  ASSUME TypeInv, TypeInv', IsFiniteSet(Requests), NEW r \in Requests
  PROVE  /\ TextsOf(r) \in Nat /\ TextsOf(r)' \in Nat
         /\ (\A s \in Requests : texts'[s] + late'[s] <= texts[s] + late[s])
              => TextsOf(r)' <= TextsOf(r)
         /\ \A q \in Requests :
              /\ texts'[q] + late'[q] = texts[q] + late[q] + 1
              /\ \A s \in Requests \ {q} : texts'[s] + late'[s] = texts[s] + late[s]
              => /\ TextsOf(r)' <= TextsOf(r) + 1
                 /\ q \notin Askers(r) => TextsOf(r)' <= TextsOf(r)
<1> DEFINE g == [s \in Requests |-> texts[s] + late[s]]
           h == [s \in Requests |-> texts'[s] + late'[s]]
<1>1. Askers(r) \in SUBSET Requests /\ Askers(r)' = Askers(r)
  BY DEF Askers
<1>2. IsFiniteSet(Askers(r))
  BY <1>1, FS_Subset
<1>3. ASSUME NEW x \in Requests PROVE g[x] \in Nat /\ h[x] \in Nat
  BY DEF TypeInv, TypeOK
<1>4. \A x \in Askers(r) : g[x] \in Nat
  BY <1>1, <1>3
<1>5. \A x \in Askers(r) : h[x] \in Nat
  BY <1>1, <1>3
<1>6. TextsOf(r) = SumFunctionOnSet(g, Askers(r))
  BY DEF TextsOf
<1>7. TextsOf(r)' = SumFunctionOnSet(h, Askers(r))
  BY <1>1 DEF TextsOf
<1>8. ASSUME NEW s \in Requests
      PROVE  g[s] = texts[s] + late[s] /\ h[s] = texts'[s] + late'[s]
  OBVIOUS
<1> HIDE DEF g, h
<1>9. SumFunctionOnSet(g, Askers(r)) \in Nat
  BY <1>2, <1>4, SumEquation
<1>10. SumFunctionOnSet(h, Askers(r)) \in Nat
  BY <1>2, <1>5, SumEquation
<1>11. ASSUME \A s \in Requests : texts'[s] + late'[s] <= texts[s] + late[s]
       PROVE  SumFunctionOnSet(h, Askers(r)) <= SumFunctionOnSet(g, Askers(r))
  <2>1. \A x \in Askers(r) : h[x] <= g[x]
    BY <1>1, <1>8, <1>11
  <2> QED BY <1>2, <1>4, <1>5, <2>1, SumMonotone
<1>12. ASSUME NEW q \in Requests, texts'[q] + late'[q] = texts[q] + late[q] + 1,
              \A s \in Requests \ {q} : texts'[s] + late'[s] = texts[s] + late[s]
       PROVE  /\ SumFunctionOnSet(h, Askers(r)) <= SumFunctionOnSet(g, Askers(r)) + 1
              /\ q \notin Askers(r) =>
                   SumFunctionOnSet(h, Askers(r)) <= SumFunctionOnSet(g, Askers(r))
  <2>1. \A x \in Askers(r) \ {q} : h[x] = g[x]
    BY <1>1, <1>8, <1>12
  <2>2. CASE q \in Askers(r)
    <3>1. h[q] = g[q] + 1
      BY <1>8, <1>12
    <3>2. SumFunctionOnSet(h, Askers(r)) = SumFunctionOnSet(g, Askers(r)) + 1
      BY <1>2, <1>4, <2>1, <2>2, <3>1, SumGrowsByOne
    <3> QED BY <1>9, <2>2, <3>2
  <2>3. CASE q \notin Askers(r)
    <3>1. \A x \in Askers(r) : h[x] = g[x]
      BY <2>1, <2>3
    <3>2. SumFunctionOnSet(h, Askers(r)) = SumFunctionOnSet(g, Askers(r))
      BY <1>2, <1>4, <3>1, SumOfEquals
    <3> QED BY <1>9, <3>2
  <2> QED BY <2>2, <2>3
<1> QED BY <1>6, <1>7, <1>9, <1>10, <1>11, <1>12

\* The texts of a reminder are a number.
LEMMA TextsOfType ==
  ASSUME TypeInv, IsFiniteSet(Requests), NEW r \in Requests
  PROVE  TextsOf(r) \in Nat
<1> DEFINE g == [s \in Requests |-> texts[s] + late[s]]
<1>1. Askers(r) \in SUBSET Requests
  BY DEF Askers
<1>2. IsFiniteSet(Askers(r))
  BY <1>1, FS_Subset
<1>3. \A x \in Askers(r) : g[x] \in Nat
  BY <1>1 DEF TypeInv, TypeOK
<1>4. TextsOf(r) = SumFunctionOnSet(g, Askers(r))
  BY DEF TextsOf
<1> HIDE DEF g
<1>5. SumFunctionOnSet(g, Askers(r)) \in Nat
  BY <1>2, <1>3, SumEquation
<1> QED BY <1>4, <1>5

\* What there is to count, before and after a step.
LEMMA RaceCounts ==
  ASSUME TypeInv, TypeInv', NEW r
  PROVE  /\ IsFiniteSet(Racers(r)) /\ IsFiniteSet(Racers(r)')
         /\ IsFiniteSet(Writers(r)) /\ IsFiniteSet(Writers(r)')
         /\ Cardinality(Racers(r)) \in Nat /\ Cardinality(Racers(r)') \in Nat
         /\ Cardinality(Writers(r)) \in Nat /\ Cardinality(Writers(r)') \in Nat
         /\ Cardinality(Workers) \in Nat
         /\ doubts \in Nat /\ doubts' \in Nat
<1>1. /\ Racers(r) \in SUBSET Workers /\ Racers(r)' \in SUBSET Workers
      /\ Writers(r) \in SUBSET Workers /\ Writers(r)' \in SUBSET Workers
  BY DEF Racers, Writers
<1>2. /\ IsFiniteSet(Racers(r)) /\ IsFiniteSet(Racers(r)')
      /\ IsFiniteSet(Writers(r)) /\ IsFiniteSet(Writers(r)')
  BY <1>1, WorkersAssumption, FS_Subset
<1>3. doubts \in Nat /\ doubts' \in Nat
  BY QueueAssumption DEF TypeInv, TypeOK
<1> QED BY <1>2, <1>3, WorkersAssumption, FS_CardinalityType

\* Workers that do different things are no more than there are workers.
LEMMA ApartFit ==
  ASSUME NEW S \in SUBSET Workers, NEW T \in SUBSET Workers, S \cap T = {}
  PROVE  Cardinality(S) + Cardinality(T) <= Cardinality(Workers)
<1>1. IsFiniteSet(S) /\ IsFiniteSet(T) /\ IsFiniteSet(S \cup T)
  BY WorkersAssumption, FS_Subset
<1>2. Cardinality(S \cup T) = Cardinality(S) + Cardinality(T) - Cardinality(S \cap T)
  BY <1>1, FS_Union
<1>3. Cardinality(S \cap T) = 0
  BY FS_EmptySet
<1>4. Cardinality(S \cup T) <= Cardinality(Workers)
  BY WorkersAssumption, FS_Subset
<1>5. Cardinality(S) \in Nat /\ Cardinality(T) \in Nat
  BY <1>1, FS_CardinalityType
<1> QED BY <1>2, <1>3, <1>4, <1>5

\* A step that texts nobody, shuts nothing and lets no worker into the race.
LEMMA RaceQuiet ==
  ASSUME TypeInv, TypeInv', IsFiniteSet(Requests), NEW r \in Requests, Raced(r),
         TextsOf(r)' <= TextsOf(r), doubts <= doubts', Shut(r)' <=> Shut(r),
         Shut(r) => Racers(r)' \subseteq Racers(r),
         ~Shut(r) => Writers(r) \subseteq Writers(r)'
  PROVE  Raced(r)'
<1>1. TextsOf(r) \in Nat /\ TextsOf(r)' \in Nat
  BY TextsOfStep
<1>2. CASE Shut(r)
  <2>1. Cardinality(Racers(r)') <= Cardinality(Racers(r))
    BY <1>2, RaceCounts, Fewer
  <2>2. TextsOf(r) + Cardinality(Racers(r)) <= Cardinality(Workers) + doubts
    BY <1>2 DEF Raced
  <2>3. TextsOf(r)' + Cardinality(Racers(r)') <= Cardinality(Workers) + doubts'
    BY <1>1, <2>1, <2>2, RaceCounts
  <2> QED BY <1>2, <2>3 DEF Raced
<1>3. CASE ~Shut(r)
  <2>1. Cardinality(Writers(r)) <= Cardinality(Writers(r)')
    BY <1>3, RaceCounts, Fewer
  <2>2. TextsOf(r) <= Cardinality(Writers(r)) + doubts
    BY <1>3 DEF Raced
  <2>3. TextsOf(r)' <= Cardinality(Writers(r)') + doubts'
    BY <1>1, <2>1, <2>2, RaceCounts
  <2> QED BY <1>3, <2>3 DEF Raced
<1> QED BY <1>2, <1>3

\* A step that shuts the reminder: those that have texted it and those that
\* still may are different workers.
LEMMA RaceShuts ==
  ASSUME TypeInv, TypeInv', IsFiniteSet(Requests), NEW r \in Requests, Raced(r),
         TextsOf(r)' <= TextsOf(r), doubts <= doubts', ~Shut(r), Shut(r)',
         Racers(r)' \cap Writers(r) = {}
  PROVE  Raced(r)'
<1>1. TextsOf(r) \in Nat /\ TextsOf(r)' \in Nat
  BY TextsOfStep
<1>2. Cardinality(Racers(r)') + Cardinality(Writers(r)) <= Cardinality(Workers)
  <2>1. Racers(r)' \in SUBSET Workers /\ Writers(r) \in SUBSET Workers
    BY DEF Racers, Writers
  <2> QED BY <2>1, ApartFit
<1>3. TextsOf(r) <= Cardinality(Writers(r)) + doubts
  BY DEF Raced
<1>4. TextsOf(r)' + Cardinality(Racers(r)') <= Cardinality(Workers) + doubts'
  BY <1>1, <1>2, <1>3, RaceCounts
<1> QED BY <1>4 DEF Raced

\* A failure in doubt: it pays for the text that may be out, or for the id
\* that may not be in the log.
LEMMA RaceDoubt ==
  ASSUME TypeInv, TypeInv', IsFiniteSet(Requests), NEW r \in Requests, Raced(r),
         NEW w, doubts' = doubts + 1, Shut(r)' <=> Shut(r),
         Racers(r)' \subseteq Racers(r),
         \/ TextsOf(r)' <= TextsOf(r) + 1 /\ Writers(r) \subseteq Writers(r)'
         \/ TextsOf(r)' <= TextsOf(r) /\ Writers(r) \subseteq Writers(r)' \cup {w}
  PROVE  Raced(r)'
<1>1. TextsOf(r) \in Nat /\ TextsOf(r)' \in Nat
  BY TextsOfStep
<1>2. TextsOf(r)' <= TextsOf(r) + 1
  BY <1>1
<1>3. CASE Shut(r)
  <2>1. Cardinality(Racers(r)') <= Cardinality(Racers(r))
    BY RaceCounts, Fewer
  <2>2. TextsOf(r) + Cardinality(Racers(r)) <= Cardinality(Workers) + doubts
    BY <1>3 DEF Raced
  <2>3. TextsOf(r)' + Cardinality(Racers(r)') <= Cardinality(Workers) + doubts'
    BY <1>1, <1>2, <2>1, <2>2, RaceCounts
  <2> QED BY <1>3, <2>3 DEF Raced
<1>4. CASE ~Shut(r)
  <2>1. TextsOf(r) <= Cardinality(Writers(r)) + doubts
    BY <1>4 DEF Raced
  <2>2. CASE TextsOf(r)' <= TextsOf(r) + 1 /\ Writers(r) \subseteq Writers(r)'
    <3>1. Cardinality(Writers(r)) <= Cardinality(Writers(r)')
      BY <2>2, RaceCounts, Fewer
    <3>2. TextsOf(r)' <= Cardinality(Writers(r)') + doubts'
      BY <1>1, <1>2, <2>1, <3>1, RaceCounts
    <3> QED BY <1>4, <3>2 DEF Raced
  <2>3. CASE TextsOf(r)' <= TextsOf(r) /\ Writers(r) \subseteq Writers(r)' \cup {w}
    <3>1. Cardinality(Writers(r)) <= Cardinality(Writers(r)') + 1
      BY <2>3, RaceCounts, OneMore
    <3>2. TextsOf(r)' <= Cardinality(Writers(r)') + doubts'
      BY <1>1, <2>1, <2>3, <3>1, RaceCounts
    <3> QED BY <1>4, <3>2 DEF Raced
  <2> QED BY <2>2, <2>3
<1> QED BY <1>3, <1>4

\* Those who ask for a reminder share its id; without one, r asks alone, and
\* directly.
LEMMA AskersShare ==
  ASSUME NEW r \in Requests, NEW q \in Askers(r)
  PROVE  /\ q \in Requests
         /\ Id(q) = Id(r)
         /\ Id(r) = NoId => q = r /\ r \in Direct
BY RequestsAssumption DEF Askers, Id, Requests

\* A worker that lets go of its request leaves the race ...
LEMMA RaceFrees ==
  ASSUME TypeInv, NEW w \in Workers, Free(w), NEW r \in Requests
  PROVE  /\ Racers(r)' \subseteq Racers(r)
         /\ Writers(r) \subseteq Writers(r)' \cup {w}
         /\ pc[w] # "record" => Writers(r) \subseteq Writers(r)'
<1>1. Askers(r)' = Askers(r) /\ NoRequest \notin Askers(r)
  BY RequestsAssumption DEF Askers
<1>2. \A v \in Workers : v # w => pc'[v] = pc[v] /\ job'[v] = job[v]
  BY DEF Free, TypeInv, TypeOK
<1>3. job'[w] = NoRequest
  BY DEF Free, TypeInv, TypeOK
<1> QED BY <1>1, <1>2, <1>3 DEF Racers, Writers

\* ... and one that takes a request up enters it only for a direct one
\* without an id.
LEMMA RaceAssigns ==
  ASSUME TypeInv, NEW w \in Workers, NEW q \in Requests, Assign(w, q), NEW r \in Requests
  PROVE  /\ Writers(r) \subseteq Writers(r)'
         /\ w \notin Writers(r)
         /\ Racers(r)' \subseteq Racers(r) \cup {w}
         /\ ~(Id(r) = NoId /\ q = r) => Racers(r)' \subseteq Racers(r)
<1>1. Askers(r)' = Askers(r)
  BY DEF Askers
<1>2. \A v \in Workers : v # w => pc'[v] = pc[v] /\ job'[v] = job[v]
  BY DEF Assign, TypeInv, TypeOK
<1>3. pc[w] = "idle" /\ pc'[w] = "start" /\ job'[w] = q
  BY DEF Assign, TypeInv, TypeOK
<1>4. Writers(r) \subseteq Writers(r)' /\ w \notin Writers(r)
  BY <1>1, <1>2, <1>3 DEF Writers
<1>5. Racers(r)' \subseteq Racers(r) \cup {w}
  BY <1>1, <1>2 DEF Racers
<1>6. ASSUME ~(Id(r) = NoId /\ q = r) PROVE w \notin Racers(r)'
  <2>1. Id(r)' = Id(r)
    BY DEF Id
  <2>2. q \in Askers(r) => Id(r) # NoId
    BY <1>6, AskersShare
  <2> QED BY <1>1, <1>3, <2>1, <2>2 DEF Racers
<1> QED BY <1>4, <1>5, <1>6

\* A worker moves on with its request: into the race only while it is open.
LEMMA RaceMoves ==
  ASSUME TypeInv, NEW w \in Workers, BuildClient(w) \/ CheckLog(w) \/ Post(w), NEW r \in Requests
  PROVE  /\ Shut(r) => Racers(r)' \subseteq Racers(r)
         /\ Writers(r) \subseteq Writers(r)'
<1>1. Askers(r)' = Askers(r) /\ Id(r)' = Id(r)
  BY DEF Askers, Id
<1>2. job' = job /\ \A v \in Workers : v # w => pc'[v] = pc[v]
  BY DEF BuildClient, CheckLog, Post, Step, TypeInv, TypeOK
<1>3. pc[w] \in {"start", "check", "send"}
  BY DEF BuildClient, CheckLog, Post, Step
<1>4. Writers(r) \subseteq Writers(r)'
  BY <1>1, <1>2, <1>3 DEF Writers
<1>5. ASSUME Shut(r), w \in Racers(r)' PROVE w \in Racers(r)
  <2>1. job[w] \in Askers(r)
    BY <1>1, <1>2, <1>5 DEF Racers
  <2>2. CASE BuildClient(w)
    <3>1. pc[w] = "start" /\ pc'[w] = "check"
      BY <2>2 DEF BuildClient, Step, TypeInv, TypeOK
    <3> QED BY <1>1, <1>5, <2>1, <3>1 DEF Racers
  <2>3. CASE CheckLog(w)
    <3>1. /\ pc[w] = "check"
          /\ pc'[w] = IF AlreadySent(Id(job[w])) THEN "finish" ELSE "send"
      BY <2>3 DEF CheckLog, Step, TypeInv, TypeOK
    <3>2. ~AlreadySent(Id(job[w]))
      BY <1>5, <3>1 DEF Racers
    <3>3. Id(r) = NoId
      BY <1>5, <2>1, <3>2, AskersShare DEF Shut
    <3> QED BY <2>1, <3>1, <3>3 DEF Racers
  <2>4. CASE Post(w)
    <3>1. pc[w] = "send"
      BY <2>4 DEF Post, Step
    <3> QED BY <2>1, <3>1 DEF Racers
  <2> QED BY <2>2, <2>3, <2>4
<1>6. Shut(r) => \A v \in Workers \ {w} : v \in Racers(r)' => v \in Racers(r)
  BY <1>1, <1>2 DEF Racers
<1> QED BY <1>4, <1>5, <1>6 DEF Racers

\* TrueDialog accepts a text: the worker leaves the race, or is about to shut
\* the reminder.
LEMMA RaceAccepted ==
  ASSUME TypeInv, TypeInv', IsFiniteSet(Requests), NEW r \in Requests, Raced(r),
         NEW w \in Workers, Accepted(w)
  PROVE  Raced(r)'
<1>1. /\ pc[w] = "wait" /\ pc' = [pc EXCEPT ![w] = "record"]
      /\ texts' = [texts EXCEPT ![job[w]] = @ + 1]
      /\ UNCHANGED <<status, job, log, late, doubts>>
  BY DEF Accepted, Step, bounds
<1>2. Shut(r)' <=> Shut(r)
  BY <1>1 DEF Shut, AlreadySent, Id
<1>3. pc'[w] = "record" /\ \A v \in Workers : v # w => pc'[v] = pc[v]
  BY <1>1 DEF TypeInv, TypeOK
<1>4. Askers(r)' = Askers(r) /\ Id(r)' = Id(r)
  BY DEF Askers, Id
<1>5. /\ Racers(r)' \subseteq Racers(r) /\ w \notin Racers(r)'
      /\ Writers(r) \subseteq Writers(r)' /\ w \notin Writers(r)
  BY <1>1, <1>3, <1>4 DEF Racers, Writers
<1>6. job[w] \in Requests
  BY <1>1 DEF TypeInv, JobOK, Busy
<1>7. /\ texts'[job[w]] + late'[job[w]] = texts[job[w]] + late[job[w]] + 1
      /\ \A s \in Requests \ {job[w]} : texts'[s] + late'[s] = texts[s] + late[s]
  BY <1>1, <1>6 DEF TypeInv, TypeOK
<1>8. /\ TextsOf(r)' <= TextsOf(r) + 1
      /\ job[w] \notin Askers(r) => TextsOf(r)' <= TextsOf(r)
  BY <1>6, <1>7, TextsOfStep
<1>9. doubts' = doubts /\ doubts \in Nat
  BY <1>1, RaceCounts
<1>10. CASE job[w] \notin Askers(r)
  <2>1. TextsOf(r)' <= TextsOf(r) /\ doubts <= doubts'
    BY <1>8, <1>9, <1>10
  <2> QED BY <1>2, <1>5, <2>1, RaceQuiet
<1>11. CASE job[w] \in Askers(r)
  <2>1. TextsOf(r) \in Nat /\ TextsOf(r)' \in Nat
    BY TextsOfStep
  <2>2. CASE Shut(r)
    <3>1. w \in Racers(r)
      BY <1>1, <1>11 DEF Racers
    <3>2. Cardinality(Racers(r)') <= Cardinality(Racers(r)) - 1
      BY <1>5, <3>1, RaceCounts, Fewer
    <3>3. TextsOf(r) + Cardinality(Racers(r)) <= Cardinality(Workers) + doubts
      BY <2>2 DEF Raced
    <3>4. TextsOf(r)' + Cardinality(Racers(r)') <= Cardinality(Workers) + doubts'
      BY <1>8, <1>9, <2>1, <3>2, <3>3, RaceCounts
    <3> QED BY <1>2, <2>2, <3>4 DEF Raced
  <2>3. CASE ~Shut(r)
    <3>1. w \in Writers(r)'
      BY <1>1, <1>3, <1>4, <1>11 DEF Writers
    <3>2. Cardinality(Writers(r)) <= Cardinality(Writers(r)') - 1
      BY <1>5, <3>1, RaceCounts, Fewer
    <3>3. TextsOf(r) <= Cardinality(Writers(r)) + doubts
      BY <2>3 DEF Raced
    <3>4. TextsOf(r)' <= Cardinality(Writers(r)') + doubts'
      BY <1>8, <1>9, <2>1, <3>2, <3>3, RaceCounts
    <3> QED BY <1>2, <2>3, <3>4 DEF Raced
  <2> QED BY <2>2, <2>3
<1> QED BY <1>10, <1>11

\* The worker writes the id, and the reminder is shut.
LEMMA RaceRecord ==
  ASSUME TypeInv, TypeInv', LeaseInv, HasTable, IsFiniteSet(Requests),
         NEW r \in Requests, Raced(r), NEW w \in Workers, Record(w)
  PROVE  Raced(r)'
<1>1. /\ pc[w] = "record" /\ pc' = [pc EXCEPT ![w] = "finish"]
      /\ log' = Recorded(Id(job[w]))
      /\ UNCHANGED <<status, job, texts, late, doubts>>
  BY DEF Record, Step, provider, bounds
<1>2. pc'[w] = "finish" /\ \A v \in Workers : v # w => pc'[v] = pc[v]
  BY <1>1 DEF TypeInv, TypeOK
<1>3. Askers(r)' = Askers(r) /\ Id(r)' = Id(r)
  BY DEF Askers, Id
<1>4. Racers(r)' \subseteq Racers(r) /\ Racers(r) \cap Writers(r) = {}
  BY <1>1, <1>2, <1>3 DEF Racers, Writers
<1>5. TextsOf(r)' <= TextsOf(r) /\ doubts <= doubts'
  <2>1. \A s \in Requests : texts'[s] + late'[s] <= texts[s] + late[s]
    BY <1>1 DEF TypeInv, TypeOK
  <2>2. doubts <= doubts'
    BY <1>1, RaceCounts
  <2> QED BY <2>1, <2>2, TextsOfStep
<1>6. Shut(r) => Shut(r)'
  BY <1>1, <1>3 DEF Shut, AlreadySent, Recorded
<1>7. CASE Shut(r)
  BY <1>4, <1>5, <1>6, <1>7, RaceQuiet
<1>8. CASE ~Shut(r) /\ Shut(r)'
  BY <1>4, <1>5, <1>8, RaceShuts
<1>9. CASE ~Shut(r) /\ ~Shut(r)'
  <2>1. job[w] \notin Askers(r)
    <3>1. SUFFICES ASSUME job[w] \in Askers(r) PROVE FALSE
      OBVIOUS
    <3>2. Id(job[w]) = Id(r) /\ (Id(r) = NoId => job[w] = r)
      BY <3>1, AskersShare
    <3>3. CASE Id(r) # NoId
      BY <1>1, <1>3, <1>9, <3>2, <3>3 DEF Shut, AlreadySent, Recorded
    <3>4. CASE Id(r) = NoId
      <4>1. status[r] = "new" /\ job[w] = r
        BY <1>9, <3>2, <3>4 DEF Shut
      <4> QED BY <4>1, NewIsIdle
    <3> QED BY <3>3, <3>4
  <2>2. Writers(r) \subseteq Writers(r)'
    BY <1>1, <1>2, <1>3, <2>1 DEF Writers
  <2> QED BY <1>5, <1>9, <2>2, RaceQuiet
<1> QED BY <1>7, <1>8, <1>9

\* Whatever fails.
LEMMA RaceFailure ==
  ASSUME TypeInv, TypeInv', HasTable, IsFiniteSet(Requests),
         NEW r \in Requests, Raced(r), NEW w \in Workers, Failure(w)
  PROVE  Raced(r)'
<1>1. Busy(w) /\ Fail(w) /\ job[w] \in Requests
  BY DEF Busy, Failure, CheckLogFails, Rejected, LostAnswer, RecordFails,
     DeleteLost, Crash, CrashMidSend, TypeInv, JobOK
<1>2. /\ Racers(r)' \subseteq Racers(r)
      /\ Writers(r) \subseteq Writers(r)' \cup {w}
      /\ pc[w] # "record" => Writers(r) \subseteq Writers(r)'
  BY <1>1, RaceFrees DEF Fail
<1>3. status'[r] = "new" <=> status[r] = "new"
  BY <1>1 DEF Fail, TypeInv, TypeOK
<1>4. log' = log => (Shut(r)' <=> Shut(r))
  BY <1>3 DEF Shut, AlreadySent, Id
<1>5. UNCHANGED <<texts, late>> => TextsOf(r)' <= TextsOf(r)
  <2>1. UNCHANGED <<texts, late>> =>
          \A s \in Requests : texts'[s] + late'[s] <= texts[s] + late[s]
    BY DEF TypeInv, TypeOK
  <2> QED BY <2>1, TextsOfStep
<1>6. doubts \in Nat
  BY RaceCounts
<1>7. CASE CheckLogFails(w) \/ Rejected(w) \/ DeleteLost(w) \/ Crash(w)
  <2>1. doubts' = doubts /\ log' = log /\ UNCHANGED <<texts, late>> /\ pc[w] # "record"
    BY <1>7 DEF CheckLogFails, Rejected, DeleteLost, Crash, Fault, CleanFaults, DoubtfulFaults, provider
  <2>2. doubts <= doubts'
    BY <1>6, <2>1
  <2> QED BY <1>2, <1>4, <1>5, <2>1, <2>2, RaceQuiet
<1>8. CASE RecordFails(w) \/ (CrashMidSend(w) /\ pc[w] = "record")
  <2>1. doubts' = doubts + 1 /\ UNCHANGED <<texts, late>> /\ log \subseteq log'
    BY <1>8 DEF RecordFails, CrashMidSend, Recorded, Fault, CleanFaults, DoubtfulFaults, provider
  <2>2. CASE Shut(r)' <=> Shut(r)
    BY <1>2, <1>5, <2>1, <2>2, RaceDoubt
  <2>3. CASE ~(Shut(r)' <=> Shut(r))
    <3>1. ~Shut(r) /\ Shut(r)'
      BY <1>3, <2>1, <2>3 DEF Shut, AlreadySent, Id
    <3>2. Racers(r)' \cap Writers(r) = {}
      BY <1>2 DEF Racers, Writers
    <3>3. doubts <= doubts'
      BY <1>6, <2>1
    <3> QED BY <1>5, <2>1, <3>1, <3>2, <3>3, RaceShuts
  <2> QED BY <2>2, <2>3
<1>9. CASE LostAnswer(w) \/ (CrashMidSend(w) /\ pc[w] = "wait")
  <2>1. /\ doubts' = doubts + 1 /\ log' = log /\ pc[w] = "wait"
        /\ texts' = texts /\ late' = [late EXCEPT ![job[w]] = @ + 1]
    BY <1>9 DEF LostAnswer, CrashMidSend, Fault, CleanFaults, DoubtfulFaults
  <2>2. /\ texts'[job[w]] + late'[job[w]] = texts[job[w]] + late[job[w]] + 1
        /\ \A s \in Requests \ {job[w]} : texts'[s] + late'[s] = texts[s] + late[s]
    BY <1>1, <2>1 DEF TypeInv, TypeOK
  <2>3. TextsOf(r)' <= TextsOf(r) + 1
    BY <1>1, <2>2, TextsOfStep
  <2>4. Writers(r) \subseteq Writers(r)'
    BY <1>2, <2>1
  <2> QED BY <1>2, <1>4, <2>1, <2>3, <2>4, RaceDoubt
<1> QED BY <1>7, <1>8, <1>9 DEF Failure, CrashMidSend

\* No step texts a reminder that is neither raced for nor in doubt.
LEMMA RaceStep ==
  ASSUME TypeInv, TypeInv', LeaseInv, HasTable, IsFiniteSet(Requests), [Next]_vars,
         NEW r \in Requests, Raced(r)
  PROVE  Raced(r)'
<1>1. UNCHANGED <<texts, late>> => TextsOf(r)' <= TextsOf(r)
  <2>1. UNCHANGED <<texts, late>> =>
          \A s \in Requests : texts'[s] + late'[s] <= texts[s] + late[s]
    BY DEF TypeInv, TypeOK
  <2> QED BY <2>1, TextsOfStep
<1>2. doubts \in Nat
  BY RaceCounts
<1>3. UNCHANGED <<pc, job>> => Racers(r)' = Racers(r) /\ Writers(r)' = Writers(r)
  BY DEF Racers, Writers, Askers, Id
<1>4. log' = log /\ (status'[r] = "new" <=> status[r] = "new") => (Shut(r)' <=> Shut(r))
  BY DEF Shut, AlreadySent, Id
<1>5. ASSUME NEW m \in Messages, Enqueue(m) \/ DeadLetter(m) PROVE Raced(r)'
  <2>1. UNCHANGED <<pc, job, log, texts, late, doubts>>
    BY <1>5 DEF Enqueue, DeadLetter, worker, provider, bounds
  <2>2. Shut(r)' <=> Shut(r)
    <3>1. CASE r = m
      BY <2>1, <3>1, RequestsAssumption DEF Shut, AlreadySent, Id, Requests
    <3>2. CASE r # m
      <4>1. status'[r] = status[r]
        BY <1>5, <3>2 DEF Enqueue, DeadLetter, TypeInv, TypeOK
      <4> QED BY <1>4, <2>1, <4>1
    <3> QED BY <3>1, <3>2
  <2> QED BY <1>1, <1>2, <1>3, <2>1, <2>2, RaceQuiet
<1>6. ASSUME NEW w \in Workers, NEW m \in Messages, Receive(w, m) \/ DeliverAgain(w, m)
      PROVE  Raced(r)'
  <2>1. UNCHANGED <<status, log, texts, late, doubts>> /\ Assign(w, m)
    BY <1>6 DEF Receive, DeliverAgain, Deliver, provider, bounds
  <2>2. m \in Requests /\ ~(Id(r) = NoId /\ m = r)
    BY RequestsAssumption DEF Id, Requests
  <2>3. Racers(r)' \subseteq Racers(r) /\ Writers(r) \subseteq Writers(r)'
    BY <2>1, <2>2, RaceAssigns
  <2> QED BY <1>1, <1>2, <1>4, <2>1, <2>3, RaceQuiet
<1>7. ASSUME NEW w \in Workers, NEW d \in Direct, Call(w, d) PROVE Raced(r)'
  <2>1. /\ UNCHANGED <<log, texts, late, doubts>> /\ Assign(w, d) /\ d \in Requests
        /\ status[d] = "new" /\ status' = [status EXCEPT ![d] = "taken"]
    BY <1>7 DEF Call, provider, bounds, Requests
  <2>2. CASE Id(r) = NoId /\ d = r
    <3>1. ~Shut(r)
      BY <2>1, <2>2 DEF Shut, AlreadySent
    <3>2. Shut(r)'
      BY <2>1, <2>2 DEF Shut, AlreadySent, Id, TypeInv, TypeOK
    <3>3. Racers(r)' \cap Writers(r) = {}
      <4>1. w \notin Writers(r) /\ Racers(r)' \subseteq Racers(r) \cup {w}
        BY <2>1, RaceAssigns
      <4>2. Racers(r) \cap Writers(r) = {}
        BY DEF Racers, Writers
      <4> QED BY <4>1, <4>2
    <3> QED BY <1>1, <1>2, <2>1, <3>1, <3>2, <3>3, RaceShuts
  <2>3. CASE ~(Id(r) = NoId /\ d = r)
    <3>1. Racers(r)' \subseteq Racers(r) /\ Writers(r) \subseteq Writers(r)'
      BY <2>1, <2>3, RaceAssigns
    <3>2. d # r => status'[r] = status[r]
      BY <2>1 DEF TypeInv, TypeOK
    <3>3. Shut(r)' <=> Shut(r)
      BY <2>1, <2>3, <3>2 DEF Shut, AlreadySent, Id
    <3> QED BY <1>1, <1>2, <2>1, <3>1, <3>3, RaceQuiet
  <2> QED BY <2>2, <2>3
<1>8. ASSUME NEW w \in Workers, Work(w) PROVE Raced(r)'
  <2>1. CASE BuildClient(w) \/ CheckLog(w) \/ Post(w)
    <3>1. UNCHANGED <<status, log, texts, late, doubts>>
      BY <2>1 DEF BuildClient, CheckLog, Post, provider, bounds
    <3>2. /\ Shut(r) => Racers(r)' \subseteq Racers(r)
          /\ Writers(r) \subseteq Writers(r)'
      BY <2>1, RaceMoves
    <3> QED BY <1>1, <1>2, <1>4, <3>1, <3>2, RaceQuiet
  <2>2. CASE RefuseRequest(w) \/ RefuseNumber(w) \/ Finish(w)
    <3>1. UNCHANGED <<log, texts, late, doubts>> /\ Free(w) /\ pc[w] # "record" /\ Busy(w)
      BY <2>2 DEF RefuseRequest, RefuseNumber, Finish, Fail, provider, bounds, Busy
    <3>2. Racers(r)' \subseteq Racers(r) /\ Writers(r) \subseteq Writers(r)'
      BY <3>1, RaceFrees
    <3>3. status'[r] = "new" <=> status[r] = "new"
      <4>1. job[w] = r => status[r] # "new"
        BY NewIsIdle
      <4>2. job[w] # r => status'[r] = status[r]
        BY <2>2 DEF RefuseRequest, RefuseNumber, Finish, Fail, TypeInv, TypeOK
      <4>3. job[w] = r => status'[r] # "new"
        BY <2>2, <4>1 DEF RefuseRequest, RefuseNumber, Finish, Fail, TypeInv, TypeOK
      <4> QED BY <4>1, <4>2, <4>3
    <3> QED BY <1>1, <1>2, <1>4, <3>1, <3>2, <3>3, RaceQuiet
  <2>3. CASE Accepted(w)
    BY <2>3, RaceAccepted
  <2>4. CASE Record(w)
    BY <2>4, RaceRecord
  <2> QED BY <1>8, <2>1, <2>2, <2>3, <2>4 DEF Work
<1>9. ASSUME NEW w \in Workers, Failure(w) PROVE Raced(r)'
  BY <1>9, RaceFailure
<1>10. ASSUME NEW q \in Requests, LateAccepted(q) \/ LateDropped(q) PROVE Raced(r)'
  <2>1. UNCHANGED <<status, pc, job, log, doubts>>
    BY <1>10 DEF LateAccepted, LateDropped, worker, bounds
  <2>2. \A s \in Requests : texts'[s] + late'[s] <= texts[s] + late[s]
    BY <1>10 DEF LateAccepted, LateDropped, TypeInv, TypeOK
  <2>3. TextsOf(r)' <= TextsOf(r)
    BY <2>2, TextsOfStep
  <2> QED BY <1>2, <1>3, <1>4, <2>1, <2>3, RaceQuiet
<1>11. CASE FillSecret \/ Tick \/ UNCHANGED vars
  <2>1. UNCHANGED <<status, pc, job, log, texts, late, doubts>>
    BY <1>11 DEF FillSecret, Tick, vars, worker, provider, bounds
  <2> QED BY <1>1, <1>2, <1>3, <1>4, <2>1, RaceQuiet
<1> QED
  BY <1>5, <1>6, <1>7, <1>8, <1>9, <1>10, <1>11 DEF Next

\* Nobody has been texted at first.
LEMMA RaceInit == ASSUME IsFiniteSet(Requests) PROVE Init => RaceInv
<1> SUFFICES ASSUME Init, NEW r \in Requests PROVE Raced(r)
  BY DEF RaceInv
<1> DEFINE g == [s \in Requests |-> texts[s] + late[s]]
           none == [s \in Requests |-> 0]
<1>1. Askers(r) \in SUBSET Requests
  BY DEF Askers
<1>2. IsFiniteSet(Askers(r))
  BY <1>1, FS_Subset
<1>3. doubts = 0 /\ g = none /\ \A w \in Workers : pc[w] = "idle"
  BY DEF Init
<1>4. ~Shut(r)
  BY DEF Init, Shut, AlreadySent
<1>5. TextsOf(r) = 0
  <2>1. TextsOf(r) = SumFunctionOnSet(none, Askers(r))
    BY <1>3 DEF TextsOf
  <2>2. \A x \in Askers(r) : none[x] = 0
    BY <1>1
  <2> HIDE DEF none
  <2> QED BY <1>2, <2>1, <2>2, SumOfZeros
<1>6. Cardinality(Writers(r)) \in Nat
  <2>1. Writers(r) \in SUBSET Workers
    BY DEF Writers
  <2> QED BY <2>1, WorkersAssumption, FS_Subset, FS_CardinalityType
<1> QED BY <1>3, <1>4, <1>5, <1>6 DEF Raced

\* RaceInv is inductive.
LEMMA RaceInductive ==
  ASSUME TypeInv, LeaseInv, RaceInv, IsFiniteSet(Requests), [Next]_vars
  PROVE  RaceInv'
<1>1. TypeInv'
  BY TypeInductive
<1>2. ASSUME HasTable, NEW r \in Requests PROVE Raced(r)'
  BY <1>1, <1>2, RaceStep DEF RaceInv
<1> QED BY <1>2 DEF RaceInv

\* The workers that race for a reminder and those that write its id fit into
\* the workers there are.
LEMMA RaceImplies ==
  ASSUME TypeInv, RaceInv, IsFiniteSet(Requests)
  PROVE  OnlyRacesTextTwice
<1> SUFFICES ASSUME HasTable, NEW r \in Requests
             PROVE  TextsOf(r) <= Cardinality(Workers) + doubts
  BY DEF OnlyRacesTextTwice
<1>1. Raced(r)
  BY DEF RaceInv
<1>2. /\ Racers(r) \in SUBSET Workers /\ Writers(r) \in SUBSET Workers
      /\ Racers(r) \cap Writers(r) = {}
  BY DEF Racers, Writers
<1>3. Cardinality(Racers(r)) + Cardinality(Writers(r)) <= Cardinality(Workers)
  BY <1>2, ApartFit
<1>4. IsFiniteSet(Racers(r)) /\ IsFiniteSet(Writers(r))
  BY <1>2, WorkersAssumption, FS_Subset
<1>5. /\ Cardinality(Racers(r)) \in Nat /\ Cardinality(Writers(r)) \in Nat
      /\ Cardinality(Workers) \in Nat
  BY <1>4, WorkersAssumption, FS_CardinalityType
<1>6. doubts \in Nat
  BY QueueAssumption DEF TypeInv, TypeOK
<1>7. TextsOf(r) \in Nat
  BY TextsOfType
<1> QED BY <1>1, <1>3, <1>5, <1>6, <1>7 DEF Raced

\* A reminder is texted no more often than there are workers, however many
\* requests ask for it, however often SQS repeats them and whatever fails; only
\* a failure in doubt, or a text TrueDialog takes late because of one, adds to
\* that (_send checks the log before it texts and writes it after).
THEOREM OnlyRacesRepeatAReminder ==
  ASSUME IsFiniteSet(Requests)
  PROVE  Spec => []OnlyRacesTextTwice
<1>1. TypeInv /\ RaceInv => OnlyRacesTextTwice
  BY RaceImplies
<1>2. TypeInv /\ LeaseInv /\ RaceInv /\ [Next]_vars => (TypeInv /\ LeaseInv /\ RaceInv)'
  BY TypeInductive, LeaseInductive, RaceInductive
<1>3. Init => TypeInv /\ LeaseInv /\ RaceInv
  BY TypeInit, LeaseInit, RaceInit
<1> QED
  BY <1>1, <1>2, <1>3, PTL DEF Spec

-----------------------------------------------------------------------------
(* The two gaps.                                                           *)

\* No failure of a kind that leaves a text in doubt happens.
NoDoubts == Faults \cap DoubtfulFaults = {}

\* Then nothing is ever in doubt.
LEMMA DoubtsStayAway ==
  ASSUME NoDoubts
  PROVE  /\ Init => doubts = 0
         /\ doubts = 0 /\ [Next]_vars => doubts' = 0
<1>1. \A f : Fault(f) => doubts' = doubts
  BY DEF Fault, NoDoubts
<1>2. ASSUME [Next]_vars PROVE doubts' = doubts
  BY <1>1, <1>2
     DEF Next, Enqueue, DeadLetter, Receive, DeliverAgain, Call, Work, BuildClient, RefuseRequest,
         CheckLog, Post, RefuseNumber, Accepted, Record, Finish, Failure, CheckLogFails, Rejected,
         LostAnswer, RecordFails, DeleteLost, Crash, CrashMidSend, LateAccepted, LateDropped,
         FillSecret, Tick, vars, bounds
<1> QED BY <1>2 DEF Init

\* Nor does SQS repeat a delivery that it may not repeat.
LEMMA RepeatsStayAway ==
  ASSUME MaxRedeliveries = 0
  PROVE  TypeInv => redeliveries = 0
BY DEF TypeInv, TypeOK

\* "Two gaps remain" (sent_log.py): a text whose answer or whose record is lost,
\* and a race of two invocations.  The first is the only one for a single
\* request: where none is left in doubt and SQS repeats no delivery, a request
\* is texted once, whatever else fails and however often it is retried.
THEOREM RetriesTextOnce ==
  ASSUME HasTable, NoDoubts, MaxRedeliveries = 0
  PROVE  Spec => []RetryNeverTextsAgain
<1>1. TypeInv /\ ExtraTextsAreEarned /\ doubts = 0 => RetryNeverTextsAgain
  <2> SUFFICES ASSUME TypeInv, ExtraTextsAreEarned, doubts = 0, NEW r \in Requests
               PROVE  texts[r] <= 1
    BY DEF RetryNeverTextsAgain
  <2>1. texts[r] + late[r] <= 1 + doubts + redeliveries
    BY DEF ExtraTextsAreEarned
  <2>2. redeliveries = 0
    BY RepeatsStayAway
  <2>3. texts[r] \in Nat /\ late[r] \in Nat
    BY DEF TypeInv, TypeOK
  <2> QED BY <2>1, <2>2, <2>3
<1>2. Init => doubts = 0
  BY DoubtsStayAway
<1>3. doubts = 0 /\ [Next]_vars => (doubts = 0)'
  BY DoubtsStayAway
<1> QED BY <1>1, <1>2, <1>3, TypeInit, TypeInductive, ExtraTextsArePaidFor, PTL DEF Spec

\* With both gaps closed, a single worker and no failure in doubt, nobody is
\* texted twice about a reminder, however many requests ask for it, however
\* often SQS repeats them, and whatever else fails (_send).
THEOREM BothGapsClosed ==
  ASSUME HasTable, NoDoubts, IsFiniteSet(Requests), Cardinality(Workers) <= 1
  PROVE  Spec => [](\A r \in Requests : TextsOf(r) <= 1)
<1>1. TypeInv /\ OnlyRacesTextTwice /\ doubts = 0 => \A r \in Requests : TextsOf(r) <= 1
  <2> SUFFICES ASSUME TypeInv, OnlyRacesTextTwice, doubts = 0, NEW r \in Requests
               PROVE  TextsOf(r) <= 1
    OBVIOUS
  <2>1. TextsOf(r) <= Cardinality(Workers) + doubts
    BY DEF OnlyRacesTextTwice
  <2>2. TextsOf(r) \in Nat
    BY TextsOfType
  <2>3. Cardinality(Workers) \in Nat
    BY WorkersAssumption, FS_CardinalityType
  <2> QED BY <2>1, <2>2, <2>3
<1>2. Init => doubts = 0
  BY DoubtsStayAway
<1>3. doubts = 0 /\ [Next]_vars => (doubts = 0)'
  BY DoubtsStayAway
<1> QED BY <1>1, <1>2, <1>3, TypeInit, TypeInductive, OnlyRacesRepeatAReminder, PTL DEF Spec

-----------------------------------------------------------------------------
(* How requests end.                                                       *)

\* What has ended: a message that was deleted or dead-lettered, a direct request
\* that was answered.
Ended(r) == status[r] \in {"done", "dead", "failed"}

\* Ends are final, and a dead letter or a refused request is in nobody's hands:
\* who looks at the dead-letter queue sees messages that no invocation is still
\* about to text (_handle_sqs, the redrive policy).
THEOREM DeadLettersRest ==
  /\ Spec => [](\A w \in Workers : job[w] \in Requests => status[job[w]] \notin {"dead", "failed"})
  /\ Spec => [][\A r \in Requests : Ended(r) => status'[r] = status[r]]_vars
<1>1. HeldInv => \A w \in Workers : job[w] \in Requests => status[job[w]] \notin {"dead", "failed"}
  BY DEF HeldInv, Requests
<1>2. TypeInv /\ HeldInv /\ [Next]_vars =>
        [\A r \in Requests : Ended(r) => status'[r] = status[r]]_vars
  <2> SUFFICES ASSUME TypeInv, HeldInv, Next, NEW r \in Requests, Ended(r)
               PROVE  status'[r] = status[r]
    OBVIOUS
  <2>1. status \in [Requests -> {"new", "queued", "taken", "done", "dead", "failed"}]
    BY DEF TypeInv, TypeOK
  <2>2. \A w \in Workers : Fail(w) => status'[r] = status[r]
    BY <2>1 DEF Fail, Ended
  <2>3. ASSUME NEW w \in Workers, Finish(w)
        PROVE  status'[r] = status[r]
    <3>1. r = job[w] => status[r] = "done"
      BY <1>1, <2>3 DEF Ended
    <3> QED BY <2>1, <2>3, <3>1 DEF Finish
  <2>4. ASSUME NEW w \in Workers, NEW d \in Direct, Call(w, d)
        PROVE  status'[r] = status[r]
    BY <2>1, <2>4 DEF Call, Ended, Requests
  <2>5. ASSUME NEW m \in Messages, Enqueue(m) \/ DeadLetter(m)
        PROVE  status'[r] = status[r]
    BY <2>1, <2>5 DEF Enqueue, DeadLetter, Visible, Ended, Requests
  <2>6. CASE status' = status
    BY <2>6
  <2> QED BY <2>2, <2>3, <2>4, <2>5, <2>6
          DEF Next, Receive, DeliverAgain, Work, BuildClient, RefuseRequest, CheckLog, Post,
              RefuseNumber, Accepted, Record, Failure, CheckLogFails, Rejected, LostAnswer,
              RecordFails, DeleteLost, Crash, CrashMidSend, LateAccepted, LateDropped,
              FillSecret, Tick
<1>3. LeaseInv => HeldInv
  BY DEF LeaseInv
<1> QED BY <1>1, <1>2, <1>3, TypeInit, TypeInductive, LeaseInit, LeaseInductive, PTL DEF Spec

\* What may still come of a request: where it stands, the pushes TrueDialog
\* may yet take, and the deliveries that the redrive policy has left for it, each
\* of them worth more than all that one invocation does.
StandingLeft(s) == IF s = "new" THEN 8 ELSE IF s \in {"queued", "taken"} THEN 1 ELSE 0
ReceivesLeft(r) == IF r \in Messages THEN 7 * (DeliveryAttempts - receives[r]) ELSE 0
RequestLeft == [r \in Requests |-> StandingLeft(status[r]) + late[r] + ReceivesLeft(r)]

\* What an invocation has still to do, a push that it may leave behind included.
StageLeft(s) ==
  CASE s = "idle" -> 0 [] s = "finish" -> 1 [] s = "record" -> 2 [] s = "wait" -> 3
    [] s = "send" -> 4 [] s = "check" -> 5 [] s = "start" -> 6
WorkerLeft == [w \in Workers |-> StageLeft(pc[w])]

\* All of it, with the secret that somebody may fill in.
Remaining ==
  SumFunctionOnSet(RequestLeft, Requests) + SumFunctionOnSet(WorkerLeft, Workers)
  + (IF configured THEN 0 ELSE 1)

\* It is told in numbers.
LeftInNat ==
  /\ \A r \in Requests : RequestLeft[r] \in Nat /\ ReceivesLeft(r) \in Nat
  /\ \A w \in Workers : WorkerLeft[w] \in Nat

LEMMA LeftType == TypeInv => LeftInNat
<1> SUFFICES ASSUME TypeInv
             PROVE  /\ \A r \in Requests : RequestLeft[r] \in Nat /\ ReceivesLeft(r) \in Nat
                    /\ \A w \in Workers : WorkerLeft[w] \in Nat
  BY DEF LeftInNat
<1>1. ASSUME NEW r \in Requests
      PROVE  RequestLeft[r] \in Nat /\ ReceivesLeft(r) \in Nat
  <2>1. ReceivesLeft(r) \in Nat
    <3>1. CASE r \in Messages
      <4>1. DeliveryAttempts - receives[r] \in Nat
        BY <3>1, QueueAssumption DEF TypeInv, TypeOK
      <4> DEFINE n == DeliveryAttempts - receives[r]
      <4>2. ReceivesLeft(r) = 7 * n
        BY <3>1 DEF ReceivesLeft
      <4> HIDE DEF n
      <4>3. n \in Nat
        BY <4>1 DEF n
      <4> QED BY <4>2, <4>3
    <3>2. CASE r \notin Messages
      BY <3>2 DEF ReceivesLeft
    <3> QED BY <3>1, <3>2
  <2>2. late[r] \in Nat /\ StandingLeft(status[r]) \in Nat
    BY DEF TypeInv, TypeOK, StandingLeft
  <2> QED BY <2>1, <2>2 DEF RequestLeft
<1>2. \A w \in Workers : WorkerLeft[w] \in Nat
  BY DEF TypeInv, TypeOK, Stages, WorkerLeft, StageLeft
<1> QED BY <1>1, <1>2

LEMMA LeftTypeNext == (TypeInv)' => (LeftInNat)'
BY LeftType, PTL

\* Nothing changes of a request whose standing, pushes and deliveries do not.
LEMMA LeftStays ==
  ASSUME NEW r \in Requests, status'[r] = status[r], late'[r] = late[r],
         r \in Messages => receives'[r] = receives[r]
  PROVE  RequestLeft'[r] = RequestLeft[r]
BY DEF RequestLeft, StandingLeft, ReceivesLeft

\* A step about one request leaves less when that request has less left.
LEMMA RequestGivesWay ==
  ASSUME TypeInv, TypeInv', IsFiniteSet(Requests), NEW r \in Requests,
         RequestLeft'[r] < RequestLeft[r],
         \A s \in Requests \ {r} : RequestLeft'[s] = RequestLeft[s],
         pc' = pc, configured' = configured
  PROVE  Remaining' < Remaining
<1>1. /\ \A s \in Requests : RequestLeft[s] \in Nat /\ RequestLeft'[s] \in Nat
      /\ \A w \in Workers : WorkerLeft[w] \in Nat
  BY LeftType, LeftTypeNext DEF LeftInNat
<1> DEFINE a == SumFunctionOnSet(RequestLeft, Requests)
           b == SumFunctionOnSet(RequestLeft', Requests)
           c == SumFunctionOnSet(WorkerLeft, Workers)
           d == IF configured THEN 0 ELSE 1
<1>2. a \in Nat /\ b \in Nat /\ b + RequestLeft[r] = a + RequestLeft'[r]
  BY <1>1, SumChangesAt
<1>3. c \in Nat
  BY <1>1, WorkersAssumption, SumEquation
<1>4. WorkerLeft' = WorkerLeft
  BY DEF WorkerLeft
<1>5. Remaining = a + c + d /\ Remaining' = b + c + d /\ d \in Nat
  BY <1>4 DEF Remaining
<1>6. RequestLeft[r] \in Nat /\ RequestLeft'[r] \in Nat
  BY <1>1
<1> HIDE DEF a, b, c, d
<1> QED BY <1>2, <1>3, <1>5, <1>6

\* A step of a worker on a request leaves less when the two of them have less
\* left together.
LEMMA WorkGivesWay ==
  ASSUME TypeInv, TypeInv', IsFiniteSet(Requests), NEW r \in Requests, NEW w \in Workers,
         RequestLeft'[r] + StageLeft(pc'[w]) < RequestLeft[r] + StageLeft(pc[w]),
         \A s \in Requests \ {r} : RequestLeft'[s] = RequestLeft[s],
         \A v \in Workers \ {w} : pc'[v] = pc[v], configured' = configured
  PROVE  Remaining' < Remaining
<1>1. /\ \A s \in Requests : RequestLeft[s] \in Nat /\ RequestLeft'[s] \in Nat
      /\ \A v \in Workers : WorkerLeft[v] \in Nat /\ WorkerLeft'[v] \in Nat
  BY LeftType, LeftTypeNext DEF LeftInNat
<1>2. WorkerLeft[w] = StageLeft(pc[w]) /\ WorkerLeft'[w] = StageLeft(pc'[w])
  BY DEF WorkerLeft
<1>3. \A v \in Workers \ {w} : WorkerLeft'[v] = WorkerLeft[v]
  BY DEF WorkerLeft
<1> DEFINE a == SumFunctionOnSet(RequestLeft, Requests)
           b == SumFunctionOnSet(RequestLeft', Requests)
           c == SumFunctionOnSet(WorkerLeft, Workers)
           e == SumFunctionOnSet(WorkerLeft', Workers)
           d == IF configured THEN 0 ELSE 1
<1>4. a \in Nat /\ b \in Nat /\ b + RequestLeft[r] = a + RequestLeft'[r]
  BY <1>1, SumChangesAt
<1>5. c \in Nat /\ e \in Nat /\ e + WorkerLeft[w] = c + WorkerLeft'[w]
  BY <1>1, <1>3, WorkersAssumption, SumChangesAt
<1>6. Remaining = a + c + d /\ Remaining' = b + e + d /\ d \in Nat
  BY DEF Remaining
<1>7. /\ RequestLeft[r] \in Nat /\ RequestLeft'[r] \in Nat
      /\ WorkerLeft[w] \in Nat /\ WorkerLeft'[w] \in Nat
  BY <1>1
<1>8. RequestLeft'[r] + WorkerLeft'[w] < RequestLeft[r] + WorkerLeft[w]
  BY <1>2
<1> HIDE DEF a, b, c, d, e
<1> QED BY <1>4, <1>5, <1>6, <1>7, <1>8

\* A worker that is handed a request has all of an invocation before it.
LEMMA AssignLeft ==
  ASSUME TypeInv, NEW w \in Workers, NEW r, Assign(w, r)
  PROVE  /\ StageLeft(pc[w]) = 0 /\ StageLeft(pc'[w]) = 6
         /\ \A v \in Workers \ {w} : pc'[v] = pc[v]
BY DEF TypeInv, TypeOK, Assign, StageLeft

\* A delivery takes one of those that are left, and begins an invocation.
LEMMA DeliveryGivesWay ==
  ASSUME TypeInv, TypeInv', IsFiniteSet(Requests), NEW m \in Messages, NEW w \in Workers,
         Deliver(w, m), UNCHANGED <<status, late, configured>>
  PROVE  Remaining' < Remaining
<1>1. /\ StageLeft(pc[w]) = 0 /\ StageLeft(pc'[w]) = 6
      /\ \A v \in Workers \ {w} : pc'[v] = pc[v]
  BY AssignLeft DEF Deliver
<1>2. m \in Requests /\ \A s \in Messages \ {m} : receives'[s] = receives[s]
  BY DEF Deliver, TypeInv, TypeOK, Requests
<1>3. \A s \in Requests \ {m} : RequestLeft'[s] = RequestLeft[s]
  BY <1>2, LeftStays
<1> DEFINE n == receives[m]
           kept == StandingLeft(status[m]) + late[m]
<1>4. receives'[m] = n + 1 /\ n \in Nat
  BY DEF Deliver, TypeInv, TypeOK
<1>5. kept \in Nat
  BY <1>2 DEF TypeInv, TypeOK, StandingLeft
<1>6. RequestLeft[m] = kept + 7 * (DeliveryAttempts - n)
  BY <1>2 DEF RequestLeft, ReceivesLeft
<1>7. RequestLeft'[m] = kept + 7 * (DeliveryAttempts - (n + 1))
  BY <1>2, <1>4 DEF RequestLeft, ReceivesLeft
<1> HIDE DEF n, kept
<1>8. RequestLeft'[m] + 6 < RequestLeft[m] + 0
  BY <1>4, <1>5, <1>6, <1>7, QueueAssumption
<1> QED BY <1>1, <1>2, <1>3, <1>8, WorkGivesWay

\* An invocation that goes on, fails or ends has less to do, though it may leave
\* a push behind.
LEMMA InvocationGivesWay ==
  ASSUME TypeInv, TypeInv', IsFiniteSet(Requests), NEW w \in Workers, Work(w) \/ Failure(w)
  PROVE  Remaining' < Remaining
<1> DEFINE r == job[w]
<1>1. Busy(w) /\ r \in Requests
  BY DEF TypeInv, JobOK, Busy, Work, BuildClient, RefuseRequest, CheckLog, Post, RefuseNumber,
         Accepted, Record, Finish, Failure, CheckLogFails, Rejected, LostAnswer, RecordFails,
         DeleteLost, Crash, CrashMidSend, Step
<1> HIDE DEF r
<1>2. \A s \in Requests : late[s] \in Nat
  BY DEF TypeInv, TypeOK
<1>3. pc[w] \in Stages
  BY DEF TypeInv, TypeOK
<1>4. configured' = configured /\ receives' = receives
  BY DEF Work, BuildClient, RefuseRequest, CheckLog, Post, RefuseNumber, Accepted, Record, Finish,
         Failure, CheckLogFails, Rejected, LostAnswer, RecordFails, DeleteLost, Crash,
         CrashMidSend, Fail, queue
<1>5. \A v \in Workers \ {w} : pc'[v] = pc[v]
  BY DEF Work, BuildClient, RefuseRequest, CheckLog, Post, RefuseNumber, Accepted, Record, Finish,
         Failure, CheckLogFails, Rejected, LostAnswer, RecordFails, DeleteLost, Crash,
         CrashMidSend, Step, Fail, Free, TypeInv, TypeOK
<1>6. /\ \A s \in Requests \ {r} : status'[s] = status[s] /\ late'[s] = late[s]
      /\ StandingLeft(status'[r]) <= StandingLeft(status[r])
  <2>1. Fail(w) => /\ \A s \in Requests \ {r} : status'[s] = status[s]
                   /\ status'[r] = status[r] \/ status'[r] = "failed"
    BY <1>1 DEF Fail, TypeInv, TypeOK, r
  <2>2. Finish(w) => /\ \A s \in Requests \ {r} : status'[s] = status[s]
                     /\ status'[r] = "done"
    BY <1>1 DEF Finish, TypeInv, TypeOK, r
  <2>3. /\ \A s \in Requests \ {r} : status'[s] = status[s]
        /\ status'[r] = status[r] \/ status'[r] = "failed" \/ status'[r] = "done"
    BY <2>1, <2>2
       DEF Work, BuildClient, RefuseRequest, CheckLog, Post, RefuseNumber, Accepted, Record,
           Failure, CheckLogFails, Rejected, LostAnswer, RecordFails, DeleteLost, Crash,
           CrashMidSend
  <2>4. StandingLeft(status'[r]) <= StandingLeft(status[r])
    BY <2>3 DEF StandingLeft
  <2>5. \A s \in Requests \ {r} : late'[s] = late[s]
    BY DEF Work, BuildClient, RefuseRequest, CheckLog, Post, RefuseNumber, Accepted, Record,
           Finish, Failure, CheckLogFails, Rejected, LostAnswer, RecordFails, DeleteLost, Crash,
           CrashMidSend, provider, TypeInv, TypeOK, r
  <2> QED BY <2>3, <2>4, <2>5
<1>7. \/ late'[r] = late[r] /\ StageLeft(pc'[w]) < StageLeft(pc[w])
      \/ late'[r] = late[r] + 1 /\ StageLeft(pc'[w]) = 0 /\ StageLeft(pc[w]) = 3
  <2>1. pc \in [Workers -> Stages]
    BY DEF TypeInv, TypeOK
  <2>2. ASSUME Free(w)
        PROVE  pc'[w] = "idle"
    BY <2>1, <2>2 DEF Free
  <2>3. CASE LostAnswer(w) \/ (CrashMidSend(w) /\ pc[w] = "wait")
    <3>1. late'[r] = late[r] + 1 /\ pc'[w] = "idle" /\ pc[w] = "wait"
      BY <1>1, <2>2, <2>3 DEF LostAnswer, CrashMidSend, Fail, TypeInv, TypeOK, r
    <3> QED BY <3>1 DEF StageLeft
  <2>4. CASE late' = late /\ Free(w)
    <3>1. pc'[w] = "idle" /\ pc[w] # "idle"
      BY <1>1, <2>2, <2>4 DEF Busy
    <3> QED BY <1>3, <2>4, <3>1 DEF StageLeft, Stages
  <2>5. CASE Accepted(w)
    BY <1>1, <2>1, <2>5 DEF Accepted, Step, StageLeft
  <2>6. CASE BuildClient(w)
    BY <1>1, <2>1, <2>6 DEF BuildClient, Step, StageLeft, provider
  <2>7. CASE CheckLog(w)
    BY <1>1, <2>1, <2>7 DEF CheckLog, Step, StageLeft, provider
  <2>8. CASE Post(w)
    BY <1>1, <2>1, <2>8 DEF Post, Step, StageLeft, provider
  <2>9. CASE Record(w)
    BY <1>1, <2>1, <2>9 DEF Record, Step, StageLeft, provider
  <2> QED BY <2>3, <2>4, <2>5, <2>6, <2>7, <2>8, <2>9
          DEF Work, RefuseRequest, RefuseNumber, Finish, Failure, CheckLogFails, Rejected,
              RecordFails, DeleteLost, Crash, CrashMidSend, Fail, provider
<1>8. \A s \in Requests \ {r} : RequestLeft'[s] = RequestLeft[s]
  BY <1>4, <1>6, LeftStays
<1>9. RequestLeft'[r] + StageLeft(pc'[w]) < RequestLeft[r] + StageLeft(pc[w])
  <2> DEFINE a == StandingLeft(status[r])
             b == StandingLeft(status'[r])
             n == ReceivesLeft(r)
  <2>1. RequestLeft[r] = a + late[r] + n
    BY <1>1 DEF RequestLeft
  <2>3. RequestLeft'[r] = b + late'[r] + n
    BY <1>1, <1>4 DEF RequestLeft, ReceivesLeft
  <2>4. a \in Nat /\ b \in Nat /\ b <= a
    BY <1>6 DEF StandingLeft
  <2>5. n \in Nat /\ late[r] \in Nat
    BY <1>1, <1>2, LeftType DEF LeftInNat, TypeInv, TypeOK
  <2>6. StageLeft(pc[w]) \in Nat /\ StageLeft(pc'[w]) \in Nat
    BY DEF TypeInv, TypeOK, Stages, StageLeft
  <2> HIDE DEF a, b, n
  <2> QED BY <1>7, <2>1, <2>3, <2>4, <2>5, <2>6
<1> QED BY <1>1, <1>4, <1>5, <1>8, <1>9, WorkGivesWay

\* Every step but the clock's leaves less, and the clock as much.
LEMMA StepGivesWay ==
  ASSUME TypeInv, TypeInv', IsFiniteSet(Requests)
  PROVE  /\ Tick => Remaining' = Remaining
         /\ Next /\ ~Tick => Remaining' < Remaining
<1>1. ASSUME Tick PROVE Remaining' = Remaining
  <2>1. RequestLeft' = RequestLeft
    BY <1>1 DEF Tick, RequestLeft, ReceivesLeft, StandingLeft, provider
  <2>2. WorkerLeft' = WorkerLeft /\ configured' = configured
    BY <1>1 DEF Tick, WorkerLeft
  <2> QED BY <2>1, <2>2 DEF Remaining
<1>2. ASSUME Next, ~Tick PROVE Remaining' < Remaining
  <2>1. ASSUME NEW w \in Workers, Work(w) \/ Failure(w)
        PROVE  Remaining' < Remaining
    BY <2>1, InvocationGivesWay
  <2>2. ASSUME NEW w \in Workers, NEW m \in Messages, Receive(w, m) \/ DeliverAgain(w, m)
        PROVE  Remaining' < Remaining
    BY <2>2, DeliveryGivesWay DEF Receive, DeliverAgain, provider
  <2>3. ASSUME NEW w \in Workers, NEW d \in Direct, Call(w, d)
        PROVE  Remaining' < Remaining
    <3>1. /\ StageLeft(pc[w]) = 0 /\ StageLeft(pc'[w]) = 6
          /\ \A v \in Workers \ {w} : pc'[v] = pc[v]
      BY <2>3, AssignLeft DEF Call
    <3>2. d \in Requests /\ d \notin Messages
      BY RequestsAssumption DEF Requests
    <3>3. /\ status[d] = "new" /\ status'[d] = "taken" /\ late' = late /\ receives' = receives
          /\ configured' = configured /\ \A s \in Requests \ {d} : status'[s] = status[s]
      BY <2>3, <3>2 DEF Call, queue, provider, TypeInv, TypeOK
    <3>4. \A s \in Requests \ {d} : RequestLeft'[s] = RequestLeft[s]
      BY <3>3, LeftStays
    <3>5. RequestLeft[d] = 8 + late[d] + 0 /\ RequestLeft'[d] = 1 + late[d] + 0
      BY <3>2, <3>3 DEF RequestLeft, StandingLeft, ReceivesLeft
    <3>6. late[d] \in Nat
      BY <3>2 DEF TypeInv, TypeOK
    <3>7. RequestLeft'[d] + 6 < RequestLeft[d] + 0
      BY <3>5, <3>6
    <3> QED BY <3>1, <3>2, <3>3, <3>4, <3>7, WorkGivesWay
  <2>4. ASSUME NEW m \in Messages, Enqueue(m) \/ DeadLetter(m)
        PROVE  Remaining' < Remaining
    <3>1. m \in Requests
      BY DEF Requests
    <3>2. /\ late' = late /\ receives' = receives /\ pc' = pc /\ configured' = configured
          /\ \A s \in Requests \ {m} : status'[s] = status[s]
          /\ \/ status[m] = "new" /\ status'[m] = "queued"
             \/ status[m] = "queued" /\ status'[m] = "dead"
      BY <2>4, <3>1 DEF Enqueue, DeadLetter, Visible, queue, worker, provider, TypeInv, TypeOK
    <3>3. \A s \in Requests \ {m} : RequestLeft'[s] = RequestLeft[s]
      BY <3>2, LeftStays
    <3>4. StandingLeft(status'[m]) < StandingLeft(status[m])
      BY <3>2 DEF StandingLeft
    <3>5. StandingLeft(status'[m]) \in Nat /\ StandingLeft(status[m]) \in Nat
      BY DEF StandingLeft
    <3>6. RequestLeft[m] = StandingLeft(status[m]) + late[m] + ReceivesLeft(m)
      BY <3>1 DEF RequestLeft
    <3>7. RequestLeft'[m] = StandingLeft(status'[m]) + late[m] + ReceivesLeft(m)
      BY <3>1, <3>2 DEF RequestLeft, ReceivesLeft
    <3>8. late[m] \in Nat /\ ReceivesLeft(m) \in Nat
      BY <3>1, LeftType DEF LeftInNat, TypeInv, TypeOK
    <3>9. RequestLeft'[m] < RequestLeft[m]
      BY <3>4, <3>5, <3>6, <3>7, <3>8
    <3> QED BY <3>1, <3>2, <3>3, <3>9, RequestGivesWay
  <2>5. ASSUME NEW r \in Requests, LateAccepted(r) \/ LateDropped(r)
        PROVE  Remaining' < Remaining
    <3>1. /\ status' = status /\ receives' = receives /\ pc' = pc /\ configured' = configured
          /\ late[r] > 0 /\ late'[r] = late[r] - 1
          /\ \A s \in Requests \ {r} : late'[s] = late[s]
      BY <2>5 DEF LateAccepted, LateDropped, queue, worker, TypeInv, TypeOK
    <3>2. \A s \in Requests \ {r} : RequestLeft'[s] = RequestLeft[s]
      BY <3>1, LeftStays
    <3>3. RequestLeft[r] = StandingLeft(status[r]) + late[r] + ReceivesLeft(r)
      BY DEF RequestLeft
    <3>4. RequestLeft'[r] = StandingLeft(status[r]) + late'[r] + ReceivesLeft(r)
      BY <3>1 DEF RequestLeft, ReceivesLeft
    <3>5. late[r] \in Nat /\ ReceivesLeft(r) \in Nat /\ StandingLeft(status[r]) \in Nat
      BY LeftType DEF LeftInNat, TypeInv, TypeOK, StandingLeft
    <3>6. RequestLeft'[r] < RequestLeft[r]
      BY <3>1, <3>3, <3>4, <3>5
    <3> QED BY <3>1, <3>2, <3>6, RequestGivesWay
  <2>6. CASE FillSecret
    <3> DEFINE a == SumFunctionOnSet(RequestLeft, Requests)
               c == SumFunctionOnSet(WorkerLeft, Workers)
    <3>1. RequestLeft' = RequestLeft
      BY <2>6 DEF FillSecret, RequestLeft, ReceivesLeft, StandingLeft, queue, provider
    <3>2. WorkerLeft' = WorkerLeft /\ ~configured /\ configured'
      BY <2>6 DEF FillSecret, WorkerLeft, worker
    <3>3. Remaining = a + c + 1 /\ Remaining' = a + c + 0
      BY <3>1, <3>2 DEF Remaining
    <3>4. a \in Nat
      BY LeftType, SumEquation DEF LeftInNat
    <3>5. c \in Nat
      BY LeftType, WorkersAssumption, SumEquation DEF LeftInNat
    <3> HIDE DEF a, c
    <3> QED BY <3>3, <3>4, <3>5
  <2> QED BY <1>2, <2>1, <2>2, <2>3, <2>4, <2>5, <2>6 DEF Next
<1> QED BY <1>1, <1>2

\* Nothing is tried for ever: each step but the clock's leaves less to do, in
\* numbers, and the clock leaves as much.  However deliveries fail, are repeated,
\* overlap and leave pushes behind, there are only so many steps until every
\* request has ended or nothing but time goes on (the redrive policy; Lambda
\* invokes for a direct request once).
THEOREM NothingIsTriedForEver ==
  ASSUME IsFiniteSet(Requests)
  PROVE  /\ Spec => [](Remaining \in Nat)
         /\ Spec => [][IF Tick THEN Remaining' = Remaining ELSE Remaining' < Remaining]_vars
<1>1. TypeInv => Remaining \in Nat
  <2> SUFFICES ASSUME TypeInv PROVE Remaining \in Nat
    OBVIOUS
  <2> DEFINE a == SumFunctionOnSet(RequestLeft, Requests)
             c == SumFunctionOnSet(WorkerLeft, Workers)
  <2>1. a \in Nat
    BY LeftType, SumEquation DEF LeftInNat
  <2>2. c \in Nat
    BY LeftType, WorkersAssumption, SumEquation DEF LeftInNat
  <2>3. Remaining = a + c + (IF configured THEN 0 ELSE 1)
    BY DEF Remaining
  <2> HIDE DEF a, c
  <2> QED BY <2>1, <2>2, <2>3
<1>2. TypeInv /\ TypeInv' /\ [Next]_vars =>
        [IF Tick THEN Remaining' = Remaining ELSE Remaining' < Remaining]_vars
  BY StepGivesWay
<1> QED BY <1>1, <1>2, TypeInit, TypeInductive, PTL DEF Spec

-----------------------------------------------------------------------------
(* A producer that puts several messages on the queue in one step.         *)

\* SQS takes these messages at once, and nothing else happens.
EnqueueAll(some) ==
  /\ \A m \in some : status[m] = "new"
  /\ status' = [r \in Requests |-> IF r \in some THEN "queued" ELSE status[r]]
  /\ UNCHANGED <<queue, worker, log, provider, configured, bounds>>

\* That disturbs none of the invariants: nobody works on a message that is
\* new, and none has been texted.
LEMMA EnqueueAllKeeps ==
  ASSUME NEW some \in SUBSET Messages, EnqueueAll(some), TypeInv
  PROVE  /\ TypeInv'
         /\ TextedInv => TextedInv'
         /\ LeaseInv => LeaseInv'
         /\ IsFiniteSet(Requests) /\ RaceInv => RaceInv'
<1>1. /\ status' = [r \in Requests |-> IF r \in some THEN "queued" ELSE status[r]]
      /\ UNCHANGED <<receives, hidden, pc, job, age, log, texts, late, configured,
                     faults, doubts, redeliveries>>
  BY DEF EnqueueAll, queue, worker, provider, bounds
<1>2. \A r \in Requests : \/ r \notin some /\ status'[r] = status[r]
                          \/ r \in some /\ status[r] = "new" /\ status'[r] = "queued"
  BY <1>1 DEF EnqueueAll
<1>3. TypeInv'
  BY <1>1 DEF TypeInv, TypeOK, JobOK, Busy
<1>4. ASSUME TextedInv PROVE TextedInv'
  <2>1. Growing
    BY <1>1 DEF Growing, TypeInv, TypeOK
  <2> QED BY <1>1, <1>2, <1>4, <2>1, QuietStep
<1>5. ASSUME LeaseInv PROVE LeaseInv'
  BY <1>1, <1>2, <1>5, LeaseQuiet, NewIsIdle
<1>6. ASSUME IsFiniteSet(Requests), RaceInv PROVE RaceInv'
  <2> SUFFICES ASSUME HasTable, NEW r \in Requests PROVE Raced(r)'
    BY DEF RaceInv
  <2>1. Raced(r)
    BY <1>6 DEF RaceInv
  <2>2. TextsOf(r)' <= TextsOf(r)
    BY <1>1, <1>3, <1>6, TextsOfStep DEF TypeInv, TypeOK
  <2>3. doubts <= doubts'
    BY <1>1 DEF TypeInv, TypeOK
  <2>4. Shut(r)' <=> Shut(r)
    <3>1. Id(r)' = Id(r) /\ (Id(r) = NoId => r \notin some)
      BY RequestsAssumption DEF Id, Requests
    <3> QED BY <1>1, <1>2, <3>1 DEF Shut, AlreadySent
  <2>5. Racers(r)' = Racers(r) /\ Writers(r)' = Writers(r)
    BY <1>1 DEF Racers, Writers, Askers, Id
  <2> QED BY <1>3, <1>6, <2>1, <2>2, <2>3, <2>4, <2>5, RaceQuiet
<1> QED BY <1>3, <1>4, <1>5, <1>6

\* It leaves no more to do than there was.
LEMMA EnqueueAllLeaves ==
  ASSUME NEW some \in SUBSET Messages, EnqueueAll(some), TypeInv, TypeInv', IsFiniteSet(Requests)
  PROVE  Remaining' <= Remaining
<1>1. /\ status' = [r \in Requests |-> IF r \in some THEN "queued" ELSE status[r]]
      /\ \A m \in some : status[m] = "new"
      /\ UNCHANGED <<receives, pc, late, configured>>
  BY DEF EnqueueAll, queue, worker, provider
<1>2. ASSUME NEW r \in Requests
      PROVE  RequestLeft'[r] <= RequestLeft[r]
  <2>1. StandingLeft(status'[r]) <= StandingLeft(status[r])
    BY <1>1 DEF StandingLeft
  <2>2. StandingLeft(status'[r]) \in Nat /\ StandingLeft(status[r]) \in Nat
    BY DEF StandingLeft
  <2>3. RequestLeft[r] = StandingLeft(status[r]) + late[r] + ReceivesLeft(r)
    BY DEF RequestLeft
  <2>4. RequestLeft'[r] = StandingLeft(status'[r]) + late[r] + ReceivesLeft(r)
    BY <1>1 DEF RequestLeft, ReceivesLeft
  <2>5. late[r] \in Nat /\ ReceivesLeft(r) \in Nat
    BY LeftType DEF LeftInNat, TypeInv, TypeOK
  <2> QED BY <2>1, <2>2, <2>3, <2>4, <2>5
<1>3. \A r \in Requests : RequestLeft[r] \in Nat /\ RequestLeft'[r] \in Nat
  BY LeftType, LeftTypeNext DEF LeftInNat
<1> DEFINE a == SumFunctionOnSet(RequestLeft, Requests)
           b == SumFunctionOnSet(RequestLeft', Requests)
           c == SumFunctionOnSet(WorkerLeft, Workers)
           d == IF configured THEN 0 ELSE 1
<1>4. b <= a
  BY <1>2, <1>3, SumMonotone
<1>5. a \in Nat
  BY <1>3, SumEquation
<1>6. b \in Nat
  BY <1>3, SumEquation
<1>7. c \in Nat
  BY LeftType, WorkersAssumption, SumEquation DEF LeftInNat
<1>8. WorkerLeft' = WorkerLeft
  BY <1>1 DEF WorkerLeft
<1>9. Remaining = a + c + d /\ Remaining' = b + c + d /\ d \in Nat
  BY <1>1, <1>8 DEF Remaining
<1> HIDE DEF a, b, c, d
<1> QED BY <1>4, <1>5, <1>6, <1>7, <1>9

\* To the promise it is a producer that asks for all of them, and what is settled
\* stays settled.
LEMMA EnqueueAllAsks ==
  ASSUME NEW some \in SUBSET Messages, EnqueueAll(some), SenderInv
  PROVE  /\ Promise!Next
         /\ \A k : Settled(k)' <=> Settled(k)
<1>1. /\ status' = [r \in Requests |-> IF r \in some THEN "queued" ELSE status[r]]
      /\ \A r \in some : status[r] = "new"
      /\ texts' = texts
  BY DEF EnqueueAll, provider
<1>2. \A k : Settled(k)' <=> Settled(k)
  BY DEF EnqueueAll, Settled, AlreadySent, InDoubt, worker, provider, Id
<1>3. some \in SUBSET Requests
  BY DEF Requests
<1>4. Promise!Ask(some)
  BY <1>1, <1>3, AskStep
<1>5. Promise!Seal
  BY <1>2 DEF Promise!Seal, Requests
<1> QED BY <1>2, <1>3, <1>4, <1>5 DEF Promise!Next
=============================================================================
