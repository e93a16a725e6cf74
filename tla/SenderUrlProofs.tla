-------------------------- MODULE SenderUrlProofs ---------------------------
(***************************************************************************)
(* Proofs about the function URL: it adds nothing to what the sender may   *)
(* do, its callers hear the truth, and keys end with their containers.     *)
(***************************************************************************)
EXTENDS SenderUrl, MessageSenderProofs

-----------------------------------------------------------------------------
(* The URL is one way to the sender.                                       *)

\* Every step of the URL is one of the sender's, or leaves the sender alone.
LEMMA SenderStep == [UrlNext]_urlVars => [Next]_vars
<1> SUFFICES ASSUME [UrlNext]_urlVars PROVE [Next]_vars
  OBVIOUS
<1>1. ASSUME NEW w \in Workers, NEW d \in Direct, LetIn(w, d) PROVE Next
  BY <1>1 DEF LetIn, Next
<1>2. ASSUME NEW w \in Workers, NEW d \in Direct,
             TurnAway(w, d) \/ Report(w, d) \/ KeyUnreadable(w, d)
      PROVE  UNCHANGED vars
  BY <1>2 DEF TurnAway, Report, KeyUnreadable
<1>3. ASSUME NEW w \in Workers, Verdict(w) \/ Unsent(w) \/ Unknown(w) \/ Die(w)
      PROVE  Work(w) \/ Failure(w)
  BY <1>3 DEF Verdict, Unsent, Unknown, Die, Work, Failure
<1>4. ASSUME NEW w \in Workers, Work(w) \/ Failure(w) PROVE Next
  BY <1>4 DEF Next
<1>5. ASSUME NEW w \in Workers, Recycle(w) PROVE UNCHANGED vars
  BY <1>5 DEF Recycle
<1>6. CASE Rotate \/ UNCHANGED urlVars
  BY <1>6 DEF Rotate, urlVars
<1>7. CASE Surroundings
  BY <1>7 DEF Surroundings, Next
<1> QED
  BY <1>1, <1>2, <1>3, <1>4, <1>5, <1>6, <1>7 DEF UrlNext

\* The sender behind its function URL is the sender: whatever MessageSender's
\* theorems say of it holds with any traffic, keys and containers in front.
THEOREM UrlIsTheSender == UrlSpec => Spec
<1>1. UrlInit => Init
  BY DEF UrlInit
<1> QED
  BY <1>1, SenderStep, PTL DEF UrlSpec, Spec

\* What is known of the sender in every state and step of the URL.
LEMMA SenderFacts ==
  /\ UrlInit => TypeInv /\ TextedInv
  /\ TypeInv /\ TextedInv /\ [UrlNext]_urlVars => (TypeInv /\ TextedInv)' /\ Growing
  BY SenderStep, TypeInit, TextedInit, TypeInductive, TextedInductive, TextsGrow DEF UrlInit

-----------------------------------------------------------------------------
(* What the callers hear.                                                  *)

Untouched(d) == texts[d] = 0 /\ late[d] = 0

\* A success that d was told, or is about to be.
Told(d) ==
  \/ answer[d] = "200 sent" /\ texts[d] = 1 /\ late[d] = 0
  \/ /\ answer[d] = "200 duplicate" /\ Untouched(d)
     /\ \E s \in Requests \ {d} : SameReminder(d, s) /\ texts[s] > 0

\* How far the invocation that holds d has come.
Under(w, d) ==
  /\ pc[w] \in {"start", "check", "send", "wait"} => Untouched(d)
  /\ pc[w] = "record" => texts[d] = 1 /\ late[d] = 0
  /\ pc[w] = "finish" => Told(d)

\* One invocation at a time holds d, and only while it is being answered; a
\* refusal comes before anything was sent, and is the end of it.
CallInv(d) ==
  /\ status[d] \in {"new", "taken", "done", "failed"}
  /\ \A w \in Workers : job[w] = d =>
       /\ status[d] = "taken" /\ Under(w, d)
       /\ \A v \in Workers : job[v] = d => v = w
  /\ status[d] = "new" => Untouched(d)
  /\ status[d] = "done" => Told(d)
  /\ answer[d] \in Refusals => Untouched(d) /\ status[d] \in {"new", "failed"}

CallsInv ==
  /\ answer \in [Direct -> Answers \cup {NoAnswer}]
  /\ \A d \in Direct : CallInv(d)

\* A request that a step does not concern stays as it is, though others for
\* its reminder may be texted meanwhile.
LEMMA Unconcerned ==
  ASSUME Growing, NEW d \in Direct, CallInv(d),
         answer'[d] = answer[d], status'[d] = status[d],
         texts'[d] = texts[d], late'[d] = late[d],
         \A w \in Workers : job'[w] = d => job[w] = d /\ pc'[w] = pc[w]
  PROVE  CallInv(d)'
<1>1. Told(d) => Told(d)'
  <2> SUFFICES ASSUME Told(d) PROVE Told(d)'
    OBVIOUS
  <2>1. CASE answer[d] = "200 sent"
    BY <2>1 DEF Told
  <2>2. CASE answer[d] # "200 sent"
    <3>1. PICK s \in Requests \ {d} : SameReminder(d, s) /\ texts[s] > 0
      BY <2>2 DEF Told
    <3>2. texts'[s] > 0
      BY <3>1 DEF Growing
    <3> QED
      BY <2>2, <3>1, <3>2 DEF Told, Untouched, SameReminder
  <2> QED
    BY <2>1, <2>2
<1>2. ASSUME NEW w \in Workers, job'[w] = d PROVE Under(w, d)'
  BY <1>1, <1>2 DEF CallInv, Under, Untouched
<1> QED
  BY <1>1, <1>2 DEF CallInv, Untouched

\* An invocation that fails after its caller heard of it, or heard no refusal,
\* is over.
LEMMA FailedCall ==
  ASSUME TypeInv, NEW w \in Workers, NEW d \in Direct, CallInv(d), job[w] = d,
         Fail(w),
         answer'[d] \in Refusals => Untouched(d)'
  PROVE  CallInv(d)'
<1>1. status[d] = "taken" /\ d \in Requests /\ d # NoRequest
  BY RequestsAssumption DEF CallInv, Requests
<1>2. status'[d] = "failed"
  BY <1>1 DEF Fail, TypeInv, TypeOK
<1>3. \A v \in Workers : job'[v] # d
  BY <1>1 DEF Fail, Free, CallInv, TypeInv, TypeOK
<1> QED
  BY <1>2, <1>3 DEF CallInv

\* What a caller hears leaves the other callers alone.
LEMMA SaysOne ==
  ASSUME CallsInv, NEW w \in Workers, NEW a \in Answers, Says(w, a)
  PROVE  /\ answer' \in [Direct -> Answers \cup {NoAnswer}]
         /\ \A d \in Direct : answer'[d] = IF job[w] = d THEN a ELSE answer[d]
  BY DEF Says, Hear, CallsInv

\* A failing invocation, whatever its caller hears: a refusal only if nothing
\* has been handed to TrueDialog.
LEMMA FailStep ==
  ASSUME TypeInv, CallsInv, Growing, NEW w \in Workers, Busy(w), Fail(w),
         NEW a \in Answers, Says(w, a), texts' = texts,
         \A r \in Requests : r # job[w] => late'[r] = late[r],
         a \in Refusals => late' = late /\ pc[w] \in {"start", "check", "send", "wait"}
  PROVE  CallsInv'
<1>1. SUFFICES ASSUME NEW d \in Direct PROVE CallInv(d)'
  BY SaysOne DEF CallsInv
<1>2. CallInv(d) /\ d \in Requests
  BY DEF CallsInv, Requests
<1>3. CASE job[w] = d
  <2>1. a \in Refusals => Untouched(d)'
    BY <1>2, <1>3 DEF CallInv, Under, Untouched
  <2> QED
    BY <1>2, <1>3, <2>1, SaysOne, FailedCall
<1>4. CASE job[w] # d
  <2>1. answer'[d] = answer[d] /\ texts'[d] = texts[d] /\ late'[d] = late[d]
    BY <1>2, <1>4, SaysOne
  <2>2. status'[d] = status[d]
    BY <1>2, <1>4 DEF Fail, TypeInv, TypeOK
  <2>3. \A v \in Workers : job'[v] = d => job[v] = d /\ pc'[v] = pc[v]
    BY <1>2, RequestsAssumption DEF Fail, Free, TypeInv, TypeOK
  <2> QED
    BY <1>2, <2>1, <2>2, <2>3, Unconcerned
<1> QED
  BY <1>3, <1>4

\* A step of the worker w that moves neither status nor job: the request it
\* holds is all there is to look at.
LEMMA OwnStep ==
  ASSUME TypeInv, CallsInv, Growing, NEW w \in Workers, Busy(w),
         status' = status, job' = job,
         \A v \in Workers : v # w => pc'[v] = pc[v],
         answer' \in [Direct -> Answers \cup {NoAnswer}],
         \A d \in Direct : d # job[w] =>
           answer'[d] = answer[d] /\ texts'[d] = texts[d] /\ late'[d] = late[d],
         job[w] \in Direct => Under(w, job[w])' /\ answer'[job[w]] \notin Refusals
  PROVE  CallsInv'
<1>1. SUFFICES ASSUME NEW d \in Direct PROVE CallInv(d)'
  BY DEF CallsInv
<1>2. CallInv(d)
  BY DEF CallsInv
<1>3. CASE job[w] = d
  <2>1. status[d] = "taken" /\ \A v \in Workers : job[v] = d => v = w
    BY <1>2, <1>3 DEF CallInv
  <2> QED
    BY <1>2, <1>3, <2>1 DEF CallInv
<1>4. CASE job[w] # d
  BY <1>2, <1>4, Unconcerned
<1> QED
  BY <1>3, <1>4

\* The steps of a send that succeeds.
LEMMA VerdictStep ==
  ASSUME TypeInv, TextedInv, CallsInv, Growing, NEW w \in Workers, Verdict(w)
  PROVE  CallsInv'
<1>1. ASSUME job[w] \in Direct
      PROVE  /\ CallInv(job[w]) /\ status[job[w]] = "taken" /\ Under(w, job[w])
             /\ answer[job[w]] \notin Refusals /\ job[w] \in Requests
  BY <1>1 DEF CallsInv, CallInv, Requests
<1>2. answer \in [Direct -> Answers \cup {NoAnswer}]
  BY DEF CallsInv
<1>3. CASE CheckLog(w)
  <2>0. /\ Busy(w) /\ status' = status /\ job' = job /\ texts' = texts /\ late' = late
        /\ pc[w] = "check" /\ pc' = [pc EXCEPT ![w] = pc'[w]]
        /\ pc'[w] = IF AlreadySent(Id(job[w])) THEN "finish" ELSE "send"
    BY <1>3 DEF CheckLog, Step, Busy, provider, TypeInv, TypeOK
  <2>1. CASE pc'[w] = "finish"
    <3>1. Says(w, "200 duplicate")
      BY <1>3, <2>1 DEF Verdict, CheckLog, Step, BuildClient, Post, Accepted, Finish, Record
    <3>2. /\ answer' \in [Direct -> Answers \cup {NoAnswer}]
          /\ \A d \in Direct : answer'[d] = IF job[w] = d THEN "200 duplicate" ELSE answer[d]
      BY <3>1, SaysOne DEF Answers
    <3>3. ASSUME job[w] \in Direct PROVE Under(w, job[w])'
      <4>1. Untouched(job[w])
        BY <1>1, <2>0, <3>3 DEF Under
      <4>2. PICK s \in Requests : Id(s) = Id(job[w]) /\ texts[s] > 0
        BY <2>0, <2>1 DEF AlreadySent, TextedInv, LogIsHonest
      <4>3. s # job[w] /\ Id(job[w]) # NoId
        BY <2>0, <2>1, <4>1, <4>2 DEF Untouched, AlreadySent
      <4>4. SameReminder(job[w], s)
        BY <4>2, <4>3 DEF SameReminder
      <4> QED
        BY <2>0, <2>1, <3>2, <3>3, <4>1, <4>2, <4>3, <4>4 DEF Under, Told, Untouched, SameReminder
    <3> QED
      BY <2>0, <3>2, <3>3, OwnStep DEF Refusals, TypeInv, TypeOK
  <2>2. CASE pc'[w] # "finish"
    <3>1. UNCHANGED answer
      BY <1>3, <2>2 DEF Verdict, CheckLog, Step, BuildClient, Post, Accepted, Finish, Record
    <3>2. ASSUME job[w] \in Direct PROVE Under(w, job[w])'
      BY <1>1, <2>0, <2>2, <3>2 DEF Under, Untouched
    <3> QED
      BY <1>1, <1>2, <2>0, <3>1, <3>2, OwnStep DEF TypeInv, TypeOK
  <2> QED
    BY <2>1, <2>2
<1>4. CASE BuildClient(w) \/ Post(w)
  <2>0. /\ Busy(w) /\ status' = status /\ job' = job /\ texts' = texts /\ late' = late
        /\ pc[w] \in {"start", "send"} /\ pc' = [pc EXCEPT ![w] = pc'[w]]
        /\ pc'[w] \in {"check", "wait"} /\ UNCHANGED answer
    BY <1>4 DEF Verdict, BuildClient, Post, Step, Busy, queue, provider, TypeInv, TypeOK,
                CheckLog, Record, Accepted, Finish
  <2>1. ASSUME job[w] \in Direct PROVE Under(w, job[w])'
    BY <1>1, <2>0, <2>1 DEF Under, Untouched
  <2> QED
    BY <1>1, <1>2, <2>0, <2>1, OwnStep DEF TypeInv, TypeOK
<1>5. CASE Accepted(w)
  <2>0. /\ Busy(w) /\ status' = status /\ job' = job /\ late' = late
        /\ texts' = [texts EXCEPT ![job[w]] = @ + 1]
        /\ pc[w] = "wait" /\ pc' = [pc EXCEPT ![w] = "record"] /\ UNCHANGED answer
    BY <1>5 DEF Verdict, BuildClient, Post, Step, Busy, CheckLog, Record, Accepted, Finish
  <2>1. ASSUME job[w] \in Direct PROVE Under(w, job[w])'
    BY <1>1, <2>0, <2>1 DEF Under, Untouched, TypeInv, TypeOK
  <2>2. \A d \in Direct : d # job[w] => texts'[d] = texts[d]
    BY <2>0 DEF TypeInv, TypeOK, Requests
  <2> QED
    BY <1>1, <1>2, <2>0, <2>1, <2>2, OwnStep DEF TypeInv, TypeOK
<1>6. CASE Record(w)
  <2>0. /\ Busy(w) /\ status' = status /\ job' = job /\ late' = late /\ texts' = texts
        /\ pc[w] = "record" /\ pc' = [pc EXCEPT ![w] = "finish"]
    BY <1>6 DEF Step, Busy, Record, provider
  <2>1. Says(w, "200 sent")
    BY <1>6 DEF Verdict, CheckLog, Step, BuildClient, Post, Accepted, Finish, Record
  <2>2. /\ answer' \in [Direct -> Answers \cup {NoAnswer}]
        /\ \A d \in Direct : answer'[d] = IF job[w] = d THEN "200 sent" ELSE answer[d]
    BY <2>1, SaysOne DEF Answers
  <2>3. ASSUME job[w] \in Direct PROVE Under(w, job[w])'
    BY <1>1, <2>0, <2>2, <2>3 DEF Under, Told, TypeInv, TypeOK
  <2> QED
    BY <2>0, <2>2, <2>3, OwnStep DEF Refusals, TypeInv, TypeOK
<1>7. CASE Finish(w)
  <2>0. UNCHANGED answer /\ UNCHANGED <<texts, late>> /\ Free(w) /\ pc[w] = "finish"
        /\ status' = [status EXCEPT ![job[w]] = "done"]
    BY <1>7 DEF Verdict, BuildClient, Post, Step, CheckLog, Record, Accepted, Finish, provider
  <2>1. SUFFICES ASSUME NEW d \in Direct PROVE CallInv(d)'
    BY <1>2, <2>0 DEF CallsInv
  <2>2. CallInv(d) /\ d \in Requests /\ d # NoRequest
    BY RequestsAssumption DEF CallsInv, Requests
  <2>3. \A v \in Workers : job'[v] = d => v # w /\ job[v] = d /\ pc'[v] = pc[v]
    BY <2>0, <2>2 DEF Free, TypeInv, TypeOK
  <2>4. CASE job[w] = d
    <3>1. Told(d)
      BY <2>0, <2>2, <2>4 DEF CallInv, Under
    <3>2. Told(d)'
      BY <2>0, <3>1 DEF Told, Untouched, SameReminder
    <3>3. status'[d] = "done" /\ answer'[d] \notin Refusals
      BY <2>0, <2>2, <2>4 DEF CallInv, TypeInv, TypeOK
    <3>4. \A v \in Workers : job'[v] # d
      BY <2>2, <2>3, <2>4 DEF CallInv
    <3> QED
      BY <3>2, <3>3, <3>4 DEF CallInv
  <2>5. CASE job[w] # d
    <3>1. status'[d] = status[d]
      BY <2>0, <2>2, <2>5 DEF TypeInv, TypeOK
    <3> QED
      BY <2>0, <2>2, <2>3, <3>1, Unconcerned
  <2> QED
    BY <2>4, <2>5
<1> QED
  BY <1>3, <1>4, <1>5, <1>6, <1>7 DEF Verdict

\* The failures whose callers hear a refusal: nothing had been sent.
LEMMA UnsentStep ==
  ASSUME TypeInv, CallsInv, Growing, NEW w \in Workers, Unsent(w)
  PROVE  CallsInv'
<1>1. Busy(w) /\ Fail(w) /\ texts' = texts /\ late' = late
  BY DEF Unsent, RefuseRequest, RefuseNumber, Rejected, Busy, provider
<1>2. pc[w] \in {"start", "check", "send", "wait"}
  BY DEF Unsent, RefuseRequest, RefuseNumber, Rejected
<1>3. PICK a \in Answers : Says(w, a)
  <2>1. \E a \in {"400", "503", "502 rejected", "error"} : Says(w, a)
    BY DEF Unsent
  <2> QED
    BY <2>1 DEF Answers, Refusals
<1> QED
  BY <1>1, <1>2, <1>3, FailStep

\* The failures that leave the caller in doubt.
LEMMA UnknownStep ==
  ASSUME TypeInv, CallsInv, Growing, NEW w \in Workers, Unknown(w) \/ Die(w)
  PROVE  CallsInv'
<1>1. Busy(w) /\ Fail(w) /\ texts' = texts
  BY DEF Unknown, Die, LostAnswer, CheckLogFails, RecordFails, DeleteLost, Crash, CrashMidSend,
         Busy, provider
<1>2. \A r \in Requests : r # job[w] => late'[r] = late[r]
  BY DEF Unknown, Die, LostAnswer, CheckLogFails, RecordFails, DeleteLost, Crash, CrashMidSend,
         provider, TypeInv, TypeOK
<1>3. PICK a \in Answers \ Refusals : Says(w, a)
  <2>1. \E a \in {"502 in doubt", "error", "lost"} : Says(w, a)
    BY DEF Unknown, Die
  <2> QED
    BY <2>1 DEF Answers, Refusals
<1> QED
  BY <1>1, <1>2, <1>3, FailStep

\* A request that is let in: from here on an invocation answers for it.
LEMMA LetInStep ==
  ASSUME TypeInv, CallsInv, Growing, NEW w \in Workers, NEW e \in Direct, LetIn(w, e)
  PROVE  CallsInv'
<1>0. /\ UNCHANGED <<answer, texts, late>>
      /\ pc[w] = "idle" /\ pc' = [pc EXCEPT ![w] = "start"]
      /\ job' = [job EXCEPT ![w] = e]
      /\ status[e] = "new" /\ status' = [status EXCEPT ![e] = "taken"]
      /\ answer[e] = NoAnswer
  BY DEF LetIn, Knock, Call, Assign, provider
<1>1. SUFFICES ASSUME NEW d \in Direct PROVE CallInv(d)'
  BY <1>0 DEF CallsInv
<1>2. CallInv(d) /\ d \in Requests
  BY DEF CallsInv, Requests
<1>3. CASE d = e
  <2>1. Untouched(d) /\ \A v \in Workers : job[v] # d
    BY <1>0, <1>2, <1>3 DEF CallInv
  <2>2. status'[d] = "taken" /\ Untouched(d)'
    BY <1>0, <1>2, <1>3, <2>1 DEF Untouched, TypeInv, TypeOK
  <2>3. ASSUME NEW v \in Workers, job'[v] = d PROVE v = w /\ pc'[v] = "start"
    BY <1>0, <2>1, <2>3 DEF TypeInv, TypeOK
  <2>4. answer'[d] \notin Refusals
    BY <1>0, <1>3, UrlAssumption DEF Answers
  <2> QED
    BY <2>2, <2>3, <2>4 DEF CallInv, Under
<1>4. CASE d # e
  BY <1>0, <1>2, <1>4, Unconcerned DEF TypeInv, TypeOK
<1> QED
  BY <1>3, <1>4

\* A request that is answered at the door: nothing has been asked for.
LEMMA DoorStep ==
  ASSUME TypeInv, CallsInv, Growing, UNCHANGED vars, NEW w \in Workers, NEW e \in Direct,
         TurnAway(w, e) \/ Report(w, e) \/ KeyUnreadable(w, e)
  PROVE  CallsInv'
<1>0. status[e] = "new"
  BY DEF TurnAway, Report, KeyUnreadable, Knock
<1>1. PICK a \in Answers : Hear(e, a)
  <2>1. \E a \in {"401", "405", "200 report", "502 rejected", "502 in doubt", "503", "error"} : Hear(e, a)
    BY DEF TurnAway, Report, KeyUnreadable
  <2> QED
    BY <2>1 DEF Answers, Refusals
<1>2. /\ answer' \in [Direct -> Answers \cup {NoAnswer}]
      /\ \A d \in Direct : d # e => answer'[d] = answer[d]
  BY <1>1 DEF Hear, CallsInv
<1>3. SUFFICES ASSUME NEW d \in Direct PROVE CallInv(d)'
  BY <1>2 DEF CallsInv
<1>4. CallInv(d)
  BY DEF CallsInv
<1>5. CASE d = e
  BY <1>0, <1>4, <1>5 DEF CallInv, Untouched, vars, provider, worker
<1>6. CASE d # e
  BY <1>2, <1>4, <1>6, Unconcerned DEF vars, provider, worker
<1> QED
  BY <1>5, <1>6

\* What happens around the URL: the queue's messages are not its requests,
\* and a push in doubt belongs to one that was told of no refusal or success.
LEMMA AroundStep ==
  ASSUME TypeInv, CallsInv, Growing, Surroundings, UNCHANGED answer
  PROVE  CallsInv'
<1>1. SUFFICES ASSUME NEW d \in Direct PROVE CallInv(d)'
  BY DEF CallsInv
<1>2. CallInv(d) /\ d \in Requests /\ d \notin Messages
  BY RequestsAssumption DEF CallsInv, Requests
<1>3. CASE \E m \in Messages : Enqueue(m) \/ DeadLetter(m)
  BY <1>2, <1>3, Unconcerned DEF Enqueue, DeadLetter, provider, worker, TypeInv, TypeOK
<1>4. CASE \E w \in Workers, m \in Messages : Receive(w, m) \/ DeliverAgain(w, m)
  <2>1. PICK w \in Workers, m \in Messages : Receive(w, m) \/ DeliverAgain(w, m)
    BY <1>4
  <2>2. UNCHANGED <<status, texts, late>> /\ Assign(w, m)
    BY <2>1 DEF Receive, DeliverAgain, Deliver, provider
  <2>3. \A v \in Workers : job'[v] = d => job[v] = d /\ pc'[v] = pc[v]
    BY <1>2, <2>2 DEF Assign, TypeInv, TypeOK
  <2> QED
    BY <1>2, <2>2, <2>3, Unconcerned
<1>5. CASE \E r \in Requests : LateAccepted(r) \/ LateDropped(r)
  <2>1. PICK r \in Requests : LateAccepted(r) \/ LateDropped(r)
    BY <1>5
  <2>2. UNCHANGED <<status, pc, job>> /\ late[r] > 0
    BY <2>1 DEF LateAccepted, LateDropped, worker
  <2>3. CASE r = d
    <3>1. late[d] # 0
      BY <2>2, <2>3
    <3>2. \A w \in Workers : job[w] # d
      <4>1. ASSUME NEW w \in Workers, job[w] = d PROVE FALSE
        <5>1. Under(w, d)
          BY <1>2, <4>1 DEF CallInv
        <5>2. pc[w] \in Stages /\ pc[w] # "idle"
          BY <1>2, <4>1, RequestsAssumption DEF TypeInv, TypeOK, JobOK, Busy
        <5>3. pc[w] = "finish"
          BY <3>1, <5>1, <5>2 DEF Under, Untouched, Stages
        <5>4. Told(d)
          BY <5>1, <5>3 DEF Under
        <5> QED BY <3>1, <5>4 DEF Told, Untouched
      <4> QED BY <4>1
    <3>3. status[d] \notin {"new", "done"} /\ answer[d] \notin Refusals
      BY <1>2, <3>1 DEF CallInv, Told, Untouched
    <3> QED
      BY <1>2, <2>2, <3>2, <3>3 DEF CallInv
  <2>4. CASE r # d
    <3>1. texts'[d] = texts[d] /\ late'[d] = late[d]
      BY <1>2, <2>1, <2>4 DEF LateAccepted, LateDropped, TypeInv, TypeOK
    <3> QED
      BY <1>2, <2>2, <3>1, Unconcerned
  <2> QED
    BY <2>3, <2>4
<1>6. CASE FillSecret \/ Tick
  BY <1>2, <1>6, Unconcerned DEF FillSecret, Tick, provider, worker
<1> QED
  BY <1>3, <1>4, <1>5, <1>6 DEF Surroundings

\* CallsInv is preserved by every step, and holds at first.
LEMMA CallsInductive ==
  TypeInv /\ TextedInv /\ CallsInv /\ [UrlNext]_urlVars => CallsInv'
<1> SUFFICES ASSUME TypeInv, TextedInv, CallsInv, [UrlNext]_urlVars PROVE CallsInv'
  OBVIOUS
<1>1. Growing
  BY SenderFacts
<1>2. ASSUME NEW w \in Workers, NEW d \in Direct,
             LetIn(w, d) \/ TurnAway(w, d) \/ Report(w, d) \/ KeyUnreadable(w, d)
      PROVE  CallsInv'
  BY <1>1, <1>2, LetInStep, DoorStep DEF TurnAway, Report, KeyUnreadable
<1>3. ASSUME NEW w \in Workers, Verdict(w) \/ Unsent(w) \/ Unknown(w) \/ Die(w)
      PROVE  CallsInv'
  BY <1>1, <1>3, VerdictStep, UnsentStep, UnknownStep
<1>4. CASE UNCHANGED <<vars, answer>>
  BY <1>1, <1>4, Unconcerned DEF vars, provider, worker, CallsInv
<1>5. CASE \E w \in Workers : Recycle(w)
  BY <1>4, <1>5 DEF Recycle
<1>6. CASE Rotate \/ UNCHANGED urlVars
  BY <1>4, <1>6 DEF Rotate, urlVars
<1>7. CASE Surroundings /\ UNCHANGED answer
  BY <1>1, <1>7, AroundStep
<1> QED
  BY <1>2, <1>3, <1>5, <1>6, <1>7 DEF UrlNext

\* What is known of the calls holds at first ...
LEMMA CallsInit == UrlInit => CallsInv
<1> SUFFICES ASSUME UrlInit PROVE CallsInv
  OBVIOUS
<1>1. ASSUME NEW d \in Direct
      PROVE  /\ status[d] = "new" /\ Untouched(d) /\ answer[d] = NoAnswer
             /\ \A w \in Workers : job[w] # d
  BY <1>1, RequestsAssumption DEF UrlInit, Init, Untouched, Requests
<1> QED
  BY <1>1, UrlAssumption DEF UrlInit, CallsInv, CallInv, Answers

\* ... and always.
LEMMA CallsCorrect == UrlSpec => [](TypeInv /\ TextedInv /\ CallsInv)
<1>1. UrlInit => TypeInv /\ TextedInv /\ CallsInv
  BY SenderFacts, CallsInit
<1>2. TypeInv /\ TextedInv /\ CallsInv /\ [UrlNext]_urlVars => (TypeInv /\ TextedInv /\ CallsInv)'
  BY SenderFacts, CallsInductive
<1> QED
  BY <1>1, <1>2, PTL DEF UrlSpec

\* Whoever was refused, with 400, 401, 405, 503 or TrueDialog's own rejection,
\* has texted nobody and will not: _handle_http reports nothing of the kind
\* once a push may have left.
THEOREM RefusedCallersTextNobody == UrlSpec => []RefusalsTextNobody
<1>1. CallsInv => RefusalsTextNobody
  BY DEF CallsInv, CallInv, RefusalsTextNobody, Untouched
<1> QED
  BY <1>1, CallsCorrect, PTL

\* Whoever was told of a success has texted exactly once, or asked for a
\* reminder that another request had texted (_send).
THEOREM ServedCallersTextedOnce == UrlSpec => []SuccessMeansTexted
<1>1. CallsInv => SuccessMeansTexted
  BY DEF CallsInv, CallInv, SuccessMeansTexted, Told, Untouched
<1> QED
  BY <1>1, CallsCorrect, PTL

-----------------------------------------------------------------------------
(* Keys.                                                                   *)

\* A container remembers, if anything, a key that was current in its lifetime.
KeyInv ==
  /\ key \in Keys \cup {NoKey}
  /\ born \in [Workers -> Keys \cup {NoKey}]
  /\ cached \in [Workers -> Keys \cup {NoKey, Unread}]
  /\ calls \in 0..MaxCalls
  /\ \A w \in Workers :
       IF key = NoKey THEN born[w] = NoKey /\ cached[w] \in {NoKey, Unread}
       ELSE born[w] \in 0..key /\ (cached[w] = Unread \/ cached[w] \in born[w]..key)

\* What _sender_api_key returns is such a key.
LEMMA ExpectedType ==
  ASSUME KeyInv, NEW w \in Workers
  PROVE  IF key = NoKey THEN Expected(w) = NoKey
         ELSE Expected(w) \in born[w]..key /\ (Expected(w) # key => born[w] < key)
  BY UrlAssumption DEF KeyInv, Expected, Keys

\* Every step keeps what is known of the keys,
LEMMA KeyInductive == KeyInv /\ [UrlNext]_urlVars => KeyInv'
<1> SUFFICES ASSUME KeyInv, [UrlNext]_urlVars PROVE KeyInv'
  OBVIOUS
<1>1. CASE UNCHANGED <<key, born, cached, calls>>
  BY <1>1 DEF KeyInv
<1>2. ASSUME NEW w \in Workers, Remember(w), UNCHANGED <<key, born>>, calls' \in 0..MaxCalls
      PROVE  KeyInv'
  BY <1>2, ExpectedType, UrlAssumption DEF KeyInv, Remember, Keys
<1>3. ASSUME NEW w \in Workers, Restart(w) PROVE KeyInv'
  BY <1>3, UrlAssumption DEF KeyInv, Restart, Keys
<1>4. CASE Rotate
  BY <1>4, UrlAssumption DEF KeyInv, Rotate, Keys
<1>5. ASSUME NEW w \in Workers, NEW d \in Direct,
             LetIn(w, d) \/ TurnAway(w, d) \/ Report(w, d) \/ KeyUnreadable(w, d)
      PROVE  KeyInv'
  <2>1. calls' \in 0..MaxCalls /\ UNCHANGED <<key, born>>
    <3>1. calls < MaxCalls /\ calls' = calls + 1 /\ UNCHANGED <<key, born>>
      BY <1>5 DEF LetIn, TurnAway, Report, KeyUnreadable, Knock
    <3> QED
      BY <3>1, UrlAssumption DEF KeyInv
  <2>2. CASE Remember(w)
    BY <1>2, <2>1, <2>2
  <2>3. CASE UNCHANGED cached
    BY <2>1, <2>3 DEF KeyInv
  <2> QED
    BY <1>5, <2>2, <2>3 DEF LetIn, TurnAway, Report, KeyUnreadable
<1>6. ASSUME NEW w \in Workers, Die(w) \/ Recycle(w) PROVE KeyInv'
  BY <1>3, <1>6 DEF Die, Recycle
<1>7. CASE UNCHANGED door
  BY <1>1, <1>7 DEF door
<1> QED
  BY <1>4, <1>5, <1>6, <1>7 DEF UrlNext, urlVars

\* so it always holds.
LEMMA KeyCorrect == UrlSpec => []KeyInv
<1>1. UrlInit => KeyInv
  BY UrlAssumption DEF UrlInit, KeyInv, Keys
<1> QED
  BY <1>1, KeyInductive, PTL DEF UrlSpec

\* The variables of the URL have their types.
THEOREM UrlTypeCorrect == UrlSpec => []UrlTypeOK
<1>1. TypeInv /\ CallsInv /\ KeyInv => UrlTypeOK
  BY DEF TypeInv, CallsInv, KeyInv, UrlTypeOK
<1> QED
  BY <1>1, CallsCorrect, KeyCorrect, PTL

\* A request gets a worker only through the door.
LEMMA OnlyLetIn ==
  ASSUME TypeInv, UrlNext, NEW w \in Workers, NEW d \in Direct, job[w] # d, job'[w] = d
  PROVE  LetIn(w, d)
<1> USE RequestsAssumption DEF Requests
<1>1. ASSUME NEW v \in Workers, Free(v) PROVE FALSE
  BY <1>1 DEF Free, TypeInv, TypeOK
<1>2. CASE UNCHANGED job
  BY <1>2
<1>3. ASSUME NEW v \in Workers, NEW m \in Messages, Receive(v, m) \/ DeliverAgain(v, m)
      PROVE  FALSE
  BY <1>3 DEF Receive, DeliverAgain, Deliver, Assign, TypeInv, TypeOK
<1>4. ASSUME NEW v \in Workers, NEW e \in Direct, LetIn(v, e) PROVE LetIn(w, d)
  <2>1. job' = [job EXCEPT ![v] = e]
    BY <1>4 DEF LetIn, Call, Assign
  <2>2. v = w /\ e = d
    BY <2>1 DEF TypeInv, TypeOK
  <2> QED
    BY <1>4, <2>2
<1>5. ASSUME NEW v \in Workers, NEW e \in Direct,
             TurnAway(v, e) \/ Report(v, e) \/ KeyUnreadable(v, e)
      PROVE  UNCHANGED job
  BY <1>5 DEF TurnAway, Report, KeyUnreadable, vars, worker
<1>6. ASSUME NEW v \in Workers, Verdict(v) PROVE UNCHANGED job \/ Free(v)
  BY <1>6 DEF Verdict, CheckLog, Record, BuildClient, Post, Accepted, Finish
<1>7. ASSUME NEW v \in Workers, Unsent(v) \/ Unknown(v) \/ Die(v) PROVE Free(v)
  BY <1>7 DEF Unsent, Unknown, Die, RefuseRequest, RefuseNumber, Rejected, LostAnswer,
     CheckLogFails, RecordFails, DeleteLost, Crash, CrashMidSend, Fail
<1>8. ASSUME NEW v \in Workers, Recycle(v) PROVE UNCHANGED job
  BY <1>8 DEF Recycle, vars, worker
<1>9. CASE Rotate
  BY <1>2, <1>9 DEF Rotate, vars, worker
<1>10. CASE Surroundings
  BY <1>2, <1>3, <1>10 DEF Surroundings, Enqueue, DeadLetter, LateAccepted, LateDropped,
     FillSecret, Tick, worker
<1> QED
  BY <1>1, <1>2, <1>3, <1>4, <1>5, <1>6, <1>7, <1>8, <1>9, <1>10 DEF UrlNext

\* A container that lets a request in has lived while its key was current, and
\* a current key is turned away only by one that outlived a rotation.
LEMMA KeyStep ==
  ASSUME TypeInv, CallsInv, KeyInv, UrlNext, NEW w \in Workers, NEW d \in Direct
  PROVE  /\ job[w] # d /\ job'[w] = d => KeyShown[d] \in Known /\ KeyShown[d] >= born[w]
         /\ TurnAway(w, d) /\ answer'[d] = "401" /\ KeyShown[d] = key /\ key # NoKey =>
              born[w] < key
<1>1. ASSUME job[w] # d, job'[w] = d
      PROVE  KeyShown[d] \in Known /\ KeyShown[d] >= born[w]
  <2>1. KeyShown[d] # NoKey /\ KeyShown[d] = Expected(w)
    BY <1>1, OnlyLetIn DEF LetIn, KeyAccepted
  <2> QED
    BY <2>1, ExpectedType, UrlAssumption DEF Known, KeyInv, Keys
<1>2. ASSUME TurnAway(w, d), answer'[d] = "401", KeyShown[d] = key, key # NoKey
      PROVE  born[w] < key
  <2>1. answer'[d] = IF KeyAccepted(w, d) THEN "405" ELSE "401"
    BY <1>2 DEF TurnAway, Hear, CallsInv
  <2>2. Expected(w) # key
    BY <1>2, <2>1 DEF KeyAccepted
  <2> QED
    BY <1>2, <2>2, ExpectedType
<1> QED
  BY <1>1, <1>2

\* A rotated key is good for no longer than the containers that read it, nobody
\* is let in without one, and a current one fails only in an older container (_sender_api_key, _key_accepted).
THEOREM KeysEndWithTheirContainers == UrlSpec => KeysDieWithContainers
<1>1. TypeInv /\ CallsInv /\ KeyInv /\ [UrlNext]_urlVars =>
      [\A w \in Workers, d \in Direct :
         /\ job[w] # d /\ job'[w] = d => KeyShown[d] \in Known /\ KeyShown[d] >= born[w]
         /\ TurnAway(w, d) /\ answer'[d] = "401" /\ KeyShown[d] = key /\ key # NoKey =>
              born[w] < key]_urlVars
  BY KeyStep
<1> QED
  BY <1>1, CallsCorrect, KeyCorrect, PTL DEF UrlSpec, KeysDieWithContainers

-----------------------------------------------------------------------------
(* What the queue may rely on.                                             *)

\* With any traffic at the URL, any rotation of the key and any container in
\* front, the sender still keeps its promise, misses nothing silently, logs only
\* what was sent, leaves what is settled alone, and texts one reminder twice only
\* for a doubt, a redrive or a race (_send, _work_off).
THEOREM TheUrlChangesNoPromise ==
  /\ UrlSpec => KeepsPromise
  /\ UrlSpec => [](NoSilentMiss /\ LogIsHonest /\ OneInvocationPerMessage /\ ExtraTextsAreEarned)
  /\ UrlSpec => SettledForGood
<1>1. UrlSpec => KeepsPromise
  BY UrlIsTheSender, SenderKeepsPromise
<1>2. UrlSpec => [](NoSilentMiss /\ LogIsHonest /\ OneInvocationPerMessage /\ ExtraTextsAreEarned)
  BY UrlIsTheSender, NoReminderIsMissedSilently, LogStaysHonest, OneInvocationAtATime,
     ExtraTextsArePaidFor, PTL
<1>3. UrlSpec => SettledForGood
  BY UrlIsTheSender, SettledStaysSettled
<1> QED
  BY <1>1, <1>2, <1>3
=============================================================================
