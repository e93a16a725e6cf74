----------------------------- MODULE SenderUrl ------------------------------
(***************************************************************************)
(* The sender's function URL: _handle_http of lambda/message_sender.py, in *)
(* front of the same _send that works off the queue.                       *)
(*                                                                         *)
(* Every direct request of MessageSender is an HTTP request here.  It      *)
(* shows a key, which a container compares with the one it has cached, and *)
(* hears a status.  The key may be rotated and containers come and go, as  *)
(* Secrets Manager and Lambda allow at any time.                           *)
(***************************************************************************)
EXTENDS MessageSender

CONSTANTS
  Method,       \* the HTTP method of each direct request
  KeyShown,     \* the version of the key it shows, or NoKey
  NoKey,        \* no key is shown, or none is configured
  Unread,       \* a container that has not looked the key up yet
  NoAnswer,     \* nobody has heard of a request yet
  MaxCalls,     \* bound: requests that reach the URL
  MaxRotations  \* bound: new values of the SenderApiKey secret

\* What a caller may hear: a status of the handler's, an error, or nothing.
Refusals == {"400", "401", "405", "502 rejected", "503"}
Answers == {"200 sent", "200 duplicate", "200 report", "502 in doubt",
            "error", "lost"} \cup Refusals

ASSUME UrlAssumption ==
  /\ Method \in [Direct -> {"GET", "POST", "PUT"}]
  /\ KeyShown \in [Direct -> (0..MaxRotations) \cup {NoKey}]
  /\ NoKey \notin Nat /\ Unread \notin Nat \cup {NoKey} /\ NoAnswer \notin Answers
  /\ MaxCalls \in Nat /\ MaxRotations \in Nat

VARIABLES
  key,        \* the current version of the SenderApiKey secret, or NoKey
  born,       \* of each container: the version when it started
  cached,     \* what _sender_api_key remembers in it
  answer,     \* what the handler made of each request
  calls       \* requests so far

door    == <<key, born, cached, calls>>
urlVars == <<vars, door, answer>>

Keys == 0..MaxRotations
Known == IF key = NoKey THEN {} ELSE 0..key

UrlTypeOK ==
  /\ TypeOK
  /\ key \in Keys \cup {NoKey}
  /\ born \in [Workers -> Keys \cup {NoKey}]
  /\ cached \in [Workers -> Keys \cup {NoKey, Unread}]
  /\ answer \in [Direct -> Answers \cup {NoAnswer}]
  /\ calls \in 0..MaxCalls

-----------------------------------------------------------------------------
(* The door.                                                               *)

\* _sender_api_key, which lru_cache lets look the secret up once.
Expected(w) == IF cached[w] = Unread THEN key ELSE cached[w]

\* A plausible bug in KeyAccepted: without a configured key anybody gets in.
KeyAcceptedOpen(w, d) == Expected(w) \in {NoKey, KeyShown[d]}

\* _key_accepted: nothing matches a key that is not there.
KeyAccepted(w, d) == KeyShown[d] # NoKey /\ KeyShown[d] = Expected(w)

\* Somebody sends d to an idle container; a key is known once it is current.
Knock(w, d) ==
  /\ pc[w] = "idle"
  /\ status[d] = "new" /\ answer[d] = NoAnswer
  /\ calls < MaxCalls
  /\ KeyShown[d] # NoKey => KeyShown[d] \in Known
  /\ calls' = calls + 1
  /\ UNCHANGED <<key, born>>

Remember(w) == cached' = [cached EXCEPT ![w] = Expected(w)]

Hear(d, a) == answer' = [answer EXCEPT ![d] = a]

\* The request goes on to _run, as a text to send.
LetIn(w, d) ==
  /\ Knock(w, d) /\ Remember(w)
  /\ KeyAccepted(w, d) /\ Method[d] = "POST"
  /\ Call(w, d)
  /\ UNCHANGED answer

\* 401, or 405 once the key was right: nothing has been asked for.
TurnAway(w, d) ==
  /\ Knock(w, d) /\ Remember(w)
  /\ ~KeyAccepted(w, d) \/ Method[d] = "PUT"
  /\ Hear(d, IF KeyAccepted(w, d) THEN "405" ELSE "401")
  /\ UNCHANGED vars

\* GET: _run without a message reports on the secret and pings TrueDialog.
\* Error statuses but 401, 403 and 404 are raised as a 502; a 2xx answer that
\* is no object is an exception nobody catches.  No text has been asked for.
Report(w, d) ==
  /\ Knock(w, d) /\ Remember(w)
  /\ KeyAccepted(w, d) /\ Method[d] = "GET"
  /\ IF configured
     THEN \E a \in {"200 report", "502 rejected", "502 in doubt", "error"} : Hear(d, a)
     ELSE Hear(d, "503")
  /\ UNCHANGED vars

\* Secrets Manager does not answer: nothing is cached, and nothing catches it.
KeyUnreadable(w, d) ==
  /\ Knock(w, d)
  /\ cached[w] = Unread /\ key # NoKey
  /\ Hear(d, "error")
  /\ UNCHANGED <<vars, cached>>

Rotate ==
  /\ key # NoKey /\ key < MaxRotations
  /\ key' = key + 1
  /\ UNCHANGED <<vars, born, cached, answer, calls>>

\* A plausible bug in Restart: the key outlives the container, as it would in
\* a file under /tmp.
RestartWarm(w) ==
  /\ born' = [born EXCEPT ![w] = key]
  /\ UNCHANGED <<key, cached, calls>>

\* Lambda replaces w's container by a new one, which has cached nothing.
Restart(w) ==
  /\ born' = [born EXCEPT ![w] = key]
  /\ cached' = [cached EXCEPT ![w] = Unread]
  /\ UNCHANGED <<key, calls>>

Recycle(w) ==
  /\ pc[w] = "idle" /\ cached[w] # Unread
  /\ Restart(w)
  /\ UNCHANGED <<vars, answer>>

-----------------------------------------------------------------------------
(* What the caller hears of each step of the sender.                       *)

Says(w, a) == IF job[w] \in Direct THEN Hear(job[w], a) ELSE UNCHANGED answer

\* A plausible bug in Unsent: a lost answer is taken for a rejection.
UnsentOrLost(w) ==
  \/ RefuseRequest(w)
       /\ Says(w, IF BodyOf[job[w]] = "malformed" THEN "400" ELSE "503")
  \/ RefuseNumber(w) /\ (Says(w, "400") \/ Says(w, "error"))
  \/ (Rejected(w) \/ LostAnswer(w)) /\ Says(w, "502 rejected")

\* Failures before anything was sent, or of a push that TrueDialog refused.  The
\* body is read before the secret; a `to` that is no string ends in a TypeError
\* of normalize_us_phone, which no except clause matches.
Unsent(w) ==
  \/ RefuseRequest(w)
       /\ Says(w, IF BodyOf[job[w]] = "malformed" THEN "400" ELSE "503")
  \/ RefuseNumber(w) /\ (Says(w, "400") \/ Says(w, "error"))
  \/ Rejected(w) /\ Says(w, "502 rejected")

\* No answer, or a 5xx in its place, is a 502 of the handler's, too; a 2xx answer
\* that is no object is an exception nobody catches, as are the sent log's.
Unknown(w) ==
  \/ LostAnswer(w) /\ (Says(w, "502 in doubt") \/ Says(w, "error"))
  \/ (CheckLogFails(w) \/ RecordFails(w)) /\ Says(w, "error")
  \/ DeleteLost(w) /\ Says(w, "lost")

\* What _send returns; Finish delivers it.
Verdict(w) ==
  \/ CheckLog(w) /\ (IF pc'[w] = "finish" THEN Says(w, "200 duplicate") ELSE UNCHANGED answer)
  \/ Record(w) /\ Says(w, "200 sent")
  \/ (BuildClient(w) \/ Post(w) \/ Accepted(w) \/ Finish(w)) /\ UNCHANGED answer

Die(w) == (Crash(w) \/ CrashMidSend(w)) /\ Restart(w) /\ Says(w, "error")

UrlInit ==
  /\ Init
  /\ key \in {0, NoKey}
  /\ born = [w \in Workers |-> key]
  /\ cached = [w \in Workers |-> Unread]
  /\ answer = [d \in Direct |-> NoAnswer]
  /\ calls = 0

Surroundings ==
  \/ \E m \in Messages : Enqueue(m) \/ DeadLetter(m)
  \/ \E w \in Workers, m \in Messages : Receive(w, m) \/ DeliverAgain(w, m)
  \/ \E r \in Requests : LateAccepted(r) \/ LateDropped(r)
  \/ FillSecret
  \/ Tick

UrlNext ==
  \/ \E w \in Workers, d \in Direct :
       LetIn(w, d) \/ TurnAway(w, d) \/ Report(w, d) \/ KeyUnreadable(w, d)
  \/ \E w \in Workers : (Verdict(w) \/ Unsent(w) \/ Unknown(w)) /\ UNCHANGED door
  \/ \E w \in Workers : Die(w) \/ Recycle(w)
  \/ Rotate
  \/ Surroundings /\ UNCHANGED <<door, answer>>

UrlSpec == UrlInit /\ [][UrlNext]_urlVars

-----------------------------------------------------------------------------
(* Properties.                                                             *)

\* A caller who is refused, with whatever status, may send the request again:
\* no text has gone out for it, and none will (README: 401, 400, 503, and 502
\* "when TrueDialog rejects the send").  Only a 502 without a status of
\* TrueDialog's or with one of 500 and above, an error that is none of the
\* handler's, or silence leaves it open.
RefusalsTextNobody ==
  \A d \in Direct : answer[d] \in Refusals => texts[d] = 0 /\ late[d] = 0

\* A caller told that the text was sent has texted exactly once; one told it
\* was a duplicate owes the text to another request (_send).
SuccessMeansTexted ==
  \A d \in Direct : status[d] = "done" =>
    \/ answer[d] = "200 sent" /\ texts[d] = 1 /\ late[d] = 0
    \/ /\ answer[d] = "200 duplicate" /\ texts[d] = 0 /\ late[d] = 0
       /\ \E s \in Requests \ {d} : SameReminder(d, s) /\ texts[s] > 0

\* A key opens the door only in a container that has lived while it was
\* current: a rotated key is good for no longer than the containers that read
\* it (_sender_api_key: "cached for the life of the container"), and without
\* a key nobody comes in.  The container that refuses a current key is itself
\* older than the last rotation.
KeysDieWithContainers ==
  [][\A w \in Workers, d \in Direct :
       /\ job[w] # d /\ job'[w] = d => KeyShown[d] \in Known /\ KeyShown[d] >= born[w]
       /\ TurnAway(w, d) /\ answer'[d] = "401" /\ KeyShown[d] = key /\ key # NoKey =>
            born[w] < key]_urlVars
=============================================================================
