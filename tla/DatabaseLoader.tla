--------------------------- MODULE DatabaseLoader ---------------------------
(***************************************************************************)
(* The seed Lambda: lambda/database_loader.py with the scripts and the     *)
(* test phone of lambda/court_db/seed.py.                                  *)
(*                                                                         *)
(* A load is one event: a CloudFormation request of the CourtDatabaseSeed  *)
(* custom resource, the weekly reseed, or an invocation by hand that may   *)
(* carry a phone number.  Loads may overlap.  The database, CloudFormation *)
(* and Lambda's retries are external: a transaction holds its locks until  *)
(* it commits, and an asynchronous invocation that ends in an error is     *)
(* repeated.                                                               *)
(***************************************************************************)
EXTENDS Integers, Sequences, FiniteSets

CONSTANTS
  Loads,        \* the events
  Kind,         \* what each event is
  NoPhone,      \* the event names no number
  PhoneOf,      \* the number in each event, as typed, or NoPhone
  Typed,        \* the numbers people type
  Dialable,     \* numbers in E.164 form
  Unusable,     \* what normalize_us_phone raises ValueError for
  DialOf,       \* normalize_us_phone
  Reserved,     \* the fixtures' own 555-01XX numbers
  Nobody,       \* no load
  Invocations,  \* how often Lambda invokes the loader for an event at most
  Faults,       \* the kinds of failure that may happen
  MaxFaults     \* bound: failures in one behaviour

Requests == {"Create", "Update", "Delete"}   \* of CloudFormation

\* LADDER_CASES, by lead time, in the order use_test_phone rewrites them.
Ladder == <<7, 3, 1>>
Leads == {7, 3, 1}

ASSUME LoaderAssumption ==
  /\ Kind \in [Loads -> Requests \cup {"scheduled", "by hand"}]
  /\ PhoneOf \in [Loads -> Typed \cup {NoPhone}]
  /\ \A l \in Loads : PhoneOf[l] # NoPhone => Kind[l] # "scheduled"
  /\ DialOf \in [Typed -> Dialable \cup {Unusable}]
  /\ NoPhone \notin Typed \cup Dialable \cup {Unusable}
  /\ Reserved \notin Dialable /\ Unusable \notin Dialable
  /\ Nobody \notin Loads
  /\ Invocations \in [Loads -> Nat \ {0}]
  /\ Faults \subseteq {"load", "phone", "count", "put", "crash"}
  /\ MaxFaults \in Nat

VARIABLES
  stage,     \* of each load: what it does next
  attempt,   \* invocations of the loader so far
  ladder,    \* the number committed for the ladder case at each lead time
  writer,    \* the load that is rewriting the ladder, or Nobody
  rewritten, \* how many ladder cases its open transaction has rewritten
  seeded,    \* loads whose tables were committed in their current attempt
  answers,   \* what CloudFormation was sent for each request, in order
  faults,    \* failures so far
  silent     \* those that may keep an answer from CloudFormation

update == <<writer, rewritten>>
bounds == <<faults, silent>>
vars == <<stage, attempt, ladder, update, seeded, answers, bounds>>

Stages == {"waiting", "load", "phone", "count", "answer", "report",
           "done", "raised", "gave up"}

TypeOK ==
  /\ stage \in [Loads -> Stages]
  /\ \A l \in Loads : attempt[l] \in 0..Invocations[l]
  /\ ladder \in [Leads -> Dialable \cup {Reserved}]
  /\ writer \in Loads \cup {Nobody}
  /\ rewritten \in 0..Len(Ladder)
  /\ seeded \subseteq Loads
  /\ answers \in [Loads -> Seq({"SUCCESS", "FAILED"})]
  /\ faults \in 0..MaxFaults
  /\ silent \in 0..MaxFaults

-----------------------------------------------------------------------------
(* Helpers.                                                                *)

FromCloudFormation(l) == Kind[l] \in Requests

\* A plausible bug in Number: a phone is taken from whatever event has one.
NumberOfAny(l) == IF PhoneOf[l] = NoPhone THEN NoPhone ELSE DialOf[PhoneOf[l]]

\* _seed(event.get("phone")), but _seed_data takes nothing from the event.
Number(l) ==
  IF FromCloudFormation(l) \/ PhoneOf[l] = NoPhone THEN NoPhone ELSE DialOf[PhoneOf[l]]

Fault(f) ==
  /\ f \in Faults
  /\ faults < MaxFaults
  /\ faults' = faults + 1
  /\ silent' = IF f \in {"put", "crash"} THEN silent + 1 ELSE silent
Go(l, next) == stage' = [stage EXCEPT ![l] = next]

\* A plausible bug in Raised: one retry too many.
RaisedLate(l) == IF attempt[l] <= Invocations[l] THEN "raised" ELSE "gave up"

\* The handler raises: Lambda invokes it again, up to a limit.
Raised(l) == IF attempt[l] < Invocations[l] THEN "raised" ELSE "gave up"

\* Plausible bugs in AfterError: the answer is left to the retry, or sent as
\* if nothing had happened.
AfterErrorUnheard(l) == Raised(l)
AfterErrorIgnored(l) == IF FromCloudFormation(l) THEN "answer" ELSE Raised(l)

\* Where an exception out of the seed leads: CloudFormation hears FAILED
\* before the handler raises it again.
AfterError(l) == IF FromCloudFormation(l) THEN "report" ELSE Raised(l)

\* An open transaction of a load that fails is rolled back.
RollBack(l) ==
  IF writer = l THEN writer' = Nobody /\ rewritten' = 0 ELSE UNCHANGED update

Pointed(number, cases) == [lead \in Leads |->
  IF \E i \in 1..cases : Ladder[i] = lead THEN number ELSE ladder[lead]]

-----------------------------------------------------------------------------
(* The handler.                                                            *)

\* A Delete is answered without touching the database; anything else seeds.
Invoke(l) ==
  /\ stage[l] \in {"waiting", "raised"}
  /\ Number(l) # Unusable
  /\ attempt' = [attempt EXCEPT ![l] = @ + 1]
  /\ Go(l, IF Kind[l] = "Delete" THEN "answer" ELSE "load")
  /\ seeded' = seeded \ {l}
  /\ UNCHANGED <<ladder, update, answers, bounds>>

\* normalize_us_phone raises before anything is loaded.
RefusePhone(l) ==
  /\ stage[l] \in {"waiting", "raised"}
  /\ Number(l) = Unusable
  /\ attempt' = [attempt EXCEPT ![l] = @ + 1]
  /\ Go(l, IF attempt[l] + 1 < Invocations[l] THEN "raised" ELSE "gave up")
  /\ UNCHANGED <<ladder, update, seeded, answers, bounds>>

Loaded(l) ==
  /\ writer = Nobody
  /\ seeded' = seeded \cup {l}
  /\ ladder' = [lead \in Leads |-> Reserved]

\* load_fixtures: every table is dropped, recreated and filled in one
\* transaction, which waits for the locks of one that is rewriting rows.
Load(l) ==
  /\ stage[l] = "load"
  /\ Loaded(l)
  /\ Go(l, IF Number(l) = NoPhone THEN "count" ELSE "phone")
  /\ UNCHANGED <<attempt, update, answers, bounds>>

\* Nothing is committed, or the commit is applied and its answer lost.
LoadFails(l) ==
  /\ stage[l] = "load"
  /\ Fault("load")
  /\ Loaded(l) \/ UNCHANGED <<seeded, ladder>>
  /\ Go(l, AfterError(l))
  /\ UNCHANGED <<attempt, update, answers>>

\* A plausible bug in Rewrite: every UPDATE commits on its own.
RewriteAndCommit(l) ==
  /\ stage[l] = "phone"
  /\ writer \in {Nobody, l} /\ rewritten < Len(Ladder)
  /\ writer' = l
  /\ rewritten' = rewritten + 1
  /\ ladder' = Pointed(Number(l), rewritten + 1)
  /\ UNCHANGED <<stage, attempt, seeded, answers, bounds>>

\* use_test_phone: a transaction of its own, one UPDATE for each ladder case.
Rewrite(l) ==
  /\ stage[l] = "phone"
  /\ writer \in {Nobody, l} /\ rewritten < Len(Ladder)
  /\ writer' = l
  /\ rewritten' = rewritten + 1
  /\ UNCHANGED <<stage, attempt, ladder, seeded, answers, bounds>>

CommitPhone(l) ==
  /\ writer = l /\ rewritten = Len(Ladder)
  /\ ladder' = Pointed(Number(l), rewritten)
  /\ writer' = Nobody
  /\ rewritten' = 0
  /\ Go(l, "count")
  /\ UNCHANGED <<attempt, seeded, answers, bounds>>

PhoneFails(l) ==
  /\ stage[l] = "phone"
  /\ Fault("phone")
  /\ \/ UNCHANGED ladder
     \/ writer = l /\ rewritten = Len(Ladder) /\ ladder' = Pointed(Number(l), rewritten)
  /\ RollBack(l)
  /\ Go(l, AfterError(l))
  /\ UNCHANGED <<attempt, seeded, answers>>

\* upcoming_hearings at each lead time: three reads, which change nothing and
\* are one step.
Count(l) ==
  /\ stage[l] = "count"
  /\ Go(l, "answer")
  /\ UNCHANGED <<attempt, ladder, update, seeded, answers, bounds>>

CountFails(l) ==
  /\ stage[l] = "count"
  /\ Fault("count")
  /\ Go(l, AfterError(l))
  /\ UNCHANGED <<attempt, ladder, update, seeded, answers>>

\* The summary is returned to whoever invoked the loader.
Return(l) ==
  /\ stage[l] = "answer"
  /\ ~FromCloudFormation(l)
  /\ Go(l, "done")
  /\ UNCHANGED <<attempt, ladder, update, seeded, answers, bounds>>

\* The body of the answer: whether the seed came to its end.
Said(l) ==
  [answers EXCEPT ![l] = Append(@, IF stage[l] = "answer" THEN "SUCCESS" ELSE "FAILED")]

\* _respond: a PUT to the pre-signed URL.  After FAILED the handler raises.
Respond(l) ==
  /\ FromCloudFormation(l)
  /\ stage[l] \in {"answer", "report"}
  /\ answers' = Said(l)
  /\ Go(l, IF stage[l] = "answer" THEN "done" ELSE Raised(l))
  /\ UNCHANGED <<attempt, ladder, update, seeded, bounds>>

\* A plausible bug in PutFails: the handler swallows the error.
PutFailsQuietly(l) ==
  /\ FromCloudFormation(l)
  /\ stage[l] \in {"answer", "report"}
  /\ Fault("put")
  /\ Go(l, "done")
  /\ UNCHANGED <<attempt, ladder, update, seeded, answers>>

\* The PUT fails, which raises out of the handler whatever it was to say; the
\* answer may have been stored all the same.
PutFails(l) ==
  /\ FromCloudFormation(l)
  /\ stage[l] \in {"answer", "report"}
  /\ Fault("put")
  /\ answers' \in {answers, Said(l)}
  /\ Go(l, Raised(l))
  /\ UNCHANGED <<attempt, ladder, update, seeded>>

\* The Lambda dies, or runs into its timeout while it waits for a database
\* that does not answer.
Crash(l) ==
  /\ stage[l] \in {"load", "phone", "count", "answer", "report"}
  /\ Fault("crash")
  /\ RollBack(l)
  /\ Go(l, Raised(l))
  /\ UNCHANGED <<attempt, ladder, seeded, answers>>

-----------------------------------------------------------------------------
Init ==
  /\ stage = [l \in Loads |-> "waiting"]
  /\ attempt = [l \in Loads |-> 0]
  /\ ladder = [lead \in Leads |-> Reserved]
  /\ writer = Nobody
  /\ rewritten = 0
  /\ seeded = {}
  /\ answers = [l \in Loads |-> <<>>]
  /\ faults = 0
  /\ silent = 0

Handle(l) ==
  \/ Load(l) \/ Rewrite(l) \/ CommitPhone(l) \/ Count(l) \/ Return(l) \/ Respond(l)

Start(l) == Invoke(l) \/ RefusePhone(l)
Failure(l) == LoadFails(l) \/ PhoneFails(l) \/ CountFails(l) \/ PutFails(l) \/ Crash(l)

Next == \E l \in Loads : Start(l) \/ Handle(l) \/ Failure(l)

Spec == Init /\ [][Next]_vars

\* Lambda runs what it has started and retries what ended in an error; a
\* load waiting for another's lock gets it in the end.
FairSpec == Spec /\ \A l \in Loads : WF_vars(Start(l)) /\ WF_vars(Handle(l))

-----------------------------------------------------------------------------
(* Properties.                                                             *)

\* One person "has a hearing seven, three and one day out" (use_test_phone),
\* or nobody does: no failure leaves a real number on part of the ladder.
LadderIsWhole == \A x, y \in Leads : ladder[x] = ladder[y]

\* A real number reaches the fixtures only because somebody invoked the
\* loader by hand with it: neither the weekly reseed nor CloudFormation can
\* put one there, nor does a refused number get there (database_loader.py:
\* "the scheduled reseed sends {} and so can never do this").
NumbersComeByHand ==
  \A lead \in Leads : ladder[lead] # Reserved =>
    \E l \in Loads : Kind[l] = "by hand" /\ Number(l) = ladder[lead] /\ attempt[l] > 0

\* CloudFormation is told SUCCESS for a Create or an Update only by an
\* invocation that committed the tables itself, never on the strength of an
\* earlier one's, and no Delete touches the database (_respond: "a Delete of
\* the seed resource ... is answered without touching the database").
AnswersAreHonest ==
  [][\A l \in Loads :
       IF Kind[l] = "Delete" THEN l \notin seeded'
       ELSE answers'[l] = Append(answers[l], "SUCCESS") => l \in seeded]_vars

\* Every invocation for a CloudFormation request that ends, however it ends,
\* has answered once, unless the Lambda died or its PUT failed.
CloudFormationHearsBack ==
  silent = 0 => \A l \in Loads :
    FromCloudFormation(l) /\ stage[l] \in {"done", "raised", "gave up"} =>
      Len(answers[l]) = attempt[l]

\* Lambda's retries see to it that every request it was invoked for is
\* answered in the end, unless as many things fail as it has attempts.
EventuallyAnswered ==
  \A l \in Loads : FromCloudFormation(l) =>
    (stage[l] # "waiting" ~> answers[l] # <<>> \/ faults >= Invocations[l])
=============================================================================
