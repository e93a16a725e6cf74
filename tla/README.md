# Court reminders in TLA+

This directory specifies the Georgia court-reminder system of this repository:
Lambda functions that read a court calendar, queue a text seven, three and one
day before each hearing, and send those texts through TrueDialog. The modules
are written from the code under `src/`; TLC checks them on small instances and
TLAPS proves the most important results for every instance.

What is at stake is stated by the code itself (`lambda/sent_log.py`): someone
texted twice is irritated, someone never texted misses a hearing. So the first
property is that **nobody is missed silently**, the second that **nobody is
texted twice without a cause one can name**.

## 1. The system

```
            EventBridge, daily              EventBridge, weekly   CloudFormation
                  |                                  |              |   ^
                  v                                  v              v   | PUT
  court DB <-- CourtBotMain --> outbox queue     CourtBotDatabaseLoader
     ^        (main, reminders)   |      |               |
     |                            |      +-> dead letters|
     +----------------------------|----------------------+  drop, reload
                                  v
   function URL ---------> CourtBotMessageSender <--> sent log (DynamoDB)
                                  |
                                  v
                              TrueDialog
```

| Component | State | Operations | Hard behaviour | What makes it correct |
|---|---|---|---|---|
| Text sender, `message_sender.py` | none but the invocation's own | handle a queue batch (size 1), send | runs concurrently with itself; dies or times out anywhere; answers get lost | no silent miss; duplicates only from races, doubt or SQS |
| Function URL, `message_sender.py` `_handle_http` | API key, cached by each container | check the key, report, send, answer a status | the key is rotated while containers remember it; a text goes out and the answer does not | the status a caller hears says what became of the text |
| Sent log, `sent_log.py` | set of ids (DynamoDB, 30 days) | `already_sent`, `record` | check and write are apart; a write may fail after it was applied | holds only ids that were texted |
| Outbox queue, `cdk_stack.py` `_outbox` | messages, receive counts, visibility | receive, delete, redrive | at-least-once; visibility timeout; redrive limit 3 | one invocation per message; every message settles |
| TrueDialog client, `truedialog/` | none | `send_message`, `ping` | rejected, unanswered, accepted late | outcome is known or counted as failed |
| Phone numbers, `truedialog/phone.py` | none | `normalize_us_phone` | free text: extensions, country codes, marks | dials what was typed, the same before the queue and after it |
| Daily run, `main.py` | results and failures of one invocation | run each threshold | one threshold fails; Lambda retries the whole run; runs overlap | every reminder queued or reported |
| Reminder logic, `reminders/` | `seen` ids of one plan | query, plan, publish in tens | duplicates, bad numbers, rejected entries | the first hearing of each number and day, no other |
| Court database, `court_db/` | fixtures relative to a date | `upcoming_hearings` | the server's clock is not the court's | the window is the day the text says |
| Database loader, `database_loader.py`, `court_db/seed.py` | tables, one phone on the ladder | load, point at a phone, answer CloudFormation | two transactions; CloudFormation waits for an answer | whole ladder; honest and eventual answers |
| First deployment, `mock_database_stack.py`, `cdk_stack.py` | resources, the seed's request, the log group | create, ask for the seed, roll back | created in any order; the loader answers late, twice or never; others run it meanwhile | a complete stack has its tables; it settles |
| Schedules, `cdk_stack.py` | EventBridge rules | weekly reseed, daily run | fixture dates age; UTC | one hearing passes all three reminders |

The components interact only through the queue, the log, the database, the
schedule and, while the stack is deployed, CloudFormation; each is shared state
in the module where its races matter. The hazards this leads to are listed, with
the source line of each, in `PROJECT.json` under `hazards`.

The deployed stack has `REMINDERS_DRY_RUN = "true"`, so at this commit the
daily run queues nothing. The models cover that case (`StackDry`, `ForcedDry`)
and the case the code is built for, in which it is off.

## 2. The modules

| Module | Models | Extends |
|---|---|---|
| `ReminderPromise` | the abstract specification: what the sender promises, without queue, workers, log or time | |
| `MessageSender` | the sender, the sent log, the queue wiring, what TrueDialog may do | instantiates `ReminderPromise` |
| `SenderUrl` | `_handle_http`: key, methods, report, and the status of each request | `MessageSender` |
| `PhoneNumbers` | `normalize_us_phone`, digit by digit, and what an entry spells | |
| `ReminderPlan` | `SenderLogic._plan`: rows of a query to messages, and what the messages should be | |
| `DailyRun` | `main.handler`, `SenderLogic.run`, `Outbox.publish`, Lambda's retries | `ReminderPlan` |
| `ReminderPipeline` | the daily run and the sender over one queue | instantiates `DailyRun` and `MessageSender` |
| `ReminderCalendar` | fixtures, query window, weekly reseed, daily run, two clocks | |
| `DatabaseLoader` | the loader's handler, its two transactions and its answers | |
| `Deployment` | the resources of the two stacks, CloudFormation, the log group | `DatabaseLoader` |
| `MCMessageSender`, `MCSenderUrl`, `MCReminderPlan`, `MCDailyRun`, `MCReminderPipeline`, `MCDeployment` | instances for TLC, and what is stated about an instance | the module each names (`MCReminderPlan` also `PhoneNumbers`) |
| `MessageSenderProofs`, `SenderUrlProofs` | theorems about the sender, its promise and its URL | `MessageSender`, `SenderUrl`, TLAPS |
| `DailyRunProofs` | theorems about the plan and the run | `DailyRun`, TLAPS |
| `PhoneProofs` | theorems about the phone rules, and about the run that lists hearings | `MCReminderPlan`, `DailyRunProofs` |
| `PipelineProofs` | theorems about the pipeline | `ReminderPipeline`, TLAPS; instantiates `DailyRunProofs` and `MessageSenderProofs` |
| `DeploymentProofs`, `CalendarProofs` | theorems about the loader and its stack, and about the calendar | `Deployment`, `ReminderCalendar`, TLAPS |
| `DataLemmas` | induction, folds and sums, for the proofs | TLAPS |

`PROJECT.json` maps every definition to the lines it stands for. How the state
corresponds:

**MessageSender.** `pc`, `job` and `age` are the invocations: one per worker
(a Lambda execution environment), since `OUTBOX_BATCH_SIZE` is 1. `pc` walks
through `_handle_sqs` and `_send`: `start` (build the client, parse the body),
`check` (`log.already_sent`), `send` (`normalize_us_phone`), `wait` (the HTTP
call), `record` (`log.record`), `finish` (the record is not among the failures,
and is deleted). Reading the log and writing it are separate actions, with
TrueDialog in between: that is where invocations race. `status`, `receives` and
`hidden` are the queue's. `texts[r]` counts what TrueDialog accepted for a
request and `late[r]` the pushes it may still accept though nobody waits for
the answer any more. A request is a queue message or a direct one; `Id` is its
`reminder_id`, or the SQS message id, or nothing. Each fault is an action of its
own: the log cannot be read, TrueDialog rejects, the answer is lost, the log
cannot be written (though the write may have been applied), the deletion is
lost, the Lambda dies with or without a text in flight.

**SenderUrl.** A direct request is an HTTP request. `key` is the version of the
secret that is current, `born[w]` the version when container `w` started and
`cached[w]` what its `lru_cache` holds. The handler's ways to refuse (401, 405,
400, 503) and its report answer at once; `LetIn` hands the request to the
sender's own actions, and whatever ends it there is joined with the status the
caller hears: `200 sent`, `200 duplicate`, `502 rejected` (TrueDialog's own
refusal, a status below 500), `502 in doubt` (no answer from it, or a 5xx), an
error that no clause of `_handle_http` catches (the log cannot be read or written,
an answer or a number of the wrong type), or nothing.

**PhoneNumbers.** An entry is a sequence of digits and marks. `Normalize` follows
the code; `DialsWhatIsSpelled` says what it must come to by what the entry's
digits spell.

**ReminderPlan.** `Plan` folds `Consider` over the rows; `Consider` is the body of
`_plan`'s loop with its three skips in their order. `PlansFirstHearings` says
without a loop what must come out: as many messages as there are first hearings,
each in its place among them.

**DailyRun.** `todo` is what is left of the loop over thresholds, `current` what
is left to publish, `failed` what the results report, `broken` the thresholds
that raised. `PublishBatch` takes one slice and lets SQS reject any of its
entries; `PublishFails` lets it take any of them and raise all the same.
`attempt` counts Lambda's invocations of one event.

**ReminderPipeline.** The variables are those of the two components; a step is one
component's, and `Queued` adds to the queue as many messages as `outbox` grew by
in that step. Message `<<k, n>>` is the n-th that carries the reminder id `k`. So
a retried run may queue a second copy while the sender works on the first.

**ReminderCalendar.** `now` counts thirds of a day (evening, morning and daytime
of the court's clock, which are where the two clocks and the two schedules
differ), `anchor` is the server's date when the fixtures were last loaded. The rows
are the fixtures' own, relative to it. A notice records the date of the court on
which it went out.

**DatabaseLoader.** A load is one event. `ladder` is what is committed for the
three ladder cases, `writer` and `rewritten` the open transaction of
`use_test_phone`, `answers` what CloudFormation was sent.

**Deployment.** `made` are the resources that exist; `DependsOn` is what each refers
to, what it imports and what `node.add_dependency` adds. Creating the seed is
asking the loader and hearing its first answer; a failure undoes the stack,
which asks the loader again. `logs` is who made the loader's log group: the
Lambda runtime makes it at the first invocation if nobody has. The loader's
steps are those of `DatabaseLoader`, where the network lets it reach the
database and S3 (`Reaches`).

## 3. What the runs check

Every run takes less than four minutes with two workers.

| Run | Checks | Instance |
|---|---|---|
| `sender_safety` | `TypeOK`, `NoSilentMiss`, `LogIsHonest`, `OneInvocationPerMessage`, `ExtraTextsAreEarned`, `OnlyRacesTextTwice`, `SettledForGood` | two messages and a direct request that share one id, two workers, three attempts, two faults of seven kinds, one repeated delivery |
| `sender_promise` | `KeepsPromise` (the sender implements `ReminderPromise`), `EveryMessageSettles`, `RemindersSurviveFaults` | a message with a reminder id and a number that cannot be dialled, a good one with only its SQS message id, two workers, one fault and one repeated delivery: fewer than the three attempts |
| `sender_url` | `RefusalsTextNobody`, `SuccessMeansTexted`, `KeysDieWithContainers` | two of eight requests (good, repeated, without key, with a later key, malformed, to a number that cannot be dialled, GET, PUT) beside a queue message for the same reminder; one rotation, one fault |
| `reminder_plan` | `PlansTheFirstOfEach`, `DialsWhatWasTyped`, `SenderTakesWhatIsQueued` | every list of up to three rows of four entries, two days, two texts or none; every entry of up to thirteen characters whose first six are each a 0, a 1, a 5 or a mark |
| `daily_run` | `TypeOK`, `EveryReminderIsQueuedOrReported`, `CopiesComeFromRuns`, `EventuallyQueued` | a daily run with three invocations, a run by hand that names a threshold twice, a dry run, a refused event; batches of two, two faults |
| `pipeline` | `TypeOK`, `NobodyIsForgotten`, `RetriesDoNotMultiply`, `EveryReminderEnds`, `RemindersReachPeople` | one person's reminder, a run of two thresholds that is retried once, two workers, one fault at either end, one repeated delivery |
| `calendar` | `TypeOK`, `WindowIsCourtLocal`, `NoThresholdEmpty`, `CadencesAreAsDocumented`, `LadderFollowsTheTable`, `OneHearingPassesThrough` | two weeks, all fixtures, two reseeds or runs by hand at any slot but no run in the evening, one scheduled event that fails for good |
| `deployment` | `DeploymentTypeOK`, `LadderIsWhole`, `NumbersComeByHand`, `AnswersAreHonest`, `CloudFormationHearsBack`, `StackIsSeeded`, `OnlyOthersTakeTheLogGroup`, `EventuallyAnswered`, `DeploymentSettles` | the whole first deployment, whose event holds a phone, its rollback, a person's load and a mistyped one, four faults |

Each of these properties also has a mutant, a plausible bug kept in the module
beside the definition it would replace, under which TLC finds it violated.

Four runs find the code in disagreement with what its documentation says:

* `sender_lost_answer`: `sent_log.py` names two gaps and presents a lost answer
  as what the log is for. It is a third gap: the id is never written, and the
  retry texts again. (`_handle_sqs` knows.)
* `pipeline_rerun`: a retried run "is safe for the thresholds that already
  succeeded; their ids are already sent" (`main.py:60`). They are queued, which is
  not sent: a second copy is queued while the first is being handled, two
  invocations read the log before either writes it, and the person is texted
  twice. `RetriesDoNotMultiply` says what does hold: one text for each invocation
  that can race, and one for each failure that left a text in doubt.
* `daily_run_rejected`: the ids of the entries SQS rejected are "returned, so the
  caller can decide what a failure means" (`outbox.py:52`), and no caller does: the
  run answers 200, the list is read by nobody, and nothing retries it. The handler's
  "rather than passing as a quiet success" (`main.py:59`) was written about
  thresholds that broke; this is a quiet success of the other kind.
* `calendar_evening`: the window is the server's day, which is UTC where it is
  deployed, not the court's; a run by hand in the Georgia evening says "tomorrow"
  about a hearing two days away. The scheduled run is not affected: its hour
  has the same date on both clocks, which is what the `calendar` run shows.

Four more disagreements that need no run of their own:

* How far the fixtures drift. "Within a week nothing sits at seven, three or one day
  and the reminder query comes back empty", says the repository's
  `README.md:645-647`; "a week after a reseed nothing sits at the 7/3/1 reminder
  thresholds", the test of the weekly reseed (`tests/test_cdk_stacks.py:153`); the
  thresholds "stop matching anything", `local_reseed.py:12`. They are wrong: case
  109 has a hearing on each of the fourteen days after a load
  (`03-fixtures.sql:68`), so a week later every threshold still finds one. The same
  README says so further down ("no threshold ever comes back empty",
  `README.md:845`), and that is `NoThresholdEmpty`, which `calendar` checks up to the
  moment of the next reseed, day seven included, and `NoCadenceIsEmpty` proves. The
  other cases do drift off; `LadderFollowsTheTable` says when.
* With an unfilled secret every message is dead-lettered after three receives
  (`cdk_stack.py:178`), while `message_sender.py:128` says that it "leaves every
  message on the queue".
* The `CourtDatabaseSeedHearings` output says "expect 12", while the loader, the
  repository's README and the fixtures (`CadencesAreAsDocumented`) say 13.
* The repository's README has 502 for a send that TrueDialog rejects; the code also
  answers it when no answer came, or a 5xx, and then the text may be out. Of the 502s
  only one with a TrueDialog status below 500 tells the caller that nobody was
  texted, which is what `RefusalsTextNobody` says. That TrueDialog has not accepted
  what it answers with such a status is not in the code: it is the one thing the
  models take its word for (`Rejected`).

### The bounds, and why they are enough

Two workers and two requests for one reminder are the smallest race, and each
invocation touches one request; a third request (the direct one) makes "another
request for the same reminder" distinct from "the other worker's". Two faults
let one fault hit the recovery from another. Three attempts are the deployed
`OUTBOX_DELIVERY_ATTEMPTS`; the sender's timeout and the visibility timeout, two
and twelve minutes, are one and two ticks: all that is used of them is that the
first is the shorter, and the proofs hold for every such pair. Batches of two
with three messages give a full batch and a partial one. Two weeks are two
reseeds, each with the days that follow.

At the URL two calls are a request and its repetition, or a request before and
one after a rotation; one rotation makes an old and a current key. Each of the
eight requests differs in one thing that a guard reads. The phone rules read
the number of digits and the first digits of the area code and the exchange, with
or without a 1 in front; six varied characters reach the exchange's first digit
of a plain entry, and thirteen are two more than the longest that can be dialled
without a mark; the proofs have no such bound. The pipeline has one reminder, since reminders meet only in the
run's loop, which `daily_run` checks with four; two copies, since a run is
invoked twice; and a sender that is done within a tick. It is the largest run.
In the deployment an Update is to the loader what a Create is, and the weekly
reseed is a load without a phone, as the deployment's own is, and as often
retried: the run leaves it out, the proofs do not. Four faults let one request
fail and the other stay unanswered in all three attempts, which is how a rollback
fails; `EventuallyAnswered` and `DeploymentSettles` ask for their end until there
have been as many faults as a load has attempts. `Local` is FALSE, as deployed.

`Horizon`, `MaxHands`, `MaxMissed`, `MaxFaults`, `MaxSenderFaults`,
`MaxRedeliveries`, `MaxCalls`, `MaxRotations`, `MaxCopies`, `MaxRows`, `Varied`
and `MaxTyped` are the only bounds that the code does not have, and each stands
in the guard of the actions it limits, but for `MaxCopies`: `PipelineAssumption`
has it no less than the invocations can queue (`Queueable`), and TLC evaluates that.

Deadlock is checked in the sender's runs, the URL's and the pipeline's, where time
always passes. The other modules describe something that ends (a list is
complete, runs and loads return, the horizon is reached), so `CHECK_DEADLOCK` is
off there. Messages that share id and body are symmetric, and so are workers;
runs with liveness properties use no symmetry.

### Fairness

*Sender:* time passes; a running invocation takes its next step (Lambda runs it,
and ends it at its timeout); the event source mapping polls while a message is
visible; SQS applies the redrive policy. Nothing obliges a producer to queue, a
person to fill in the secret, a fault to happen or TrueDialog to act late. *Daily
run and loader:* Lambda starts what it was asked to, goes on with it, and invokes
it again after an error, as it does with asynchronous events; an event arrives
because the schedule, or CloudFormation, sends one. *Pipeline:* what the two
components assume, and nothing that joins them. *Deployment:* CloudFormation goes
on while it can do something, and Lambda starts the two loads CloudFormation asks
for; nothing obliges the weekly rule or a person to run the loader. CloudFormation
gives up on an answer only when Lambda is through with the event: it waits an
hour, and three attempts of at most five minutes with the pauses between them
take less. No strong fairness is assumed anywhere.

## 4. What is proved

All theorems hold for every value of the constants that satisfies the named
assumptions (`RequestsAssumption`, `QueueAssumption`, `UrlAssumption`,
`WorkersAssumption`, `PlanAssumption`, `RunsAssumption`, `LoaderAssumption`,
`DeploymentAssumption`, `CalendarAssumption`, `PipelineAssumption`,
`MarkAssumption`): any number of messages, direct
requests, workers, reminder ids, attempts, faults, redeliveries, calls, rotations
and loads, any visibility timeout longer than the sender's; any list of hearings,
any thresholds and runs, any batch limit; any phone entry. Some theorems have a
hypothesis of their own:

| Theorem | What it supposes | Why |
|---|---|---|
| `PlansTheFirst`, `EveryListIsPlanned` | no two numbers share a tag (`TagsTellApart`) | section 5 |
| `OnlyRacesRepeatAReminder`, `NothingIsTriedForEver` | finitely many requests | they add up over all of them |
| `RunsByDayAreCourtLocal` | nobody runs CourtBotMain by hand in the evening | `calendar_evening` shows what happens otherwise |
| `OnlyRejectedEntriesPassQuietly` | SQS rejects no single entry of a batch | `daily_run_rejected` |
| `RetriesTextOnce` | the log has its table, nothing leaves a text in doubt, SQS repeats no delivery | `sender_lost_answer` |
| `BothGapsClosed`, `OneWorkerMakesRetriesSafe` | nothing leaves a text in doubt, and there is one worker | `pipeline_rerun` |

The last three turn a violation into a cause: the run refutes what a doc, comment or
test says of the program, and the theorem says that with that one cause gone, whatever else
may fail, it is true.

*`DataLemmas`.* The library's induction theorems take an operator as a parameter,
which the provers cannot instantiate. Here a property is the set of what has it
(`SetInduction` over the subsets of a finite set, `Induction` over numbers), and what
follows from it needs no operator either: that the function a fold is defined by
exists (`FoldExists`, and `RecursionExists` for one over a sequence), how a sum over a finite set splits, grows and compares.

*`MessageSenderProofs`.* `TypeCorrect`. Then three invariants, each
inductive with `TypeInv`:

* `TextedInv` proves `NoReminderIsMissedSilently` and `LogStaysHonest`. Alone,
  neither is inductive: that a handled request was texted needs to be known
  before it is reported, when the worker is at `record` (its own text is out) or
  at `finish` (its reminder was texted by somebody); and a duplicate gets to
  `finish` because the log is honest. The invariant joins the three.
* `LeaseInv` proves `OneInvocationAtATime`. Its core relates two clocks: for a
  worker that holds a queued message, the message's remaining invisibility plus
  the worker's age is at least the visibility timeout. The sender's timeout
  bounds the age, so the message is hidden as long as the worker runs.
* `SettledStaysSettled` is an action property: a step may text only from `wait`
  or from a stray push, and a settled id has neither; a worker enters `send`
  only past the check, which a logged id does not pass.

There too: `ExtraTextsArePaidFor`. What a request has been charged is not
only the texts that are out or in flight: a worker past the check, or one before
it that the log will not stop, has a claim to one more, and so has a message that
is waiting with nothing in the log (`Open`). `Charge` adds these up, counting the
claims as a finite set (`WorkersAssumption`), and `EveryStepPays` shows that no
step adds more to it than to the doubts and redeliveries that pay for it. A worker
that lets go of its message leaves it open again, so its claim is spent on that; one
that fails after the text is out (`finish`) must leave it closed, which is why
`FinishedInv` says that the log has its id.

And `OnlyRacesRepeatAReminder`, which counts all the requests for one
reminder. `RaceInv` has two halves. Until the reminder is `Shut` (its id is in the
log), each of its texts has a worker at `record`, about to shut it, or a doubt that
paid for it. The step that shuts it lets all of that go, and has only to fit the
workers past the check (`Racers`) next to the texts: they and the workers at
`record` are different workers. From then on nobody enters the race, and each who
leaves it adds one text at most.

Last, `SenderKeepsPromise`: `Spec => KeepsPromise`, with the
refinement mapping of `MessageSender`. `status` maps to where the request
stands, and a reminder is `sealed` when its id is settled. One step per action
shows which abstract action it is, or that it is a stutter; `sealed` may grow on
any step and never shrinks, by the lemma behind `SettledStaysSettled`.

"Two gaps remain", says `sent_log.py`, and the next two say that there is no third.
`RetriesTextOnce` follows from `ExtraTextsArePaidFor`: with no doubt and no repeated
delivery, nothing pays for a second text of one request. `BothGapsClosed` follows from
`OnlyRacesRepeatAReminder`: with one worker besides, nobody is texted twice about a
reminder, whoever asks for it and however often SQS delivers.

How it ends. `DeadLettersRest`: what has been deleted, dead-lettered or answered with an
error stays so and has no invocation. `NothingIsTriedForEver`: `Remaining` adds up what is
left of every request (how far it has to go, its stray pushes, and seven steps for each
delivery it may still get), of every invocation (the steps up to its end) and of
the secret. Each step but the clock's lowers it. A delivery costs seven and
begins an invocation of six steps; a lost answer leaves one push behind and ends an
invocation that had three to go (`DeliveryGivesWay`, `InvocationGivesWay`).

*`SenderUrlProofs`.* `UrlIsTheSender`: `UrlSpec => Spec`, so everything above
holds behind the URL too. `CallsInv` then follows a request from the door to its
answer, and proves `RefusedCallersTextNobody` and `ServedCallersTextedOnce`:
while a worker has it, nobody else does, and `Under` says by the worker's `pc`
how many texts are out for it and what may still come. That a duplicate owes its
text to another request is `LogStaysHonest` again, together with the fact that
this request has texted nobody itself. `KeyInv` bounds what each container
remembers by the versions that were current since its start, which proves
`KeysEndWithTheirContainers`. `TheUrlChangesNoPromise` spells out what `UrlIsTheSender`
means for the queue: the promise, the log and what is settled are the same with the URL in use.

*`DailyRunProofs`.* First the plan: it is a fold, and each result is proved by induction along it
(`PlanUnfolds` gives the table of the plans of the list's beginnings).
`PlanHoldsEachOnce` needs no hypothesis on tags: one message for each id.
`PlansTheFirst` says which: those of the first hearing of each number and day, in the
query's order. `PlanCountsEveryHearing`: planned or counted under the right reason.

Then the run. `Inv` is the types together with `MidPlan`: what publish has still
to send is the rest of the plan of the threshold at hand, so that batches leave out
nothing and repeat nothing, wherever they are cut. `TypeCorrect` follows.
`QueuedOrReported` needs two halves: what the loop is done with is queued, reported
or broken (`LoopInv`), and of the plan at hand, what publish is past (`PublishInv`).
A run's own failures are the hard steps, other runs only add to the queue. For
`CopiesAreBounded`, which counts invocations that may still be at work, `CopiesInv`
lets an invocation pay for its copies one at a time: `Spent` is what its run was
invoked for less what it has still to do (`Pending`), and `OwnStepSpends` shows that a
batch, which holds no id twice by `PlanHoldsEachOnce`, spends what it queues.

`OnlyRejectedEntriesPassQuietly` names the only way in which a run answers 200 without
having queued or reported a reminder: an entry of a batch that SQS rejected by
itself. A batch that raises breaks its threshold, and a broken threshold makes the
handler raise; without rejected entries `failed` stays empty (`NothingRejected`).
`EveryRunEnds`: `Left(r)` is a run's invocations to come, whether one is at work, its
thresholds to do, whether the next is still to be chosen, and what is to be published,
compared in this order like words, each place deciding only when those before it are
equal. `NothingDescendsForEver` is that this order is well-founded; each step of a run lowers its
`Left`, since no batch is empty (`AfterBatchIsShorter`), and leaves the others' alone.

*`PhoneProofs`.* Both phone rules, of an entry of any length: `DialsWhatWasMeant` and
`NormalizingTwiceIsNormalizing`, each for every sequence of digits and marks and so
for those the run types. `DigitsUnfold` gives the table that `Digits` is the last
line of, and along it go `DigitsType` and `DigitsOfE164`: the digits of what is queued
are a 1 and the ten that were dialled, because a mark is no digit
(`MarkAssumption`). `NationalFacts` says when ten digits are left and that they are then
the last ten; the rest are cases on how many digits there are. `EveryListIsPlanned`
carries `PlansTheFirst` and `PlanCountsEveryHearing` over to the run that lists hearings.

*`DeploymentProofs`.* Of the loader alone, `LadderStaysWhole`: no interleaving of loads, failures and
retries leaves a number on part of the ladder. `LoaderInv` adds what each load
has done by its stage (who has loaded, who may write, how many answers are out
for how many attempts) and proves `NumbersComeFromPeople`,
`EveryInvocationAnswers` and `AnswersStayHonest`. `EveryLoadEnds`: `StepsLeft(l)` is nine
for each invocation Lambda has left and the steps that the one at work has to go,
three fewer for a ladder it has rewritten; each step of a load lowers its own and leaves the
others', whose locks it may wait for, alone.

Of the loader in its stack, `DeployedLoaderIsTheLoader`: `DeploymentSpec => Spec`. With
`LoaderInv` of every state, `SeededInv` follows the tables from the load that
commits them through its answer to the resource that counts as created
(`CreatedMeansSeeded`); the answer that counts is the first, and a later one
does not change it. `LogsInv` says that while the stack is being created its own
request comes after its log group (`OwnSeedLeavesTheLogGroup`). `TheDeploymentEnds`:
`Unsettled` counts the resources to make or, in a rollback, to remove, and the requests to
send, with room between the two so that a failure lowers it; each step of
CloudFormation does, and the others are a load's. `TheDeploymentKeepsTheLoader` states the
loader's properties of the deployment.

*`CalendarProofs`.* `RunsByDayAreCourtLocal`: as long as nobody runs CourtBotMain by
hand in the evening, every text says the right number of days, for ever and
whatever is reseeded or missed. The invariant is that a scheduled run is due
only in the daytime slot, when both clocks show one date. `NoCadenceIsEmpty`,
`LadderIsAsTabled` and `AWeekIsOnePass` rest on `FreshInv`, which compares `anchor` with
the last Monday whose reseed is over (`WeekStart`): no older, and the same if
nobody reseeded by hand. `PassInv` adds that each run of the week since then has
told of the next Monday's hearing if it was its day to. `CadencesAreTheTable` counts the
rows on the day of a load: whichever day that is, the window of a lead is that day of
the fixtures (`CasesOfTheDay`).

*`PipelineProofs`.* The two ends' proofs are instantiated (`Up`, `Down`), and their
assumptions derived from `PipelineAssumption`, which names both ends' and says that
`Reminders` are the ids of the day's plans and `MaxCopies` is enough for its
invocations. A few lemmas (`SamePlans`, `SameRun`, `SameWork` ...) say that the proofs
speak of the same program as the pipeline. `StepOfOneEnd` then makes every step a
step of one end. `PipelineInv` is the invariants of both ends and `CopiesInv`, which
ties the queue to what the daily run counts: the n-th copy of a reminder is queued
exactly when at least n were. The one step that is neither end's alone is a batch,
which queues several messages at once: `EnqueueAllKeeps` of `MessageSenderProofs` says
that the sender's invariants survive a set of messages that are queued together, and
`QueueTakesAll` that the batch is one. With that, `TypeCorrect`; `NobodyIsLeftOut`, from
what a run that answered has queued (`AnsweredInv`), from `CopiesFit` (the bound
`CopiesAreFew` leaves room for the first copy) and from `NoSilentMiss`; and
`RetriesAreHarmless`, from `RaceInv`.

The rest of it says that the parts stay what they are when joined.
`DailyRunIsItself`: `Spec => Producer!Spec`. `PipelineKeepsPromise`: the pipeline
implements `ReminderPromise` with the sender's own refinement mapping; a batch is an
`Ask` for several reminders (`EnqueueAllAsks`), every other step is the sender's, or
a stutter. `SettledRemindersStaySettled`: the sender's action property, with a
producer that may queue a settled reminder again. `BothEndsKeepTheirWord`: the
other properties of each end, in the pipeline. `OneWorkerMakesRetriesSafe`: with one worker and
nothing in doubt, a retried run texts nobody again. `TheDayEnds` joins the two orders: a
step of the daily run lowers its `Left` and gives the sender no more to do, since a copy
that is queued was still to come (`EnqueueAllLeaves`); any other step but the clock's
lowers `Remaining` and leaves the runs alone.

Only model-checked: everything about liveness (`EventuallyQueued`, `EventuallyAnswered`,
`DeploymentSettles`, `EveryMessageSettles`, `RemindersSurviveFaults`,
`EveryReminderEnds`, `RemindersReachPeople`). Of these the theorems prove the half that is
safety: no run, request, load or deployment goes on for ever. That none stops short
needs the fairness of its actions and when they are enabled, which are beyond the prover.
Every other property that a run checks is a theorem, or one under a hypothesis of the
table above.

## 5. What is not modelled

* Retention: the log's thirty days, the queue's four, the dead letters' fourteen.
  A row of the log outlives every delivery that SQS makes on its own; a person who
  redrives a dead letter later than that, or a sender that is stopped for four
  days, is outside these models.
* A text that waits: it says how many days are left as of the run that queued it.
* The daily query beside a reseed that has not committed (`WITH (NOLOCK)`), and what
  the counts of a load's summary say.
* Collisions of the 32-bit number tag: the runs take it to be injective on a
  day's numbers, and `PlansTheFirst` says so in `TagsTellApart`. Digits outside ASCII, which `\D` lets
  through.
* `hearings_for_case`, and the options of the TrueDialog client that no caller sets.
* Updates of a deployed stack and its teardown by hand; the resources of the
  reminder stack that have nothing to do with the loader, and the resource that locks
  down the VPC's default security group (`restrict_default_security_group`), which
  nothing uses; the pipeline stack, which declares a role.
* `message_response.py` and `message_status.py`, which are placeholders; the
  developer scripts, which call the Lambdas and print.
* Wording, masking, redaction and logging.

External, and modelled by what the code relies on: SQS (at-least-once,
visibility, redrive), Lambda (timeout, retries of asynchronous events, containers
that come and go, log groups), DynamoDB (consistent reads, a failing write that
may have been applied), TrueDialog (each push is accepted at most once, and not after
a status below 500 that is no 2xx), Secrets
Manager, the databases' transactions, CloudFormation, EventBridge.

## 6. The plan

Done, in this order: the sender with its abstract promise and proofs; the plan;
the daily run; the calendar; the loader; the pipeline; the function URL; the phone
rules; the deployment; the proofs about the URL, the loader and the deployment;
those about the plan, the daily run, the calendar, the races for one reminder, the
pipeline and the phone rules; the causes behind the violations, and that
everything ends.

Next, in order of weight:

1. `Retention`: expiry of log rows and queued messages against redriven dead
   letters, with the text's own age.
2. A reader beside the loader: what the daily query sees of an uncommitted reseed.
3. Updates of the deployed stack, and the order in which it is taken down.
