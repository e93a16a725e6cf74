----------------------------- MODULE Deployment -----------------------------
(***************************************************************************)
(* The first deployment: CloudFormation creates what                       *)
(* cdk_stack/mock_database_stack.py declares and then the loader's part of *)
(* cdk_stack/cdk_stack.py, whose custom resource runs the loader of        *)
(* DatabaseLoader.  CloudFormation itself is external: it creates whatever *)
(* has its dependencies, in any order, takes the first answer to a request *)
(* as its verdict, and undoes the stack that failed.                       *)
(*                                                                         *)
(* The Lambda runtime makes a log group for a function that has none when  *)
(* the function first runs; a stack cannot create one that exists.         *)
(***************************************************************************)
EXTENDS DatabaseLoader

CONSTANTS
  Deploy,  \* the Create request of the seed
  Undo,    \* the Delete request a rollback sends for it
  Local    \* the stacks are synthesized for Floci

ASSUME DeploymentAssumption ==
  /\ Deploy \in Loads /\ Kind[Deploy] = "Create"
  /\ Undo \in Loads /\ Kind[Undo] = "Delete"
  /\ \A l \in Loads \ {Deploy, Undo} : ~FromCloudFormation(l)
  /\ Local \in BOOLEAN

VARIABLES
  made,    \* the resources that exist
  phase,   \* of the stack with the loader
  asked,   \* the requests CloudFormation has sent
  logs,    \* who made the loader's log group: "nobody", "runtime" or "stack"
  tables   \* the court database has its tables

stack == <<made, phase, asked, logs>>
everything == <<vars, stack, tables>>

-----------------------------------------------------------------------------
(* The stacks.                                                             *)

\* A plausible bug in Endpoints: the route the answer takes is forgotten.
EndpointsOfTheQuery == {"secrets endpoint", "sqs endpoint"}

\* The isolated subnets have no way to the AWS APIs but these.
Endpoints == {"secrets endpoint", "s3 endpoint", "sqs endpoint"}

\* RDS attaches a generated secret to its instance; Floci's is written whole.
DatabaseStack ==
  {"vpc", "client group", "credentials", "database", "port open"}
    \cup Endpoints \cup (IF Local THEN {} ELSE {"credentials attached"})

\* Floci has no weekly reseed.
LoaderStack ==
  {"loader", "loader logs", "seed"} \cup (IF Local THEN {} ELSE {"weekly rule"})

\* A plausible bug in ToldToAwait: the seed does not wait for the log group.
ToldToAwaitDatabase(r) == IF r = "seed" THEN {"database"} ELSE {}

\* node.add_dependency, for what no reference says.
ToldToAwait(r) == IF r = "seed" THEN {"database", "loader logs"} ELSE {}

\* What a resource refers to: the loader imports values of the database
\* stack, which must be complete for that.
RefersTo(r) ==
  CASE r = "vpc" -> {}
    [] r = "credentials" -> IF Local THEN {"database"} ELSE {}
    [] r = "database" -> {"vpc"} \cup (IF Local THEN {} ELSE {"credentials"})
    [] r = "credentials attached" -> {"database", "credentials"}
    [] r = "port open" -> {"database", "client group"}
    [] r \in {"client group"} \cup Endpoints -> {"vpc"}
    [] r = "loader" -> DatabaseStack
    [] r \in LoaderStack \ {"loader"} -> {"loader"}

DependsOn(r) == RefersTo(r) \cup ToldToAwait(r)

Ready(r) == phase = "creating" /\ r \notin made /\ DependsOn(r) \subseteq made

Create(r) ==
  /\ Ready(r)
  /\ r \notin {"loader logs", "seed"}
  /\ made' = made \cup {r}
  /\ UNCHANGED <<vars, phase, asked, logs, tables>>

\* "The specified log group already exists" fails the stack.
CreateLogs ==
  /\ Ready("loader logs")
  /\ IF logs = "nobody"
     THEN made' = made \cup {"loader logs"} /\ logs' = "stack" /\ UNCHANGED phase
     ELSE phase' = "rolling back" /\ UNCHANGED <<made, logs>>
  /\ UNCHANGED <<vars, asked, tables>>

\* Creating the seed is asking the loader.
AskForSeed ==
  /\ Ready("seed") /\ Deploy \notin asked
  /\ asked' = asked \cup {Deploy}
  /\ UNCHANGED <<vars, made, phase, logs, tables>>

\* A plausible bug in HearFromSeed: any answer will do.
HearAnything ==
  /\ phase = "creating" /\ "seed" \notin made
  /\ answers[Deploy] # <<>>
  /\ made' = made \cup {"seed"}
  /\ UNCHANGED <<vars, phase, asked, logs, tables>>

HearFromSeed ==
  /\ phase = "creating" /\ "seed" \notin made
  /\ answers[Deploy] # <<>>
  /\ IF Head(answers[Deploy]) = "SUCCESS"
     THEN made' = made \cup {"seed"} /\ UNCHANGED phase
     ELSE phase' = "rolling back" /\ UNCHANGED made
  /\ UNCHANGED <<vars, asked, logs, tables>>

Complete ==
  /\ phase = "creating" /\ LoaderStack \subseteq made
  /\ phase' = "complete"
  /\ UNCHANGED <<vars, made, asked, logs, tables>>

\* CloudFormation waits an hour for an answer, by when Lambda is through with
\* an event: three attempts of five minutes and the pauses between them.
GiveUpOn(l) ==
  /\ l \in asked /\ stage[l] \in {"done", "gave up"} /\ answers[l] = <<>>
  /\ \/ l = Deploy /\ phase = "creating" /\ phase' = "rolling back"
     \/ l = Undo /\ phase = "rolling back" /\ phase' = "rollback failed"
  /\ UNCHANGED <<vars, made, asked, logs, tables>>

-----------------------------------------------------------------------------
(* The rollback, which leaves the database stack alone.                    *)

AskToUndo ==
  /\ phase = "rolling back"
  /\ Deploy \in asked /\ Undo \notin asked
  /\ asked' = asked \cup {Undo}
  /\ UNCHANGED <<vars, made, phase, logs, tables>>

\* Nothing goes before what depends on it, the seed first of all.
Remove(r) ==
  /\ phase = "rolling back" /\ r \in made \cap LoaderStack
  /\ Deploy \in asked => answers[Undo] # <<>>
  /\ \A other \in made \ {r} : r \notin DependsOn(other)
  /\ made' = made \ {r}
  /\ logs' = IF r = "loader logs" THEN "nobody" ELSE logs
  /\ UNCHANGED <<vars, phase, asked, tables>>

RolledBack ==
  /\ phase = "rolling back" /\ made \cap LoaderStack = {}
  /\ Deploy \in asked => answers[Undo] # <<>>
  /\ phase' = "rolled back"
  /\ UNCHANGED <<vars, made, asked, logs, tables>>

CloudFormation ==
  \/ \E r \in DatabaseStack \cup LoaderStack : Create(r)
  \/ \E r \in LoaderStack : Remove(r)
  \/ CreateLogs \/ AskForSeed \/ HearFromSeed \/ Complete \/ AskToUndo \/ RolledBack
  \/ \E l \in {Deploy, Undo} : GiveUpOn(l)

-----------------------------------------------------------------------------
(* The loader in its stack.                                                *)

Sent(l) ==
  /\ "loader" \in made
  /\ FromCloudFormation(l) => l \in asked
  /\ Kind[l] = "scheduled" /\ stage[l] = "waiting" => "weekly rule" \in made

\* Credentials, database and the answer's URL are where the way to them is.
\* Without it a load waits here; the code would wait, time out and be invoked
\* again.  In the order that DependsOn gives, the way is there when it is needed.
Reaches(l) ==
  \/ /\ stage[l] \in {"answer", "report"}
     /\ FromCloudFormation(l) => "s3 endpoint" \in made
  \/ /\ stage[l] \in {"load", "phone", "count"}
     /\ {"secrets endpoint", "port open",
         IF Local THEN "credentials" ELSE "credentials attached"} \subseteq made

\* Whoever commits a load leaves tables behind.
Left == tables' = (tables \/ seeded' \ seeded # {})

Run(l) ==
  /\ Sent(l) /\ Start(l)
  /\ logs' = IF logs = "nobody" THEN "runtime" ELSE logs
  /\ UNCHANGED <<made, phase, asked, tables>>

Serve(l) == Reaches(l) /\ Handle(l) /\ Left /\ UNCHANGED stack

Break(l) == Reaches(l) /\ Failure(l) /\ Left /\ UNCHANGED stack

DeploymentInit ==
  /\ Init
  /\ made = {} /\ phase = "creating" /\ asked = {} /\ logs = "nobody"
  /\ tables = FALSE

DeploymentNext ==
  \/ CloudFormation
  \/ \E l \in Loads : Run(l) \/ Serve(l) \/ Break(l)

DeploymentSpec ==
  /\ DeploymentInit /\ [][DeploymentNext]_everything
  /\ WF_everything(CloudFormation)
  /\ \A l \in Loads : WF_everything(Serve(l))
  /\ \A l \in {Deploy, Undo} : WF_everything(Run(l))

-----------------------------------------------------------------------------
(* Properties.                                                             *)

DeploymentTypeOK ==
  /\ TypeOK
  /\ made \subseteq DatabaseStack \cup LoaderStack
  /\ phase \in {"creating", "complete", "rolling back", "rolled back", "rollback failed"}
  /\ asked \subseteq {Deploy, Undo}
  /\ logs \in {"nobody", "runtime", "stack"}
  /\ tables \in BOOLEAN

\* Whatever was lost, repeated or raced on the way, a stack that counts its
\* seed as created stands beside a database with its tables in it.
StackIsSeeded == "seed" \in made => tables

\* The deployment cannot trip over the log group of its own seed: if the
\* runtime made the group before the stack could, a person or the weekly rule
\* ran the loader meanwhile (_seed_database: "without this dependency the two
\* race and the deploy fails").
OnlyOthersTakeTheLogGroup ==
  phase = "creating" /\ logs = "runtime" =>
    \E l \in Loads : ~FromCloudFormation(l) /\ stage[l] # "waiting"

\* Nobody has to wait for CloudFormation or answer it by hand: the stack ends
\* up complete or cleanly rolled back, unless as many things fail as the loader
\* has attempts (database_loader.py: "That answer is always sent").
DeploymentSettles ==
  <>(\/ phase \in {"complete", "rolled back"}
     \/ \E l \in {Deploy, Undo} : faults >= Invocations[l])
=============================================================================
