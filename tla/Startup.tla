------------------------------ MODULE Startup ------------------------------
(***************************************************************************)
(* The start of the API containers over one new database: entrypoint.sh    *)
(* runs "alembic upgrade head" up to MaxAttempts times, then serves.  A    *)
(* run of alembic is one transaction of Postgres, whose DDL is             *)
(* transactional.  Its first statement creates alembic_version, and waits  *)
(* for a concurrent transaction that has created it and is still open.     *)
(***************************************************************************)
EXTENDS Naturals, Sequences

CONSTANTS
  Container,    \* the API containers that are started, at any time
  Nobody,       \* no transaction has created alembic_version
  MaxAttempts,  \* of run_migrations
  MaxOutages    \* bound: the runs of alembic that the database fails

ASSUME StartupAssumption ==
  /\ Nobody \notin Container
  /\ MaxAttempts \in Nat \ {0}
  /\ MaxOutages \in Nat

VARIABLES
  phase,    \* where a container is
  attempt,  \* the attempt it is at
  outages,  \* the runs of alembic that it lost to the database or the network
  tables,   \* the committed tables and indexes
  version,  \* what alembic_version holds; "base" also if it does not exist
  creator,  \* the container whose open transaction has created alembic_version
  made      \* the objects which that transaction has created since

schemaVars == <<tables, version, creator, made>>
startVars == <<phase, attempt, outages, schemaVars>>

(* 0001_initial, in the order of its statements.                           *)
Objects == <<"jobs", "prompt_items", "idx_items_claimable">>
Schema == {Objects[n] : n \in 1 .. Len(Objects)}

Migrating == {"connect", "fresh", "upgrade"}

TypeOK ==
  /\ phase \in [Container -> Migrating \cup
                  {"off", "sleep", "ready", "serving", "exited", "dead"}]
  /\ attempt \in [Container -> 0 .. MaxAttempts]
  /\ outages \in [Container -> 0 .. MaxOutages]
  /\ tables \subseteq Schema
  /\ version \in {"base", "head"}
  /\ creator \in Container \cup {Nobody}
  /\ made \in 0 .. Len(Objects)

Init ==
  /\ phase = [c \in Container |-> "off"]
  /\ attempt = [c \in Container |-> 0]
  /\ outages = [c \in Container |-> 0]
  /\ tables = {}
  /\ version = "base"
  /\ creator = Nobody
  /\ made = 0

Goes(c, from, to) == phase[c] = from /\ phase' = [phase EXCEPT ![c] = to]

(* alembic ended with an error: the next attempt, after a pause, or none.  *)
OneMoreAttempt(c) ==  \* mutant: <= instead of <
  phase' = [phase EXCEPT ![c] = IF attempt[c] <= MaxAttempts THEN "sleep" ELSE "exited"]

FallsThrough(c) ==  \* mutant: the loop ends without an exit
  phase' = [phase EXCEPT ![c] = IF attempt[c] < MaxAttempts THEN "sleep" ELSE "ready"]

ExitsAtOnce(c) ==  \* mutant: alembic outside of the if, under set -e
  phase' = [phase EXCEPT ![c] = "exited"]

AttemptFails(c) ==
  phase' = [phase EXCEPT ![c] = IF attempt[c] < MaxAttempts THEN "sleep" ELSE "exited"]

(* Its transaction, if it has one, is rolled back.                         *)
RollBack(c) ==
  /\ creator' = IF creator = c THEN Nobody ELSE creator
  /\ made' = IF creator = c THEN 0 ELSE made
  /\ UNCHANGED <<tables, version>>

----------------------------------------------------------------------------
StartContainer(c) ==
  /\ Goes(c, "off", "connect")
  /\ attempt' = [attempt EXCEPT ![c] = 1]
  /\ UNCHANGED <<outages, schemaVars>>

(* alembic reads the version that is committed now; at the head it has     *)
(* nothing to do and succeeds.                                             *)
ReadVersion(c) ==
  /\ Goes(c, "connect", IF version = "head" THEN "ready" ELSE "fresh")
  /\ UNCHANGED <<attempt, outages, schemaVars>>

CreateVersionTable(c) ==
  /\ creator = Nobody /\ version = "base"
  /\ Goes(c, "fresh", "upgrade")
  /\ creator' = c
  /\ UNCHANGED <<attempt, outages, tables, version, made>>

(* Another container committed it after this one had read the version.     *)
VersionTableExists(c) ==
  /\ creator = Nobody /\ version = "head"
  /\ phase[c] = "fresh"
  /\ AttemptFails(c)
  /\ UNCHANGED <<attempt, outages, schemaVars>>

(* upgrade, a statement at a time.                                         *)
Autocommits(c) ==  \* mutant: the engine is in AUTOCOMMIT
  /\ phase[c] = "upgrade"
  /\ made < Len(Objects)
  /\ made' = made + 1
  /\ tables' = tables \cup {Objects[made']}
  /\ UNCHANGED <<phase, attempt, outages, version, creator>>

CreateObject(c) ==
  /\ phase[c] = "upgrade"
  /\ made < Len(Objects)
  /\ made' = made + 1
  /\ UNCHANGED <<phase, attempt, outages, tables, version, creator>>

(* The end of context.begin_transaction().                                 *)
CommitEffect ==
  /\ made = Len(Objects)
  /\ tables' = tables \cup {Objects[n] : n \in 1 .. made}
  /\ version' = "head"
  /\ creator' = Nobody
  /\ made' = 0

CommitMigration(c) ==
  /\ Goes(c, "upgrade", "ready")
  /\ CommitEffect
  /\ UNCHANGED <<attempt, outages>>

(* The database is not there, a statement fails, the connection is lost:   *)
(* in the worst case after the server committed.                           *)
Outage(c) ==
  /\ phase[c] \in Migrating
  /\ outages[c] < MaxOutages
  /\ outages' = [outages EXCEPT ![c] = @ + 1]
  /\ AttemptFails(c)
  /\ \/ RollBack(c)
     \/ phase[c] = "upgrade" /\ CommitEffect
  /\ UNCHANGED attempt

RetriesStale(c) ==  \* mutant: the version is not read again
  /\ Goes(c, "sleep", "fresh")
  /\ attempt' = [attempt EXCEPT ![c] = @ + 1]
  /\ UNCHANGED <<outages, schemaVars>>

Retry(c) ==
  /\ Goes(c, "sleep", "connect")
  /\ attempt' = [attempt EXCEPT ![c] = @ + 1]
  /\ UNCHANGED <<outages, schemaVars>>

(* exec uvicorn.                                                           *)
Serve(c) ==
  /\ Goes(c, "ready", "serving")
  /\ UNCHANGED <<attempt, outages, schemaVars>>

(* The container is killed; Postgres notices some time later.              *)
Dies(c) ==
  /\ phase[c] \notin {"off", "exited", "dead"}
  /\ phase' = [phase EXCEPT ![c] = "dead"]
  /\ UNCHANGED <<attempt, outages, schemaVars>>

ServerRollback(c) ==
  /\ phase[c] = "dead"
  /\ creator = c
  /\ RollBack(c)
  /\ UNCHANGED <<phase, attempt, outages>>

----------------------------------------------------------------------------
Step(c) ==
  \/ ReadVersion(c) \/ CreateVersionTable(c) \/ VersionTableExists(c)
  \/ CreateObject(c) \/ CommitMigration(c) \/ Retry(c) \/ Serve(c)

Next ==
  \E c \in Container : \/ StartContainer(c) \/ Step(c) \/ Outage(c)
                       \/ Dies(c) \/ ServerRollback(c)

(* The script and alembic run on, and Postgres ends dead transactions.     *)
Fairness == \A c \in Container : WF_startVars(Step(c)) /\ WF_startVars(ServerRollback(c))

Spec == Init /\ [][Next]_startVars
FairSpec == Spec /\ Fairness

----------------------------------------------------------------------------
(* Properties.                                                             *)

(* Whatever dies or fails between two statements of the migration, and     *)
(* however many containers run it, the database has the whole schema and   *)
(* its version, or neither.                                                *)
SchemaWhole == tables = IF version = "head" THEN Schema ELSE {}

(* No container serves requests over a database without the schema.        *)
ServesOnSchema ==
  \A c \in Container : phase[c] = "serving" => tables = Schema

(* Containers that race lose at most one of their attempts to each other:  *)
(* one that gives up has met an outage in every other attempt.             *)
ExitsOnlyAfterOutages ==
  \A c \in Container : phase[c] = "exited" => outages[c] + 1 >= MaxAttempts

(* A container that started comes to serve, if it is not killed and the    *)
(* database does not fail it in all but one of its attempts.               *)
EveryContainerServes ==
  \A c \in Container : phase[c] = "connect" ~>
    phase[c] \in {"serving", "dead"} \/ outages[c] + 1 >= MaxAttempts

----------------------------------------------------------------------------
(* Why they hold: an inductive invariant.                                  *)

(* Only one transaction has DDL, and only the creator is upgrading, alive  *)
(* or not yet found dead; nothing is created once the head is committed.   *)
OneCreator ==
  /\ \A c \in Container : phase[c] = "upgrade" => creator = c
  /\ creator # Nobody => phase[creator] \in {"upgrade", "dead"} /\ version = "base"
  /\ creator = Nobody => made = 0

(* Who is ready has seen the head, or committed it.                        *)
ReadyMeansHead ==
  \A c \in Container : phase[c] \in {"ready", "serving"} => version = "head"

(* How many attempts a container can have made: one that has yet to lose a *)
(* race, and one that lost it, so that the head is committed.              *)
AttemptsCounted ==
  \A c \in Container :
    /\ phase[c] # "off" => attempt[c] >= 1
    /\ phase[c] = "connect" => attempt[c] <= outages[c] + (IF version = "head" THEN 2 ELSE 1)
    /\ phase[c] \in {"fresh", "upgrade"} => attempt[c] <= outages[c] + 1
    /\ phase[c] \in {"sleep", "exited"} =>
         attempt[c] <= outages[c] + (IF version = "head" THEN 1 ELSE 0)
    /\ phase[c] = "sleep" => attempt[c] < MaxAttempts
    /\ phase[c] = "exited" => attempt[c] = MaxAttempts

StartupInv ==
  TypeOK /\ OneCreator /\ ReadyMeansHead /\ SchemaWhole /\ AttemptsCounted
=============================================================================
