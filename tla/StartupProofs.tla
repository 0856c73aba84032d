--------------------------- MODULE StartupProofs ---------------------------
(***************************************************************************)
(* For any number of containers, attempts and outages: the migration is    *)
(* atomic, nobody serves without it, and a concurrent rollout costs a      *)
(* container at most one of its attempts.                                  *)
(***************************************************************************)
EXTENDS Startup, TLAPS

(* The schema is the three objects of the migration.                       *)
LEMMA ObjectsAre ==
  /\ Len(Objects) = 3
  /\ Schema = {Objects[n] : n \in 1 .. 3}
  BY DEF Objects, Schema

LEMMA InitOK == Init => StartupInv
<1> SUFFICES ASSUME Init PROVE StartupInv
  OBVIOUS
<1> USE DEF Init
<1>1. TypeOK
  BY StartupAssumption, ObjectsAre DEF TypeOK
<1>2. OneCreator /\ ReadyMeansHead /\ SchemaWhole
  BY DEF OneCreator, ReadyMeansHead, SchemaWhole
<1>3. AttemptsCounted
  BY DEF AttemptsCounted, Migrating
<1> QED
  BY <1>1, <1>2, <1>3 DEF StartupInv

(* What a commit of the creator does: the whole schema at once.            *)
LEMMA CommitWhole ==
  ASSUME StartupInv, CommitEffect
  PROVE  tables' = Schema /\ version' = "head" /\ creator' = Nobody /\ made' = 0
  BY ObjectsAre DEF StartupInv, TypeOK, CommitEffect

LEMMA StepOK == StartupInv /\ [Next]_startVars => StartupInv'
<1> SUFFICES ASSUME StartupInv, [Next]_startVars PROVE StartupInv'
  OBVIOUS
<1> USE StartupAssumption, ObjectsAre
    DEF StartupInv, TypeOK, OneCreator, ReadyMeansHead, SchemaWhole,
        AttemptsCounted, Migrating, schemaVars
<1>1. ASSUME NEW c \in Container, StartContainer(c) PROVE StartupInv'
  <2> USE <1>1 DEF StartContainer, Goes
  <2>1. TypeOK'
    OBVIOUS
  <2>2. OneCreator' /\ ReadyMeansHead' /\ SchemaWhole'
    OBVIOUS
  <2>3. AttemptsCounted'
    OBVIOUS
  <2> QED
    BY <2>1, <2>2, <2>3
<1>2. ASSUME NEW c \in Container, ReadVersion(c) PROVE StartupInv'
  BY <1>2 DEF ReadVersion, Goes
<1>3. ASSUME NEW c \in Container, CreateVersionTable(c) PROVE StartupInv'
  BY <1>3 DEF CreateVersionTable, Goes
<1>4. ASSUME NEW c \in Container, VersionTableExists(c) PROVE StartupInv'
  BY <1>4 DEF VersionTableExists, AttemptFails
<1>5. ASSUME NEW c \in Container, CreateObject(c) PROVE StartupInv'
  BY <1>5 DEF CreateObject
<1>6. ASSUME NEW c \in Container, CommitMigration(c) PROVE StartupInv'
  BY <1>6, CommitWhole DEF CommitMigration, Goes
<1>7. ASSUME NEW c \in Container, Outage(c) PROVE StartupInv'
  <2>1. CASE RollBack(c)
    BY <1>7, <2>1 DEF Outage, AttemptFails, RollBack
  <2>2. CASE phase[c] = "upgrade" /\ CommitEffect
    BY <1>7, <2>2, CommitWhole DEF Outage, AttemptFails
  <2> QED
    BY <1>7, <2>1, <2>2 DEF Outage
<1>8. ASSUME NEW c \in Container, Retry(c) PROVE StartupInv'
  BY <1>8 DEF Retry, Goes
<1>9. ASSUME NEW c \in Container, Serve(c) PROVE StartupInv'
  BY <1>9 DEF Serve, Goes
<1>10. ASSUME NEW c \in Container, Dies(c) PROVE StartupInv'
  BY <1>10 DEF Dies
<1>11. ASSUME NEW c \in Container, ServerRollback(c) PROVE StartupInv'
  BY <1>11 DEF ServerRollback, RollBack
<1>12. CASE UNCHANGED startVars
  BY <1>12 DEF startVars
<1> QED
  BY <1>1, <1>2, <1>3, <1>4, <1>5, <1>6, <1>7, <1>8, <1>9, <1>10, <1>11, <1>12
  DEF Next, Step

(* What is committed, who may create it and who has seen it agree.         *)
THEOREM StartupInvariant == Spec => []StartupInv
  BY InitOK, StepOK, PTL DEF Spec

(* Attempts and outages stay within their bounds.                          *)
THEOREM StartupTypeCorrect == Spec => []TypeOK
<1>1. StartupInv => TypeOK
  BY DEF StartupInv
<1> QED
  BY <1>1, StartupInvariant, PTL

(* A death or an error in the migration leaves the whole schema or none.   *)
THEOREM MigrationAtomic == Spec => []SchemaWhole
<1>1. StartupInv => SchemaWhole
  BY DEF StartupInv
<1> QED
  BY <1>1, StartupInvariant, PTL

(* Who serves has its tables.                                              *)
THEOREM ServingHasSchema == Spec => []ServesOnSchema
<1>1. StartupInv => ServesOnSchema
  BY DEF StartupInv, ServesOnSchema, ReadyMeansHead, SchemaWhole
<1> QED
  BY <1>1, StartupInvariant, PTL

(* Racing costs a container one attempt, however many containers race.     *)
THEOREM RacesLoseOneAttempt == Spec => []ExitsOnlyAfterOutages
<1>1. StartupInv => ExitsOnlyAfterOutages
  BY StartupAssumption
  DEF StartupInv, TypeOK, ExitsOnlyAfterOutages, AttemptsCounted
<1> QED
  BY <1>1, StartupInvariant, PTL
=============================================================================
