------------------------------ MODULE Ingestor ------------------------------
(***************************************************************************)
(* BatchIngestor.ingest: the rows of one job's input file become rows of   *)
(* prompt_items.  A pass is one call of ingest; a resumed job's file is    *)
(* read again from its beginning, while a replica may be reading it too.   *)
(*                                                                         *)
(* A line of the file is its external id, as _to_item makes it, and its    *)
(* kind; the prompt or the error a row stores is the number of its line.   *)
(* What workers do to a row once it is inserted is in WorkQueue, which     *)
(* shows that an insert never changes a row that exists.                   *)
(***************************************************************************)
EXTENDS Integers, FiniteSets

CONSTANTS
  Id,           \* external ids
  Lines,        \* the length of the file
  InsertBatch,  \* _INSERT_BATCH
  Pass,         \* the calls of ingest there can be
  Absent        \* no row with this id

ASSUME IngestorAssumption ==
  /\ Lines \in Nat
  /\ InsertBatch \in Nat \ {0}
  /\ Absent \notin [status : {"PENDING", "FAILED"}, line : 1 .. Lines]

VARIABLES
  file,    \* the input file, which nobody changes
  unique,  \* settings.reject_duplicate_ids, which nobody changes either
  table,   \* the row of each external id, as it was inserted
  pass,    \* the state of each pass
  total,   \* jobs.total_items
  at,      \* the pass's `total`: the lines it has read
  seen,    \* ValidationContext.seen_ids
  items,   \* the lines accepted and not yet inserted
  failed   \* the lines rejected and not yet inserted

given == <<file, unique>>
locals == <<at, seen, items, failed>>
vars == <<given, table, pass, total, locals>>

(* "malformed" is what _to_item refuses (no dict, no string prompt);       *)
(* "invalid" is what a rule other than UniqueExternalId refuses.           *)
Kind == {"valid", "invalid", "malformed"}

RowImage == [status : {"PENDING", "FAILED"}, line : 1 .. Lines]

TypeOK ==
  /\ file \in [1 .. Lines -> [id : Id, kind : Kind]]
  /\ unique \in BOOLEAN
  /\ table \in [Id -> RowImage \cup {Absent}]
  /\ pass \in [Pass -> {"idle", "reading", "done", "stopped"}]
  /\ total \in 0 .. Lines
  /\ at \in [Pass -> 0 .. Lines]
  /\ seen \in [Pass -> SUBSET Id]
  /\ items \in [Pass -> SUBSET (1 .. Lines)]
  /\ failed \in [Pass -> SUBSET (1 .. Lines)]
  /\ \A p \in Pass : Cardinality(items[p] \cup failed[p]) <= InsertBatch

Init ==
  /\ file \in [1 .. Lines -> [id : Id, kind : Kind]]
  /\ unique \in BOOLEAN
  /\ table = [x \in Id |-> Absent]
  /\ pass = [p \in Pass |-> "idle"]
  /\ total = 0
  /\ at = [p \in Pass |-> 0]
  /\ seen = [p \in Pass |-> {}]
  /\ items = [p \in Pass |-> {}]
  /\ failed = [p \in Pass |-> {}]

----------------------------------------------------------------------------
Begin(p) ==
  /\ pass[p] = "idle"
  /\ pass' = [pass EXCEPT ![p] = "reading"]
  /\ UNCHANGED <<given, table, total, locals>>

(* build_validation_pipeline: UniqueExternalId is a rule or is not.  The   *)
(* pipeline runs every rule: a line another rule refuses still takes its   *)
(* id.  A malformed line does not reach the pipeline.                      *)
SeenAfter(p, n) ==
  IF unique /\ file[n].kind # "malformed" THEN seen[p] \cup {file[n].id} ELSE seen[p]

Accepts(p, n) == file[n].kind = "valid" /\ file[n].id \notin seen[p]

Buffered(p) == Cardinality(items[p]) + Cardinality(failed[p])

(* A turn of the loop over ijson.items.                                    *)
FlushesTooLate(p) ==  \* mutant: > instead of >=
  /\ pass[p] = "reading"
  /\ at[p] < Lines
  /\ Buffered(p) <= InsertBatch
  /\ at' = [at EXCEPT ![p] = @ + 1]
  /\ items' = [items EXCEPT ![p] = @ \cup {n \in {at'[p]} : Accepts(p, n)}]
  /\ failed' = [failed EXCEPT ![p] = @ \cup {n \in {at'[p]} : ~Accepts(p, n)}]
  /\ seen' = [seen EXCEPT ![p] = SeenAfter(p, at'[p])]
  /\ UNCHANGED <<given, table, pass, total>>

ReadLine(p) ==
  /\ pass[p] = "reading"
  /\ at[p] < Lines
  /\ Buffered(p) < InsertBatch
  /\ at' = [at EXCEPT ![p] = @ + 1]
  /\ items' = [items EXCEPT ![p] = @ \cup {n \in {at'[p]} : Accepts(p, n)}]
  /\ failed' = [failed EXCEPT ![p] = @ \cup {n \in {at'[p]} : ~Accepts(p, n)}]
  /\ seen' = [seen EXCEPT ![p] = SeenAfter(p, at'[p])]
  /\ UNCHANGED <<given, table, pass, total>>

(* The rows that bulk_insert(items, failed) has for an id, in the order of *)
(* its VALUES list: accepted lines first.  The first one is inserted,      *)
(* unless the id has a row already (ON CONFLICT DO NOTHING).               *)
First(S) == CHOOSE n \in S : \A m \in S : n <= m

WithId(S, x) == {n \in S : file[n].id = x}

Offered(S, F, x) ==
  IF WithId(S, x) # {} THEN [status |-> "PENDING", line |-> First(WithId(S, x))]
  ELSE IF WithId(F, x) # {} THEN [status |-> "FAILED", line |-> First(WithId(F, x))]
  ELSE Absent

Upsert(S, F) ==  \* mutant: ON CONFLICT DO UPDATE
  table' = [x \in Id |-> IF Offered(S, F, x) # Absent THEN Offered(S, F, x)
                         ELSE table[x]]

BulkInsert(S, F) ==
  table' = [x \in Id |-> IF table[x] # Absent THEN table[x]
                         ELSE Offered(S, F, x)]

FlushDue(p) ==
  \/ Buffered(p) >= InsertBatch
  \/ at[p] = Lines /\ Buffered(p) > 0

(* flush: the buffer is full, or the file has ended.                       *)
Flush(p) ==
  /\ pass[p] = "reading"
  /\ FlushDue(p)
  /\ BulkInsert(items[p], failed[p])
  /\ items' = [items EXCEPT ![p] = {}]
  /\ failed' = [failed EXCEPT ![p] = {}]
  /\ UNCHANGED <<given, pass, total, at, seen>>

SetTotal(p) ==
  /\ pass[p] = "reading"
  /\ at[p] = Lines
  /\ Buffered(p) = 0
  /\ total' = at[p]
  /\ pass' = [pass EXCEPT ![p] = "done"]
  /\ UNCHANGED <<given, table, locals>>

(* An unreadable file, a database error or the process's death ends the    *)
(* pass; the insert or the update it was waiting for may still commit.     *)
Stops(p) ==
  /\ pass[p] = "reading"
  /\ pass' = [pass EXCEPT ![p] = "stopped"]
  /\ \/ UNCHANGED <<table, total>>
     \/ FlushDue(p) /\ BulkInsert(items[p], failed[p]) /\ UNCHANGED total
     \/ /\ at[p] = Lines /\ Buffered(p) = 0
        /\ total' = at[p]
        /\ UNCHANGED table
  /\ UNCHANGED <<given, locals>>

Next ==
  \E p \in Pass : Begin(p) \/ ReadLine(p) \/ Flush(p) \/ SetTotal(p) \/ Stops(p)

Spec == Init /\ [][Next]_vars

----------------------------------------------------------------------------
(* What the table must hold, said without passes, buffers or seen_ids.     *)

(* The pipeline accepts the first well-formed line of an id, if it is      *)
(* valid; without UniqueExternalId it accepts every valid line.            *)
AcceptedLine(n) ==
  /\ file[n].kind = "valid"
  /\ unique =>
       \A m \in 1 .. n - 1 : file[m].id = file[n].id => file[m].kind = "malformed"

BatchOf(n) == (n - 1) \div InsertBatch

(* An id's row comes from the first batch the id occurs in: its accepted   *)
(* line if that batch has one, else its first line.                        *)
Expected(x) ==
  LET all == WithId(1 .. Lines, x)
      batch == {n \in all : \A m \in all : BatchOf(n) <= BatchOf(m)}
      good == {n \in batch : AcceptedLine(n)}
  IN IF all = {} THEN Absent
     ELSE IF good # {} THEN [status |-> "PENDING", line |-> First(good)]
     ELSE [status |-> "FAILED", line |-> First(batch)]

(* Ingestion is idempotent: whichever passes ran, one after the other or   *)
(* interleaved, and wherever they stopped, the row of an id is the one     *)
(* that a single undisturbed pass inserts, and after any pass that ended   *)
(* the table is complete and total_items is the file's length.             *)
TableIsImageOfFile ==
  /\ \A x \in Id : table[x] \in {Absent, Expected(x)}
  /\ (\E p \in Pass : pass[p] = "done") =>
       total = Lines /\ \A x \in Id : table[x] = Expected(x)
=============================================================================
