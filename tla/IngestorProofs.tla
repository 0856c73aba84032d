--------------------------- MODULE IngestorProofs ---------------------------
(***************************************************************************)
(* For every file, batch size and number of passes: ingestion is           *)
(* idempotent.  A pass's buffers, its seen_ids and what it has flushed are *)
(* functions of how far it has read, and batches begin at the same lines   *)
(* in every pass; so two passes can only offer an id the same row, and the *)
(* first to come decides nothing.                                          *)
(***************************************************************************)
EXTENDS Ingestor, FiniteSetTheorems, WellFoundedInduction, TLAPS

(* A nonempty set of lines has a first one.                                *)
LEMMA FirstIsLowest ==
  ASSUME NEW S \in SUBSET Nat, S # {}
  PROVE  First(S) \in S /\ \A m \in S : First(S) <= m
<1>1. PICK n \in S : \A m \in S : ~ (<<m, n>> \in OpToRel(<, Nat))
  BY NatLessThanWellFounded, WFMin, Zenon
<1>2. ASSUME NEW m \in S PROVE n <= m
  <2>1. <<m, n>> \in Nat \X Nat /\ ~ (<<m, n>> \in OpToRel(<, Nat))
    BY <1>1, Zenon
  <2> QED
    BY <2>1 DEF OpToRel
<1> QED
  BY <1>2, Zenon DEF First

(* A pass flushes after every InsertBatch lines: batch k has the lines     *)
(* from k * InsertBatch + 1 on.                                            *)
LEMMA BatchUnique ==
  ASSUME NEW n \in Nat \ {0}, NEW k \in Nat,
         k * InsertBatch < n, n <= k * InsertBatch + InsertBatch
  PROVE  BatchOf(n) = k
<1> DEFINE q == BatchOf(n)
<1>1. /\ q \in Nat
      /\ q * InsertBatch <= n - 1
      /\ n - 1 < q * InsertBatch + InsertBatch
  BY IngestorAssumption DEF BatchOf
<1> HIDE DEF q
<1>2. \A a, b \in Nat : a < b => a * InsertBatch + InsertBatch <= b * InsertBatch
  BY IngestorAssumption
<1>3. ~ (q < k) /\ ~ (k < q)
  BY <1>1, <1>2, IngestorAssumption
<1> QED
  BY <1>1, <1>3 DEF q

----------------------------------------------------------------------------
(* How a pass stands: the lines up to Flushed(p) are inserted, the others  *)
(* it has read are in its buffers.                                         *)
Buffer(p) == items[p] \cup failed[p]
Flushed(p) == at[p] - Buffered(p)

WholeBatches(n) == n = Lines \/ \E k \in Nat : n = k * InsertBatch

Types ==
  /\ file \in [1 .. Lines -> [id : Id, kind : Kind]]
  /\ unique \in BOOLEAN
  /\ table \in [Id -> RowImage \cup {Absent}]
  /\ pass \in [Pass -> {"idle", "reading", "done", "stopped"}]
  /\ total \in 0 .. Lines
  /\ at \in [Pass -> 0 .. Lines]
  /\ seen \in [Pass -> SUBSET Id]
  /\ items \in [Pass -> SUBSET (1 .. Lines)]
  /\ failed \in [Pass -> SUBSET (1 .. Lines)]

(* The buffers are the lines read since the last flush, each where the     *)
(* rules put it; flushes end at the same lines in every pass; and seen_ids *)
(* has the ids of the well-formed lines read, if it is in use.             *)
SeenAt(n) ==
  {x \in Id : unique /\ \E m \in 1 .. n : file[m].id = x /\ file[m].kind # "malformed"}

Scanned(p) ==
  /\ Flushed(p) \in Nat
  /\ Buffered(p) \in 0 .. InsertBatch
  /\ WholeBatches(Flushed(p))
  /\ Buffer(p) = Flushed(p) + 1 .. at[p]
  /\ items[p] = {n \in Buffer(p) : AcceptedLine(n)}
  /\ failed[p] = {n \in Buffer(p) : ~AcceptedLine(n)}
  /\ seen[p] = SeenAt(at[p])

(* Every flushed line's id has its row, and it is the one it should be.    *)
TableIsExpected ==
  /\ \A x \in Id : table[x] \in {Absent, Expected(x)}
  /\ \A p \in Pass : \A n \in 1 .. Flushed(p) : table[file[n].id] # Absent

DoneAtEnd ==
  /\ \A p \in Pass : pass[p] = "done" =>
       at[p] = Lines /\ Buffered(p) = 0 /\ total = Lines
  /\ total \in {0, Lines}

ScanInv ==
  /\ Types
  /\ \A p \in Pass : Scanned(p)
  /\ TableIsExpected
  /\ DoneAtEnd

----------------------------------------------------------------------------
LEMMA BuffersFinite ==
  ASSUME Types, NEW p \in Pass
  PROVE  IsFiniteSet(items[p]) /\ IsFiniteSet(failed[p])
<1>1. IsFiniteSet(1 .. Lines)
  BY IngestorAssumption, FS_Interval
<1>2. items[p] \in SUBSET (1 .. Lines) /\ failed[p] \in SUBSET (1 .. Lines)
  BY DEF Types
<1> QED
  BY <1>1, <1>2, FS_Subset

LEMMA BufferedCounts ==
  ASSUME Types, NEW p \in Pass
  PROVE  /\ Buffered(p) \in Nat
         /\ Buffered(p) = 0 => Buffer(p) = {}
         /\ Cardinality(Buffer(p)) <= Buffered(p)
<1>1. Cardinality(items[p]) \in Nat /\ Cardinality(failed[p]) \in Nat
  BY BuffersFinite, FS_CardinalityType
<1>2. Cardinality(items[p]) = 0 => items[p] = {}
  BY BuffersFinite, FS_EmptySet
<1>3. Cardinality(failed[p]) = 0 => failed[p] = {}
  BY BuffersFinite, FS_EmptySet
<1>4. Cardinality(Buffer(p)) = Cardinality(items[p]) + Cardinality(failed[p])
                                 - Cardinality(items[p] \cap failed[p])
  BY BuffersFinite, FS_Union DEF Buffer
<1>5. Cardinality(items[p] \cap failed[p]) \in Nat
  BY BuffersFinite, FS_Intersection, FS_CardinalityType
<1> QED
  BY <1>1, <1>2, <1>3, <1>4, <1>5 DEF Buffered, Buffer

(* The rules, given what the pass has seen, accept the lines that          *)
(* AcceptedLine accepts without a pass.                                    *)
LEMMA RulesAccept ==
  ASSUME Types, NEW p \in Pass, Scanned(p), at[p] < Lines
  PROVE  /\ Accepts(p, at[p] + 1) <=> AcceptedLine(at[p] + 1)
         /\ SeenAfter(p, at[p] + 1) = SeenAt(at[p] + 1)
<1> DEFINE n == at[p] + 1
<1>1. at[p] \in Nat /\ n \in 1 .. Lines /\ 1 .. n - 1 = 1 .. at[p]
      /\ 1 .. n = (1 .. at[p]) \cup {n}
  BY IngestorAssumption DEF Types
<1>2. file[n].id \in Id
  BY <1>1 DEF Types
<1>3. seen[p] = SeenAt(at[p])
  BY DEF Scanned
<1> HIDE DEF n
<1>4. Accepts(p, n) <=> AcceptedLine(n)
  BY <1>1, <1>2, <1>3 DEF Accepts, AcceptedLine, SeenAt, Types
<1>5. SeenAfter(p, n) = SeenAt(n)
  BY <1>1, <1>2, <1>3 DEF SeenAfter, SeenAt, Types
<1> QED
  BY <1>4, <1>5 DEF n

(* A line more in the buffers, where it belongs.                           *)
LEMMA ReadScans ==
  ASSUME Types, NEW p \in Pass, Scanned(p), ReadLine(p)
  PROVE  Scanned(p)' /\ Flushed(p)' = Flushed(p)
<1>0. at[p] \in Nat /\ at[p] + 1 \in 1 .. Lines
  BY IngestorAssumption DEF Types, ReadLine
<1> PICK n \in 1 .. Lines : n = at[p] + 1
  BY <1>0
<1>1. at[p] \in Nat /\ n \in Nat /\ n = at[p] + 1 /\ n = at'[p]
  BY <1>0, IngestorAssumption DEF Types, ReadLine
<1>2. UNCHANGED <<file, unique>>
  BY DEF ReadLine, given
<1>3. /\ items'[p] = items[p] \cup {m \in {n} : AcceptedLine(m)}
      /\ failed'[p] = failed[p] \cup {m \in {n} : ~AcceptedLine(m)}
      /\ seen'[p] = SeenAt(n)
  BY <1>1, RulesAccept DEF ReadLine, Types
<1>4. n \notin items[p] /\ n \notin failed[p]
  BY <1>1 DEF Scanned, Buffer
<1>5. Buffered(p)' = Buffered(p) + 1
  <2>1. CASE AcceptedLine(n)
    <3>1. items'[p] = items[p] \cup {n} /\ failed'[p] = failed[p]
      BY <1>3, <2>1
    <3>2. Cardinality(items[p] \cup {n}) = Cardinality(items[p]) + 1
      BY <1>4, BuffersFinite, FS_AddElement
    <3> QED
      BY <3>1, <3>2, BuffersFinite, FS_CardinalityType DEF Buffered
  <2>2. CASE ~AcceptedLine(n)
    <3>1. failed'[p] = failed[p] \cup {n} /\ items'[p] = items[p]
      BY <1>3, <2>2
    <3>2. Cardinality(failed[p] \cup {n}) = Cardinality(failed[p]) + 1
      BY <1>4, BuffersFinite, FS_AddElement
    <3> QED
      BY <3>1, <3>2, BuffersFinite, FS_CardinalityType DEF Buffered
  <2> QED
    BY <2>1, <2>2
<1>6. Buffered(p) \in Nat /\ Buffered(p) < InsertBatch
  BY BufferedCounts DEF ReadLine
<1>7. Flushed(p)' = Flushed(p)
  BY <1>1, <1>5, <1>6 DEF Flushed
<1>8. Buffer(p)' = Buffer(p) \cup {n} /\ Buffer(p)' = Flushed(p) + 1 .. n
  <2>1. Buffer(p)' = Buffer(p) \cup {n}
    BY <1>3 DEF Buffer
  <2>2. Buffer(p) = Flushed(p) + 1 .. at[p] /\ Flushed(p) \in Nat /\ Flushed(p) <= at[p]
    BY <1>1, <1>6 DEF Scanned, Flushed
  <2> QED
    BY <1>1, <2>1, <2>2
<1>9. items[p] = {m \in Buffer(p) : AcceptedLine(m)}
      /\ failed[p] = {m \in Buffer(p) : ~AcceptedLine(m)}
  BY DEF Scanned
<1>10. items'[p] = {m \in Buffer(p)' : AcceptedLine(m)}
       /\ failed'[p] = {m \in Buffer(p)' : ~AcceptedLine(m)}
  BY <1>3, <1>8, <1>9
<1>11. \A m : AcceptedLine(m)' <=> AcceptedLine(m)
  BY <1>2 DEF AcceptedLine
<1>12. SeenAt(n)' = SeenAt(n)
  BY <1>2 DEF SeenAt
<1> QED
  BY <1>1, <1>3, <1>5, <1>6, <1>7, <1>8, <1>10, <1>11, <1>12, IngestorAssumption
  DEF Scanned, WholeBatches, SeenAt

----------------------------------------------------------------------------
(* When a flush is due, it ends at the end of a batch, and the buffers are *)
(* the lines of that batch.                                                *)
LEMMA FlushEndsBatch ==
  ASSUME Types, NEW p \in Pass, Scanned(p), FlushDue(p)
  PROVE  WholeBatches(at[p])
<1>1. at[p] \in 0 .. Lines /\ Flushed(p) \in Nat /\ Buffered(p) \in Nat
      /\ at[p] = Flushed(p) + Buffered(p)
  BY BufferedCounts, IngestorAssumption DEF Types, Scanned, Flushed
<1>2. CASE at[p] = Lines
  BY <1>2 DEF WholeBatches
<1>3. CASE at[p] # Lines
  <2>1. Buffered(p) = InsertBatch /\ Flushed(p) # Lines
    BY <1>1, <1>3, IngestorAssumption DEF FlushDue, Scanned
  <2>2. PICK k \in Nat : Flushed(p) = k * InsertBatch
    BY <2>1 DEF Scanned, WholeBatches
  <2>3. at[p] = (k + 1) * InsertBatch
    BY <1>1, <2>1, <2>2, IngestorAssumption
  <2> QED
    BY <2>3 DEF WholeBatches
<1> QED
  BY <1>2, <1>3

LEMMA BufferIsBatch ==
  ASSUME Types, NEW p \in Pass, Scanned(p), FlushDue(p),
         NEW n \in Buffer(p), NEW m \in 1 .. Lines, m > Flushed(p)
  PROVE  /\ n \in 1 .. Lines
         /\ BatchOf(n) \in Nat /\ BatchOf(m) \in Nat
         /\ BatchOf(n) <= BatchOf(m)
         /\ BatchOf(m) = BatchOf(n) <=> m \in Buffer(p)
<1>1. /\ at[p] \in 0 .. Lines /\ Flushed(p) \in Nat /\ Buffered(p) \in 0 .. InsertBatch
      /\ at[p] = Flushed(p) + Buffered(p)
      /\ Buffer(p) = Flushed(p) + 1 .. at[p]
  BY BufferedCounts, IngestorAssumption DEF Types, Scanned, Flushed
<1>2. n \in 1 .. Lines /\ Flushed(p) < Lines
  BY <1>1, IngestorAssumption
<1>3. PICK k \in Nat : Flushed(p) = k * InsertBatch
  BY <1>2, IngestorAssumption DEF Scanned, WholeBatches
<1>4. \A j \in Buffer(p) : BatchOf(j) = k
  BY <1>1, <1>3, BatchUnique, IngestorAssumption
<1>5. ASSUME m \notin Buffer(p) PROVE BatchOf(m) \in Nat /\ BatchOf(m) > k
  <2>1. m > at[p] /\ Buffered(p) = InsertBatch
    BY <1>1, <1>5, IngestorAssumption DEF FlushDue
  <2>2. m > (k + 1) * InsertBatch
    BY <1>1, <1>3, <2>1, IngestorAssumption
  <2>3. \A q \in Nat : q <= k => q * InsertBatch + InsertBatch <= (k + 1) * InsertBatch
    BY IngestorAssumption
  <2>4. BatchOf(m) \in Nat /\ m - 1 < BatchOf(m) * InsertBatch + InsertBatch
    BY IngestorAssumption DEF BatchOf
  <2> QED
    BY <2>2, <2>3, <2>4, IngestorAssumption
<1> QED
  BY <1>2, <1>4, <1>5

(* What the buffers have for an id that has no row is the row it should    *)
(* have: the batch is the first one the id occurs in.                      *)
LEMMA OfferIsExpected ==
  ASSUME Types, NEW p \in Pass, Scanned(p), FlushDue(p), NEW x \in Id,
         \A n \in 1 .. Flushed(p) : file[n].id # x
  PROVE  LET o == Offered(items[p], failed[p], x)
         IN  /\ o \in RowImage \cup {Absent}
             /\ o \in {Absent, Expected(x)}
             /\ WithId(Buffer(p), x) # {} => o # Absent
<1> DEFINE all == WithId(1 .. Lines, x)
           batch == {n \in all : \A m \in all : BatchOf(n) <= BatchOf(m)}
           good == {n \in batch : AcceptedLine(n)}
           mine == WithId(Buffer(p), x)
<1>1. mine \subseteq 1 .. Lines /\ mine \subseteq all
  BY DEF Buffer, Types, WithId
<1>2. \A m \in all : m > Flushed(p)
  BY IngestorAssumption DEF WithId, Scanned
<1>3. mine # {} => batch = mine
  BY <1>1, <1>2, BufferIsBatch DEF WithId
<1>4. /\ WithId(items[p], x) = {n \in mine : AcceptedLine(n)}
      /\ WithId(failed[p], x) = {n \in mine : ~AcceptedLine(n)}
  BY DEF Scanned, WithId
<1>5. CASE mine = {}
  BY <1>4, <1>5 DEF Offered
<1>6. CASE mine # {}
  <2>1. Expected(x) = IF good # {} THEN [status |-> "PENDING", line |-> First(good)]
                      ELSE [status |-> "FAILED", line |-> First(batch)]
    BY <1>1, <1>6 DEF Expected
  <2>2. WithId(items[p], x) = good
    BY <1>3, <1>4, <1>6
  <2>3. good = {} => WithId(failed[p], x) = batch
    BY <1>3, <1>4, <1>6
  <2>a. good \subseteq 1 .. Lines /\ good \in SUBSET Nat
    BY <1>1, <1>3, <1>6
  <2>4. good # {} => First(good) \in 1 .. Lines
    <3> HIDE DEF good
    <3> QED
      BY <2>a, FirstIsLowest
  <2>5. First(batch) \in 1 .. Lines
    BY <1>1, <1>3, <1>6, FirstIsLowest
  <2>6. batch # {}
    BY <1>3, <1>6
  <2> HIDE DEF all, batch, good, mine
  <2>7. Offered(items[p], failed[p], x) = Expected(x)
    BY <2>1, <2>2, <2>3, <2>6 DEF Offered
  <2>8. Expected(x) \in RowImage
    BY <2>1, <2>4, <2>5 DEF RowImage
  <2>9. Expected(x) # Absent
    BY <2>8, IngestorAssumption DEF RowImage
  <2> QED
    BY <2>7, <2>8, <2>9
<1> QED
  BY <1>5, <1>6

(* An insert leaves the rows that exist and gives the others what they     *)
(* should be; and then every line the pass has read has its row.           *)
LEMMA InsertKeepsTable ==
  ASSUME ScanInv, NEW p \in Pass, FlushDue(p), BulkInsert(items[p], failed[p])
  PROVE  /\ table' \in [Id -> RowImage \cup {Absent}]
         /\ \A x \in Id : table'[x] \in {Absent, Expected(x)}
         /\ \A x \in Id : table[x] # Absent => table'[x] = table[x]
         /\ \A n \in 1 .. at[p] : table'[file[n].id] # Absent
<1>1. Types /\ Scanned(p) /\ TableIsExpected
  BY DEF ScanInv
<1>2. \A x \in Id : table'[x] = IF table[x] # Absent THEN table[x]
                                ELSE Offered(items[p], failed[p], x)
  BY DEF BulkInsert
<1>3. \A n \in 1 .. Flushed(p) : n \in 1 .. Lines /\ file[n].id \in Id
  BY <1>1, BufferedCounts, IngestorAssumption DEF Types, Flushed, Scanned
<1>4. ASSUME NEW x \in Id, table[x] = Absent
      PROVE  \A n \in 1 .. Flushed(p) : file[n].id # x
  BY <1>1, <1>4 DEF TableIsExpected
<1>5. ASSUME NEW x \in Id
      PROVE  /\ table'[x] \in RowImage \cup {Absent}
             /\ table'[x] \in {Absent, Expected(x)}
             /\ WithId(Buffer(p), x) # {} => table'[x] # Absent
  <2>1. CASE table[x] # Absent
    BY <1>1, <1>2, <2>1 DEF Types, TableIsExpected
  <2>2. CASE table[x] = Absent
    BY <1>1, <1>2, <1>4, <2>2, OfferIsExpected
  <2> QED
    BY <2>1, <2>2
<1>6. ASSUME NEW n \in 1 .. at[p] PROVE table'[file[n].id] # Absent
  <2>1. n \in 1 .. Lines /\ file[n].id \in Id
    BY <1>1, IngestorAssumption DEF Types
  <2>2. CASE n \in 1 .. Flushed(p)
    BY <1>1, <1>2, <2>1, <2>2 DEF TableIsExpected
  <2>3. CASE n \notin 1 .. Flushed(p)
    <3>1. n \in Buffer(p)
      BY <1>1, <2>3, IngestorAssumption DEF Scanned, Types
    <3> QED
      BY <1>5, <2>1, <3>1 DEF WithId
  <2> QED
    BY <2>2, <2>3
<1> QED
  BY <1>2, <1>5, <1>6 DEF BulkInsert

----------------------------------------------------------------------------
(* Nothing of this depends on anything but the file and the setting.       *)
LEMMA ExpectedStays ==
  ASSUME UNCHANGED given
  PROVE  /\ \A n : AcceptedLine(n)' <=> AcceptedLine(n)
         /\ \A n : SeenAt(n)' = SeenAt(n)
         /\ \A x : Expected(x)' = Expected(x)
<1>1. file' = file /\ unique' = unique
  BY DEF given
<1>2. \A n : AcceptedLine(n)' <=> AcceptedLine(n)
  BY <1>1 DEF AcceptedLine
<1>3. \A n : SeenAt(n)' = SeenAt(n)
  BY <1>1 DEF SeenAt
<1>4. \A S, x : WithId(S, x)' = WithId(S, x)
  BY <1>1 DEF WithId
<1>5. ASSUME NEW x PROVE Expected(x)' = Expected(x)
  BY <1>2, <1>4 DEF Expected
<1> QED
  BY <1>2, <1>3, <1>5

(* A pass whose locals a step leaves alone.                                *)
Idle(q) ==
  /\ at'[q] = at[q] /\ items'[q] = items[q]
  /\ failed'[q] = failed[q] /\ seen'[q] = seen[q]

LEMMA OthersScanned ==
  ASSUME NEW q \in Pass, Scanned(q), UNCHANGED given, Idle(q)
  PROVE  Scanned(q)' /\ Flushed(q)' = Flushed(q) /\ Buffered(q)' = Buffered(q)
<1>1. Buffered(q)' = Buffered(q) /\ Buffer(q)' = Buffer(q)
  BY DEF Buffered, Buffer, Idle
<1>2. Flushed(q)' = Flushed(q)
  BY <1>1 DEF Flushed, Idle
<1> QED
  BY <1>1, <1>2, ExpectedStays DEF Scanned, WholeBatches, Idle

LEMMA FlushScans ==
  ASSUME Types, NEW p \in Pass, Scanned(p), Flush(p)
  PROVE  Scanned(p)' /\ Flushed(p)' = at[p]
<1>1. items'[p] = {} /\ failed'[p] = {} /\ at'[p] = at[p] /\ seen'[p] = seen[p]
  BY DEF Flush, Types
<1>2. Buffered(p)' = 0 /\ Buffer(p)' = {}
  BY <1>1, FS_EmptySet DEF Buffered, Buffer
<1>3. at[p] \in Nat /\ Flushed(p)' = at[p]
  BY <1>1, <1>2, IngestorAssumption DEF Flushed, Types
<1>4. WholeBatches(at[p])
  BY FlushEndsBatch DEF Flush
<1> QED
  BY <1>1, <1>2, <1>3, <1>4, ExpectedStays, IngestorAssumption
  DEF Scanned, WholeBatches, Flush

(* The table follows, if rows only appear, as they should be, and the new  *)
(* lines that a pass has flushed have theirs.                              *)
LEMMA TableFollows ==
  ASSUME TableIsExpected, UNCHANGED given,
         \A x \in Id : table'[x] \in {Absent, Expected(x)},
         \A x \in Id : table[x] # Absent => table'[x] = table[x],
         \A q \in Pass : \A n \in 1 .. Flushed(q)' :
           /\ file[n].id \in Id
           /\ n \in 1 .. Flushed(q) \/ table'[file[n].id] # Absent
  PROVE  TableIsExpected'
<1>1. file' = file
  BY DEF given
<1> QED
  BY <1>1, ExpectedStays DEF TableIsExpected

LEMMA FlushedIds ==
  ASSUME Types, NEW q \in Pass, NEW n \in 1 .. at[q]
  PROVE  file[n].id \in Id
<1>1. n \in 1 .. Lines
  BY IngestorAssumption DEF Types
<1> QED
  BY <1>1 DEF Types

LEMMA FlushedIsRead ==
  ASSUME Types, NEW q \in Pass, Scanned(q)
  PROVE  Flushed(q) \in Nat /\ at[q] \in 0 .. Lines /\ 1 .. Flushed(q) \subseteq 1 .. at[q]
  BY BufferedCounts, IngestorAssumption DEF Types, Scanned, Flushed

(* Each action.                                                            *)
LEMMA ReadStep ==
  ASSUME ScanInv, NEW p \in Pass, ReadLine(p)
  PROVE  ScanInv'
<1>1. UNCHANGED <<given, table, pass, total>> /\ Types /\ Scanned(p)
  BY DEF ReadLine, ScanInv
<1>2. \A q \in Pass \ {p} : Idle(q)
  BY <1>1 DEF ReadLine, Idle, Types
<1>3. \A q \in Pass : Scanned(q)' /\ Flushed(q)' = Flushed(q)
  BY <1>1, <1>2, ReadScans, OthersScanned DEF ScanInv
<1>4. Types'
  <2>1. at[p] + 1 \in 1 .. Lines /\ at[p] + 1 \in 0 .. Lines
    BY <1>1, IngestorAssumption DEF Types, ReadLine
  <2>2. SeenAfter(p, at[p] + 1) \in SUBSET Id
    BY <1>1, <2>1 DEF SeenAfter, Types
  <2> QED
    BY <1>1, <2>1, <2>2 DEF Types, ReadLine, given
<1>5. TableIsExpected'
  BY <1>1, <1>3, ExpectedStays DEF TableIsExpected, ScanInv, given
<1>6. DoneAtEnd'
  <2>1. \A q \in Pass : pass'[q] = "done" => Buffered(q)' = Buffered(q) /\ at'[q] = at[q]
    BY <1>1, <1>2, OthersScanned DEF ReadLine, ScanInv, Idle
  <2> QED
    BY <1>1, <2>1 DEF DoneAtEnd, ScanInv
<1> QED
  BY <1>3, <1>4, <1>5, <1>6 DEF ScanInv

LEMMA FlushStep ==
  ASSUME ScanInv, NEW p \in Pass, Flush(p)
  PROVE  ScanInv'
<1>1. UNCHANGED <<given, pass, total, at, seen>> /\ Types /\ Scanned(p)
  BY DEF Flush, ScanInv
<1>2. \A q \in Pass \ {p} : Idle(q)
  BY <1>1 DEF Flush, Idle, Types
<1>3. /\ \A q \in Pass \ {p} : Scanned(q)' /\ Flushed(q)' = Flushed(q)
      /\ Scanned(p)' /\ Flushed(p)' = at[p]
  BY <1>1, <1>2, FlushScans, OthersScanned DEF ScanInv
<1>4. /\ table' \in [Id -> RowImage \cup {Absent}]
      /\ \A x \in Id : table'[x] \in {Absent, Expected(x)}
      /\ \A x \in Id : table[x] # Absent => table'[x] = table[x]
      /\ \A n \in 1 .. at[p] : table'[file[n].id] # Absent
  BY InsertKeepsTable DEF Flush
<1>5. Types'
  BY <1>1, <1>4 DEF Types, Flush, given
<1>6. TableIsExpected'
  <2>1. \A q \in Pass : 1 .. Flushed(q) \subseteq 1 .. at[q]
    BY <1>1, FlushedIsRead DEF ScanInv
  <2> QED
    BY <1>1, <1>3, <1>4, <2>1, TableFollows, FlushedIds DEF ScanInv
<1>7. DoneAtEnd'
  <2>1. \A q \in Pass : pass'[q] = "done" => Buffered(q)' = Buffered(q)
    BY <1>1, <1>2, OthersScanned DEF Flush, ScanInv
  <2> QED
    BY <1>1, <2>1 DEF DoneAtEnd, ScanInv
<1> QED
  BY <1>3, <1>5, <1>6, <1>7 DEF ScanInv

LEMMA EndStep ==
  ASSUME ScanInv, NEW p \in Pass, Begin(p) \/ SetTotal(p) \/ Stops(p)
  PROVE  ScanInv'
<1>1. UNCHANGED <<given, locals>> /\ Types
  BY DEF Begin, SetTotal, Stops, ScanInv
<1>2. \A q \in Pass : Idle(q)
  BY <1>1 DEF locals, Idle
<1>3. \A q \in Pass : Scanned(q)' /\ Flushed(q)' = Flushed(q) /\ Buffered(q)' = Buffered(q)
  BY <1>1, <1>2, OthersScanned DEF ScanInv
<1>4. /\ table' \in [Id -> RowImage \cup {Absent}]
      /\ \A x \in Id : table'[x] \in {Absent, Expected(x)}
      /\ \A x \in Id : table[x] # Absent => table'[x] = table[x]
  <2>1. CASE UNCHANGED table
    BY <1>1, <2>1 DEF Types, ScanInv, TableIsExpected
  <2>2. CASE FlushDue(p) /\ BulkInsert(items[p], failed[p])
    BY <2>2, InsertKeepsTable
  <2> QED
    BY <2>1, <2>2 DEF Begin, SetTotal, Stops
<1>5. TableIsExpected'
  <2>1. \A q \in Pass : 1 .. Flushed(q) \subseteq 1 .. at[q]
    BY <1>1, FlushedIsRead DEF ScanInv
  <2> QED
    BY <1>1, <1>3, <1>4, <2>1, TableFollows, FlushedIds DEF ScanInv
<1>6. total' \in {total, Lines} /\ Lines \in 0 .. Lines
  BY IngestorAssumption DEF Begin, SetTotal, Stops
<1>7. Types'
  BY <1>1, <1>4, <1>6 DEF Types, Begin, SetTotal, Stops, given, locals
<1>8. DoneAtEnd'
  <2>1. ASSUME NEW q \in Pass, pass'[q] = "done"
        PROVE  at[q] = Lines /\ Buffered(q) = 0 /\ total' = Lines
    BY <1>1, <1>6, <2>1 DEF Begin, SetTotal, Stops, Types, DoneAtEnd, ScanInv
  <2> QED
    BY <1>1, <1>3, <1>6, <2>1 DEF DoneAtEnd, ScanInv, locals
<1> QED
  BY <1>3, <1>5, <1>7, <1>8 DEF ScanInv

----------------------------------------------------------------------------
LEMMA ScanInit == Init => ScanInv
<1> SUFFICES ASSUME Init PROVE ScanInv
  OBVIOUS
<1>1. Types
  BY IngestorAssumption DEF Init, Types
<1>2. ASSUME NEW p \in Pass PROVE Scanned(p) /\ Flushed(p) = 0 /\ Buffered(p) = 0
  <2>1. Buffered(p) = 0 /\ Buffer(p) = {} /\ at[p] = 0
    BY FS_EmptySet DEF Init, Buffered, Buffer
  <2>2. Flushed(p) = 0
    BY <2>1 DEF Flushed
  <2>3. WholeBatches(0)
    BY IngestorAssumption DEF WholeBatches
  <2>4. SeenAt(0) = {}
    BY DEF SeenAt
  <2> QED
    BY <2>1, <2>2, <2>3, <2>4, IngestorAssumption DEF Init, Scanned
<1>3. TableIsExpected
  BY <1>2 DEF Init, TableIsExpected
<1> QED
  BY <1>1, <1>2, <1>3 DEF Init, DoneAtEnd, ScanInv

(* How far each pass has read determines its buffers and its seen_ids; the *)
(* table has the expected row of every line any pass has flushed.          *)
THEOREM ScanInvariant == Spec => []ScanInv
<1>1. ScanInv /\ [Next]_vars => ScanInv'
  <2> SUFFICES ASSUME ScanInv, [Next]_vars PROVE ScanInv'
    OBVIOUS
  <2>1. CASE UNCHANGED vars
    <3>1. UNCHANGED <<given, table, pass, total, locals>> /\ \A q \in Pass : Idle(q)
      BY <2>1 DEF vars, locals, Idle
    <3>2. \A q \in Pass : Scanned(q)' /\ Flushed(q)' = Flushed(q)
                          /\ Buffered(q)' = Buffered(q)
      BY <3>1, OthersScanned DEF ScanInv
    <3>3. Types' /\ DoneAtEnd'
      BY <3>1, <3>2 DEF ScanInv, Types, DoneAtEnd, given, locals
    <3>4. TableIsExpected'
      BY <3>1, <3>2, ExpectedStays DEF ScanInv, TableIsExpected, given
    <3> QED
      BY <3>2, <3>3, <3>4 DEF ScanInv
  <2> QED
    BY <2>1, ReadStep, FlushStep, EndStep DEF Next
<1> QED
  BY <1>1, ScanInit, PTL DEF Spec

(* The pass's variables keep their types: a batch never grows beyond       *)
(* InsertBatch lines.                                                      *)
THEOREM IngestTypeCorrect == Spec => []TypeOK
<1>1. ScanInv => TypeOK
  <2> SUFFICES ASSUME ScanInv PROVE TypeOK
    OBVIOUS
  <2>1. Types /\ \A p \in Pass : Scanned(p)
    BY DEF ScanInv
  <2>2. ASSUME NEW p \in Pass PROVE Cardinality(items[p] \cup failed[p]) <= InsertBatch
    <3>1. /\ Buffered(p) \in 0 .. InsertBatch
          /\ Cardinality(Buffer(p)) <= Buffered(p)
      BY <2>1, BufferedCounts DEF Scanned
    <3>2. Cardinality(Buffer(p)) \in Nat
      BY <2>1, BuffersFinite, FS_Union, FS_CardinalityType DEF Buffer
    <3> QED
      BY <3>1, <3>2, IngestorAssumption DEF Buffer
  <2> QED
    BY <2>1, <2>2 DEF TypeOK, Types
<1> QED
  BY <1>1, ScanInvariant, PTL

(* Ingestion is idempotent, for every file, batch size and number of       *)
(* passes, whether they run one after the other or at the same time and    *)
(* wherever they stop: the row of an id is the one a single undisturbed    *)
(* pass gives it, and once a pass has ended the table is complete.         *)
THEOREM IngestionIsIdempotent == Spec => []TableIsImageOfFile
<1>1. ScanInv => TableIsImageOfFile
  <2> SUFFICES ASSUME ScanInv PROVE TableIsImageOfFile
    OBVIOUS
  <2>1. \A x \in Id : table[x] \in {Absent, Expected(x)}
    BY DEF ScanInv, TableIsExpected
  <2>3. \A p \in Pass : pass[p] = "done" => total = Lines
    BY DEF ScanInv, DoneAtEnd
  <2>2. ASSUME NEW p \in Pass, pass[p] = "done", NEW x \in Id
        PROVE  table[x] = Expected(x)
    <3>1. Flushed(p) = Lines
      BY <2>2, IngestorAssumption DEF ScanInv, DoneAtEnd, Flushed
    <3>2. CASE WithId(1 .. Lines, x) = {}
      BY <2>1, <3>1, <3>2 DEF Expected
    <3>3. CASE WithId(1 .. Lines, x) # {}
      BY <2>1, <3>1, <3>3 DEF ScanInv, TableIsExpected, WithId
    <3> QED
      BY <3>2, <3>3
  <2> QED
    BY <2>1, <2>2, <2>3 DEF TableIsImageOfFile
<1> QED
  BY <1>1, ScanInvariant, PTL
=============================================================================
