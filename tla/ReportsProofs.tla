--------------------------- MODULE ReportsProofs ---------------------------
(***************************************************************************)
(* A client disturbs nothing: with its requests the system refines         *)
(* JobService, so that what is proved of jobs and of the engine holds; and *)
(* the progress that a client is told never goes back.                     *)
(***************************************************************************)
EXTENDS Reports, JobServiceProofs

LEMMA ReportsStepIsJobStep == [ReportsNext]_reportVars => [JobNext]_allVars
  BY DEF ReportsNext, JobStep, OpenFile, ClientStep, AskStatus, AnswerStatus,
    StatusFails, RequestDownload, ListFiles, ReadFile, ReadDamagedFile, EndDownload,
    DownloadFails, reportVars

(* Status requests and downloads, while result files are opened, finished  *)
(* or left torn: to the jobs they are nothing.                             *)
THEOREM ReportsRefineJobs == ReportsSpec => JobSpec
<1>1. ReportsInit => JobInit
  BY DEF ReportsInit
<1> QED
  BY <1>1, ReportsStepIsJobStep, PTL DEF ReportsSpec, JobSpec

LEMMA ReportsEngineInv == ReportsSpec => []EngineInv
<1>1. JobSpec => []EngineInv
  BY JobIsEngine, EngineInvariant DEF ImplementsEngine
<1> QED
  BY <1>1, ReportsRefineJobs, PTL

----------------------------------------------------------------------------
(* How many rows have a status is a number, and of settled rows there are  *)
(* never fewer.                                                            *)
LEMMA HavingIsNat == \A s : Having(s) \in Nat
<1>1. ASSUME NEW s PROVE Having(s) \in Nat
  <2>1. {i \in Item : status[i] = s} \subseteq Item
    OBVIOUS
  <2> QED
    BY <2>1, EngineAssumption, FS_Subset, FS_CardinalityType DEF Having
<1> QED
  BY <1>1

LEMMA SettledGrow ==
  ASSUME EngineInv, [Next]_vars, NEW s \in Q!Verdict
  PROVE  Having(s)' \in Nat /\ Having(s) <= Having(s)'
<1> DEFINE now == {i \in Item : status[i] = s}
           next == {i \in Item : status'[i] = s}
<1>1. now \subseteq next
  BY RowsStay
<1>2. IsFiniteSet(next)
  <2>1. next \subseteq Item
    OBVIOUS
  <2> QED
    BY <2>1, EngineAssumption, FS_Subset
<1>3. Cardinality(next) \in Nat /\ Cardinality(now) <= Cardinality(next)
  BY <1>1, <1>2, FS_Subset, FS_CardinalityType
<1> QED
  BY <1>3 DEF Having

(* What a client was told is not more than what is settled now, because    *)
(* the counts of an answer are read in its last statement.                 *)
ToldInv ==
  /\ query = [row |-> query.row, counts |-> Unread]
  /\ answer.succeeded \in Nat /\ answer.succeeded <= Having("SUCCEEDED")
  /\ answer.failed \in Nat /\ answer.failed <= Having("FAILED")

LEMMA AnswersCountNow ==
  ASSUME ToldInv, AnswerStatus
  PROVE  /\ answer'.succeeded = Having("SUCCEEDED")
         /\ answer'.failed = Having("FAILED")
<1>1. query.counts = Unread
  BY DEF ToldInv
<1>2. answer'.succeeded = Counts.succeeded /\ answer'.failed = Counts.failed
  BY <1>1 DEF AnswerStatus, JobStatus
<1> QED
  BY <1>2 DEF Counts

LEMMA ToldStep ==
  ASSUME EngineInv, JobTypeOK, ToldInv, [ReportsNext]_reportVars
  PROVE  ToldInv'
<1>1. CASE JobStep
  <2>1. UNCHANGED <<query, answer>>
    BY <1>1 DEF JobStep, clientVars
  <2>2. [Next]_vars
    BY <1>1, StepIsEngineStep DEF JobStep
  <2>3. \A s \in Q!Verdict : Having(s)' \in Nat /\ Having(s) <= Having(s)'
    BY <2>2, SettledGrow
  <2>4. /\ Having("SUCCEEDED")' \in Nat /\ Having("SUCCEEDED") <= Having("SUCCEEDED")'
        /\ Having("FAILED")' \in Nat /\ Having("FAILED") <= Having("FAILED")'
    BY <2>3 DEF Q!Verdict
  <2> QED
    BY <2>1, <2>4, HavingIsNat DEF ToldInv
<1>2. CASE AskStatus
  <2>1. query' = [row |-> JobRow, counts |-> Unread]
    BY <1>2 DEF AskStatus, NoQuery
  <2>2. UNCHANGED <<status, answer>>
    BY <1>2 DEF AskStatus, allVars, vars, tableVars
  <2> QED
    BY <2>1, <2>2 DEF ToldInv, Having
<1>3. CASE AnswerStatus
  <2>1. query' = NoQuery /\ UNCHANGED status
    BY <1>3 DEF AnswerStatus, allVars, vars, tableVars
  <2>2. Having("SUCCEEDED")' = Having("SUCCEEDED") /\ Having("FAILED")' = Having("FAILED")
    BY <2>1 DEF Having
  <2> QED
    BY <1>3, <2>1, <2>2, AnswersCountNow, HavingIsNat DEF ToldInv, NoQuery
<1>4. CASE StatusFails
  <2>1. query' = NoQuery /\ UNCHANGED <<status, answer>>
    BY <1>4 DEF StatusFails, allVars, vars, tableVars
  <2> QED
    BY <2>1 DEF ToldInv, NoQuery, Having
<1>5. CASE UNCHANGED <<status, query, answer>>
  BY <1>5 DEF ToldInv, Having
<1>6. CASE \E w \in Worker : OpenFile(w)
  BY <1>5, <1>6 DEF OpenFile, clientVars, allVars, vars, tableVars
<1>7. CASE \/ RequestDownload \/ ListFiles \/ ReadFile \/ ReadDamagedFile
           \/ EndDownload \/ DownloadFails
  BY <1>5, <1>7 DEF RequestDownload, ListFiles, ReadFile, ReadDamagedFile,
    EndDownload, DownloadFails, allVars, vars, tableVars
<1>8. CASE UNCHANGED reportVars
  BY <1>5, <1>8 DEF reportVars, clientVars, allVars, vars, tableVars
<1> QED
  BY <1>1, <1>2, <1>3, <1>4, <1>6, <1>7, <1>8 DEF ReportsNext, ClientStep

LEMMA ReportsJobTypes == ReportsSpec => []JobTypeOK
  BY ReportsRefineJobs, JobTypeCorrect, PTL

LEMMA ToldInvariant == ReportsSpec => []ToldInv
<1>1. ReportsInit => ToldInv
  BY HavingIsNat DEF ReportsInit, ToldInv, NoQuery, NotFound
<1>2. EngineInv /\ JobTypeOK /\ ToldInv /\ [ReportsNext]_reportVars => ToldInv'
  BY ToldStep
<1> QED
  BY <1>1, <1>2, ReportsEngineInv, ReportsJobTypes, PTL DEF ReportsSpec

(* However many rows are delivered again, settled late by two workers or   *)
(* read at two moments, a client that polls never sees a count of settled  *)
(* rows that is lower than in the answer before.                           *)
THEOREM ProgressIsMonotone == ReportsSpec => ProgressNeverBack
<1> DEFINE Forward == /\ answer'.succeeded >= answer.succeeded
                      /\ answer'.failed >= answer.failed
<1>1. ToldInv /\ [ReportsNext]_reportVars => [Forward]_answer
  <2> SUFFICES ASSUME ToldInv, [ReportsNext]_reportVars, answer' # answer
               PROVE  Forward
    OBVIOUS
  <2>1. AnswerStatus
    BY DEF ReportsNext, JobStep, OpenFile, ClientStep, AskStatus, StatusFails,
      RequestDownload, ListFiles, ReadFile, ReadDamagedFile, EndDownload,
      DownloadFails, reportVars, clientVars
  <2> QED
    BY <2>1, AnswersCountNow, HavingIsNat DEF ToldInv
<1> QED
  BY <1>1, ToldInvariant, PTL DEF ReportsSpec, ProgressNeverBack

----------------------------------------------------------------------------
(* What the client's theorems take from the engine and the jobs.           *)
SystemInv == EngineInv /\ JobTypeOK /\ NamesInv

LEMMA ReportsSystemInv == ReportsSpec => []SystemInv
<1>1. JobSpec => []NamesInv
  BY JobIsEngine, NamesInvariant, PTL DEF ImplementsEngine
<1>2. EngineInv /\ JobTypeOK /\ NamesInv => SystemInv
  BY DEF SystemInv
<1> QED
  BY <1>1, <1>2, ReportsEngineInv, ReportsJobTypes, ReportsRefineJobs, PTL

(* The files on disk: the ones being written or torn, each under a name of *)
(* its own.                                                                *)
FilesInv ==
  /\ \A f \in partial : f.ref \in Ref /\ f.recs \in [Item -> Q!Result \cup {NoResult}]
  /\ \A f, g \in partial : f.ref = g.ref => f = g
  /\ Names(partial) \cap Names(objects) = {}

LEMMA NewFile ==
  ASSUME SystemInv, JobStep
  PROVE  \/ objects' = objects
         \/ \E f \in partial :
              /\ objects' = objects \cup {f}
              /\ \A o \in objects : o.ref # f.ref
<1>1. [Next]_vars
  BY StepIsEngineStep DEF JobStep, SystemInv
<1>2. CASE objects' # objects
  <2>1. PICK w \in Worker :
          /\ pc[w] = "flush"
          /\ objects' = objects \cup {[ref |-> Name(w), recs |-> outcome[w]]}
    BY <1>1, <1>2, FilesGrow DEF SystemInv
  <2>2. PICK f : f = [ref |-> Name(w), recs |-> outcome[w]]
    OBVIOUS
  <2>3. \A o \in objects : o.ref # f.ref
    BY <2>1, <2>2 DEF SystemInv, NamesInv, FreshNames
  <2>4. f \in partial
    BY <2>1, <2>2, <2>3 DEF JobStep
  <2> QED
    BY <2>1, <2>2, <2>3, <2>4
<1> QED
  BY <1>2

(* A step of the job closes at most one file, and loses none.              *)
LEMMA FilesKept ==
  ASSUME SystemInv, JobStep
  PROVE  /\ objects \subseteq objects'
         /\ objects \cup partial \subseteq objects' \cup partial'
  BY NewFile DEF JobStep

LEMMA FilesStep ==
  ASSUME SystemInv, FilesInv, [ReportsNext]_reportVars
  PROVE  FilesInv'
<1> USE DEF FilesInv, Names
<1>1. CASE JobStep
  <2>1. partial' = partial \ objects'
    BY <1>1 DEF JobStep
  <2>2. CASE objects' = objects
    BY <2>1, <2>2
  <2>3. ASSUME NEW f \in partial, objects' = objects \cup {f} PROVE FilesInv'
    BY <2>1, <2>3
  <2> QED
    BY <1>1, <2>2, <2>3, NewFile
<1>2. ASSUME NEW w \in Worker, OpenFile(w) PROVE FilesInv'
  <2>1. PICK f : f = [ref |-> Name(w), recs |-> outcome[w]]
    OBVIOUS
  <2>2. f.ref = Name(w) /\ Name(w) \in Ref /\ f.recs \in [Item -> Q!Result \cup {NoResult}]
    BY <2>1 DEF SystemInv, EngineInv, TypeOK, Name, Ref
  <2>3. /\ partial' = partial \cup {f} /\ objects' = objects
        /\ \A g \in partial : g.ref # f.ref
    BY <1>2, <2>1 DEF OpenFile, allVars, vars
  <2>4. \A o \in objects : o.ref # f.ref
    BY <1>2, <2>2 DEF OpenFile, SystemInv, NamesInv, FreshNames
  <2> QED
    BY <2>2, <2>3, <2>4
<1>3. CASE ClientStep \/ UNCHANGED reportVars
  BY <1>3 DEF ClientStep, AskStatus, AnswerStatus, StatusFails, RequestDownload,
    ListFiles, ReadFile, ReadDamagedFile, EndDownload, DownloadFails, reportVars,
    allVars, vars
<1> QED
  BY <1>1, <1>2, <1>3 DEF ReportsNext

(* What the client has: answers within the file's size, and records.       *)
QueryOK ==
  \/ query = NoQuery
  \/ /\ query.counts = Unread
     /\ query.row # Unread
     /\ query.row.state \in JobState \ {"ABSENT"}
     /\ query.row.total \in 0 .. Cardinality(Item)

LEMMA HavingBound == \A s : Having(s) \in 0 .. Cardinality(Item)
<1>1. ASSUME NEW s PROVE Having(s) \in 0 .. Cardinality(Item)
  <2>1. {i \in Item : status[i] = s} \subseteq Item
    OBVIOUS
  <2>2. Cardinality({i \in Item : status[i] = s}) <= Cardinality(Item)
    BY <2>1, EngineAssumption, FS_Subset
  <2>3. Cardinality({i \in Item : status[i] = s}) \in Nat
    BY HavingIsNat DEF Having
  <2> QED
    BY <2>2, <2>3, RowNumbers DEF Having
<1> QED
  BY <1>1

LEMMA FileLines ==
  ASSUME SystemInv, FilesInv, NEW f \in objects \cup partial, NEW S \in SUBSET Records(f)
  PROVE  Lines(f, S) \subseteq Item \X Q!Verdict
<1>1. f.recs \in [Item -> Q!Result \cup {NoResult}]
  BY DEF SystemInv, EngineInv, TypeOK, FilesInv
<1>2. \A i \in Records(f) : i \in Item /\ f.recs[i].status \in Q!Verdict
  BY <1>1 DEF Records, Q!Result
<1> QED
  BY <1>2 DEF Lines

LEMMA ReportsTypeStep ==
  ASSUME SystemInv, FilesInv, QueryOK, ReportsTypeOK, [ReportsNext]_reportVars
  PROVE  QueryOK' /\ ReportsTypeOK'
<1>a. FilesInv'
  BY FilesStep
<1> USE DEF ReportsTypeOK, FilesInv
<1>1. CASE JobStep
  <2>1. Names(objects \cup partial) \subseteq Names(objects' \cup partial')
    BY <1>1, FilesKept DEF Names
  <2> QED
    BY <1>1, <1>a, <2>1 DEF JobStep, clientVars, QueryOK, Names
<1>2. ASSUME NEW w \in Worker, OpenFile(w) PROVE QueryOK' /\ ReportsTypeOK'
  BY <1>2, <1>a DEF OpenFile, clientVars, QueryOK, Names, allVars, vars
<1>b. ASSUME UNCHANGED <<objects, partial>> PROVE Names(objects' \cup partial') = Names(objects \cup partial)
  BY <1>b DEF Names
<1>3. CASE AskStatus
  <2>1. query' = [row |-> JobRow, counts |-> Unread]
    BY <1>3 DEF AskStatus, NoQuery
  <2>2. JobRow.state \in JobState \ {"ABSENT"} /\ JobRow.total \in 0 .. Cardinality(Item)
    BY <1>3 DEF AskStatus, Found, JobRow, SystemInv, JobTypeOK
  <2>3. JobRow # Unread
    BY DEF JobRow, Unread
  <2>4. QueryOK'
    BY <2>1, <2>2, <2>3 DEF QueryOK
  <2> QED
    BY <1>3, <1>a, <1>b, <2>4 DEF AskStatus, allVars, vars
<1>4. CASE AnswerStatus
  <2>1. query.counts = Unread /\ query.row # Unread
    BY <1>4 DEF AnswerStatus, QueryOK
  <2>2. answer' = JobStatus(query.row, Counts)
    BY <1>4, <2>1 DEF AnswerStatus
  <2>3. AnswerOK(answer')
    BY <1>4, <2>2, HavingBound DEF AnswerOK, JobStatus, Counts, QueryOK, AnswerStatus
  <2> QED
    BY <1>4, <1>a, <1>b, <2>3 DEF AnswerStatus, QueryOK, allVars, vars
<1>5. CASE StatusFails \/ RequestDownload \/ ListFiles \/ EndDownload \/ DownloadFails
  BY <1>5, <1>a, <1>b DEF StatusFails, RequestDownload, ListFiles, EndDownload,
    DownloadFails, QueryOK, allVars, vars
<1>6. CASE ReadFile
  <2>1. PICK f \in objects : sent' = sent \cup Lines(f, Records(f)) /\ listing' \subseteq listing
    BY <1>6 DEF ReadFile
  <2>2. sent' \subseteq Item \X Q!Verdict
    BY <2>1, FileLines
  <2> QED
    BY <1>6, <1>a, <1>b, <2>1, <2>2 DEF ReadFile, QueryOK, allVars, vars
<1>7. CASE ReadDamagedFile
  <2>1. PICK f \in objects \cup partial, S \in SUBSET Item :
          /\ S \subseteq Records(f)
          /\ sent' = sent \cup Lines(f, S) /\ listing' \subseteq listing
    BY <1>7 DEF ReadDamagedFile, Records
  <2>2. sent' \subseteq Item \X Q!Verdict
    BY <2>1, FileLines
  <2>3. stream' \in {"reading", "garbled"}
    BY <1>7 DEF ReadDamagedFile
  <2> QED
    BY <1>7, <1>a, <1>b, <2>1, <2>2, <2>3 DEF ReadDamagedFile, QueryOK, allVars, vars
<1>8. CASE UNCHANGED reportVars
  BY <1>8, <1>a, <1>b DEF reportVars, clientVars, allVars, vars, QueryOK
<1> QED
  BY <1>1, <1>2, <1>3, <1>4, <1>5, <1>6, <1>7, <1>8 DEF ReportsNext, ClientStep

LEMMA ClientInvariant == ReportsSpec => [](FilesInv /\ QueryOK /\ ReportsTypeOK)
<1>1. ReportsInit => FilesInv /\ QueryOK /\ ReportsTypeOK
  BY RowNumbers DEF ReportsInit, FilesInv, QueryOK, ReportsTypeOK, Names, NotFound,
    AnswerOK, JobState
<1> QED
  BY <1>1, FilesStep, ReportsTypeStep, ReportsSystemInv, PTL DEF ReportsSpec

(* A file is torn or whole and never both, even if its rows are delivered  *)
(* again; the client has answers within the size of the file, names of     *)
(* files that are there, and records with a verdict.                       *)
THEOREM ReportsTypeCorrect == ReportsSpec => []ReportsTypeOK
  BY ClientInvariant, PTL

----------------------------------------------------------------------------
(* What the download has sent, or will still read, of the rows with a      *)
(* verdict; and what it owes the client, who was told of so many.          *)
Streamed(s) ==
  SentAs(s) \cup
  {i \in Item : \E o \in objects :
     o.ref \in listing /\ i \in Records(o) /\ o.recs[i].status = s}

DownloadInv ==
  /\ stream # "none" => query = NoQuery
  /\ stream = "whole" => listing = {}
  /\ stream \in {"reading", "whole"} =>
       /\ answer.succeeded <= Cardinality(Streamed("SUCCEEDED"))
       /\ answer.failed <= Cardinality(Streamed("FAILED") \cup Rejected)

LEMMA RowSetSize ==
  ASSUME NEW S \in SUBSET Item, NEW T \in SUBSET Item, S \subseteq T
  PROVE  /\ Cardinality(S) \in Nat /\ Cardinality(T) \in Nat
         /\ Cardinality(S) <= Cardinality(T)
<1>1. IsFiniteSet(S) /\ IsFiniteSet(T)
  BY EngineAssumption, FS_Subset
<1> QED
  BY <1>1, FS_Subset, FS_CardinalityType

LEMMA StreamedRows == \A s : Streamed(s) \subseteq Item /\ (Streamed(s) \subseteq Item)'
  BY DEF Streamed, SentAs

(* Every settled row is in a file, or was rejected.                        *)
LEMMA SettledAreStored ==
  ASSUME SystemInv, SettledByResult, OnlyRejectedLackFile, NEW i \in Item, Terminal(i),
         status[i] = "SUCCEEDED" \/ i \notin Rejected
  PROVE  \E o \in objects : i \in Records(o) /\ o.recs[i].status = status[i]
<1>1. status[i] = "SUCCEEDED" \/ ref[i] # NoRef
  BY DEF OnlyRejectedLackFile, Terminal
<1>2. PICK o \in objects : o.ref = ref[i] /\ o.recs[i] = Recorded(i)
  BY <1>1 DEF SystemInv, EngineInv, CommittedRowsAreStored
<1>3. ref[i] # NoRef
  BY <1>2, EngineAssumption DEF SystemInv, EngineInv, TypeOK
<1>4. Recorded(i) # NoResult
  BY <1>3, EngineAssumption DEF SettledByResult
<1> QED
  BY <1>2, <1>4 DEF Records, Recorded

(* When the files are listed, all that the table says of the rows is in    *)
(* them, and the client was told no more than that.                        *)
LEMMA ListedIsSettled ==
  ASSUME SystemInv, SettledByResult, OnlyRejectedLackFile, ToldInv, ListFiles
  PROVE  /\ answer.succeeded <= Cardinality(Streamed("SUCCEEDED")')
         /\ answer.failed <= Cardinality((Streamed("FAILED") \cup Rejected)')
<1>1. UNCHANGED objects /\ \A o \in objects : o.ref \in listing'
  BY DEF ListFiles, Names, allVars, vars
<1>2. ASSUME NEW s \in Q!Verdict, NEW i \in Item, status[i] = s,
             s = "SUCCEEDED" \/ i \notin Rejected
      PROVE  i \in Streamed(s)'
  <2>1. PICK o \in objects : i \in Records(o) /\ o.recs[i].status = s
    BY <1>2, SettledAreStored DEF Terminal
  <2> QED
    BY <1>1, <2>1 DEF Streamed, Records
<1>3. {i \in Item : status[i] = "SUCCEEDED"} \subseteq Streamed("SUCCEEDED")'
  BY <1>2 DEF Q!Verdict
<1>4. {i \in Item : status[i] = "FAILED"} \subseteq (Streamed("FAILED") \cup Rejected)'
  BY <1>2 DEF Q!Verdict
<1>5. Having("SUCCEEDED") \in Nat /\ Having("FAILED") \in Nat
  BY HavingIsNat
<1>6. /\ Having("SUCCEEDED") <= Cardinality(Streamed("SUCCEEDED")')
      /\ Cardinality(Streamed("SUCCEEDED")') \in Nat
  BY <1>3, StreamedRows, RowSetSize DEF Having
<1>7. /\ Having("FAILED") <= Cardinality((Streamed("FAILED") \cup Rejected)')
      /\ Cardinality((Streamed("FAILED") \cup Rejected)') \in Nat
  BY <1>4, StreamedRows, RowSetSize, JobAssumption DEF Having
<1> QED
  BY <1>5, <1>6, <1>7 DEF ToldInv

(* What is once owed is sent: a file that is listed is read whole, or the  *)
(* download breaks off; and files that workers add take nothing away.      *)
LEMMA StreamedGrow ==
  ASSUME SystemInv, FilesInv, [ReportsNext]_reportVars,
         stream \in {"reading", "whole"}, stream' \in {"reading", "whole"}, NEW s
  PROVE  Streamed(s) \subseteq Streamed(s)'
<1> USE DEF Streamed, SentAs, Records
<1>1. CASE JobStep
  BY <1>1, FilesKept DEF JobStep, clientVars
<1>2. CASE ReadFile
  <2>1. PICK f \in objects : /\ listing' = listing \ {f.ref}
                             /\ sent' = sent \cup Lines(f, Records(f))
    BY <1>2 DEF ReadFile
  <2>2. \A o \in objects : o.ref = f.ref => o = f
    BY DEF SystemInv, NamesInv, NamesUnique
  <2>3. \A i \in Records(f) : <<i, f.recs[i].status>> \in sent'
    BY <2>1 DEF Lines
  <2>4. UNCHANGED objects
    BY <1>2 DEF ReadFile, allVars, vars
  <2> QED
    BY <2>1, <2>2, <2>3, <2>4
<1>3. CASE ReadDamagedFile
  <2>1. PICK f \in partial : listing' = listing \ {f.ref} /\ sent \subseteq sent'
    BY <1>3 DEF ReadDamagedFile
  <2>2. \A o \in objects : o.ref # f.ref
    BY DEF FilesInv, Names
  <2>3. UNCHANGED objects
    BY <1>3 DEF ReadDamagedFile, allVars, vars
  <2> QED
    BY <2>1, <2>2, <2>3
<1>4. CASE EndDownload \/ UNCHANGED reportVars \/ \E w \in Worker : OpenFile(w)
  BY <1>4 DEF EndDownload, OpenFile, reportVars, clientVars, allVars, vars
<1>5. CASE AnswerStatus \/ StatusFails
  BY <1>5 DEF AnswerStatus, StatusFails, allVars, vars
<1> QED
  BY <1>1, <1>2, <1>3, <1>4, <1>5
  DEF ReportsNext, ClientStep, AskStatus, RequestDownload, ListFiles, DownloadFails

LEMMA DownloadStep ==
  ASSUME SystemInv, FilesInv, SettledByResult, OnlyRejectedLackFile, ToldInv,
         DownloadInv, [ReportsNext]_reportVars
  PROVE  DownloadInv'
<1> USE DEF DownloadInv
<1>1. (stream # "none" => query = NoQuery)' /\ (stream = "whole" => listing = {})'
  BY DEF ReportsNext, JobStep, OpenFile, ClientStep, AskStatus, AnswerStatus, StatusFails,
    RequestDownload, ListFiles, ReadFile, ReadDamagedFile, EndDownload, DownloadFails,
    reportVars, clientVars
<1>2. stream # "none" => UNCHANGED answer
  BY DEF ReportsNext, JobStep, OpenFile, ClientStep, AskStatus, AnswerStatus, StatusFails,
    RequestDownload, ListFiles, ReadFile, ReadDamagedFile, EndDownload, DownloadFails,
    reportVars, clientVars
<1>3. stream' \in {"reading", "whole"} => ListFiles \/ stream \in {"reading", "whole"}
  BY DEF ReportsNext, JobStep, OpenFile, ClientStep, AskStatus, AnswerStatus, StatusFails,
    RequestDownload, ReadFile, ReadDamagedFile, EndDownload, DownloadFails,
    reportVars, clientVars
<1>4. CASE ListFiles
  BY <1>1, <1>4, ListedIsSettled DEF ListFiles
<1>5. CASE stream \in {"reading", "whole"} /\ stream' \in {"reading", "whole"}
  <2>1. /\ Streamed("SUCCEEDED") \subseteq Streamed("SUCCEEDED")'
        /\ Streamed("FAILED") \cup Rejected \subseteq (Streamed("FAILED") \cup Rejected)'
    BY <1>5, StreamedGrow
  <2>2. /\ Cardinality(Streamed("SUCCEEDED")) <= Cardinality(Streamed("SUCCEEDED")')
        /\ Cardinality(Streamed("SUCCEEDED")) \in Nat
        /\ Cardinality(Streamed("SUCCEEDED")') \in Nat
    BY <2>1, StreamedRows, RowSetSize
  <2>3. LET now == Streamed("FAILED") \cup Rejected
        IN  /\ Cardinality(now) <= Cardinality(now')
            /\ Cardinality(now) \in Nat /\ Cardinality(now') \in Nat
    BY <2>1, StreamedRows, RowSetSize, JobAssumption
  <2>4. answer.succeeded \in Nat /\ answer.failed \in Nat /\ UNCHANGED answer
    BY <1>2, <1>5 DEF ToldInv
  <2> QED
    BY <1>1, <1>5, <2>2, <2>3, <2>4
<1>6. CASE stream' \notin {"reading", "whole"}
  BY <1>1, <1>6
<1> QED
  BY <1>3, <1>4, <1>5, <1>6

LEMMA DownloadInvariant == ReportsSpec => []DownloadInv
<1>1. ReportsInit => DownloadInv
  BY DEF ReportsInit, DownloadInv
<1>2. JobSpec => []SettledByResult /\ []OnlyRejectedLackFile
  BY JobIsEngine, SettledRowsShowResults, RejectedLackFile, PTL DEF ImplementsEngine
<1> QED
  BY <1>1, <1>2, DownloadStep, ToldInvariant, ClientInvariant, ReportsSystemInv,
     ReportsRefineJobs, PTL
  DEF ReportsSpec

(* A client that polled and then downloaded has a record for every row     *)
(* that it was told is settled, however the workers, their failures and    *)
(* the files that they add or leave torn fall between the two requests.    *)
THEOREM DownloadsAgree == ReportsSpec => []DownloadTellsStatus
<1>1. DownloadInv => DownloadTellsStatus
  <2> SUFFICES ASSUME DownloadInv, stream = "whole" PROVE DownloadTellsStatus
    BY DEF DownloadTellsStatus
  <2>1. Streamed("SUCCEEDED") = SentAs("SUCCEEDED") /\ Streamed("FAILED") = SentAs("FAILED")
    BY DEF DownloadInv, Streamed
  <2>2. /\ Cardinality(Streamed("SUCCEEDED")) >= answer.succeeded
        /\ Cardinality(Streamed("FAILED") \cup Rejected) >= answer.failed
    BY DEF DownloadInv
  <2> QED
    BY <2>1, <2>2 DEF DownloadTellsStatus
<1> QED
  BY <1>1, DownloadInvariant, PTL

----------------------------------------------------------------------------
LEMMA DisjointSize ==
  ASSUME NEW S, NEW T, IsFiniteSet(S), IsFiniteSet(T), S \cap T = {}
  PROVE  /\ IsFiniteSet(S \cup T)
         /\ Cardinality(S \cup T) = Cardinality(S) + Cardinality(T)
         /\ Cardinality(S) \in Nat /\ Cardinality(T) \in Nat
  BY FS_Union, FS_EmptySet, FS_CardinalityType

(* The rows of a whole table have one status each.                         *)
LEMMA CountsAddUp ==
  ASSUME TypeOK, Ingested
  PROVE  Having("PENDING") + Having("CLAIMED") + Having("SUCCEEDED") + Having("FAILED")
           = Cardinality(Item)
<1> DEFINE P == {i \in Item : status[i] = "PENDING"}
           C == {i \in Item : status[i] = "CLAIMED"}
           S == {i \in Item : status[i] = "SUCCEEDED"}
           F == {i \in Item : status[i] = "FAILED"}
<1>1. IsFiniteSet(P) /\ IsFiniteSet(C) /\ IsFiniteSet(S) /\ IsFiniteSet(F)
  BY EngineAssumption, FS_Subset
<1>2. P \cap C = {} /\ (P \cup C) \cap S = {} /\ (P \cup C \cup S) \cap F = {}
  OBVIOUS
<1>3. P \cup C \cup S \cup F = Item
  BY DEF TypeOK, Q!TypeOK, Q!Status, Q!Verdict, Ingested
<1>4. /\ Having("PENDING") = Cardinality(P) /\ Having("CLAIMED") = Cardinality(C)
      /\ Having("SUCCEEDED") = Cardinality(S) /\ Having("FAILED") = Cardinality(F)
  BY DEF Having
<1> HIDE DEF P, C, S, F
<1>5. PICK PC : PC = P \cup C
  OBVIOUS
<1>6. PICK PCS : PCS = PC \cup S
  OBVIOUS
<1>7. IsFiniteSet(PC) /\ Cardinality(PC) = Cardinality(P) + Cardinality(C)
  BY <1>1, <1>2, <1>5, DisjointSize
<1>8. IsFiniteSet(PCS) /\ Cardinality(PCS) = Cardinality(PC) + Cardinality(S)
  BY <1>1, <1>2, <1>5, <1>6, <1>7, DisjointSize
<1>9. Cardinality(Item) = Cardinality(PCS) + Cardinality(F)
  BY <1>1, <1>2, <1>3, <1>5, <1>6, <1>8, DisjointSize
<1> QED
  BY <1>4, <1>7, <1>8, <1>9

(* A job that runs, or ran, has its whole file in the table.               *)
WholeFile == total = Cardinality(Item) /\ Ingested

RunningInv == jobState \in {"RUNNING", "COMPLETED"} => WholeFile

(* So it had when the client's query, or its last answer, found it so.     *)
AnswerInv ==
  /\ query # NoQuery /\ query.row.state \in {"RUNNING", "COMPLETED"} =>
       query.row.total = Cardinality(Item) /\ Ingested
  /\ answer.state \in {"RUNNING", "COMPLETED"} =>
       /\ answer.total = Cardinality(Item)
       /\ answer.pending + answer.in_progress + answer.succeeded
            + answer.failed = answer.total

LEMMA RunningStep ==
  ASSUME \A r \in Run : Kind[r] # "worker",
         EngineInv, JobTypeOK, IngestInv, RunningInv, [JobNext]_allVars
  PROVE  RunningInv'
<1>a. Ingested => Ingested'
  BY RowsStay, StepIsEngineStep DEF Ingested
<1> USE DEF RunningInv, WholeFile, IngestInv, Moves
<1>b. ASSUME UNCHANGED total,
             jobState' \in {"RUNNING", "COMPLETED"} =>
               jobState' = jobState \/ \E r \in Run : stage[r] \in {"ingested", "engine"}
      PROVE  RunningInv'
  BY <1>a, <1>b
<1>1. ASSUME NEW r \in Run, SetTotal(r) PROVE RunningInv'
  BY <1>1, <1>a DEF SetTotal
<1>2. ASSUME NEW r \in Run, Execute(r), ~SetTotal(r) PROVE RunningInv'
  BY <1>2, <1>b DEF Execute, SetIngesting, Flush, SetRunning, EngineReturns,
    EngineRaises, SetFailed
<1>3. ASSUME NEW r \in Run, ExecuteFault(r) PROVE RunningInv'
  BY <1>3, <1>b DEF ExecuteFault, ExecuteRaises, SetFailedRaises
<1>4. ASSUME NEW r \in Run,
             Submit(r) \/ ResumeActive(r) \/ ResumeFails(r) \/ ProcessDies(r)
      PROVE  RunningInv'
  BY <1>4, <1>b DEF Submit, Create, ResumeActive, ResumeFails, ProcessDies
<1>5. CASE EngineStep \/ UNCHANGED allVars
  BY <1>5, <1>b DEF EngineStep, allVars, jobVars
<1> QED
  BY <1>1, <1>2, <1>3, <1>4, <1>5 DEF JobNext, RunWorker

LEMMA AnswerStep ==
  ASSUME SystemInv, RunningInv, QueryOK, AnswerInv, [ReportsNext]_reportVars
  PROVE  AnswerInv'
<1>a. TypeOK
  BY DEF SystemInv, EngineInv
<1>b. Ingested => Ingested'
  <2>1. \A i \in Item : status[i] # "ABSENT" => status'[i] # "ABSENT"
    BY RowsStay, StepIsEngineStep, ReportsStepIsJobStep DEF SystemInv
  <2> QED
    BY <2>1 DEF Ingested
<1>1. CASE AskStatus
  <2>1. query' = [row |-> JobRow, counts |-> Unread] /\ UNCHANGED answer
    BY <1>1 DEF AskStatus, NoQuery
  <2> QED
    BY <1>b, <2>1 DEF AnswerInv, RunningInv, WholeFile, JobRow
<1>2. CASE AnswerStatus
  <2>1. query # NoQuery /\ query.counts = Unread /\ query.row # Unread
    BY <1>2 DEF AnswerStatus, QueryOK
  <2>2. answer' = JobStatus(query.row, Counts) /\ query' = NoQuery
    BY <1>2, <2>1 DEF AnswerStatus
  <2>3. /\ answer'.state = query.row.state /\ answer'.total = query.row.total
        /\ answer'.pending = Having("PENDING") /\ answer'.in_progress = Having("CLAIMED")
        /\ answer'.succeeded = Having("SUCCEEDED") /\ answer'.failed = Having("FAILED")
    BY <2>2 DEF JobStatus, Counts
  <2> QED
    BY <1>a, <2>1, <2>2, <2>3, CountsAddUp DEF AnswerInv
<1>3. CASE UNCHANGED answer /\ (query' = query \/ query' = NoQuery)
  BY <1>3, <1>b DEF AnswerInv
<1>4. AskStatus \/ AnswerStatus \/ (UNCHANGED answer /\ (query' = query \/ query' = NoQuery))
  BY DEF ReportsNext, JobStep, OpenFile, ClientStep, StatusFails, RequestDownload,
    ListFiles, ReadFile, ReadDamagedFile, EndDownload, DownloadFails, reportVars,
    clientVars
<1> QED
  BY <1>1, <1>2, <1>3, <1>4

LEMMA AnswerInvariant ==
  ASSUME \A r \in Run : Kind[r] # "worker"
  PROVE  ReportsSpec => []AnswerInv
<1>1. ReportsInit => RunningInv /\ AnswerInv
  BY DEF ReportsInit, JobInit, RunningInv, AnswerInv, NotFound
<1>2. SystemInv /\ IngestInv /\ RunningInv /\ [ReportsNext]_reportVars => RunningInv'
  BY RunningStep, ReportsStepIsJobStep DEF SystemInv
<1>3. JobSpec => []IngestInv
  BY SettleInvariant, PTL
<1> QED
  BY <1>1, <1>2, <1>3, AnswerStep, ClientInvariant, ReportsSystemInv, ReportsRefineJobs, PTL
  DEF ReportsSpec

(* The counts of a job that is said to run, or to be complete, are those   *)
(* of its whole file, although they are read in a second statement: even   *)
(* while processes die and replace each other and the file is read again.  *)
THEOREM AnswersAddUp ==
  ASSUME \A r \in Run : Kind[r] # "worker"
  PROVE  ReportsSpec =>
           [](answer.state \in {"RUNNING", "COMPLETED"} =>
                /\ answer.total = Cardinality(Item)
                /\ answer.pending + answer.in_progress + answer.succeeded
                     + answer.failed = answer.total)
<1>1. AnswerInv => (answer.state \in {"RUNNING", "COMPLETED"} =>
                      /\ answer.total = Cardinality(Item)
                      /\ answer.pending + answer.in_progress + answer.succeeded
                           + answer.failed = answer.total)
  BY DEF AnswerInv
<1> QED
  BY <1>1, AnswerInvariant, PTL

----------------------------------------------------------------------------
(* A file that is not closed is being written, or its worker ended.        *)
PartialInv ==
  \A f \in partial : \E w \in Worker :
    \/ pc[w] \in {"raised", "dead"}
    \/ pc[w] = "flush" /\ f = [ref |-> Name(w), recs |-> outcome[w]]

(* What becomes of a worker that writes, and of one that ended.            *)
LEMMA FlushEnds ==
  ASSUME EngineInv, [Next]_vars, NEW w \in Worker
  PROVE  /\ pc[w] \in {"raised", "dead"} => pc'[w] \in {"raised", "dead"}
         /\ pc[w] = "flush" =>
              \/ pc'[w] \in {"raised", "dead"}
              \/ pc'[w] = "flush" /\ held'[w] = held[w] /\ outcome'[w] = outcome[w]
              \/ [ref |-> Name(w), recs |-> outcome[w]] \in objects'
<1> DEFINE Goal == /\ pc[w] \in {"raised", "dead"} => pc'[w] \in {"raised", "dead"}
                   /\ pc[w] = "flush" =>
                        \/ pc'[w] \in {"raised", "dead"}
                        \/ pc'[w] = "flush" /\ held'[w] = held[w] /\ outcome'[w] = outcome[w]
                        \/ [ref |-> Name(w), recs |-> outcome[w]] \in objects'
<1> SUFFICES Goal
  OBVIOUS
<1>a. TypeOK /\ Phases
  BY DEF EngineInv
<1> USE DEF TypeOK
<1>1. ASSUME NEW v \in Worker, WriteChunk(v) PROVE Goal
  BY <1>1, <1>a DEF WriteChunk
<1>2. ASSUME NEW v \in Worker, Step(v), ~WriteChunk(v) PROVE Goal
  BY <1>2, <1>a
  DEF Step, ScanRow, ClaimChunk, NoChunk, ProcessChunk, ProcessChunkRaises,
      CompleteRow, CompleteChunk, Raises, DropChunks, wvars
<1>3. ASSUME NEW v \in Worker, Fault(v) PROVE Goal
  BY <1>3, <1>a
  DEF Fault, HeartbeatFails, WriteFails, DbFails, AckLost, Raises, DropChunks
<1>4. ASSUME NEW v \in Worker, Heartbeat(v) \/ ServerRollback(v) PROVE Goal
  BY <1>4 DEF Heartbeat, ServerRollback, wvars
<1>5. ASSUME NEW r \in Run, Start(r) PROVE Goal
  BY <1>5, <1>a DEF Start, Phases
<1>6. ASSUME NEW r \in Run, Finish(r) \/ RunFails(r) PROVE Goal
  BY <1>6 DEF Finish, RunFails, wvars
<1>7. ASSUME NEW r \in Run, Crash(r) PROVE Goal
  BY <1>7, <1>a DEF Crash, DropChunks, WorkersOf
<1>8. CASE Tick \/ Insert \/ UNCHANGED vars
  BY <1>8 DEF Tick, Insert, vars, wvars
<1> QED
  BY <1>1, <1>2, <1>3, <1>4, <1>5, <1>6, <1>7, <1>8 DEF Next

LEMMA PartialStep ==
  ASSUME SystemInv, PartialInv, [ReportsNext]_reportVars
  PROVE  PartialInv'
<1>1. CASE JobStep
  <2> SUFFICES ASSUME NEW f \in partial'
               PROVE  \E w \in Worker :
                        \/ pc'[w] \in {"raised", "dead"}
                        \/ pc'[w] = "flush" /\ f = [ref |-> Name(w)', recs |-> outcome'[w]]
    BY DEF PartialInv
  <2>1. f \in partial /\ f \notin objects'
    BY <1>1 DEF JobStep
  <2>2. PICK w \in Worker :
          \/ pc[w] \in {"raised", "dead"}
          \/ pc[w] = "flush" /\ f = [ref |-> Name(w), recs |-> outcome[w]]
    BY <2>1 DEF PartialInv
  <2>3. EngineInv /\ [Next]_vars
    BY <1>1, StepIsEngineStep DEF JobStep, SystemInv
  <2> QED
    BY <2>1, <2>2, <2>3, FlushEnds DEF Name
<1>2. ASSUME NEW w \in Worker, OpenFile(w) PROVE PartialInv'
  <2>1. UNCHANGED <<pc, held, outcome>> /\ pc[w] = "flush"
    BY <1>2 DEF OpenFile, allVars, vars, wvars
  <2>2. partial' = partial \cup {[ref |-> Name(w), recs |-> outcome[w]]}
    BY <1>2 DEF OpenFile
  <2> QED
    BY <2>1, <2>2 DEF PartialInv, Name
<1>3. CASE ClientStep \/ UNCHANGED reportVars
  <2>1. UNCHANGED <<partial, pc, held, outcome>>
    BY <1>3 DEF ClientStep, AskStatus, AnswerStatus, StatusFails, RequestDownload,
      ListFiles, ReadFile, ReadDamagedFile, EndDownload, DownloadFails, reportVars,
      allVars, vars, wvars
  <2> QED
    BY <2>1 DEF PartialInv, Name
<1> QED
  BY <1>1, <1>2, <1>3 DEF ReportsNext

(* Once a client has read COMPLETED, nothing moves and no file is open.    *)
ToldQuietInv ==
  /\ query # NoQuery /\ query.row.state = "COMPLETED" => Quiet
  /\ answer.state = "COMPLETED" =>
       Quiet /\ answer.pending = 0 /\ answer.in_progress = 0

LEMMA QuietStays ==
  ASSUME \A r \in Run : Kind[r] = "submit",
         SystemInv, Quiet, [ReportsNext]_reportVars
  PROVE  Quiet'
  BY QuietStep, ReportsStepIsJobStep DEF SystemInv

LEMMA QuietCounts == ASSUME Quiet PROVE Having("PENDING") = 0 /\ Having("CLAIMED") = 0
<1>1. /\ {i \in Item : status[i] = "PENDING"} = {}
      /\ {i \in Item : status[i] = "CLAIMED"} = {}
  BY DEF Quiet, Terminal, Q!Verdict
<1> QED
  BY <1>1, FS_EmptySet DEF Having

LEMMA ToldQuietStep ==
  ASSUME \A r \in Run : Kind[r] = "submit",
         SystemInv, CompletedIsQuiet, QueryOK, ToldQuietInv, [ReportsNext]_reportVars
  PROVE  ToldQuietInv'
<1>b. Quiet => Quiet'
  BY QuietStays
<1>1. CASE AskStatus
  <2>1. query' = [row |-> JobRow, counts |-> Unread] /\ UNCHANGED answer
    BY <1>1 DEF AskStatus, NoQuery
  <2> QED
    BY <1>b, <2>1 DEF ToldQuietInv, CompletedIsQuiet, JobRow
<1>2. CASE AnswerStatus
  <2>1. query # NoQuery /\ query.counts = Unread /\ query.row # Unread
    BY <1>2 DEF AnswerStatus, QueryOK
  <2>2. answer' = JobStatus(query.row, Counts) /\ query' = NoQuery
    BY <1>2, <2>1 DEF AnswerStatus
  <2>3. /\ answer'.state = query.row.state
        /\ answer'.pending = Having("PENDING") /\ answer'.in_progress = Having("CLAIMED")
    BY <2>2 DEF JobStatus, Counts
  <2> QED
    BY <1>b, <2>1, <2>2, <2>3, QuietCounts DEF ToldQuietInv
<1>3. CASE UNCHANGED answer /\ (query' = query \/ query' = NoQuery)
  BY <1>3, <1>b DEF ToldQuietInv
<1>4. AskStatus \/ AnswerStatus \/ (UNCHANGED answer /\ (query' = query \/ query' = NoQuery))
  BY DEF ReportsNext, JobStep, OpenFile, ClientStep, StatusFails, RequestDownload,
    ListFiles, ReadFile, ReadDamagedFile, EndDownload, DownloadFails, reportVars,
    clientVars
<1> QED
  BY <1>1, <1>2, <1>3, <1>4

LEMMA ToldQuietInvariant ==
  ASSUME \A r \in Run : Kind[r] = "submit"
  PROVE  ReportsSpec => []ToldQuietInv
<1>1. ReportsInit => ToldQuietInv
  BY DEF ReportsInit, ToldQuietInv, NotFound
<1>2. SystemInv /\ CompletedIsQuiet /\ QueryOK /\ ToldQuietInv /\ [ReportsNext]_reportVars
      => ToldQuietInv'
  BY ToldQuietStep
<1>3. JobSpec => []CompletedIsQuiet
  BY SoloInvariant, PTL
<1> QED
  BY <1>1, <1>2, <1>3, ClientInvariant, ReportsSystemInv, ReportsRefineJobs, PTL
  DEF ReportsSpec

(* In the life of the process that accepted the job, an answer that says   *)
(* COMPLETED has no row pending or in progress, though its counts are of   *)
(* another moment than its state.                                          *)
THEOREM AnswersCorrect ==
  ASSUME \A r \in Run : Kind[r] = "submit"
  PROVE  ReportsSpec => []StatusAddsUp
<1>1. AnswerInv /\ ToldQuietInv => StatusAddsUp
  BY DEF AnswerInv, ToldQuietInv, StatusAddsUp
<1>2. ReportsSpec => []AnswerInv
  BY AnswerInvariant
<1> QED
  BY <1>1, <1>2, ToldQuietInvariant, PTL

(* There, a client that was told COMPLETED downloads a JSON array, if no   *)
(* answer of the model has a character that splits its line: every file is *)
(* closed by then, and none was left torn.                                 *)
THEOREM CompletedDownloadsParse ==
  ASSUME \A r \in Run : Kind[r] = "submit", Splitting = {}
  PROVE  ReportsSpec => []CompletedDownloadParses
<1>1. ReportsInit => PartialInv /\ CompletedDownloadParses
  BY DEF ReportsInit, PartialInv, CompletedDownloadParses
<1>2. SystemInv /\ PartialInv /\ [ReportsNext]_reportVars => PartialInv'
  BY PartialStep
<1>3. PartialInv /\ Quiet => partial = {}
  BY DEF PartialInv, Quiet
<1>4. ASSUME PartialInv, ToldQuietInv, DownloadInv, CompletedDownloadParses,
             [ReportsNext]_reportVars
      PROVE  CompletedDownloadParses'
  <2> USE DEF CompletedDownloadParses
  <2>1. CASE ReadDamagedFile
    <3>1. UNCHANGED answer /\ (stream' = "garbled" => partial # {})
      BY <2>1 DEF ReadDamagedFile
    <3> QED
      BY <1>3, <1>4, <3>1 DEF ToldQuietInv
  <2>2. CASE ~ReadDamagedFile /\ stream' = "garbled"
    <3>1. stream = "garbled" /\ (answer' = answer \/ query # NoQuery)
      BY <1>4, <2>2 DEF ReportsNext, JobStep, OpenFile, ClientStep, AskStatus, AnswerStatus,
        StatusFails, RequestDownload, ListFiles, ReadFile, EndDownload, DownloadFails,
        reportVars, clientVars
    <3> QED
      BY <1>4, <3>1 DEF DownloadInv
  <2> QED
    BY <2>1, <2>2
<1> QED
  BY <1>1, <1>2, <1>4, ToldQuietInvariant, DownloadInvariant, ReportsSystemInv, PTL
  DEF ReportsSpec
=============================================================================
