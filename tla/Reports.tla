------------------------------ MODULE Reports ------------------------------
(***************************************************************************)
(* GET /job/{id}/status and GET /job/{id}/download, asked by one client    *)
(* while the job's processes work: what an answer assembled from two       *)
(* queries, or from a listing and the files read after it, says of the     *)
(* job.  The scripts are such clients.  Result files are the local         *)
(* backend's: a file is visible from its opening on, and holds a part of   *)
(* its records until write_text returns, or for good if it does not.       *)
(***************************************************************************)
EXTENDS JobService

(* model_dump_json leaves U+0085, U+2028 and U+2029 as they are, and       *)
(* splitlines takes them for the end of a line.                            *)
CONSTANT Splitting  \* the rows whose record has such a character

ASSUME ReportsAssumption == Splitting \subseteq Item

VARIABLES
  partial,  \* the files whose write_text has not returned
  answer,   \* the last JobStatus the client was given
  query,    \* what get_status has read so far
  stream,   \* where the download is
  listing,  \* the files it has still to read
  sent      \* the records it has streamed: of which row, with what status

clientVars == <<answer, query, stream, listing, sent>>
reportVars == <<allVars, partial, clientVars>>

(* What get and the two statements of get_status read, each of one moment  *)
(* (READ COMMITTED).                                                       *)
Having(s) == Cardinality({i \in Item : status[i] = s})

Found == jobState # "ABSENT"
JobRow == [state |-> jobState, total |-> total]
Counts == [pending |-> Having("PENDING"), in_progress |-> Having("CLAIMED"),
           succeeded |-> Having("SUCCEEDED"), failed |-> Having("FAILED")]

Unread == <<>>
NoQuery == [row |-> Unread, counts |-> Unread]

JobStatus(row, counts) ==
  [state |-> row.state, total |-> row.total,
   pending |-> counts.pending, in_progress |-> counts.in_progress,
   succeeded |-> counts.succeeded, failed |-> counts.failed]

(* No answer yet, or a 404.                                                *)
NotFound == [state |-> "ABSENT", total |-> 0, pending |-> 0,
             in_progress |-> 0, succeeded |-> 0, failed |-> 0]

Names(F) == {f.ref : f \in F}
Records(f) == {i \in Item : f.recs[i] # NoResult}
Lines(f, S) == {<<i, f.recs[i].status>> : i \in S}

ReportsInit ==
  /\ JobInit
  /\ partial = {}
  /\ answer = NotFound
  /\ query = NoQuery
  /\ stream = "none"
  /\ listing = {}
  /\ sent = {}

----------------------------------------------------------------------------
(* write_text opens the file; the engine's WriteChunk is its return.       *)
OpenFile(w) ==
  /\ pc[w] = "flush"
  /\ Name(w) \notin Names(partial)
  /\ partial' = partial \cup {[ref |-> Name(w), recs |-> outcome[w]]}
  /\ UNCHANGED <<allVars, clientVars>>

(* A step of the job's processes.  A write that fails, or whose process    *)
(* dies, leaves the file as it is.                                         *)
LeavesPart ==  \* mutant: the records are copied to another file
  /\ JobNext
  /\ objects' \ objects \subseteq partial
  /\ UNCHANGED <<partial, clientVars>>

JobStep ==
  /\ JobNext
  /\ objects' \ objects \subseteq partial
  /\ partial' = partial \ objects'
  /\ UNCHANGED clientVars

(* get_status, its first statement.  For an id that is not in the table    *)
(* the client is answered 404 and is where it was.                         *)
CountsFirst ==  \* mutant: the aggregate is queried before the job
  /\ Found
  /\ stream = "none" /\ query = NoQuery
  /\ query' = [query EXCEPT !.counts = Counts]
  /\ UNCHANGED <<allVars, partial, answer, stream, listing, sent>>

AskStatus ==
  /\ Found
  /\ stream = "none" /\ query = NoQuery
  /\ query' = [query EXCEPT !.row = JobRow]
  /\ UNCHANGED <<allVars, partial, answer, stream, listing, sent>>

(* Its second statement reads what is missing, and the client is answered. *)
AnswerStatus ==
  /\ query # NoQuery
  /\ LET read(part, now) == IF part = Unread THEN now ELSE part
     IN answer' = JobStatus(read(query.row, JobRow), read(query.counts, Counts))
  /\ query' = NoQuery
  /\ UNCHANGED <<allVars, partial, stream, listing, sent>>

(* The query failed: a 500.                                                *)
StatusFails ==
  /\ "db" \in Faults
  /\ query # NoQuery
  /\ query' = NoQuery
  /\ UNCHANGED <<allVars, partial, answer, stream, listing, sent>>

(* The scripts stop polling at a terminal state or when they lost          *)
(* patience; other clients ask when they like, even for an unknown id.     *)
(* The response has begun with status 200 before stream_results looks the  *)
(* job up, so that JobNotFoundError cuts it off.                           *)
RequestDownload ==
  /\ stream = "none" /\ query = NoQuery
  /\ stream' = IF Found THEN "open" ELSE "aborted"
  /\ UNCHANGED <<allVars, partial, answer, query, listing, sent>>

(* iter_results lists the directory once.                                  *)
ListFiles ==
  /\ stream = "open"
  /\ stream' = "reading"
  /\ listing' = Names(objects \cup partial)
  /\ UNCHANGED <<allVars, partial, answer, query, sent>>

(* It reads the files in the order of their names, which are random.       *)
ReadFile ==
  /\ stream = "reading"
  /\ \E f \in objects :
       /\ f.ref \in listing
       /\ Records(f) \cap Splitting = {}
       /\ listing' = listing \ {f.ref}
       /\ sent' = sent \cup Lines(f, Records(f))
  /\ UNCHANGED <<allVars, partial, answer, query, stream>>

(* A file that is not all there ends with a line, and nothing tells, or    *)
(* inside one, which json.loads refuses after the response has begun; so   *)
(* it does with a line that splitlines has split.                          *)
ReadDamagedFile ==
  /\ stream = "reading"
  /\ \E f \in objects \cup partial : \E S \in SUBSET (Records(f) \ Splitting) :
       /\ f.ref \in listing
       /\ listing' = listing \ {f.ref}
       /\ sent' = sent \cup Lines(f, S)
       /\ \/ f \in partial /\ stream' = "reading"
          \/ /\ f \in partial \/ Records(f) \cap Splitting # {}
             /\ stream' = "garbled"
  /\ UNCHANGED <<allVars, partial, answer, query>>

EndDownload ==
  /\ stream = "reading"
  /\ listing = {}
  /\ stream' = "whole"
  /\ UNCHANGED <<allVars, partial, answer, query, listing, sent>>

(* The job's row or a file cannot be read at the moment.                   *)
DownloadFails ==
  /\ \/ stream = "open" /\ "db" \in Faults
     \/ stream \in {"open", "reading"} /\ "storage" \in Faults
  /\ stream' = "aborted"
  /\ UNCHANGED <<allVars, partial, answer, query, listing, sent>>

ClientStep ==
  \/ AskStatus \/ AnswerStatus \/ StatusFails
  \/ RequestDownload \/ ListFiles \/ ReadFile \/ ReadDamagedFile
  \/ EndDownload \/ DownloadFails

ReportsNext == JobStep \/ (\E w \in Worker : OpenFile(w)) \/ ClientStep

ReportsSpec == ReportsInit /\ [][ReportsNext]_reportVars

----------------------------------------------------------------------------
(* Properties.                                                             *)

AnswerOK(a) ==
  /\ a.state \in JobState
  /\ {a.total, a.pending, a.in_progress, a.succeeded, a.failed}
       \subseteq 0 .. Cardinality(Item)

ReportsTypeOK ==
  /\ \A f \in partial : f.ref \in Ref /\ f.recs \in [Item -> Q!Result \cup {NoResult}]
  /\ Names(partial) \cap Names(objects) = {}
  /\ AnswerOK(answer)
  /\ stream \in {"none", "open", "reading", "whole", "garbled", "aborted"}
  /\ listing \subseteq Names(objects \cup partial)
  /\ sent \subseteq Item \X Q!Verdict

(* The two statements of get_status see the table at two moments, and yet  *)
(* its answer adds up: once the job is said to run, the counts are those   *)
(* of the whole file, and COMPLETED is never said with rows still pending  *)
(* or in progress.                                                         *)
StatusAddsUp ==
  /\ answer.state \in {"RUNNING", "COMPLETED"} =>
       /\ answer.total = Cardinality(Item)
       /\ answer.pending + answer.in_progress + answer.succeeded
            + answer.failed = answer.total
  /\ answer.state = "COMPLETED" =>
       answer.pending = 0 /\ answer.in_progress = 0

(* The progress that a client sees never goes back, whatever failed or was *)
(* done twice between two of its polls.                                    *)
ProgressNeverBack ==
  [][/\ answer'.succeeded >= answer.succeeded
     /\ answer'.failed >= answer.failed]_answer

SentAs(s) == {i \in Item : <<i, s>> \in sent}

(* A download that ends without an error has, for every row that the       *)
(* client's last status counted as settled, its record, although the rows  *)
(* are counted in the table and read from files that workers add to; but   *)
(* for the rows that ingestion rejected, which have no record.             *)
DownloadTellsStatus ==
  stream = "whole" =>
    /\ Cardinality(SentAs("SUCCEEDED")) >= answer.succeeded
    /\ Cardinality(SentAs("FAILED") \cup Rejected) >= answer.failed

(* A client that was told COMPLETED meets no file that is torn, still      *)
(* being written or unreadable: its download is a JSON array.              *)
CompletedDownloadParses ==
  answer.state = "COMPLETED" => stream # "garbled"
=============================================================================
