----------------------------- MODULE Documents -----------------------------
(***************************************************************************)
(* The versions of one document: retrieval/pipeline.py, storage.py,          *)
(* jobs/handlers.py and the upload route of api/documents.py.                *)
(*                                                                          *)
(* Processing is a job that several workers may run at once after a lease    *)
(* was lost.  It reads and extracts the file between two transactions and    *)
(* moves it, or a rejection deletes it, before its transaction commits: files *)
(* do not roll back.  The job is finished in a third transaction.            *)
(* Claims are those of JobQueue with one fencing owner per version.          *)
(*                                                                          *)
(* Meanwhile an agent searches the document and stores a result that cites   *)
(* what it found: retrieval/search.py, orchestration/validation.py.          *)
(***************************************************************************)
EXTENDS Integers, FiniteSets, FiniteSetsExt

CONSTANTS Versions,     \* uploads of the document, each with its own content
          Workers,
          MaxAttempts,  \* jobs.max_attempts
          NoWorker

VARIABLES
  status,    \* document_versions.status; ABSENT before the row commits
  number,    \* document_versions.version_no, 0 before it is chosen
  file,      \* where the upload's bytes are
  chunks,    \* versions whose chunks are stored
  job,       \* document.process: NONE, READY, LEASED, DONE, FAILED
  attempt,   \* jobs.attempt
  owner,     \* the worker that holds the current lease token
  work,      \* what each worker does with the version
  found,     \* ACTIVE versions its second transaction saw
  hits,      \* versions with passages that searches returned to the agent
  cited      \* versions the stored result cites

citations == <<hits, cited>>
rows == <<status, number, chunks>>
lease == <<job, attempt, owner>>
vars == <<status, number, file, chunks, job, attempt, owner, work, found, hits, cited>>

\* document_versions: rows that exist have different numbers.
VersionRows ==
  /\ status \in [Versions -> {"ABSENT", "QUARANTINE", "PROCESSING", "ACTIVE",
                          "REJECTED", "SUPERSEDED"}]
  /\ number \in [Versions -> 0..Cardinality(Versions)]
  /\ \A v, x \in Versions :
       v # x /\ status[v] # "ABSENT" /\ status[x] # "ABSENT" => number[v] # number[x]

\* chunks: each references a version that exists.
ChunkRows == chunks \subseteq {v \in Versions : status[v] # "ABSENT"}

\* jobs; a REFUSED upload has none.
JobRows ==
  /\ job \in [Versions -> {"NONE", "REFUSED", "READY", "LEASED", "DONE", "FAILED"}]
  /\ attempt \in [Versions -> 0..MaxAttempts]
  /\ owner \in [Versions -> Workers \cup {NoWorker}]

TypeOK ==
  /\ VersionRows /\ ChunkRows /\ JobRows
  /\ file \in [Versions -> {"none", "quarantine", "store"}]
  /\ found \in [Versions -> [Workers -> SUBSET Versions]]
  /\ hits \subseteq Versions
  /\ cited \subseteq Versions

Terminal == {"ACTIVE", "REJECTED", "SUPERSEDED"}
Readable == {"ACTIVE", "SUPERSEDED"}

Init ==
  /\ status = [v \in Versions |-> "ABSENT"]
  /\ number = [v \in Versions |-> 0]
  /\ file = [v \in Versions |-> "none"]
  /\ chunks = {}
  /\ job = [v \in Versions |-> "NONE"]
  /\ attempt = [v \in Versions |-> 0]
  /\ owner = [v \in Versions |-> NoWorker]
  /\ work = [v \in Versions |-> [w \in Workers |-> "idle"]]
  /\ found = [v \in Versions |-> [w \in Workers |-> {}]]
  /\ hits = {}
  /\ cited = {}

Committed == {v \in Versions : status[v] # "ABSENT"}

Active == {v \in Versions : status[v] = "ACTIVE"}

\* Steps of the transactions that activate or reject, with their row locks.
UnderLock == {"activating", "moved", "rejecting", "hook rejecting"}

Locked(v) == \E w \in Workers : work[v][w] \in UnderLock

\* What the second transaction saw is forgotten with it.
Goto(v, w, step) ==
  /\ work' = [work EXCEPT ![v][w] = step]
  /\ found' = [found EXCEPT ![v][w] =
       IF step = "activating" THEN Active ELSE IF step = "moved" THEN @ ELSE {}]

------------------------------------------------------------------------------
(* Upload *)

\* _ingest: the next number is chosen and the file written, not committed.
Upload(v) ==
  /\ number[v] = 0
  /\ number' = [number EXCEPT ![v] =
       1 + Max({0} \cup {number[x] : x \in Committed})]
  /\ file' = [file EXCEPT ![v] = "quarantine"]
  /\ UNCHANGED <<status, chunks, lease, work, found, citations>>

\* create_document_upload: the row waits in quarantine with its job.
Enqueued(v) ==
  /\ job' = [job EXCEPT ![v] = "READY"]
  /\ status' = [status EXCEPT ![v] = "QUARANTINE"]

\* The upload commits.  A number that another upload took meanwhile violates
\* the unique constraint: the file is left over.
CommitUpload(v) ==
  /\ number[v] > 0
  /\ job[v] = "NONE"
  /\ IF \E x \in Committed : number[x] = number[v]
     THEN /\ job' = [job EXCEPT ![v] = "REFUSED"]
          /\ UNCHANGED status
     ELSE Enqueued(v)
  /\ UNCHANGED <<number, file, chunks, attempt, owner, work, found, citations>>

------------------------------------------------------------------------------
(* The job *)

\* A claim that exceeds the attempts fails the job and runs the hook.
Claim(v, w) ==
  /\ job[v] = "READY"
  /\ work[v][w] = "idle"
  /\ IF attempt[v] < MaxAttempts
     THEN /\ attempt' = [attempt EXCEPT ![v] = @ + 1]
          /\ job' = [job EXCEPT ![v] = "LEASED"]
          /\ owner' = [owner EXCEPT ![v] = w]
          /\ Goto(v, w, "begin")
     ELSE /\ job' = [job EXCEPT ![v] = "FAILED"]
          /\ owner' = [owner EXCEPT ![v] = NoWorker]
          /\ Goto(v, w, "hook")
          /\ UNCHANGED attempt
  /\ UNCHANGED <<rows, file, citations>>

\* The lease runs out under a worker that goes on, or died.
LeaseExpires(v) ==
  /\ job[v] = "LEASED"
  /\ job' = [job EXCEPT ![v] = "READY"]
  /\ owner' = [owner EXCEPT ![v] = NoWorker]
  /\ UNCHANGED <<rows, file, attempt, work, found, citations>>

\* A transaction under way is rolled back; the file stays where it is.
Crash(v, w) ==
  /\ work[v][w] # "idle"
  /\ Goto(v, w, "idle")
  /\ UNCHANGED <<rows, file, lease, citations>>

\* finish_in_transaction, fenced.
Finished(v, w) ==
  /\ Goto(v, w, "idle")
  /\ IF owner[v] = w
     THEN /\ job' = [job EXCEPT ![v] = "DONE"]
          /\ owner' = [owner EXCEPT ![v] = NoWorker]
     ELSE UNCHANGED <<job, owner>>
  /\ UNCHANGED attempt

\* The handler raised: retry, or fail and run the hook; nothing if fenced out.
Raised(v, w) ==
  /\ IF owner[v] # w
     THEN Goto(v, w, "idle") /\ UNCHANGED <<job, owner>>
     ELSE /\ owner' = [owner EXCEPT ![v] = NoWorker]
          /\ IF attempt[v] < MaxAttempts
             THEN job' = [job EXCEPT ![v] = "READY"] /\ Goto(v, w, "idle")
             ELSE job' = [job EXCEPT ![v] = "FAILED"] /\ Goto(v, w, "hook")
  /\ UNCHANGED attempt

\* handle_document_process's own transaction, after the version was settled.
Finish(v, w) ==
  /\ work[v][w] = "finishing"
  /\ Finished(v, w) \/ Raised(v, w)
  /\ UNCHANGED <<rows, file, citations>>

------------------------------------------------------------------------------
(* process_document_version *)

\* First transaction: an attempt after the version was settled does nothing.
Begin(v, w) ==
  /\ work[v][w] = "begin"
  /\ ~Locked(v)
  /\ IF status[v] \in Terminal
     THEN Goto(v, w, "finishing") /\ UNCHANGED status
     ELSE Goto(v, w, "read") /\ status' = [status EXCEPT ![v] = "PROCESSING"]
  /\ UNCHANGED <<number, file, chunks, lease, citations>>

\* read_quarantine; another attempt may have moved or removed the file.
Read(v, w) ==
  /\ work[v][w] = "read"
  /\ IF file[v] = "quarantine"
     THEN Goto(v, w, "extract") /\ UNCHANGED lease
     ELSE Raised(v, w)
  /\ UNCHANGED <<rows, file, citations>>

\* Extraction and embedding succeed, find the document unsupported or time
\* out, or raise.
Extract(v, w) ==
  /\ work[v][w] = "extract"
  /\ \/ Goto(v, w, "store") /\ UNCHANGED lease
     \/ Goto(v, w, "reject") /\ UNCHANGED lease
     \/ Raised(v, w)
  /\ UNCHANGED <<rows, file, citations>>

\* Second transaction, up to the SELECT of the previous ACTIVE version: it
\* sees what is committed now and then waits for the locks of what it saw.
Store(v, w) ==
  /\ work[v][w] = "store"
  /\ ~Locked(v)
  /\ Goto(v, w, IF status[v] = "PROCESSING" THEN "activating" ELSE "finishing")
  /\ UNCHANGED <<rows, file, lease, citations>>

\* Under the locks, rows that are no longer ACTIVE are dropped; one of the
\* others is superseded.
Previous(v, w) ==
  LET still == found[v][w] \cap Active
  IN  IF still = {} THEN {{}} ELSE {{x} : x \in still}

StatusesAfter(v, superseded) ==
  [x \in Versions |-> IF x = v THEN "ACTIVE" ELSE IF x \in superseded THEN "SUPERSEDED" ELSE status[x]]

\* storage.activate
Move(v, w) ==
  /\ work[v][w] = "activating"
  /\ file[v] = "quarantine"
  /\ file' = [file EXCEPT ![v] = "store"]
  /\ Goto(v, w, "moved")
  /\ UNCHANGED <<rows, lease, citations>>

\* COMMIT
Activate(v, w) ==
  /\ work[v][w] = "moved"
  /\ \E superseded \in Previous(v, w) : status' = StatusesAfter(v, superseded)
  /\ chunks' = chunks \cup {v}
  /\ Goto(v, w, "finishing")
  /\ UNCHANGED <<number, file, lease, citations>>

\* The move fails, or what follows it does (flush, audit, COMMIT): the rows
\* roll back, a moved file stays where it is.
ActivateFails(v, w) ==
  /\ work[v][w] \in {"activating", "moved"}
  /\ Raised(v, w)
  /\ UNCHANGED <<rows, file, citations>>

\* Where the caller goes on: the handler finishes its job, the hook is done.
Afterwards(v, w) ==
  IF work[v][w] \in {"reject", "rejecting"} THEN "finishing" ELSE "idle"

\* reject_document_version, called after extraction or by the exhaustion hook,
\* deletes the file while its row is locked ...
Rejecting(v, w) ==
  /\ file' = [file EXCEPT ![v] = IF @ = "quarantine" THEN "none" ELSE @]
  /\ Goto(v, w, IF work[v][w] = "reject" THEN "rejecting" ELSE "hook rejecting")

RejectUnguarded(v, w) ==
  /\ work[v][w] \in {"reject", "hook"}
  /\ ~Locked(v)
  /\ Rejecting(v, w)
  /\ UNCHANGED <<rows, lease, citations>>

\* ... unless the version is settled.
Reject(v, w) ==
  /\ work[v][w] \in {"reject", "hook"}
  /\ ~Locked(v)
  /\ IF status[v] \in Terminal
     THEN Goto(v, w, Afterwards(v, w)) /\ UNCHANGED file
     ELSE Rejecting(v, w)
  /\ UNCHANGED <<rows, lease, citations>>

\* The rejection commits ...
CommitReject(v, w) ==
  /\ work[v][w] \in {"rejecting", "hook rejecting"}
  /\ status' = [status EXCEPT ![v] = "REJECTED"]
  /\ Goto(v, w, Afterwards(v, w))
  /\ UNCHANGED <<number, file, chunks, lease, citations>>

\* ... or its audit, its notification or its COMMIT fails: the row rolls back,
\* the file is gone.  What the hook raises is swallowed.
RejectFails(v, w) ==
  /\ \/ work[v][w] = "rejecting" /\ Raised(v, w)
     \/ work[v][w] = "hook rejecting" /\ Goto(v, w, "idle") /\ UNCHANGED lease
  /\ UNCHANGED <<rows, file, citations>>

------------------------------------------------------------------------------
(* Search and citation *)

\* search: passages of ACTIVE versions only, committed ones.
Search(v) ==
  /\ cited = {}
  /\ v \in Active
  /\ v \in chunks
  /\ hits' = hits \cup {v}
  /\ UNCHANGED <<rows, file, lease, work, found, cited>>

\* _validate_document_evidence
IsEvidence(v) == status[v] \in Readable /\ v \in chunks

\* A result with any evidence that is none is refused; otherwise it is stored.
StoreResult ==
  /\ hits # {}
  /\ cited' = IF \A v \in hits : IsEvidence(v) THEN hits ELSE {}
  /\ hits' = {}
  /\ UNCHANGED <<rows, file, lease, work, found>>

\* get_citation: a superseded passage is shown only to a reader who names the
\* run, and only if a result of that run cites it.
Shown(v, namesRun) ==
  /\ v \in chunks
  /\ status[v] \in {"ACTIVE"} \cup (IF namesRun /\ v \in cited THEN {"SUPERSEDED"} ELSE {})

\* download_document_version
Downloadable(v) == status[v] \in Readable /\ file[v] = "store"

Next ==
  \/ StoreResult
  \/ \E v \in Versions :
       \/ Upload(v) \/ CommitUpload(v) \/ LeaseExpires(v) \/ Search(v)
       \/ \E w \in Workers :
            \/ Claim(v, w) \/ Crash(v, w) \/ Begin(v, w) \/ Read(v, w) \/ Extract(v, w)
            \/ Store(v, w) \/ Move(v, w) \/ Activate(v, w) \/ ActivateFails(v, w)
            \/ Reject(v, w) \/ CommitReject(v, w) \/ RejectFails(v, w) \/ Finish(v, w)

Spec == Init /\ [][Next]_vars

------------------------------------------------------------------------------
(* Properties *)

\* Whatever is served can be read (storage.py, process_document_version): an
\* ACTIVE or SUPERSEDED version has its chunks and its file in the store,
\* whichever attempts moved or deleted files and then failed.
\* So no result is refused because the document moved on after the search, and
\* what a stored result cites can be shown and downloaded ever after.
\* A version that still waits has its file in quarantine unless its job was
\* given up, and one that was rejected has neither chunks nor a quarantined file.
ServedIsStored ==
  /\ \A v \in Versions : status[v] \in Readable => Downloadable(v) /\ v \in chunks
  /\ \A v \in hits : IsEvidence(v)
  /\ \A v \in cited : Shown(v, TRUE) /\ Downloadable(v)
  /\ \A v \in Versions :
       status[v] = "QUARANTINE" => file[v] = "quarantine" \/ job[v] = "FAILED"
  /\ \A v \in Versions : status[v] = "REJECTED" => v \notin chunks /\ file[v] # "quarantine"

\* A document that was served stays served, and a settled version is not
\* processed again (process_document_version's terminal guards): stale workers,
\* rejections and activations of other versions only move ACTIVE to SUPERSEDED.
ServedStaysServed ==
  [][/\ Active # {} => \E v \in Versions : status'[v] = "ACTIVE"
     /\ \A v \in Versions : status[v] \in Terminal /\ status'[v] # status[v] =>
          status[v] = "ACTIVE" /\ status'[v] = "SUPERSEDED"]_vars

\* A version that is not settled still has its upload.  False: a rejection
\* deletes the file before it commits (pipeline.py:412); when it then fails in
\* the exhaustion hook, the version stays as it was without file or job.
WaitingHasFile ==
  \A v \in Versions : status[v] \in {"QUARANTINE", "PROCESSING"} => file[v] # "none" \/ Locked(v)

\* docs/architecture/state-machines.md, section 7: "At most one version of a
\* document is ACTIVE at a time, enforced in the activation transaction."
AtMostOneActive == Cardinality(Active) <= 1
=============================================================================
