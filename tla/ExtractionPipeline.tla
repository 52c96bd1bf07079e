------------------------- MODULE ExtractionPipeline -------------------------
(***************************************************************************)
(* The asynchronous extraction pipeline of one tenant: the ProjectFile and *)
(* Job rows the API keeps in Postgres, the BullMQ queue and the worker of  *)
(* the processor, and the HTTP calls between the two.                      *)
(*                                                                         *)
(* One action is one database transaction of the API, one HTTP exchange,   *)
(* or one step of a worker attempt.  A transaction that holds a row lock   *)
(* while it calls the processor (retry_job, rerun_ifc_extraction) is one   *)
(* action: every handler that could observe it waits for the same lock.    *)
(* A transaction that reads without a lock is split at the read.           *)
(***************************************************************************)
EXTENDS Integers, FiniteSets

CONSTANTS
  Files,        \* ids of project files
  MaxJobs,      \* bound: job rows that may ever be created
  Requests,     \* API requests that can be in progress at one time
  Pdf,          \* the files that are PDFs: two jobs, extraction and page images
  Tampered,     \* files whose bytes do not have the hash the client claimed
  Limit,        \* max_concurrent_jobs_per_org
  MaxPosts,     \* POSTs of one dispatch (len(_RETRY_DELAYS) + 1)
  MaxAttempts,  \* BullMQ attempts
  MaxStalls,    \* JOB_MAX_STALLED_COUNT
  MaxLate,      \* bound: callbacks of abandoned attempts on their way
  NoFile, NoJob

ASSUME FilesAssumption ==
  /\ Pdf \subseteq Files /\ Tampered \subseteq Files
  /\ NoFile \notin Files
ASSUME BoundsAssumption ==
  /\ MaxJobs \in Nat /\ Limit \in Nat
  /\ MaxPosts \in Nat \ {0} /\ MaxAttempts \in Nat \ {0} /\ MaxStalls \in Nat
  /\ MaxLate \in Nat
ASSUME NoJobAssumption == NoJob \notin 1 .. MaxJobs

Jobs == 1 .. MaxJobs    \* in the order their rows are inserted

VARIABLES
  upload,      \* ProjectFile.status
  extraction,  \* ProjectFile.extraction_status
  status,      \* Job.status, "none" when there is no committed row
  retriable,   \* Job.retriable
  kind,        \* Job.job_type: the file's extraction, or its page images
  fileOf,      \* Job.file_id
  retryOf,     \* Job.retry_of
  origin,      \* the operation that created the job
  old,         \* jobs created before the sweep's cutoff
  skipped,     \* files a sweep left alone because their row was locked
  bull,        \* where BullMQ holds the job
  attempts,    \* BullMQ attemptsMade
  stalls,      \* BullMQ stalled count
  step,        \* what the worker is doing for the job
  transient,   \* classifyError(err).retriable of the attempt's last error
  late,        \* callbacks of abandoned attempts, still on their way
  req          \* requests in progress

rows   == <<status, retriable, kind, fileOf, retryOf, origin>>
files  == <<upload, extraction>>
queue  == <<bull, attempts, stalls>>
worker == <<step, transient>>
vars   == <<rows, files, old, skipped, queue, worker, late, req>>

-----------------------------------------------------------------------------
ActiveStatus   == {"pending", "running"}
TerminalStatus == {"succeeded", "failed", "cancelled"}
TerminalExtraction == {"succeeded", "failed"}
OpenExtraction     == {"queued", "running"}

(* A worker callback: `running`, `succeeded`, or `failed` with the         *)
(* `retriable` flag classifyError gave it.                                 *)
Outcomes == {"running", "succeeded", "transient", "permanent"}
FailedAs(isTransient) == IF isTransient THEN "transient" ELSE "permanent"

Active  == {j \in Jobs : status[j] \in ActiveStatus}
Created == {j \in Jobs : fileOf[j] # NoFile}    \* ids handed out
Fresh   == {j \in Jobs \ Created : \A k \in Jobs \ Created : j <= k}
(* Mutant: the comparison of check_job_concurrency is off by one.          *)
UnderLimitLoose == Cardinality(Active) <= Limit
UnderLimit == Cardinality(Active) < Limit

(* A request: what it does next, its file, the job it cancels; once it     *)
(* dispatches, the jobs still to be posted, those whose posts all failed,  *)
(* and the failed posts of the job at hand.                                *)
Request(op, f, j) ==
  [op |-> op, file |-> f, job |-> j, todo |-> {}, failed |-> {}, posts |-> 0]
Dispatching(f, todo, failed, posts) ==
  [op |-> "dispatch", file |-> f, job |-> NoJob,
   todo |-> todo, failed |-> failed, posts |-> posts]
Idle == Request("idle", NoFile, NoJob)

RowsTypeOK ==
  /\ upload \in [Files -> {"pending", "ready", "rejected"}]
  /\ extraction \in [Files -> {"not_started"} \cup OpenExtraction \cup TerminalExtraction]
  /\ status \in [Jobs -> {"none"} \cup ActiveStatus \cup TerminalStatus]
  /\ retriable \in [Jobs -> BOOLEAN]
  /\ kind \in [Jobs -> {"extraction", "pages"}]
  /\ fileOf \in [Jobs -> Files \cup {NoFile}]
  /\ retryOf \in [Jobs -> Jobs \cup {NoJob}]
  /\ origin \in [Jobs -> {"none", "upload", "retry", "rerun"}]
  /\ old \subseteq Jobs
  /\ skipped \subseteq Files

QueueTypeOK ==
  /\ bull \in [Jobs -> {"absent", "waiting", "active", "completed", "failed"}]
  /\ attempts \in [Jobs -> 0 .. MaxAttempts]
  /\ stalls \in [Jobs -> 0 .. MaxStalls + 1]
  /\ step \in [Jobs -> {"idle", "begin", "work", "good", "bad", "notify"}]
  /\ transient \in [Jobs -> BOOLEAN]
  /\ late \subseteq [job : Jobs, outcome : Outcomes]

RequestType ==
  [op : {"idle", "checked", "finalizing", "dispatch", "rerun", "cancel", "drop"},
   file : Files \cup {NoFile}, job : Jobs \cup {NoJob},
   todo : SUBSET Jobs, failed : SUBSET Jobs, posts : 0 .. MaxPosts]

RequestsTypeOK == req \in [Requests -> RequestType]

TypeOK == RowsTypeOK /\ QueueTypeOK /\ RequestsTypeOK

Init ==
  /\ upload = [f \in Files |-> "pending"]
  /\ extraction = [f \in Files |-> "not_started"]
  /\ status = [j \in Jobs |-> "none"]
  /\ retriable = [j \in Jobs |-> FALSE]
  /\ kind = [j \in Jobs |-> "extraction"]
  /\ fileOf = [j \in Jobs |-> NoFile]
  /\ retryOf = [j \in Jobs |-> NoJob]
  /\ origin = [j \in Jobs |-> "none"]
  /\ old = {} /\ skipped = {} /\ late = {}
  /\ bull = [j \in Jobs |-> "absent"]
  /\ attempts = [j \in Jobs |-> 0]
  /\ stalls = [j \in Jobs |-> 0]
  /\ step = [j \in Jobs |-> "idle"]
  /\ transient = [j \in Jobs |-> TRUE]
  /\ req = [r \in Requests |-> Idle]

-----------------------------------------------------------------------------
(* BullMQ and the two processor endpoints.                                 *)

(* queue.add with jobId = job_id: a no-op while BullMQ still has the id.   *)
Enqueue(j) ==
  IF bull[j] = "absent"
  THEN /\ bull' = [bull EXCEPT ![j] = "waiting"]
       /\ attempts' = [attempts EXCEPT ![j] = 0]
       /\ stalls' = [stalls EXCEPT ![j] = 0]
  ELSE UNCHANGED queue

(* removeQueuedJob: whatever is not active is removed, a finished job that *)
(* BullMQ retains and a job waiting out its backoff included.              *)
RemoveQueued(j) ==
  /\ bull[j] # "active"
  /\ bull' = [bull EXCEPT ![j] = "absent"]
  /\ UNCHANGED <<attempts, stalls>>

-----------------------------------------------------------------------------
(* The callback endpoints of the API.                                      *)

(* Mutant: the classification is written to the row as it comes.           *)
RowStatusRaw(o) == o
RowStatus(o) == IF o \in {"transient", "permanent"} THEN "failed" ELSE o

(* Mutant: the callback does not look whether the job row is terminal.     *)
ApplyJobUpdateAlways(j, o) ==
  /\ status' = [status EXCEPT ![j] = RowStatus(o)]
  /\ UNCHANGED retriable

(* The Job half of a callback: a terminal or unknown row is left alone.    *)
ApplyJobUpdate(j, o) ==
  IF status[j] \in ActiveStatus
  THEN /\ status' = [status EXCEPT ![j] = RowStatus(o)]
       /\ retriable' = IF RowStatus(o) = "failed"
                       THEN [retriable EXCEPT ![j] = (o = "transient")]
                       ELSE retriable
  ELSE UNCHANGED <<status, retriable>>

(* Mutant: only the job row is asked whether it is terminal.               *)
ExtractionCallbackReopening(j, o) ==
  /\ extraction' = [extraction EXCEPT ![fileOf[j]] = RowStatus(o)]
  /\ UNCHANGED upload
  /\ ApplyJobUpdate(j, o)

(* Mutant: the content hash is not compared.                               *)
ExtractionCallbackTrusting(j, o) ==
  IF extraction[fileOf[j]] \in TerminalExtraction
  THEN UNCHANGED <<files, status, retriable>>
  ELSE /\ extraction' = [extraction EXCEPT ![fileOf[j]] = RowStatus(o)]
       /\ UNCHANGED upload
       /\ ApplyJobUpdate(j, o)

(* extraction_callback: keyed by the file, a no-op on a settled file; a    *)
(* success whose hash is not the claimed one rejects the file.             *)
ExtractionCallback(j, o) ==
  LET f == fileOf[j]
      mismatch == o = "succeeded" /\ f \in Tampered
  IN IF extraction[f] \in TerminalExtraction
     THEN UNCHANGED <<files, status, retriable>>
     ELSE /\ extraction' = [extraction EXCEPT
                              ![f] = IF mismatch THEN "failed" ELSE RowStatus(o)]
          /\ upload' = [upload EXCEPT ![f] = IF mismatch THEN "rejected" ELSE @]
          /\ ApplyJobUpdate(j, o)

(* pages_rasterization_callback: drives the job only.                      *)
PagesCallback(j, o) == ApplyJobUpdate(j, o) /\ UNCHANGED files

Callback(j, o) ==
  IF kind[j] = "extraction" THEN ExtractionCallback(j, o) ELSE PagesCallback(j, o)

Lost == UNCHANGED <<files, status, retriable>>

(* The callback's answer never reaches the worker, whether or not the API  *)
(* handled the call.                                                       *)
Unanswered(j, o) == Callback(j, o) \/ Lost

-----------------------------------------------------------------------------
(* The worker: one attempt of a BullMQ job at a time.                      *)

rest == <<kind, fileOf, retryOf, origin, old, skipped, req>>

PickUp(j) ==
  /\ bull[j] = "waiting" /\ step[j] = "idle"
  /\ bull' = [bull EXCEPT ![j] = "active"]
  /\ step' = [step EXCEPT ![j] = "begin"]
  /\ UNCHANGED <<files, status, retriable, attempts, stalls, transient, late, rest>>

(* The attempt throws: BullMQ backs off and runs the job again unless the  *)
(* error is permanent (toBullError) or the attempts are used up.           *)
AttemptFails(j, isTransient) ==
  LET again == isTransient /\ attempts[j] + 1 < MaxAttempts
  IN /\ attempts' = [attempts EXCEPT ![j] = @ + 1]
     /\ bull' = [bull EXCEPT ![j] = IF again THEN "waiting" ELSE "failed"]
     /\ step' = [step EXCEPT ![j] = IF again THEN "idle" ELSE "notify"]
     /\ transient' = [transient EXCEPT ![j] = isTransient]
     /\ UNCHANGED stalls

(* The first `running` callback is posted before the pipeline's try block: *)
(* when it fails the attempt throws and no `failed` callback is posted.    *)
Begin(j) ==
  /\ step[j] = "begin"
  /\ \/ /\ Callback(j, "running")
        /\ step' = [step EXCEPT ![j] = "work"]
        /\ UNCHANGED <<queue, transient>>
     \/ Unanswered(j, "running") /\ AttemptFails(j, TRUE)
  /\ UNCHANGED <<late, rest>>

Fails(j, isTransient) ==
  /\ step' = [step EXCEPT ![j] = "bad"]
  /\ transient' = [transient EXCEPT ![j] = isTransient]
  /\ UNCHANGED queue

(* A progress callback; a POST that fails is caught like any other error.  *)
Progress(j) ==
  /\ step[j] = "work"
  /\ \/ Callback(j, "running") /\ UNCHANGED <<queue, worker>>
     \/ Unanswered(j, "running") /\ Fails(j, TRUE)
  /\ UNCHANGED <<late, rest>>

Finish(j) ==
  /\ step[j] = "work"
  /\ \/ step' = [step EXCEPT ![j] = "good"] /\ UNCHANGED <<queue, transient>>
     \/ \E t \in BOOLEAN : Fails(j, t)
  /\ UNCHANGED <<files, status, retriable, late, rest>>

ReportSuccess(j) ==
  /\ step[j] = "good"
  /\ \/ /\ Callback(j, "succeeded")
        /\ step' = [step EXCEPT ![j] = "idle"]
        /\ bull' = [bull EXCEPT ![j] = "completed"]
        /\ UNCHANGED <<attempts, stalls, transient>>
     \/ Unanswered(j, "succeeded") /\ Fails(j, TRUE)
  /\ UNCHANGED <<late, rest>>

(* The catch block posts `failed` on every attempt and rethrows; when that *)
(* POST fails, its own (transient) error replaces the original one.        *)
ReportFailure(j) ==
  /\ step[j] = "bad"
  /\ LET o == FailedAs(transient[j])
     IN \/ Callback(j, o) /\ AttemptFails(j, transient[j])
        \/ Unanswered(j, o) /\ AttemptFails(j, TRUE)
  /\ UNCHANGED <<late, rest>>

(* notifyTerminalFailure: one last `failed` callback, best effort.         *)
NotifyTerminalFailure(j) ==
  /\ step[j] = "notify"
  /\ Unanswered(j, FailedAs(transient[j]))
  /\ step' = [step EXCEPT ![j] = "idle"]
  /\ transient' = [transient EXCEPT ![j] = TRUE]
  /\ UNCHANGED <<queue, late, rest>>

(* What an attempt that lost its lock may still send.                      *)
Unsent(j) ==
  CASE step[j] \in {"begin", "work"} -> Outcomes
    [] step[j] = "good" -> {"succeeded", "transient"}
    [] OTHER -> {FailedAs(transient[j])}

(* The worker dies, or its lock lapses while the attempt goes on: BullMQ   *)
(* reclaims the job, MaxStalls times.  Past that it fails the job, and     *)
(* whether the failed listener then takes it for terminal is BullMQ's.     *)
Stall(j) ==
  /\ bull[j] = "active"
  /\ stalls' = [stalls EXCEPT ![j] = @ + 1]
  /\ \/ late' = late
     \/ /\ Cardinality(late) < MaxLate
        /\ \E o \in Unsent(j) : late' = late \cup {[job |-> j, outcome |-> o]}
  /\ IF stalls[j] < MaxStalls
     THEN /\ bull' = [bull EXCEPT ![j] = "waiting"]
          /\ step' = [step EXCEPT ![j] = "idle"]
     ELSE /\ bull' = [bull EXCEPT ![j] = "failed"]
          /\ \E s \in {"idle", "notify"} : step' = [step EXCEPT ![j] = s]
  /\ transient' = [transient EXCEPT ![j] = TRUE]
  /\ UNCHANGED <<files, status, retriable, attempts, rest>>

LateCallback(m) ==
  /\ m \in late
  /\ late' = late \ {m}
  /\ Unanswered(m.job, m.outcome)
  /\ UNCHANGED <<queue, worker, rest>>

-----------------------------------------------------------------------------
(* API operations that create jobs.                                        *)

(* Mutant: the job fails and its file is forgotten.                        *)
FailResourceNever(S) == UNCHANGED extraction

(* _fail_file: the file of an extraction fails with its job.               *)
FailResource(S) ==
  extraction' = [f \in Files |->
                   IF \E j \in S : kind[j] = "extraction" /\ fileOf[j] = f
                   THEN "failed" ELSE extraction[f]]

Requeue(f) ==
  /\ extraction' = [extraction EXCEPT ![f] = "queued"]
  /\ skipped' = skipped \ {f}

(* Mutant: the job that is retried stays retriable.                        *)
InsertJobBeside(k, f, st, why, parent) ==
  /\ status' = [status EXCEPT ![k] = st]
  /\ retriable' = [retriable EXCEPT ![k] = (st = "failed")]
  /\ fileOf' = [fileOf EXCEPT ![k] = f]
  /\ retryOf' = [retryOf EXCEPT ![k] = parent]
  /\ origin' = [origin EXCEPT ![k] = why]

(* A Job row for an extraction; `parent` loses its retriable flag.         *)
InsertJob(k, f, st, why, parent) ==
  /\ status' = [status EXCEPT ![k] = st]
  /\ retriable' = [j \in Jobs |-> IF j = k THEN st = "failed"
                                  ELSE retriable[j] /\ j # parent]
  /\ fileOf' = [fileOf EXCEPT ![k] = f]
  /\ retryOf' = [retryOf EXCEPT ![k] = parent]
  /\ origin' = [origin EXCEPT ![k] = why]

(* dispatch_job inside the transaction that inserts the row.  The POST is  *)
(* repeated until it is acknowledged; when it never is, the worker may     *)
(* have the job all the same.  When the API dies after the POST the row is *)
(* rolled back, and BullMQ holds a job the database knows nothing of.      *)
InsertAndDispatch(k, f, why, parent) ==
  \/ /\ InsertJob(k, f, "pending", why, parent)
     /\ Requeue(f)
     /\ Enqueue(k)
  \/ /\ InsertJob(k, f, "failed", why, parent)
     /\ extraction' = [extraction EXCEPT ![f] = "failed"]
     /\ Enqueue(k) \/ UNCHANGED queue
     /\ UNCHANGED skipped
  \/ /\ Enqueue(k)
     /\ fileOf' = [fileOf EXCEPT ![k] = f]
     /\ UNCHANGED <<status, retriable, retryOf, origin, extraction, skipped>>

(* retry_job: the guards are evaluated under the old job's row lock; page  *)
(* images are not in _RESOURCE_OPS.                                        *)
RetryJob(j) ==
  /\ status[j] = "failed" /\ retriable[j]
  /\ kind[j] = "extraction"
  /\ UnderLimit
  /\ \E k \in Fresh : InsertAndDispatch(k, fileOf[j], "retry", j)
  /\ UNCHANGED <<upload, kind, old, worker, late, req>>

(* The failed job retry_extraction picks: the latest created_at, of any    *)
(* job_type.  The two jobs of a PDF upload are inserted in one transaction *)
(* and share it.                                                           *)
SameInstant(j, k) ==
  /\ origin[j] = "upload" /\ origin[k] = "upload" /\ fileOf[j] = fileOf[k]
  /\ kind[j] # kind[k] /\ (j = k + 1 \/ k = j + 1)
LatestFailed(f) ==
  LET failedJobs == {j \in Jobs : fileOf[j] = f /\ status[j] = "failed"}
  IN {j \in failedJobs : \A k \in failedJobs : k <= j \/ SameInstant(j, k)}

RetryExtraction(f) ==
  /\ upload[f] = "ready" /\ extraction[f] = "failed"
  /\ \E j \in LatestFailed(f) : RetryJob(j)

StartRequest(r, op, f, j) ==
  /\ req[r] = Idle
  /\ req' = [req EXCEPT ![r] = Request(op, f, j)]

EndRequest(r) == req' = [req EXCEPT ![r] = Idle]

(* A change of the document's discipline reads its extracted head version, *)
(* without a lock, and re-runs its extraction.                             *)
RerunRead(r, f) ==
  /\ upload[f] = "ready" /\ extraction[f] = "succeeded" /\ f \notin Pdf
  /\ StartRequest(r, "rerun", f, NoJob)
  /\ UNCHANGED <<files, rows, old, skipped, queue, worker, late>>

(* rerun_ifc_extraction, under the file's row lock: a job in flight is     *)
(* returned instead of a new one.                                          *)
InFlight(f) == extraction[f] \in OpenExtraction /\ \E j \in Active : fileOf[j] = f

RerunExtraction(r) ==
  /\ req[r].op = "rerun"
  /\ LET f == req[r].file
     IN IF InFlight(f) \/ ~UnderLimit
        THEN UNCHANGED <<rows, extraction, skipped, queue>>
        ELSE \E k \in Fresh :
               InsertAndDispatch(k, f, "rerun", NoJob) /\ UNCHANGED kind
  /\ EndRequest(r)
  /\ UNCHANGED <<upload, old, worker, late>>

(* complete_upload, phases 1 and 2.                                        *)
CompleteCheck(r, f) ==
  /\ upload[f] = "pending"
  /\ StartRequest(r, "checked", f, NoJob)
  /\ UNCHANGED <<files, rows, old, skipped, queue, worker, late>>

(* Phase 3 re-reads the row, without a lock ...                            *)
CompleteRead(r) ==
  /\ req[r].op = "checked"
  /\ LET f == req[r].file
     IN IF upload[f] = "pending"
        THEN req' = [req EXCEPT ![r] = Request("finalizing", f, NoJob)]
        ELSE EndRequest(r)
  /\ UNCHANGED <<files, rows, old, skipped, queue, worker, late>>

(* ... rejects bytes of the wrong type ...                                 *)
CompleteReject(r) ==
  /\ req[r].op = "finalizing"
  /\ upload' = [upload EXCEPT ![req[r].file] = "rejected"]
  /\ EndRequest(r)
  /\ UNCHANGED <<extraction, rows, old, skipped, queue, worker, late>>

(* ... or inserts the jobs, after one check of the limit.                  *)
CompleteAccept(r) ==
  /\ req[r].op = "finalizing"
  /\ UnderLimit
  /\ LET f == req[r].file
     IN \E k \in Fresh :
          LET new == IF f \in Pdf THEN {k, k + 1} ELSE {k}
          IN /\ new \subseteq Jobs
             /\ upload' = [upload EXCEPT ![f] = "ready"]
             /\ Requeue(f)
             /\ status' = [j \in Jobs |-> IF j \in new THEN "pending" ELSE status[j]]
             /\ fileOf' = [j \in Jobs |-> IF j \in new THEN f ELSE fileOf[j]]
             /\ origin' = [j \in Jobs |-> IF j \in new THEN "upload" ELSE origin[j]]
             /\ kind' = [j \in Jobs |-> IF j \in new \ {k} THEN "pages" ELSE kind[j]]
             /\ req' = [req EXCEPT ![r] = Dispatching(f, new, {}, 0)]
  /\ UNCHANGED <<retriable, retryOf, old, queue, worker, late>>

(* At the limit the request fails with 429 and the transaction rolls back. *)
CompleteRefused(r) ==
  /\ req[r].op = "finalizing" /\ ~UnderLimit
  /\ EndRequest(r)
  /\ UNCHANGED <<files, rows, old, skipped, queue, worker, late>>

(* Phase 4, one POST: acknowledged, or tried again until MaxPosts.         *)
DispatchPost(r) ==
  /\ req[r].op = "dispatch"
  /\ \E j \in req[r].todo :
       /\ kind[j] = "pages" => \A k \in req[r].todo : kind[k] = "pages"
       /\ LET f == req[r].file
              left == req[r].todo \ {j}
              failed == req[r].failed
              posts == req[r].posts + 1
          IN \/ /\ Enqueue(j)
                /\ IF left = {} /\ failed = {}
                   THEN EndRequest(r)
                   ELSE req' = [req EXCEPT ![r] = Dispatching(f, left, failed, 0)]
             \/ /\ Enqueue(j) \/ UNCHANGED queue
                /\ req' = [req EXCEPT
                             ![r] = IF posts = MaxPosts
                                    THEN Dispatching(f, left, failed \cup {j}, 0)
                                    ELSE Dispatching(f, req[r].todo, failed, posts)]
  /\ UNCHANGED <<files, rows, old, skipped, worker, late>>

(* Phase 5: a job that could not be dispatched is failed, whatever became  *)
(* of it since; the primary one takes the file with it.                    *)
RecordDispatchFailure(r) ==
  /\ req[r].op = "dispatch" /\ req[r].todo = {}
  /\ LET failed == req[r].failed
     IN /\ status' = [j \in Jobs |-> IF j \in failed THEN "failed" ELSE status[j]]
        /\ retriable' = [j \in Jobs |-> j \in failed \/ retriable[j]]
        /\ FailResource(failed)
  /\ EndRequest(r)
  /\ UNCHANGED <<upload, kind, fileOf, retryOf, origin, old, skipped, queue, worker, late>>

-----------------------------------------------------------------------------
(* cancel_job: an unlocked read, the processor's answer, the write.        *)

CancelRead(r, j) ==
  /\ status[j] = "pending"
  /\ StartRequest(r, "cancel", fileOf[j], j)
  /\ UNCHANGED <<files, rows, old, skipped, queue, worker, late>>

CancelAsk(r) ==
  /\ req[r].op = "cancel"
  /\ LET j == req[r].job
     IN \/ RemoveQueued(j) /\ req' = [req EXCEPT ![r] = Request("drop", fileOf[j], j)]
        \/ RemoveQueued(j) /\ EndRequest(r)          \* the answer is lost
        \/ UNCHANGED queue /\ EndRequest(r)          \* 409, or not reached
  /\ UNCHANGED <<files, rows, old, skipped, worker, late>>

CancelWrite(r) ==
  /\ req[r].op = "drop"
  /\ LET j == req[r].job
     IN /\ status' = [status EXCEPT ![j] = "cancelled"]
        /\ FailResource({j})
  /\ EndRequest(r)
  /\ UNCHANGED <<upload, retriable, kind, fileOf, retryOf, origin,
                 old, skipped, queue, worker, late>>

(* The API process dies in the middle of a request.                        *)
ApiCrash(r) ==
  /\ req[r] # Idle
  /\ EndRequest(r)
  /\ UNCHANGED <<files, rows, old, skipped, queue, worker, late>>

-----------------------------------------------------------------------------
(* The reconciliation sweep.                                               *)

(* Time passes: every row is now older than the sweep's cutoff.            *)
Age ==
  /\ old # Created
  /\ old' = Created
  /\ UNCHANGED <<files, rows, skipped, queue, worker, late, req>>

(* Mutants: the sweep takes every old row, or forgets the pending ones.    *)
StuckAnyStatus == Created \cap old
StuckRunning == {j \in old : status[j] = "running"}

Stuck == Active \cap old

(* Mutant: no cascade.                                                     *)
CascadeNone(reaped) == {}

(* The files a sweep fails with the jobs it reaps, of whatever job_type.   *)
Cascade(reaped) ==
  {f \in Files : extraction[f] \in OpenExtraction /\ \E j \in reaped : fileOf[j] = f}

(* _sweep_org: the stuck jobs whose rows are not locked are failed, and    *)
(* then the files of the cascade that are not (FOR UPDATE SKIP LOCKED      *)
(* twice).                                                                 *)
Sweep(reaped, locked) ==
  /\ reaped # {} /\ reaped \subseteq Stuck
  /\ status' = [j \in Jobs |-> IF j \in reaped THEN "failed" ELSE status[j]]
  /\ extraction' = [f \in Files |-> IF f \in Cascade(reaped) \ locked THEN "failed"
                                    ELSE extraction[f]]
  /\ skipped' = skipped \cup (Cascade(reaped) \cap locked)
  /\ UNCHANGED <<upload, retriable, kind, fileOf, retryOf, origin,
                 old, queue, worker, late, req>>

SweepUncontended == Sweep(Stuck, {})

-----------------------------------------------------------------------------
WorkerStep(j) ==
  \/ PickUp(j) \/ Begin(j) \/ Progress(j) \/ Finish(j) \/ ReportSuccess(j)
  \/ ReportFailure(j) \/ NotifyTerminalFailure(j) \/ Stall(j)

RequestStep(r) ==
  \/ \E f \in Files : CompleteCheck(r, f) \/ RerunRead(r, f)
  \/ \E j \in Jobs : CancelRead(r, j)
  \/ CompleteRead(r) \/ CompleteReject(r) \/ CompleteAccept(r)
  \/ CompleteRefused(r) \/ DispatchPost(r) \/ RecordDispatchFailure(r)
  \/ RerunExtraction(r) \/ CancelAsk(r) \/ CancelWrite(r) \/ ApiCrash(r)

Next ==
  \/ \E j \in Jobs : WorkerStep(j) \/ RetryJob(j)
  \/ \E f \in Files : RetryExtraction(f)
  \/ \E r \in Requests : RequestStep(r)
  \/ \E m \in late : LateCallback(m)
  \/ Age
  \/ SweepUncontended
  \/ \E reaped \in SUBSET Jobs, locked \in SUBSET Files : Sweep(reaped, locked)

Spec == Init /\ [][Next]_vars

(* Time passes, and the periodic sweep goes on; nothing else is assumed to *)
(* happen.                                                                 *)
FairSpec == Spec /\ WF_vars(Age) /\ WF_vars(SweepUncontended)

-----------------------------------------------------------------------------
(* What the pipeline guarantees.                                           *)

(* check_job_concurrency keeps an organization's active jobs within the    *)
(* limit, plus one where there are PDFs: their upload inserts two jobs     *)
(* after one check.  The advisory lock of the check is taken as given.     *)
WithinCap == Cardinality(Active) <= Limit + (IF Pdf = {} THEN 0 ELSE 1)

(* A file that shows as queued or running has an extraction job that can   *)
(* still end it (or that the sweep will reap), unless a sweep reaped the   *)
(* job and skipped the file because its row was locked.                    *)
OpenFileHasJob ==
  \A f \in Files :
    extraction[f] \in OpenExtraction /\ f \notin skipped =>
      \E j \in Active : kind[j] = "extraction" /\ fileOf[j] = f

(* A job that was retried stays down: no callback of one of its attempts,  *)
(* however late, makes the old row succeed or run beside its retry.        *)
SupersededStaysDown ==
  \A k \in Jobs :
    retryOf[k] # NoJob => status[retryOf[k]] \in {"failed", "cancelled"}

(* Bytes that do not have the hash the client claimed never become an      *)
(* extracted file, whichever attempt, retry or re-run reports them.        *)
TamperedNeverExtracted == \A f \in Tampered : extraction[f] # "succeeded"

(* A job that failed and that a retry is taking up.                        *)
TakenUp(j, f) ==
  fileOf[j] = f /\ status[j] = "failed" /\ retriable[j] /\ ~retriable'[j]

(* Sweeps, callbacks and the worker's last-resort notification never take  *)
(* a finished extraction away, nor does any step but these: a cancellation *)
(* of a job of that very file, a failed dispatch, a re-run, the completion *)
(* of its upload that another completion had overtaken, and a retry of a   *)
(* job that had failed beside the one that succeeded and still counts as   *)
(* retriable.  The file fails or is extracted again from the queue on.     *)
FinishedExtractionSurvives ==
  [][\A f \in Files :
       extraction[f] = "succeeded" /\ extraction'[f] # "succeeded" =>
         /\ extraction'[f] \in {"queued", "failed"}
         /\ \/ \E j \in Jobs : TakenUp(j, f)
            \/ \E r \in Requests :
                 /\ req[r].file = f /\ req'[r] # req[r]
                 /\ \/ req[r].op \in {"drop", "rerun"}
                    \/ req[r].op = "dispatch" /\ req[r].failed # {}
                    \/ req[r].op = "finalizing" /\ upload[f] # "pending"]_vars

(* The extractions of a file that run, wait or may be retried by hand.      *)
Live(f) ==
  {j \in Jobs : /\ fileOf[j] = f /\ kind[j] = "extraction"
                /\ status[j] \in ActiveStatus \/ (status[j] = "failed" /\ retriable[j])}
AtMostOne(S) == \A i, j \in S : i = j

(* A retry takes the place of the job it repeats and a re-run returns the  *)
(* job in flight: a file gets a second live extraction only when the       *)
(* completion of an upload is overtaken by another, when phase 5 fails a   *)
(* job that another one replaced meanwhile, or when a re-run finds the     *)
(* file settled or skipped while a job of it lives on.                     *)
SecondExtractionNeedsARace ==
  [][\A f \in Files :
       AtMostOne(Live(f)) /\ ~AtMostOne(Live(f)') =>
         \E r \in Requests :
           /\ req[r].file = f /\ req'[r] # req[r]
           /\ \/ req[r].op = "finalizing" /\ upload[f] # "pending"
              \/ req[r].op = "dispatch" /\ req[r].failed \ Live(f) # {}
              \/ /\ req[r].op = "rerun"
                 /\ extraction[f] \in TerminalExtraction \/ f \in skipped]_vars

(* No interleaving of callbacks, sweeps, cancellations and dispatch        *)
(* failures brings a terminal job row back to life.                        *)
TerminalStaysTerminal ==
  [][\A j \in Jobs : status[j] \in TerminalStatus => status'[j] \in TerminalStatus]_vars

(* The rows are what the abstract JobRecord allows a client to see.        *)
Record == INSTANCE JobRecord WITH Jobs <- Jobs, status <- status, retriable <- retriable
ImplementsJobRecord == Record!Spec

(* Whatever is lost, crashed or never dispatched, the sweep ends every job *)
(* row.                                                                    *)
EveryJobSettles ==
  \A j \in Jobs : status[j] \in ActiveStatus ~> status[j] \in TerminalStatus

(* ... and with it the file, unless its row was locked when it was reaped. *)
EveryFileSettles ==
  \A f \in Files :
    extraction[f] \in OpenExtraction ~>
      (extraction[f] \in TerminalExtraction \/ f \in skipped)

=============================================================================
