---------------------- MODULE ExtractionPipeline_proofs ----------------------
(***************************************************************************)
(* Proofs about ExtractionPipeline, for any number of files, jobs and      *)
(* requests.  The inductive invariant has three parts, which the actions   *)
(* change independently of one another: the rows of the database, the      *)
(* queue with its workers, and the requests in progress.  That the rows    *)
(* implement JobRecord, and that active jobs keep within the limit, then   *)
(* follow from what a single step may write to the job rows: an id that    *)
(* was not handed out has no row, and a request names rows that exist.     *)
(* Which steps take a finished extraction away rests on a fourth part,     *)
(* that a request names the file of the jobs it will write (OwnInv), and   *)
(* on two more: a file has no job (StoredInv) and no extraction (Started)  *)
(* before its upload was completed.  Which ones give a file a second live  *)
(* extraction rests on the first two of these.                             *)
(***************************************************************************)
EXTENDS ExtractionPipeline, TLAPS, FiniteSetTheorems

-----------------------------------------------------------------------------
(* An id that was not handed out has no row and no BullMQ job; ids are     *)
(* handed out in order; a file without extraction has no jobs.             *)
RowsInv ==
  /\ RowsTypeOK
  /\ \A j \in Jobs : fileOf[j] = NoFile => status[j] = "none" /\ kind[j] = "extraction"
  /\ \A i, j \in Jobs : i < j /\ fileOf[j] # NoFile => fileOf[i] # NoFile
  /\ \A f \in Files : extraction[f] = "not_started" => \A j \in Jobs : fileOf[j] # f
  /\ OpenFileHasJob
  /\ SupersededStaysDown
  /\ TamperedNeverExtracted

(* An attempt is under way only on an active BullMQ job, which has an      *)
(* attempt and a stall left.                                               *)
QueueInv ==
  /\ QueueTypeOK
  /\ \A j \in Jobs : fileOf[j] = NoFile => bull[j] = "absent" /\ step[j] = "idle"
  /\ \A m \in late : fileOf[m.job] # NoFile
  /\ \A j \in Jobs :
       bull[j] \in {"waiting", "active"} => attempts[j] < MaxAttempts /\ stalls[j] <= MaxStalls
  /\ \A j \in Jobs : step[j] \in {"begin", "work", "good", "bad"} => bull[j] = "active"

(* A request names a file and jobs that exist.                             *)
RequestOK(q, st, ex) ==
  /\ q.op # "idle" => q.file \in Files
  /\ q.op = "rerun" => ex[q.file] # "not_started"
  /\ q.op \in {"cancel", "drop"} => q.job \in Jobs /\ st[q.job] # "none"
  /\ q.op = "dispatch" =>
       q.posts < MaxPosts /\ \A j \in q.todo \cup q.failed : st[j] # "none"

RequestsInv ==
  RequestsTypeOK /\ \A r \in Requests : RequestOK(req[r], status, extraction)

IInv == RowsInv /\ QueueInv /\ RequestsInv

-----------------------------------------------------------------------------
(* The rows: what a callback may do to them.                               *)

Advance ==
  /\ upload' \in [Files -> {"pending", "ready", "rejected"}]
  /\ extraction' \in [Files -> {"not_started"} \cup OpenExtraction \cup TerminalExtraction]
  /\ status' \in [Jobs -> {"none"} \cup ActiveStatus \cup TerminalStatus]
  /\ retriable' \in [Jobs -> BOOLEAN]
  /\ \A k \in Jobs : status[k] \notin ActiveStatus => status'[k] = status[k]
  /\ \A k \in Jobs : status[k] \in ActiveStatus => status'[k] # "none"
  /\ \A f \in Files : extraction'[f] = "not_started" => extraction[f] = "not_started"
  /\ \A f \in Files : extraction'[f] \in OpenExtraction =>
       /\ extraction[f] \in OpenExtraction
       /\ \A k \in Active : kind[k] = "extraction" /\ fileOf[k] = f => status'[k] \in ActiveStatus
  /\ \A f \in Tampered : extraction'[f] = "succeeded" => extraction[f] = "succeeded"

LEMMA StatusSets ==
  /\ ActiveStatus = {"pending", "running"} /\ OpenExtraction = {"queued", "running"}
  /\ \A o \in Outcomes : RowStatus(o) \in {"running", "succeeded", "failed"}
  /\ \A b \in BOOLEAN : FailedAs(b) \in Outcomes
  /\ "running" \in Outcomes /\ "succeeded" \in Outcomes
BY DEF ActiveStatus, OpenExtraction, Outcomes, RowStatus, FailedAs

(* A handled or lost callback of a job that exists advances the rows.      *)
LEMMA CallbackAdvances ==
  ASSUME RowsInv, NEW j \in Jobs, fileOf[j] # NoFile, NEW o \in Outcomes, Unanswered(j, o)
  PROVE  Advance
<1> DEFINE f == fileOf[j]
<1> USE StatusSets
<1>1. f \in Files /\ RowsTypeOK
  BY DEF RowsInv, RowsTypeOK
<1>2. extraction[f] # "not_started"
  BY <1>1 DEF RowsInv
<1>3. ASSUME ApplyJobUpdate(j, o)
      PROVE  /\ status' \in [Jobs -> {"none"} \cup ActiveStatus \cup TerminalStatus]
             /\ retriable' \in [Jobs -> BOOLEAN]
             /\ \A k \in Jobs : status[k] \notin ActiveStatus => status'[k] = status[k]
             /\ \A k \in Jobs \ {j} : status'[k] = status[k]
             /\ status[j] \in ActiveStatus => status'[j] = RowStatus(o)
  BY <1>1, <1>3 DEF ApplyJobUpdate, RowsTypeOK, ActiveStatus, TerminalStatus
<1>4. CASE Lost
  BY <1>1, <1>4 DEF Lost, files, Advance, RowsTypeOK, Active
<1>5. CASE Callback(j, o) /\ kind[j] = "extraction"
  <2>1. CASE extraction[f] \in TerminalExtraction
    BY <1>1, <1>5, <2>1 DEF Callback, ExtractionCallback, files, Advance, RowsTypeOK, Active
  <2>2. CASE extraction[f] \notin TerminalExtraction
    <3>1. /\ extraction' \in [Files -> {"not_started"} \cup OpenExtraction \cup TerminalExtraction]
          /\ \A g \in Files \ {f} : extraction'[g] = extraction[g]
          /\ extraction'[f] \in {"failed", RowStatus(o)}
          /\ f \in Tampered /\ o = "succeeded" => extraction'[f] = "failed"
          /\ ApplyJobUpdate(j, o)
      BY <1>1, <1>5, <2>2
      DEF Callback, ExtractionCallback, RowsTypeOK, TerminalExtraction, OpenExtraction
    <3>2. upload' \in [Files -> {"pending", "ready", "rejected"}]
      BY <1>1, <1>5, <2>2 DEF Callback, ExtractionCallback, RowsTypeOK
    <3>3. extraction[f] \in OpenExtraction
      BY <1>1, <1>2, <2>2 DEF RowsTypeOK
    <3>4. ASSUME NEW g \in Files, extraction'[g] \in OpenExtraction
          PROVE  /\ extraction[g] \in OpenExtraction
                 /\ \A k \in Active : kind[k] = "extraction" /\ fileOf[k] = g =>
                      status'[k] \in ActiveStatus
      <4>1. CASE g = f
        <5>1. RowStatus(o) = "running"
          BY <3>1, <3>4, <4>1 DEF RowStatus, Outcomes
        <5> QED
          BY <1>3, <3>1, <3>3, <4>1, <5>1 DEF Active
      <4>2. CASE g # f
        BY <1>3, <3>1, <3>4, <4>2 DEF Active
      <4> QED
        BY <4>1, <4>2
    <3>5. \A g \in Tampered : extraction'[g] = "succeeded" => extraction[g] = "succeeded"
      BY <3>1, FilesAssumption DEF RowStatus, Outcomes
    <3>6. \A g \in Files : extraction'[g] = "not_started" => extraction[g] = "not_started"
      BY <3>1 DEF RowStatus, Outcomes
    <3>7. \A k \in Jobs : status[k] \in ActiveStatus => status'[k] # "none"
      BY <1>3, <3>1
    <3> QED
      BY <1>3, <3>1, <3>2, <3>4, <3>5, <3>6, <3>7 DEF Advance
  <2> QED
    BY <2>1, <2>2
<1>6. CASE Callback(j, o) /\ kind[j] # "extraction"
  <2>1. ApplyJobUpdate(j, o) /\ UNCHANGED files
    BY <1>6 DEF Callback, PagesCallback
  <2>2. \A k \in Active : kind[k] = "extraction" => status'[k] \in ActiveStatus
    BY <1>3, <1>6, <2>1 DEF Active
  <2> QED
    BY <1>1, <1>3, <2>1, <2>2 DEF Advance, RowsTypeOK, files
<1> QED
  BY <1>4, <1>5, <1>6 DEF Unanswered

LEMMA AdvanceKeepsRows ==
  ASSUME RowsInv, Advance, UNCHANGED <<kind, fileOf, retryOf, origin, old, skipped>>
  PROVE  RowsInv'
<1>1. RowsTypeOK'
  BY DEF RowsInv, RowsTypeOK, Advance, ActiveStatus, TerminalStatus, TerminalExtraction, OpenExtraction
<1>2. /\ \A j \in Jobs : fileOf'[j] = NoFile => status'[j] = "none" /\ kind'[j] = "extraction"
      /\ \A f \in Files : extraction'[f] = "not_started" => \A j \in Jobs : fileOf'[j] # f
  BY DEF RowsInv, Advance, ActiveStatus
<1>3. OpenFileHasJob'
  BY DEF RowsInv, Advance, OpenFileHasJob, Active
<1>4. SupersededStaysDown'
  <2> SUFFICES ASSUME NEW k \in Jobs, retryOf[k] # NoJob
               PROVE  status'[retryOf[k]] \in {"failed", "cancelled"}
    BY DEF SupersededStaysDown
  <2>1. retryOf[k] \in Jobs /\ status[retryOf[k]] \in {"failed", "cancelled"}
    BY DEF RowsInv, RowsTypeOK, SupersededStaysDown
  <2> QED
    BY <2>1 DEF Advance, ActiveStatus
<1>5. TamperedNeverExtracted'
  BY DEF RowsInv, Advance, TamperedNeverExtracted
<1>6. \A i, j \in Jobs : i < j /\ fileOf'[j] # NoFile => fileOf'[i] # NoFile
  BY DEF RowsInv
<1> QED
  BY <1>1, <1>2, <1>3, <1>4, <1>5, <1>6 DEF RowsInv

LEMMA RowsUnchanged == RowsInv /\ UNCHANGED <<rows, files, old, skipped>> => RowsInv'
BY DEF RowsInv, RowsTypeOK, rows, files, OpenFileHasJob, SupersededStaysDown,
       TamperedNeverExtracted, Active

(* Rows that only grow leave the requests in progress alone.               *)
Grows ==
  /\ \A j \in Jobs : status[j] # "none" => status'[j] # "none"
  /\ \A f \in Files : extraction[f] # "not_started" => extraction'[f] # "not_started"

LEMMA AdvanceGrows == RowsInv /\ Advance => Grows
BY DEF Advance, Grows, RowsInv, ActiveStatus

LEMMA UnchangedGrows == UNCHANGED <<rows, files>> => Grows
BY DEF rows, files, Grows

LEMMA RequestsUnchanged == RequestsInv /\ Grows /\ UNCHANGED req => RequestsInv'
BY DEF RequestsInv, RequestsTypeOK, RequestType, RequestOK, Grows

(* A request that moves on leaves the others as they were.                 *)
LEMMA RequestMoves ==
  ASSUME RequestsInv, Grows, NEW r \in Requests, NEW q \in RequestType, RequestOK(q, status', extraction'),
         req' = [req EXCEPT ![r] = q]
  PROVE  RequestsInv'
<1>1. RequestsTypeOK'
  BY DEF RequestsInv, RequestsTypeOK
<1>2. ASSUME NEW s \in Requests, s # r PROVE RequestOK(req'[s], status', extraction')
  BY <1>2 DEF RequestsInv, RequestsTypeOK, RequestType, RequestOK, Grows
<1> QED
  BY <1>1, <1>2 DEF RequestsInv, RequestsTypeOK

LEMMA RequestFields ==
  ASSUME NEW op \in {"idle", "checked", "finalizing", "rerun", "cancel", "drop"},
         NEW f \in Files \cup {NoFile}, NEW j \in Jobs \cup {NoJob}
  PROVE  /\ Request(op, f, j) \in RequestType
         /\ Request(op, f, j).op = op /\ Request(op, f, j).file = f
         /\ Request(op, f, j).job = j
BY BoundsAssumption DEF Request, RequestType

LEMMA DispatchingFields ==
  ASSUME NEW f \in Files, NEW todo \in SUBSET Jobs, NEW failed \in SUBSET Jobs,
         NEW posts \in 0 .. MaxPosts
  PROVE  LET q == Dispatching(f, todo, failed, posts)
         IN /\ q \in RequestType
            /\ q.op = "dispatch" /\ q.file = f /\ q.todo = todo /\ q.failed = failed
            /\ q.posts = posts
BY DEF Dispatching, RequestType

LEMMA RequestEnds ==
  ASSUME RequestsInv, Grows, NEW r \in Requests, EndRequest(r)
  PROVE  RequestsInv'
<1>1. Idle \in RequestType /\ Idle.op = "idle"
  BY RequestFields DEF Idle
<1>2. RequestOK(Idle, status', extraction')
  BY <1>1 DEF RequestOK
<1> QED
  BY <1>1, <1>2, RequestMoves DEF EndRequest

-----------------------------------------------------------------------------
(* The queue and the workers.                                              *)

FilesKept == \A j \in Jobs : fileOf[j] # NoFile => fileOf'[j] # NoFile

LEMMA QueueUnchanged == QueueInv /\ FilesKept /\ UNCHANGED <<queue, worker, late>> => QueueInv'
<1> SUFFICES ASSUME QueueInv, FilesKept, UNCHANGED <<queue, worker, late>>
             PROVE  QueueInv'
  OBVIOUS
<1> QED
  BY DEF QueueInv, QueueTypeOK, FilesKept, queue, worker, Outcomes

LEMMA EnqueueKeepsQueue ==
  ASSUME QueueInv, FilesKept, UNCHANGED <<worker, late>>,
         NEW j \in Jobs, fileOf'[j] # NoFile, Enqueue(j)
  PROVE  QueueInv'
<1>1. CASE bull[j] = "absent"
  <2>1. step[j] \notin {"begin", "work", "good", "bad"}
    BY <1>1 DEF QueueInv
  <2>2. 0 < MaxAttempts /\ 0 <= MaxStalls /\ 0 \in 0 .. MaxAttempts /\ 0 \in 0 .. MaxStalls + 1
    BY BoundsAssumption
  <2>3. QueueTypeOK'
    BY <1>1, <2>2 DEF Enqueue, QueueInv, QueueTypeOK, worker, Outcomes
  <2> QED
    BY <1>1, <2>1, <2>2, <2>3 DEF Enqueue, QueueInv, QueueTypeOK, worker, FilesKept
<1>2. CASE bull[j] # "absent"
  BY <1>2, QueueUnchanged DEF Enqueue
<1> QED
  BY <1>1, <1>2

LEMMA AttemptFailsKeepsQueue ==
  ASSUME QueueInv, UNCHANGED <<fileOf, late>>, NEW j \in Jobs, NEW b \in BOOLEAN,
         step[j] \in {"begin", "bad"}, AttemptFails(j, b)
  PROVE  QueueInv'
<1>1. /\ bull[j] = "active" /\ fileOf[j] # NoFile
      /\ attempts[j] \in 0 .. MaxAttempts /\ attempts[j] < MaxAttempts
  BY DEF QueueInv, QueueTypeOK
<1>2. attempts[j] + 1 \in 0 .. MaxAttempts
  BY <1>1, BoundsAssumption
<1>3. QueueTypeOK'
  BY <1>2 DEF AttemptFails, QueueInv, QueueTypeOK, Outcomes
<1> QED
  BY <1>1, <1>3 DEF AttemptFails, QueueInv, QueueTypeOK

(* Every job a worker, a late callback or BullMQ holds exists.             *)
LEMMA HeldJobExists ==
  ASSUME QueueInv
  PROVE  /\ \A j \in Jobs : bull[j] # "absent" \/ step[j] # "idle" => fileOf[j] # NoFile
         /\ \A m \in late : m.job \in Jobs /\ m.outcome \in Outcomes /\ fileOf[m.job] # NoFile
BY DEF QueueInv, QueueTypeOK

-----------------------------------------------------------------------------
(* The worker's steps.                                                     *)

(* A worker step makes at most one callback, and leaves what only the API  *)
(* writes alone.                                                           *)
LEMMA CallbackStep ==
  ASSUME IInv, UNCHANGED rest, NEW j \in Jobs, fileOf[j] # NoFile, NEW o \in Outcomes,
         Unanswered(j, o)
  PROVE  RowsInv' /\ RequestsInv' /\ UNCHANGED fileOf
<1>1. Advance
  BY CallbackAdvances DEF IInv
<1> QED
  BY <1>1, AdvanceKeepsRows, AdvanceGrows, RequestsUnchanged DEF IInv, rest

LEMMA SilentStep ==
  ASSUME IInv, UNCHANGED rest, UNCHANGED <<files, status, retriable>>
  PROVE  RowsInv' /\ RequestsInv' /\ UNCHANGED fileOf
BY RowsUnchanged, UnchangedGrows, RequestsUnchanged DEF IInv, rest, rows

LEMMA PickUpInv == ASSUME IInv, NEW j \in Jobs, PickUp(j) PROVE IInv'
<1>1. QueueInv'
  BY DEF PickUp, IInv, QueueInv, QueueTypeOK, rest, Outcomes
<1> QED
  BY <1>1, SilentStep DEF PickUp, IInv

LEMMA BeginInv == ASSUME IInv, NEW j \in Jobs, Begin(j) PROVE IInv'
<1>1. Unanswered(j, "running") /\ UNCHANGED <<late, rest>> /\ step[j] = "begin"
  BY DEF Begin, Unanswered
<1>2. RowsInv' /\ RequestsInv' /\ UNCHANGED fileOf
  BY <1>1, CallbackStep, HeldJobExists, StatusSets DEF IInv
<1>3. CASE step' = [step EXCEPT ![j] = "work"] /\ UNCHANGED <<queue, transient>>
  BY <1>1, <1>2, <1>3 DEF IInv, QueueInv, QueueTypeOK, queue, Outcomes
<1>4. CASE AttemptFails(j, TRUE)
  BY <1>1, <1>2, <1>4, AttemptFailsKeepsQueue DEF IInv
<1> QED
  BY <1>2, <1>3, <1>4 DEF Begin, IInv

LEMMA FailsKeepsQueue ==
  ASSUME QueueInv, UNCHANGED <<fileOf, late>>, NEW j \in Jobs, NEW b \in BOOLEAN,
         step[j] \in {"work", "good"}, Fails(j, b)
  PROVE  QueueInv'
BY DEF Fails, QueueInv, QueueTypeOK, queue, Outcomes

LEMMA ProgressInv == ASSUME IInv, NEW j \in Jobs, Progress(j) PROVE IInv'
<1>1. Unanswered(j, "running") /\ UNCHANGED <<late, rest>> /\ step[j] = "work"
  BY DEF Progress, Unanswered
<1>2. RowsInv' /\ RequestsInv' /\ UNCHANGED fileOf
  BY <1>1, CallbackStep, HeldJobExists, StatusSets DEF IInv
<1>3. CASE UNCHANGED <<queue, worker>>
  BY <1>1, <1>2, <1>3, QueueUnchanged DEF IInv, FilesKept
<1>4. CASE Fails(j, TRUE)
  BY <1>1, <1>2, <1>4, FailsKeepsQueue DEF IInv
<1> QED
  BY <1>2, <1>3, <1>4 DEF Progress, IInv

LEMMA FinishInv == ASSUME IInv, NEW j \in Jobs, Finish(j) PROVE IInv'
<1>1. RowsInv' /\ RequestsInv' /\ UNCHANGED <<fileOf, late>> /\ step[j] = "work"
  BY SilentStep DEF Finish, rest
<1>2. CASE step' = [step EXCEPT ![j] = "good"] /\ UNCHANGED <<queue, transient>>
  BY <1>1, <1>2 DEF IInv, QueueInv, QueueTypeOK, queue, Outcomes
<1>3. ASSUME NEW t \in BOOLEAN, Fails(j, t) PROVE IInv'
  BY <1>1, <1>3, FailsKeepsQueue DEF IInv
<1> QED
  BY <1>1, <1>2, <1>3 DEF Finish, IInv

LEMMA ReportSuccessInv == ASSUME IInv, NEW j \in Jobs, ReportSuccess(j) PROVE IInv'
<1>1. Unanswered(j, "succeeded") /\ UNCHANGED <<late, rest>> /\ step[j] = "good"
  BY DEF ReportSuccess, Unanswered
<1>2. RowsInv' /\ RequestsInv' /\ UNCHANGED fileOf
  BY <1>1, CallbackStep, HeldJobExists, StatusSets DEF IInv
<1>3. CASE Fails(j, TRUE)
  BY <1>1, <1>2, <1>3, FailsKeepsQueue DEF IInv
<1>4. CASE ~ Fails(j, TRUE)
  BY <1>1, <1>2, <1>4, HeldJobExists DEF ReportSuccess, IInv, QueueInv, QueueTypeOK, Outcomes
<1> QED
  BY <1>2, <1>3, <1>4 DEF IInv

LEMMA ReportFailureInv == ASSUME IInv, NEW j \in Jobs, ReportFailure(j) PROVE IInv'
<1>1. transient[j] \in BOOLEAN
  BY DEF IInv, QueueInv, QueueTypeOK
<1>2. PICK b \in BOOLEAN : AttemptFails(j, b)
  BY <1>1 DEF ReportFailure
<1>3. /\ Unanswered(j, FailedAs(transient[j])) /\ FailedAs(transient[j]) \in Outcomes
      /\ UNCHANGED <<late, rest>> /\ step[j] = "bad"
  BY <1>1, StatusSets DEF ReportFailure, Unanswered
<1>4. RowsInv' /\ RequestsInv' /\ UNCHANGED fileOf
  BY <1>3, CallbackStep, HeldJobExists DEF IInv
<1> QED
  BY <1>2, <1>3, <1>4, AttemptFailsKeepsQueue DEF IInv

LEMMA NotifyInv == ASSUME IInv, NEW j \in Jobs, NotifyTerminalFailure(j) PROVE IInv'
<1>1. /\ Unanswered(j, FailedAs(transient[j])) /\ FailedAs(transient[j]) \in Outcomes
      /\ UNCHANGED <<late, rest>> /\ step[j] = "notify"
  BY StatusSets DEF NotifyTerminalFailure, IInv, QueueInv, QueueTypeOK
<1>2. RowsInv' /\ RequestsInv' /\ UNCHANGED fileOf
  BY <1>1, CallbackStep, HeldJobExists DEF IInv
<1>3. QueueInv'
  BY <1>1, <1>2 DEF NotifyTerminalFailure, IInv, QueueInv, QueueTypeOK, queue, Outcomes
<1> QED
  BY <1>2, <1>3 DEF IInv

LEMMA StallInv == ASSUME IInv, NEW j \in Jobs, Stall(j) PROVE IInv'
<1>1. RowsInv' /\ RequestsInv' /\ UNCHANGED <<fileOf, attempts>> /\ bull[j] = "active"
  BY SilentStep DEF Stall, rest
<1>2. /\ fileOf[j] # NoFile /\ attempts[j] < MaxAttempts
      /\ stalls[j] \in 0 .. MaxStalls + 1 /\ stalls[j] <= MaxStalls
  BY <1>1, HeldJobExists DEF IInv, QueueInv, QueueTypeOK
<1>3. /\ stalls[j] + 1 \in 0 .. MaxStalls + 1
      /\ stalls[j] < MaxStalls => stalls[j] + 1 <= MaxStalls
  BY <1>2, BoundsAssumption
<1>4. Unsent(j) \subseteq Outcomes
  BY StatusSets DEF Unsent, Outcomes, FailedAs
<1>5. late' \subseteq late \cup [job : {j}, outcome : Outcomes]
  BY <1>4 DEF Stall
<1>6. late' \subseteq [job : Jobs, outcome : Outcomes] /\ \A m \in late' : fileOf[m.job] # NoFile
  BY <1>2, <1>5 DEF IInv, QueueInv, QueueTypeOK
<1>7. QueueTypeOK'
  BY <1>1, <1>3, <1>6 DEF Stall, IInv, QueueInv, QueueTypeOK
<1>8. QueueInv'
  BY <1>1, <1>2, <1>3, <1>6, <1>7 DEF Stall, IInv, QueueInv, QueueTypeOK
<1> QED
  BY <1>1, <1>8 DEF IInv

LEMMA LateCallbackInv == ASSUME IInv, NEW m \in late, LateCallback(m) PROVE IInv'
<1>1. RowsInv' /\ RequestsInv' /\ UNCHANGED fileOf
  BY CallbackStep, HeldJobExists DEF LateCallback, IInv
<1>2. QueueInv'
  BY <1>1 DEF LateCallback, IInv, QueueInv, QueueTypeOK, queue, worker
<1> QED
  BY <1>1, <1>2 DEF IInv

-----------------------------------------------------------------------------
(* The API's operations that create a job.                                 *)

(* What a fresh id is.                                                     *)
LEMMA FreshId ==
  ASSUME IInv, NEW k \in Fresh
  PROVE  /\ k \in Jobs /\ fileOf[k] = NoFile /\ status[k] = "none" /\ kind[k] = "extraction"
         /\ \A i \in Jobs : i < k => fileOf[i] # NoFile
         /\ \A i \in Jobs : i > k => fileOf[i] = NoFile
         /\ \A i \in Jobs : retryOf[i] # k
<1>1. k \in Jobs /\ fileOf[k] = NoFile /\ \A i \in Jobs \ Created : k <= i
  BY DEF Fresh, Created
<1>2. \A i \in Jobs : i < k => fileOf[i] # NoFile
  BY <1>1 DEF Created, Jobs
<1>3. status[k] = "none" /\ kind[k] = "extraction"
  BY <1>1 DEF IInv, RowsInv
<1>4. \A i \in Jobs : i > k => fileOf[i] = NoFile
  BY <1>1 DEF IInv, RowsInv, Jobs
<1>5. \A i \in Jobs : retryOf[i] # k
  BY <1>1, <1>3, NoJobAssumption DEF IInv, RowsInv, SupersededStaysDown, Jobs
<1> QED
  BY <1>1, <1>2, <1>3, <1>4, <1>5

LEMMA InsertKeepsRows ==
  ASSUME IInv, NEW k \in Fresh, NEW f \in Files, NEW why \in {"retry", "rerun"},
         NEW parent \in Jobs \cup {NoJob},
         parent # NoJob => status[parent] = "failed",
         extraction[f] # "not_started",
         InsertAndDispatch(k, f, why, parent), UNCHANGED <<upload, kind, old>>
  PROVE  RowsInv' /\ Grows /\ FilesKept /\ fileOf'[k] # NoFile
<1>1. /\ k \in Jobs /\ fileOf[k] = NoFile /\ status[k] = "none" /\ kind[k] = "extraction"
      /\ \A i \in Jobs : i < k => fileOf[i] # NoFile
      /\ \A i \in Jobs : i > k => fileOf[i] = NoFile
      /\ \A i \in Jobs : retryOf[i] # k
  BY FreshId
<1>2. RowsInv /\ RowsTypeOK /\ f # NoFile /\ k # NoJob
  BY <1>1, FilesAssumption, NoJobAssumption DEF IInv, RowsInv, Jobs
<1>3. fileOf' = [fileOf EXCEPT ![k] = f]
  BY DEF InsertAndDispatch, InsertJob
<1>4. /\ \A j \in Jobs : fileOf'[j] = NoFile => fileOf[j] = NoFile /\ j # k
      /\ FilesKept /\ fileOf'[k] = f
      /\ \A i, j \in Jobs : i < j /\ fileOf'[j] # NoFile => fileOf'[i] # NoFile
  BY <1>1, <1>2, <1>3 DEF RowsInv, RowsTypeOK, FilesKept, Jobs
<1>5. CASE /\ fileOf' = [fileOf EXCEPT ![k] = f]
           /\ UNCHANGED <<status, retriable, retryOf, origin, extraction, skipped>>
  BY <1>1, <1>2, <1>4, <1>5
  DEF RowsInv, RowsTypeOK, Grows, OpenFileHasJob, SupersededStaysDown,
      TamperedNeverExtracted, Active, ActiveStatus
<1>6. ASSUME NEW st \in {"pending", "failed"}, InsertJob(k, f, st, why, parent),
             \/ st = "pending" /\ Requeue(f)
             \/ st = "failed" /\ extraction' = [extraction EXCEPT ![f] = "failed"]
                /\ UNCHANGED skipped
      PROVE  RowsInv' /\ Grows
  <2>1. /\ status' = [status EXCEPT ![k] = st] /\ retryOf' = [retryOf EXCEPT ![k] = parent]
        /\ origin' = [origin EXCEPT ![k] = why]
        /\ retriable' \in [Jobs -> BOOLEAN]
    BY <1>2, <1>6 DEF InsertJob, RowsTypeOK
  <2>2. /\ extraction' \in [Files -> {"not_started"} \cup OpenExtraction \cup TerminalExtraction]
        /\ skipped' \subseteq skipped /\ skipped \ {f} \subseteq skipped'
        /\ \A g \in Files \ {f} : extraction'[g] = extraction[g]
        /\ extraction'[f] = IF st = "pending" THEN "queued" ELSE "failed"
    BY <1>2, <1>6 DEF Requeue, RowsTypeOK, OpenExtraction, TerminalExtraction
  <2>3. RowsTypeOK'
    BY <1>1, <1>2, <1>3, <2>1, <2>2 DEF RowsTypeOK, ActiveStatus, TerminalStatus
  <2>4. OpenFileHasJob'
    <3> SUFFICES ASSUME NEW g \in Files, extraction'[g] \in OpenExtraction, g \notin skipped'
                 PROVE  \E j \in Jobs : /\ status'[j] \in ActiveStatus
                                        /\ kind'[j] = "extraction" /\ fileOf'[j] = g
      BY DEF OpenFileHasJob, Active
    <3>1. CASE g = f
      BY <1>1, <1>2, <1>4, <2>1, <2>2, <3>1 DEF RowsTypeOK, OpenExtraction, ActiveStatus
    <3>2. CASE g # f
      <4>1. PICK j \in Active : kind[j] = "extraction" /\ fileOf[j] = g
        BY <2>2, <3>2 DEF RowsInv, IInv, OpenFileHasJob
      <4>2. j \in Jobs /\ j # k /\ status[j] \in ActiveStatus
        BY <1>1, <4>1 DEF Active, ActiveStatus
      <4> QED
        BY <1>2, <1>3, <2>1, <4>1, <4>2 DEF RowsTypeOK
    <3> QED
      BY <3>1, <3>2
  <2>5. SupersededStaysDown'
    <3> SUFFICES ASSUME NEW j \in Jobs, retryOf'[j] # NoJob
                 PROVE  status'[retryOf'[j]] \in {"failed", "cancelled"}
      BY DEF SupersededStaysDown
    <3>1. CASE j = k
      BY <1>1, <1>2, <2>1, <3>1 DEF RowsTypeOK
    <3>2. CASE j # k
      <4>1. retryOf'[j] = retryOf[j] /\ retryOf[j] # NoJob /\ retryOf[j] # k
        BY <1>1, <1>2, <2>1, <3>2 DEF RowsTypeOK
      <4>2. retryOf[j] \in Jobs /\ status[retryOf[j]] \in {"failed", "cancelled"}
        BY <1>2, <4>1 DEF RowsInv, RowsTypeOK, SupersededStaysDown
      <4> QED
        BY <1>2, <2>1, <4>1, <4>2 DEF RowsTypeOK
    <3> QED
      BY <3>1, <3>2
  <2>6. TamperedNeverExtracted'
    BY <1>2, <2>2, FilesAssumption DEF RowsInv, TamperedNeverExtracted
  <2>7. \A j \in Jobs : fileOf'[j] = NoFile => status'[j] = "none" /\ kind'[j] = "extraction"
    BY <1>2, <1>4, <2>1 DEF RowsInv, RowsTypeOK
  <2>8. \A g \in Files : extraction'[g] = "not_started" => \A j \in Jobs : fileOf'[j] # g
    BY <1>2, <1>3, <2>2 DEF RowsInv, RowsTypeOK
  <2>9. Grows
    BY <1>1, <1>2, <2>1, <2>2 DEF Grows, RowsTypeOK
  <2> QED
    BY <1>4, <2>3, <2>4, <2>5, <2>6, <2>7, <2>8, <2>9 DEF RowsInv
<1> QED
  BY <1>2, <1>4, <1>5, <1>6 DEF InsertAndDispatch

LEMMA InsertKeepsQueue ==
  ASSUME IInv, NEW k \in Jobs, NEW f \in Files, NEW why, NEW parent,
         InsertAndDispatch(k, f, why, parent), FilesKept, fileOf'[k] # NoFile,
         UNCHANGED <<worker, late>>
  PROVE  QueueInv'
<1>1. Enqueue(k) \/ UNCHANGED queue
  BY DEF InsertAndDispatch
<1> QED
  BY <1>1, EnqueueKeepsQueue, QueueUnchanged DEF IInv

LEMMA RetryJobInv == ASSUME IInv, NEW j \in Jobs, RetryJob(j) PROVE IInv'
<1>1. PICK k \in Fresh : InsertAndDispatch(k, fileOf[j], "retry", j)
  BY DEF RetryJob
<1>2. /\ status[j] = "failed" /\ k \in Jobs
      /\ UNCHANGED <<upload, kind, old, worker, late, req>>
  BY FreshId DEF RetryJob
<1>3. fileOf[j] \in Files /\ extraction[fileOf[j]] # "not_started"
  BY <1>2 DEF IInv, RowsInv, RowsTypeOK
<1>4. RowsInv' /\ Grows /\ FilesKept /\ fileOf'[k] # NoFile
  BY <1>1, <1>2, <1>3, InsertKeepsRows
<1>5. QueueInv'
  BY <1>1, <1>2, <1>3, <1>4, InsertKeepsQueue
<1> QED
  BY <1>2, <1>4, <1>5, RequestsUnchanged DEF IInv

LEMMA RetryExtractionInv == ASSUME IInv, NEW f \in Files, RetryExtraction(f) PROVE IInv'
BY RetryJobInv DEF RetryExtraction, LatestFailed

LEMMA RerunExtractionInv == ASSUME IInv, NEW r \in Requests, RerunExtraction(r) PROVE IInv'
<1> DEFINE f == req[r].file
<1>1. f \in Files /\ extraction[f] # "not_started"
  BY DEF RerunExtraction, IInv, RequestsInv, RequestOK
<1>2. EndRequest(r) /\ UNCHANGED <<upload, old, worker, late>>
  BY DEF RerunExtraction
<1>3. CASE UNCHANGED <<rows, extraction, skipped, queue>>
  <2>1. RowsInv' /\ Grows
    BY <1>2, <1>3, RowsUnchanged, UnchangedGrows DEF IInv, files
  <2>2. QueueInv'
    BY <1>2, <1>3, QueueUnchanged DEF IInv, FilesKept, rows
  <2> QED
    BY <1>2, <2>1, <2>2, RequestEnds DEF IInv
<1>4. ASSUME NEW k \in Fresh, InsertAndDispatch(k, f, "rerun", NoJob), UNCHANGED kind
      PROVE  IInv'
  <2>1. k \in Jobs
    BY FreshId
  <2>2. RowsInv' /\ Grows /\ FilesKept /\ fileOf'[k] # NoFile
    BY <1>1, <1>2, <1>4, InsertKeepsRows
  <2>3. QueueInv'
    BY <1>1, <1>2, <1>4, <2>1, <2>2, InsertKeepsQueue
  <2> QED
    BY <1>2, <2>2, <2>3, RequestEnds DEF IInv
<1> QED
  BY <1>3, <1>4 DEF RerunExtraction

-----------------------------------------------------------------------------
(* Requests that take several steps.                                       *)

(* Steps that only move a request on.                                      *)
LEMMA OnlyRequest ==
  ASSUME IInv, RequestsInv', UNCHANGED <<files, rows, old, skipped, queue, worker, late>>
  PROVE  IInv'
BY RowsUnchanged, QueueUnchanged DEF IInv, FilesKept, rows

LEMMA RequestStarts ==
  ASSUME RequestsInv, NEW r \in Requests, NEW f \in Files, NEW j \in Jobs \cup {NoJob},
         NEW op \in {"checked", "rerun", "cancel"}, StartRequest(r, op, f, j),
         UNCHANGED <<status, extraction>>,
         op = "rerun" => extraction[f] # "not_started",
         op = "cancel" => j \in Jobs /\ status[j] # "none"
  PROVE  RequestsInv'
<1>1. RequestOK(Request(op, f, j), status', extraction')
  BY RequestFields DEF RequestOK
<1>2. Request(op, f, j) \in RequestType
  BY RequestFields
<1>3. req' = [req EXCEPT ![r] = Request(op, f, j)]
  BY DEF StartRequest
<1>4. Grows
  BY DEF Grows
<1> HIDE DEF Grows
<1> QED
  BY <1>1, <1>2, <1>3, <1>4, RequestMoves

LEMMA StartsInv ==
  ASSUME IInv, NEW r \in Requests,
         \/ \E f \in Files : CompleteCheck(r, f) \/ RerunRead(r, f)
         \/ \E j \in Jobs : CancelRead(r, j)
  PROVE  IInv'
<1>1. ASSUME NEW f \in Files, CompleteCheck(r, f) PROVE IInv'
  BY <1>1, RequestStarts, OnlyRequest DEF CompleteCheck, IInv, rows, files
<1>2. ASSUME NEW f \in Files, RerunRead(r, f) PROVE IInv'
  BY <1>2, RequestStarts, OnlyRequest DEF RerunRead, IInv, rows, files
<1>3. ASSUME NEW j \in Jobs, CancelRead(r, j) PROVE IInv'
  <2>1. fileOf[j] \in Files /\ status[j] # "none"
    BY <1>3 DEF CancelRead, IInv, RowsInv, RowsTypeOK
  <2> QED
    BY <1>3, <2>1, RequestStarts, OnlyRequest DEF CancelRead, IInv, rows, files
<1> QED
  BY <1>1, <1>2, <1>3

LEMMA CompleteReadInv == ASSUME IInv, NEW r \in Requests, CompleteRead(r) PROVE IInv'
<1>1. UNCHANGED <<files, rows, old, skipped, queue, worker, late>> /\ req[r].op = "checked"
  BY DEF CompleteRead
<1>2. CASE EndRequest(r)
  BY <1>1, <1>2, UnchangedGrows, RequestEnds, OnlyRequest DEF IInv
<1>3. CASE req' = [req EXCEPT ![r] = Request("finalizing", req[r].file, NoJob)]
  <2>1. req[r].file \in Files
    BY <1>1 DEF IInv, RequestsInv, RequestOK
  <2>2. RequestOK(Request("finalizing", req[r].file, NoJob), status', extraction')
    BY <2>1, RequestFields DEF RequestOK
  <2>3. RequestsInv'
    <3>1. Request("finalizing", req[r].file, NoJob) \in RequestType
      BY <2>1, RequestFields
    <3>2. Grows /\ RequestsInv
      BY <1>1, UnchangedGrows DEF IInv
    <3> QED
      BY <1>3, <2>2, <3>1, <3>2, RequestMoves
  <2> QED
    BY <1>1, <2>3, OnlyRequest
<1> QED
  BY <1>2, <1>3 DEF CompleteRead

LEMMA CompleteRejectInv == ASSUME IInv, NEW r \in Requests, CompleteReject(r) PROVE IInv'
<1>1. EndRequest(r) /\ UNCHANGED <<extraction, rows, old, skipped, queue, worker, late>>
  BY DEF CompleteReject
<1>2. RowsInv' /\ Grows
  <2>1. upload' \in [Files -> {"pending", "ready", "rejected"}]
    BY DEF CompleteReject, IInv, RowsInv, RowsTypeOK
  <2>2. RowsTypeOK'
    BY <1>1, <2>1 DEF IInv, RowsInv, RowsTypeOK, rows
  <2>3. OpenFileHasJob' /\ SupersededStaysDown' /\ TamperedNeverExtracted'
    BY <1>1 DEF IInv, RowsInv, OpenFileHasJob, SupersededStaysDown, TamperedNeverExtracted,
                Active, rows
  <2> QED
    BY <1>1, <2>2, <2>3 DEF IInv, RowsInv, Grows, rows
<1>3. QueueInv'
  BY <1>1, QueueUnchanged DEF IInv, FilesKept, rows
<1> QED
  BY <1>1, <1>2, <1>3, RequestEnds DEF IInv

LEMMA EndsOnlyInv ==
  ASSUME IInv, NEW r \in Requests, CompleteRefused(r) \/ ApiCrash(r) PROVE IInv'
<1>1. UNCHANGED <<files, rows, old, skipped, queue, worker, late>> /\ EndRequest(r)
  BY DEF CompleteRefused, ApiCrash
<1> QED
  BY <1>1, UnchangedGrows, RequestEnds, OnlyRequest DEF IInv

LEMMA CompleteAcceptInv == ASSUME IInv, NEW r \in Requests, CompleteAccept(r) PROVE IInv'
<1> DEFINE f == req[r].file
<1>1. f \in Files /\ f # NoFile /\ req[r].op = "finalizing"
  BY FilesAssumption DEF CompleteAccept, IInv, RequestsInv, RequestOK
<1> DEFINE Accepts(k, new) ==
        /\ new = IF f \in Pdf THEN {k, k + 1} ELSE {k}
        /\ new \subseteq Jobs
        /\ upload' = [upload EXCEPT ![f] = "ready"]
        /\ Requeue(f)
        /\ status' = [j \in Jobs |-> IF j \in new THEN "pending" ELSE status[j]]
        /\ fileOf' = [j \in Jobs |-> IF j \in new THEN f ELSE fileOf[j]]
        /\ origin' = [j \in Jobs |-> IF j \in new THEN "upload" ELSE origin[j]]
        /\ kind' = [j \in Jobs |-> IF j \in new \ {k} THEN "pages" ELSE kind[j]]
        /\ req' = [req EXCEPT ![r] = Dispatching(f, new, {}, 0)]
<1>2. PICK k \in Fresh, new \in SUBSET Jobs : Accepts(k, new)
  <2>1. PICK k \in Fresh : Accepts(k, IF f \in Pdf THEN {k, k + 1} ELSE {k})
    BY DEF CompleteAccept
  <2> QED
    BY <2>1
<1>3. UNCHANGED <<retriable, retryOf, old, queue, worker, late>>
  BY DEF CompleteAccept
<1>4. /\ k \in Jobs /\ k \in new /\ new \subseteq Jobs /\ kind[k] = "extraction"
      /\ \A i \in Jobs : i < k => fileOf[i] # NoFile
      /\ \A i \in new : i = k \/ i = k + 1
  BY <1>2, FreshId
<1>5. \A i \in new : /\ fileOf[i] = NoFile /\ status[i] = "none"
                     /\ \A j \in Jobs : retryOf[j] # i
  <2> SUFFICES ASSUME NEW i \in new PROVE fileOf[i] = NoFile
    BY <1>4, NoJobAssumption DEF IInv, RowsInv, SupersededStaysDown, Jobs
  <2> QED
    BY <1>4, FreshId DEF Jobs
<1>6. RowsInv /\ RowsTypeOK
  BY DEF IInv, RowsInv
<1>7. RowsTypeOK'
  BY <1>1, <1>2, <1>3, <1>6 DEF RowsTypeOK, Requeue, ActiveStatus, OpenExtraction
<1>8. OpenFileHasJob'
  <2> SUFFICES ASSUME NEW g \in Files, extraction'[g] \in OpenExtraction, g \notin skipped'
               PROVE  \E j \in Jobs : /\ status'[j] \in ActiveStatus
                                      /\ kind'[j] = "extraction" /\ fileOf'[j] = g
    BY DEF OpenFileHasJob, Active
  <2>1. CASE g = f
    BY <1>2, <1>4, <2>1 DEF ActiveStatus
  <2>2. CASE g # f
    <3>1. extraction[g] \in OpenExtraction /\ g \notin skipped
      BY <1>1, <1>2, <1>6, <2>2 DEF Requeue, RowsTypeOK
    <3>2. PICK j \in Active : kind[j] = "extraction" /\ fileOf[j] = g
      BY <1>6, <3>1 DEF RowsInv, OpenFileHasJob
    <3>3. j \in Jobs /\ j \notin new
      BY <1>5, <3>2, FilesAssumption DEF Active
    <3> QED
      BY <1>2, <3>2, <3>3 DEF Active
  <2> QED
    BY <2>1, <2>2
<1>9. SupersededStaysDown'
  BY <1>2, <1>3, <1>5, <1>6 DEF RowsInv, RowsTypeOK, SupersededStaysDown
<1>10. TamperedNeverExtracted'
  BY <1>1, <1>2, <1>6, FilesAssumption DEF Requeue, RowsTypeOK, RowsInv, TamperedNeverExtracted
<1>11. \A j \in Jobs : fileOf'[j] = NoFile => status'[j] = "none" /\ kind'[j] = "extraction"
  BY <1>1, <1>2, <1>4, <1>6 DEF RowsInv
<1>12. \A i, j \in Jobs : i < j /\ fileOf'[j] # NoFile => fileOf'[i] # NoFile
  <2> SUFFICES ASSUME NEW i \in Jobs, NEW j \in Jobs, i < j, fileOf'[j] # NoFile,
                      fileOf[i] = NoFile
               PROVE  i \in new
    BY <1>1, <1>2
  <2>1. j \in new
    BY <1>2, <1>6 DEF RowsInv
  <2>2. i >= k
    BY <1>4 DEF Jobs
  <2> QED
    BY <1>4, <2>1, <2>2 DEF Jobs
<1>13. \A g \in Files : extraction'[g] = "not_started" => \A j \in Jobs : fileOf'[j] # g
  BY <1>1, <1>2, <1>6 DEF RowsInv, RowsTypeOK, Requeue
<1>14. RowsInv'
  BY <1>7, <1>8, <1>9, <1>10, <1>11, <1>12, <1>13 DEF RowsInv
<1>15. QueueInv'
  BY <1>1, <1>2, <1>3, QueueUnchanged DEF IInv, FilesKept
<1>16. Grows
  BY <1>1, <1>2, <1>6 DEF Grows, Requeue, RowsTypeOK
<1>17. RequestsInv'
  <2>1. \A j \in new : status'[j] # "none"
    BY <1>2, <1>4
  <2>2. 0 \in 0 .. MaxPosts /\ 0 < MaxPosts
    BY BoundsAssumption
  <2>3. /\ Dispatching(f, new, {}, 0) \in RequestType
        /\ RequestOK(Dispatching(f, new, {}, 0), status', extraction')
    BY <1>1, <1>4, <2>1, <2>2, DispatchingFields DEF RequestOK
  <2> QED
    BY <1>2, <1>16, <2>3, RequestMoves DEF IInv
<1> QED
  BY <1>14, <1>15, <1>17 DEF IInv

LEMMA DispatchPostInv == ASSUME IInv, NEW r \in Requests, DispatchPost(r) PROVE IInv'
<1> DEFINE f == req[r].file
           failed == req[r].failed
           posts == req[r].posts + 1
<1>1. /\ req[r].op = "dispatch"
      /\ UNCHANGED <<files, rows, old, skipped, worker, late>>
  BY DEF DispatchPost
<1>2. PICK j \in req[r].todo :
        \/ /\ Enqueue(j)
           /\ \/ EndRequest(r)
              \/ req' = [req EXCEPT ![r] = Dispatching(f, req[r].todo \ {j}, failed, 0)]
        \/ /\ Enqueue(j) \/ UNCHANGED queue
           /\ req' = [req EXCEPT
                        ![r] = IF posts = MaxPosts
                               THEN Dispatching(f, req[r].todo \ {j}, failed \cup {j}, 0)
                               ELSE Dispatching(f, req[r].todo, failed, posts)]
  BY DEF DispatchPost
<1>3. /\ req[r] \in RequestType /\ RequestOK(req[r], status, extraction)
      /\ status' = status /\ extraction' = extraction /\ fileOf' = fileOf
  BY <1>1 DEF IInv, RequestsInv, RequestsTypeOK, rows, files
<1>4. /\ f \in Files /\ req[r].todo \in SUBSET Jobs /\ failed \in SUBSET Jobs /\ j \in Jobs
      /\ req[r].posts \in Nat /\ req[r].posts < MaxPosts
      /\ \A i \in req[r].todo \cup failed : status[i] # "none"
  BY <1>1, <1>3 DEF RequestType, RequestOK
<1>5. /\ posts \in 0 .. MaxPosts
      /\ posts # MaxPosts => posts < MaxPosts
      /\ 0 \in 0 .. MaxPosts /\ 0 < MaxPosts
  BY <1>4, BoundsAssumption
<1>6. RowsInv' /\ Grows /\ FilesKept
  BY <1>1, RowsUnchanged, UnchangedGrows DEF IInv, FilesKept, rows
<1>7. QueueInv'
  <2>1. fileOf'[j] # NoFile
    BY <1>3, <1>4 DEF IInv, RowsInv
  <2> QED
    BY <1>1, <1>2, <1>4, <1>6, <2>1, EnqueueKeepsQueue, QueueUnchanged DEF IInv
<1>8. ASSUME NEW todo \in SUBSET Jobs, NEW bad \in SUBSET Jobs, NEW n \in 0 .. MaxPosts,
             n < MaxPosts, todo \cup bad \subseteq req[r].todo \cup failed,
             req' = [req EXCEPT ![r] = Dispatching(f, todo, bad, n)]
      PROVE  RequestsInv'
  <2>1. /\ Dispatching(f, todo, bad, n) \in RequestType
        /\ RequestOK(Dispatching(f, todo, bad, n), status', extraction')
    BY <1>3, <1>4, <1>8, DispatchingFields DEF RequestOK
  <2> QED
    BY <1>6, <1>8, <2>1, RequestMoves DEF IInv
<1>9. CASE EndRequest(r)
  BY <1>6, <1>7, <1>9, RequestEnds DEF IInv
<1>10. CASE req' = [req EXCEPT ![r] = Dispatching(f, req[r].todo \ {j}, failed, 0)]
  BY <1>4, <1>5, <1>6, <1>7, <1>8, <1>10 DEF IInv
<1>11. CASE /\ posts = MaxPosts
            /\ req' = [req EXCEPT ![r] = Dispatching(f, req[r].todo \ {j}, failed \cup {j}, 0)]
  <2>1. /\ req[r].todo \ {j} \in SUBSET Jobs /\ failed \cup {j} \in SUBSET Jobs
        /\ (req[r].todo \ {j}) \cup (failed \cup {j}) \subseteq req[r].todo \cup failed
    BY <1>4
  <2> QED
    BY <1>5, <1>6, <1>7, <1>8, <1>11, <2>1 DEF IInv
<1>12. CASE /\ posts # MaxPosts
            /\ req' = [req EXCEPT ![r] = Dispatching(f, req[r].todo, failed, posts)]
  <2>1. posts \in 0 .. MaxPosts /\ posts < MaxPosts
    BY <1>5, <1>12
  <2> HIDE DEF posts, failed, f
  <2>2. RequestsInv'
    BY <1>4, <1>8, <1>12, <2>1
  <2> QED
    BY <1>6, <1>7, <2>2 DEF IInv
<1> QED
  BY <1>2, <1>9, <1>10, <1>11, <1>12

(* The two writes that do not look at the row first.                       *)
LEMMA OverwriteKeepsRows ==
  ASSUME IInv, NEW S \in SUBSET Jobs, \A j \in S : status[j] # "none",
         NEW st \in {"failed", "cancelled"},
         status' = [j \in Jobs |-> IF j \in S THEN st ELSE status[j]],
         retriable' \in [Jobs -> BOOLEAN], FailResource(S),
         UNCHANGED <<upload, kind, fileOf, retryOf, origin, old, skipped>>
  PROVE  RowsInv' /\ Grows
<1>1. RowsTypeOK'
  BY DEF IInv, RowsInv, RowsTypeOK, FailResource, ActiveStatus, TerminalStatus, TerminalExtraction
<1>2. ASSUME NEW g \in Files, extraction'[g] # "failed"
      PROVE  /\ extraction'[g] = extraction[g]
             /\ \A j \in Jobs : kind[j] = "extraction" /\ fileOf[j] = g => j \notin S
  BY <1>2 DEF FailResource
<1>3. OpenFileHasJob'
  <2> SUFFICES ASSUME NEW g \in Files, extraction'[g] \in OpenExtraction, g \notin skipped
               PROVE  \E j \in Jobs : /\ status'[j] \in ActiveStatus
                                      /\ kind[j] = "extraction" /\ fileOf[j] = g
    BY DEF OpenFileHasJob, Active
  <2>1. extraction'[g] # "failed"
    BY DEF OpenExtraction
  <2>2. PICK j \in Active : kind[j] = "extraction" /\ fileOf[j] = g
    BY <1>2, <2>1 DEF IInv, RowsInv, OpenFileHasJob
  <2> QED
    BY <1>2, <2>1, <2>2 DEF Active
<1>4. SupersededStaysDown'
  BY DEF IInv, RowsInv, RowsTypeOK, SupersededStaysDown
<1>5. TamperedNeverExtracted'
  BY <1>2, FilesAssumption DEF IInv, RowsInv, TamperedNeverExtracted
<1>6. \A g \in Files : extraction'[g] = "not_started" => \A j \in Jobs : fileOf'[j] # g
  BY <1>2 DEF IInv, RowsInv
<1>7. RowsInv'
  BY <1>1, <1>3, <1>4, <1>5, <1>6 DEF IInv, RowsInv
<1>8. Grows
  BY <1>2 DEF Grows
<1> QED
  BY <1>7, <1>8

LEMMA RecordDispatchFailureInv ==
  ASSUME IInv, NEW r \in Requests, RecordDispatchFailure(r) PROVE IInv'
<1> DEFINE failed == req[r].failed
<1>1. failed \in SUBSET Jobs /\ \A j \in failed : status[j] # "none"
  BY DEF RecordDispatchFailure, IInv, RequestsInv, RequestsTypeOK, RequestType, RequestOK
<1>2. retriable' \in [Jobs -> BOOLEAN]
  BY DEF RecordDispatchFailure, IInv, RowsInv, RowsTypeOK
<1>3. /\ status' = [j \in Jobs |-> IF j \in failed THEN "failed" ELSE status[j]]
      /\ FailResource(failed) /\ EndRequest(r)
      /\ UNCHANGED <<upload, kind, fileOf, retryOf, origin, old, skipped, queue, worker, late>>
  BY DEF RecordDispatchFailure
<1> HIDE DEF failed
<1>4. RowsInv' /\ Grows
  BY <1>1, <1>2, <1>3, OverwriteKeepsRows
<1>5. QueueInv'
  BY <1>3, QueueUnchanged DEF IInv, FilesKept
<1> QED
  BY <1>3, <1>4, <1>5, RequestEnds DEF IInv

LEMMA CancelAskInv == ASSUME IInv, NEW r \in Requests, CancelAsk(r) PROVE IInv'
<1> DEFINE j == req[r].job
<1>1. /\ req[r].op = "cancel" /\ j \in Jobs /\ status[j] # "none"
      /\ UNCHANGED <<files, rows, old, skipped, worker, late>>
  BY DEF CancelAsk, IInv, RequestsInv, RequestOK
<1>2. RowsInv' /\ Grows /\ FilesKept
  BY <1>1, RowsUnchanged, UnchangedGrows DEF IInv, FilesKept, rows
<1>3. QueueInv'
  <2>1. CASE UNCHANGED queue
    BY <1>1, <1>2, <2>1, QueueUnchanged DEF IInv
  <2>2. CASE RemoveQueued(j)
    BY <1>1, <2>2 DEF RemoveQueued, IInv, QueueInv, QueueTypeOK, rows, worker
  <2> QED
    BY <2>1, <2>2 DEF CancelAsk
<1>4. RequestsInv'
  <2>1. CASE EndRequest(r)
    BY <1>2, <2>1, RequestEnds DEF IInv
  <2>2. CASE req' = [req EXCEPT ![r] = Request("drop", fileOf[j], j)]
    <3>1. fileOf[j] \in Files /\ status'[j] # "none"
      BY <1>1 DEF IInv, RowsInv, RowsTypeOK, rows
    <3>2. /\ Request("drop", fileOf[j], j) \in RequestType
          /\ RequestOK(Request("drop", fileOf[j], j), status', extraction')
      BY <1>1, <3>1, RequestFields DEF RequestOK
    <3> QED
      BY <1>2, <2>2, <3>2, RequestMoves DEF IInv
  <2> QED
    BY <2>1, <2>2 DEF CancelAsk
<1> QED
  BY <1>2, <1>3, <1>4 DEF IInv

LEMMA CancelWriteInv == ASSUME IInv, NEW r \in Requests, CancelWrite(r) PROVE IInv'
<1> DEFINE j == req[r].job
<1>1. j \in Jobs /\ status[j] # "none"
  BY DEF CancelWrite, IInv, RequestsInv, RequestOK
<1>2. /\ status' = [status EXCEPT ![j] = "cancelled"] /\ FailResource({j}) /\ EndRequest(r)
      /\ UNCHANGED <<upload, retriable, kind, fileOf, retryOf, origin,
                     old, skipped, queue, worker, late>>
  BY DEF CancelWrite
<1> HIDE DEF j
<1>3. /\ status' = [i \in Jobs |-> IF i \in {j} THEN "cancelled" ELSE status[i]]
      /\ retriable' \in [Jobs -> BOOLEAN]
  BY <1>2 DEF IInv, RowsInv, RowsTypeOK
<1>4. RowsInv' /\ Grows
  BY <1>1, <1>2, <1>3, OverwriteKeepsRows
<1>5. QueueInv'
  BY <1>2, QueueUnchanged DEF IInv, FilesKept
<1> QED
  BY <1>2, <1>4, <1>5, RequestEnds DEF IInv

-----------------------------------------------------------------------------
(* Time and the sweep.                                                     *)

LEMMA AgeInv == ASSUME IInv, Age PROVE IInv'
<1>1. UNCHANGED <<files, rows, skipped, queue, worker, late, req>> /\ old' \subseteq Jobs
  BY DEF Age, Created
<1>2. RowsInv'
  BY <1>1 DEF IInv, RowsInv, RowsTypeOK, rows, files, OpenFileHasJob, Active,
              SupersededStaysDown, TamperedNeverExtracted
<1> QED
  BY <1>1, <1>2, QueueUnchanged, UnchangedGrows, RequestsUnchanged DEF IInv, FilesKept, rows

LEMMA SweepInv ==
  ASSUME IInv, NEW reaped \in SUBSET Jobs, NEW locked \in SUBSET Files, Sweep(reaped, locked)
  PROVE  IInv'
<1>1. /\ reaped \subseteq Active
      /\ status' = [j \in Jobs |-> IF j \in reaped THEN "failed" ELSE status[j]]
      /\ extraction' = [f \in Files |-> IF f \in Cascade(reaped) \ locked THEN "failed"
                                        ELSE extraction[f]]
      /\ skipped' = skipped \cup (Cascade(reaped) \cap locked)
      /\ UNCHANGED <<upload, retriable, kind, fileOf, retryOf, origin,
                     old, queue, worker, late, req>>
  BY DEF Sweep, Stuck
<1>2. RowsTypeOK'
  BY <1>1 DEF IInv, RowsInv, RowsTypeOK, Cascade, TerminalStatus, TerminalExtraction
<1>3. OpenFileHasJob'
  <2> SUFFICES ASSUME NEW f \in Files, extraction'[f] \in OpenExtraction, f \notin skipped'
               PROVE  \E j \in Jobs : /\ status'[j] \in ActiveStatus
                                      /\ kind[j] = "extraction" /\ fileOf[j] = f
    BY <1>1 DEF OpenFileHasJob, Active
  <2>1. extraction[f] \in OpenExtraction /\ f \notin Cascade(reaped) /\ f \notin skipped
    BY <1>1 DEF OpenExtraction
  <2>2. PICK j \in Active : kind[j] = "extraction" /\ fileOf[j] = f
    BY <2>1 DEF IInv, RowsInv, OpenFileHasJob
  <2>3. j \notin reaped
    BY <2>1, <2>2 DEF Cascade
  <2> QED
    BY <1>1, <2>2, <2>3 DEF Active
<1>4. SupersededStaysDown'
  BY <1>1 DEF IInv, RowsInv, RowsTypeOK, SupersededStaysDown, Active, ActiveStatus
<1>5. TamperedNeverExtracted'
  BY <1>1, FilesAssumption DEF IInv, RowsInv, TamperedNeverExtracted
<1>6. /\ \A j \in Jobs : fileOf'[j] = NoFile => status'[j] = "none" /\ kind'[j] = "extraction"
      /\ \A f \in Files : extraction'[f] = "not_started" => \A j \in Jobs : fileOf'[j] # f
      /\ Grows
  BY <1>1 DEF IInv, RowsInv, Grows, Active, ActiveStatus
<1>7. RowsInv'
  BY <1>1, <1>2, <1>3, <1>4, <1>5, <1>6 DEF IInv, RowsInv
<1> QED
  BY <1>1, <1>6, <1>7, QueueUnchanged, RequestsUnchanged DEF IInv, FilesKept

-----------------------------------------------------------------------------
(* The theorems.                                                           *)

LEMMA InitInv == Init => IInv
<1> SUFFICES ASSUME Init PROVE IInv
  OBVIOUS
<1>1. RowsTypeOK
  BY DEF Init, RowsTypeOK
<1>2. RowsInv
  BY <1>1, FilesAssumption
  DEF Init, RowsInv, OpenFileHasJob, OpenExtraction, SupersededStaysDown, TamperedNeverExtracted
<1>3. QueueInv
  BY BoundsAssumption DEF Init, QueueInv, QueueTypeOK
<1>4. RequestsInv
  <2>1. Idle \in RequestType /\ Idle.op = "idle"
    BY RequestFields DEF Idle
  <2> QED
    BY <2>1 DEF Init, RequestsInv, RequestsTypeOK, RequestOK
<1> QED
  BY <1>2, <1>3, <1>4 DEF IInv

LEMMA NextInv == IInv /\ [Next]_vars => IInv'
<1> SUFFICES ASSUME IInv, [Next]_vars PROVE IInv'
  OBVIOUS
<1>1. ASSUME NEW j \in Jobs, WorkerStep(j) PROVE IInv'
  BY <1>1, PickUpInv, BeginInv, ProgressInv, FinishInv, ReportSuccessInv, ReportFailureInv,
     NotifyInv, StallInv DEF WorkerStep
<1>2. ASSUME NEW j \in Jobs, RetryJob(j) PROVE IInv'
  BY <1>2, RetryJobInv
<1>3. ASSUME NEW f \in Files, RetryExtraction(f) PROVE IInv'
  BY <1>3, RetryExtractionInv
<1>4. ASSUME NEW r \in Requests, RequestStep(r) PROVE IInv'
  BY <1>4, StartsInv, CompleteReadInv, CompleteRejectInv, CompleteAcceptInv, EndsOnlyInv,
     DispatchPostInv, RecordDispatchFailureInv, RerunExtractionInv, CancelAskInv, CancelWriteInv
  DEF RequestStep
<1>5. ASSUME NEW m \in late, LateCallback(m) PROVE IInv'
  BY <1>5, LateCallbackInv
<1>6. CASE Age
  BY <1>6, AgeInv
<1>7. ASSUME NEW reaped \in SUBSET Jobs, NEW locked \in SUBSET Files, Sweep(reaped, locked)
      PROVE  IInv'
  BY <1>7, SweepInv
<1>8. CASE SweepUncontended
  <2>1. Stuck \in SUBSET Jobs /\ {} \in SUBSET Files
    BY DEF Stuck, Active
  <2> QED
    BY <1>7, <1>8, <2>1 DEF SweepUncontended
<1>9. CASE UNCHANGED vars
  BY <1>9, RowsUnchanged, QueueUnchanged, UnchangedGrows, RequestsUnchanged
  DEF vars, IInv, FilesKept, rows
<1> QED
  BY <1>1, <1>2, <1>3, <1>4, <1>5, <1>6, <1>7, <1>8, <1>9 DEF Next

LEMMA Invariance == Spec => []IInv
BY InitInv, NextInv, PTL DEF Spec

(* Every variable keeps its type, whatever the number of files, jobs and   *)
(* requests.                                                               *)
THEOREM TypeCorrect == Spec => []TypeOK
<1>1. IInv => TypeOK
  BY DEF IInv, RowsInv, QueueInv, RequestsInv, TypeOK
<1> QED
  BY <1>1, Invariance, PTL

(* A queued or running file has an extraction job that can end it.         *)
THEOREM OpenFilesHaveJobs == Spec => []OpenFileHasJob
<1>1. IInv => OpenFileHasJob
  BY DEF IInv, RowsInv
<1> QED
  BY <1>1, Invariance, PTL

(* A job that was retried is never brought back by a callback.             *)
THEOREM RetriedJobsStayDown == Spec => []SupersededStaysDown
<1>1. IInv => SupersededStaysDown
  BY DEF IInv, RowsInv
<1> QED
  BY <1>1, Invariance, PTL

(* Bytes with the wrong hash never become an extracted file.               *)
THEOREM TamperedFilesAreNeverExtracted == Spec => []TamperedNeverExtracted
<1>1. IInv => TamperedNeverExtracted
  BY DEF IInv, RowsInv
<1> QED
  BY <1>1, Invariance, PTL

(* No step brings a terminal job row back to life.                         *)
LEMMA TerminalStep ==
  ASSUME IInv, [Next]_vars, NEW i \in Jobs, status[i] \in TerminalStatus
  PROVE  status'[i] \in TerminalStatus
<1> USE DEF TerminalStatus
<1>1. ASSUME NEW j \in Jobs, NEW o \in Outcomes, fileOf[j] # NoFile, Unanswered(j, o)
      PROVE  status'[i] \in TerminalStatus
  BY <1>1, CallbackAdvances DEF IInv, Advance, ActiveStatus
<1>2. ASSUME NEW j \in Jobs, WorkerStep(j) PROVE status'[i] \in TerminalStatus
  <2>1. FailedAs(transient[j]) \in Outcomes
    BY StatusSets DEF IInv, QueueInv, QueueTypeOK
  <2>2. step[j] # "idle" => fileOf[j] # NoFile
    BY HeldJobExists DEF IInv
  <2>3. \/ status' = status
        \/ step[j] # "idle" /\ \E o \in Outcomes : Unanswered(j, o)
    BY <1>2, <2>1, StatusSets
    DEF WorkerStep, PickUp, Begin, Progress, Finish, ReportSuccess, ReportFailure,
        NotifyTerminalFailure, Stall, Unanswered
  <2> QED
    BY <1>1, <2>2, <2>3
<1>3. ASSUME NEW m \in late, LateCallback(m) PROVE status'[i] \in TerminalStatus
  BY <1>1, <1>3, HeldJobExists DEF LateCallback, IInv
<1>4. ASSUME NEW k \in Fresh, NEW f, NEW why, NEW parent, InsertAndDispatch(k, f, why, parent)
      PROVE  status'[i] \in TerminalStatus
  <2>1. i # k
    BY FreshId
  <2>2. status' = status \/ \E st : status' = [status EXCEPT ![k] = st]
    BY <1>4 DEF InsertAndDispatch, InsertJob
  <2> QED
    BY <2>1, <2>2 DEF IInv, RowsInv, RowsTypeOK
<1>5. ASSUME NEW j \in Jobs, RetryJob(j) PROVE status'[i] \in TerminalStatus
  BY <1>4, <1>5 DEF RetryJob
<1>6. ASSUME NEW r \in Requests, RequestStep(r) PROVE status'[i] \in TerminalStatus
  <2>1. CASE CompleteAccept(r)
    <3>1. PICK k \in Fresh :
            status' = [j \in Jobs |-> IF j \in IF req[r].file \in Pdf THEN {k, k + 1} ELSE {k}
                                      THEN "pending" ELSE status[j]]
      BY <2>1 DEF CompleteAccept
    <3>2. fileOf[i] # NoFile
      BY DEF IInv, RowsInv
    <3>3. i # k /\ i # k + 1
      BY <3>2, FreshId DEF Jobs
    <3> QED
      BY <3>1, <3>3
  <2>2. CASE RecordDispatchFailure(r)
    BY <2>2 DEF RecordDispatchFailure
  <2>3. CASE CancelWrite(r)
    BY <2>3 DEF CancelWrite, IInv, RowsInv, RowsTypeOK
  <2>4. CASE RerunExtraction(r)
    BY <1>4, <2>4 DEF RerunExtraction, rows
  <2> QED
    BY <1>6, <2>1, <2>2, <2>3, <2>4
    DEF RequestStep, rows, CompleteCheck, RerunRead, CancelRead, CompleteRead, CompleteReject,
        CompleteRefused, DispatchPost, CancelAsk, ApiCrash
<1>7. ASSUME NEW reaped, NEW locked, Sweep(reaped, locked) PROVE status'[i] \in TerminalStatus
  BY <1>7 DEF Sweep
<1> QED
  BY <1>2, <1>3, <1>5, <1>6, <1>7
  DEF Next, vars, rows, RetryExtraction, LatestFailed, Age, SweepUncontended

THEOREM TerminalRowsStayTerminal == Spec => TerminalStaysTerminal
<1>1. IInv /\ [Next]_vars =>
        [\A j \in Jobs : status[j] \in TerminalStatus => status'[j] \in TerminalStatus]_vars
  BY TerminalStep
<1> QED
  BY <1>1, Invariance, PTL DEF Spec, TerminalStaysTerminal

-----------------------------------------------------------------------------
(* The rows move as JobRecord lets them, or not at all.                     *)
Moves == Record!Next \/ UNCHANGED <<status, retriable>>

LEMMA Written ==
  ASSUME IInv
  PROVE  /\ \A j \in Jobs : \A st : [status EXCEPT ![j] = st] = Record!Set({j}, st)
         /\ status \in [Jobs -> {"none"} \cup ActiveStatus \cup TerminalStatus]
         /\ retriable \in [Jobs -> BOOLEAN]
BY DEF Record!Set, IInv, RowsInv, RowsTypeOK

LEMMA CallbackMoves ==
  ASSUME IInv, NEW j \in Jobs, NEW o \in Outcomes, Unanswered(j, o)
  PROVE  Moves
<1>1. CASE UNCHANGED <<status, retriable>>
  BY <1>1 DEF Moves
<1>2. CASE ApplyJobUpdate(j, o) /\ status[j] \in ActiveStatus
  <2>1. Record!Active({j})
    BY <1>2 DEF Record!Active, Record!ActiveStatus, ActiveStatus
  <2>2. status' = Record!Set({j}, RowStatus(o))
    BY <1>2, Written DEF ApplyJobUpdate
  <2>3. CASE o = "running" \/ o = "succeeded"
    <3>1. RowStatus(o) = o /\ retriable' = retriable
      BY <1>2, <2>3 DEF ApplyJobUpdate, RowStatus
    <3> QED
      BY <2>1, <2>2, <2>3, <3>1 DEF Moves, Record!Next, Record!Report
  <2>4. CASE o = "transient" \/ o = "permanent"
    <3>1. RowStatus(o) = "failed"
      BY <2>4 DEF RowStatus
    <3>2. \E b \in BOOLEAN : retriable' = [retriable EXCEPT ![j] = b]
      BY <1>2, <3>1 DEF ApplyJobUpdate
    <3> QED
      BY <2>1, <2>2, <3>1, <3>2 DEF Moves, Record!Next, Record!Report
  <2> QED
    BY <2>3, <2>4 DEF Outcomes
<1>3. CASE ApplyJobUpdate(j, o) /\ status[j] \notin ActiveStatus
  BY <1>1, <1>3 DEF ApplyJobUpdate
<1> QED
  BY <1>1, <1>2, <1>3 DEF Unanswered, Lost, Callback, ExtractionCallback, PagesCallback

LEMMA InsertMoves ==
  ASSUME IInv, NEW k \in Fresh, NEW f, NEW why, NEW parent \in Jobs \cup {NoJob},
         parent # NoJob => status[parent] = "failed" /\ retriable[parent],
         InsertAndDispatch(k, f, why, parent)
  PROVE  Moves
<1>1. k \in Jobs /\ status[k] = "none"
  BY FreshId
<1>2. ASSUME NEW st \in {"pending", "failed"}, InsertJob(k, f, st, why, parent) PROVE Moves
  <2> DEFINE superseded == IF parent = NoJob THEN {} ELSE {parent}
  <2>1. status' = Record!Set({k}, st)
    BY <1>1, <1>2, Written DEF InsertJob
  <2>2. retriable' = [j \in Jobs |-> IF j = k THEN st = "failed"
                                     ELSE retriable[j] /\ j \notin superseded]
    BY <1>2, NoJobAssumption DEF InsertJob, Jobs
  <2>3. \A j \in superseded : status[j] = "failed" /\ retriable[j]
    OBVIOUS
  <2>4. Record!CreateOne(k, superseded)
    BY <1>1, <2>1, <2>2, <2>3 DEF Record!CreateOne
  <2>5. superseded = {} \/ \E j \in Jobs : superseded = {j}
    OBVIOUS
  <2> HIDE DEF superseded
  <2> QED
    BY <1>1, <2>4, <2>5 DEF Moves, Record!Next
<1> QED
  BY <1>2 DEF InsertAndDispatch, Moves

LEMMA RetryMoves == ASSUME IInv, NEW j \in Jobs, RetryJob(j) PROVE Moves
<1>1. PICK k \in Fresh : InsertAndDispatch(k, fileOf[j], "retry", j)
  BY DEF RetryJob
<1>2. status[j] = "failed" /\ retriable[j]
  BY DEF RetryJob
<1> QED
  BY <1>1, <1>2, InsertMoves

LEMMA AcceptedIds ==
  ASSUME IInv, NEW k \in Fresh
  PROVE  \A i \in Jobs : i = k \/ i = k + 1 => status[i] = "none"
<1>1. \A i \in Jobs : i = k \/ i = k + 1 => fileOf[i] = NoFile
  BY FreshId DEF Jobs
<1> QED
  BY <1>1 DEF IInv, RowsInv

LEMMA RequestStepMoves == ASSUME IInv, NEW r \in Requests, RequestStep(r) PROVE Moves
<1>1. CASE CompleteAccept(r)
  <2>1. PICK k \in Fresh :
          LET new == IF req[r].file \in Pdf THEN {k, k + 1} ELSE {k}
          IN /\ new \subseteq Jobs
             /\ status' = [j \in Jobs |-> IF j \in new THEN "pending" ELSE status[j]]
    BY <1>1 DEF CompleteAccept
  <2> DEFINE new == IF req[r].file \in Pdf THEN {k, k + 1} ELSE {k}
  <2>2. new \in SUBSET Jobs /\ status' = Record!Set(new, "pending")
    BY <2>1 DEF Record!Set
  <2>3. \A j \in new : status[j] = "none"
    BY <2>2, AcceptedIds
  <2>4. retriable' = retriable
    BY <1>1 DEF CompleteAccept
  <2> HIDE DEF new
  <2> QED
    BY <2>2, <2>3, <2>4 DEF Moves, Record!Next, Record!Create
<1>2. CASE RecordDispatchFailure(r)
  <2> DEFINE failed == req[r].failed
  <2>1. failed \in SUBSET Jobs /\ \A j \in failed : status[j] # "none"
    BY <1>2 DEF RecordDispatchFailure, IInv, RequestsInv, RequestOK, RequestsTypeOK, RequestType
  <2>2. /\ status' = Record!Set(failed, "failed")
        /\ retriable' = [j \in Jobs |-> j \in failed \/ retriable[j]]
    BY <1>2 DEF RecordDispatchFailure, Record!Set
  <2> HIDE DEF failed
  <2> QED
    BY <2>1, <2>2 DEF Moves, Record!Next, Record!DispatchFailed
<1>3. CASE CancelWrite(r)
  <2> DEFINE j == req[r].job
  <2>1. j \in Jobs /\ status[j] # "none"
    BY <1>3 DEF CancelWrite, IInv, RequestsInv, RequestOK
  <2>2. status' = Record!Set({j}, "cancelled") /\ retriable' = retriable
    BY <1>3, <2>1, Written DEF CancelWrite
  <2> HIDE DEF j
  <2> QED
    BY <2>1, <2>2 DEF Moves, Record!Next, Record!Cancel
<1>4. CASE RerunExtraction(r)
  <2>1. UNCHANGED <<status, retriable>>
        \/ \E k \in Fresh : InsertAndDispatch(k, req[r].file, "rerun", NoJob)
    BY <1>4 DEF RerunExtraction, rows
  <2> QED
    BY <2>1, InsertMoves DEF Moves
<1>5. CASE UNCHANGED <<status, retriable>>
  BY <1>5 DEF Moves
<1> QED
  BY <1>1, <1>2, <1>3, <1>4, <1>5
  DEF RequestStep, rows, CompleteCheck, RerunRead, CancelRead, CompleteRead, CompleteReject,
      CompleteRefused, DispatchPost, CancelAsk, ApiCrash

LEMMA SweepMoves ==
  ASSUME IInv, NEW reaped, NEW locked, Sweep(reaped, locked)
  PROVE  Moves
<1>1. reaped \in SUBSET Jobs /\ Record!Active(reaped)
  BY DEF Sweep, Stuck, Active, Record!Active, Record!ActiveStatus, ActiveStatus
<1>2. status' = Record!Set(reaped, "failed") /\ retriable' = retriable
  BY DEF Sweep, Record!Set
<1> QED
  BY <1>1, <1>2 DEF Moves, Record!Next, Record!Reap

LEMMA StepMoves == ASSUME IInv, [Next]_vars PROVE Moves
<1>1. ASSUME NEW j \in Jobs, WorkerStep(j) PROVE Moves
  <2>1. FailedAs(transient[j]) \in Outcomes
    BY StatusSets DEF IInv, QueueInv, QueueTypeOK
  <2>2. UNCHANGED <<status, retriable>> \/ \E o \in Outcomes : Unanswered(j, o)
    BY <1>1, <2>1, StatusSets
    DEF WorkerStep, PickUp, Begin, Progress, Finish, ReportSuccess, ReportFailure,
        NotifyTerminalFailure, Stall, Unanswered
  <2> QED
    BY <2>2, CallbackMoves DEF Moves
<1>2. ASSUME NEW m \in late, LateCallback(m) PROVE Moves
  BY <1>2, CallbackMoves, HeldJobExists DEF LateCallback, IInv
<1>3. CASE UNCHANGED <<status, retriable>>
  BY <1>3 DEF Moves
<1> QED
  BY <1>1, <1>2, <1>3, RetryMoves, RequestStepMoves, SweepMoves
  DEF Next, vars, rows, RetryExtraction, LatestFailed, Age, SweepUncontended

(* Whoever polls GET /jobs sees the rows move as JobRecord says, whatever   *)
(* the worker, the queue, the sweep and the requests do behind them: the    *)
(* pipeline implements it, step by step.                                    *)
THEOREM Refinement == Spec => ImplementsJobRecord
<1>1. Init => Record!Init
  BY DEF Init, Record!Init
<1>2. IInv /\ [Next]_vars => [Record!Next]_<<status, retriable>>
  BY StepMoves DEF Moves
<1> QED
  BY <1>1, <1>2, Invariance, PTL DEF Spec, ImplementsJobRecord, Record!Spec

-----------------------------------------------------------------------------
(* The limit on jobs.                                                       *)

(* The jobs that a step makes active: none, or those of one insert that     *)
(* found the organization under its limit.                                  *)
Inserts(S) == UnderLimit /\ Active' \subseteq Active \cup S
Admits ==
  \/ Active' \subseteq Active
  \/ \E k \in Jobs : Inserts({k}) \/ (Pdf # {} /\ Inserts({k, k + 1}))

LEMMA CallbackAdmits ==
  ASSUME IInv, NEW j \in Jobs, NEW o \in Outcomes, Unanswered(j, o)
  PROVE  Active' \subseteq Active
BY DEF IInv, RowsInv, RowsTypeOK, Unanswered, Lost, Callback, ExtractionCallback, PagesCallback,
       ApplyJobUpdate, Active

LEMMA InsertAdmits ==
  ASSUME IInv, UnderLimit, NEW k \in Fresh, NEW f, NEW why, NEW parent,
         InsertAndDispatch(k, f, why, parent)
  PROVE  Admits
<1>1. k \in Jobs
  BY FreshId
<1>2. status' = status \/ \E st : status' = [status EXCEPT ![k] = st]
  BY DEF InsertAndDispatch, InsertJob
<1>3. Active' \subseteq Active \cup {k}
  BY <1>1, <1>2 DEF IInv, RowsInv, RowsTypeOK, Active
<1> QED
  BY <1>1, <1>3 DEF Admits, Inserts

LEMMA RequestStepAdmits == ASSUME IInv, NEW r \in Requests, RequestStep(r) PROVE Admits
<1>1. CASE CompleteAccept(r)
  <2>1. PICK k \in Fresh :
          LET new == IF req[r].file \in Pdf THEN {k, k + 1} ELSE {k}
          IN /\ new \subseteq Jobs
             /\ status' = [j \in Jobs |-> IF j \in new THEN "pending" ELSE status[j]]
    BY <1>1 DEF CompleteAccept
  <2>2. k \in Jobs /\ UnderLimit
    BY <1>1, FreshId DEF CompleteAccept
  <2>3. CASE req[r].file \in Pdf
    <3>1. Active' \subseteq Active \cup {k, k + 1}
      BY <2>1, <2>3 DEF Active
    <3> QED
      BY <2>2, <2>3, <3>1 DEF Admits, Inserts
  <2>4. CASE req[r].file \notin Pdf
    <3>1. Active' \subseteq Active \cup {k}
      BY <2>1, <2>4 DEF Active
    <3> QED
      BY <2>2, <3>1 DEF Admits, Inserts
  <2> QED
    BY <2>3, <2>4
<1>2. CASE RecordDispatchFailure(r)
  BY <1>2 DEF RecordDispatchFailure, Active, ActiveStatus, Admits
<1>3. CASE CancelWrite(r)
  BY <1>3 DEF CancelWrite, Active, ActiveStatus, Admits, IInv, RowsInv, RowsTypeOK
<1>4. CASE RerunExtraction(r)
  <2>1. \/ status' = status
        \/ UnderLimit /\ \E k \in Fresh : InsertAndDispatch(k, req[r].file, "rerun", NoJob)
    BY <1>4 DEF RerunExtraction, rows
  <2> QED
    BY <2>1, InsertAdmits DEF Admits, Active
<1>5. CASE UNCHANGED status
  BY <1>5 DEF Admits, Active
<1> QED
  BY <1>1, <1>2, <1>3, <1>4, <1>5
  DEF RequestStep, rows, CompleteCheck, RerunRead, CancelRead, CompleteRead, CompleteReject,
      CompleteRefused, DispatchPost, CancelAsk, ApiCrash

LEMMA StepAdmits == ASSUME IInv, [Next]_vars PROVE Admits
<1>1. ASSUME NEW j \in Jobs, WorkerStep(j) PROVE Admits
  <2>1. FailedAs(transient[j]) \in Outcomes
    BY StatusSets DEF IInv, QueueInv, QueueTypeOK
  <2>2. status' = status \/ \E o \in Outcomes : Unanswered(j, o)
    BY <1>1, <2>1, StatusSets
    DEF WorkerStep, PickUp, Begin, Progress, Finish, ReportSuccess, ReportFailure,
        NotifyTerminalFailure, Stall, Unanswered
  <2> QED
    BY <2>2, CallbackAdmits DEF Admits, Active
<1>2. ASSUME NEW m \in late, LateCallback(m) PROVE Admits
  BY <1>2, CallbackAdmits, HeldJobExists DEF LateCallback, IInv, Admits
<1>3. ASSUME NEW j \in Jobs, RetryJob(j) PROVE Admits
  BY <1>3, InsertAdmits DEF RetryJob
<1>4. ASSUME NEW reaped, NEW locked, Sweep(reaped, locked) PROVE Admits
  BY <1>4 DEF Sweep, Admits, Active, ActiveStatus
<1>5. CASE UNCHANGED status
  BY <1>5 DEF Admits, Active
<1> QED
  BY <1>1, <1>2, <1>3, <1>4, <1>5, RequestStepAdmits
  DEF Next, vars, rows, RetryExtraction, LatestFailed, Age, SweepUncontended

LEMMA ActiveIsFinite == IsFiniteSet(Active) /\ Cardinality(Active) \in Nat
<1>1. IsFiniteSet(Jobs) /\ Active \in SUBSET Jobs
  BY FS_Interval, BoundsAssumption DEF Jobs, Active
<1> QED
  BY <1>1, FS_Subset, FS_CardinalityType

LEMMA AddOne ==
  ASSUME NEW S, IsFiniteSet(S), NEW x
  PROVE  /\ IsFiniteSet(S \cup {x}) /\ Cardinality(S) \in Nat
         /\ Cardinality(S \cup {x}) \in Nat /\ Cardinality(S \cup {x}) <= Cardinality(S) + 1
<1>1. /\ IsFiniteSet(S \cup {x})
      /\ Cardinality(S \cup {x}) = IF x \in S THEN Cardinality(S) ELSE Cardinality(S) + 1
  BY FS_AddElement
<1>2. Cardinality(S) \in Nat
  BY FS_CardinalityType
<1> QED
  BY <1>1, <1>2

LEMMA WithinCapStep == ASSUME IInv, WithinCap, [Next]_vars PROVE WithinCap'
<1>1. /\ IsFiniteSet(Active) /\ Cardinality(Active) \in Nat /\ Limit \in Nat
      /\ Cardinality(Active') \in Nat
  <2>1. IsFiniteSet(Jobs) /\ Active' \in SUBSET Jobs
    BY FS_Interval, BoundsAssumption DEF Jobs, Active
  <2>2. IsFiniteSet(Active')
    BY <2>1, FS_Subset
  <2>3. Cardinality(Active') \in Nat
    BY <2>2, FS_CardinalityType
  <2> QED
    BY <2>3, ActiveIsFinite, BoundsAssumption
<1>2. CASE Active' \subseteq Active
  <2>1. Cardinality(Active') <= Cardinality(Active)
    BY <1>1, <1>2, FS_Subset
  <2> QED
    BY <1>1, <2>1 DEF WithinCap
<1>3. ASSUME NEW k \in Jobs, Inserts({k}) PROVE WithinCap'
  <2>1. IsFiniteSet(Active \cup {k}) /\ Cardinality(Active \cup {k}) <= Cardinality(Active) + 1
    BY <1>1, AddOne
  <2>2. Cardinality(Active') <= Cardinality(Active \cup {k}) /\ Cardinality(Active \cup {k}) \in Nat
    BY <1>3, <2>1, FS_Subset, FS_CardinalityType DEF Inserts
  <2> QED
    BY <1>1, <1>3, <2>1, <2>2 DEF WithinCap, Inserts, UnderLimit
<1>4. ASSUME NEW k \in Jobs, Pdf # {}, Inserts({k, k + 1}) PROVE WithinCap'
  <2> DEFINE one == Active \cup {k}
             two == one \cup {k + 1}
  <2>1. IsFiniteSet(one) /\ Cardinality(one) <= Cardinality(Active) + 1
        /\ Cardinality(one) \in Nat
    BY <1>1, AddOne
  <2>2. IsFiniteSet(two) /\ Cardinality(two) <= Cardinality(one) + 1 /\ Cardinality(two) \in Nat
    BY <2>1, AddOne
  <2>3. Active' \in SUBSET two
    BY <1>4 DEF Inserts
  <2> HIDE DEF one, two
  <2>4. Cardinality(Active') <= Cardinality(two)
    BY <2>2, <2>3, FS_Subset
  <2> QED
    BY <1>1, <1>4, <2>1, <2>2, <2>4 DEF WithinCap, Inserts, UnderLimit
<1> QED
  BY <1>2, <1>3, <1>4, StepAdmits DEF Admits

(* Retries, re-runs and uploads of any number of requests keep the active   *)
(* jobs of an organization within its limit, plus one where there are PDFs. *)
THEOREM ActiveJobsAreCapped == Spec => []WithinCap
<1>1. Init => WithinCap
  <2> SUFFICES ASSUME Init PROVE WithinCap
    OBVIOUS
  <2>1. Active = {}
    BY DEF Init, Active, ActiveStatus
  <2> QED
    BY <2>1, FS_EmptySet, BoundsAssumption DEF WithinCap
<1>2. IInv /\ WithinCap /\ [Next]_vars => WithinCap'
  BY WithinCapStep
<1> QED
  BY <1>1, <1>2, Invariance, PTL DEF Spec

-----------------------------------------------------------------------------
(* Which steps take a finished extraction away.  The job that a            *)
(* cancellation or a dispatch writes to belongs to the file the request    *)
(* names, since a job never changes its file.                              *)
Owns(q, of) ==
  /\ q.op \in {"cancel", "drop"} => of[q.job] = q.file
  /\ q.op = "dispatch" => \A j \in q.todo \cup q.failed : of[j] = q.file

OwnInv == \A r \in Requests : Owns(req[r], fileOf)

LEMMA FilesStay ==
  ASSUME IInv, [Next]_vars, NEW i \in Jobs, fileOf[i] # NoFile
  PROVE  fileOf'[i] = fileOf[i]
<1>1. CASE fileOf' = fileOf
  BY <1>1
<1>2. ASSUME NEW k \in Fresh, NEW f, NEW why, NEW parent, InsertAndDispatch(k, f, why, parent)
      PROVE  fileOf'[i] = fileOf[i]
  <2>1. i # k
    BY FreshId
  <2>2. fileOf' = [fileOf EXCEPT ![k] = f]
    BY <1>2 DEF InsertAndDispatch, InsertJob
  <2> QED
    BY <2>1, <2>2 DEF IInv, RowsInv, RowsTypeOK
<1>3. ASSUME NEW j \in Jobs, RetryJob(j) PROVE fileOf'[i] = fileOf[i]
  BY <1>2, <1>3 DEF RetryJob
<1>4. ASSUME NEW r \in Requests, RerunExtraction(r) PROVE fileOf'[i] = fileOf[i]
  BY <1>1, <1>2, <1>4 DEF RerunExtraction, rows
<1>5. ASSUME NEW r \in Requests, CompleteAccept(r) PROVE fileOf'[i] = fileOf[i]
  <2>1. PICK k \in Fresh :
          fileOf' = [j \in Jobs |-> IF j \in IF req[r].file \in Pdf THEN {k, k + 1} ELSE {k}
                                    THEN req[r].file ELSE fileOf[j]]
    BY <1>5 DEF CompleteAccept
  <2>2. i # k /\ i # k + 1
    BY FreshId DEF Jobs
  <2> QED
    BY <2>1, <2>2
<1>6. ASSUME NEW r \in Requests, RequestStep(r) PROVE fileOf'[i] = fileOf[i]
  BY <1>1, <1>4, <1>5, <1>6
  DEF RequestStep, rows, CompleteCheck, RerunRead, CancelRead, CompleteRead, CompleteReject,
      CompleteRefused, DispatchPost, RecordDispatchFailure, CancelAsk, CancelWrite, ApiCrash
<1>7. ASSUME NEW j \in Jobs, WorkerStep(j) PROVE fileOf'[i] = fileOf[i]
  BY <1>1, <1>7
  DEF WorkerStep, PickUp, Begin, Progress, Finish, ReportSuccess, ReportFailure,
      NotifyTerminalFailure, Stall, rest
<1>8. ASSUME NEW m \in late, LateCallback(m) PROVE fileOf'[i] = fileOf[i]
  BY <1>1, <1>8 DEF LateCallback, rest
<1>9. ASSUME NEW reaped, NEW locked, Sweep(reaped, locked) PROVE fileOf'[i] = fileOf[i]
  BY <1>1, <1>9 DEF Sweep
<1> QED
  BY <1>1, <1>3, <1>6, <1>7, <1>8, <1>9
  DEF Next, vars, rows, RetryExtraction, LatestFailed, Age, SweepUncontended

(* What a step makes of a request: nothing, its end, a new one ...         *)
LEMMA OwnNext ==
  ASSUME IInv, OwnInv, [Next]_vars, NEW p \in Requests, req'[p] = req[p]
  PROVE  Owns(req'[p], fileOf')
<1> DEFINE q == req[p]
<1>1. q \in RequestType /\ RequestOK(q, status, extraction) /\ Owns(q, fileOf)
  BY DEF IInv, RequestsInv, RequestsTypeOK, OwnInv
<1>2. \A j \in Jobs : status[j] # "none" => fileOf'[j] = fileOf[j]
  <2>1. \A j \in Jobs : status[j] # "none" => fileOf[j] # NoFile
    BY DEF IInv, RowsInv
  <2> QED
    BY <2>1, FilesStay
<1> HIDE DEF q
<1>3. q.op \in {"cancel", "drop"} => fileOf'[q.job] = q.file
  BY <1>1, <1>2 DEF Owns, RequestOK
<1>4. q.op = "dispatch" => \A j \in q.todo \cup q.failed : fileOf'[j] = q.file
  <2>1. q.todo \in SUBSET Jobs /\ q.failed \in SUBSET Jobs
    BY <1>1 DEF RequestType
  <2> QED
    BY <1>1, <1>2, <2>1 DEF Owns, RequestOK
<1> QED
  BY <1>3, <1>4 DEF Owns, q

LEMMA IdleOwns == \A of : Owns(Idle, of)
BY RequestFields DEF Owns, Idle

LEMMA OwnDispatching ==
  ASSUME NEW f \in Files, NEW todo \in SUBSET Jobs, NEW failed \in SUBSET Jobs,
         NEW posts \in 0 .. MaxPosts, NEW of, \A j \in todo \cup failed : of[j] = f
  PROVE  Owns(Dispatching(f, todo, failed, posts), of)
BY DispatchingFields DEF Owns

LEMMA OwnRequestStep ==
  ASSUME IInv, OwnInv, NEW r \in Requests, RequestStep(r)
  PROVE  Owns(req'[r], fileOf')
<1> DEFINE q == req[r]
<1>1. q \in RequestType /\ RequestOK(q, status, extraction) /\ Owns(q, fileOf)
  BY DEF IInv, RequestsInv, RequestsTypeOK, OwnInv
<1>2. \A v : req' = [req EXCEPT ![r] = v] => req'[r] = v
  BY DEF IInv, RequestsInv, RequestsTypeOK
<1>3. fileOf \in [Jobs -> Files \cup {NoFile}]
  BY DEF IInv, RowsInv, RowsTypeOK
<1>4. CASE EndRequest(r)
  <2>1. req'[r] = Idle
    BY <1>2, <1>4 DEF EndRequest
  <2> QED
    BY <2>1, IdleOwns
<1>5. ASSUME NEW f \in Files, NEW op \in {"checked", "finalizing", "rerun"},
             req' = [req EXCEPT ![r] = Request(op, f, NoJob)]
      PROVE  Owns(req'[r], fileOf')
  <2>1. req'[r] = Request(op, f, NoJob)
    BY <1>2, <1>5
  <2>2. /\ Request(op, f, NoJob).op = op
        /\ op \notin {"cancel", "drop", "dispatch"}
    BY RequestFields
  <2> QED
    BY <2>1, <2>2 DEF Owns
<1>6. ASSUME NEW j \in Jobs, NEW op \in {"cancel", "drop"}, fileOf' = fileOf,
             req' = [req EXCEPT ![r] = Request(op, fileOf[j], j)]
      PROVE  Owns(req'[r], fileOf')
  <2>1. req'[r] = Request(op, fileOf[j], j)
    BY <1>2, <1>6
  <2>2. fileOf[j] \in Files \cup {NoFile}
    BY <1>3
  <2>3. /\ Request(op, fileOf[j], j).op = op /\ Request(op, fileOf[j], j).file = fileOf[j]
        /\ Request(op, fileOf[j], j).job = j
    BY <2>2, RequestFields
  <2> QED
    BY <1>6, <2>1, <2>3 DEF Owns
<1>7. CASE CompleteAccept(r)
  <2>1. PICK k \in Fresh :
          LET new == IF q.file \in Pdf THEN {k, k + 1} ELSE {k}
          IN /\ new \subseteq Jobs
             /\ fileOf' = [j \in Jobs |-> IF j \in new THEN q.file ELSE fileOf[j]]
             /\ req' = [req EXCEPT ![r] = Dispatching(q.file, new, {}, 0)]
    BY <1>7 DEF CompleteAccept
  <2> DEFINE new == IF q.file \in Pdf THEN {k, k + 1} ELSE {k}
  <2>2. /\ new \in SUBSET Jobs /\ {} \in SUBSET Jobs
        /\ \A j \in new \cup {} : fileOf'[j] = q.file
    BY <2>1
  <2>3. q.file \in Files /\ 0 \in 0 .. MaxPosts
    BY <1>1, <1>7, BoundsAssumption DEF CompleteAccept, RequestOK
  <2>4. req'[r] = Dispatching(q.file, new, {}, 0)
    BY <1>2, <2>1
  <2> HIDE DEF new, q
  <2> QED
    BY <2>2, <2>3, <2>4, OwnDispatching
<1>8. CASE DispatchPost(r)
  <2>1. /\ q.op = "dispatch" /\ fileOf' = fileOf
        /\ q.file \in Files /\ q.todo \in SUBSET Jobs /\ q.failed \in SUBSET Jobs
        /\ q.posts \in 0 .. MaxPosts /\ q.posts < MaxPosts
    BY <1>1, <1>8 DEF DispatchPost, rows, RequestOK, RequestType
  <2>2. \A j \in q.todo \cup q.failed : fileOf'[j] = q.file
    BY <1>1, <2>1 DEF Owns
  <2>3. 0 \in 0 .. MaxPosts /\ q.posts + 1 \in 0 .. MaxPosts
    BY <2>1, BoundsAssumption
  <2>4. \/ EndRequest(r)
        \/ \E todo \in SUBSET q.todo, failed \in SUBSET (q.todo \cup q.failed),
              posts \in {0, q.posts + 1} :
             req' = [req EXCEPT ![r] = Dispatching(q.file, todo, failed, posts)]
    <3>1. PICK j \in q.todo :
            \/ EndRequest(r)
            \/ req' = [req EXCEPT ![r] = Dispatching(q.file, q.todo \ {j}, q.failed, 0)]
            \/ req' = [req EXCEPT ![r] = Dispatching(q.file, q.todo \ {j}, q.failed \cup {j}, 0)]
            \/ req' = [req EXCEPT ![r] = Dispatching(q.file, q.todo, q.failed, q.posts + 1)]
      BY <1>8 DEF DispatchPost
    <3>2. /\ q.todo \ {j} \in SUBSET q.todo /\ q.todo \in SUBSET q.todo
          /\ q.failed \in SUBSET (q.todo \cup q.failed)
          /\ q.failed \cup {j} \in SUBSET (q.todo \cup q.failed)
      OBVIOUS
    <3> HIDE DEF q
    <3> QED
      BY <3>1, <3>2
  <2>5. ASSUME NEW todo \in SUBSET q.todo, NEW failed \in SUBSET (q.todo \cup q.failed),
               NEW posts \in {0, q.posts + 1},
               req' = [req EXCEPT ![r] = Dispatching(q.file, todo, failed, posts)]
        PROVE  Owns(req'[r], fileOf')
    <3>1. /\ todo \in SUBSET Jobs /\ failed \in SUBSET Jobs /\ posts \in 0 .. MaxPosts
          /\ \A j \in todo \cup failed : fileOf'[j] = q.file
      BY <2>1, <2>2, <2>3, <2>5
    <3>2. req'[r] = Dispatching(q.file, todo, failed, posts)
      BY <1>2, <2>5
    <3> HIDE DEF q
    <3> QED
      BY <2>1, <3>1, <3>2, OwnDispatching
  <2> QED
    BY <1>4, <2>4, <2>5
<1>9. CASE CancelAsk(r)
  <2>1. q.job \in Jobs /\ fileOf' = fileOf
    BY <1>1, <1>9 DEF CancelAsk, rows, RequestOK
  <2>2. EndRequest(r) \/ req' = [req EXCEPT ![r] = Request("drop", fileOf[q.job], q.job)]
    BY <1>9 DEF CancelAsk
  <2> QED
    BY <1>4, <1>6, <2>1, <2>2
<1>10. ASSUME NEW j \in Jobs, CancelRead(r, j) PROVE Owns(req'[r], fileOf')
  BY <1>6, <1>10 DEF CancelRead, StartRequest, rows
<1>11. ASSUME NEW f \in Files, CompleteCheck(r, f) \/ RerunRead(r, f)
       PROVE  Owns(req'[r], fileOf')
  BY <1>5, <1>11 DEF CompleteCheck, RerunRead, StartRequest
<1>12. CASE CompleteRead(r)
  <2>1. q.file \in Files
    BY <1>1, <1>12 DEF CompleteRead, RequestOK
  <2>2. EndRequest(r) \/ req' = [req EXCEPT ![r] = Request("finalizing", q.file, NoJob)]
    BY <1>12 DEF CompleteRead
  <2> QED
    BY <1>4, <1>5, <2>1, <2>2
<1> QED
  BY <1>4, <1>7, <1>8, <1>9, <1>10, <1>11, <1>12
  DEF RequestStep, CompleteReject, CompleteRefused, RecordDispatchFailure, RerunExtraction,
      CancelWrite, ApiCrash

LEMMA OwnStep == ASSUME IInv, OwnInv, [Next]_vars PROVE OwnInv'
<1> SUFFICES ASSUME NEW p \in Requests PROVE Owns(req'[p], fileOf')
  BY DEF OwnInv
<1>1. CASE req' = req
  BY <1>1, OwnNext
<1>2. ASSUME NEW r \in Requests, RequestStep(r) PROVE Owns(req'[p], fileOf')
  <2>1. \E v : req' = [req EXCEPT ![r] = v]
    BY <1>2
    DEF RequestStep, CompleteCheck, RerunRead, CancelRead, StartRequest, CompleteRead,
        CompleteReject, CompleteAccept, CompleteRefused, DispatchPost, RecordDispatchFailure,
        RerunExtraction, CancelAsk, CancelWrite, ApiCrash, EndRequest
  <2>2. p # r => req'[p] = req[p]
    BY <2>1 DEF IInv, RequestsInv, RequestsTypeOK
  <2> QED
    BY <1>2, <2>2, OwnNext, OwnRequestStep
<1>3. ASSUME NEW j \in Jobs, WorkerStep(j) PROVE req' = req
  BY <1>3
  DEF WorkerStep, PickUp, Begin, Progress, Finish, ReportSuccess, ReportFailure,
      NotifyTerminalFailure, Stall, rest
<1>4. ASSUME NEW m \in late, LateCallback(m) PROVE req' = req
  BY <1>4 DEF LateCallback, rest
<1> QED
  BY <1>1, <1>2, <1>3, <1>4
  DEF Next, vars, RetryExtraction, RetryJob, LatestFailed, Age, SweepUncontended, Sweep

-----------------------------------------------------------------------------
(* A file with jobs, and one that is re-run, was completed before.         *)
StoredInv ==
  /\ \A j \in Jobs : fileOf[j] # NoFile => upload[fileOf[j]] # "pending"
  /\ \A r \in Requests : req[r].op = "rerun" => upload[req[r].file] # "pending"

(* A completed upload is never pending again.                              *)
LEMMA UploadsStay ==
  ASSUME IInv, [Next]_vars, NEW f \in Files, upload[f] # "pending"
  PROVE  upload'[f] # "pending"
<1>1. upload \in [Files -> {"pending", "ready", "rejected"}]
  BY DEF IInv, RowsInv, RowsTypeOK
<1>2. CASE upload' = upload
  BY <1>2
<1>3. ASSUME NEW j, NEW o, Unanswered(j, o) PROVE upload'[f] # "pending"
  BY <1>1, <1>3 DEF Unanswered, Lost, Callback, ExtractionCallback, PagesCallback, files
<1>4. ASSUME NEW j \in Jobs, WorkerStep(j) PROVE upload'[f] # "pending"
  BY <1>2, <1>3, <1>4
  DEF WorkerStep, PickUp, Begin, Progress, Finish, ReportSuccess, ReportFailure,
      NotifyTerminalFailure, Stall, files, Unanswered
<1>5. ASSUME NEW m \in late, LateCallback(m) PROVE upload'[f] # "pending"
  BY <1>3, <1>5 DEF LateCallback
<1>6. ASSUME NEW r \in Requests, RequestStep(r) PROVE upload'[f] # "pending"
  <2>1. CASE CompleteReject(r) \/ CompleteAccept(r)
    BY <1>1, <2>1 DEF CompleteReject, CompleteAccept
  <2> QED
    BY <1>2, <1>6, <2>1
    DEF RequestStep, files, CompleteCheck, RerunRead, CancelRead, CompleteRead,
        CompleteRefused, DispatchPost, RecordDispatchFailure, RerunExtraction, CancelAsk,
        CancelWrite, ApiCrash
<1> QED
  BY <1>2, <1>4, <1>5, <1>6
  DEF Next, vars, files, RetryExtraction, RetryJob, LatestFailed, Age, SweepUncontended, Sweep

(* The file a job is given when its id is handed out.                      *)
LEMMA FilesGiven ==
  ASSUME IInv, StoredInv, [Next]_vars, NEW i \in Jobs, fileOf[i] = NoFile, fileOf'[i] # NoFile
  PROVE  upload'[fileOf'[i]] # "pending"
<1>1. /\ fileOf \in [Jobs -> Files \cup {NoFile}]
      /\ upload \in [Files -> {"pending", "ready", "rejected"}]
  BY DEF IInv, RowsInv, RowsTypeOK
<1>2. fileOf' # fileOf
  OBVIOUS
<1>3. ASSUME NEW k \in Fresh, NEW g \in Files, NEW why, NEW parent,
             InsertAndDispatch(k, g, why, parent), upload[g] # "pending"
      PROVE  upload'[fileOf'[i]] # "pending"
  <2>1. fileOf' = [fileOf EXCEPT ![k] = g]
    BY <1>3 DEF InsertAndDispatch, InsertJob
  <2>2. fileOf'[i] = g
    BY <1>1, <2>1
  <2> QED
    BY <1>3, <2>2, UploadsStay
<1>4. ASSUME NEW j \in Jobs, RetryJob(j) PROVE upload'[fileOf'[i]] # "pending"
  <2>1. PICK k \in Fresh : InsertAndDispatch(k, fileOf[j], "retry", j)
    BY <1>4 DEF RetryJob
  <2>2. fileOf[j] # NoFile
    BY <1>4 DEF RetryJob, IInv, RowsInv
  <2>3. fileOf[j] \in Files /\ upload[fileOf[j]] # "pending"
    BY <1>1, <2>2 DEF StoredInv
  <2> QED
    BY <1>3, <2>1, <2>3
<1>5. ASSUME NEW r \in Requests, RequestStep(r) PROVE upload'[fileOf'[i]] # "pending"
  <2>1. CASE RerunExtraction(r)
    <3>1. PICK k \in Fresh : InsertAndDispatch(k, req[r].file, "rerun", NoJob)
      BY <1>2, <2>1 DEF RerunExtraction, rows
    <3>2. req[r].file \in Files /\ upload[req[r].file] # "pending"
      BY <2>1 DEF RerunExtraction, IInv, RequestsInv, RequestOK, StoredInv
    <3> QED
      BY <1>3, <3>1, <3>2
  <2>2. CASE CompleteAccept(r)
    <3>1. /\ upload' = [upload EXCEPT ![req[r].file] = "ready"]
          /\ \E new : fileOf' = [j \in Jobs |-> IF j \in new THEN req[r].file ELSE fileOf[j]]
      BY <2>2 DEF CompleteAccept
    <3>2. req[r].file \in Files
      BY <2>2 DEF CompleteAccept, IInv, RequestsInv, RequestOK
    <3> QED
      BY <1>1, <3>1, <3>2
  <2> QED
    BY <1>2, <1>5, <2>1, <2>2
    DEF RequestStep, rows, CompleteCheck, RerunRead, CancelRead, CompleteRead, CompleteReject,
        CompleteRefused, DispatchPost, RecordDispatchFailure, CancelAsk, CancelWrite, ApiCrash
<1>6. ASSUME NEW j \in Jobs, WorkerStep(j) PROVE FALSE
  BY <1>2, <1>6
  DEF WorkerStep, PickUp, Begin, Progress, Finish, ReportSuccess, ReportFailure,
      NotifyTerminalFailure, Stall, rest
<1>7. ASSUME NEW m \in late, LateCallback(m) PROVE FALSE
  BY <1>2, <1>7 DEF LateCallback, rest
<1> QED
  BY <1>2, <1>4, <1>5, <1>6, <1>7
  DEF Next, vars, rows, RetryExtraction, LatestFailed, Age, SweepUncontended, Sweep

(* A request to re-run is made only of a completed upload.                 *)
LEMMA RerunsStart ==
  ASSUME IInv, [Next]_vars, NEW p \in Requests, req'[p] # req[p], req'[p].op = "rerun"
  PROVE  upload'[req'[p].file] # "pending"
<1>1. ASSUME NEW r \in Requests, RequestStep(r) PROVE upload'[req'[p].file] # "pending"
  <2>1. req \in [Requests -> RequestType]
    BY DEF IInv, RequestsInv, RequestsTypeOK
  <2>2. \A v : req' = [req EXCEPT ![r] = v] => req'[p] = v
    BY <2>1
  <2>3. ASSUME NEW f \in Files, RerunRead(r, f) PROVE upload'[req'[p].file] # "pending"
    <3>1. req'[p] = Request("rerun", f, NoJob)
      BY <2>2, <2>3 DEF RerunRead, StartRequest
    <3> QED
      BY <2>3, <3>1 DEF RerunRead, files, Request
  <2>4. ASSUME NEW op \in {"checked", "finalizing", "cancel", "drop"}, NEW f, NEW j,
               req' = [req EXCEPT ![r] = Request(op, f, j)]
        PROVE  FALSE
    BY <2>2, <2>4 DEF Request
  <2>5. ASSUME NEW f, NEW todo, NEW failed, NEW posts,
               req' = [req EXCEPT ![r] = Dispatching(f, todo, failed, posts)]
        PROVE  FALSE
    BY <2>2, <2>5 DEF Dispatching
  <2>6. CASE EndRequest(r)
    BY <2>2, <2>6 DEF EndRequest, Idle, Request
  <2>7. CASE CompleteAccept(r)
    <3>1. PICK todo : req' = [req EXCEPT ![r] = Dispatching(req[r].file, todo, {}, 0)]
      BY <2>7 DEF CompleteAccept
    <3>2. req'[p] = Dispatching(req[r].file, todo, {}, 0)
      BY <2>2, <3>1
    <3> QED
      BY <3>2 DEF Dispatching
  <2>8. CASE DispatchPost(r)
    BY <2>5, <2>6, <2>8 DEF DispatchPost
  <2>9. ASSUME NEW f \in Files, CompleteCheck(r, f) PROVE FALSE
    BY <2>4, <2>9 DEF CompleteCheck, StartRequest
  <2>10. ASSUME NEW j \in Jobs, CancelRead(r, j) PROVE FALSE
    BY <2>4, <2>10 DEF CancelRead, StartRequest
  <2>11. CASE CompleteRead(r) \/ CancelAsk(r)
    BY <2>4, <2>6, <2>11 DEF CompleteRead, CancelAsk
  <2> QED
    BY <1>1, <2>3, <2>6, <2>7, <2>8, <2>9, <2>10, <2>11
    DEF RequestStep, CompleteReject, CompleteRefused, RecordDispatchFailure, RerunExtraction,
        CancelWrite, ApiCrash
<1>2. ASSUME NEW j \in Jobs, WorkerStep(j) PROVE FALSE
  BY <1>2
  DEF WorkerStep, PickUp, Begin, Progress, Finish, ReportSuccess, ReportFailure,
      NotifyTerminalFailure, Stall, rest
<1>3. ASSUME NEW m \in late, LateCallback(m) PROVE FALSE
  BY <1>3 DEF LateCallback, rest
<1> QED
  BY <1>1, <1>2, <1>3
  DEF Next, vars, RetryExtraction, RetryJob, LatestFailed, Age, SweepUncontended, Sweep

LEMMA StoredStep == ASSUME IInv, StoredInv, [Next]_vars PROVE StoredInv'
<1>1. \A j \in Jobs : fileOf'[j] # NoFile => upload'[fileOf'[j]] # "pending"
  <2> SUFFICES ASSUME NEW j \in Jobs, fileOf'[j] # NoFile
               PROVE  upload'[fileOf'[j]] # "pending"
    OBVIOUS
  <2>1. CASE fileOf[j] = NoFile
    BY <2>1, FilesGiven
  <2>2. CASE fileOf[j] # NoFile
    <3>1. fileOf[j] \in Files /\ upload[fileOf[j]] # "pending"
      BY <2>2 DEF IInv, RowsInv, RowsTypeOK, StoredInv
    <3> QED
      BY <2>2, <3>1, FilesStay, UploadsStay
  <2> QED
    BY <2>1, <2>2
<1>2. \A p \in Requests : req'[p].op = "rerun" => upload'[req'[p].file] # "pending"
  <2> SUFFICES ASSUME NEW p \in Requests, req'[p].op = "rerun"
               PROVE  upload'[req'[p].file] # "pending"
    OBVIOUS
  <2>1. CASE req'[p] = req[p]
    <3>1. req[p].file \in Files /\ upload[req[p].file] # "pending"
      BY <2>1 DEF IInv, RequestsInv, RequestOK, StoredInv
    <3> QED
      BY <2>1, <3>1, UploadsStay
  <2>2. CASE req'[p] # req[p]
    BY <2>2, RerunsStart
  <2> QED
    BY <2>1, <2>2
<1> QED
  BY <1>1, <1>2 DEF StoredInv

-----------------------------------------------------------------------------
(* What takes a finished extraction away.  An upload that is not completed *)
(* has no extraction.                                                      *)
Started == \A f \in Files : extraction[f] # "not_started" => upload[f] # "pending"

LEMMA StartedStep == ASSUME IInv, StoredInv, Started, [Next]_vars PROVE Started'
<1> SUFFICES ASSUME NEW f \in Files, extraction'[f] # "not_started"
             PROVE  upload'[f] # "pending"
  BY DEF Started
<1>1. CASE extraction[f] # "not_started"
  BY <1>1, UploadsStay DEF Started
<1>2. ASSUME NEW j \in Jobs, fileOf[j] = f PROVE upload'[f] # "pending"
  <2>1. fileOf[j] # NoFile
    BY <1>2, FilesAssumption
  <2> QED
    BY <1>2, <2>1, UploadsStay DEF StoredInv
<1>3. CASE extraction[f] = "not_started" /\ \A j \in Jobs : fileOf[j] # f
  <2>1. /\ extraction \in [Files -> {"not_started"} \cup OpenExtraction \cup TerminalExtraction]
        /\ extraction' # extraction
    BY <1>3 DEF IInv, RowsInv, RowsTypeOK
  <2>2. ASSUME NEW j \in Jobs, NEW o, Unanswered(j, o) PROVE FALSE
    BY <1>3, <2>1, <2>2 DEF Unanswered, Lost, Callback, ExtractionCallback, PagesCallback, files
  <2>3. ASSUME NEW j \in Jobs, WorkerStep(j) PROVE FALSE
    BY <2>1, <2>2, <2>3
    DEF WorkerStep, PickUp, Begin, Progress, Finish, ReportSuccess, ReportFailure,
        NotifyTerminalFailure, Stall, files, Unanswered
  <2>4. ASSUME NEW m \in late, LateCallback(m) PROVE FALSE
    BY <2>2, <2>4, HeldJobExists DEF LateCallback, IInv
  <2>5. ASSUME NEW k, NEW g, NEW why, NEW parent, InsertAndDispatch(k, g, why, parent)
        PROVE  g = f
    BY <1>3, <2>1, <2>5 DEF InsertAndDispatch, Requeue
  <2>6. ASSUME NEW j \in Jobs, RetryJob(j) PROVE FALSE
    BY <1>3, <2>5, <2>6 DEF RetryJob
  <2>7. ASSUME NEW r \in Requests, RequestStep(r) PROVE upload'[f] # "pending"
    <3>1. CASE RerunExtraction(r)
      <4>1. PICK k \in Fresh : InsertAndDispatch(k, req[r].file, "rerun", NoJob)
        BY <2>1, <3>1 DEF RerunExtraction
      <4>2. req[r].file = f
        BY <2>5, <4>1
      <4> QED
        BY <3>1, <4>2, UploadsStay DEF RerunExtraction, StoredInv
    <3>2. CASE CompleteAccept(r)
      BY <1>3, <2>1, <3>2 DEF CompleteAccept, Requeue, IInv, RowsInv, RowsTypeOK
    <3>3. ASSUME NEW S \in SUBSET Jobs, FailResource(S) PROVE FALSE
      BY <1>3, <3>3 DEF FailResource
    <3>4. CASE RecordDispatchFailure(r)
      <4>1. req[r].failed \in SUBSET Jobs
        BY DEF IInv, RequestsInv, RequestsTypeOK, RequestType
      <4> QED
        BY <3>3, <3>4, <4>1 DEF RecordDispatchFailure
    <3>5. CASE CancelWrite(r)
      <4>1. {req[r].job} \in SUBSET Jobs
        BY <3>5 DEF CancelWrite, IInv, RequestsInv, RequestOK
      <4> QED
        BY <3>3, <3>5, <4>1 DEF CancelWrite
    <3> QED
      BY <2>1, <2>7, <3>1, <3>2, <3>4, <3>5
      DEF RequestStep, files, CompleteCheck, RerunRead, CancelRead, CompleteRead, CompleteReject,
          CompleteRefused, DispatchPost, CancelAsk, ApiCrash
  <2>8. ASSUME NEW reaped, NEW locked, Sweep(reaped, locked) PROVE FALSE
    BY <1>3, <2>8 DEF Sweep, Cascade, OpenExtraction
  <2> QED
    BY <2>1, <2>3, <2>4, <2>6, <2>7, <2>8
    DEF Next, vars, files, RetryExtraction, LatestFailed, Age, SweepUncontended
<1> QED
  BY <1>1, <1>2, <1>3

(* The ways a finished extraction is lost.                                 *)
LostBy(r, f) ==
  /\ req[r].file = f /\ req'[r] # req[r]
  /\ \/ req[r].op \in {"drop", "rerun"}
     \/ req[r].op = "dispatch" /\ req[r].failed # {}
     \/ req[r].op = "finalizing" /\ upload[f] # "pending"
Loses(f) ==
  /\ extraction'[f] \in {"queued", "failed"}
  /\ \/ \E j \in Jobs : TakenUp(j, f)
     \/ \E r \in Requests : LostBy(r, f)

LEMMA RequestEnded ==
  ASSUME IInv, NEW r \in Requests, req[r].op # "idle", EndRequest(r)
  PROVE  req'[r] # req[r]
<1>1. req'[r] = Idle
  BY DEF EndRequest, IInv, RequestsInv, RequestsTypeOK
<1> QED
  BY <1>1 DEF Idle, Request

LEMMA FinishedStep ==
  ASSUME IInv, OwnInv, Started, [Next]_vars, NEW f \in Files,
         extraction[f] = "succeeded", extraction'[f] # "succeeded"
  PROVE  Loses(f)
<1>1. extraction \in [Files -> {"not_started"} \cup OpenExtraction \cup TerminalExtraction]
  BY DEF IInv, RowsInv, RowsTypeOK
<1>2. extraction' # extraction
  OBVIOUS
<1>3. ASSUME NEW j \in Jobs, NEW o, Unanswered(j, o) PROVE FALSE
  BY <1>1, <1>3 DEF Unanswered, Lost, Callback, ExtractionCallback, PagesCallback, files,
                    TerminalExtraction
<1>4. ASSUME NEW j \in Jobs, WorkerStep(j) PROVE FALSE
  BY <1>2, <1>3, <1>4
  DEF WorkerStep, PickUp, Begin, Progress, Finish, ReportSuccess, ReportFailure,
      NotifyTerminalFailure, Stall, files, Unanswered
<1>5. ASSUME NEW m \in late, LateCallback(m) PROVE FALSE
  BY <1>3, <1>5, HeldJobExists DEF LateCallback, IInv
<1>6. ASSUME NEW k, NEW g, NEW why, NEW parent, InsertAndDispatch(k, g, why, parent)
      PROVE  /\ g = f /\ extraction'[f] \in {"queued", "failed"}
             /\ \E st \in {"pending", "failed"} : InsertJob(k, g, st, why, parent)
  BY <1>1, <1>2, <1>6 DEF InsertAndDispatch, Requeue
<1>7. ASSUME NEW j \in Jobs, RetryJob(j) PROVE Loses(f)
  <2>1. PICK k \in Fresh : InsertAndDispatch(k, fileOf[j], "retry", j)
    BY <1>7 DEF RetryJob
  <2>2. /\ fileOf[j] = f /\ extraction'[f] \in {"queued", "failed"}
        /\ \E st : InsertJob(k, f, st, "retry", j)
    BY <1>6, <2>1
  <2>3. status[j] = "failed" /\ retriable[j]
    BY <1>7 DEF RetryJob
  <2>4. j # k
    BY <2>3, FreshId
  <2>5. ~retriable'[j]
    BY <2>2, <2>4 DEF InsertJob
  <2> QED
    BY <2>2, <2>3, <2>5 DEF TakenUp, Loses
<1>8. ASSUME NEW S, FailResource(S)
      PROVE  extraction'[f] = "failed" /\ \E j \in S : fileOf[j] = f
  BY <1>8 DEF FailResource
<1>9. ASSUME NEW r \in Requests, RequestStep(r) PROVE Loses(f)
  <2>1. CASE RerunExtraction(r)
    <3>1. PICK k \in Fresh : InsertAndDispatch(k, req[r].file, "rerun", NoJob)
      BY <1>2, <2>1 DEF RerunExtraction
    <3>2. req[r].file = f /\ extraction'[f] \in {"queued", "failed"}
      BY <1>6, <3>1
    <3>3. req[r].op = "rerun" /\ req'[r] # req[r]
      BY <2>1, RequestEnded DEF RerunExtraction
    <3> QED
      BY <3>2, <3>3 DEF Loses, LostBy
  <2>2. CASE RecordDispatchFailure(r)
    <3>1. extraction'[f] = "failed" /\ \E j \in req[r].failed : fileOf[j] = f
      BY <1>8, <2>2 DEF RecordDispatchFailure
    <3>2. req[r].op = "dispatch" /\ req[r].file = f /\ req[r].failed # {}
      BY <2>2, <3>1 DEF RecordDispatchFailure, OwnInv, Owns
    <3>3. req'[r] # req[r]
      BY <2>2, <3>2, RequestEnded DEF RecordDispatchFailure
    <3> QED
      BY <3>1, <3>2, <3>3 DEF Loses, LostBy
  <2>3. CASE CancelWrite(r)
    <3>1. extraction'[f] = "failed" /\ \E j \in {req[r].job} : fileOf[j] = f
      BY <1>8, <2>3 DEF CancelWrite
    <3>2. req[r].op = "drop" /\ req[r].file = f
      BY <2>3, <3>1 DEF CancelWrite, OwnInv, Owns
    <3>3. req'[r] # req[r]
      BY <2>3, <3>2, RequestEnded DEF CancelWrite
    <3> QED
      BY <3>1, <3>2, <3>3 DEF Loses, LostBy
  <2>4. CASE CompleteAccept(r)
    <3>1. req[r].op = "finalizing" /\ req[r].file = f /\ extraction'[f] = "queued"
      BY <1>1, <2>4 DEF CompleteAccept, Requeue
    <3>2. upload[f] # "pending"
      BY DEF Started
    <3>3. req'[r] # req[r]
      <4>1. PICK new : req' = [req EXCEPT ![r] = Dispatching(req[r].file, new, {}, 0)]
        BY <2>4 DEF CompleteAccept
      <4>2. req'[r] = Dispatching(req[r].file, new, {}, 0)
        BY <4>1 DEF IInv, RequestsInv, RequestsTypeOK
      <4> QED
        BY <3>1, <4>2 DEF Dispatching
    <3> QED
      BY <3>1, <3>2, <3>3 DEF Loses, LostBy
  <2> QED
    BY <1>2, <1>9, <2>1, <2>2, <2>3, <2>4
    DEF RequestStep, files, CompleteCheck, RerunRead, CancelRead, CompleteRead, CompleteReject,
        CompleteRefused, DispatchPost, CancelAsk, ApiCrash
<1>10. ASSUME NEW reaped, NEW locked, Sweep(reaped, locked) PROVE FALSE
  BY <1>10 DEF Sweep, Cascade, OpenExtraction
<1> QED
  BY <1>2, <1>4, <1>5, <1>7, <1>9, <1>10
  DEF Next, vars, files, RetryExtraction, LatestFailed, Age, SweepUncontended

(* Callbacks, sweeps and the worker's last-resort notification never take  *)
(* a finished extraction away, and what else does is one of five things,   *)
(* with any number of jobs and requests.                                   *)
THEOREM FinishedExtractionsStay == Spec => FinishedExtractionSurvives
<1> DEFINE J == IInv /\ OwnInv /\ StoredInv /\ Started
<1>1. Init => J
  <2>1. Init => OwnInv
    BY IdleOwns DEF Init, OwnInv
  <2>2. Init => StoredInv /\ Started
    BY DEF Init, StoredInv, Started, Idle, Request
  <2> QED
    BY <2>1, <2>2, InitInv
<1>2. J /\ [Next]_vars => J'
  BY NextInv, OwnStep, StoredStep, StartedStep
<1>3. J /\ [Next]_vars =>
        [\A f \in Files :
           extraction[f] = "succeeded" /\ extraction'[f] # "succeeded" =>
             /\ extraction'[f] \in {"queued", "failed"}
             /\ \/ \E j \in Jobs : TakenUp(j, f)
                \/ \E r \in Requests :
                     /\ req[r].file = f /\ req'[r] # req[r]
                     /\ \/ req[r].op \in {"drop", "rerun"}
                        \/ req[r].op = "dispatch" /\ req[r].failed # {}
                        \/ req[r].op = "finalizing" /\ upload[f] # "pending"]_vars
  BY FinishedStep DEF Loses, LostBy
<1> QED
  BY <1>1, <1>2, <1>3, PTL DEF Spec, FinishedExtractionSurvives

-----------------------------------------------------------------------------
(* When a file gets a second live extraction.                              *)
(* What a step does to the live extractions of a file f.                   *)
Narrows(f) == Live(f)' \subseteq Live(f)

LEMMA CallbackNarrows ==
  ASSUME IInv, NEW f, NEW j \in Jobs, NEW o \in Outcomes, Unanswered(j, o),
         UNCHANGED <<kind, fileOf>>
  PROVE  Narrows(f)
<1>1. /\ status \in [Jobs -> {"none"} \cup ActiveStatus \cup TerminalStatus]
      /\ retriable \in [Jobs -> BOOLEAN]
  BY DEF IInv, RowsInv, RowsTypeOK
<1>2. UNCHANGED <<status, retriable>> \/ ApplyJobUpdate(j, o)
  BY DEF Unanswered, Lost, Callback, ExtractionCallback, PagesCallback
<1>3. \A i \in Jobs : /\ status[i] \in ActiveStatus
                      \/ (status'[i] = status[i] /\ retriable'[i] = retriable[i])
  BY <1>1, <1>2 DEF ApplyJobUpdate
<1> QED
  BY <1>3 DEF Narrows, Live

LEMMA InsertLive ==
  ASSUME IInv, NEW f, NEW k \in Fresh, NEW g, NEW why, NEW parent,
         parent \in Jobs => status[parent] = "failed",
         InsertAndDispatch(k, g, why, parent), UNCHANGED kind
  PROVE  \/ Narrows(f)
         \/ f = g /\ Live(f)' \subseteq (Live(f) \ {parent}) \cup {k}
<1>1. k \in Jobs /\ status[k] = "none"
  BY FreshId
<1>2. /\ status \in [Jobs -> {"none"} \cup ActiveStatus \cup TerminalStatus]
      /\ retriable \in [Jobs -> BOOLEAN] /\ fileOf \in [Jobs -> Files \cup {NoFile}]
  BY DEF IInv, RowsInv, RowsTypeOK
<1>3. fileOf' = [fileOf EXCEPT ![k] = g]
  BY DEF InsertAndDispatch, InsertJob
<1>4. CASE UNCHANGED <<status, retriable>>
  BY <1>1, <1>2, <1>3, <1>4 DEF Narrows, Live, ActiveStatus
<1>5. ASSUME NEW st, InsertJob(k, g, st, why, parent)
      PROVE  \/ Narrows(f)
             \/ f = g /\ Live(f)' \subseteq (Live(f) \ {parent}) \cup {k}
  <2>1. \A i \in Jobs \ {k} : /\ status'[i] = status[i] /\ fileOf'[i] = fileOf[i]
                              /\ retriable'[i] = (retriable[i] /\ i # parent)
    BY <1>2, <1>3, <1>5 DEF InsertJob
  <2>2. fileOf'[k] = g
    BY <1>1, <1>2, <1>3
  <2>3. parent \notin Live(f)' \ {k}
    BY <2>1 DEF Live, ActiveStatus
  <2> QED
    BY <2>1, <2>2, <2>3 DEF Narrows, Live
<1> QED
  BY <1>4, <1>5 DEF InsertAndDispatch

(* The races that give a file f a second live extraction.                  *)
Races(f) ==
  \E r \in Requests :
    /\ req[r].file = f /\ req'[r] # req[r]
    /\ \/ req[r].op = "finalizing" /\ upload[f] # "pending"
       \/ req[r].op = "dispatch" /\ req[r].failed \ Live(f) # {}
       \/ /\ req[r].op = "rerun"
          /\ extraction[f] \in TerminalExtraction \/ f \in skipped

LEMMA RetryLive ==
  ASSUME IInv, NEW f \in Files, NEW j \in Jobs, RetryJob(j), AtMostOne(Live(f))
  PROVE  AtMostOne(Live(f)')
<1>1. PICK k \in Fresh : InsertAndDispatch(k, fileOf[j], "retry", j)
  BY DEF RetryJob
<1>2. j \in Live(fileOf[j]) /\ status[j] = "failed"
  BY DEF RetryJob, Live
<1>3. Narrows(f) \/ (f = fileOf[j] /\ Live(f)' \subseteq (Live(f) \ {j}) \cup {k})
  BY <1>1, <1>2, InsertLive DEF RetryJob
<1> QED
  BY <1>2, <1>3 DEF Narrows, AtMostOne

LEMMA RequestChanges ==
  ASSUME IInv, NEW r \in Requests
  PROVE  /\ EndRequest(r) /\ req[r].op # "idle" => req'[r] # req[r]
         /\ \A f, todo, failed, posts :
              /\ req' = [req EXCEPT ![r] = Dispatching(f, todo, failed, posts)]
              /\ req[r].op # "dispatch"
              => req'[r] # req[r]
<1>1. \A v : req' = [req EXCEPT ![r] = v] => req'[r] = v
  BY DEF IInv, RequestsInv, RequestsTypeOK
<1> QED
  BY <1>1 DEF EndRequest, Idle, Request, Dispatching

LEMMA RerunLive ==
  ASSUME IInv, NEW f \in Files, NEW r \in Requests, RerunExtraction(r)
  PROVE  Narrows(f) \/ Races(f)
<1>1. CASE UNCHANGED rows
  BY <1>1 DEF rows, Narrows, Live
<1>2. CASE ~UNCHANGED rows
  <2>1. /\ ~InFlight(req[r].file)
        /\ \E k \in Fresh : InsertAndDispatch(k, req[r].file, "rerun", NoJob) /\ UNCHANGED kind
    BY <1>2 DEF RerunExtraction
  <2>2. Narrows(f) \/ f = req[r].file
    BY <2>1, InsertLive, NoJobAssumption DEF Jobs
  <2>3. extraction[req[r].file] # "not_started"
    BY DEF RerunExtraction, IInv, RequestsInv, RequestOK
  <2>4. ASSUME f = req[r].file
        PROVE  extraction[f] \in TerminalExtraction \/ f \in skipped
    <3>1. extraction[f] \in OpenExtraction \cup TerminalExtraction
      BY <2>3, <2>4 DEF IInv, RowsInv, RowsTypeOK
    <3>2. extraction[f] \in OpenExtraction /\ f \notin skipped => InFlight(f)
      BY DEF IInv, RowsInv, OpenFileHasJob, InFlight
    <3> QED
      BY <2>1, <2>4, <3>1, <3>2
  <2>5. req'[r] # req[r] /\ req[r].op = "rerun"
    BY RequestChanges DEF RerunExtraction
  <2> QED
    BY <2>2, <2>4, <2>5 DEF Races
<1> QED
  BY <1>1, <1>2

LEMMA AcceptLive ==
  ASSUME IInv, StoredInv, NEW f \in Files, NEW r \in Requests, CompleteAccept(r)
  PROVE  Narrows(f) \/ AtMostOne(Live(f)') \/ Races(f)
<1>1. PICK k \in Fresh :
        LET new == IF req[r].file \in Pdf THEN {k, k + 1} ELSE {k}
        IN /\ status' = [j \in Jobs |-> IF j \in new THEN "pending" ELSE status[j]]
           /\ fileOf' = [j \in Jobs |-> IF j \in new THEN req[r].file ELSE fileOf[j]]
           /\ kind' = [j \in Jobs |-> IF j \in new \ {k} THEN "pages" ELSE kind[j]]
           /\ req' = [req EXCEPT ![r] = Dispatching(req[r].file, new, {}, 0)]
  BY DEF CompleteAccept
<1>2. retriable' = retriable /\ req[r].op = "finalizing"
  BY DEF CompleteAccept
<1>3. \A i \in Live(f)' : i \in Live(f) \/ (i = k /\ f = req[r].file)
  BY <1>1, <1>2 DEF Live
<1>4. Live(f) # {} => upload[f] # "pending"
  BY FilesAssumption DEF StoredInv, Live
<1>5. req'[r] # req[r]
  BY <1>1, <1>2, RequestChanges
<1> QED
  BY <1>2, <1>3, <1>4, <1>5 DEF Narrows, AtMostOne, Races

LEMMA DispatchFailureLive ==
  ASSUME IInv, OwnInv, NEW f \in Files, NEW r \in Requests, RecordDispatchFailure(r)
  PROVE  Narrows(f) \/ Races(f)
<1> DEFINE failed == req[r].failed
<1>1. /\ status' = [j \in Jobs |-> IF j \in failed THEN "failed" ELSE status[j]]
      /\ retriable' = [j \in Jobs |-> j \in failed \/ retriable[j]]
      /\ UNCHANGED <<kind, fileOf>> /\ req[r].op = "dispatch" /\ EndRequest(r)
  BY DEF RecordDispatchFailure
<1>2. \A j \in failed : fileOf[j] = req[r].file
  BY <1>1 DEF OwnInv, Owns
<1>3. \A j \in Live(f)' : j \in Live(f) \/ (j \in failed /\ fileOf[j] = f)
  BY <1>1 DEF Live
<1>4. req'[r] # req[r]
  BY <1>1, RequestChanges
<1>5. Narrows(f) \/ (failed \ Live(f) # {} /\ req[r].file = f)
  BY <1>2, <1>3 DEF Narrows
<1> QED
  BY <1>1, <1>4, <1>5 DEF Races

LEMMA LiveStep ==
  ASSUME IInv, OwnInv, StoredInv, [Next]_vars, NEW f \in Files, AtMostOne(Live(f))
  PROVE  AtMostOne(Live(f)') \/ Races(f)
<1>1. Narrows(f) => AtMostOne(Live(f)')
  BY DEF Narrows, AtMostOne
<1>2. CASE UNCHANGED rows
  BY <1>1, <1>2 DEF rows, Narrows, Live
<1>3. ASSUME NEW j \in Jobs, WorkerStep(j) PROVE Narrows(f)
  <2>1. FailedAs(transient[j]) \in Outcomes
    BY StatusSets DEF IInv, QueueInv, QueueTypeOK
  <2>2. UNCHANGED <<kind, fileOf>>
    BY <1>3
    DEF WorkerStep, PickUp, Begin, Progress, Finish, ReportSuccess, ReportFailure,
        NotifyTerminalFailure, Stall, rest
  <2>3. UNCHANGED <<status, retriable>> \/ \E o \in Outcomes : Unanswered(j, o)
    BY <1>3, <2>1, StatusSets
    DEF WorkerStep, PickUp, Begin, Progress, Finish, ReportSuccess, ReportFailure,
        NotifyTerminalFailure, Stall, Unanswered
  <2>4. CASE UNCHANGED <<status, retriable>>
    BY <2>2, <2>4 DEF Narrows, Live
  <2> QED
    BY <2>2, <2>3, <2>4, CallbackNarrows
<1>4. ASSUME NEW m \in late, LateCallback(m) PROVE Narrows(f)
  BY <1>4, CallbackNarrows, HeldJobExists DEF LateCallback, rest, IInv, QueueInv, QueueTypeOK
<1>5. ASSUME NEW r \in Requests, CancelWrite(r) PROVE Narrows(f)
  <2>1. \A j \in Jobs : status'[j] \in {status[j], "cancelled"}
    BY <1>5 DEF CancelWrite, IInv, RowsInv, RowsTypeOK
  <2> QED
    BY <1>5, <2>1 DEF CancelWrite, Narrows, Live, ActiveStatus
<1>6. ASSUME NEW r \in Requests, RequestStep(r) PROVE AtMostOne(Live(f)') \/ Races(f)
  BY <1>1, <1>2, <1>5, <1>6, RerunLive, AcceptLive, DispatchFailureLive
  DEF RequestStep, CompleteCheck, RerunRead, CancelRead, CompleteRead, CompleteReject,
      CompleteRefused, DispatchPost, CancelAsk, ApiCrash
<1>7. ASSUME NEW reaped, NEW locked, Sweep(reaped, locked) PROVE Narrows(f)
  BY <1>7 DEF Sweep, Stuck, Active, Narrows, Live
<1> QED
  BY <1>1, <1>2, <1>3, <1>4, <1>6, <1>7, RetryLive
  DEF Next, vars, RetryExtraction, LatestFailed, Age, SweepUncontended

(* A retry takes the place of the job it repeats and a re-run returns the  *)
(* job in flight: only three races give a file a second live extraction.   *)
THEOREM SecondExtractionsRace == Spec => SecondExtractionNeedsARace
<1> DEFINE J == IInv /\ OwnInv /\ StoredInv
<1>1. Init => J
  <2>1. Init => OwnInv
    BY IdleOwns DEF Init, OwnInv
  <2>2. Init => StoredInv
    BY DEF Init, StoredInv, Idle, Request
  <2> QED
    BY <2>1, <2>2, InitInv
<1>2. J /\ [Next]_vars => J'
  BY NextInv, OwnStep, StoredStep
<1>3. J /\ [Next]_vars =>
        [\A f \in Files :
           AtMostOne(Live(f)) /\ ~AtMostOne(Live(f)') =>
             \E r \in Requests :
               /\ req[r].file = f /\ req'[r] # req[r]
               /\ \/ req[r].op = "finalizing" /\ upload[f] # "pending"
                  \/ req[r].op = "dispatch" /\ req[r].failed \ Live(f) # {}
                  \/ /\ req[r].op = "rerun"
                     /\ extraction[f] \in TerminalExtraction \/ f \in skipped]_vars
  BY LiveStep DEF Races
<1> QED
  BY <1>1, <1>2, <1>3, PTL DEF Spec, SecondExtractionNeedsARace

=============================================================================
