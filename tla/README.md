# BIM Dossier: a TLA+ verification of its protocols

The repository is a platform for quality assurance in construction: organizations
keep documents (IFC models, PDFs, drawings), findings (snags), inspection plans
(borgingsplannen) and deadlines; a processor extracts the uploaded files in the
background; a mobile app records findings offline. This directory holds TLA+
models of the protocols in which several actors share state, what TLC checks
about them, and what TLAPS proves. Paths below are relative to `src/apps/`; `api`
is `api/src/bimdossier_api`.

## 1. Inventory

| Part | State | Operations | Talks to |
|---|---|---|---|
| Extraction jobs (`api/jobs`, `routers/jobs*.py`, `routers/project_files/upload.py`) | `Job` and `ProjectFile` rows in Postgres, one schema per organization | complete upload, retry (two endpoints), re-run, cancel, worker callbacks, stuck-job sweep | the processor over HTTP, Postgres row locks |
| Processor queue and worker (`processor/src`) | BullMQ jobs in Redis, attempts, stalled counts | enqueue, remove, attempt, back off, stall, last-resort notification | callbacks to the API |
| Documents and versions (`api/routers/documents.py`, `project_files/`, `data_lifecycle.py`) | version numbers, content hashes, pinned head, objects in a store | initiate, complete, restore, delete a version, delete a document, sweep pending uploads | object store, jobs |
| Findings (`api/routers/finding.py`) | `Finding` rows, attachment links | create with an idempotency key, PATCH, bulk, mark duplicate, reopen, delete | Postgres; no row lock anywhere |
| Mobile outbox (`mobile/src/lib/offline`) | SQLite tables `outbox`, `sync_meta`, `cache_rows` | enqueue, sync pass, retry failed, clear conflicts | findings and attachments endpoints |
| Session refresh (`api/auth`, the portal's `tokenManager.ts`) | rotation markers and blocklist in Redis, epoch of the user, sessions in the browser | log in, refresh, switch organization, sign out here and everywhere | Redis, Postgres, the tabs of a browser |
| Members and seats (`api/routers/organization_members.py`, `me_invitations.py`, `seats.py`) | membership rows, the seat limit | invite, accept, decline, expire, change, remove, leave, delete the account | Postgres row locks |
| Borgingsplan (`api/routers/borgingsplan`) | plan rows with their versions, moments and items | generate, publish, new version, reset, inspections | findings |
| Deadlines (`api/deadlines`) | deadlines, the log of what was announced | recompute, mark as met, sweep and announce | e-mail, in-app notifications |
| Background sweeps (`api/background`) | an advisory lock per sweep | take the lock, run one cycle, survive what it raises | all of the above |
| Reports, attachments, capture links, certificates | rows and background jobs of their own | as for the extraction jobs | the processor |
| Notifications, actions, e-mail | queues, web sockets | publish after commit, best effort | Redis |
| Tenancy, pooled tier | schemas, roles, row-level security | provision, session per request | Postgres |
| Portal, web, viewer, arbiter | none shared | user interfaces, rendering, rule checks | the API |

What makes these parts hard:

* **API handlers.** Some take row locks (`FOR UPDATE`), most read without one and
  write later, and what they write are the columns that differ from what they read;
  some hold a lock while they call the processor; `complete_upload` commits between
  its phases. An exception rolls back everything a handler wrote, but nothing it did
  to the object store, to Redis or to the processor.
* **The processor.** BullMQ runs a job several times, gives a job whose lock
  lapsed to another worker while the first one goes on, and a callback may be
  lost before or after it was handled.
* **Browsers and the mobile app.** Tabs share a session and refresh it side by side;
  the app may be killed between any two SQLite statements; an answer may be lost
  after the server did the work; colleagues change the same rows.
* **Recovery** is left to periodic sweeps, which skip locked rows or read without a
  lock what they then write, and whose leader may lose its lock half way.

What has to hold, per part: files and job rows agree and all of them end; a
retried job is not revived; tampered bytes do not get through; the job cap
holds; a version that users see has its bytes and the head is a ready version of the
document; findings follow their lifecycle and replays do not duplicate them; the
outbox loses nothing; a sign-out reaches every token, and the tabs of one user are not
taken for a thief; the seats in use stay within the limit and an organization keeps an
admin; the plan in use is the newest version and superseded ones stay; a reminder
is sent once for a due date and a new date gets new ones.

`PROJECT.json` lists every component with its status, and every hazard at its
line with the properties that cover it.

## 2. The modules

| Module | What it is |
|---|---|
| `ExtractionPipeline` | job and file rows, BullMQ, the worker and the HTTP calls between them |
| `JobRecord` | the abstract specification: what a client that polls the job rows may see |
| `FileVersions` | versions of documents, their objects, and the sweep of pending uploads |
| `Shelf` | the abstract specification: what a reader of the documents may find |
| `Findings` | finding rows under concurrent requests |
| `MobileOutbox` | outbox, sync pass and the endpoints it calls |
| `Delivery` | the abstract specification: what the outbox promises whoever queues entries |
| `SessionRefresh` | refresh tokens, the epoch, and the tabs that share a session |
| `Memberships` | membership rows, seat limit and last admin under concurrent requests |
| `Borgingsplan` | the versions of a project's plan |
| `PlanHistory` | the abstract specification: the history of the plan as an auditor reads it |
| `Reminders` | deadlines, the sweep that announces them, and its leader lock |
| `<module>_proofs` | theorems about each of them |
| `MC<module>` | constants for TLC |

`ExtractionPipeline` composes four components (files, job rows, queue and worker, the
calls between them) and implements `JobRecord`: `Record == INSTANCE JobRecord WITH ...`
maps the rows to it, and `ImplementsJobRecord == Record!Spec` is both checked and proved.
Three more modules implement an abstract specification in the same way: `MobileOutbox`
implements `Delivery` (`ImplementsDelivery`), `Borgingsplan` implements `PlanHistory`
(`ImplementsPlanHistory`) and `FileVersions` implements `Shelf` (`ImplementsShelf`). Each says what
somebody outside sees and leaves out requests, reads, locks and retries; what the code
loses is a step of it with a name of its own (`PlanHistory!Lose`, `Delivery!Contest`, `Shelf!Hide`).
`FileVersions` composes the handlers, the object store and the sweep; `MobileOutbox` the
app and the server; `SessionRefresh` the browser and the API; `Reminders` the instances,
the lock and the requests that move dates. All modules follow one rule for a handler:
it is one action as long as nobody can see or change what it relies on; it is split
where it reads without a lock, and what it has read is carried in the record of the
request until it writes.

### ExtractionPipeline

A transaction is one action when every handler that could observe its middle waits
for the same row lock: `retry_job` and `rerun_ifc_extraction` call the processor
under their lock and are one action each. A handler that reads without a lock is
split at the read, and a `req` record carries what it read: `complete_upload` is
`CompleteCheck` (phases 1 and 2), `CompleteRead`, then `CompleteReject`,
`CompleteAccept` or `CompleteRefused` (phase 3), one `DispatchPost` per POST (phase
4) and `RecordDispatchFailure` (phase 5); `cancel_job` is `CancelRead`, `CancelAsk`,
`CancelWrite`. `ApiCrash` ends a request anywhere.

| Code | Variables | Actions |
|---|---|---|
| `ProjectFile.status`, `.extraction_status` | `upload`, `extraction` | all handlers |
| `Job.status`, `.retriable`, `.job_type`, `.file_id`, `.retry_of` | `status`, `retriable`, `kind`, `fileOf`, `retryOf` | all handlers |
| BullMQ | `bull`, `attempts`, `stalls` | `Enqueue`, `RemoveQueued`, `PickUp`, `AttemptFails`, `Stall` |
| one attempt of `runExtraction` | `step`, `transient` | `Begin`, `Progress`, `Finish`, `ReportSuccess`, `ReportFailure`, `NotifyTerminalFailure` |
| callbacks of abandoned attempts | `late` | `LateCallback` |
| `_sweep_org`, `created_at` | `old`, `skipped` | `Age`, `Sweep` |

A callback is lost, or handled and its answer lost, or handled and answered
(`Unanswered`, `Callback`). `origin` and `skipped` are history that the code does not
keep; only `LatestFailed` (two rows of one transaction share their `created_at`)
and the properties read them. The priorities of the queue, the contents of the
results and the wall clock are left out: any row may be old (`Age`).

### Findings

Every handler reads, evaluates its gates, and writes the columns that differ from
what it read. So a request is a read (`PatchRead`, `BulkRead`, `DuplicateRead`,
`ReopenRead`, `DeleteRead`, `CreateRead`), which leaves the changes in `request`, and
`Commit` (or `CreateInsert`), which applies them to whatever the row has become.
`Reload` is the second load of the row, after which an edit of a deleted finding
rolls back; the bulk rows have none. `Abort` is every other way a request ends. A
finding has a status, the set of its filled-in optional fields, its duplicate
target, its key and its deletion mark. Roles, photos, comments and custom values
are left out.

### MobileOutbox

One action is one SQLite statement or one HTTP exchange; `Crash` may come between
any two. `StartPass` takes the snapshot of pending entries, `Consider` is the head of
`syncPhoto`, `syncCreate` and `syncUpdate`, `Answered` and `Unanswered` are the
request, `RecordMapping`, `RemoveEntry` and `RecordFailure` what is written after it.
`Serve` is the server: an idempotent create, an update gated by the lifecycle, and
the two-phase upload of a photo, whose rejection is rolled back by the exception
that reports it. `OtherWrites` are colleagues and the pending-upload sweep. The read
cache and the sign-out wipe are left out.

### FileVersions

No row is read `FOR UPDATE`, and objects are outside of every transaction. `InitiateRead`
is the pre-check of the content and `MAX + 1`, `InitiateInsert` the insert that two
partial indexes and the foreign key may refuse: the index on the content leaves swept
rows out, the pre-check does not. `Put` is the client's upload. `CompleteCheck` (phases 1
and 2), `CompleteDiscard` (the deletion of a rejected object), `CompleteRead`, then
`CompleteAccept` or `CompleteReject` are `complete_upload`. `RestoreRead` and `RestoreWrite`
pin a version; `DeleteObject` and `DeleteRow` are `delete_file`; `DeleteDocument` and
`DeleteCommit` are `delete_document`, whose transaction holds its rows from its flush on
(`Locked`). `SweepRead`, `SweepObject` and `SweepCommit` are the sweep, which stamps the rows
it read whatever became of them. `Abort` and `SweepFail` end a request or the sweep
anywhere; objects they deleted stay deleted (`abandoned`, history). A deletion of an object is best
effort and may fail (`RemoveObject`). Left out: names, disciplines, alignments, downloads,
and the status of the extraction, of which restoring asks only that it be viewable.

### SessionRefresh

One tick of `now` is the second to which `iat` is rounded. A token is a row of `token` with
its rotation marker; the blocklist is `blocked`; `epoch` is `tokens_valid_after`. A refresh
is `Send`, then `RefreshPasses` (not retired, or the read of the marker failed soft) and
`Rotate`; or `RefreshInGrace` (retired within the grace window) and `Reissue`; or
`RefreshReused` (retired before it, which ends every session); then `Receive`. `Switch...` is
the change of the organization, which blocks the old token and mints a new one. A tab has
its own copy of the session: `SetTokens` writes it and `localStorage`, `Sync` is the storage
event. `SessionExpired` is every failed refresh. `PageLeft` is a page closed, reloaded or
killed in the middle of one: the API goes on with the request, nobody takes the answer,
`localStorage` keeps the token presented, and the next page reads it (`AuthProvider.tsx:113`).
`Logout` posts and does not wait. `LogoutAll` and `RefreshReused` only read the time of the new
epoch (`Stamp`); `EpochCommits` makes it visible, later in that second or in the next, and
`RevocationEnds` closes the handler or rolls it back. History: `late` (tokens handed
out after the time of an epoch by requests that passed their checks before its commit,
and what was minted from them), `cutoff` (the greatest time ever committed), `alarm`,
`relapsed` and `abandoned`. A tab has one request under way; the checks of one
request are one step; access tokens are known by the time they were minted at, and
their blocklist is left out.

### Memberships

Every operation reads the membership (`Invite`, `ToggleGuest`, `Patch`, `Remove`, `Leave`, `Accept`,
`AcceptAtLogin`, `Withdraw` for a decline or an expiry, `Relimit` for the seat limit).
`CheckSeat` takes the lock of the organization and counts, `CheckAdmin` locks the admins that
keep the organization governed; both locks are held to the end of the request. `Write`
writes the columns that differ from what was read, to whatever the row has become
(`Written`). `DeleteAccount` removes the rows of a deleted account, without the check.
The term of an invitation is left open: a pending one may be accepted or expire.
`raced` (history) records that a request wrote to a row, or under a limit, that was not
what it had read. Left out: organizations without a limit, suspended ones, project
memberships and their owners, the last superuser.

### Borgingsplan

Four requests, each a read of the plan it is about and a write in the same transaction:
`GenerateRead`/`GenerateWrite`, `PublishRead`/`PublishWrite`, `NewVersionRead`/`NewVersionWrite`,
`ResetRead`/`ResetWrite`. The write succeeds when the table it makes satisfies the two unique
indexes (`Indexed`) and the row to update is still there. Moments and checklists come
and go with their plan and are left out.

### Reminders

`SweepBegin` takes the advisory lock and reads the deadlines that are due, `SweepDecide` asks
the log, `SweepCommit` logs, and only then `Send` and `SendFails` dispatch; `SweepRefused` is a
transaction that fails on an index or an error, after which the loop over the deadlines
still dispatches what it had staged. `LockLost` drops the connection that holds the lock
under a sweep that goes on. `Redate` and `Undate` are `recompute_deadlines`, which clears the
log of a deadline whose date changed; the insertion of a deadline is a `Redate` of a row
that had no date. `MarkMetRead` and `MarkMet` are the filing. `gen` numbers the due dates of a
deadline. Calendar arithmetic is abstracted: a date is any of a few days. `sent`, `twice`,
`failed` and `overtaken` are history; `faults` bounds crashes, errors and lost e-mails.

## 3. What the runs check

| Run | Question | States |
|---|---|---|
| `pipeline_lifecycle` | Do files and rows stay consistent through BullMQ attempts, stalls, late callbacks, cancellations and contended sweeps? `TypeOK`, `OpenFileHasJob`, `SupersededStaysDown`, `FinishedExtractionSurvives`, `TerminalStaysTerminal` | 3.8M |
| `pipeline_races` | Two requests on one file at the limit, with tampered bytes. `WithinCap`, `TamperedNeverExtracted`, `SecondExtractionNeedsARace` | 0.75M |
| `pipeline_settles` | A PDF, whose upload makes two jobs: do the rows implement `JobRecord`, and does everything end? `ImplementsJobRecord`, `EveryJobSettles`, `EveryFileSettles` | 0.28M |
| `file_versions` | What may lose its bytes, what the head pointer may name, what the content index does not see, and what readers find. `TypeOK`, `NoDanglingVersion`, `PinnedHeadIsReady`, `UploadsNotDoubled`, `ImplementsShelf` | 1.2M |
| `findings_pair` | Two findings, two requests of any kind. `TypeOK`, `OneFindingPerKey`, `DeletedStaysPut`, `CircleOnlyByStaleMark` | 1.9M |
| `findings_gates` | Every payload on one finding. `LegalWhenUndisturbed` | 0.9M |
| `outbox_replay` | A photo, its finding, two updates and a refused photo. `TypeOK`, `WaitingBurnsNothing`, `ImplementsDelivery`, `CreatesReachServer` | 0.36M |
| `session_refresh` | What does signing out everywhere reach, and when are two tabs taken for a thief? `TypeOK`, `SignOutReachesAll`, `AlarmHasACause` | 3.4M |
| `memberships` | What do the two row locks protect, and which late answers to an invitation go past them? `TypeOK`, `SeatsWithinLimit`, `NeverHeadless` | 2.8M |
| `borgingsplan` | What do two indexes and unlocked reads leave of the version history? `TypeOK`, `ActiveIsNewest`, `ArchiveComplete`, `SupersededForGood`, `ImplementsPlanHistory` | 40,642 |
| `reminders` | What goes out twice, what does the log hold back, is a missed deadline logged in the end? `TypeOK`, `SentOnce`, `LogIsOfThisDate`, `MissedIsLogged` | 1.5M |
| `doubt_published_persists` | States what comments say of a published plan; it must be violated (section 4) | |

**Bounds.**

* Pipeline: two jobs; the second is the retry or the re-run of the first, or the page
  images of a PDF, and every property relates at most two jobs of one file. A PDF that
  is also retried needs a third, and so does a retry of a job that failed beside one that
  succeeded; neither fits a run, and the safety of both is left to the proofs, which
  bound nothing. Handlers of different files touch no common
  row (the job count apart, which `MaxJobs` over `Limit` exercises). Two requests are
  what a race needs; runs that look for the worker's races have one. Two attempts and
  one stall reach every branch of BullMQ's decision to run a job again; one late
  callback is enough to arrive after any other step.
* `FileVersions`: two files of one document are a version and its replacement; the three
  contents are a PDF (whose completion clears the head), a DXF (whose does not) and
  a broken one. `Files` are ids used once, so two also bound the uploads of a behaviour.
* Findings: two findings are a duplicate and its target; one optional field suffices
  where the gates are not the question, and three (one for promotion, both of the
  evidence gate) where they are.
* Outbox: five entries hold each kind once, a dependency of each kind and a refused
  photo; two attempts and one crash reach the retry limit and the stranded entry.
* `SessionRefresh`: two tabs of one browser and three tokens are a token, its successor
  and a second successor, or a login after a sign-out. A request is answered, and the
  time of a sign-out committed, in the same second or the next (`Delay = 1`), so that
  checks, commits and answers fall on both sides of a tick; the grace window is then
  three seconds, to outlast two requests as the assumption on `Grace` asks, and four
  seconds let it end. Refreshes happen at any time; `Agenda` says when the user
  does the rest: two sign-outs everywhere, in seconds 1 and 2, a switch in between, and
  a login before and after them. The request of a page that was left ends when it comes to
  nothing; the reloaded page that is quicker is the other tab.
* `Memberships`: two users are the admin and the member of a race, two requests the race,
  and a limit of one or two seats is full or not.
* `Borgingsplan`: five rows that may ever be inserted and three requests; the longest
  chain that matters is a version, its successor, and a stale write over both.
* `Reminders`: one deadline (the rows of a sweep are independent), two instances, two
  tiers and the missed alert, two days, one change of the date, two faults: a lost
  lock and a crash, error or lost e-mail after it.

Findings, files, requests, users, plans, tabs and tokens are interchangeable, and the
runs `findings_pair`, `file_versions`, `session_refresh`, `borgingsplan` and `memberships`, which
check no liveness, use that symmetry. `CHECK_DEADLOCK FALSE` in all but one: ids of rows,
tokens and entries are bounded, and a system in which all of them are used up may stop.

**Fairness.** `pipeline_settles` assumes that time passes and that the periodic sweep
goes on and meets free rows again and again (`reconcile.py` runs in a loop that
survives the exceptions of a cycle). Nothing is assumed of the worker, of the
network or of a request. `outbox_replay` assumes that a pass is started when something
is pending (app to the foreground, network back, back-off timer), that a
pass goes on unless the app is killed, that the user presses retry, and (strong
fairness) that a request sent again and again gets through at last. `reminders`
assumes that each instance goes on with its sweep and begins another one when the lock is
free (`PeriodicSweeper._loop` catches what a cycle raises and sleeps); crashes and errors
are not fair, and finitely many.

**Properties that name exceptions.** `FinishedExtractionSurvives`, `SecondExtractionNeedsARace`,
`DeletedStaysPut`, `CircleOnlyByStaleMark`, `NeverHeadless` and `LegalWhenUndisturbed` name the
request that may do what they forbid to all others. `SecondExtractionNeedsARace` lists the three
ways to a second live extraction of a file; TLC finds the property broken in
`pipeline_races` without the first (an overtaken completion) and without the second (phase 5 over
a job that was replaced meanwhile). The third, a re-run of a file that a late success has
settled, needs bytes that are not tampered with, which the file of that run is not; the theorem
covers all three. `FinishedExtractionSurvives` constrains every step out of `succeeded` and
lists five ways: a cancellation, a re-run, a failed dispatch, a completion that was
overtaken by another one of the same upload (it queues the file anew, `upload.py:449`),
and a retry. `pipeline_lifecycle` has one request and so meets the first three; the overtaken
completion takes two, and in the bounds of `pipeline_races` with a file that is not
tampered with TLC finds the property broken without any one of the first four. The retry
takes three jobs and two requests, more than a run can hold: two completions of one
upload insert a job each, one fails and stays retriable, the other succeeds, and a retry of
the first by its id takes the file back. `retry_job` looks at the row of the job alone
(`jobs/lifecycle.py:162`). The theorem covers all five. `LegalWhenUndisturbed` says exactly how far the unlocked reads of
`finding.py` can be trusted: a request whose rows nobody wrote between its read and its
commit obeys the lifecycle. `SeatsWithinLimit`, `SentOnce`, `LogIsOfThisDate`,
`SignOutReachesAll`, `AlarmHasACause` and `NoDanglingVersion` use a history variable
for the same purpose: it is set by the races that the code admits, and TLC finds the
promise broken without it (`SignOutReachesAll` without `late` after 931 states; `AlarmHasACause`
with `relapsed` alone and with `abandoned` alone). `CreatesReachServer` lists every reason for which a queued create
may be stuck for good, among them two that a restart or a retry does not cure: an entry
that was being sent when the app was killed stays `syncing`, and a photo that the server
has as `ready` is refused for ever when the answer to its completion was lost.

## 4. Where the code and its comments disagree

`doubt_published_persists`: `plan.py` and the model of the table say that published plans
are read-only and that older versions persist as superseded rows, for the legal audit
trail. `generate_borgingsplan` and `reset_borgingsplan_to_template` delete the row they read as a
draft (`plan.py:431`, `plan.py:655`) although another request may have published it since;
the published version is gone and its number goes to the new draft.

The models also show these, each read off a behaviour of the module named:

| Module | What a comment says | What the code does |
|---|---|---|
| `ExtractionPipeline` | a job is retried once (`jobs/lifecycle.py:193-195`) | phase 5 of `complete_upload` (`upload.py:557`) marks a job retriable that ran and was retried meanwhile, because the answer to its dispatch was lost |
| | a cancelled job does not run (`jobs/dispatcher.py:160-164`) | a job that is inserted and not yet dispatched is `not_found`, is cancelled, and runs when the POST arrives; a finished job that BullMQ retains (`queue.ts:122`) is `removed`, and cancelled over its success |
| `Findings` | `verified` ends the lifecycle (`finding.py:92-93`, `1467-1468`) | a PATCH that read `resolved` and sets `in_progress` commits over `verified` |
| | a finding cannot be a duplicate of a duplicate, "no chains" (`finding.py:1397`) | marking A a duplicate of B and then B of C makes a chain without any race; a circle takes one (`CircleOnlyByStaleMark`) |
| `MobileOutbox` | replays are harmless (`mobile/src/lib/api/findings.ts:50-52`) | the replay of an update whose answer was lost undoes a later update |
| | every create is replayed until it is synced (`queries.ts:52-54`) | the completion of a photo is refused when it was done (`attachments.py:331`); the finding that refers to the photo never syncs |
| `FileVersions` | the pre-check of an upload leaves soft-deleted rows out, as the index does (`models/project_file.py:343-347`) | it does not look at `deleted_at` (`upload.py:113-123`): the content of a swept upload is refused for ever |
| | a later upload becomes the head again (`upload.py:632-635`) | only an IFC or a PDF clears the pinned head; two completions may also both set the type of the document |
| `SessionRefresh` | the grace window is for tabs that refresh side by side (`config.py:31`) | a tab that is answered late adopts a token that another one has retired (`tokenManager.ts:67`), and is taken for reuse at its next refresh; so is the user who reloads or closes the page while a refresh is under way and comes back after the window, since `localStorage` keeps the token that the API retired (`AuthProvider.tsx:113-118`, `refresh.py:182`) |
| | a sign-out everywhere is durable: every token minted before it is dead (`logout.py:75-82`) | its time is read before its commit is awaited (`logout.py:86-87`): a request that passed its checks before the commit, and mints in a later second, hands out tokens that live on; of two sign-outs that commit in the other order the earlier time stays |
| | a rotation does not lengthen the session (`refresh.py:83-91`, `167-170`) | a token has at least 60 seconds to live (`tokens.py:101`), and a switch of the organization with an expired refresh token gives a full life; the refresh of another tab undoes a sign-out or a switch in the browser |
| `Memberships` | an acceptance cannot push the count over the limit (`seats.py:90`) | one that read the invitation before it was removed revives a row whose seat was given away |
| | a decline never leaves an organization headless (`me_invitations.py:198-200`) | one that read the invitation before it was accepted removes the only admin; so do an expiry, a second invitation, and `UserManager.delete` (`auth/manager.py:294`) |
| | a guest is no admin (`models/organization_member.py`) | a PATCH beside the change to a guest makes it one |
| | `removed` is terminal, a new invitation creates a row (`membership_rules.py:33-34`) | the row is used again |
| `Reminders` | what was sent is logged after it (`reminder_engine.py:8-12`) | it is logged before: a crash between loses the mail; an error of the flush is swallowed per deadline, what was staged is sent, and sent again by the next sweep |
| | a new due date gets new reminders (`compute.py:105-106`) | a sweep that read the old date logs its notice after the log was cleared, and holds back that of the new date |

Other behaviour the models have, which nothing in the repository rules out: a re-run
beside an active retry, after a late success of the job it supersedes; two
completions of one upload that both insert jobs, of which one that failed can still be
retried after the other succeeded, at the cost of the finished extraction; a file skipped by a sweep has no
later sweep (the exception `skipped` of `OpenFileHasJob` and `EveryFileSettles`); the
failed job `retry_extraction` picks may be the page rasterization; a version number of a plan that is given twice; a filing of a deadline
that commits over the recomputation of its date and stays `met` for the new one; a
deadline that becomes applicable again keeps the log of before.

## 5. What is proved

The proofs are for all values of the constants that satisfy the named assumptions of
each module; every theorem rests on an inductive invariant of its module (`IInv`, with what
is named below), and none of the properties is inductive without it.

| Module | Theorem | Property |
|---|---|---|
| `ExtractionPipeline_proofs` | `TypeCorrect` | `TypeOK` |
| | `OpenFilesHaveJobs` | `OpenFileHasJob` |
| | `RetriedJobsStayDown` | `SupersededStaysDown` |
| | `TamperedFilesAreNeverExtracted` | `TamperedNeverExtracted` |
| | `TerminalRowsStayTerminal` | `TerminalStaysTerminal` |
| | `ActiveJobsAreCapped` | `WithinCap` |
| | `FinishedExtractionsStay` | `FinishedExtractionSurvives` |
| | `SecondExtractionsRace` | `SecondExtractionNeedsARace` |
| | `Refinement` | `ImplementsJobRecord` |
| `FileVersions_proofs` | `TypeCorrect` | `TypeOK` |
| | `PinsAreReady` | `PinnedHeadIsReady` |
| | `VersionsHaveBytes` | `NoDanglingVersion` |
| | `NoUploadTwice` | `UploadsNotDoubled` |
| | `Refinement` | `ImplementsShelf` |
| `Findings_proofs` | `TypeCorrect` | `TypeOK` |
| | `ReplaysAgree` | `OneFindingPerKey` |
| | `DeletedFindingsStayPut` | `DeletedStaysPut` |
| | `UndisturbedRequestsAreLegal` | `LegalWhenUndisturbed` |
| | `CirclesNeedARace` | `CircleOnlyByStaleMark` |
| `MobileOutbox_proofs` | `TypeCorrect` | `TypeOK` |
| | `WaitingIsFree` | `WaitingBurnsNothing` |
| | `Refinement` | `ImplementsDelivery` |
| | `CreatesAreNotDoubled`, `NothingIsDropped` | `OneSnagPerCreate`, `NothingDropped` (in no run: `Delivery` says both) |
| `SessionRefresh_proofs` | `TypeCorrect` | `TypeOK` |
| | `EveryoneIsSignedOut` | `SignOutReachesAll` |
| | `NoFalseAlarm` | `AlarmHasACause` |
| `Memberships_proofs` | `TypeCorrect` | `TypeOK` |
| | `SeatsStayWithinLimit` | `SeatsWithinLimit` |
| | `NoOrganizationLeftHeadless` | `NeverHeadless` |
| `Borgingsplan_proofs` | `TypeCorrect` | `TypeOK` |
| | `NewestIsActive` | `ActiveIsNewest` |
| | `AuditTrail` | `SupersededForGood` |
| | `Refinement` | `ImplementsPlanHistory` |
| | `CompleteArchive` | `ArchiveComplete` |
| | `AlwaysOneActive` | `ActiveOnceGenerated` (in no run: the history has one current version) |
| `Reminders_proofs` | `TypeCorrect` | `TypeOK` |
| | `NothingSentTwice` | `SentOnce` |
| | `FreshReminders` | `LogIsOfThisDate` |

**ExtractionPipeline.** `IInv == RowsInv /\ QueueInv /\ RequestsInv`. `RowsInv` joins the
properties to facts about the rows: a job id that was not handed out has no row, ids are
handed out in order, and no job has a file that was never queued (or a callback could
start it without an active job). `QueueInv` says that BullMQ and the worker know only ids
that were handed out (or a callback would arrive for no file), that an attempt is under
way only on an active job, and that a waiting or active job has attempts left, which
the types of the counters need. `RequestsInv` says that a request works on a file and
on jobs whose rows exist, so that a cancellation or phase 5 makes no row out of nothing.
The lemmas give what a callback, a failed attempt and an inserted job may do to each
part; each action has a lemma of its own; the step theorem splits `Next` and cites them.
The refinement is a second pass over the actions: each moves every row as the abstract
record allows (`Moves`). The cap is an argument about cardinalities: a step activates
nobody, or inserts one job under the limit, or two where there are PDFs (`Admits`).
`FinishedExtractionSurvives` needs one more fact, that the jobs a request will cancel or fail
belong to the file it names (`OwnInv`), which holds because a job never changes its
file (`FilesStay`), and for the completions `StoredInv` and `Started`: an upload that is pending has
no job, so a file whose extraction has started is not pending, and a completion that finds it
finished was overtaken. `SecondExtractionNeedsARace` is about the set `Live(f)` of extractions that run,
wait or may be retried, which a callback, a sweep or a cancellation only narrows (`Narrows`):
a retry puts its job in the place of the one it repeats, and an insertion by the first
completion of an upload finds no job there, because an upload that is pending has none
(`StoredInv`).

**FileVersions.** `TypeOK`, `RowInv`, `SweepInv`, `RequestInv`, `PinnedHeadIsReady`, `BytesInv`. A row
never comes back, keeps its document and its content, and its content alone decides
whether it is accepted or rejected (`RowInv`, `RequestInv`): so the row a request holds is the
one it read or is gone, and the foreign keys stop the pin of a version that is gone. For an
insert, `RequestInv` says that no row that holds its content was there when it looked.
`BytesInv` asks for the bytes from the moment an upload is let through, before the
version is ready. For the refinement a row must not outlive its document (`LiveInv`): the foreign
key and the rows that a deleted document takes along see to it, and then each write of a
request is a step of `Shelf` on the rows it finds, whatever the request had read.

**Findings.** `TypeOK`, `KeyInv`, `RequestInv`. `OneFindingPerKey` is about answers
that were given earlier; `KeyInv` ties them to the rows: a key, once taken, belongs to one
row, a deleted one included, and only that row was ever answered. `RequestInv` says what
a request holds between its read and its commit, so that a deletion, which is the
one request beside a bulk edit that commits without a reload, changes nothing but the
mark. `LegalWhenUndisturbed` is about a commit and the gates that were evaluated a read
earlier, so its invariant is about the commit still to come: as long as nobody wrote to
the row of a request, what it would make of that row is legal (`LawfulInv`).
`CircleOnlyByStaleMark` needs what a mark knows until it commits (`MarkInv`): as long as it is
not stale, its target is no duplicate. In a circle every member is a duplicate, the target of
the closing mark included, so that mark is stale.

**MobileOutbox.** `TypeOK`, `ServerInv`, `PassInv`, `WaitingBurnsNothing`. `PassInv` relates
the point the pass has reached to the rest: the entry being sent waits for nothing
and has an attempt left (so burning one violates neither `TypeOK` nor
`WaitingBurnsNothing`), and once it was answered with success the server has it (so the
removal, two steps later, drops nothing). `ServeKeeps` and `OthersKeep` are the lemmas
about the server that this rests on: no request, no colleague and no sweep takes back
what was delivered. An entry that spent its attempts has been sent, so by
`WaitingBurnsNothing` it waits for nothing and may be parked. The refinement needs more
of the pass (`ChannelInv`): the entry being sent is marked so, the rest of the snapshot is
pending, only an update meets a conflict, and the server carried out whatever has a server
id, hence all that the entry being sent refers to. Each request, answered or not, is then
`Deliver` or nothing.

**SessionRefresh.** `TypeOK`, `TokenInv`, `HeldInv`, `ClockInv`. What a tab, a browser or a request
holds is presented again later. So a token younger than the epoch that is not late comes
from a login after every sign-out that was committed (`After`), and a successor is no older
than its predecessor (`TokenInv`); a session whose access token outlives the epoch belongs to
such a login too (`Known`), since a switch of the organization looks at the access token
alone; and a request that was let through and not overtaken still presents, or has read
from the marker, a live token (`Let`). When an epoch commits, what was handed out since its
time was read becomes late, and the requests under way are overtaken. That epochs may go
back is why `After` is about `cutoff` as well, which does not, and which the clock bounds (`ClockInv`).
For the alarm (`AInv`): a token stays in the browser it was minted for, so a browser keeps a
retired token only while the tab that retired it has its answer to adopt (`Awaited`); if
that page is left, `abandoned` says so, and there is nothing more to show (`Excused`). A
tab keeps a retired token at most a `Delay`, since tabs are in step with their browser
when time passes; and what a tab presents was retired at most two of them ago
(`Recent`), which is why the window must outlast two requests.

**Memberships.** `TypeOK`, `ShapeInv`, `LockInv`, `SeatInv`, `SeatsWithinLimit`. `ShapeInv` says what each
operation may have read and may write, and that a row it will update is there. `LockInv`: a
locked admin stays an admin, and a request that passed the check keeps another admin
locked or leaves its own an admin. `SeatInv`: one granted seat at a time, and
that seat is still free.

**Borgingsplan.** `Good(plan) /\ ReqInv`: the four facts about the table hold together or
not at all, since the index allows an insertion only where no other plan is active, and
the write of a request is shown to keep them of any table that the index accepts, stale read
or not. The refinement needs one fact more, that what a request read as published is not a
draft now (`IssuedInv`), so that no draft gets into the archive. That the archive is complete
is proved of the steps of `PlanHistory` alone and carried over to the rows.

**Reminders.** `TypeOK`, `DueInv`, `GenInv`, `DateInv`, `SentInv`, `SentOnce`. What is logged or about
to be is of the date its deadline has, unless a sweep was overtaken (`DateInv`); what was sent
or is being sent is in the log, or of a date that is past, and is not about to be sent by
another instance, unless a transaction failed or a sweep was overtaken (`SentInv`, with `GenInv`
and `DueInv` on the numbers and presence of dates). The unique indexes of the log do the rest.

Every safety property that a run checks is also proved. Out of
the prover's reach, and left to TLC: liveness under fairness (`EveryJobSettles`,
`EveryFileSettles`, `CreatesReachServer`, `MissedIsLogged`), anything with ENABLED, induction
over data, and recursive operators (no module has one).

## 6. Plan

In the order in which they would add most:

1. Attachments and reports: the extraction protocol with other rows, and the rejection
   that its own exception rolls back (`attachments.py:340`).
2. Inspections: `complete_moment` counts results while `submit_result` changes them
   (`inspection.py:370`), a stale `start_inspection`, edits of a plan that is published meanwhile.
3. `MobileOutbox` over `Findings`, so that the server of the outbox is the module that models
   it instead of `Serve`; a mapping of one state space onto the other is what has to be found.
4. The use counter of capture links; the ghost rows of the mobile read cache.
5. Runs with a third job, so that a PDF is also retried, and with two documents.
6. Abstract specifications of `Memberships` (a roster with its seats) and of `SessionRefresh` (what
   a user who signs out may rely on), to be implemented as the other four are.

## 7. Not modelled

The repository is some 150,000 lines, of which the protocols are a small part: most of
it is user interface, three-dimensional rendering and measuring, parsing and
formatting (IFC, DXF, PDF, BCF, CSV, reports), translations and record keeping in
single transactions, which have no interleaving to explore; what they compute is data, and
the models leave data out. Notifications and e-mail are best effort by design. The
pooled free tier repeats the handlers of the paid one behind row-level security.
Provisioning runs once for an organization; what it leaves is the initial state of
`Memberships`.

Three properties say less than their names may suggest. `WithinCap` is about what one check
admits: the check and the insertions are one action, since `check_job_concurrency` holds an
advisory lock to the commit, so that a lost lock would not be seen. `MissedIsLogged` is satisfied by
a log of a former date, which `LogIsOfThisDate` bounds. In `pipeline_lifecycle` one request is under way
at a time, and what takes two is left to the other runs and to the proofs.

Within the modelled parts: the DXF and attachment job types, priorities and
rate limits of the queue, soft deletion of files in `ExtractionPipeline`, roles and
permissions, photo and comment rows of findings, the mobile read cache, access tokens on
the blocklist, deactivated accounts (`CheckAdmin` may lock any of the other admins; `NeverHeadless` counts
an admin whose account is deactivated, which the check in the code does not), moments and checklist items of a plan, the settings that say who is reminded
and when, project memberships.
