# SFTP Manager: formal models

TLA+ models of SFTP Manager (a FastAPI backend with a SQLite database and an
APScheduler scheduler, a Next.js frontend), model-checked with TLC.  The safety
properties of the passing runs are also proved with TLAPS.  Paths
and line numbers refer to the source files (`backend/app/main.py:1949`);
`PROJECT.json` lists for every definition the lines it models.

## 1. The system

| Component | State | Operations | Hard part |
|---|---|---|---|
| Resumable uploads (`main.py:1913-2184`) | `file_uploads` rows, one lock per upload, one per target path | start, status, content, complete, cancel | requests interleave at every `await`; the remote object, the row and the client's offset disagree after a failure; the commit follows the publication |
| SFTP gateway (`sftp/gateway.py`) | temporary objects, target files | begin, size, write, complete, abort, list, move, delete | remote calls fail half way or lose their reply |
| Blob adapter (`sftp/blob_storage.py`) | chunk objects, staging objects, markers | the same operations | publication is several calls; instances of the serverless deployment share no locks |
| Task definitions (`main.py:815-900`, `2294-2457`) | `task_definitions` rows with `next_run_at` and `enabled` | create, update, disable, delete; generation every 15 s and inside requests | overlapping passes on stale rows, catch-up, edits under a pass |
| Task lifecycle (`main.py:642-685`, `903-1015`, `2459-2540`) | `tasks` rows with `status` and `next_check_at` | start, complete, dismiss, reopen, check folder; the jobs for folder checks and overdue tasks; completion by an upload or a move | three jobs and the requests write rows they read earlier; no version is compared |
| Scheduler (`main.py:1069-1100`) | three jobs, `max_instances=1` | ticks | restart |
| Upload manager (`frontend/src/components/UploadManager.tsx`, `api/client.ts`) | list of jobs, refs of running, cancelled and aborted uploads | enqueue, pause, resume, cancel, queue effect | clicks, answers, renders and effects in any order; lost answers |
| Accounts (`main.py:1180-1474`) | `users`, `sessions`, `login_attempts` | sign-up, sign-in, password change, approve, reject, update, revoke | check-then-commit on the last administrator and the throttle |
| Access control (`main.py:1220-1261`, `1486-1556`, `1715-1901`) | `groups`, `group_members`, `folder_grants`, `enabled` of `sftp_servers` | CRUD, effective permissions, explanation, roots | cascades under running requests; a decision is several reads |
| Administration of servers (`main.py:1564-1752`) | connection columns, pinned key and secret of `sftp_servers` | create, update, rotate, delete | an edit awaits a connection test between its read and its write |
| Recurrence (`main.py:409-423`, `536-610`) | none | first and next occurrence, frequency limit | clock changes, month ends |
| Audit log, logging, database bootstrap, pages, deployment | | | sequential code or pure output |

Interactions.  The browser's upload manager drives the upload handlers; a
published upload (and a portal move) completes matching tasks in the same
transaction; the generation pass creates the tasks the other two jobs work on;
the folder check reads the folders that uploads and moves fill; portal moves,
renames and deletes touch the same target paths as uploads without their locks.
In the standard deployment everything runs in one process, one event loop:
shared state is the database, the remote servers and the two dictionaries of
locks.  In the serverless demo deployment several instances share the database
and the blob store, and each has locks of its own.

What makes each part correct:

* uploads: bytes confirmed to a client stay; a file appears whole, in one step,
  at most once, never over another one; every request is answered;
* generation: every occurrence exactly once, none skipped, all due ones in the end;
* lifecycle: completed only after a delivery; late tasks are marked; a delivered
  file completes its task;
* upload manager: no more uploads than slots, no idle slot beside a waiting job,
  one publication per file;
* accounts: an active administrator always remains, revoked sessions stay
  revoked, the throttle counts every failure;
* access: permissions are the union of the grants that apply, cut down by the
  role, the same wherever they are computed; nothing of a deleted group or
  server keeps granting; an answer was right at some moment of its request;
* servers: the pinned key and the stored secret belong to the address in the row;
* recurrence: no day left out or doubled, wall times kept over clock changes,
  work due before the next run.

The hazards of the code, at their lines, are listed in `PROJECT.json`.

## 2. Modules

| Module | What it models |
|---|---|
| `AtomicPublish` | Abstract specification of a target folder: uploads are opened, each may be published once, in one step, onto a free path (or any path with `replace`); files are moved, deposited and removed. |
| `UploadSession` | The upload handlers over the local and the SFTP adapter. |
| `UploadSessionInv` | The inductive invariant `IInv` and its named parts. |
| `UploadSessionProofs` | Lemmas, one per action, `Invariance` (`Spec => []IInv`), and what follows: types, durability, exactly once, lock order, no overwrite, refinement of `AtomicPublish`. |
| `BlobUpload` | The upload handlers on several instances over the Blob adapter. |
| `BlobUploadProofs` | All its properties, proved. |
| `TaskSchedule` | Definitions, generation passes and the edits of definitions. |
| `Recurrence` | The calendar behind `TaskSchedule`: first and next occurrence, frequency limit. |
| `TaskScheduleProofs` | The safety properties of both, proved, and when a search for an occurrence raises.  It extends the two modules, hence the names `CalendarSpec`, `CalendarInit`, ... in `Recurrence`. |
| `TaskLifecycle` | Tasks after their generation: jobs, folder checks, task actions, file events. |
| `TaskLifecycleProofs` | Its types and `CompletedHasDelivery`, proved. |
| `UploadQueue` | The browser's upload manager, with React's renders and effects, over an abstract backend. |
| `UploadQueueProofs` | Its types, slots and single publication, proved. |
| `Accounts` | Accounts and browser sessions: authentication, sign-in, password change and user administration. |
| `AccountsProofs` | All properties of its passing run, proved. |
| `AccessControl` | Groups, memberships, grants, the switch of a server, and the decisions made from them. |
| `AccessControlProofs` | All its properties, proved: types, referential integrity, the fate of deleted rows, the principals of edited grants, the decisions and their agreement. |
| `ServerRegistry` | Connection, pinned key and secret of the servers as administrators edit them. |
| `ServerRegistryProofs` | Its types and the two consistency invariants, proved. |
| `MC...` | Values of the constants for TLC, one module for each specification. |

Operators whose comment says *Mutant* are plausible bugs, used only to see that
a property notices them; no specification refers to them.

### UploadSession and AtomicPublish

A request is a process; its `pc` says where it is suspended.  One action runs
from one `await` that can really suspend to the next: waiting for the upload
lock, for the target lock, a gateway call, the commit.  The local adapter does
its check and `os.replace` without an `await` (one action, `PublishLocal`), the
SFTP adapter stats and then renames (`CheckTarget`, `RenameRemote`).  A temporary
object is the set of positions written to it, so holes and truncations show.
`WriteChunk` may store any number of bytes and then confirm or break off;
`GatewayFails` is any exception of the gateway; `RenameRemote` may lose its
reply; `Crash` loses requests, locks and uncommitted rows.  `MoveItem`, `MoveIn`,
`DeleteItem` and `DeleteTemp` are the portal's other file operations, which take
no lock.  A row refreshed under the lock is read at that moment; `cancel` keeps
using the status it read before the lock (`seen`).

External assumption: `SSH_FXP_RENAME` (protocol version 3) refuses an existing
target.  Hence the target lock is not needed for safety by these two adapters,
and `replace` fails on such a server; both are what the code does.

Bounds (`BoundedSpec` of `MCUploadSession`): one session with a file of 0 to 2 bytes
in chunks of up to 2, towards a local path (with a second path on that server for
moves) or a remote one; or two sessions for one remote path, for empty files that are
completed and cancelled, so that one completion waits for the lock of the target while
another has it.  Two requests, any number of restarts; files appear, move and
disappear at any moment.  The bounds restrict clients only: no step of a request is
cut off, so `RequestsFinish` speaks of every request that arrives.  The safety
properties, the order of the locks among them, are proved for any number of sessions,
requests, paths and bytes.

### BlobUpload

The same handlers over `BlobSftpStorage`, with what is special there.  A chunk is
an object whose key is its offset and size, written with `overwrite=False`, so a
second writer of the key gets a conflict and verifies the size of what is there.
`complete` lists the chunks, assembles a staging object by a multipart upload,
checks its size, copies it to the target, writes a marker and cleans up: six
actions (`FindStaging`, `Assemble`, `VerifyStaging`, `CopyToTarget`, `PutMarker`,
`CleanUp`), with any other request between them.  Each of them may fail before or after its effect
(`GoOnOrFail`, `StoreFails`).  An upload lock belongs to an instance, so two
requests on two instances hold "the" lock of a session at once; `Crash` ends one
instance.  The blob store (put with and without overwrite, copy, delete, a
multipart upload that becomes visible when it is closed) is external, as is the
shared database.

Three properties are weaker than one would wish, because the code is:

* A file may be torn after a cancellation, hence `WholeUnlessCancelled`.  Cancel
  on one instance deletes the chunks and stops before it deletes the row, while a
  completion on another one assembles what is left.  Three completions on three
  instances can tear it without one: the first publishes, writes the marker and
  cleans up while the second stands before its copy and the third is past the
  checks of `complete`.  The third then lists no chunks, or late ones put after the
  cleanup, writes a staging object of another size, fails its check and leaves
  that object to the second, which copies it (with `replace` over the whole file,
  else where that file has been moved away) and reports success.  `crossed` remembers these sessions.  That it takes a published and
  marked session is part of the property (`crossed \subseteq marked \cup aborted`):
  the first publication is always whole.
* The publication can be there without a marker (a stop between
  `blob_storage.py:237` and `:244`).  A retry without `replace` then meets its own
  file and is answered 409.  `SuccessIsPublished` says the other direction: a
  recorded success was a publication.
* Two completions on two instances may both record SUCCESS.

Also seen while modelling: a failed cleanup leaves chunks that nothing deletes
later, and the deletion that ends a move removes whatever is at the source then,
a file that has replaced the moved one included.

Bounds: one session of up to 2 bytes in chunks of up to 2, one path, two
instances, two requests.  With two requests no session is ever `crossed`, so in
the run only a cancellation tears a file; the case of three was found with three
requests on three instances, and the theorem covers any number of each.

### TaskSchedule

A pass is `LoadDefinitions`, `ProbeOccurrence`, then `WriteOccurrences` or
`RollBack`.  With SQLite, a session reads without a transaction until its first
INSERT or UPDATE and from then on holds the write lock until the commit, so the
write part is one action and everything before it may be stale.  The ORM writes
only changed columns (`Column`); times are always written because SQLite returns
them without a zone.  (With PostgreSQL the same handlers run under READ
COMMITTED; that deployment is not modelled.)  A request reads its row in
`LoadRow` and writes in `Update`, `Disable` or `Delete`; the pass inside
create and update requests is a second pass.  `events` counts the
`TASK_INSTANCE_GENERATE` events, a history of what was ever generated;
`overlap` remembers that an edit was committed under a pass that had loaded the
row, which is the case nothing in the repository makes a promise about and
which `NothingSkipped` and `DueIsGenerated` exclude.

`DisabledStaysDisabled` is what can be promised after a disabling edit: no pass
puts the definition back to enabled.  A pass that selected it before may still
add one task and write `next_run_at`.

Bounds: one definition, two passes, two edits one after another, clock 0..2,
period 1, two occurrences per pass instead of 100 (so a backlog needs several
passes), one restart.

### Recurrence

Instants and wall times are numbers; a zone skips `shift` slots at `spring` and repeats
them at `fall` (`Local`, `Instant` and `Valid` stand for `zoneinfo`).  The calendar is
the sequence of the first days of its months (`MonthStarts`).  A
state is a schedule with the occurrences it has emitted: `CreateDefinition` applies
`first_schedule_occurrence`, `Emit` applies `next_schedule_occurrence`.  Where a search
finds no candidate (`Raises`) the code raises, and the request or the whole pass is
rolled back, so neither action is possible.  The
properties define what they compare with from the calendar alone (the days, the
instants that show a wall time), not from the code's search.

What holds only with an exception, stated in the properties or their comments:

* a daily or weekly occurrence that was moved out of a gap stays at its moved wall
  time from then on (`main.py:599`; monthly ones keep the hour of the moved one too);
* the day of the gap is an hour shorter, so work due after exactly the frequency
  limit ends after the next run there (`main.py:410` says it never overlaps);
* a start in the second pass of a repeated hour gets the first pass of that hour
  as its first occurrence, an hour before the start;
* where a gap ends at midnight (America/Nuuk skips the last hour of a Saturday) or goes
  over it, a skipped time moves to the next day (`PastMidnight`).  The weekday that is
  compared is then that of the next day: days are taken for others, and a weekly schedule
  may have no next occurrence at all, see `NextIsFound` below.  Outside this case no
  search raises (`RecurrenceSearchSucceeds`), as the fixed period of `TaskSchedule` assumes.

Bounds: days of four slots, four months of eight or nine days, a zone without clock
changes, one with a gap within a day and a repeated pair of slots, and one whose gap
ends at midnight; every type of schedule, every choice of weekdays and month day, every
start.

### TaskLifecycle

`next_check_at` is NULL, due or later; `late` is the set of tasks past `due_at`.
The folder check is `SelectDue` or `CheckNow`, one `ListFolder` or `ListFails`
per folder, `ReadTask` (the second session, still without a lock) and
`WriteChecks`.  `mark_overdue` is `SelectOverdue` and `WriteOverdue`,
`task_action` is `LoadTask` and `CommitAction`.  `FileEvent` reads under the
write lock, since its SELECT flushes the pending upload or audit row.
Authorisation (a refused request changes nothing), audit events and disabled
servers are left out.

Bounds: one matching-file task with its folder, the scheduled check, one forced
check, one request at a time (any number one after another), one restart.

### UploadQueue

`list`, `phase` and `uploadId` are `jobsRef`; `view` holds the queued jobs of the last
render, which is what the queue effect sees.  After a click React runs an
overdue effect, then renders and runs the new effect before anything else
(`Click`); after an answer, render and effect are tasks of their own (`Render`,
`RunEffect`), so clicks and answers may come between.  `CreateSession`,
`QuerySession`, `PutChunk` and `Complete` are the requests of
`uploadFormWithProgress`, each of which may fail before or after the backend did
its part; only the PUT can be aborted.  The backend is the set of sessions with
their confirmed chunks and a counter of publications; that it publishes
a session once is what `UploadSession` shows.

Bounds: `UploadQueue.cfg` has two files, one of a chunk and one empty, and one
slot, up to two sessions for a file; the theorems hold for any number of each.

### Accounts

A request passes `LoadSession`, `LoadUser` and `Touch`, the three database steps of
`current_auth`, and goes on with the account it loaded (`auth`).  `Touch` is an
UPDATE by primary key: if the session row has gone, the ORM raises and the
request ends.  A handler loads its account in `LoadForUpdate`, `LoadForApproval` or
`LoadForRejection` (its own account is the object of the authentication,
`Found`), `CheckLastAdmin` is a query of its own, and `Commit` writes the changed
columns and deletes the sessions in one transaction.  `revoked` is a history of
the sessions that a deletion by user met.  Passwords, addresses, the CSRF
token and the throttle are left out, MANAGER and AUDITOR count as USER.

Bounds: two accounts, two sessions, two requests: one to block and one to be
blocked, or two administrators against each other.

### AccessControl

A handler reads in statements with a snapshot each and writes in one transaction.
The reads that matter are actions (`StartCreate`, `CheckServer`, `CheckPrincipal`,
then `InsertGrant`; `LoadGrant`, the two checks, then `WriteGrant`; `LoadGroup`,
then `RemoveGroup`).  A handler whose write repeats the test of its read is one action.
Three facts about the libraries carry the integrity and are modelled by
operators of their own: `PRAGMA foreign_keys=ON` (`ServerKey`; a principal is not
a foreign key), the unique constraint of a grant's target (`TargetTaken`), and
SQLAlchemy's `StaleDataError` for an UPDATE that meets no row (`GroupStillThere`,
`RowStillThere`).

An access check is `StartAccess` (server), `ReadGroups` (memberships) and `Decide`
(grants).  `right` collects the answers that a check without any interleaving would have given
at some moment since the request began.  With two commits during one check the
answer can be one that was right at no single moment (the memberships of before,
the grants of after), so `raced` takes both answers as right then;
`DecisionsWereRight` therefore speaks of one commit.

The principal of a grant is two columns, `principal_type` and `principal_id`, and an
UPDATE writes only the columns that differ from the loaded row (`Merged`).  Of two
overlapping edits of a grant to a user, one to a group and then one to another user,
the row keeps the type GROUP and the identifier of the user.  `Row` has these
rows, `MixedOnlyByOverlap` says that nothing but overlapping edits makes them, and
`NothingDangles` that nobody gets a right from one.

Notes.  A grant can be left behind for a group that was deleted between
`CheckPrincipal` and `InsertGrant`; it gives nobody anything (`NothingDangles`).
`spec/02-identity-and-access.md:155` says that stale edits of a grant get HTTP 412;
versions are counted but never compared, so edits do overlap and mix their columns.
Line 154 there says that the creation of a grant verifies that its path is a folder;
`create_grant` does not ask the server.

Bounds: an auditor and a user, one group, one server, two grants, two requests,
two nested paths, and a reading and a writing permission.  Under `Few` two
requests edit grants in several steps at once only if both have loaded the same grant
of LIST on the root path, and while both grants exist no request is followed beyond
its first step; the theorems, which cover every property of this run, hold without it.

### ServerRegistry

`Load` is the read of a row, `UpdateServer` and `RotateCredential` the write after
the connection test, with the columns that differ from the loaded ones.  `mixed` is a
history: rows that were written by an edit that had loaded an older version and
have not been written since by an edit that tested the current one.  In such a
row the address of one edit may stand beside the pin of another, and connections are
refused then, because the pin is compared; or the secret of one edit stands beside a
host and pin that fit each other, and then that secret is offered to this host.
`PinFitsAddress` and `CredentialFits` say that nothing but overlapping edits leads
there: no detour over the demo adapter, a change of the kind of secret, a rotation.

Assumed of the remote side: every address has a key of its own, and a real server
that gets no secret of the announced kind refuses the test.

Bounds: one server, two hosts, two ports, two requests.

## 3. Runs

| Run | Shows |
|---|---|
| `upload_sftp` | One session with chunks, repeats and resumption, or two sessions for one target, two requests, lost replies, moves, deletes, a restart: acknowledged bytes stay, one publication, whole, over nothing, lock order, and every request is answered. |
| `blob_upload` | The same over the Blob adapter on two instances: chunks stay, with two requests only a cancellation can tear a file, success means published, nothing is overwritten. |
| `task_schedule` | Exactly once, nothing skipped, everything due generated, disabled stays disabled, with overlapping passes, edits and a restart. |
| `recurrence` | The first occurrence is the first; no day is left out or doubled; wall times are kept; work ends before the next run. |
| `clock_change` | Violated: there need not be a next occurrence. |
| `task_lifecycle` | Completion needs a delivery; late tasks are marked; a file completes a task that still has a next check. |
| `lifecycle_delivery` | Violated: a delivered file need not complete its open task. |
| `upload_queue` | Slots, single publication, no idle slot. |
| `accounts` | Nobody enters with a revoked session or a blocked account; roles and states change only to what an active administrator asked for. |
| `last_admin` | Violated: the last active administrator can be demoted. |
| `access_control` | Nothing refers to what is deleted or comes back; only overlapping edits mix the principals of a grant; the three computations of rights agree; decisions were right. |
| `server_registry` | The pin and the secret belong to the address, unless edits overlapped. |

Every invariant, action property and liveness property of a passing run has a
mutant in `PROJECT.json`: a small bug in a mapped definition that makes the
property fail under the same configuration.

`CHECK_DEADLOCK FALSE` stands where the instance may come to rest: the bounded
clock and edits of `TaskSchedule`, an upload list in which every job is done,
`Accounts` when all sessions have been used, `BlobUpload` when its session is gone,
and `Recurrence` at the end of its calendar.

### Fairness

* `UploadSession`: strong fairness per request.  The event loop runs what can
  run, remote calls return or raise (the gateway's connections time out), and
  `asyncio.Lock` wakes waiters in order of arrival.
* `TaskSchedule`: weak fairness of every pass: the job starts every 15 seconds
  and its statements return.
* `TaskLifecycle`: weak fairness of the jobs, of requests that have loaded a
  row and of time; strong fairness of a successful listing: an outage ends.
* `UploadQueue`: weak fairness of rendering and of the answers to requests.
  Clicks are never assumed.

### What the violated runs say

* `DeliveredFileCompletes`: `mark_overdue` selects a task, a portal upload
  completes it (clearing `next_check_at`), `mark_overdue` writes OVERDUE.  The
  scheduled check skips tasks without a next check.  Only a person can help:
  dismiss and reopen it, or force a check.
* `NextIsFound`: the clocks skip the last hour of a Saturday.  The candidate of that
  Saturday becomes midnight, and the weekday compared is Sunday (`main.py:604`).  The
  candidate eight days on is a Sunday as well, the last one tried, and a schedule for
  Saturdays at that hour raises "invalid task schedule" (`main.py:610`).  Nothing between
  there and the end of `generate_due_task_instances` catches it: the pass is rolled back
  with the due occurrences of every other definition, and so is each pass after it.
* `SomeAdminActive`: `approve_user` accepts any account and writes its role, USER
  by default, without looking for another administrator; an administrator who
  approves the own account is demoted.  The check in `update_user` does not hold
  against this, nor against two administrators who demote each other at the
  same time.  Besides, an approval leaves the sessions of the account alone, where
  `spec/02-identity-and-access.md:75` says it invalidates stale ones; and after such
  a demotion a restart with the same bootstrap address fails, because
  `bootstrap_admin` inserts an address that exists.

Three observations without a run of their own.  After a lost rename reply the file
is there, but the handler answers 502 and commits a FAILURE event; the retry
finds no temporary object and fails too (`main.py:2136`); the same happens when the
process stops between the rename and the commit.  A pass that selected a
definition before the disabling request committed adds its task afterwards.  And
a slot of the upload manager can be lost for good: an upload fails and frees its slot;
React renders; before the effect runs the user cancels a queued job; the effect, on the
list from before the click, puts that job into `running`, and `performUpload` returns
before its `try`, so its `finally` never frees the slot.

## 4. Proofs

The theorems hold for all values of the constants that satisfy the assumptions
named in the modules:

| Module | For any | Assumptions |
|---|---|---|
| `UploadSession` | sessions, paths, requests, file and chunk sizes, restarts, both adapters mixed | `SizeAssumption`, `PathAssumption`, `NullAssumption` |
| `BlobUpload` | sessions, paths, instances, requests, file and chunk sizes | the same three |
| `TaskSchedule` | definitions, passes, requests, clock, period, batch limit | `TimeAssumption`, `NoneAssumption` |
| `TaskLifecycle` | tasks, folders, checks, requests | `TaskAssumption`, `CheckerAssumption` |
| `UploadQueue` | jobs, slots, chunks, sessions | `QueueAssumption` |
| `Accounts` | accounts, sessions, requests | `AccountsAssumption` |
| `Recurrence` | calendars, zones, schedules, starts | `CalendarAssumption`, `ZoneAssumption`, `NullAssumption` |
| `AccessControl` | users, groups, servers, grants, paths, requests | `RoleAssumption`, `PayloadAssumption`, `PathAssumption` |
| `ServerRegistry` | servers, addresses, requests | none |

They only say what kind of value a constant is: sizes are numbers, chunks, periods and
slots are not empty, a null value is not one of the things it stands beside, every
user has a role.  Those of `Recurrence` say a little more: no month is shorter than a
week, no gap as long as a day (three hours at most in the code), and the clocks of a
zone go forward once and back once, in this order, or not at all.  `LastStart` bounds
what is followed, so that the next month of any occurrence is in the calendar.

| Theorem | States |
|---|---|
| `Invariance` (`UploadSessionProofs`) | `Spec => []IInv` |
| `TypeCorrect` | `Spec => []TypeOK` |
| `Durability` | `Spec => []AckedBytesDurable` |
| `ExactlyOnce` | `Spec => []CompletedExactlyOnce` |
| `LockOrder` | `Spec => []LocksOrdered` |
| `NoOverwrite` | `Spec => NoSilentOverwrite` |
| `Refinement` | `Spec => PublishesAtomically` |
| `BlobTypeOK` (`BlobUploadProofs`) | `Spec => []TypeOK` |
| `BlobAckedBytes` | `Spec => []AckedBytesDurable` |
| `BlobWhole` | `Spec => []WholeUnlessCancelled` |
| `BlobSuccess` | `Spec => []SuccessIsPublished` |
| `BlobNoOverwrite` | `Spec => NoSilentOverwrite` |
| `ScheduleTypeOK` (`TaskScheduleProofs`) | `Spec => []TypeOK` |
| `ScheduleExactlyOnce` | `Spec => []ExactlyOnce` |
| `ScheduleNothingSkipped` | `Spec => []NothingSkipped` |
| `ScheduleDisabledStaysDisabled` | `Spec => DisabledStaysDisabled` |
| `RecurrenceFirstIsFirst` | `CalendarSpec => []FirstIsFirst` |
| `RecurrenceEveryDayOnce` | `CalendarSpec => []EveryDayOnce` |
| `RecurrenceWallTimeKept` | `CalendarSpec => []WallTimeKept` |
| `RecurrenceWorkEnds` | `CalendarSpec => WorkEndsBeforeNextRun` |
| `RecurrenceSearchSucceeds` | `CalendarSpec => [](PastMidnight \/ ...)`: neither search raises |
| `LifecycleTypeOK` (`TaskLifecycleProofs`) | `Spec => []TypeOK` |
| `LifecycleCompletedHasDelivery` | `Spec => []CompletedHasDelivery` |
| `QueueTypeOK` (`UploadQueueProofs`) | `Spec => []TypeOK` |
| `QueueSlotsRespected` | `Spec => []SlotsRespected` |
| `QueuePublishedOnce` | `Spec => []PublishedOnce` |
| `AccountsTypeOK` (`AccountsProofs`) | `Spec => []TypeOK` |
| `AccountsEntryIsCurrent` | `Spec => EntryIsCurrent` |
| `AccountsOnlyAdminsDecide` | `Spec => OnlyAdminsDecide` |
| `AccessTypeOK` (`AccessControlProofs`) | `Spec => []TypeOK` |
| `AccessNothingDangles` | `Spec => []NothingDangles` |
| `AccessAgreesEverywhere` | `Spec => []AccessAgrees` |
| `AccessDecisionsWereRight` | `Spec => []DecisionsWereRight` |
| `AccessDeletedStaysDeleted` | `Spec => DeletedStaysDeleted` |
| `AccessMixedOnlyByOverlap` | `Spec => MixedOnlyByOverlap` |
| `RegistryTypeOK` (`ServerRegistryProofs`) | `Spec => []TypeOK` |
| `RegistryPinFits` | `Spec => []PinFitsAddress` |
| `RegistryCredentialFits` | `Spec => []CredentialFits` |

Hardly any of these properties is inductive.  Each proof module opens with the
strengthening it uses (`IInv`), proves it for every action by a lemma and draws the
theorems from it.

`UploadSession`.  `IInv` adds: `LockInv` (who holds a lock
and at which `pc`; a holder is unique), `PcInv` (what a request at each `pc`
may rely on: its operation, an opened session, a full-size row), `StartInv` (a
session that is not open has no row and no bytes), `PrefixInv` (a temporary
object is a prefix of the file, so its size says which bytes it has),
`FlightInv` (a confirmed chunk that is not committed yet is in the object),
`OnceInv` (a published session has no temporary object, is recorded at most once
and by at most one request) and `FilesInv` (a file in a target path that came
from a session is whole and that session is published).  The argument: under
the upload lock only its holder extends a temporary object, and always at its
end, so prefixes stay prefixes and the committed offset never exceeds them; a
rename consumes the temporary object, and no action creates it again for the same
session, so a second publication finds nothing to rename; `AllBytesThere`
together with `PrefixInv` gives whole files, and the target check together with
the refusing rename gives no overwrite.  The refinement maps every action either
to a stutter or to the abstract action of its effect on the target paths.

`BlobUpload`.  Here locks exclude nothing, and the argument is about keys.  `Chunks`:
until the marker or a cancellation the chunks of a session leave no gap, cover each
byte they count, and count no fewer than the row says and no more than the file
has.  A write in flight put its chunk at the end of the chunks it saw; if a rival
was faster, the key of that offset is taken and the put is refused (`WriteFits`), so
a chunk only ever comes to the end.  A completion that found all bytes therefore
lists the whole file (`CompleteFits`), and what it assembles has no gap (`Staged`).
The size of an object is the number of the bytes of its chunks, so that
"one more chunk adds its length" is a fact about cardinalities of the library.

`TaskSchedule`.  `NoneLost` (a generated task stays in the table as long as its
definition) turns "not in the table at the commit" into "never generated", which
gives `ExactlyOnce`.  `InStep` says of the row of an unedited definition, and of
every copy of it in the hands of a pass, that nothing ungenerated lies before it:
the copy may be old, but the tasks it was made after are still there.  That a pass
leaves no gap between the row it loaded and the one it writes is a lemma about its
loop (`NoGap`).

`Recurrence`.  The first valid time found by `_localize_schedule_time` is the wanted time or the
end of the gap (`LocalizeMeans`), a time that the clocks show, and instants have the order
of the times shown (`InstantMonotone`).  Unless `PastMidnight`, the candidate is on the
day that was meant (`Landing`), so the search over 8 days finds the nearest day of the
schedule (`DailySearch`), since each weekday comes within a week; for a month, it has one day
of the schedule, later than those of the months before and by no less than the shortest month
(`MonthlyOrder`, `MonthlyDistance`).  The invariant is `OccurrencesChain`: the occurrences so
far have the wall time of the start (or the end of the gap, if the clocks skip it), later
ones are on later days, and their days are exactly the days of the schedule from the first
to the last.  `NextCandidate` says that the next one is on the next day of the schedule,
which prolongs the chain, and no nearer than the limit.  Sets of days are searched with
the least number principle (`MinExists`), which stands in for an induction over them.

`TaskLifecycle`.  A matching-file task becomes COMPLETED by a check or a file event, each
of which knows a folder that held a file (`Seen`), or by a request, which was
refused when it loaded such a task (`ByHand`).  The stale rows that the others
write back can undo a completion but never make one.

`UploadQueue`.  `Fits`: every invocation in flight has its place in `running`, and that
set never outgrows the slots; the list the effect works on does not matter.
`OneSession` and `Spent`: a job works on one session at a time, and one that
published is never active again, so a retry learns from it that the file is there.
The facts about filtered lists are proved by the least position that would be a
counterexample, since the induction theorems cannot be instantiated.

`Accounts`.  `Current`: a request that has loaded its account, with a session that is still
there, holds the account of somebody who may enter; whoever blocks an account
deletes its sessions in the same transaction, a session never changes its owner
(`Owned`), and an approval only makes accounts active (`Decisions`).

`AccessControl`.  The types and the references of the rows are inductive
together; each write is allowed by the constraint that it needs (the foreign keys
of a grant and a membership, the row count of an UPDATE), and each deletion
takes with it what refers to it.  That a grant to a deleted group is nobody's right
follows from the memberships: without rows of the group it is in no user's set.
`DecisionsWereRight` needs `Rights`: what a request that has read the server, or the
server and the memberships, is heading for is among the answers that were
right since it began; one commit adds the answer of the new rows, and the check
that meets it ends with the old or the new one, or is in `raced`.
`AccessAgrees` is no matter of history: the three computations are shown to be
equal for any set of grants.  `MixedOnlyByOverlap` needs `PairsChecked`: a request
that is about to write holds a type and an identifier that it checked together, and
over the row it has loaded it writes both.

`ServerRegistry`.  The invariant is about `mixed`.  An edit that loaded the current row leaves it
consistent, either tested (new pin, secret of the announced kind) or with the
connection columns unchanged; every other write puts the row into `mixed`.

Only model-checked is liveness, which the prover does not support: `RequestsFinish`,
`DueIsGenerated`, `LateIsMarked`, `ScheduledFileCompletes`, `NoIdleSlot`.

## 5. Not modelled

* The sign-in throttle and the files page: see the plan.
* Listings, downloads and the creation of folders, which only read or add; the
  move of a whole folder as one operation (its files move one by one, which
  `MoveCopy` and `DeleteItem` allow).
* Start-up: schema upgrades, seed and bootstrap run alone before the first request.
* PostgreSQL: the handlers of `TaskSchedule`, `TaskLifecycle`, `Accounts`,
  `AccessControl` and `ServerRegistry` are modelled with the write lock of SQLite.
  Under READ COMMITTED their transactions interleave in more ways.
* Deleting a server under a running upload; connection handling; the catalogue
  of audit events; logging; database upgrades, which run before the first request;
  cryptography; the static pages; deployment files.

## 6. Plan

1. `FilesPage`: listings out of order (`loadListing` does not number its requests as
   `loadMoveListing` does).
2. Composition: the upload manager over `UploadSession` instead of its abstract
   backend; the calendar of `Recurrence` in place of the fixed period of
   `TaskSchedule`; the deletion of a server under running uploads.
3. `Accounts`: the sign-in throttle.
