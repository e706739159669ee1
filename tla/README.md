# Duefold: TLA+ models, model checks and proofs

Duefold is a virtual data room: members upload documents, the worker scans and converts them,
members publish them in rooms, and viewers read watermarked pages or download originals, every
access leaving audit evidence. A PostgreSQL database, an S3-compatible object store, a web
process, one or more worker processes and two browser clients share this work. Every operation
is one database transaction, or a sequence of transactions and storage calls with nothing but
the job queue behind it when it stops half way. What is hard in this code lies between those
transactions, and that is what this project models.

The functions of the module migrations are the authority for state and authorization; a later
migration replaces functions of an earlier one (`CREATE OR REPLACE`), and the models follow the
definition that wins. Paths below are relative to the repository.

## 1. Inventory

| Component | State | Operations | Interacts with | Hard behaviour | What makes it correct |
|---|---|---|---|---|---|
| Job queue and runner (`apps/worker/src/runner.ts`, `core-security/migrations/001`) | `job_queue` rows: state, attempts, lease owner, token and expiry | enqueue, claim, heartbeat, complete, fail, exhaustion sweep with hook, recurring successor | every component queues work and checks the lease in its own functions | runners stall, crash, lose replies; hooks raise | one live run per row; no settled row reopens; hook and failure together; schedules neither die nor fork; every row ends |
| Processing (`jobs/source-validation.ts`, `derivative-cleanup.ts`, `retention-sweep.ts`, `processing-retry.ts`, `failed-source-deletion.ts`; 003, 029, 035, 036) | `document_version.state`, scan and derivative evidence, cleanup intents, derivatives in storage, `retained_until` | validate, store pages, accept, fail, clean up, retry, sweep, delete on request | queue, storage, scanner, converters | attempts that outlive their lease, crashes between storing and recording, deletion racing a retry | accepted pages stay; nothing stored is unnamed; the source outlives its need; every version leaves quarantine |
| Uploads (`uploads.ts`, `multipart-reap.ts`; 002) | `upload_intent`, multipart upload, assembled object, version | create, finalize, fail, expire, reap | queue, storage, then Processing | lost COMMIT replies, concurrent finalizers, the deadline | a version keeps its object; leftovers have a reaper; intents settle |
| Watermarked pages (`protected-delivery.ts`, `watermark-cleanup.ts`; 008, 030, 042) | `watermark_cache`, page objects | begin, compose, finish, deliver, expire, revoke, delete, purge | sessions, grants, queue, storage | revocation during composition, lost replies, crashes | an active cache has its page; revoked sessions show none; no orphan; sessions are forgotten |
| Preview evidence (008, 035, 043; `preview-inactivity.ts`) | `preview_activity`, events, finalizer rows | begin, record page, heartbeat, summarize, finalize, reopen | queue, audit log, several tabs | tabs that race over one row, finalizers that chain | events exact; delivered pages reported; an abandoned activity ends |
| Downloads (`downloads.ts`, `download-finalizer.ts`; 008) | `download_lease`, served ranges, summary | create, authorize and record a range, fail, finalize | queue, storage, grants | overlapping ranges against expiry and failure | one summary, final; completed means whole; leases end |
| Structure, publication, trash (004, 005, 029, 035, 049, 050; `structure.ts`, `room-operations.ts`, `routes/structure-mutate.ts`, `trash-purge.ts`) | entries, revisions, published entries, trash and its deadlines | create, move, edit, remove, publish, restore, purge | uploads, processing, delivery, purge jobs | long operation sequences under revisions; reads of several moments; a purge against edits | the tree, the snapshot and the trash agree; a removal stands; what is written or published is what was seen |
| Grants and participants (007, 023, 026, 037, 048; `useParticipantsSection.ts`, `RoomVisibilityControls.tsx`) | grants, memberships, the counterparty, reviews | dry run, apply, revoke, invite, place, change visibility | delivery, sessions | a confirmed impact gone stale | a change does what its review showed |
| Exports (`exports.ts`, `export-*.ts`; 010, 035) | `export_request`, archive | request, generate, expire, download once, clean up | queue, storage | expiry during generation, stale attempts under one key | a ready export has its archive; handed out once; none stays |
| Room purge (`lifecycle.ts`, `room-purge.ts`, `apps/cli/src/lifecycle.ts`; 011, 022) | `room_purge`, deletion markers, backups | schedule, cancel, begin, mark, delete, reconcile, restore | every table of a room, storage | crash at every step; cancel against begin; an older database | the marker is first; cancelled purges delete nothing; a restore revives no purged room |
| Sign-in (`auth/otp.ts`, `sessions.ts`, `ViewerSignIn.tsx`, `otp-machine.ts`; 001, 038) | challenges with delivery jobs, invitation, sessions | request, deliver, verify, accept, issue | queue, mail | resend and redelivery racing submission; late answers | a code is used once; one code at a time; signed in means invited |
| Organization (`member-actions.ts`, `recovery.ts`; 017) | members, roles, invitations, assignments, transfer previews | first sign-in, invite, change role or state, assign, transfer, recover | rooms, the transfer dialog | mutations admitted before a promotion | one Owner; administrators hold no room; what is transferred was reviewed |
| Converter sandbox (`processing/sandbox.ts`, `privilege-separation.ts`) | composition slots, UID pool, processes, scratch directories | acquire, launch, overrun, sweep, release | processing, delivery | children that fork, escape or hang | slots and identities neither leak nor double; nothing is left behind |
| Reading room (`ViewerReadingRoom.tsx`, `useDocumentReader.ts`, `usePreviewEvidence.ts`, `page-source.ts`) | location, list, metadata, tracker, page | navigate, read, open, beat, finish, re-read after a refusal | delivery, evidence | answers that come late | what is on screen belongs together and nothing waits for ever |
| Branding, status, audit retention, adapters, composition, CLI | assets, observations, audit events | upload, observe, sweep | queue | little | - |

`PROJECT.json` lists the sources of each component and what of it is modelled, and the hazards
of this code line by line with the properties that cover them.

## 2. Plan

1. `JobQueue` with its abstract promise `LeasedWork`, and `WorkRows`, the row other modules use -
   done, proved, the refinement included
2. `Processing` - done, its safety proved
3. `Uploads`, `Watermarks` - done, proved
4. `Previews`, `Downloads` - done, proved
5. `Structure` - done, its safety proved
6. `Exports`, `RoomPurge` - done, proved
7. `Grants`, `SignIn`, `Organization`, `Sandbox`, `Reader` - done, proved
8. Not begun: branding, the upload queue of the browser

Every invariant of a passing run is proved, and every action property but those of liveness.

Composition: `WorkRows` stands for the queue in every other module. It is the view of one row
that `LeasedWork` promises, and `JobQueue` is proved to implement `LeasedWork`, so a component
is checked against any behaviour the queue can show without carrying runners and clocks along.

## 3. Modules and how they correspond to the code

`PROJECT.json` maps every definition to its lines. In all modules a *handler* is a program
counter (`pc`) that stands at the next `await`; one action is everything between two awaits that
touches shared state. A database function is one action, as it is one transaction; a statement
whose reply may be lost has a disjunct in which it takes effect and the caller goes on as after
an error. A storage call that fails may or may not have taken effect. Operators whose comment
begins with *Slip* are not part of any specification: each is a plausible mistake in the
definition that follows it, kept so that the properties can be shown to notice it.

**JobQueue.** `row` is the table, `run` the locals of `JobRunner.runOne` per worker. `RunOne` is
the claiming transaction (sweep of one exhausted row with its hook under a savepoint, claim of
one due row, successor of a recurring row), with `locked` the rows `SKIP LOCKED` passes over.
`Heartbeat`, `HandlerEnds`, `AssertLease`, `Complete` and `Fail` are the later statements, each
with its lease condition `Held`. Time is kept as countdowns moved by `Tick`; a stalled runner is
one that takes no step while the clock does. Tokens are numbers of claims, unique per row as
the random ids are. `Enqueue`, `CancelPending` and `Requeue` are what other components do to
the table (017:79-86, 035:163-185).

**LeasedWork** is what callers rely on: work is in at most one pair of hands, only those finish
it, it is given up only when nobody holds it and its cleanup happens in the same step. Its one
variable maps each piece of work to its stage and holder; the refinement in `JobQueue` (`Work`)
takes the stage from the row and the holder from the runner for which `Held` is true. Runners
that lost their lease do not exist at that level.

**WorkRows** is one row for a component: stage, attempts, and `live`, the attempt that holds the
lease. A component's functions ask `HeldBy`; `Lapsed` takes the lease away from an attempt that
may keep running.

**Processing** follows, in one of the environments `Cases`, one version with its two validation
rows (upload and manual retry), each attempt with fresh derivative keys, cleanup rows per key,
the retention sweep (`era` tells a reset sweep from the one before) and a member's deletion
request. The converter's and the scanner's verdicts are choices.

**Uploads** follows one intent: `creator` (createUploadIntent), `finalizer` per finalizing
request, `reaper` per attempt of the reap job. `fresh` remembers that a transaction began before
`expires_at`, which is what `transaction_timestamp()` compares. `LockIntent` is the row lock
under which the version is committed: the reaper and other finalizers wait for it.

**Watermarks** follows one session's cached pages: `creator` is createWatermarkedPage, `worker`
the attempts of the cleanup job, `session` and `access` what `viewer_can_preview_document`
reads. `CheckAccess` and `BeginCache` are two steps because a trigger that runs in between does
not see a row not yet inserted. The purge removes the row and forgets the session.

**Previews** follows one activity with an explicit clock, because finalizers are rescheduled for
`heartbeat + 2 minutes` under keys that carry the heartbeat. `begin_preview_activity` is three
statements with a snapshot each, so three actions. A finalizer is a single call of
`finalize_or_reschedule_preview`, whose lease check refuses an attempt that lost its lease
before it has any effect; such an attempt is therefore dropped when it loses its lease, and one
state per row replaces one per attempt. **Downloads** uses the same reduction for its
finalizer. In it a range request streams before it records, `delivered` is what really reached
the viewer and `served` what was recorded.

**Structure** is one room. A function of the database is one step, with its triggers:
`enforce_working_structure_integrity` is `Fits`, `capture_draft_only_trash` is part of
`WriteEntry`. One member is followed through the requests of a workspace page - its three reads
are of different moments, the handler reads the entry again before it writes - and colleagues
act with current revisions, since a refused write changes nothing. Revisions are modelled by
whether they have moved since they were read (`behind`, `changed`). `trash` is the sequence of
batches that went to trash in one transaction; `due` of them have reached `purge_after`. The
purge worker reads its manifest, deletes objects and finalizes in three steps, and may be
abandoned at each.

**Exports** follows one export: generation attempts, members who claim the single download,
clean-up runs, all under one storage key. **RoomPurge** has the database as one value (`db`), so
that a backup is a copy of it and a restore puts it back; storage, with its objects and markers,
is outside it. Runners per purge and attempt step through `jobs/room-purge.ts`; the operator
steps through `restore enable-external`.

**SignIn** follows one address: the page (`otp-machine.ts`), requests on their way whose answers
may be lost or overtake each other, challenge rows, delivery attempts and the mail. A code is
named by the attempt that made it, so that a stale mail is one with an older code. What time
decides (cooldown, hourly limits, the page's clock, expiry) is a choice. **Grants** has the
active row of each shape of grant, memberships, and the two reviews of one manager's page while
others change the room. **Organization** splits every mutation into `Admit`, where the actor's
right is read, and the statement that holds the target's lock; the transfer dialog applies the
answers of its dry runs as they come.

**Sandbox** has the composition slots (`composing`, `waiting`), the UID pool with its queue, and
per invocation its place in `runSandboxed` and its living processes by kind; the sweep visits a
snapshot of processes one by one. **Reader** is the reading room of the browser client: location
and the effects that follow a change of it, metadata, the tracker of `usePreviewEvidence` and
the page, with every answer a step of its own.

**Compositions.** `MCJobQueue`, `MCUploads`, `MCWatermarks` and `MCDelivery` put components that
share no variable into one specification in which one of them moves in a behaviour and the
others stay as they began. This adds state spaces instead of multiplying them, and their
liveness properties are one statement over all of them (`BegunEnds`, `QueuedSettles`).

## 4. Runs

Every passing run finishes its whole state space. `CHECK_DEADLOCK FALSE` is set where the system
comes to rest: one upload, version, session, export or purge has an end. The `JobQueue` run
checks deadlock.

| Run | Instance | What it shows |
|---|---|---|
| jobqueue_safety | 2 runners; either a hooked validation row and a row that is cancelled and reset, or a recurring row, its successor and a row of an unknown type; 2 attempts. Beside it an organization of 2 members, 1 room, 2 requests, 1 preview | leases fence stale runners; hook with failure; the schedule neither dies nor forks; the queue implements LeasedWork. One Owner, administrators without rooms, transfers as reviewed |
| processing_safety | an inconvertible source with retry, deletion and a sweep; 2 attempts with 1 page; 1 attempt with 2 pages; 2 attempts of a cleanup | the source outlives its need; a failed version has a sweep ahead; accepted pages stay; stored objects have their cleanup |
| processing_endings | the retry of a convertible source; a deletion and 2 sweep attempts; 2 cleanup attempts; fairness | quarantine is left; begun deletions end; intents resolve |
| uploads | 2 finalizers, 2 reap attempts; 2 queue runners with a hooked and a plain row; an export with 2 attempts, 2 members and 2 clean-ups; fairness | a version keeps its object; leftovers have their reaper; a ready export has its archive and is handed out once; intents, rows and exports settle |
| access | 1 page, 2 cleanup attempts, lost replies and crashes; 2 challenges, 2 calls, 2 checks and 2 deliveries; 2 viewers, a personal and a counterparty grant; fairness | an active cache has its page, a revoked session none active, nothing is orphaned by concurrency alone; a code is used once; reviews hold; a revoked session is purged and every challenge delivered or given up |
| structure | 2 folders, 1 document with 2 versions, 2 levels | the tree, the snapshot and the trash agree; removals stand; publications are as reviewed and writes as seen |
| delivery | 2 tabs, 1 page, 2 finalizer attempts; 2 range requests over 2 bytes; 2 compositions and a validation over 1 slot and 1 identity; 2 documents and 2 versions in the reading room; fairness | evidence exact and reported; one final summary, completed means whole; slots, identities, processes and directories come back; what the reader sees belongs together; what has begun ends |
| room_purge | 1 owner, 2 purges in turn, 2 attempts, one backup at a time; fairness | a purge pins its room, its marker is first, a cancelled one does nothing, no restore revives a purged room; a purge ends |

Runs that expect a violation, each a finding in `PROJECT.json`:

| Run | Finding |
|---|---|
| processing_cleanup_retry | a cleanup whose deletion failed has removed the intent its retry needs |
| structure_retention | a folder's purge takes along an entry whose own thirty days have not passed |
| structure_edit | an edit of title or description clears the working version of a document |
| sandbox_sweep | a process that forks and ends by itself between snapshot and visit leaves its child to the next invocation |

**Bounds and why they are enough.** Two runners, finalizers, tabs, clean-ups or requests: the
conflicts are between a stale actor and a current one, and every actor after the second meets
the same rows. Two attempts: the second is at once a retry and the last. Cleanups of
watermarks would need three for one to lose its lease, one to lose its reply and one to remain;
the run has two, the theorems of section 6 hold for any number. Pages of a session have rows,
jobs and objects of their own and meet only in the revocation and the purge, which treat each by
itself: one page is enough. Two range requests over two bytes give the same, adjacent,
overlapping and nested ranges. Durations of one or two ticks let every pair of deadlines fall in
either order. In `Processing` an attempt bound of 0 for the cleanup or sweep job leaves that job
waiting, which keeps the cases about the other half small; each half has cases with the bound
above 0. `LateTicks` in `JobQueue` bounds how far past due two rows are told apart, `MaxRequeues`
how often a row is reset, `LastRequest` in `Previews` how long tabs go on; `clock` stops one
timeout later. `Failures` in `Exports` bounds how often a clean-up run fails, `Forking` and
`MaxForks` in `Sandbox` which invocations' processes fork and how often.

What a run leaves out beyond its constants is said by a constraint in its MC module:

- `FollowedEarly` (MCStructure): a member's page is followed while the document has one version
  that is not processed yet and nothing is due, a dry run while nothing is due, and a document
  with a second version is not purged. The theorems about removals, publications and writes do
  not need it.
- `ForkedAlone` (MCDelivery): the second fork comes before the second composition has begun.
- `RevisedOnce`, `LostEarly` (MCDelivery): a document goes from its first version to its second,
  by way of none or not, and a viewer who loses access has seen no other.
- `Half` (MCJobQueue): the organization is followed beside one of the two halves of the queue.

Some modules carry bounds in their guards, named at their definitions: in `SignIn`, `Alone` and
`MayReplace` (an address is given another challenge only once the delivery of the one before is
over and while its invitation stands); in `Organization`, `Quiet` and `Arrived` (members are
provisioned while nothing else is under way), `Apart` (two mutations are under way only before
the first dry run) and `Hopeless` (a dry run that finds every preview used up is dropped). `Grants` has one dialog open at a time. `Reader` has one page per
document and one room, and leaves the state of the activity's row to `Previews`: a page or a
heartbeat may find it ended.

**Cases.** One run covers environments that are unlike each other by choosing one of them in
Init. In `Processing` that is `given`, one of `Cases`: how many pages and attempts there are and
what may happen at all - whether the source can be converted, whether members ask for a retry or
a deletion, and whether an attempt may be slower than the delay after which its cleanups are
due (`slow`). In `JobQueue` it is `Histories`: the rows of the other half were settled before the
behaviour begins. `mishaps` in `Watermarks` is a history variable: it records that the reply to
an activation was lost (`reply`) or that the web process stopped or failed to delete (`web`), so
that a property can say what holds while that has not happened. `raced` in `Sandbox` and `back`
in `Reader` are history variables for the same reason.

**Fairness.** The runner polls every second, so an idle one that could claim does; a handler
that runs reaches its end, because every call it makes has a timeout; a lease whose runner is
gone runs out, as it is renewed only by that runner; time passes. A sandboxed child is killed by
its timeout. Nothing is assumed of the outcome of any call, of heartbeats, members, viewers,
browsers or the web process, except that a transaction ends and (for the purge of a session,
thirty days later) that no request is still in flight. Liveness properties name the one way out
the code has: a job whose attempts are used up.
In `Previews` the clock stands while a call to begin_preview_activity is in progress, so fairness
of its tick would not be enough: `[]<>(clock = Horizon)` says outright that time passes.

## 5. Mutants

For every property of every passing run `PROJECT.json` names a *Slip* that breaks it: a lease
checked by row alone, an unfenced completion, a hook without its savepoint, an intent not
registered before storing, a purge that lets pending caches go, a move that clears the removal
flag, a page held to the room's revision only, objects deleted before the marker, and so on.

## 6. Proofs

TLAPS checks the following for every value of the constants. A proof module extends the module
a run instantiates, so that it speaks of the very definitions the run checks, the assumptions on
constants included, which TLC evaluates: `JobQueueProofs` that of the queue and the organization,
`UploadsProofs` of uploads and exports, `AccessProofs` of pages, grants and sign-in,
`DeliveryProofs` of previews, downloads, the sandbox and the reading room. Where such a module
composes components, a theorem is about the component's own specification (`X!Spec`), which
promises more than the composition, where the others stand still.

**JobQueueProofs**, of the queue from `QueueAssumption` and `ScheduleAssumption` of `JobQueue` (the second
says that a run of a schedule has one predecessor, that other components neither cancel nor
reset it and that a history holds it together with the next; and that the one job type that is
ever reset, document.retention.sweep, declares no hook):

- `TypeCorrect`, `TokensStayFenced`, `AtMostOneLiveRun`. `OneLiveRun` is not inductive: a step
  could give two runners the same token if a token could be ahead of the claims of its row.
  `TokensFenced` says it cannot (a running row carries its newest token, every run's token was
  issued by a claim of its row, and no two runs share one), and implies `OneLiveRun`, because
  whoever is `Held` has the row's token. Only the claim issues tokens, and it issues one more
  than all before.
- `HookRunsWithFailure`: the hook's effect is committed exactly with its row's failure. The step
  that matters is the sweep inside `RunOne`, whose savepoint keeps the two together or neither.
- `ScheduleStaysUnbroken`: the next run of a schedule is in the table exactly when this one was
  ever claimed. `NeverQueued` (a row that was never queued has no attempts) is what it needs to
  hold across the row's own insertion.
- `QueueKeepsPromise`: the refinement. Every step of the queue is, per row, one of `LeasedWork`'s
  Submit, Take, LetGo, Finish, GiveUp, Withdraw or Restart, or leaves it alone (`RowKept`,
  `HoldersMove`, `OthersMove`, `RunOneMoves`). The holder is well-defined because
  `TokensFenced` makes the runner for which `Held` is true unique.
- `OrganizationStaysSound` and `TransfersAsReviewed`, for any members, rooms, requests and
  previews, without an assumption. In `OrganizationInv` the Owner is unique and active
  (`OneOwner`), there is one wherever there is a member or an invitation (`Governed`: an
  invitation outlives the member who sent it), members that are absent or administrators have no
  room (`RoomsSound`), and a mutation under way is about a member who will not become absent
  again (`RequestSound`), or a late change of state would make a member of nobody. That a
  transfer was reviewed is an action property: of all steps that take the role of the Owner only
  `TransferOwnership` makes an administrator of them, and by `OneOwner` it is their own.

**UploadsProofs**: `UploadTypeCorrect`, `VersionsKeepObjects`, `LeftoversAreReaped` for any set
of requests and any number of reap attempts. `VersionKeepsObject` is strengthened to `KeepsInv`:
where each finalizer and each reaper may stand while the intent is finalized - in particular
that nobody stands at a deletion of the object without the intent being failed or expired, which
no version can be committed under. `LeftoversHaveReaper` is strengthened to `ReapedInv`, which
follows the reaper's attempts: one that has completed has seen the intent settled and its
storage calls answered.

The same module has `ExportStaysWhole`, for any number of generation attempts, of members and of
clean-up runs, with at least one attempt (`ExportAssumption`). `ExportInv` says where generators,
downloads and cleaners may stand in each state of the request: a cleaner deletes only an export
that is on its way to deletion, and an attempt that discards its archive does so with the export
no longer ready. `IntakeTypeCorrect` is about the types of both in their composition.

**AccessProofs**, of watermarked pages: `WatermarkTypeCorrect`, `ActivePagesAreStored`,
`RevokedSessionsShowNothing` and `PurgedSessionsLeaveNothing` for any set of pages and any number
of cleanup attempts, all from one inductive `CacheInv`. Its parts say who may stand where:
nothing of a page exists before its cache row; a cleanup past its first transaction has taken the
cache out of the live states, which it never enters again, so it does not delete a page that is
or becomes active; the creator reaches its activation only with the page stored, and until it has
gone it has activated nothing it knows of, so its error path does not delete an active page
either - which is where the condition on the lost reply comes from; and once it has gone and the
cleanup is past its deletion there is no page, and nobody left to store one. Steps of one page
leave the others alone (`Elsewhere`), so the invariant is proved page by page.

The other theorems of the module, from `AccessAssumption` (in `MCWatermarks`: requests and viewers
are finitely many, a code may be entered and a delivery attempted at least once):

- `ReviewsStand`, for any viewers and grants. `GrantInv` adds to `NoMoreThanShown` that a grant and
  a change of visibility are not under review together (`OneReview`), and that from the review to
  the statement, while the row is the one that was read, the impact names what the change still
  resolves to (`ImpactStands`).
- `CodesSignInOnce`, for any challenges, requests on their way and attempts. `SignInInv` says that
  whatever is entered, and whatever comes of it, is of a challenge that was issued (`OfIssued`),
  that a viewer has an invitation (`Invited`), that a code that was exchanged for a session, or is
  about to be, can be exchanged by nobody else (`Exchanged`), and that one challenge at most is
  live (`OneLive`).
- `AccessTypeCorrect`: the types of the three in every behaviour of the composition.

**ProcessingProofs**, from `ProcessingAssumption`, for any number of pages, attempts, sweeps and
deletion requests:

- `ProcessingTypeCorrect`: the types, with `VerdictGiven`.
- `SourceStaysKept`. `SourceKept` needs `DeletionsCommitted` (together `SourceInv`): whoever is
  deleting the source has first made the version one that is never processed or retried again.
- `FailedSourcesAreSwept`. `FailedIsSwept` needs `SweepReturns` (together `SweepInv`): a sweep
  runs only past its deadline, and one that returns with its lease has left nothing to delete -
  otherwise completing it would settle the only row that was ahead.
- `NoObjectForgotten`: an object is accepted, or named by an intent with a live cleanup row, or
  its cleanup was at work. `RegistryInv` also says what an attempt finds ahead of it
  (`AheadUnregistered`), that keys are stored only under an intent or a cleanup at work
  (`PutRegistered`), that resolved intents do not come back, and that rows are sound.
- `DerivativesStayKept`: `Spec => [](InTime => DerivativesKept)`, where `InTime` says that the
  behaviour is one whose attempts end before their cleanups are due. That hypothesis is the
  code's own (five minutes against the lease), and without it the property is false: see section
  7. `KeptInv` adds that a cleanup is claimed only after its attempt lost the lease, and that
  what an attempt with its lease has verified is in storage.

**StructureProofs**, from `StructureAssumption`, for any number of folders, documents, versions
and levels, with no bound on what is followed:

- `StructureTypeCorrect` and `RemovalsStand`, `PublishesAsReviewed`, `WritesAsSeen`, all from
  one `StructureInv`. `RemovalStands` is not inductive because a handler may be about to write
  the flag it has read: `PageSound` says that as long as neither revision has moved, the entry
  stands as the page showed it, and that the handler then does not write a removal away. Which
  purge finishes matters too (`TrashSound`: a purge at work is of a root that is due, batches
  are disjoint, and only drawn ids are in them), and `ReviewSound` says that what changes a dry
  run's result has moved the room's revision as well.
- The lemmas `OneBatchLess`, `Discarded` and `TakenOut` say what placing roots in the trash and
  taking one out does to the sequence of batches and to the count of due ones.
- `RoomStaysWhole`, from `RoomInv` on top of those. `Descend` is a recursive function, so what it
  computes needs induction over numbers: `SetInduction` has it for a set of numbers, out of the
  well-foundedness of `<`, and `WalkIs` unfolds the recursion with it. From there on the tree is a
  level for every row (`Tree`): one more than that of its parent, and by counting at most the
  number of entries (`DepthBound`). So a walk of that many steps reaches everything below its
  start, and `Subtree`, `Live`, `Level` and `Height` are what their names say (`WalkBelow`,
  `LevelIs`, `HeightIs`). A move gives the rows below the entry other levels (`TreeMoved`); that
  none of them is a live folder too deep is what `Height` was checked for, although it follows
  only folders that are not staged. The snapshot and the trash agree because what is live is above every removal
  (`LiveAbove`): what is written goes to a live folder, so the subtree of a root of the trash
  only shrinks, and what is published is in none. `VersionListed` is needed as well: a listed
  document is listed with a version that exists, and a version that is ready stays so.

**RoomPurgeProofs**, from `PurgeAssumption`, for any number of owners, purges and attempts:
`PurgeTypeCorrect`, `PurgesAreSound`, `PurgedStaysGone`, from `PurgeInv`. Because a restore makes
any backup the database, the database part of the invariant (`DatabaseSound`) must hold of
backups too, and what a backup knows of cancelled purges must stand. A restore may bring a purge
back as scheduled although its marker is in storage; `CancelSound` says nobody can cancel it
then, since it is due and no cancellation that began earlier survives the restore.

**DeliveryProofs**, from the assumptions in `Previews` and `MCDelivery`: durations and attempts
are numbers, compositions and requests are finitely many and the first are not validations, words
that stand for the absence of a version, a document or an identity are none.

- `EvidenceStaysExact`, for any tabs, pages, durations and attempts. That an open activity has a
  finalizer ahead is not inductive: a heartbeat leaves the finalizer that is queued for an older
  one behind, which must then queue the next under a key no row has taken. `PreviewInv` orders the
  instants (`InOrder`), ties each finalizer's row to the heartbeat in its key (`FinalizerSound`),
  and says that a finalizer which has returned under the current heartbeat has ended the activity
  (`Answered`) and that otherwise one of them still comes or has used up its attempts
  (`ChainHolds`).
- `SummariesAreSound`, for any number of range requests and of bytes. `DownloadInv` bounds the
  bytes counted by what the requests that have recorded can add (`BytesCounted`), and says that
  what is recorded was streamed before, and that a lease is completed over what is recorded
  (`StreamedFirst`).
- `SandboxStaysSound`, for any invocations, slots, identities and forks. In `SandboxInv` the slots
  taken are those of the compositions between acquire and hand-over, and the queues hold nobody
  twice and only who waits (`SlotInv`, `IdentityInv`); an identity is available exactly when no
  invocation is at a place where it holds it. That nothing survives an invocation rests on the
  sweep: while a pass has killed nothing, one of the processes left is still to be visited
  (`SweepSound`).
- `ReaderStaysSound`, for any documents and versions. `ReaderInv` says of every kind of call what
  it can still find when its answer comes: a page and its tracker are of the open version
  (`ReadingSound`), metadata is of the open document or being read (`MetadataSound`), the list is
  there or being read by somebody (`ListSound`), and a re-read is about the open document, and
  what it found gone is gone unless it was published again (`RereadSound`).
- `DeliveryTypeCorrect`: the types of the four in every behaviour of the composition.

**WorkRowsProofs** holds the lemmas about rows that the proofs of six components use.

Model-checked only:

- Liveness (`ProcessingEnds`, `QueuedSettles`, `BegunEnds`, `PurgeEnds`) and everything that needs
  ENABLED: not for this prover.
- Deadlock, in the run of the queue.

`WatermarkTypeCorrect`, `UploadTypeCorrect` and `NoObjectForgotten` state what the runs check as
part of another property.

## 7. Where the code does other than it says

Besides the four findings with runs, these disagreements with a comment, a doc or an evident
intention were met while modelling. Some are kept as properties without a run; the cases that
show them are in the MC modules (`SlowAttempt`, `EarlyRetry` in MCProcessing).

- Processing: an attempt slower than the five minutes before its cleanups are due loses a page to
  its own cleanup and is accepted (`AcceptedIntact` with `slow`). The exhaustion hook of the
  upload's row asks only whether the version is in quarantine (036:20), so when it comes after the
  member's retry it fails the version of the retry (`RetryGetsARun`).
- Watermarks: a lost reply to `finish_watermark_cache` deletes the page of a cache that stays
  active. When the cleanup job of a revoked page runs before the page is stored and the web
  process stops after storing it, the purge (042:31) removes the last row that names the page.
- Previews: `begin_preview_activity` hands back an activity another tab has just closed.
- Exports: an archive completed after its export's hour by an attempt that then stops is left,
  though docs/security/data-flow.md:65 says of exports that they are deleted; a download may find its
  archive deleted by a clean-up (exports.ts:333-335); a crash inside `putExportStream` leaves its
  multipart upload.
- Room purge: a purge whose job has used up its attempts stays in `marker_pending` or `purging`,
  in spite of 022's comment; an upload into an archived room while it is purged is orphaned.
- Trash: a child moved out of a due folder between manifest and finalize loses its object; a
  restore begun before `purge_after` races `begin_trash_purge`; an older version processed later
  becomes the working version; the purge deletes open `upload_intent` rows, so the reaper of
  their multipart upload finds nothing.
- Sandbox: in degraded mode a process that left the child's group with its pipe keeps the
  invocation open past its timeout.
- Sign-in: late answers are applied by the page's reducer without asking which request they
  answer; the page and the server each have a clock; a mail of a delivery attempt that came late
  carries a stale code; a consumed challenge and its session are two transactions.
- Organization: two administrators can disable each other, an actor may lose the right before the
  commit, and a late impact answer is caught by the server only.
- Grants: ParticipantsPanel.tsx:15-18 says a change of a stale room is refused, but
  AccessSection.tsx:52-55 sends the revision of the row as re-read without clearing the impact;
  the impact that is audited may be stale when a structure move commits while the change waits
  for the lock (048:29); a grant on an item in trash takes effect when it is restored.
- Browser: `useExportsSection.review`, `Workspace.tsx`'s `beginPublish` and
  `useProcessingSection`'s refresh apply answers unguarded; `bulkStageRemoval` feeds revisions
  from one request to the next.
- Reading room: `authorize_watermark_delivery` (008:157-194) does not ask that the version is
  still the published one and page-source.ts:58-68 never compares the version of a text layer, so
  a publication between composing a page and reading its text lays the new version's text over
  the old version's image.

## 8. Not modelled, and why

The components with status `not_modelled` in `PROJECT.json` have no state that concurrency or
failure could damage: routes and request parsing, presentation, release composition, operator
commands. Branding is small and independent. Storage, mail, scanner and converters are external;
their outcomes are choices. Authorization inside a database function is the single condition its
caller meets (`access`, `permitted`); who has it is `Grants`' subject. Audit events are modelled
where a property is about them (preview and download summaries).

Left out of modelled components: member sessions, their rotation and the OIDC exchange;
`viewer_holds_room_membership` in sign-in, the purge of ended sign-ins (042) and a new viewer row
after anonymisation; the fresh-sign-in and typed confirmation checks of dangerous operations;
structure moves between a grant's dry run and its statement; order keys, names and searches of
the structure; the download panel and the link interstitial of the reading room; the upload queue
of the browser; the contents of archives and pages.
