------------------------------- MODULE Exports -------------------------------
(***************************************************************************)
(* One export of a room (exports.ts, jobs/export-generation.ts,            *)
(* jobs/export-cleanup.ts, 010_exports.sql, 035_lifecycle_corrections.sql):*)
(* attempts that generate the archive and may outlive their lease or the   *)
(* export's hour, members who claim its one download, and clean-up runs    *)
(* that overlap.  All of them use one storage key.                         *)
(***************************************************************************)
EXTENDS Integers, FiniteSets, WorkRows

CONSTANTS
  GenerateAttempts,   \* max_attempts of export.generate
  Download,           \* requests for the archive
  Cleaner,            \* runs of export.cleanup that overlap
  Failures            \* bound: how often a clean-up run fails or dies

VARIABLES
  state,      \* export_request.state, "none" before the row
  expired,    \* expires_at has passed
  object,     \* the archive is in storage
  job,        \* the row of export.generate
  generator,  \* per attempt: generateExportJob
  download,   \* downloadExportOnce
  cleaner,    \* export.cleanup
  failures

requestVars == <<state, expired>>
jobVars == <<job, generator>>
vars == <<requestVars, object, jobVars, download, cleaner, failures>>

Attempt == 1..GenerateAttempts

TypeOK ==
  /\ state \in {"none", "generating", "ready", "failed", "deletion_pending", "deleted"}
  /\ expired \in BOOLEAN /\ object \in BOOLEAN
  /\ job \in Rows(GenerateAttempts)
  /\ generator \in [Attempt -> {"gone", "read", "put", "outgrown", "mark", "discard",
                                "return"}]
  /\ download \in [Download -> {"idle", "claimed", "streaming", "lost", "done"}]
  /\ cleaner \in [Cleaner -> {"idle", "claim", "delete", "finalize"}]
  /\ failures \in 0..Failures

Init ==
  /\ state = "none" /\ expired = FALSE /\ object = FALSE
  /\ job = Absent /\ generator = [a \in Attempt |-> "gone"]
  /\ download = [d \in Download |-> "idle"]
  /\ cleaner = [c \in Cleaner |-> "idle"] /\ failures = 0

CreateExport ==
  /\ state = "none"
  /\ state' = "generating" /\ job' = Queued
  /\ UNCHANGED <<expired, object, generator, download, cleaner, failures>>

Expire ==
  /\ state # "none" /\ ~expired
  /\ expired' = TRUE
  /\ UNCHANGED <<state, object, jobVars, download, cleaner, failures>>

-----------------------------------------------------------------------------
(* generateExportJob.  A statement that finds the lease lost raises.        *)

Goto(a, pc) == generator' = [generator EXCEPT ![a] = pc]

\* The handler throws, and JobRunner.fail gives the row back.
Throw(a) ==
  /\ Goto(a, "gone")
  /\ job' = IF HeldBy(job, a) THEN GivenBack(job, GenerateAttempts) ELSE job

ClaimGenerate ==
  /\ CanClaim(job, GenerateAttempts)
  /\ job' = Claimed(job) /\ Goto(job.attempts + 1, "read")
  /\ UNCHANGED <<requestVars, object, download, cleaner, failures>>

\* read_export_job_payload: NULL once the export has left 'generating' or its hour is over.
ReadPayload(a) ==
  /\ generator[a] = "read"
  /\ IF HeldBy(job, a)
     THEN /\ Goto(a, IF state = "generating" /\ ~expired THEN "put" ELSE "return")
          /\ UNCHANGED job
     ELSE Throw(a)
  /\ UNCHANGED <<requestVars, object, download, cleaner, failures>>

\* The archive is streamed into a multipart upload and completed; it outgrows the ZIP
\* limits; or storage fails, with the completed upload in place or not.
PutArchive(a) ==
  /\ generator[a] = "put"
  /\ \/ Goto(a, "mark") /\ object' = TRUE /\ UNCHANGED job
     \/ Goto(a, "outgrown") /\ UNCHANGED <<object, job>>
     \/ Throw(a) /\ object' \in {object, TRUE}
  /\ UNCHANGED <<requestVars, download, cleaner, failures>>

\* fail_export_job: an export that is on its way to deletion stays there.
FailExport(a) ==
  /\ generator[a] = "outgrown"
  /\ IF HeldBy(job, a)
     THEN /\ state' = IF state = "generating" THEN "failed" ELSE state
          /\ Goto(a, "return") /\ UNCHANGED job
     ELSE Throw(a) /\ UNCHANGED state
  /\ UNCHANGED <<expired, object, download, cleaner, failures>>

\* Slip: an attempt that lost its lease is told false, as one that came too late is.
SlipNotFenced(a) == TRUE

MayAnswer(a) == HeldBy(job, a)

\* mark_export_job_ready: false for an export that expired or was downloaded, an exception
\* without the lease.
MarkReady(a) ==
  /\ generator[a] = "mark"
  /\ \/ /\ MayAnswer(a) /\ state = "generating" /\ ~expired
        /\ state' = "ready" /\ Goto(a, "return") /\ UNCHANGED job
     \/ /\ MayAnswer(a) /\ (state # "generating" \/ expired)
        /\ Goto(a, "discard") /\ UNCHANGED <<state, job>>
     \/ /\ ~MayAnswer(a)
        /\ Throw(a) /\ UNCHANGED state
  /\ UNCHANGED <<expired, object, download, cleaner, failures>>

\* The caller deletes the object it just wrote, whoever holds the lease by then.
DiscardArchive(a) ==
  /\ generator[a] = "discard"
  /\ \/ object' = FALSE /\ Goto(a, "return") /\ UNCHANGED job
     \/ object' \in {object, FALSE} /\ Throw(a)
  /\ UNCHANGED <<requestVars, download, cleaner, failures>>

SettleGenerate(a) ==
  /\ generator[a] = "return"
  /\ job' = IF HeldBy(job, a) THEN Completed(job) ELSE job
  /\ Goto(a, "gone")
  /\ UNCHANGED <<requestVars, object, download, cleaner, failures>>

\* The worker died, perhaps just as the archive was stored, or it has stalled and goes on
\* later without its lease.
LoseLease ==
  /\ job.live # 0
  /\ job' = Lapsed(job)
  /\ \/ UNCHANGED <<generator, object>>
     \/ /\ Goto(job.live, "gone")
        /\ object' \in {object, object \/ generator[job.live] = "put"}
  /\ UNCHANGED <<requestVars, download, cleaner, failures>>

ExhaustGenerate ==
  /\ Spent(job, GenerateAttempts)
  /\ job' = Buried(job)
  /\ UNCHANGED <<requestVars, object, generator, download, cleaner, failures>>

GenerateStep(a) ==
  \/ ReadPayload(a) \/ PutArchive(a) \/ FailExport(a) \/ MarkReady(a) \/ DiscardArchive(a)
  \/ SettleGenerate(a)

-----------------------------------------------------------------------------
(* downloadExportOnce.                                                      *)

Consumed == "deletion_pending"

\* claim_export_download commits before a byte is read.
ClaimDownload(d) ==
  /\ download[d] = "idle" /\ state = "ready" /\ ~expired
  /\ state' = Consumed
  /\ download' = [download EXCEPT ![d] = "claimed"]
  /\ UNCHANGED <<expired, object, jobVars, cleaner, failures>>

\* What the member is sent comes from an open response of the storage, or there is none.
OpenArchive(d) ==
  /\ download[d] = "claimed"
  /\ download' = [download EXCEPT ![d] = IF object THEN "streaming" ELSE "lost"]
  /\ UNCHANGED <<requestVars, object, jobVars, cleaner, failures>>

EndDownload(d) ==
  /\ download[d] \in {"claimed", "streaming"}
  /\ download' = [download EXCEPT ![d] = "done"]
  /\ UNCHANGED <<requestVars, object, jobVars, cleaner, failures>>

-----------------------------------------------------------------------------
(* jobs/export-cleanup.ts, as often as the schedule comes round.            *)

CleanerGoto(c, pc) == cleaner' = [cleaner EXCEPT ![c] = pc]

\* Slip: only what was ready expires.
SlipReadyOnly == {"ready"}

Expirable == {"generating", "ready"}

\* expire_exports.
ExpireExports(c) ==
  /\ cleaner[c] = "idle"
  /\ state = "deletion_pending" \/ (state \in Expirable /\ expired)
  /\ state' = "deletion_pending"
  /\ CleanerGoto(c, "claim")
  /\ UNCHANGED <<expired, object, jobVars, download, failures>>

\* claim_export_cleanup.
ClaimCleanup(c) ==
  /\ cleaner[c] = "claim"
  /\ CleanerGoto(c, IF state = "deletion_pending" THEN "delete" ELSE "idle")
  /\ UNCHANGED <<requestVars, object, jobVars, download, failures>>

DeleteArchive(c) ==
  /\ cleaner[c] = "delete"
  /\ object' = FALSE /\ CleanerGoto(c, "finalize")
  /\ UNCHANGED <<requestVars, jobVars, download, failures>>

\* finalize_export_cleanup; the run that loses the race throws EXPORT_CLEANUP_CONFLICT.
FinalizeCleanup(c) ==
  /\ cleaner[c] = "finalize"
  /\ state' = IF state = "deletion_pending" THEN "deleted" ELSE state
  /\ CleanerGoto(c, "idle")
  /\ UNCHANGED <<expired, object, jobVars, download, failures>>

\* The lease is lost, storage fails, or the process dies.
CleanerFails(c) ==
  /\ cleaner[c] # "idle" /\ failures < Failures
  /\ CleanerGoto(c, "idle") /\ failures' = failures + 1
  /\ object' \in {object, object /\ cleaner[c] # "delete"}
  /\ UNCHANGED <<requestVars, jobVars, download>>

CleanStep(c) == ExpireExports(c) \/ ClaimCleanup(c) \/ DeleteArchive(c) \/ FinalizeCleanup(c)

-----------------------------------------------------------------------------
WorkerStep ==
  \/ ClaimGenerate \/ ExhaustGenerate
  \/ \E a \in Attempt : GenerateStep(a)

Next ==
  \/ CreateExport \/ Expire \/ ClaimGenerate \/ LoseLease \/ ExhaustGenerate
  \/ \E a \in Attempt : GenerateStep(a)
  \/ \E d \in Download : ClaimDownload(d) \/ OpenArchive(d) \/ EndDownload(d)
  \/ \E c \in Cleaner : CleanStep(c) \/ CleanerFails(c)

Spec == Init /\ [][Next]_vars

(* An hour passes, workers claim and their handlers go on, and the clean-up   *)
(* is scheduled for ever.  The members owe nothing.                           *)
Fairness ==
  /\ WF_vars(Expire) /\ WF_vars(WorkerStep)
  /\ WF_vars(\E c \in Cleaner : CleanStep(c))

FairSpec == Spec /\ Fairness

-----------------------------------------------------------------------------
(* Properties.                                                              *)

\* An export that is ready has its archive, and was handed to nobody: neither an attempt
\* that lost its lease to another nor one the hour has overtaken takes it away again, and
\* of all who ask for it, one gets it.
ReadyHasArchive == state = "ready" => object
HandedOnce ==
  /\ Cardinality({d \in Download : download[d] # "idle"}) <= 1
  /\ state = "ready" => \A d \in Download : download[d] = "idle"
ExportWhole == ReadyHasArchive /\ HandedOnce

\* No export stays: unless it failed, it is deleted in the end, downloaded or not.
Unsettled == state \in {"generating", "ready", "deletion_pending"}
ExportEnds == Unsettled ~> ~Unsettled
=============================================================================
