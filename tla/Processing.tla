----------------------------- MODULE Processing -----------------------------
(***************************************************************************)
(* The life of one uploaded document version: the validation job that      *)
(* scans and converts its source (jobs/source-validation.ts), the          *)
(* derivative objects it stores and their cleanup jobs                     *)
(* (jobs/derivative-cleanup.ts), the one manual retry, and the two ways a  *)
(* failed source is deleted: the retention sweep (jobs/retention-sweep.ts) *)
(* and a member's request (failed-source-deletion.ts).                     *)
(*                                                                         *)
(* Jobs are seen as LeasedWork sees them: a row is queued, running, done   *)
(* or failed, and live says which of its attempts holds the lease.  An     *)
(* attempt that lost its lease keeps running: its storage calls still take *)
(* effect, the database functions refuse it.  The reply to a statement that *)
(* committed may be lost: the caller then sees an error.                    *)
(***************************************************************************)
EXTENDS Integers, FiniteSets, WorkRows

CONSTANT Cases   \* what a behaviour may be about

Case ==
  [pages : Nat \ {0},         \* of the converted document
   attempts : Nat \ {0},      \* max_attempts of the validation jobs
   cleanups : Nat,            \* max_attempts of a cleanup job; 0 leaves them all waiting
   sweeps : Nat,              \* max_attempts of the retention sweep; 0 leaves it waiting
   traits : SUBSET {"convertible",     \* the source can be converted at all
                    "retry", "delete", \* what a member may ask for
                    "slow"}]  \* an attempt may take longer than the five minutes after
                              \* which the cleanup of what it registered is due

ASSUME ProcessingAssumption == Cases \subseteq Case

VARIABLES
  given,     \* the case this behaviour is about
  version,   \* document_version.state
  manual,    \* document_version.manual_retry_count
  due,       \* retained_until, and with it the sweep's available_at, has passed
  source,    \* the quarantined object exists
  job,       \* the two validation rows: from the upload, from the manual retry
  run,       \* their attempts
  intents,   \* derivative_cleanup_intent
  objects,   \* derivative objects in storage
  accepted,  \* object keys of document_derivative
  cleanup,   \* per key, its document.derivative.cleanup row
  cleaner,   \* the attempts of those rows
  sweep,     \* the document.retention.sweep row
  sweeper,   \* its attempts
  deleter    \* a member's deletion request in flight

derivativeVars == <<intents, objects, accepted, cleanup, cleaner>>
sourceVars == <<source, sweep, sweeper, deleter>>
vars == <<given, version, manual, due, source, job, run, intents, objects, accepted, cleanup,
          cleaner, sweep, sweeper, deleter>>

Is(trait) == trait \in given.traits

VJob == {"upload", "retry"}
VRun == VJob \X (1..given.attempts)
Key == VRun \X (1..given.pages)       \* every attempt draws fresh keys
KeysOf(r) == {r} \X (1..given.pages)

Failed == {"rejected", "processing_failed", "malware_quarantined"}
Pending == {"failed_source_deletion_pending", "malware_source_deletion_pending"}
Deleted == {"failed_source_deleted", "malware_source_deleted"}
VersionState == {"quarantine", "ready_for_review"} \cup Failed \cup Pending \cup Deleted

Cleaner == Key \X (1..given.cleanups)
Sweeper == {0, 1} \X (1..given.sweeps)   \* the sweep of the first or the second failure

\* An attempt and the evidence stored under its lease token (document_scan_evidence,
\* verified_derivative_object), which no other attempt can use.
Attempt ==
  [pc : {"gone", "start", "scan", "evidence", "process", "register", "put", "verify",
         "discard", "accept", "undo", "fail", "return", "throw"},
   page : 1..given.pages, verdict : Failed \cup {"none"},
   scanned : {"no", "clean"}, verified : SUBSET (1..given.pages)]
Gone == [pc |-> "gone", page |-> 1, verdict |-> "none", scanned |-> "no", verified |-> {}]

TypeOK ==
  /\ given \in Cases
  /\ version \in VersionState /\ manual \in 0..1 /\ due \in BOOLEAN /\ source \in BOOLEAN
  /\ job \in [VJob -> Rows(given.attempts)]
  /\ run \in [VRun -> Attempt]
  /\ intents \subseteq Key
  /\ objects \subseteq Key /\ accepted \subseteq Key
  /\ cleanup \in [Key -> Rows(given.cleanups)]
  /\ cleaner \in [Cleaner -> {"gone", "claimed", "resolved", "return", "throw"}]
  /\ sweep \in Rows(given.sweeps)
  /\ sweeper \in [Sweeper -> {"gone", "claimed", "deleting", "finalizing", "return", "throw"}]
  /\ deleter \in {"none", "deleting", "finalizing"}

\* create_quarantined_document_version and its enqueue_job have just committed.
Init ==
  /\ given \in Cases
  /\ version = "quarantine" /\ manual = 0 /\ due = FALSE /\ source = TRUE
  /\ job = [j \in VJob |-> IF j = "upload" THEN Queued ELSE Absent]
  /\ run = [r \in VRun |-> Gone]
  /\ intents = {} /\ objects = {} /\ accepted = {}
  /\ cleanup = [k \in Key |-> Absent]
  /\ cleaner = [c \in Cleaner |-> "gone"]
  /\ sweep = Absent /\ sweeper = [s \in Sweeper |-> "gone"] /\ deleter = "none"

-----------------------------------------------------------------------------
(* Failing a version.                                                       *)

\* Slip: ON CONFLICT DO NOTHING, the sweep of the first failure is left as it is.
SlipNotRearmed(state) ==
  /\ version' = state
  /\ due' = FALSE
  /\ sweep' = IF sweep.stage = "absent" THEN [Queued EXCEPT !.era = manual] ELSE sweep

\* record_document_processing_failure: whatever became of an earlier sweep, one is
\* queued for the new deadline, and a run that holds it loses its lease.
FailVersion(state) ==
  /\ version' = state
  /\ due' = FALSE
  /\ sweep' = [Queued EXCEPT !.era = manual]

LeaseHeld(r) == HeldBy(job[r[1]], r[2])
LastAttempt(r) == r[2] = given.attempts

At(r, pc) == run[r].pc = pc
Goto(r, pc) == run' = [run EXCEPT ![r].pc = pc]
FailWith(r, verdict) == run' = [run EXCEPT ![r].pc = "fail", ![r].verdict = verdict]

\* An error the handler does not call deterministic: the last attempt fails the
\* version, an earlier one throws and is retried.
Transient(r) == IF LastAttempt(r) THEN FailWith(r, "processing_failed") ELSE Goto(r, "throw")

-----------------------------------------------------------------------------
(* The validation job's row.                                                *)

ClaimValidation(j) ==
  /\ CanClaim(job[j], given.attempts)
  /\ job' = [job EXCEPT ![j] = Claimed(@)]
  /\ run' = [run EXCEPT ![<<j, job[j].attempts + 1>>] = [Gone EXCEPT !.pc = "start"]]
  /\ UNCHANGED <<given, version, manual, due, derivativeVars, sourceVars>>

\* The attempt stalled or died: no heartbeat came.
LoseLease(j) ==
  /\ job[j].live # 0
  /\ job' = [job EXCEPT ![j] = Lapsed(@)]
  /\ UNCHANGED <<given, version, manual, due, run, derivativeVars, sourceVars>>

\* Slip: the hook is not declared.
SlipNoHook == UNCHANGED <<version, due, sweep>>

\* fail_exhausted_document_processing.
ExhaustionHook ==
  IF version = "quarantine" THEN FailVersion("processing_failed")
  ELSE UNCHANGED <<version, due, sweep>>

\* The sweep of spent rows.
Exhaust(j) ==
  /\ Spent(job[j], given.attempts)
  /\ job' = [job EXCEPT ![j] = Buried(@)]
  /\ ExhaustionHook
  /\ UNCHANGED <<given, manual, source, run, derivativeVars, sweeper, deleter>>

Crash(r) ==
  /\ ~At(r, "gone")
  /\ run' = [run EXCEPT ![r] = Gone]
  /\ UNCHANGED <<given, version, manual, due, job, derivativeVars, sourceVars>>

-----------------------------------------------------------------------------
(* jobs/source-validation.ts.                                               *)

ReadVersion(r) ==
  /\ At(r, "start")
  /\ \/ Goto(r, IF version = "quarantine" THEN "scan" ELSE "return")
     \/ Goto(r, "throw")
  /\ UNCHANGED <<given, version, manual, due, job, derivativeVars, sourceVars>>

ReadAndScan(r) ==
  /\ At(r, "scan")
  /\ \/ source /\ Goto(r, "evidence")
     \/ source /\ \E verdict \in {"malware_quarantined", "rejected"} : FailWith(r, verdict)
     \/ Transient(r)
  /\ UNCHANGED <<given, version, manual, due, job, derivativeVars, sourceVars>>

\* record_scanner_observation and record_clean_scan.
RecordCleanScan(r) ==
  /\ At(r, "evidence")
  /\ \/ /\ LeaseHeld(r) /\ version = "quarantine"
        /\ run' = [run EXCEPT ![r].pc = "process", ![r].scanned = "clean"]
     \/ Goto(r, "throw")
  /\ UNCHANGED <<given, version, manual, due, job, derivativeVars, sourceVars>>

\* validateSourceBytes, the size check and processSource.
Convert(r) ==
  /\ At(r, "process")
  /\ \/ Is("convertible") /\ Goto(r, "register")
     \/ FailWith(r, "rejected")
     \/ Transient(r)
  /\ UNCHANGED <<given, version, manual, due, job, derivativeVars, sourceVars>>

CurrentKey(r) == <<r, run[r].page>>

QueuedCleanup(r) == [cleanup EXCEPT ![CurrentKey(r)] = Queued]

RegisterCleanup(r) ==
  /\ At(r, "register")
  /\ \/ /\ LeaseHeld(r)
        /\ intents' = intents \cup {CurrentKey(r)}
        /\ cleanup' = QueuedCleanup(r)
        /\ \E pc \in {"put", "discard"} : Goto(r, pc)
     \/ Goto(r, "discard") /\ UNCHANGED <<intents, cleanup>>
  /\ UNCHANGED <<given, version, manual, due, job, objects, accepted, cleaner,
                 sourceVars>>

\* putDerivative: stored and read back, or an error that may leave the object behind.
PutDerivative(r) ==
  /\ At(r, "put")
  /\ \/ objects' = objects \cup {CurrentKey(r)} /\ Goto(r, "verify")
     \/ objects' \in {objects, objects \cup {CurrentKey(r)}} /\ Goto(r, "discard")
  /\ UNCHANGED <<given, version, manual, due, job, intents, accepted, cleanup,
                 cleaner, sourceVars>>

\* The next page, or the acceptance after the last.
NextPage(a) ==
  [a EXCEPT !.verified = @ \cup {a.page},
            !.pc = IF a.page < given.pages THEN "register" ELSE "accept",
            !.page = IF @ < given.pages THEN @ + 1 ELSE @]

RecordVerified(r) ==
  /\ At(r, "verify")
  /\ \/ LeaseHeld(r) /\ run' = [run EXCEPT ![r] = NextPage(@)]
     \/ Goto(r, "discard")
  /\ UNCHANGED <<given, version, manual, due, job, derivativeVars, sourceVars>>

\* Promise.allSettled over deleteObject: any of the deletions may fail.
DeletesSome(r) == \E D \in SUBSET (KeysOf(r) \cap objects) : objects' = objects \ D

Discard(r) ==
  /\ At(r, "discard")
  /\ DeletesSome(r)
  /\ Transient(r)
  /\ UNCHANGED <<given, version, manual, due, job, intents, accepted, cleanup,
                 cleaner, sourceVars>>

\* The rows accept_processed_version deletes: cleanup jobs still pending.
Withdrawn(keys) ==
  [k \in Key |-> IF k \in keys /\ cleanup[k].stage = "queued" THEN Row("deleted")
                 ELSE cleanup[k]]

Evidence(r) == run[r].scanned = "clean" /\ run[r].verified = 1..given.pages

\* Slip: the lease is not checked again.
SlipUnfenced(r) == Evidence(r) /\ version = "quarantine"

MayAccept(r) == LeaseHeld(r) /\ Evidence(r) /\ version = "quarantine"

\* accept_processed_version commits; its reply may be lost, and then the ROLLBACK
\* fails on the broken connection before anything is deleted.
AcceptVersion(r) ==
  /\ At(r, "accept")
  /\ MayAccept(r)
  /\ version' = "ready_for_review"
  /\ accepted' = accepted \cup KeysOf(r)
  /\ cleanup' = Withdrawn(KeysOf(r))
  /\ intents' = intents \ KeysOf(r)
  /\ \E pc \in {"return", "throw"} : Goto(r, pc)
  /\ UNCHANGED <<given, manual, due, job, objects, cleaner, sourceVars>>

\* It raises: a fence, an archived room, stale evidence, a failed statement.
AcceptRefused(r) ==
  /\ At(r, "accept")
  /\ Goto(r, "undo")
  /\ UNCHANGED <<given, version, manual, due, job, derivativeVars, sourceVars>>

Undo(r) ==
  /\ At(r, "undo")
  /\ DeletesSome(r)
  /\ Goto(r, "throw")
  /\ UNCHANGED <<given, version, manual, due, job, intents, accepted, cleanup,
                 cleaner, sourceVars>>

\* fail_document_processing.
FailProcessing(r) ==
  /\ At(r, "fail")
  /\ \/ /\ LeaseHeld(r) /\ version = "quarantine"
        /\ FailVersion(run[r].verdict)
        /\ \E pc \in {"return", "throw"} : Goto(r, pc)
     \/ Goto(r, "throw") /\ UNCHANGED <<version, due, sweep>>
  /\ UNCHANGED <<given, manual, source, job, derivativeVars, sweeper, deleter>>

\* The runner completes the row, loses the race, or meets an error and fails it.
Return(r) ==
  /\ At(r, "return")
  /\ \/ /\ job' = IF LeaseHeld(r) THEN [job EXCEPT ![r[1]] = Completed(@)] ELSE job
        /\ run' = [run EXCEPT ![r] = Gone]
     \/ Goto(r, "throw") /\ UNCHANGED job
  /\ UNCHANGED <<given, version, manual, due, derivativeVars, sourceVars>>

Throw(r) ==
  /\ At(r, "throw")
  /\ job' = IF LeaseHeld(r) THEN [job EXCEPT ![r[1]] = GivenBack(@, given.attempts)] ELSE job
  /\ run' = [run EXCEPT ![r] = Gone]
  /\ UNCHANGED <<given, version, manual, due, derivativeVars, sourceVars>>

HandlerStep(r) ==
  \/ ReadVersion(r) \/ ReadAndScan(r) \/ RecordCleanScan(r) \/ Convert(r)
  \/ RegisterCleanup(r) \/ PutDerivative(r) \/ RecordVerified(r) \/ Discard(r)
  \/ AcceptVersion(r) \/ AcceptRefused(r) \/ Undo(r) \/ FailProcessing(r)
  \/ Return(r) \/ Throw(r)

-----------------------------------------------------------------------------
(* jobs/derivative-cleanup.ts.                                              *)

CleanerHolds(c) == HeldBy(cleanup[c[1]], c[2])

CleanerGoto(c, pc) == cleaner' = [cleaner EXCEPT ![c] = pc]

\* Due five minutes after the registration.
ClaimCleanup(k) ==
  /\ LeaseHeld(k[1]) => Is("slow")
  /\ CanClaim(cleanup[k], given.cleanups)
  /\ cleanup' = [cleanup EXCEPT ![k] = Claimed(@)]
  /\ CleanerGoto(<<k, cleanup[k].attempts + 1>>, "claimed")
  /\ UNCHANGED <<given, version, manual, due, job, run, intents, objects,
                 accepted, sourceVars>>

\* resolve_derivative_cleanup: the intent must still be there, and goes.
ResolveCleanup(c) ==
  /\ cleaner[c] = "claimed"
  /\ \/ /\ CleanerHolds(c) /\ c[1] \in intents
        /\ intents' = intents \ {c[1]}
        /\ \E pc \in {"resolved", "throw"} : CleanerGoto(c, pc)
     \/ CleanerGoto(c, "throw") /\ UNCHANGED intents
  /\ UNCHANGED <<given, version, manual, due, job, run, objects, accepted,
                 cleanup, sourceVars>>

DeleteDerivative(c) ==
  /\ cleaner[c] = "resolved"
  /\ \/ objects' = objects \ {c[1]} /\ CleanerGoto(c, "return")
     \/ CleanerGoto(c, "throw") /\ UNCHANGED objects
  /\ UNCHANGED <<given, version, manual, due, job, run, intents, accepted,
                 cleanup, sourceVars>>

SettleCleanup(c) ==
  /\ cleaner[c] \in {"return", "throw"}
  /\ cleanup' = IF ~CleanerHolds(c) THEN cleanup
                ELSE [cleanup EXCEPT ![c[1]] = IF cleaner[c] = "return" THEN Completed(@)
                                               ELSE GivenBack(@, given.cleanups)]
  /\ CleanerGoto(c, "gone")
  /\ UNCHANGED <<given, version, manual, due, job, run, intents, objects,
                 accepted, sourceVars>>

LoseCleanupLease(k) ==
  /\ cleanup[k].live # 0
  /\ cleanup' = [cleanup EXCEPT ![k] = Lapsed(@)]
  /\ UNCHANGED <<given, version, manual, due, job, run, intents, objects,
                 accepted, cleaner, sourceVars>>

CrashCleaner(c) ==
  /\ cleaner[c] # "gone"
  /\ CleanerGoto(c, "gone")
  /\ UNCHANGED <<given, version, manual, due, job, run, intents, objects,
                 accepted, cleanup, sourceVars>>

ExhaustCleanup(k) ==
  /\ Spent(cleanup[k], given.cleanups)
  /\ cleanup' = [cleanup EXCEPT ![k] = Buried(@)]
  /\ UNCHANGED <<given, version, manual, due, job, run, intents, objects,
                 accepted, cleaner, sourceVars>>

CleanerStep(c) == ResolveCleanup(c) \/ DeleteDerivative(c) \/ SettleCleanup(c)

-----------------------------------------------------------------------------
(* Manual retry, and deletion of a failed source.                           *)

\* Slip: the version's state is not compared, only that it failed.
SlipRetryable == version \in {"processing_failed", "failed_source_deletion_pending"} /\ manual = 0

Retryable == version = "processing_failed" /\ manual = 0

\* request_document_processing_retry.
RequestRetry ==
  /\ Is("retry") /\ Retryable
  /\ version' = "quarantine" /\ manual' = 1
  /\ job' = [job EXCEPT !["retry"] = Queued]
  /\ UNCHANGED <<given, due, run, derivativeVars, sourceVars>>

Deadline ==
  /\ sweep.stage = "queued" /\ ~due
  /\ due' = TRUE
  /\ UNCHANGED <<given, version, manual, job, run, derivativeVars, sourceVars>>

DeletionPending ==
  version' = CASE version = "malware_quarantined" -> "malware_source_deletion_pending"
               [] version \in Failed \ {"malware_quarantined"} -> "failed_source_deletion_pending"
               [] OTHER -> version

SourceDeleted ==
  version' = IF version = "malware_source_deletion_pending"
             THEN "malware_source_deleted" ELSE "failed_source_deleted"

SweeperHolds(s) == HeldBy(sweep, s[2]) /\ sweep.era = s[1]

SweeperGoto(s, pc) == sweeper' = [sweeper EXCEPT ![s] = pc]

ClaimSweep ==
  /\ sweep.stage = "queued" => due
  /\ CanClaim(sweep, given.sweeps)
  /\ sweep' = Claimed(sweep)
  /\ SweeperGoto(<<sweep.era, sweep.attempts + 1>>, "claimed")
  /\ UNCHANGED <<given, version, manual, due, source, job, run, derivativeVars, deleter>>

Deletable == version \in Pending \/ (version \in Failed /\ due)

\* begin_retention_deletion: without a row to delete the handler only asserts its lease.
BeginSweep(s) ==
  /\ sweeper[s] = "claimed"
  /\ \/ /\ SweeperHolds(s) /\ Deletable
        /\ DeletionPending
        /\ \E pc \in {"deleting", "throw"} : SweeperGoto(s, pc)
     \/ /\ ~(SweeperHolds(s) /\ Deletable)
        /\ SweeperGoto(s, "return") /\ UNCHANGED version
     \/ SweeperGoto(s, "throw") /\ UNCHANGED version
  /\ UNCHANGED <<given, manual, due, source, job, run, derivativeVars, sweep, deleter>>

SweepSource(s) ==
  /\ sweeper[s] = "deleting"
  /\ \/ source' = FALSE /\ SweeperGoto(s, "finalizing")
     \/ SweeperGoto(s, "throw") /\ UNCHANGED source
  /\ UNCHANGED <<given, version, manual, due, job, run, derivativeVars, sweep, deleter>>

\* finalize_retention_deletion.
FinalizeSweep(s) ==
  /\ sweeper[s] = "finalizing"
  /\ \/ /\ SweeperHolds(s) /\ version \in Pending
        /\ SourceDeleted
        /\ \E pc \in {"return", "throw"} : SweeperGoto(s, pc)
     \/ SweeperGoto(s, "throw") /\ UNCHANGED version
  /\ UNCHANGED <<given, manual, due, source, job, run, derivativeVars, sweep, deleter>>

SettleSweep(s) ==
  /\ sweeper[s] \in {"return", "throw"}
  /\ sweep' = IF ~SweeperHolds(s) THEN sweep
              ELSE IF sweeper[s] = "return" THEN Completed(sweep)
              ELSE GivenBack(sweep, given.sweeps)
  /\ SweeperGoto(s, "gone")
  /\ UNCHANGED <<given, version, manual, due, source, job, run, derivativeVars, deleter>>

LoseSweepLease ==
  /\ sweep.live # 0
  /\ sweep' = Lapsed(sweep)
  /\ UNCHANGED <<given, version, manual, due, source, job, run, derivativeVars, sweeper, deleter>>

CrashSweeper(s) ==
  /\ sweeper[s] # "gone"
  /\ SweeperGoto(s, "gone")
  /\ UNCHANGED <<given, version, manual, due, source, job, run, derivativeVars, sweep, deleter>>

ExhaustSweep ==
  /\ Spent(sweep, given.sweeps)
  /\ sweep' = Buried(sweep)
  /\ UNCHANGED <<given, version, manual, due, source, job, run, derivativeVars, sweeper, deleter>>

SweeperStep(s) == BeginSweep(s) \/ SweepSource(s) \/ FinalizeSweep(s) \/ SettleSweep(s)

\* begin_member_failed_source_deletion.
BeginDelete ==
  /\ Is("delete")
  /\ deleter = "none" /\ version \in Failed \cup Pending
  /\ DeletionPending
  /\ deleter' = "deleting"
  /\ UNCHANGED <<given, manual, due, source, job, run, derivativeVars, sweep, sweeper>>

DeleteSource ==
  /\ deleter = "deleting"
  /\ \/ source' = FALSE /\ deleter' = "finalizing"
     \/ deleter' = "none" /\ UNCHANGED source
  /\ UNCHANGED <<given, version, manual, due, job, run, derivativeVars, sweep, sweeper>>

\* finalize_member_failed_source_deletion, or the request dies before it.
FinalizeDelete ==
  /\ deleter = "finalizing"
  /\ deleter' = "none"
  /\ \/ version \in Pending /\ SourceDeleted
     \/ UNCHANGED version
  /\ UNCHANGED <<given, manual, due, source, job, run, derivativeVars, sweep, sweeper>>

MemberStep == RequestRetry \/ BeginDelete \/ DeleteSource \/ FinalizeDelete

-----------------------------------------------------------------------------
LeaseLapses ==
  \/ \E j \in VJob : LoseLease(j)
  \/ \E k \in Key : LoseCleanupLease(k)
  \/ LoseSweepLease

ProcessDies ==
  \/ \E r \in VRun : Crash(r)
  \/ \E c \in Cleaner : CrashCleaner(c)
  \/ \E s \in Sweeper : CrashSweeper(s)

QueueStep ==
  \/ \E j \in VJob : ClaimValidation(j) \/ Exhaust(j)
  \/ \E k \in Key : ClaimCleanup(k) \/ ExhaustCleanup(k)
  \/ ClaimSweep \/ ExhaustSweep

Next ==
  \/ QueueStep \/ LeaseLapses \/ ProcessDies \/ MemberStep \/ Deadline
  \/ \E r \in VRun : HandlerStep(r)
  \/ \E c \in Cleaner : CleanerStep(c)
  \/ \E s \in Sweeper : SweeperStep(s)

Spec == Init /\ [][Next]_vars

\* The attempts and keys of any case.
AnyRun == VJob \X UNION {1..c.attempts : c \in Cases}
AnyKey == AnyRun \X UNION {1..c.pages : c \in Cases}
AnyCleaner == AnyKey \X UNION {1..c.cleanups : c \in Cases}
AnySweeper == {0, 1} \X UNION {1..c.sweeps : c \in Cases}

(* Workers keep claiming, a handler that runs makes progress, the lease of   *)
(* one that died runs out, time passes, and the queue sweeps spent rows.     *)
(* Members owe nothing, and nothing makes a call succeed.                    *)
FairSpec ==
  /\ Spec
  /\ \A j \in VJob :
       /\ WF_vars(ClaimValidation(j)) /\ WF_vars(Exhaust(j))
       /\ WF_vars(job[j].live # 0 /\ At(<<j, job[j].live>>, "gone") /\ LoseLease(j))
  /\ \A r \in AnyRun : WF_vars(r \in VRun /\ HandlerStep(r))
  /\ \A k \in AnyKey :
       /\ WF_vars(k \in Key /\ ClaimCleanup(k)) /\ WF_vars(k \in Key /\ ExhaustCleanup(k))
       /\ WF_vars(/\ k \in Key /\ cleanup[k].live # 0
                  /\ cleaner[<<k, cleanup[k].live>>] = "gone" /\ LoseCleanupLease(k))
  /\ \A c \in AnyCleaner : WF_vars(c \in Cleaner /\ CleanerStep(c))
  /\ WF_vars(Deadline) /\ WF_vars(ClaimSweep) /\ WF_vars(ExhaustSweep)
  /\ WF_vars(/\ sweep.live # 0 /\ sweeper[<<sweep.era, sweep.live>>] = "gone"
             /\ LoseSweepLease)
  /\ \A s \in AnySweeper : WF_vars(s \in Sweeper /\ SweeperStep(s))

-----------------------------------------------------------------------------
(* Properties.                                                              *)

\* The pages of an accepted version stay in storage: neither a cleanup job nor the
\* attempt that stored them, nor another attempt, deletes what
\* accept_processed_version made a document_derivative.  It holds in the cases without
\* "slow": no attempt outlives the five minutes before the cleanup of its keys is due.
AcceptedIntact == accepted \subseteq objects

\* A stored object that no version owns is always someone's to delete: it has its
\* intent and that intent a cleanup job not yet done, or an attempt of that job has
\* taken the intent away.  register_derivative_cleanup comes before putDerivative,
\* and an acceptance withdraws the cleanups of its own keys only.
NothingUnregistered ==
  /\ \A k \in intents : cleanup[k].stage \in {"queued", "running", "failed"}
  /\ \A k \in objects \ (accepted \cup intents) : cleanup[k].attempts > 0

\* No overlap of attempts and cleanups deletes an accepted page or forgets an object.
DerivativesKept == AcceptedIntact /\ NothingUnregistered

\* The quarantined source outlives every state that still needs it: while the version
\* is being processed, may yet be retried or was accepted, neither the sweep nor a
\* member's request has deleted it, whichever of them overlap.
SourceKept == version \in {"quarantine", "ready_for_review"} \cup Failed => source

\* A failed source always has a retention sweep ahead of it, even when the sweep of
\* the first failure ran, or was running, while the retry was being processed.
FailedIsSwept ==
  version \in Failed \cup Pending => sweep.stage \in {"queued", "running", "failed"}

\* Every upload is decided: whatever crashes or fails, the version leaves quarantine.
LeavesQuarantine == version = "quarantine" ~> version # "quarantine"

\* A deletion once begun is carried through, by whoever finds it, until the sweep has
\* used up its attempts.
PendingSettles == version \in Pending ~> (version \in Deleted \/ sweep.stage = "failed")

\* Where cleanup jobs are worked on, every cleanup intent is resolved, or its job has used
\* up its attempts.
IntentsResolve ==
  \A k \in AnyKey :
    given.cleanups > 0 /\ k \in intents ~> (k \notin intents \/ cleanup[k].stage = "failed")

\* Every source, every deletion that was begun and every cleanup comes to its end.
ProcessingEnds == LeavesQuarantine /\ PendingSettles /\ IntentsResolve

\* The handler's comment in derivative-cleanup.ts: deletion is idempotent, "so a retry
\* after a later failure is safe".  A cleanup that is to be retried while its object
\* still exists must then still find the intent that lets it delete.
CleanupRetryable ==
  \A k \in objects \ accepted :
    cleanup[k].stage = "queued" /\ cleanup[k].attempts > 0 => k \in intents

\* ProcessingPanel.tsx and 036_job_exhaustion.sql: the server permits one manual
\* retry.  The retry a member was granted is not failed before its job ever ran.
RetryGetsARun ==
  [][version = "quarantine" /\ manual = 1 /\ version' \in Failed
       => job["retry"].attempts > 0]_vars
=============================================================================
