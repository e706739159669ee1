------------------------------ MODULE Uploads ------------------------------
(***************************************************************************)
(* One upload, from createUploadIntent to its quarantined version or its   *)
(* removal (uploads.ts), with the reaper of jobs/multipart-reap.ts.  The   *)
(* member may send the finalizing request more than once, the web process  *)
(* may stop anywhere, every call to storage or to the database may fail,   *)
(* with or without its effect, and the intent expires after a day whatever *)
(* is in flight.  What follows the version is Processing.                  *)
(***************************************************************************)
EXTENDS Integers, WorkRows

CONSTANTS
  Request,       \* finalizing requests of the member
  ReapAttempts   \* max_attempts of the reap job

ASSUME UploadAssumption == ReapAttempts \in Nat \ {0}

VARIABLES
  intent,     \* upload_intent.state, "none" before it is inserted
  expired,    \* expires_at has passed
  multipart,  \* storage holds the multipart upload
  object,     \* storage holds the assembled object
  version,    \* the quarantined document_version exists
  creator,    \* createUploadIntent
  finalizer,  \* per request, finalizeUpload
  reap,       \* the upload.multipart.reap row
  reaper      \* its attempts

storageVars == <<multipart, object>>
reapVars == <<reap, reaper>>
vars == <<intent, expired, multipart, object, version, creator, finalizer, reap, reaper>>

ReapRun == 1..ReapAttempts

\* completed is completedObject; fresh: the transaction began before expires_at, which
\* is what transaction_timestamp() compares.
Finalizing ==
  [pc : {"idle", "mark", "complete", "head", "begin", "lock", "locked", "record", "delete",
         "abort", "gone"},
   completed : {"no", "yes"}, fresh : {"no", "yes"}]
Idle == [pc |-> "idle", completed |-> "no", fresh |-> "no"]

TypeOK ==
  /\ intent \in {"none", "open", "completing", "finalized", "failed", "expired"}
  /\ expired \in BOOLEAN /\ multipart \in BOOLEAN /\ object \in BOOLEAN
  /\ version \in BOOLEAN
  /\ creator \in {"idle", "insert", "undo", "gone"}
  /\ finalizer \in [Request -> Finalizing]
  /\ reap \in Rows(ReapAttempts)
  /\ reaper \in [ReapRun -> {"gone", "claimed", "abortLive", "abortSettled", "expire",
                             "delete", "return", "throw"}]

Init ==
  /\ intent = "none" /\ expired = FALSE /\ version = FALSE
  /\ multipart = FALSE /\ object = FALSE
  /\ creator = "idle" /\ finalizer = [f \in Request |-> Idle]
  /\ reap = Absent /\ reaper = [a \in ReapRun |-> "gone"]

-----------------------------------------------------------------------------
(* createUploadIntent.                                                      *)

CreateMultipart ==
  /\ creator = "idle"
  /\ multipart' = TRUE
  /\ \E pc \in {"insert", "gone"} : creator' = pc     \* gone: the reply was lost
  /\ UNCHANGED <<intent, expired, object, version, finalizer, reapVars>>

\* The intent and its reap job, due at expires_at, in one transaction.  When the reply
\* to its COMMIT is lost, the multipart upload is aborted under an open intent.
InsertIntent ==
  /\ creator = "insert"
  /\ intent' = "open" /\ reap' = Queued
  /\ \E pc \in {"gone", "undo"} : creator' = pc
  /\ UNCHANGED <<expired, storageVars, version, finalizer, reaper>>

InsertRefused ==
  /\ creator = "insert"
  /\ creator' = "undo"
  /\ UNCHANGED <<intent, expired, storageVars, version, finalizer, reapVars>>

UndoMultipart ==
  /\ creator = "undo"
  /\ multipart' \in {multipart, FALSE}
  /\ creator' = "gone"
  /\ UNCHANGED <<intent, expired, object, version, finalizer, reapVars>>

Expire ==
  /\ intent # "none" /\ ~expired
  /\ expired' = TRUE
  /\ UNCHANGED <<intent, storageVars, version, creator, finalizer, reapVars>>

CreatorDies ==
  /\ creator \in {"insert", "undo"}
  /\ creator' = "gone"
  /\ UNCHANGED <<intent, expired, storageVars, version, finalizer, reapVars>>

-----------------------------------------------------------------------------
(* finalizeUpload.                                                          *)

At(f, pc) == finalizer[f].pc = pc
Goto(f, pc) == finalizer' = [finalizer EXCEPT ![f].pc = pc]
Locked == \E f \in Request : At(f, "locked")     \* SELECT ... FOR UPDATE until COMMIT

ReadIntent(f) ==
  /\ At(f, "idle")
  /\ intent = "open" /\ ~expired
  /\ Goto(f, "mark")
  /\ UNCHANGED <<intent, expired, storageVars, version, creator, reapVars>>

\* An error here, the lost reply among them, is outside the try block.
MarkCompleting(f) ==
  /\ At(f, "mark")
  /\ \/ /\ intent = "open" /\ ~expired
        /\ intent' = "completing"
        /\ \E pc \in {"complete", "gone"} : Goto(f, pc)
     \/ Goto(f, "gone") /\ UNCHANGED intent
  /\ UNCHANGED <<expired, storageVars, version, creator, reapVars>>

CompleteMultipart(f) ==
  /\ At(f, "complete")
  /\ \/ /\ multipart
        /\ multipart' = FALSE /\ object' = TRUE
        /\ \/ finalizer' = [finalizer EXCEPT ![f] =
                              [pc |-> "head", completed |-> "yes", fresh |-> @.fresh]]
           \/ Goto(f, "record")
     \/ Goto(f, "record") /\ UNCHANGED storageVars
  /\ UNCHANGED <<intent, expired, version, creator, reapVars>>

HeadObject(f) ==
  /\ At(f, "head")
  /\ \/ object /\ Goto(f, "begin")
     \/ Goto(f, "record")
  /\ UNCHANGED <<intent, expired, storageVars, version, creator, reapVars>>

BeginTransaction(f) ==
  /\ At(f, "begin")
  /\ \/ finalizer' = [finalizer EXCEPT ![f] =
                        [pc |-> "lock", completed |-> @.completed,
                         fresh |-> IF expired THEN "no" ELSE "yes"]]
     \/ Goto(f, "record")
  /\ UNCHANGED <<intent, expired, storageVars, version, creator, reapVars>>

\* Without the row the reaper has expired the intent and owns the cleanup.
LockIntent(f) ==
  /\ At(f, "lock")
  /\ \/ Goto(f, IF intent = "completing" THEN "locked" ELSE "gone")
     \/ Goto(f, "record")
  /\ UNCHANGED <<intent, expired, storageVars, version, creator, reapVars>>

\* create_quarantined_document_version, enqueue_job and COMMIT, whose reply may be lost.
CommitVersion(f) ==
  /\ At(f, "locked") /\ finalizer[f].fresh = "yes"
  /\ version' = TRUE /\ intent' = "finalized"
  /\ \E pc \in {"gone", "record"} : Goto(f, pc)
  /\ UNCHANGED <<expired, storageVars, creator, reapVars>>

\* Not authorized any more, expired, a name collision, a failed statement: ROLLBACK.
RefuseVersion(f) ==
  /\ At(f, "locked")
  /\ Goto(f, "record")
  /\ UNCHANGED <<intent, expired, storageVars, version, creator, reapVars>>

\* Slip: the completed object is deleted whether or not the failure was recorded.
SlipDeletesAnyway(f, recorded) == IF finalizer[f].completed = "yes" THEN "delete" ELSE "abort"

\* What is left to clean up once the failure was recorded, or could not be.
Cleanup(f, recorded) ==
  IF finalizer[f].completed = "no" THEN "abort"
  ELSE IF recorded THEN "delete" ELSE "gone"

RecordFailure(f) ==
  /\ At(f, "record")
  /\ \/ /\ intent = "completing"
        /\ intent' = "failed"
        /\ \E recorded \in BOOLEAN : Goto(f, Cleanup(f, recorded))
     \/ Goto(f, Cleanup(f, FALSE)) /\ UNCHANGED intent
  /\ UNCHANGED <<expired, storageVars, version, creator, reapVars>>

DeleteCompleted(f) ==
  /\ At(f, "delete")
  /\ object' \in {object, FALSE}
  /\ Goto(f, "gone")
  /\ UNCHANGED <<intent, expired, multipart, version, creator, reapVars>>

AbortParts(f) ==
  /\ At(f, "abort")
  /\ multipart' \in {multipart, FALSE}
  /\ Goto(f, "gone")
  /\ UNCHANGED <<intent, expired, object, version, creator, reapVars>>

FinalizerDies(f) ==
  /\ finalizer[f].pc \notin {"idle", "gone"}
  /\ Goto(f, "gone")
  /\ UNCHANGED <<intent, expired, storageVars, version, creator, reapVars>>

FinalizeStep(f) ==
  \/ ReadIntent(f) \/ MarkCompleting(f) \/ CompleteMultipart(f) \/ HeadObject(f)
  \/ BeginTransaction(f) \/ LockIntent(f) \/ CommitVersion(f) \/ RefuseVersion(f)
  \/ RecordFailure(f) \/ DeleteCompleted(f) \/ AbortParts(f)

-----------------------------------------------------------------------------
(* jobs/multipart-reap.ts.                                                  *)

Holds(a) == HeldBy(reap, a)
ReaperGoto(a, pc) == reaper' = [reaper EXCEPT ![a] = pc]

ClaimReap ==
  /\ reap.stage = "queued" => expired
  /\ CanClaim(reap, ReapAttempts)
  /\ reap' = Claimed(reap)
  /\ ReaperGoto(reap.attempts + 1, "claimed")
  /\ UNCHANGED <<intent, expired, storageVars, version, creator, finalizer>>

\* Slip: an intent that was failed or expired before is not selected again.
SlipOnce == intent \in {"open", "completing"} /\ expired

Reapable ==
  \/ intent \in {"failed", "expired"}
  \/ intent \in {"open", "completing"} /\ expired

SelectIntent(a) ==
  /\ reaper[a] = "claimed"
  /\ \/ /\ Holds(a) /\ Reapable
        /\ ReaperGoto(a, IF intent \in {"open", "completing"} THEN "abortLive"
                         ELSE "abortSettled")
     \/ ~(Holds(a) /\ Reapable) /\ ReaperGoto(a, "return")
     \/ ReaperGoto(a, "throw")
  /\ UNCHANGED <<intent, expired, storageVars, version, creator, finalizer, reap>>

AbortMultipart(a) ==
  /\ reaper[a] \in {"abortLive", "abortSettled"}
  /\ \/ /\ multipart' = FALSE
        /\ ReaperGoto(a, IF reaper[a] = "abortLive" THEN "expire" ELSE "delete")
     \/ multipart' \in {multipart, FALSE} /\ ReaperGoto(a, "throw")
  /\ UNCHANGED <<intent, expired, object, version, creator, finalizer, reap>>

\* The UPDATE waits for a finalizer that has the row locked.  Without a row it throws
\* JOB_LEASE_LOST, which the runner does not settle: the lease runs out instead.
ExpireIntent(a) ==
  /\ reaper[a] = "expire" /\ ~Locked
  /\ \/ /\ Holds(a) /\ intent \in {"open", "completing"} /\ expired
        /\ intent' = "expired"
        /\ \E pc \in {"delete", "throw"} : ReaperGoto(a, pc)
     \/ /\ ~(Holds(a) /\ intent \in {"open", "completing"})
        /\ ReaperGoto(a, "gone") /\ UNCHANGED intent
     \/ ReaperGoto(a, "throw") /\ UNCHANGED intent
  /\ UNCHANGED <<expired, storageVars, version, creator, finalizer, reap>>

DeleteAssembled(a) ==
  /\ reaper[a] = "delete"
  /\ \/ object' = FALSE /\ ReaperGoto(a, "return")
     \/ object' \in {object, FALSE} /\ ReaperGoto(a, "throw")
  /\ UNCHANGED <<intent, expired, multipart, version, creator, finalizer, reap>>

SettleReap(a) ==
  /\ reaper[a] \in {"return", "throw"}
  /\ reap' = IF ~Holds(a) THEN reap
             ELSE IF reaper[a] = "return" THEN Completed(reap)
             ELSE GivenBack(reap, ReapAttempts)
  /\ ReaperGoto(a, "gone")
  /\ UNCHANGED <<intent, expired, storageVars, version, creator, finalizer>>

LoseReapLease ==
  /\ reap.live # 0
  /\ reap' = Lapsed(reap)
  /\ UNCHANGED <<intent, expired, storageVars, version, creator, finalizer, reaper>>

ReaperDies(a) ==
  /\ reaper[a] # "gone"
  /\ ReaperGoto(a, "gone")
  /\ UNCHANGED <<intent, expired, storageVars, version, creator, finalizer, reap>>

ExhaustReap ==
  /\ Spent(reap, ReapAttempts)
  /\ reap' = Buried(reap)
  /\ UNCHANGED <<intent, expired, storageVars, version, creator, finalizer, reaper>>

ReapStep(a) ==
  \/ SelectIntent(a) \/ AbortMultipart(a) \/ ExpireIntent(a) \/ DeleteAssembled(a)
  \/ SettleReap(a)

-----------------------------------------------------------------------------
CreateStep == CreateMultipart \/ InsertIntent \/ InsertRefused \/ UndoMultipart \/ CreatorDies

Next ==
  \/ CreateStep \/ Expire
  \/ \E f \in Request : FinalizeStep(f) \/ FinalizerDies(f)
  \/ ClaimReap \/ LoseReapLease \/ ExhaustReap
  \/ \E a \in ReapRun : ReapStep(a) \/ ReaperDies(a)

Spec == Init /\ [][Next]_vars

(* A day passes, workers keep claiming, a handler that runs makes progress   *)
(* and the lease of one that died runs out.  The member and the web process  *)
(* owe nothing, except that a transaction ends: a lock is not held forever.  *)
Fairness ==
  /\ WF_vars(Expire) /\ WF_vars(ClaimReap) /\ WF_vars(ExhaustReap)
  /\ WF_vars(reap.live # 0 /\ reaper[reap.live] = "gone" /\ LoseReapLease)
  /\ \A a \in ReapRun : WF_vars(ReapStep(a))
  /\ \A f \in Request : WF_vars(At(f, "locked") /\ (RefuseVersion(f) \/ FinalizerDies(f)))

FairSpec == Spec /\ Fairness

-----------------------------------------------------------------------------
(* Properties.                                                              *)

\* The object a committed version names is never deleted by what cleans up after an
\* upload: a finalizer that saw an error although its COMMIT took effect, a second
\* finalizer, or the reaper at the deadline.
VersionKeepsObject == version => object /\ intent = "finalized"

\* Whatever an unfinished upload has left in storage still has its reap job ahead of it,
\* until that job has used up its attempts; a reaper that is done has left nothing, and
\* no finalizer still in flight brings anything back.
LeftoversHaveReaper ==
  intent \in {"open", "completing", "failed", "expired"} /\ (multipart \/ object)
    => reap.stage \in {"queued", "running", "failed"}

\* Every intent is settled: finalized, failed, or expired by the reaper, unless its job
\* has used up its attempts.
Unsettled == intent \in {"open", "completing"} /\ reap.stage # "failed"
IntentSettles == Unsettled ~> ~Unsettled
=============================================================================
