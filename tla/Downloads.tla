------------------------------ MODULE Downloads ------------------------------
(***************************************************************************)
(* One download lease of an original: the range requests that stream it,   *)
(* their accounting, what ends it early, and the finalizer due when it     *)
(* expires (downloads.ts, 008_protected_delivery.sql,                      *)
(* jobs/download-finalizer.ts).  Requests overlap; bytes go out before     *)
(* they are recorded.                                                      *)
(***************************************************************************)
EXTENDS Integers, FiniteSets, WorkRows

CONSTANTS
  Request,           \* range requests, each made once
  Size,              \* size_bytes
  FinalizeAttempts   \* max_attempts of download.lease.finalize

VARIABLES
  session,     \* the viewer's session resolves
  permitted,   \* the document may be previewed and its policy is 'allow'
  lease,       \* download_lease.state, "none" before the row, "purged" after it
  expired,     \* expires_at has passed
  served,      \* served_ranges
  bytes,       \* bytes_served
  request,     \* streamDownloadRange
  delivered,   \* bytes a request has streamed to its end
  summaries,   \* download.summary events
  reported,    \* bytesServed of the last one
  job, run     \* the finalizer's row, and the attempt that holds its lease

accessVars == <<session, permitted>>
rowVars == <<lease, served, bytes, summaries, reported>>
jobVars == <<job, run>>
vars == <<accessVars, rowVars, expired, request, delivered, jobVars>>

Bytes == 0..(Size - 1)
\* One range per request, bytes=first-last inside the file (parseSingleRange).
ByteRange == {first..last : first, last \in Bytes} \ {{}}

TypeOK ==
  /\ session \in BOOLEAN /\ permitted \in BOOLEAN /\ expired \in BOOLEAN
  /\ lease \in {"none", "active", "completed", "failed", "purged"}
  /\ served \in SUBSET Bytes /\ delivered \in SUBSET Bytes
  /\ bytes \in 0..(Size * Cardinality(Request))
  /\ request \in [Request -> [pc : {"idle", "open", "stream", "record", "fail", "done"},
                              range : ByteRange \cup {{}}]]
  /\ summaries \in Nat /\ reported \in Nat
  /\ job \in Rows(FinalizeAttempts) /\ run \in {"gone", "claimed", "return", "throw"}

Init ==
  /\ session = TRUE /\ permitted = TRUE
  /\ lease = "none" /\ expired = FALSE /\ served = {} /\ bytes = 0
  /\ request = [r \in Request |-> [pc |-> "idle", range |-> {}]]
  /\ delivered = {} /\ summaries = 0 /\ reported = 0
  /\ job = Absent /\ run = "gone"

-----------------------------------------------------------------------------
MayDownload == lease = "active" /\ ~expired /\ permitted

\* finalize_download: an active lease gets its one summary; any other is left alone.
FinalizeDownload(state, total) ==
  IF lease = "active"
  THEN lease' = state /\ summaries' = summaries + 1 /\ reported' = total
  ELSE UNCHANGED <<lease, summaries, reported>>

CreateLease ==
  /\ session /\ permitted /\ lease = "none"
  /\ lease' = "active" /\ job' = Queued
  /\ UNCHANGED <<accessVars, served, bytes, summaries, reported, expired, request, delivered,
                 run>>

-----------------------------------------------------------------------------
(* streamDownloadRange.                                                     *)

At(r, pc) == request[r].pc = pc
Goto(r, pc) == request' = [request EXCEPT ![r].pc = pc]

\* authorize_download_range: a lease that is not good any more is failed at once.
AuthorizeRange(r) ==
  /\ At(r, "idle") /\ session /\ lease # "none"
  /\ \/ /\ MayDownload
        /\ \E range \in ByteRange :
             request' = [request EXCEPT ![r] = [pc |-> "open", range |-> range]]
        /\ UNCHANGED rowVars
     \/ /\ ~MayDownload
        /\ Goto(r, "done")
        /\ FinalizeDownload("failed", bytes)
        /\ UNCHANGED <<served, bytes>>
  /\ UNCHANGED <<accessVars, expired, delivered, jobVars>>

OpenStream(r) ==
  /\ At(r, "open")
  /\ \E pc \in {"stream", "fail"} : Goto(r, pc)
  /\ UNCHANGED <<accessVars, rowVars, expired, delivered, jobVars>>

\* The last byte is out, storage breaks off, or the client goes away: then the generator
\* is returned from, and neither records nor fails anything.
StreamBytes(r) ==
  /\ At(r, "stream")
  /\ \/ Goto(r, "record") /\ delivered' = delivered \cup request[r].range
     \/ \E pc \in {"fail", "done"} : Goto(r, pc) /\ UNCHANGED delivered
  /\ UNCHANGED <<accessVars, rowVars, expired, jobVars>>

\* Slip: a range is recorded for a lease that is over.
SlipLate == session /\ lease # "none" /\ permitted

Recordable == session /\ MayDownload

Complete(ranges, total) == Bytes \subseteq ranges

\* record_download_range; the generator throws on false and on a lost reply.
RecordRange(r) ==
  /\ At(r, "record")
  /\ \/ /\ Recordable
        /\ served' = served \cup request[r].range
        /\ bytes' = bytes + Cardinality(request[r].range)
        /\ IF Complete(served', bytes') THEN FinalizeDownload("completed", bytes')
           ELSE UNCHANGED <<lease, summaries, reported>>
        /\ \E pc \in {"done", "fail"} : Goto(r, pc)
     \/ Goto(r, "fail") /\ UNCHANGED rowVars
  /\ UNCHANGED <<accessVars, expired, delivered, jobVars>>

\* fail_download ends the lease for every other request too; it may not arrive.
FailDownload(r) ==
  /\ At(r, "fail")
  /\ Goto(r, "done")
  /\ \/ session /\ FinalizeDownload("failed", bytes) /\ UNCHANGED <<served, bytes>>
     \/ UNCHANGED rowVars
  /\ UNCHANGED <<accessVars, expired, delivered, jobVars>>

WebDies(r) ==
  /\ request[r].pc \notin {"idle", "done"}
  /\ Goto(r, "done")
  /\ UNCHANGED <<accessVars, rowVars, expired, delivered, jobVars>>

RequestStep(r) ==
  AuthorizeRange(r) \/ OpenStream(r) \/ StreamBytes(r) \/ RecordRange(r) \/ FailDownload(r)

-----------------------------------------------------------------------------
(* The session, the grants and the policy, and the fifteen minutes.         *)

EndSession ==
  /\ session
  /\ session' = FALSE
  /\ UNCHANGED <<permitted, rowVars, expired, request, delivered, jobVars>>

ChangePermission ==
  /\ permitted' = ~permitted
  /\ UNCHANGED <<session, rowVars, expired, request, delivered, jobVars>>

Expire ==
  /\ lease # "none" /\ ~expired
  /\ expired' = TRUE
  /\ UNCHANGED <<accessVars, rowVars, request, delivered, jobVars>>

\* purge_ended_sign_in.
PurgeSession ==
  /\ ~session /\ lease \in {"completed", "failed"}
  /\ \A r \in Request : request[r].pc \in {"idle", "done"}
  /\ lease' = "purged"
  /\ UNCHANGED <<accessVars, served, bytes, summaries, reported, expired, request, delivered,
                 jobVars>>

-----------------------------------------------------------------------------
(* jobs/download-finalizer.ts: one call of finalize_expired_download.       *)

ClaimFinalizer ==
  /\ job.stage = "queued" => expired
  /\ CanClaim(job, FinalizeAttempts)
  /\ job' = Claimed(job) /\ run' = "claimed"
  /\ UNCHANGED <<accessVars, rowVars, expired, request, delivered>>

FinalizeExpired ==
  /\ run = "claimed"
  /\ \/ FinalizeDownload("failed", bytes) /\ run' \in {"return", "throw"}
     \/ run' = "throw" /\ UNCHANGED <<lease, summaries, reported>>
  /\ UNCHANGED <<accessVars, served, bytes, expired, request, delivered, job>>

SettleFinalizer ==
  /\ run \in {"return", "throw"}
  /\ job' = IF run = "return" THEN Completed(job) ELSE GivenBack(job, FinalizeAttempts)
  /\ run' = "gone"
  /\ UNCHANGED <<accessVars, rowVars, expired, request, delivered>>

WorkerDies ==
  /\ run # "gone"
  /\ run' = "gone"
  /\ UNCHANGED <<accessVars, rowVars, expired, request, delivered, job>>

LoseLease ==
  /\ job.live # 0
  /\ job' = Lapsed(job) /\ run' = "gone"
  /\ UNCHANGED <<accessVars, rowVars, expired, request, delivered>>

ExhaustFinalizer ==
  /\ Spent(job, FinalizeAttempts)
  /\ job' = Buried(job)
  /\ UNCHANGED <<accessVars, rowVars, expired, request, delivered, run>>

FinalizeStep == FinalizeExpired \/ SettleFinalizer

\* What the workers and the database do without a mishap.
WorkerStep ==
  ClaimFinalizer \/ ExhaustFinalizer \/ FinalizeStep \/ (run = "gone" /\ LoseLease)

-----------------------------------------------------------------------------
Next ==
  \/ CreateLease \/ EndSession \/ ChangePermission \/ Expire \/ PurgeSession
  \/ \E r \in Request : RequestStep(r) \/ WebDies(r)
  \/ ClaimFinalizer \/ FinalizeStep \/ WorkerDies \/ LoseLease \/ ExhaustFinalizer

Spec == Init /\ [][Next]_vars

(* Fifteen minutes pass, workers keep claiming, a handler that runs makes     *)
(* progress and the lease of a dead one runs out.  The viewer owes nothing.  *)
Fairness ==
  WF_vars(Expire) /\ WF_vars(WorkerStep)

FairSpec == Spec /\ Fairness

-----------------------------------------------------------------------------
(* Properties.                                                              *)

\* A lease that is over has exactly one summary, which tells what it ended with: the
\* requests that fail it, the one that completes it, an authorization that finds it spent
\* and the finalizer write no second, and nothing is recorded after it.
OneSummary ==
  /\ summaries = IF lease \in {"none", "active"} THEN 0 ELSE 1
  /\ lease \notin {"none", "active"} => reported = bytes

\* A lease is completed only when every byte of the original was streamed to the viewer,
\* in whatever ranges, repeated or overlapping, at once or one after the other.
CompletedIsWhole == lease = "completed" => delivered = Bytes

\* The one summary of a download is true: whoever ended it, and whatever was streamed.
SummarySound == OneSummary /\ CompletedIsWhole

\* No lease stays active: whatever becomes of its requests, the finalizer ends it after
\* it expired, unless that job has used up its attempts.
Unsettled == lease = "active" /\ job.stage # "failed"
LeaseSettles == Unsettled ~> ~Unsettled
=============================================================================
