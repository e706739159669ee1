----------------------------- MODULE Watermarks -----------------------------
(***************************************************************************)
(* The watermarked pages one viewer session has had composed for one       *)
(* document (protected-delivery.ts, 008_protected_delivery.sql), the       *)
(* cleanup job each of them queues (jobs/watermark-cleanup.ts) and the     *)
(* sign-in retention that forgets the session (042_sign_in_retention.sql). *)
(* Composing takes long: access may end, a day may pass and the web        *)
(* process may stop between any two of its calls.                          *)
(***************************************************************************)
EXTENDS Integers, WorkRows

CONSTANTS
  Page,            \* page requests that found nothing to reuse; each has a cache of its own
  DeleteAttempts   \* max_attempts of document.watermark.delete

ASSUME WatermarkAssumption == DeleteAttempts \in Nat \ {0}

VARIABLES
  session,   \* "live"; "idle": past idle_expires_at, still state 'active'; "revoked"; "purged"
  access,    \* what else viewer_can_preview_document asks for
  cache,     \* watermark_cache.state per page, "none" when there is no row
  expired,   \* pages whose expires_at has passed
  objects,   \* pages whose watermarked image is in storage
  creator,   \* per page, createWatermarkedPage
  job,       \* per page, the document.watermark.delete row
  worker,    \* per page, its attempts
  mishaps    \* history: "reply": an activation's reply was lost after its COMMIT; "web":
             \* the web process stopped, or a deletion of its failed

accessVars == <<session, access>>
vars == <<session, access, cache, expired, objects, creator, job, worker, mishaps>>

DeleteRun == 1..DeleteAttempts
Live == {"creating", "active"}

TypeOK ==
  /\ session \in {"live", "idle", "revoked", "purged"} /\ access \in BOOLEAN
  /\ cache \in [Page -> Live \cup {"none", "deletion_pending", "deleted"}]
  /\ expired \in SUBSET Page /\ objects \in SUBSET Page
  /\ creator \in [Page -> {"idle", "begin", "compose", "finish", "refused", "catch", "gone"}]
  /\ job \in [Page -> Rows(DeleteAttempts)]
  /\ worker \in [Page -> [DeleteRun -> {"gone", "claimed", "assert", "delete", "finish",
                                        "return", "throw"}]]
  /\ mishaps \in SUBSET {"reply", "web"}

Init ==
  /\ session = "live" /\ access = TRUE
  /\ cache = [p \in Page |-> "none"] /\ expired = {} /\ objects = {}
  /\ creator = [p \in Page |-> "idle"]
  /\ job = [p \in Page |-> Absent]
  /\ worker = [p \in Page |-> [a \in DeleteRun |-> "gone"]]
  /\ mishaps = {}

-----------------------------------------------------------------------------
(* createWatermarkedPage.                                                   *)

CreatorGoto(p, pc) == creator' = [creator EXCEPT ![p] = pc]
MayPreview == session = "live" /\ access

\* enqueue_watermark_deletion: the job is due at once when the cache waits for it.
Condemned(pages) ==
  [p \in Page |-> IF p \in pages /\ cache[p] \in Live THEN "deletion_pending" ELSE cache[p]]

\* begin_watermark_cache has read the session, the publication and the grants.
CheckAccess(p) ==
  /\ creator[p] = "idle"
  /\ MayPreview
  /\ CreatorGoto(p, "begin")
  /\ UNCHANGED <<accessVars, cache, expired, objects, job, worker, mishaps>>

\* Its rows commit; a trigger that looked for caches in between has not seen this one.
BeginCache(p) ==
  /\ creator[p] = "begin"
  /\ cache' = [cache EXCEPT ![p] = "creating"]
  /\ job' = [job EXCEPT ![p] = Queued]
  /\ \E pc \in {"compose", "gone"} : CreatorGoto(p, pc)    \* gone: the reply was lost
  /\ UNCHANGED <<accessVars, expired, objects, worker, mishaps>>

\* getObjectBytes, composeWatermarkPage and putWatermark.
StorePage(p) ==
  /\ creator[p] = "compose"
  /\ \/ objects' = objects \cup {p} /\ CreatorGoto(p, "finish")
     \/ objects' \in {objects, objects \cup {p}} /\ CreatorGoto(p, "catch")
  /\ UNCHANGED <<accessVars, cache, expired, job, worker, mishaps>>

\* Slip: the state of the cache is not asked again.
SlipAnyState(p) == p \notin expired /\ MayPreview

Finishable(p) == cache[p] = "creating" /\ p \notin expired /\ MayPreview

\* finish_watermark_cache.  A session that does not resolve is answered false at once;
\* otherwise a cache that may not become active is condemned.
FinishCache(p) ==
  /\ creator[p] = "finish"
  /\ \/ /\ Finishable(p)
        /\ cache' = [cache EXCEPT ![p] = "active"]
        /\ \/ CreatorGoto(p, "gone") /\ UNCHANGED mishaps
           \/ CreatorGoto(p, "catch") /\ mishaps' = mishaps \cup {"reply"}
     \/ /\ ~Finishable(p)
        /\ cache' = IF session = "live" THEN Condemned({p}) ELSE cache
        /\ CreatorGoto(p, "refused")
        /\ UNCHANGED mishaps
     \/ cache' = cache /\ CreatorGoto(p, "catch") /\ UNCHANGED mishaps
  /\ UNCHANGED <<accessVars, expired, objects, job, worker>>

\* A refused page is deleted, and deleted once more by the catch block it throws into.
DiscardPage(p) ==
  /\ creator[p] \in {"refused", "catch"}
  /\ \/ objects' = objects \ {p} /\ UNCHANGED mishaps
     \/ objects' = objects /\ mishaps' = mishaps \cup {"web"}
  /\ CreatorGoto(p, IF creator[p] = "refused" THEN "catch" ELSE "gone")
  /\ UNCHANGED <<accessVars, cache, expired, job, worker>>

WebDies(p) ==
  /\ creator[p] \notin {"idle", "gone"}
  /\ CreatorGoto(p, "gone") /\ mishaps' = mishaps \cup {"web"}
  /\ UNCHANGED <<accessVars, cache, expired, objects, job, worker>>

-----------------------------------------------------------------------------
(* What ends access.                                                        *)

\* Slip: the trigger overlooks caches that are active already.
SlipCreatingOnly ==
  [p \in Page |-> IF cache[p] = "creating" THEN "deletion_pending" ELSE cache[p]]

AllCondemned == Condemned(Page)

\* session.state, viewer.state: the session never comes back.
RevokeSession ==
  /\ session \in {"live", "idle"}
  /\ session' = "revoked" /\ cache' = AllCondemned
  /\ UNCHANGED <<access, expired, objects, creator, job, worker, mishaps>>

\* A grant or a membership is revoked and nothing else admits the viewer.
RevokeGrant ==
  /\ access
  /\ access' = FALSE /\ cache' = AllCondemned
  /\ UNCHANGED <<session, expired, objects, creator, job, worker, mishaps>>

\* A grant expires, the entry goes to the trash, the room is archived: no trigger fires.
LoseAccess ==
  /\ access
  /\ access' = FALSE
  /\ UNCHANGED <<session, cache, expired, objects, creator, job, worker, mishaps>>

RegainAccess ==
  /\ ~access
  /\ access' = TRUE
  /\ UNCHANGED <<session, cache, expired, objects, creator, job, worker, mishaps>>

SessionIdles ==
  /\ session = "live"
  /\ session' = "idle"
  /\ UNCHANGED <<access, cache, expired, objects, creator, job, worker, mishaps>>

\* Twenty-four hours after begin_watermark_cache.
Expire(p) ==
  /\ cache[p] # "none" /\ p \notin expired
  /\ expired' = expired \cup {p}
  /\ UNCHANGED <<accessVars, cache, objects, creator, job, worker, mishaps>>

\* authorize_watermark_delivery of a page its viewer may not read any more.
RefuseDelivery(p) ==
  /\ session = "live" /\ cache[p] \in Live
  /\ ~(cache[p] = "active" /\ p \notin expired /\ access)
  /\ cache' = Condemned({p})
  /\ UNCHANGED <<accessVars, expired, objects, creator, job, worker, mishaps>>

\* Slip: any cache that is not being made or shown lets its session go.
SlipPending(p) == cache[p] \in {"none", "deletion_pending", "deleted"}

Forgettable(p) == cache[p] \in {"none", "deleted"}

\* purge_ended_sign_in, thirty days after the session ended: by then no request of it is
\* in flight.  The cache rows go with the session.
PurgeSession ==
  /\ session \in {"idle", "revoked"}
  /\ \A p \in Page : Forgettable(p) /\ creator[p] \in {"idle", "gone"}
  /\ session' = "purged" /\ cache' = [p \in Page |-> "none"]
  /\ UNCHANGED <<access, expired, objects, creator, job, worker, mishaps>>

AccessStep ==
  \/ RevokeSession \/ RevokeGrant \/ LoseAccess \/ RegainAccess \/ SessionIdles \/ PurgeSession

-----------------------------------------------------------------------------
(* jobs/watermark-cleanup.ts.                                               *)

Holds(p, a) == HeldBy(job[p], a)
WorkerGoto(p, a, pc) == worker' = [worker EXCEPT ![p][a] = pc]

\* Slip: the job is not due before the cache is condemned.
SlipNotAtExpiry(p) == cache[p] \in {"deletion_pending", "deleted"}

\* Due at expires_at, or at once for a cache that was condemned.
Due(p) == p \in expired \/ cache[p] \in {"deletion_pending", "deleted"}

ClaimDeletion(p) ==
  /\ job[p].stage = "queued" => Due(p)
  /\ CanClaim(job[p], DeleteAttempts)
  /\ job' = [job EXCEPT ![p] = Claimed(@)]
  /\ WorkerGoto(p, job[p].attempts + 1, "claimed")
  /\ UNCHANGED <<accessVars, cache, expired, objects, creator, mishaps>>

Deletable(p) ==
  \/ cache[p] = "deletion_pending"
  \/ cache[p] \in Live /\ p \in expired

BeginDeletion(p, a) ==
  /\ worker[p][a] = "claimed"
  /\ \/ /\ Holds(p, a) /\ Deletable(p)
        /\ cache' = Condemned({p})
        /\ \E pc \in {"assert", "throw"} : WorkerGoto(p, a, pc)
     \/ cache' = cache /\ WorkerGoto(p, a, "throw")
  /\ UNCHANGED <<accessVars, expired, objects, creator, job, mishaps>>

\* JOB_LEASE_LOST is not settled by the runner: the lease runs out.
AssertLease(p, a) ==
  /\ worker[p][a] = "assert"
  /\ \/ Holds(p, a) /\ WorkerGoto(p, a, "delete")
     \/ ~Holds(p, a) /\ WorkerGoto(p, a, "gone")
     \/ WorkerGoto(p, a, "throw")
  /\ UNCHANGED <<accessVars, cache, expired, objects, creator, job, mishaps>>

DeletePage(p, a) ==
  /\ worker[p][a] = "delete"
  /\ \/ objects' = objects \ {p} /\ WorkerGoto(p, a, "finish")
     \/ objects' \in {objects, objects \ {p}} /\ WorkerGoto(p, a, "throw")
  /\ UNCHANGED <<accessVars, cache, expired, creator, job, mishaps>>

FinishDeletion(p, a) ==
  /\ worker[p][a] = "finish"
  /\ \/ /\ Holds(p, a) /\ cache[p] = "deletion_pending"
        /\ cache' = [cache EXCEPT ![p] = "deleted"]
        /\ \E pc \in {"return", "throw"} : WorkerGoto(p, a, pc)
     \/ cache' = cache /\ WorkerGoto(p, a, "throw")
  /\ UNCHANGED <<accessVars, expired, objects, creator, job, mishaps>>

SettleDeletion(p, a) ==
  /\ worker[p][a] \in {"return", "throw"}
  /\ job' = [job EXCEPT ![p] = IF ~Holds(p, a) THEN @
                               ELSE IF worker[p][a] = "return" THEN Completed(@)
                               ELSE GivenBack(@, DeleteAttempts)]
  /\ WorkerGoto(p, a, "gone")
  /\ UNCHANGED <<accessVars, cache, expired, objects, creator, mishaps>>

LoseLease(p) ==
  /\ job[p].live # 0
  /\ job' = [job EXCEPT ![p] = Lapsed(@)]
  /\ UNCHANGED <<accessVars, cache, expired, objects, creator, worker, mishaps>>

WorkerDies(p, a) ==
  /\ worker[p][a] # "gone"
  /\ WorkerGoto(p, a, "gone")
  /\ UNCHANGED <<accessVars, cache, expired, objects, creator, job, mishaps>>

ExhaustDeletion(p) ==
  /\ Spent(job[p], DeleteAttempts)
  /\ job' = [job EXCEPT ![p] = Buried(@)]
  /\ UNCHANGED <<accessVars, cache, expired, objects, creator, worker, mishaps>>

DeleteStep(p, a) ==
  \/ BeginDeletion(p, a) \/ AssertLease(p, a) \/ DeletePage(p, a) \/ FinishDeletion(p, a)
  \/ SettleDeletion(p, a)

\* What the workers and the database do about p without a mishap.
WorkerStep(p) ==
  \/ ClaimDeletion(p) \/ ExhaustDeletion(p)
  \/ job[p].live # 0 /\ worker[p][job[p].live] = "gone" /\ LoseLease(p)
  \/ \E a \in DeleteRun : DeleteStep(p, a)

-----------------------------------------------------------------------------
CreateStep(p) ==
  CheckAccess(p) \/ BeginCache(p) \/ StorePage(p) \/ FinishCache(p) \/ DiscardPage(p)

PageStep(p) ==
  \/ CreateStep(p) \/ WebDies(p) \/ Expire(p) \/ RefuseDelivery(p)
  \/ ClaimDeletion(p) \/ LoseLease(p) \/ ExhaustDeletion(p)
  \/ \E a \in DeleteRun : DeleteStep(p, a) \/ WorkerDies(p, a)

Next == AccessStep \/ \E p \in Page : PageStep(p)

Spec == Init /\ [][Next]_vars

(* A day and thirty days pass, a request ends, workers keep claiming, a       *)
(* handler that runs makes progress and the lease of a dead one runs out.    *)
(* The viewer and the members owe nothing.                                   *)
Fairness ==
  /\ WF_vars(PurgeSession)
  /\ \A p \in Page :
       /\ WF_vars(Expire(p)) /\ WF_vars(creator[p] # "idle" /\ CreateStep(p))
       /\ WF_vars(WorkerStep(p))

FairSpec == Spec /\ Fairness

-----------------------------------------------------------------------------
(* Properties.                                                              *)

\* An active cache is handed out again for the rest of its day (030:4-9), so its page is
\* in storage: the creator, the cleanup job and a revocation never leave one without it,
\* unless a lost reply made the creator delete what it had activated.
ActiveHasPage ==
  "reply" \notin mishaps => \A p \in Page : cache[p] = "active" => p \in objects

\* What 030:4-9 says without that exception.
ReuseFindsPage == \A p \in Page : cache[p] = "active" => p \in objects

\* Once the session is revoked none of its pages is active, whichever order the
\* revocation's triggers, a composition in flight and its activation take.
RevokedShowsNothing ==
  session \in {"revoked", "purged"} => \A p \in Page : cache[p] # "active"

\* A session is deleted only once each cached page object has been deleted from storage,
\* so no object is orphaned (042:22-26): revocation, composition and cleanup leave none in
\* whatever order they run, as long as the web process lives and its deletions succeed.
NothingOrphaned == "web" \notin mishaps /\ session = "purged" => objects = {}

\* A session that was revoked is forgotten in the end, unless a cleanup job of one of its
\* pages has used up its attempts: no cache that a revocation meets halfway is stuck.
Unsettled == session = "revoked" /\ \A p \in Page : job[p].stage # "failed"
=============================================================================
