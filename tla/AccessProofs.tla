----------------------------- MODULE AccessProofs -----------------------------
(***************************************************************************)
(* Theorems about what a viewer passes on the way to a page: the           *)
(* watermarked pages of a session, for any number of pages and of cleanup  *)
(* attempts; the grants of a room and their reviews, for any viewers,      *)
(* grants and assignment of the ones to the others; the sign-in, for any   *)
(* number of challenges, of requests on their way and of attempts.         *)
(***************************************************************************)
EXTENDS MCWatermarks, WorkRowsProofs

(* Watermarked pages.                                                       *)

CreatorPC == {"idle", "begin", "compose", "finish", "refused", "catch", "gone"}
WorkerPC == {"gone", "claimed", "assert", "delete", "finish", "return", "throw"}
CacheState == Live \cup {"none", "deletion_pending", "deleted"}

\* Condemning pages changes no cache but the live ones among them.
LEMMA CondemnedCaches ==
  ASSUME cache \in [Page -> CacheState], NEW P \in SUBSET Page
  PROVE  /\ Condemned(P) \in [Page -> CacheState]
         /\ \A q \in Page : Condemned(P)[q] = cache[q]
                            \/ (cache[q] \in Live /\ Condemned(P)[q] = "deletion_pending")
         /\ \A q \in P : Condemned(P)[q] \notin Live
BY DEF Condemned, CacheState, Live

LEMMA CreatorMoves ==
  ASSUME creator \in [Page -> CreatorPC], NEW p \in Page, NEW pc \in CreatorPC,
         CreatorGoto(p, pc)
  PROVE  /\ creator' \in [Page -> CreatorPC]
         /\ creator'[p] = pc
         /\ \A q \in Page \ {p} : creator'[q] = creator[q]
BY DEF CreatorGoto

LEMMA WorkerMoves ==
  ASSUME worker \in [Page -> [DeleteRun -> WorkerPC]], NEW p \in Page, NEW a \in DeleteRun,
         NEW pc \in WorkerPC, WorkerGoto(p, a, pc)
  PROVE  /\ worker' \in [Page -> [DeleteRun -> WorkerPC]]
         /\ worker'[p][a] = pc
         /\ \A b \in DeleteRun \ {a} : worker'[p][b] = worker[p][b]
         /\ \A q \in Page \ {p} : worker'[q] = worker[q]
BY DEF WorkerGoto

LEMMA InitTyped ==
  ASSUME WatermarkAssumption, Init
  PROVE  TypeOK
<1>1. job \in [Page -> Rows(DeleteAttempts)]
  BY RowsTyped DEF Init, WatermarkAssumption, Absent, Row, Columns, Rows
<1> QED BY <1>1 DEF Init, TypeOK

-----------------------------------------------------------------------------
(* What each step may do, as far as the invariants can tell.                *)

\* A step of p leaves every other page alone.
Elsewhere(p) ==
  \A q \in Page \ {p} :
    /\ cache'[q] = cache[q] /\ creator'[q] = creator[q] /\ job'[q] = job[q]
    /\ worker'[q] = worker[q]
    /\ q \in objects' <=> q \in objects

LEMMA CreateLocal ==
  ASSUME WatermarkAssumption, TypeOK, NEW p \in Page, CreateStep(p) \/ WebDies(p)
  PROVE  /\ TypeOK'
         /\ Elsewhere(p)
         /\ UNCHANGED <<session, worker>>
         /\ mishaps \subseteq mishaps'
<1> USE DEF TypeOK, accessVars
<1>1. \A pc \in CreatorPC : CreatorGoto(p, pc) =>
        /\ creator' \in [Page -> CreatorPC] /\ creator'[p] = pc
        /\ \A q \in Page \ {p} : creator'[q] = creator[q]
  BY CreatorMoves DEF CreatorPC
<1>2. \E pc \in CreatorPC : CreatorGoto(p, pc)
  BY DEF CreateStep, CheckAccess, BeginCache, StorePage, FinishCache, DiscardPage, WebDies,
         CreatorPC
<1>3. /\ creator' \in [Page -> CreatorPC]
      /\ \A q \in Page \ {p} : creator'[q] = creator[q]
  BY <1>1, <1>2
<1>4. /\ cache' \in [Page -> CacheState]
      /\ \A q \in Page \ {p} : cache'[q] = cache[q]
  <2>1. cache \in [Page -> CacheState]
    BY DEF CacheState
  <2>2. CASE FinishCache(p)
    <3>1. /\ Condemned({p}) \in [Page -> CacheState]
          /\ \A q \in Page \ {p} : Condemned({p})[q] = cache[q]
      BY <2>1 DEF Condemned, CacheState, Live
    <3>2. cache' \in {cache, Condemned({p}), [cache EXCEPT ![p] = "active"]}
      BY <2>2 DEF FinishCache
    <3> QED BY <2>1, <3>1, <3>2 DEF CacheState, Live
  <2>3. CASE BeginCache(p)
    BY <2>1, <2>3 DEF BeginCache, CacheState, Live
  <2> QED BY <2>1, <2>2, <2>3 DEF CreateStep, CheckAccess, StorePage, DiscardPage, WebDies
<1>5. /\ job' \in [Page -> Rows(DeleteAttempts)]
      /\ \A q \in Page \ {p} : job'[q] = job[q]
  <2>1. Queued \in Rows(DeleteAttempts)
    BY RowsTyped DEF WatermarkAssumption, Absent, Row, Columns, Rows
  <2>2. job' = job \/ job' = [job EXCEPT ![p] = Queued]
    BY DEF CreateStep, CheckAccess, BeginCache, StorePage, FinishCache, DiscardPage, WebDies
  <2> QED BY <2>1, <2>2
<1>6. /\ objects' \in SUBSET Page
      /\ \A q \in Page \ {p} : q \in objects' <=> q \in objects
  BY DEF CreateStep, CheckAccess, BeginCache, StorePage, FinishCache, DiscardPage, WebDies
<1>7. mishaps' \in SUBSET {"reply", "web"} /\ mishaps \subseteq mishaps'
  <2>1. \/ mishaps' = mishaps \/ mishaps' = mishaps \cup {"reply"}
        \/ mishaps' = mishaps \cup {"web"}
    BY DEF CreateStep, CheckAccess, BeginCache, StorePage, FinishCache, DiscardPage, WebDies
  <2> QED BY <2>1
<1>8. UNCHANGED <<session, access, expired, worker>>
  BY DEF CreateStep, CheckAccess, BeginCache, StorePage, FinishCache, DiscardPage, WebDies
<1> QED BY <1>3, <1>4, <1>5, <1>6, <1>7, <1>8 DEF Elsewhere, CreatorPC, CacheState

LEMMA DeleteLocal ==
  ASSUME WatermarkAssumption, TypeOK, NEW p \in Page,
         \/ ClaimDeletion(p) \/ LoseLease(p) \/ ExhaustDeletion(p)
         \/ \E a \in DeleteRun : DeleteStep(p, a) \/ WorkerDies(p, a)
  PROVE  /\ TypeOK'
         /\ Elsewhere(p)
         /\ UNCHANGED <<session, creator, mishaps>>
<1> USE DEF TypeOK, accessVars
<1>1. /\ job' \in [Page -> Rows(DeleteAttempts)]
      /\ \A q \in Page \ {p} : job'[q] = job[q]
  BY RowsTyped DEF WatermarkAssumption, ClaimDeletion, LoseLease, ExhaustDeletion, DeleteStep,
     BeginDeletion, AssertLease, DeletePage, FinishDeletion, SettleDeletion, WorkerDies
<1>2. \/ worker' = worker
      \/ \E a \in DeleteRun, pc \in WorkerPC : WorkerGoto(p, a, pc)
  <2>1. CASE ClaimDeletion(p)
    <3>1. job[p].attempts + 1 \in DeleteRun
      BY <2>1, RowsTyped DEF ClaimDeletion, WatermarkAssumption, DeleteRun
    <3> QED BY <2>1, <3>1 DEF ClaimDeletion, WorkerPC
  <2> QED BY <2>1 DEF LoseLease, ExhaustDeletion, DeleteStep, BeginDeletion, AssertLease,
          DeletePage, FinishDeletion, SettleDeletion, WorkerDies, WorkerPC
<1>3. /\ worker' \in [Page -> [DeleteRun -> WorkerPC]]
      /\ \A q \in Page \ {p} : worker'[q] = worker[q]
  BY <1>2, WorkerMoves DEF WorkerPC
<1>4. /\ cache' \in [Page -> CacheState]
      /\ \A q \in Page \ {p} : cache'[q] = cache[q]
  <2>1. cache \in [Page -> CacheState]
    BY DEF CacheState
  <2>2. /\ Condemned({p}) \in [Page -> CacheState]
        /\ \A q \in Page \ {p} : Condemned({p})[q] = cache[q]
    BY <2>1 DEF Condemned, CacheState, Live
  <2>3. cache' \in {cache, Condemned({p}), [cache EXCEPT ![p] = "deleted"]}
    BY DEF ClaimDeletion, LoseLease, ExhaustDeletion, DeleteStep, BeginDeletion, AssertLease,
       DeletePage, FinishDeletion, SettleDeletion, WorkerDies
  <2> QED BY <2>1, <2>2, <2>3 DEF CacheState
<1>5. /\ objects' \in SUBSET Page
      /\ \A q \in Page \ {p} : q \in objects' <=> q \in objects
  BY DEF ClaimDeletion, LoseLease, ExhaustDeletion, DeleteStep, BeginDeletion, AssertLease,
     DeletePage, FinishDeletion, SettleDeletion, WorkerDies
<1>6. UNCHANGED <<session, access, expired, creator, mishaps>>
  BY DEF ClaimDeletion, LoseLease, ExhaustDeletion, DeleteStep, BeginDeletion, AssertLease,
     DeletePage, FinishDeletion, SettleDeletion, WorkerDies
<1> QED BY <1>1, <1>3, <1>4, <1>5, <1>6 DEF Elsewhere, WorkerPC, CacheState

\* What ends access, the day that passes and the refusal of a delivery.
LEMMA AccessTyped ==
  ASSUME TypeOK, AccessStep \/ \E p \in Page : Expire(p) \/ RefuseDelivery(p)
  PROVE  /\ TypeOK'
         /\ UNCHANGED <<objects, creator, job, worker, mishaps>>
<1> USE DEF TypeOK, accessVars
<1>1. cache \in [Page -> CacheState]
  BY DEF CacheState
<1>2. \A P \in SUBSET Page : Condemned(P) \in [Page -> CacheState]
  BY <1>1, CondemnedCaches
<1>3. cache' \in [Page -> CacheState]
  <2>1. CASE PurgeSession
    BY <2>1 DEF PurgeSession, CacheState
  <2>2. cache' = cache \/ (\E P \in SUBSET Page : cache' = Condemned(P)) \/ PurgeSession
    BY DEF AccessStep, RevokeSession, RevokeGrant, LoseAccess, RegainAccess, SessionIdles,
       AllCondemned, Expire, RefuseDelivery
  <2> QED BY <1>1, <1>2, <2>1, <2>2
<1>4. /\ session' \in {"live", "idle", "revoked", "purged"} /\ access' \in BOOLEAN
      /\ UNCHANGED <<objects, creator, job, worker, mishaps>>
  BY DEF AccessStep, RevokeSession, RevokeGrant, LoseAccess, RegainAccess, SessionIdles,
     PurgeSession, Expire, RefuseDelivery
<1>5. expired' \in SUBSET Page
  BY DEF AccessStep, RevokeSession, RevokeGrant, LoseAccess, RegainAccess, SessionIdles,
     PurgeSession, Expire, RefuseDelivery
<1> QED BY <1>3, <1>4, <1>5 DEF CacheState

LEMMA StepTyped ==
  ASSUME WatermarkAssumption, TypeOK, [Next]_vars
  PROVE  TypeOK'
<1>1. CASE UNCHANGED vars
  BY <1>1 DEF vars, TypeOK
<1>2. CASE Next
  BY <1>2, CreateLocal, DeleteLocal, AccessTyped DEF Next, PageStep
<1> QED BY <1>1, <1>2

\* Every reachable state of a session's pages is well typed.
THEOREM WatermarkTypeCorrect == ASSUME WatermarkAssumption PROVE Spec => []TypeOK
BY InitTyped, StepTyped, PTL DEF Spec

-----------------------------------------------------------------------------
(* Who stands where while a cache is live.                                  *)

\* Nothing of a page exists before its cache row; a cleanup that has begun has taken its
\* cache out of the live states for good; the creator is at its activation only with the
\* page stored, and until it has gone it has activated nothing whose reply it knows of.
PageInv(p) ==
  /\ creator[p] \in {"idle", "begin"} =>
       cache[p] = "none" /\ job[p] = Absent /\ \A a \in DeleteRun : worker[p][a] = "gone"
  /\ \A a \in DeleteRun : worker[p][a] \in {"assert", "delete", "finish"} => cache[p] \notin Live
  /\ creator[p] = "finish" /\ cache[p] \in Live => p \in objects
  /\ creator[p] # "gone" /\ "reply" \notin mishaps => cache[p] # "active"
  /\ cache[p] = "active" /\ "reply" \notin mishaps => p \in objects

\* What is in storage when nobody in the web process will see to it any more.
OrphanInv(p) ==
  "web" \notin mishaps =>
    /\ creator[p] \in {"idle", "begin"} => p \notin objects
    /\ creator[p] = "gone" /\ cache[p] \in {"none", "deleted"} => p \notin objects
    /\ \A a \in DeleteRun : creator[p] = "gone" /\ worker[p][a] = "finish" => p \notin objects

\* Nothing comes back after the purge, nor is shown after the revocation.
SessionInv ==
  /\ session = "purged" =>
       \A p \in Page : cache[p] = "none" /\ creator[p] \in {"idle", "gone"}
  /\ session = "revoked" => \A p \in Page : cache[p] # "active"

CacheInv == SessionInv /\ \A p \in Page : PageInv(p) /\ OrphanInv(p)

LEMMA InitCaches == Init => CacheInv
BY DEF Init, CacheInv, SessionInv, PageInv, OrphanInv, Live

\* A page that a step leaves alone keeps its invariants.
LEMMA ElsewhereKept ==
  ASSUME CacheInv, NEW p \in Page, Elsewhere(p), mishaps \subseteq mishaps',
         NEW q \in Page \ {p}
  PROVE  PageInv(q)' /\ OrphanInv(q)'
<1>1. PageInv(q) /\ OrphanInv(q)
  BY DEF CacheInv
<1>2. /\ cache'[q] = cache[q] /\ creator'[q] = creator[q] /\ job'[q] = job[q]
      /\ worker'[q] = worker[q]
      /\ q \in objects' <=> q \in objects
  BY DEF Elsewhere
<1>3. PageInv(q)'
  BY <1>1, <1>2 DEF PageInv
<1>4. OrphanInv(q)'
  BY <1>1, <1>2 DEF OrphanInv
<1> QED BY <1>3, <1>4

LEMMA CreateKeeps ==
  ASSUME WatermarkAssumption, TypeOK, CacheInv, NEW p \in Page, CreateStep(p) \/ WebDies(p)
  PROVE  CacheInv'
<1> USE DEF accessVars
<1>1. /\ Elsewhere(p) /\ UNCHANGED <<session, worker>> /\ mishaps \subseteq mishaps'
  BY CreateLocal
<1>2. /\ cache \in [Page -> CacheState] /\ PageInv(p) /\ OrphanInv(p) /\ SessionInv
      /\ creator \in [Page -> CreatorPC]
  BY DEF TypeOK, CacheInv, CacheState, CreatorPC
<1>3. \A pc \in CreatorPC : CreatorGoto(p, pc) => creator'[p] = pc
  BY <1>2, CreatorMoves
<1>4. /\ Condemned({p})[p] = cache[p] \/ Condemned({p})[p] = "deletion_pending"
      /\ Condemned({p})[p] \notin Live
  BY <1>2, CondemnedCaches
<1>5. CASE CheckAccess(p)
  <2>1. creator'[p] = "begin" /\ creator[p] = "idle" /\ session = "live"
        /\ UNCHANGED <<cache, objects, job, mishaps>>
    BY <1>3, <1>5 DEF CheckAccess, CreatorPC, MayPreview
  <2>2. PageInv(p)' /\ OrphanInv(p)'
    BY <1>1, <1>2, <2>1 DEF PageInv, OrphanInv
  <2>3. SessionInv'
    BY <1>1, <2>1 DEF SessionInv
  <2> QED BY <1>1, <2>2, <2>3, ElsewhereKept DEF CacheInv
<1>6. CASE BeginCache(p)
  <2>1. /\ creator[p] = "begin" /\ creator'[p] \in {"compose", "gone"} /\ cache'[p] = "creating"
        /\ UNCHANGED <<objects, mishaps>>
    BY <1>2, <1>3, <1>6 DEF BeginCache, CreatorPC
  <2>2. PageInv(p)' /\ OrphanInv(p)'
    BY <1>1, <1>2, <2>1 DEF PageInv, OrphanInv, Live
  <2>3. SessionInv'
    BY <1>1, <1>2, <2>1 DEF SessionInv, Elsewhere
  <2> QED BY <1>1, <2>2, <2>3, ElsewhereKept DEF CacheInv
<1>7. CASE StorePage(p)
  <2>1. /\ creator[p] = "compose" /\ creator'[p] \in {"finish", "catch"}
        /\ creator'[p] = "finish" => p \in objects'
        /\ p \in objects => p \in objects'
        /\ UNCHANGED <<cache, job, mishaps>>
    BY <1>3, <1>7 DEF StorePage, CreatorPC
  <2>2. PageInv(p)' /\ OrphanInv(p)'
    BY <1>1, <1>2, <2>1 DEF PageInv, OrphanInv
  <2>3. SessionInv'
    BY <1>1, <1>2, <2>1 DEF SessionInv
  <2> QED BY <1>1, <2>2, <2>3, ElsewhereKept DEF CacheInv
<1>8. CASE FinishCache(p)
  <2>0. creator[p] = "finish" /\ UNCHANGED <<objects, job>>
    BY <1>8 DEF FinishCache
  <2>1. CASE Finishable(p) /\ cache' = [cache EXCEPT ![p] = "active"]
             /\ (CreatorGoto(p, "gone") \/ (CreatorGoto(p, "catch") /\ "reply" \in mishaps'))
    <3>1. /\ cache'[p] = "active" /\ cache[p] = "creating" /\ session = "live"
          /\ creator'[p] = "gone" \/ (creator'[p] = "catch" /\ "reply" \in mishaps')
      BY <1>2, <1>3, <2>1 DEF Finishable, MayPreview, CreatorPC
    <3>2. PageInv(p)' /\ OrphanInv(p)'
      BY <1>1, <1>2, <2>0, <3>1 DEF PageInv, OrphanInv, Live
    <3>3. SessionInv'
      BY <1>1, <3>1 DEF SessionInv
    <3> QED BY <1>1, <3>2, <3>3, ElsewhereKept DEF CacheInv
  <2>2. CASE /\ cache' \in {cache, Condemned({p})} /\ mishaps' = mishaps
             /\ CreatorGoto(p, "refused") \/ CreatorGoto(p, "catch")
    <3>1. /\ creator'[p] \in {"refused", "catch"}
          /\ cache'[p] = cache[p] \/ cache'[p] = "deletion_pending"
      BY <1>3, <1>4, <2>2 DEF CreatorPC
    <3>2. PageInv(p)' /\ OrphanInv(p)'
      BY <1>1, <1>2, <2>0, <2>2, <3>1 DEF PageInv, OrphanInv, Live
    <3>3. SessionInv'
      BY <1>1, <1>2, <2>0, <3>1 DEF SessionInv, Elsewhere
    <3> QED BY <1>1, <3>2, <3>3, ElsewhereKept DEF CacheInv
  <2> QED BY <1>8, <2>1, <2>2 DEF FinishCache
<1>9. CASE DiscardPage(p)
  <2>1. /\ creator[p] \in {"refused", "catch"} /\ creator'[p] \in {"catch", "gone"}
        /\ p \notin objects' \/ ("web" \in mishaps' /\ objects' = objects)
        /\ UNCHANGED <<cache, job>>
    BY <1>3, <1>9 DEF DiscardPage, CreatorPC
  <2>2. PageInv(p)' /\ OrphanInv(p)'
    BY <1>1, <1>2, <2>1 DEF PageInv, OrphanInv
  <2>3. SessionInv'
    BY <1>1, <1>2, <2>1 DEF SessionInv
  <2> QED BY <1>1, <2>2, <2>3, ElsewhereKept DEF CacheInv
<1>10. CASE WebDies(p)
  <2>1. /\ creator'[p] = "gone" /\ "web" \in mishaps' /\ UNCHANGED <<cache, job, objects>>
    BY <1>3, <1>10 DEF WebDies, CreatorPC
  <2>2. PageInv(p)' /\ OrphanInv(p)'
    BY <1>1, <1>2, <2>1 DEF PageInv, OrphanInv
  <2>3. SessionInv'
    BY <1>1, <1>2, <2>1 DEF SessionInv, Elsewhere
  <2> QED BY <1>1, <2>2, <2>3, ElsewhereKept DEF CacheInv
<1> QED BY <1>5, <1>6, <1>7, <1>8, <1>9, <1>10 DEF CreateStep

LEMMA DeleteKeeps ==
  ASSUME WatermarkAssumption, TypeOK, CacheInv, NEW p \in Page,
         \/ ClaimDeletion(p) \/ LoseLease(p) \/ ExhaustDeletion(p)
         \/ \E a \in DeleteRun : DeleteStep(p, a) \/ WorkerDies(p, a)
  PROVE  CacheInv'
<1> USE DEF accessVars
<1>1. /\ Elsewhere(p) /\ UNCHANGED <<session, creator, mishaps>>
  BY DeleteLocal
<1>2. /\ cache \in [Page -> CacheState] /\ PageInv(p) /\ OrphanInv(p) /\ SessionInv
      /\ worker \in [Page -> [DeleteRun -> WorkerPC]]
      /\ job[p] \in Rows(DeleteAttempts)
  BY DEF TypeOK, CacheInv, CacheState, WorkerPC
<1>3. /\ Condemned({p})[p] = cache[p] \/ Condemned({p})[p] = "deletion_pending"
      /\ Condemned({p})[p] \notin Live
  BY <1>2, CondemnedCaches
<1>4. \A a \in DeleteRun, pc \in WorkerPC : WorkerGoto(p, a, pc) =>
        worker'[p][a] = pc /\ \A b \in DeleteRun \ {a} : worker'[p][b] = worker[p][b]
  BY <1>2, WorkerMoves
<1>5. ASSUME PageInv(p)', OrphanInv(p)', cache'[p] = cache[p] \/ cache[p] \in Live
                                        \/ cache[p] = "deletion_pending",
             cache'[p] # "active" \/ cache[p] = "active"
      PROVE  CacheInv'
  <2>1. SessionInv'
    BY <1>1, <1>2, <1>5 DEF SessionInv, Elsewhere, Live
  <2> QED BY <1>1, <1>5, <2>1, ElsewhereKept DEF CacheInv
<1>6. CASE ClaimDeletion(p)
  <2>1. job[p].attempts + 1 \in DeleteRun /\ job[p].stage # "absent"
    BY <1>2, <1>6, RowsTyped DEF ClaimDeletion, WatermarkAssumption, DeleteRun, CanClaim
  <2>2. /\ creator[p] \notin {"idle", "begin"}
        /\ \A b \in DeleteRun : worker'[p][b] \in {worker[p][b], "claimed"}
        /\ UNCHANGED <<cache, objects>>
    BY <1>2, <1>4, <1>6, <2>1 DEF ClaimDeletion, PageInv, WorkerPC, Absent, Row, Columns
  <2>3. PageInv(p)' /\ OrphanInv(p)'
    BY <1>1, <1>2, <2>2 DEF PageInv, OrphanInv
  <2> QED BY <1>5, <2>2, <2>3
<1>7. CASE LoseLease(p) \/ ExhaustDeletion(p)
  <2>1. /\ creator[p] \notin {"idle", "begin"} /\ UNCHANGED <<cache, objects, worker>>
    BY <1>2, <1>7 DEF LoseLease, ExhaustDeletion, Spent, PageInv, Absent, Row, Columns
  <2>2. PageInv(p)' /\ OrphanInv(p)'
    BY <1>1, <1>2, <2>1 DEF PageInv, OrphanInv
  <2> QED BY <1>5, <2>1, <2>2
<1>8. ASSUME NEW a \in DeleteRun, DeleteStep(p, a) \/ WorkerDies(p, a)
      PROVE  CacheInv'
  <2>1. worker[p][a] # "gone" /\ creator[p] \notin {"idle", "begin"}
    BY <1>2, <1>8 DEF DeleteStep, BeginDeletion, AssertLease, DeletePage, FinishDeletion,
       SettleDeletion, WorkerDies, PageInv
  <2>2. CASE BeginDeletion(p, a)
    <3>1. \/ /\ cache[p] \in Live \cup {"deletion_pending"} /\ cache' = Condemned({p})
             /\ worker'[p][a] \in {"assert", "throw"}
          \/ cache' = cache /\ worker'[p][a] = "throw"
      BY <1>4, <2>2 DEF BeginDeletion, Deletable, WorkerPC
    <3>2. objects' = objects /\ \A b \in DeleteRun \ {a} : worker'[p][b] = worker[p][b]
      BY <1>4, <2>2 DEF BeginDeletion, WorkerPC
    <3>3. /\ cache'[p] = cache[p] \/ cache[p] \in Live \/ cache[p] = "deletion_pending"
          /\ cache'[p] # "active" \/ cache[p] = "active"
          /\ cache'[p] \in {cache[p], "deletion_pending"}
          /\ worker'[p][a] = "assert" => cache'[p] \notin Live
          /\ worker'[p][a] \in {"assert", "throw"}
      BY <1>3, <3>1
    <3>4. PageInv(p)' /\ OrphanInv(p)'
      BY <1>1, <1>2, <2>1, <3>2, <3>3 DEF PageInv, OrphanInv, Live
    <3> QED BY <1>5, <3>3, <3>4
  <2>3. CASE AssertLease(p, a)
    <3>1. /\ worker[p][a] = "assert" /\ worker'[p][a] \in {"delete", "gone", "throw"}
          /\ UNCHANGED <<cache, objects>>
          /\ \A b \in DeleteRun \ {a} : worker'[p][b] = worker[p][b]
      BY <1>4, <2>3 DEF AssertLease, WorkerPC
    <3>2. PageInv(p)' /\ OrphanInv(p)'
      BY <1>1, <1>2, <2>1, <3>1 DEF PageInv, OrphanInv
    <3> QED BY <1>5, <3>1, <3>2
  <2>4. CASE DeletePage(p, a)
    <3>1. /\ worker[p][a] = "delete" /\ worker'[p][a] \in {"finish", "throw"} /\ cache' = cache
          /\ worker'[p][a] = "finish" => p \notin objects'
          /\ p \in objects' => p \in objects
          /\ \A b \in DeleteRun \ {a} : worker'[p][b] = worker[p][b]
      BY <1>4, <2>4 DEF DeletePage, WorkerPC
    <3>2. PageInv(p)' /\ OrphanInv(p)'
      BY <1>1, <1>2, <2>1, <3>1 DEF PageInv, OrphanInv, Live
    <3> QED BY <1>5, <3>1, <3>2
  <2>5. CASE FinishDeletion(p, a)
    <3>1. /\ worker[p][a] = "finish" /\ worker'[p][a] \in {"return", "throw"}
          /\ objects' = objects
          /\ \/ cache[p] = "deletion_pending" /\ cache'[p] = "deleted"
             \/ cache'[p] = cache[p]
          /\ \A b \in DeleteRun \ {a} : worker'[p][b] = worker[p][b]
      BY <1>2, <1>4, <2>5 DEF FinishDeletion, WorkerPC
    <3>2. PageInv(p)' /\ OrphanInv(p)'
      BY <1>1, <1>2, <2>1, <3>1 DEF PageInv, OrphanInv, Live
    <3> QED BY <1>5, <3>1, <3>2
  <2>6. CASE SettleDeletion(p, a) \/ WorkerDies(p, a)
    <3>1. /\ worker'[p][a] = "gone" /\ UNCHANGED <<cache, objects>>
          /\ \A b \in DeleteRun \ {a} : worker'[p][b] = worker[p][b]
      BY <1>4, <2>6 DEF SettleDeletion, WorkerDies, WorkerPC
    <3>2. PageInv(p)' /\ OrphanInv(p)'
      BY <1>1, <1>2, <2>1, <3>1 DEF PageInv, OrphanInv
    <3> QED BY <1>5, <3>1, <3>2
  <2> QED BY <1>8, <2>2, <2>3, <2>4, <2>5, <2>6 DEF DeleteStep
<1> QED BY <1>6, <1>7, <1>8

LEMMA AccessKeeps ==
  ASSUME TypeOK, CacheInv, AccessStep \/ \E p \in Page : Expire(p) \/ RefuseDelivery(p)
  PROVE  CacheInv'
<1> USE DEF accessVars
<1>1. UNCHANGED <<objects, creator, job, worker, mishaps>>
  BY AccessTyped
<1>2. cache \in [Page -> CacheState] /\ SessionInv
  BY DEF TypeOK, CacheInv, CacheState
<1>3. ASSUME NEW p \in Page,
             cache'[p] = cache[p] \/ (cache[p] \in Live /\ cache'[p] = "deletion_pending")
      PROVE  PageInv(p)' /\ OrphanInv(p)'
  <2>1. PageInv(p) /\ OrphanInv(p)
    BY DEF CacheInv
  <2> QED BY <1>1, <1>3, <2>1 DEF PageInv, OrphanInv, Live
<1>4. CASE RevokeSession \/ RevokeGrant \/ \E p \in Page : RefuseDelivery(p)
  <2>1. PICK P \in SUBSET Page :
          /\ cache' = Condemned(P) /\ (RevokeSession => P = Page)
    BY <1>4 DEF RevokeSession, RevokeGrant, RefuseDelivery, AllCondemned
  <2>2. \A p \in Page : cache'[p] = cache[p]
                         \/ (cache[p] \in Live /\ cache'[p] = "deletion_pending")
    BY <1>2, <2>1, CondemnedCaches
  <2>3. RevokeSession => \A p \in Page : cache'[p] \notin Live
    BY <1>2, <2>1, CondemnedCaches
  <2>4. session' = session \/ (RevokeSession /\ session' = "revoked")
    BY <1>4 DEF RevokeSession, RevokeGrant, RefuseDelivery
  <2>5. SessionInv'
    BY <1>1, <1>2, <2>2, <2>3, <2>4 DEF SessionInv, Live
  <2> QED BY <1>3, <2>2, <2>5 DEF CacheInv
<1>5. CASE LoseAccess \/ RegainAccess \/ SessionIdles \/ \E p \in Page : Expire(p)
  <2>1. cache' = cache /\ session' \in {session, "idle"}
    BY <1>5 DEF LoseAccess, RegainAccess, SessionIdles, Expire
  <2>2. SessionInv'
    BY <1>1, <1>2, <2>1 DEF SessionInv
  <2> QED BY <1>3, <2>1, <2>2 DEF CacheInv
<1>6. CASE PurgeSession
  <2>1. /\ session' = "purged"
        /\ \A p \in Page : /\ cache[p] \in {"none", "deleted"} /\ cache'[p] = "none"
                            /\ creator[p] \in {"idle", "gone"}
    BY <1>6 DEF PurgeSession, Forgettable
  <2>2. SessionInv'
    BY <1>1, <2>1 DEF SessionInv
  <2>3. ASSUME NEW p \in Page
        PROVE  PageInv(p)' /\ OrphanInv(p)'
    <3>1. PageInv(p) /\ OrphanInv(p)
      BY DEF CacheInv
    <3> QED BY <1>1, <2>1, <3>1 DEF PageInv, OrphanInv, Live
  <2> QED BY <2>2, <2>3 DEF CacheInv
<1> QED BY <1>4, <1>5, <1>6 DEF AccessStep

LEMMA StepKeeps ==
  ASSUME WatermarkAssumption, TypeOK, CacheInv, [Next]_vars
  PROVE  CacheInv'
<1>1. CASE UNCHANGED vars
  BY <1>1 DEF vars, CacheInv, SessionInv, PageInv, OrphanInv
<1>2. CASE Next
  BY <1>2, CreateKeeps, DeleteKeeps, AccessKeeps DEF Next, PageStep
<1> QED BY <1>1, <1>2

LEMMA CachesKept == ASSUME WatermarkAssumption PROVE Spec => [](TypeOK /\ CacheInv)
<1>1. Init => TypeOK /\ CacheInv
  BY InitTyped, InitCaches
<1>2. TypeOK /\ CacheInv /\ [Next]_vars => TypeOK' /\ CacheInv'
  BY StepTyped, StepKeeps
<1> QED BY <1>1, <1>2, PTL DEF Spec

\* An active cache has its page in storage, however composition, cleanup, revocation and
\* expiry overlap and whatever stops half way, unless the reply to an activation was lost
\* (createWatermarkedPage, watermark-cleanup.ts).
THEOREM ActivePagesAreStored == ASSUME WatermarkAssumption PROVE Spec => []ActiveHasPage
<1>1. CacheInv => ActiveHasPage
  BY DEF CacheInv, PageInv, ActiveHasPage
<1> QED BY <1>1, CachesKept, PTL

\* A session that was revoked, and one that was purged, has no page to show
\* (008 watermark triggers, finish_watermark_cache).
THEOREM RevokedSessionsShowNothing ==
  ASSUME WatermarkAssumption PROVE Spec => []RevokedShowsNothing
<1>1. CacheInv => RevokedShowsNothing
  BY DEF CacheInv, SessionInv, RevokedShowsNothing
<1> QED BY <1>1, CachesKept, PTL

\* The purge of a session leaves none of its pages in storage as long as the web process
\* runs to the end of its requests and its deletions succeed (042 purge_ended_sign_in).
THEOREM PurgedSessionsLeaveNothing ==
  ASSUME WatermarkAssumption PROVE Spec => []NothingOrphaned
<1>1. TypeOK /\ CacheInv => NothingOrphaned
  BY DEF CacheInv, SessionInv, OrphanInv, NothingOrphaned, TypeOK
<1> QED BY <1>1, CachesKept, PTL

-----------------------------------------------------------------------------
(* Grants and reviews.                                                      *)

\* An instance has its own copy of what counts a set.
LEMMA CountsAlike ==
  \A set : G!Cardinality(set) = Cardinality(set) /\ S!Cardinality(set) = Cardinality(set)
BY DEF G!Cardinality, S!Cardinality, Cardinality

GrantStep == {"shown", "sent", "repeated"}

\* No grant is reviewed while a change of visibility is.
OneReview == review # G!NoReview => draft.step = "none" /\ review.to # "none"

\* What the impact names is what the change resolves to, from the review to the statement.
ImpactStands ==
  /\ draft.step \in GrantStep /\ draft.since /\ row = "current" =>
       draft.resolved = G!ResolvedExpiry(draft.change)
  /\ draft.step = "repeated" /\ draft.current =>
       draft.again = G!ResolvedExpiry(draft.change)

GrantInv == G!TypeOK /\ OneReview /\ G!NoMoreThanShown /\ ImpactStands

LEMMA ViewersCounted == G!Cardinality(Viewer) \in Nat
BY AccessAssumption, CountsAlike, FS_CardinalityType

LEMMA GrantInitially == ASSUME G!Init PROVE GrantInv
<1>1. G!TypeOK
  <2>1. G!Cardinality(Viewer) \in Nat
    BY ViewersCounted
  <2>2. /\ room \in [state : {"draft", "published", "archived"}, default : G!Expiry]
        /\ standing \in [Viewer -> {"outside", "member", "placed"}]
        /\ grant \in [Grant -> {"none", "lapsed"} \union G!Expiry]
        /\ row \in {"stale", "current"}
    BY DEF G!Init, G!Expiry
  <2>3. draft \in [step : {"none", "asked", "shown", "sent", "repeated"},
                   change : G!Change \union {NoChange}, resolved : G!Expiry,
                   since : BOOLEAN, current : BOOLEAN, again : G!Expiry]
    BY DEF G!Init, G!Untouched, G!Expiry
  <2>4. review \in [to : {"none", "published", "archived"}, count : 0..G!Cardinality(Viewer)]
    BY <2>1 DEF G!Init, G!NoReview
  <2> QED BY <2>2, <2>3, <2>4 DEF G!TypeOK
<1>2. OneReview /\ G!NoMoreThanShown /\ ImpactStands
  BY DEF G!Init, G!Untouched, G!NoReview, OneReview, G!NoMoreThanShown, ImpactStands, GrantStep
<1> QED BY <1>1, <1>2 DEF GrantInv

LEMMA ReachCounted == IsFiniteSet(G!Reach) /\ G!Cardinality(G!Reach) \in 0..G!Cardinality(Viewer)
<1>1. G!Reach \subseteq Viewer
  BY DEF G!Reach
<1> QED BY <1>1, AccessAssumption, CountsAlike, FS_Subset, FS_CardinalityType

\* The reach does not grow while no viewer and no grant comes.
LEMMA ReachShrinks ==
  ASSUME standing' = standing,
         \A g \in Grant : grant'[g] \in G!Expiry => grant[g] \in G!Expiry
  PROVE  G!Cardinality(G!Reach)' <= G!Cardinality(G!Reach)
<1>1. G!Reach' \subseteq G!Reach
  BY DEF G!Reach, G!Reaches
<1>2. IsFiniteSet(G!Reach)
  BY ReachCounted
<1> QED BY <1>1, <1>2, CountsAlike, FS_Subset

\* What a manager's change leaves behind: nothing on the page has the room's revision.
LEMMA BumpedHolds ==
  ASSUME GrantInv, G!Bumped
  PROVE  /\ row' \in {"stale", "current"}
         /\ draft' \in [step : {"none", "asked", "shown", "sent", "repeated"},
                        change : G!Change \union {NoChange}, resolved : G!Expiry,
                        since : BOOLEAN, current : BOOLEAN, again : G!Expiry]
         /\ review' = G!NoReview
         /\ (OneReview /\ G!NoMoreThanShown /\ ImpactStands)'
<1>1. /\ row' = "stale" /\ review' = G!NoReview
      /\ draft' = [draft EXCEPT !.current = FALSE]
  BY DEF G!Bumped
<1>2. draft \in [step : {"none", "asked", "shown", "sent", "repeated"},
                 change : G!Change \union {NoChange}, resolved : G!Expiry,
                 since : BOOLEAN, current : BOOLEAN, again : G!Expiry]
  BY DEF GrantInv, G!TypeOK
<1>3. draft' \in [step : {"none", "asked", "shown", "sent", "repeated"},
                  change : G!Change \union {NoChange}, resolved : G!Expiry,
                  since : BOOLEAN, current : BOOLEAN, again : G!Expiry]
      /\ draft'.current = FALSE
  BY <1>1, <1>2
<1>4. (OneReview /\ G!NoMoreThanShown /\ ImpactStands)'
  BY <1>1, <1>3 DEF OneReview, G!NoMoreThanShown, ImpactStands, G!NoReview
<1> QED BY <1>1, <1>3, <1>4

LEMMA Resolves ==
  ASSUME G!TypeOK, NEW c
  PROVE  G!ResolvedExpiry(c) \in G!Expiry
BY DEF G!TypeOK, G!ResolvedExpiry, G!Expiry

LEMMA GrantedTyped ==
  ASSUME G!TypeOK, NEW c, NEW r \in G!Expiry, G!Granted(c, r)
  PROVE  grant' \in [Grant -> {"none", "lapsed"} \union G!Expiry]
BY DEF G!TypeOK, G!Granted

LEMMA ManagerKeeps ==
  ASSUME GrantInv, G!ManagerNext \/ G!ApplyRoomVisibility
  PROVE  GrantInv'
<1>1. G!Bumped
  BY DEF G!ManagerNext, G!ApplyRoomVisibility, G!Join, G!PlaceViewer, G!Placing,
     G!RemoveViewerFromCounterparty, G!ApplyDefaultExpiry, G!ChangeGrant, G!ReturnToDraft
<1>2. /\ room \in [state : {"draft", "published", "archived"}, default : G!Expiry]
      /\ standing \in [Viewer -> {"outside", "member", "placed"}]
      /\ grant \in [Grant -> {"none", "lapsed"} \union G!Expiry]
      /\ review.to \in {"none", "published", "archived"}
  BY DEF GrantInv, G!TypeOK
<1>3. room' \in [state : {"draft", "published", "archived"}, default : G!Expiry]
  <2>1. CASE G!ApplyRoomVisibility
    BY <1>2, <2>1 DEF G!ApplyRoomVisibility, GrantInv, OneReview
  <2>2. CASE G!ManagerNext
    BY <1>2, <2>2 DEF G!ManagerNext, G!Join, G!PlaceViewer, G!ReturnToDraft,
       G!RemoveViewerFromCounterparty, G!ApplyDefaultExpiry, G!ChangeGrant
  <2> QED BY <2>1, <2>2
<1>4. standing' \in [Viewer -> {"outside", "member", "placed"}]
  BY <1>2 DEF G!ManagerNext, G!Join, G!PlaceViewer, G!ReturnToDraft, G!ApplyRoomVisibility,
     G!RemoveViewerFromCounterparty, G!ApplyDefaultExpiry, G!ChangeGrant
<1>5. grant' \in [Grant -> {"none", "lapsed"} \union G!Expiry]
  <2>1. CASE \E c \in G!Change : G!ChangeGrant(c)
    BY <2>1, Resolves, GrantedTyped DEF G!ChangeGrant, GrantInv
  <2>2. CASE UNCHANGED grant
    BY <1>2, <2>2
  <2> QED BY <2>1, <2>2 DEF G!ManagerNext, G!Join, G!PlaceViewer, G!ReturnToDraft,
          G!ApplyRoomVisibility, G!RemoveViewerFromCounterparty, G!ApplyDefaultExpiry
<1>6. G!NoReview \in [to : {"none", "published", "archived"}, count : 0..G!Cardinality(Viewer)]
  BY ViewersCounted DEF G!NoReview
<1>7. /\ row' \in {"stale", "current"} /\ review' = G!NoReview
      /\ draft' \in [step : {"none", "asked", "shown", "sent", "repeated"},
                     change : G!Change \union {NoChange}, resolved : G!Expiry,
                     since : BOOLEAN, current : BOOLEAN, again : G!Expiry]
      /\ (OneReview /\ G!NoMoreThanShown /\ ImpactStands)'
  BY <1>1, BumpedHolds
<1>8. G!TypeOK'
  BY <1>3, <1>4, <1>5, <1>6, <1>7 DEF G!TypeOK
<1> QED BY <1>7, <1>8 DEF GrantInv

DraftType == [step : {"none", "asked", "shown", "sent", "repeated"},
              change : G!Change \union {NoChange}, resolved : G!Expiry,
              since : BOOLEAN, current : BOOLEAN, again : G!Expiry]

LEMMA GrantCounted == (IsFiniteSet(G!Reach) /\ G!Cardinality(G!Reach) \in 0..G!Cardinality(Viewer))'
BY ReachCounted, PTL

LEMMA LapseKeeps ==
  ASSUME GrantInv, NEW g \in Grant, G!GrantLapses(g) \/ G!RevokeForTrash(g)
  PROVE  GrantInv'
<1>1. /\ UNCHANGED <<room, standing, row, draft, review>>
      /\ grant' = [grant EXCEPT ![g] = "lapsed"] \/ grant' = [grant EXCEPT ![g] = "none"]
  BY DEF G!GrantLapses, G!RevokeForTrash
<1>2. grant \in [Grant -> {"none", "lapsed"} \union G!Expiry]
  BY DEF GrantInv, G!TypeOK
<1>3. /\ grant' \in [Grant -> {"none", "lapsed"} \union G!Expiry]
      /\ \A h \in Grant : grant'[h] \in G!Expiry => grant[h] \in G!Expiry
  BY <1>1, <1>2 DEF G!Expiry
<1>4. G!Cardinality(G!Reach)' <= G!Cardinality(G!Reach)
  BY <1>1, <1>3, ReachShrinks
<1>5. G!TypeOK'
  BY <1>1, <1>3 DEF GrantInv, G!TypeOK
<1>6. G!NoMoreThanShown'
  <2>1. G!Cardinality(G!Reach) \in Int /\ G!Cardinality(G!Reach)' \in Int /\ review.count \in Int
    BY ViewersCounted, ReachCounted, GrantCounted DEF GrantInv, G!TypeOK
  <2> QED BY <1>1, <1>4, <2>1 DEF GrantInv, G!NoMoreThanShown
<1>7. OneReview' /\ ImpactStands'
  BY <1>1 DEF GrantInv, OneReview, ImpactStands, G!ResolvedExpiry
<1> QED BY <1>5, <1>6, <1>7 DEF GrantInv

\* A change that another manager's bump has made stale is refused; one that is not writes what
\* its own dry run resolved.
LEMMA WriteKeeps ==
  ASSUME GrantInv, G!ApplyGrantChange
  PROVE  GrantInv'
<1>1. /\ UNCHANGED <<room, standing, review>> /\ row' = "stale" /\ draft.step = "repeated"
      /\ G!Granted(draft.change, draft.again) /\ draft' \in {G!Untouched, G!Kept}
  BY DEF G!ApplyGrantChange
<1>2. draft \in DraftType
  BY DEF GrantInv, G!TypeOK, DraftType
<1>3. draft' \in DraftType /\ draft'.current = FALSE
  <2>1. G!Untouched \in DraftType /\ G!Untouched.current = FALSE
    BY DEF DraftType, G!Untouched, G!Expiry
  <2>2. G!Kept \in DraftType /\ G!Kept.current = FALSE
    BY <1>2 DEF DraftType, G!Kept, G!Expiry
  <2> QED BY <1>1, <2>1, <2>2
<1>4. grant' \in [Grant -> {"none", "lapsed"} \union G!Expiry]
  BY <1>1, <1>2, GrantedTyped DEF GrantInv, DraftType
<1>5. G!TypeOK'
  BY <1>1, <1>3, <1>4 DEF GrantInv, G!TypeOK, DraftType
<1>6. review = G!NoReview
  BY <1>1 DEF GrantInv, OneReview
<1>7. OneReview' /\ G!NoMoreThanShown' /\ ImpactStands'
  BY <1>1, <1>3, <1>6 DEF OneReview, G!NoMoreThanShown, G!NoReview, ImpactStands
<1> QED BY <1>5, <1>7 DEF GrantInv

\* The Access section and the dialog read the room and write nothing of it.
LEMMA SectionKeeps ==
  ASSUME GrantInv,
         \/ G!ReadRow \/ G!CancelChange \/ G!DryRunGrantChange \/ G!SendChange
         \/ G!RepeatDryRun \/ G!RefuseGrantChange
         \/ \E c \in G!Change : G!ReviewGrant(c)
  PROVE  GrantInv'
<1>1. UNCHANGED <<room, standing, grant, review>>
  BY DEF G!ReadRow, G!CancelChange, G!DryRunGrantChange, G!SendChange, G!RepeatDryRun,
     G!RefuseGrantChange, G!ReviewGrant
<1>2. draft \in DraftType /\ row \in {"stale", "current"}
  BY DEF GrantInv, G!TypeOK, DraftType
<1>3. G!Untouched \in DraftType /\ G!Kept \in DraftType
  BY <1>2 DEF DraftType, G!Untouched, G!Kept, G!Expiry
<1>4. G!ResolvedExpiry(draft.change) \in G!Expiry
  BY Resolves DEF GrantInv
<1>5. draft' \in DraftType /\ row' \in {"stale", "current"}
  <2>1. CASE \E c \in G!Change : G!ReviewGrant(c)
    BY <1>2, <1>3, <2>1 DEF G!ReviewGrant, DraftType, G!Untouched
  <2>2. CASE G!DryRunGrantChange \/ G!RepeatDryRun
    <3>1. \A r \in G!Expiry :
            /\ [draft EXCEPT !.step = "shown", !.since = TRUE, !.resolved = r] \in DraftType
            /\ [draft EXCEPT !.step = "repeated", !.again = r] \in DraftType
      BY <1>2 DEF DraftType
    <3> QED BY <1>2, <1>3, <1>4, <2>2, <3>1 DEF G!DryRunGrantChange, G!RepeatDryRun
  <2>3. CASE G!ReadRow \/ G!CancelChange \/ G!SendChange \/ G!RefuseGrantChange
    BY <1>2, <1>3, <2>3 DEF G!ReadRow, G!CancelChange, G!SendChange, G!RefuseGrantChange, DraftType
  <2> QED BY <2>1, <2>2, <2>3
<1>6. G!TypeOK'
  BY <1>1, <1>5 DEF GrantInv, G!TypeOK, DraftType
<1>7. G!NoMoreThanShown'
  BY <1>1 DEF GrantInv, G!NoMoreThanShown, G!Reach, G!Reaches
<1>8. OneReview'
  <2>1. \/ draft.step # "none"
        \/ draft'.step = draft.step
        \/ review = G!NoReview
        \/ draft' = G!Untouched
    BY <1>2 DEF G!ReadRow, G!CancelChange, G!DryRunGrantChange, G!SendChange, G!RepeatDryRun,
       G!RefuseGrantChange, G!ReviewGrant, DraftType
  <2> QED BY <1>1, <2>1 DEF GrantInv, OneReview, G!Untouched
<1>9. ImpactStands'
  <2>1. G!ResolvedExpiry(draft.change)' = G!ResolvedExpiry(draft'.change)
    BY <1>1 DEF G!ResolvedExpiry
  <2>2. ImpactStands
    BY DEF GrantInv
  <2>3. CASE G!ReadRow
    BY <1>1, <1>2, <2>2, <2>3 DEF G!ReadRow, ImpactStands, DraftType, G!ResolvedExpiry
  <2>4. CASE G!CancelChange \/ \E c \in G!Change : G!ReviewGrant(c)
    <3>1. G!Untouched.step = "none" /\ G!Untouched \in DraftType
      BY <1>3 DEF G!Untouched
    <3>2. draft'.step \in {"none", "asked"}
      BY <2>4, <3>1 DEF G!CancelChange, G!ReviewGrant, DraftType
    <3> QED BY <3>2 DEF ImpactStands, GrantStep
  <2>5. CASE G!DryRunGrantChange \/ G!RepeatDryRun
    <3>1. CASE draft' = G!Untouched
      BY <3>1 DEF G!Untouched, ImpactStands, GrantStep
    <3>2. CASE G!RepeatDryRun /\ draft' = G!Kept
      <4>1. /\ draft'.step = "shown" /\ draft'.since = draft.since /\ row' = row
            /\ draft'.change = draft.change /\ draft'.resolved = draft.resolved
        BY <1>2, <3>2 DEF G!Kept, DraftType, G!RepeatDryRun
      <4>2. draft.step \in GrantStep
        BY <3>2 DEF G!RepeatDryRun, GrantStep
      <4> QED BY <1>1, <2>2, <4>1, <4>2 DEF ImpactStands, G!ResolvedExpiry
    <3>3. CASE G!DryRunGrantChange /\ draft' # G!Untouched
      BY <1>1, <1>2, <3>3 DEF G!DryRunGrantChange, ImpactStands, GrantStep, DraftType,
         G!ResolvedExpiry
    <3>4. CASE G!RepeatDryRun /\ draft' # G!Kept
      BY <1>1, <1>2, <2>2, <3>4 DEF G!RepeatDryRun, ImpactStands, GrantStep, DraftType,
         G!ResolvedExpiry
    <3> QED BY <2>5, <3>1, <3>2, <3>3, <3>4
  <2>6. CASE G!SendChange \/ G!RefuseGrantChange
    BY <1>1, <1>2, <2>2, <2>6 DEF G!SendChange, G!RefuseGrantChange, G!Kept, ImpactStands,
       GrantStep, DraftType, G!ResolvedExpiry
  <2> QED BY <2>3, <2>4, <2>5, <2>6
<1> QED BY <1>6, <1>7, <1>8, <1>9 DEF GrantInv

LEMMA DialogKeeps ==
  ASSUME GrantInv,
         G!CloseReview \/ \E to \in {"published", "archived"} : G!DryRunRoomVisibility(to)
  PROVE  GrantInv'
<1>1. UNCHANGED <<room, standing, grant, row, draft>>
  BY DEF G!CloseReview, G!DryRunRoomVisibility
<1>2. /\ G!NoReview \in [to : {"none", "published", "archived"}, count : 0..G!Cardinality(Viewer)]
      /\ 0 \in 0..G!Cardinality(Viewer)
  BY ViewersCounted DEF G!NoReview
<1>3. G!Cardinality(G!Reach) \in 0..G!Cardinality(Viewer)
  BY ReachCounted
<1>4. G!Reach' = G!Reach
  BY <1>1 DEF G!Reach, G!Reaches
<1>5. /\ review' \in [to : {"none", "published", "archived"}, count : 0..G!Cardinality(Viewer)]
      /\ OneReview' /\ G!NoMoreThanShown'
  <2>1. CASE G!CloseReview
    BY <1>1, <1>2, <2>1 DEF G!CloseReview, OneReview, G!NoMoreThanShown, G!NoReview
  <2>2. ASSUME NEW to \in {"published", "archived"}, G!DryRunRoomVisibility(to)
        PROVE  /\ review' \in [to : {"none", "published", "archived"},
                               count : 0..G!Cardinality(Viewer)]
               /\ OneReview' /\ G!NoMoreThanShown'
    <3>1. /\ review' = [to |-> to,
                         count |-> IF to = "published" \/ room.state = "published"
                                   THEN G!Cardinality(G!Reach) ELSE 0]
          /\ draft.step = "none"
      BY <2>2 DEF G!DryRunRoomVisibility, G!Untouched
    <3>2. review' \in [to : {"none", "published", "archived"}, count : 0..G!Cardinality(Viewer)]
      BY <1>2, <1>3, <3>1
    <3>3. OneReview'
      BY <1>1, <3>1 DEF OneReview
    <3>4. G!NoMoreThanShown'
      BY <1>1, <1>3, <1>4, <3>1 DEF G!NoMoreThanShown
    <3> QED BY <3>2, <3>3, <3>4
  <2> QED BY <2>1, <2>2
<1>6. G!TypeOK'
  BY <1>1, <1>5 DEF GrantInv, G!TypeOK
<1>7. ImpactStands'
  BY <1>1 DEF GrantInv, ImpactStands, G!ResolvedExpiry
<1> QED BY <1>5, <1>6, <1>7 DEF GrantInv

LEMMA GrantStepKeeps ==
  ASSUME GrantInv, [G!Next]_(G!vars)
  PROVE  GrantInv'
<1>1. CASE UNCHANGED G!vars
  BY <1>1 DEF G!vars, GrantInv, G!TypeOK, OneReview, ImpactStands, G!NoMoreThanShown,
     G!Reach, G!Reaches, G!ResolvedExpiry
<1>2. CASE G!ManagerNext \/ G!ApplyRoomVisibility
  BY <1>2, ManagerKeeps
<1>3. CASE \E g \in Grant : G!GrantLapses(g) \/ G!RevokeForTrash(g)
  BY <1>3, LapseKeeps
<1>4. CASE G!PageNext
  BY <1>4, <1>2, WriteKeeps, SectionKeeps, DialogKeeps DEF G!PageNext
<1> QED BY <1>1, <1>2, <1>3, <1>4 DEF G!Next

LEMMA GrantsKept == G!Spec => []GrantInv
<1>1. GrantInv /\ [G!Next]_(G!vars) => GrantInv'
  BY GrantStepKeeps
<1> QED BY <1>1, GrantInitially, PTL DEF G!Spec

\* What a manager is shown before a grant changes or the room becomes visible is what the
\* change does that is accepted under the revision shown, whoever else changes the room and
\* whatever lapses or is revoked in between (007, 023, 048; ParticipantsPanel.tsx,
\* RoomVisibilityControls.tsx).
THEOREM ReviewsStand == G!Spec => []ReviewsHold
<1>1. GrantInv => ReviewsHold
  BY DEF GrantInv, ImpactStands, GrantStep, ReviewsHold, G!ReviewsHold, G!ResolvesAsShown
<1> QED BY <1>1, GrantsKept, PTL

-----------------------------------------------------------------------------
(* The sign-in.                                                             *)

ChallengeRow == [state : {"unused", "consumed", "invalidated", "locked"} \union S!Live,
                 failed : 0..MaxAttempts, code : S!Code, lapsed : BOOLEAN, viewer : BOOLEAN]
CallKind == {"idle", "request", "challenged", "verify", "consumed", "issued", "rejected", "failed"}
Request == [kind : CallKind, challenge : Challenge \union {NoChallenge}, code : S!Code]
PageState == [stage : {"address", "code", "authenticated"},
              challenge : Challenge \union {NoChallenge}, attempts : 0..MaxAttempts,
              busy : BOOLEAN]

\* The types, but for how often a code is exchanged, which Exchanged says.
SignInTyped ==
  /\ challenge \in [Challenge -> ChallengeRow]
  /\ deliveries \in [Challenge -> Rows(DeliverAttempts)]
  /\ post \in [Challenge -> {"none", "mailing", "mailed"}]
  /\ viewer \in {"absent", "active", "anonymized"}
  /\ invitation \in [accepted : BOOLEAN, pending : {"none", "open", "lapsed"}]
  /\ sessions \in [Challenge -> {0, 1}]
  /\ call \in [Call -> Request]
  /\ page \in PageState

\* A code that is entered, and whatever comes of it, is of a challenge that was issued.
OfIssued ==
  /\ page.stage = "code" => page.challenge \in Challenge
  /\ \A k \in Call : call[k].kind \in {"challenged", "verify", "consumed"} =>
       call[k].challenge \in Challenge

\* Whoever may be signed in has an invitation.
Invited == viewer = "active" => invitation.accepted \/ invitation.pending # "none"

Consuming(k, c) == call[k].kind = "consumed" /\ call[k].challenge = c

\* What was exchanged, or is about to be, cannot be again.
Closed(c) ==
  \/ challenge[c].state = "consumed" /\ invitation.accepted
  \/ viewer = "anonymized" /\ challenge[c].state \notin S!Live \union {"unused"}

Exchanged ==
  \A c \in Challenge :
    /\ sessions[c] = 1 => Closed(c) /\ \A k \in Call : ~Consuming(k, c)
    /\ \A k \in Call : Consuming(k, c) => Closed(c) /\ \A l \in Call : Consuming(l, c) => k = l

OneLive ==
  \A c, d \in Challenge : challenge[c].state \in S!Live /\ challenge[d].state \in S!Live => c = d

SignInInv == SignInTyped /\ OfIssued /\ Invited /\ Exchanged /\ OneLive

LEMMA RowsAlike == \A max : S!Rows(max) = Rows(max)
BY DEF S!Rows, Rows

LEMMA SignInInitially == ASSUME S!Init PROVE SignInInv
<1>1. SignInTyped
  <2>1. S!Unused \in ChallengeRow /\ S!Idle \in Request /\ S!initialOtpState \in PageState
    BY AccessAssumption
       DEF S!Unused, S!Idle, S!Answer, S!initialOtpState, S!Wrong, S!Code, S!Live, ChallengeRow,
           Request, CallKind, PageState
  <2>2. S!Absent \in Rows(DeliverAttempts)
    BY AccessAssumption DEF S!Absent, S!Row, S!Columns, Rows
  <2> QED BY <2>1, <2>2 DEF S!Init, SignInTyped
<1>2. OfIssued /\ Invited /\ Exchanged /\ OneLive
  BY DEF S!Init, S!Unused, S!Idle, S!Answer, S!initialOtpState, S!Live, OfIssued, Invited,
     Exchanged, Consuming, OneLive
<1> QED BY <1>1, <1>2 DEF SignInInv

\* What the invariant promises.
LEMMA SignInTypes == ASSUME SignInInv PROVE S!TypeOK
<1>1. S!Cardinality(Call) \in Nat /\ S!Cardinality(Call) # 0
  BY AccessAssumption, CountsAlike, FS_CardinalityType, FS_EmptySet
<1>2. {0, 1} \subseteq 0..S!Cardinality(Call)
  BY <1>1
<1>3. sessions \in [Challenge -> 0..S!Cardinality(Call)]
  BY <1>2 DEF SignInInv, SignInTyped
<1> QED BY <1>3, RowsAlike
      DEF SignInInv, SignInTyped, S!TypeOK, ChallengeRow, Request, CallKind, PageState

LEMMA SignInPromise == ASSUME SignInInv PROVE SignInSound
<1>1. ASSUME NEW c \in Challenge
      PROVE  S!UsedOnce(c) /\ (S!SignedIn(c) => challenge[c].state = "consumed"
                                                /\ invitation.accepted)
  <2> DEFINE using == {k \in Call : call[k].kind = "consumed" /\ call[k].challenge = c}
  <2>1. Cardinality(using) \in Nat /\ Cardinality(using) <= 1
    <3>1. \A k, l \in using : k = l
      BY DEF SignInInv, Exchanged, Consuming
    <3> QED BY <3>1, AtMostOne, FS_CardinalityType
  <2>2. sessions[c] \in {0, 1}
    BY DEF SignInInv, SignInTyped
  <2>3. sessions[c] = 1 => Cardinality(using) = 0
    <3>1. sessions[c] = 1 => using = {}
      BY DEF SignInInv, Exchanged, Consuming
    <3> QED BY <3>1, FS_EmptySet
  <2>4. S!UsedOnce(c)
    BY <2>1, <2>2, <2>3, CountsAlike DEF S!UsedOnce
  <2>5. S!SignedIn(c) => challenge[c].state = "consumed" /\ invitation.accepted
    BY <2>2 DEF S!SignedIn, SignInInv, Exchanged, Closed
  <2> QED BY <2>4, <2>5
<1>2. Cardinality({c \in Challenge : challenge[c].state \in S!Live}) <= 1
  BY AtMostOne DEF SignInInv, OneLive
<1> QED BY <1>1, <1>2, CountsAlike DEF SignInSound, S!SignInSound

LEMMA ExchangesKept ==
  ASSUME SignInInv, sessions' = sessions, viewer' = viewer \/ viewer # "anonymized",
         invitation.accepted => invitation'.accepted,
         \A c \in Challenge :
           challenge[c].state \notin S!Live \union {"unused"} =>
             challenge'[c].state = challenge[c].state,
         \A k \in Call : call'[k].kind = "consumed" => call'[k] = call[k]
  PROVE  Exchanged'
<1>1. ASSUME NEW c \in Challenge
      PROVE  Closed(c) => Closed(c)'
  BY DEF Closed, S!Live
<1>2. \A k \in Call, c \in Challenge : Consuming(k, c)' => Consuming(k, c)
  BY DEF Consuming
<1> QED BY <1>1, <1>2 DEF SignInInv, Exchanged

LEMMA LiveKept ==
  ASSUME SignInInv,
         \A c \in Challenge : challenge'[c].state \in S!Live => challenge[c].state \in S!Live
  PROVE  OneLive'
BY DEF SignInInv, OneLive, S!Live

-----------------------------------------------------------------------------
(* The page's steps change its requests and itself.                         *)

LEMMA AskKeeps ==
  ASSUME SignInInv, NEW kind \in {"request", "verify"}, NEW c \in Challenge \union {NoChallenge},
         NEW code \in S!Code, kind = "verify" => c \in Challenge, S!Ask(kind, c, code)
  PROVE  SignInInv'
<1> DEFINE k == CHOOSE k \in Call : call[k] = S!Idle
           request == [kind |-> kind, challenge |-> c, code |-> code]
<1>1. /\ call' = [call EXCEPT ![k] = request] /\ k \in Call
      /\ page' = [page EXCEPT !.busy = TRUE]
      /\ UNCHANGED <<challenge, deliveries, post, viewer, invitation, sessions>>
  BY DEF S!Ask, S!Free
<1>2. call \in [Call -> Request] /\ page \in PageState
  BY DEF SignInInv, SignInTyped
<1>3. request \in Request /\ request.kind # "consumed"
  BY DEF Request, CallKind
<1>4. /\ call' \in [Call -> Request]
      /\ \A l \in Call : call'[l] = call[l] \/ call'[l] = request
  BY <1>1, <1>2, <1>3
<1>5. page' \in PageState /\ page'.stage = page.stage /\ page'.challenge = page.challenge
  BY <1>1, <1>2 DEF PageState
<1>6. SignInTyped'
  BY <1>1, <1>4, <1>5 DEF SignInInv, SignInTyped
<1>7. OfIssued'
  BY <1>3, <1>4, <1>5 DEF SignInInv, OfIssued
<1>8. Exchanged' /\ OneLive'
  BY <1>1, <1>3, <1>4, ExchangesKept, LiveKept
<1>9. Invited'
  BY <1>1 DEF SignInInv, Invited
<1> QED BY <1>6, <1>7, <1>8, <1>9 DEF SignInInv

\* An answer ends its request, and what it names was issued.
LEMMA AnswerKeeps ==
  ASSUME SignInInv, NEW k \in Call, S!Receive(k) \/ S!LoseAnswer(k)
  PROVE  SignInInv'
<1>1. /\ UNCHANGED <<challenge, deliveries, post, viewer, invitation, sessions>>
      /\ \/ call' = [call EXCEPT ![k] = S!Answer("idle")]
         \/ call' = [call EXCEPT ![k] = S!Answer("failed")]
      /\ page' = page \/ page' = S!Answered(call[k])
  BY DEF S!Receive, S!LoseAnswer, S!Idle
<1>2. call \in [Call -> Request] /\ page \in PageState /\ call[k] \in Request
  BY DEF SignInInv, SignInTyped
<1>3. \A kind \in {"idle", "failed"} : S!Answer(kind) \in Request /\ S!Answer(kind).kind = kind
  BY AccessAssumption DEF S!Answer, S!Wrong, S!Code, Request, CallKind
<1>4. /\ call' \in [Call -> Request]
      /\ \A l \in Call : call'[l] = call[l] \/ call'[l].kind \in {"idle", "failed"}
  BY <1>1, <1>2, <1>3
<1>5. page' \in PageState /\ (page'.stage = "code" => page'.challenge \in Challenge)
  <2>1. page.stage = "code" => page.challenge \in Challenge
    BY DEF SignInInv, OfIssued
  <2>2. CASE page' = page
    BY <1>2, <2>1, <2>2
  <2>3. CASE page' = S!Answered(call[k])
    <3>1. S!initialOtpState \in PageState /\ S!initialOtpState.challenge = NoChallenge
      BY AccessAssumption DEF S!initialOtpState, PageState
    <3>2. CASE call[k].kind = "challenged"
      <4>1. call[k].challenge \in Challenge
        BY <3>2 DEF SignInInv, OfIssued
      <4>2. page' = [stage |-> "code", challenge |-> call[k].challenge, attempts |-> 0, busy |-> FALSE]
        BY <2>3, <3>2 DEF S!Answered
      <4> QED BY <4>1, <4>2, AccessAssumption DEF PageState
    <3>3. CASE call[k].kind = "issued"
      <4>1. page' = [S!initialOtpState EXCEPT !.stage = "authenticated"]
        BY <2>3, <3>3 DEF S!Answered
      <4> QED BY <3>1, <4>1 DEF PageState
    <3>4. CASE call[k].kind = "rejected" /\ page.stage = "code"
      <4>1. page' = [page EXCEPT !.attempts = IF @ < MaxAttempts THEN @ + 1 ELSE @, !.busy = FALSE]
        BY <2>3, <3>4 DEF S!Answered
      <4>2. (IF page.attempts < MaxAttempts THEN page.attempts + 1 ELSE page.attempts) \in 0..MaxAttempts
        BY <1>2, AccessAssumption DEF PageState
      <4> QED BY <1>2, <2>1, <4>1, <4>2 DEF PageState
    <3>5. CASE /\ call[k].kind \notin {"challenged", "issued"}
               /\ ~(call[k].kind = "rejected" /\ page.stage = "code")
      <4>1. page' = [page EXCEPT !.busy = FALSE]
        BY <2>3, <3>5 DEF S!Answered
      <4> QED BY <1>2, <2>1, <4>1 DEF PageState
    <3> QED BY <3>2, <3>3, <3>4, <3>5
  <2> QED BY <1>1, <2>2, <2>3
<1>6. SignInTyped'
  BY <1>1, <1>4, <1>5 DEF SignInInv, SignInTyped
<1>7. OfIssued'
  BY <1>4, <1>5 DEF SignInInv, OfIssued
<1>8. Exchanged' /\ OneLive'
  BY <1>1, <1>4, ExchangesKept, LiveKept
<1>9. Invited'
  BY <1>1 DEF SignInInv, Invited
<1> QED BY <1>6, <1>7, <1>8, <1>9 DEF SignInInv

LEMMA PageKeeps == ASSUME SignInInv, S!PageNext PROVE SignInInv'
<1>1. S!Wrong \in S!Code
  BY AccessAssumption DEF S!Wrong, S!Code
<1>2. CASE S!SubmitAddress
  BY <1>1, <1>2, AskKeeps DEF S!SubmitAddress
<1>3. CASE S!SubmitCode
  <2>1. page.challenge \in Challenge
    BY <1>3 DEF S!SubmitCode, SignInInv, OfIssued
  <2>2. {S!Wrong} \union S!Delivered(page.challenge) \subseteq S!Code
    BY <1>1, <2>1 DEF S!Delivered, SignInInv, SignInTyped, ChallengeRow
  <2>3. \E code \in S!Code : S!Ask("verify", page.challenge, code)
    BY <1>3, <2>2 DEF S!SubmitCode
  <2> QED BY <2>1, <2>3, AskKeeps
<1>4. CASE S!Restart
  <2>1. S!initialOtpState \in PageState /\ S!initialOtpState.stage = "address"
    BY AccessAssumption DEF S!initialOtpState, PageState
  <2>2. /\ UNCHANGED <<challenge, deliveries, post, viewer, invitation, sessions, call>>
        /\ page' = S!initialOtpState
    BY <1>4 DEF S!Restart
  <2>3. SignInTyped' /\ OfIssued' /\ Invited'
    BY <2>1, <2>2 DEF SignInInv, SignInTyped, OfIssued, Invited
  <2>4. Exchanged' /\ OneLive'
    BY <2>2, ExchangesKept, LiveKept
  <2> QED BY <2>3, <2>4 DEF SignInInv
<1> QED BY <1>2, <1>3, <1>4, AnswerKeeps DEF S!PageNext

-----------------------------------------------------------------------------
(* The routes.                                                              *)

\* A request moves on, or ends.
LEMMA CallMoves ==
  ASSUME SignInTyped, NEW k \in Call, NEW r \in Request, call' = [call EXCEPT ![k] = r]
  PROVE  /\ call' \in [Call -> Request] /\ call'[k] = r
         /\ \A l \in Call \ {k} : call'[l] = call[l]
BY DEF SignInTyped

LEMMA AnswersTyped ==
  \A kind \in CallKind : S!Answer(kind) \in Request /\ S!Answer(kind).kind = kind
BY AccessAssumption DEF S!Answer, S!Wrong, S!Code, Request

LEMMA OverTyped ==
  /\ S!Unused \in ChallengeRow
  /\ \A state \in {"consumed", "invalidated", "locked"} :
       S!Over(state) \in ChallengeRow /\ S!Over(state).state = state
<1>1. S!Unused \in ChallengeRow
  BY AccessAssumption DEF S!Unused, S!Wrong, S!Code, S!Live, ChallengeRow
<1> QED BY <1>1 DEF S!Over, ChallengeRow

\* Issued to an address: every live challenge of it is over, and one is new.
LEMMA ChallengeKeeps == ASSUME SignInInv, NEW k \in Call, S!CreateOtpChallenge(k) PROVE SignInInv'
<1> DEFINE c == CHOOSE c \in Challenge : challenge[c].state = "unused"
           request == [kind |-> "challenged", challenge |-> c, code |-> S!Wrong]
<1>1. /\ c \in Challenge /\ challenge[c].state = "unused"
      /\ challenge' = S!Issued(c)
      /\ deliveries' = [deliveries EXCEPT ![c] = S!Queued]
      /\ call' = [call EXCEPT ![k] = request]
      /\ UNCHANGED <<post, viewer, invitation, sessions, page>>
  BY DEF S!CreateOtpChallenge
<1>2. SignInTyped
  BY DEF SignInInv
<1>3. request \in Request /\ request.kind = "challenged" /\ request.challenge = c
  BY <1>1, AccessAssumption DEF S!Wrong, S!Code, Request, CallKind
<1>4. /\ call' \in [Call -> Request] /\ call'[k] = request
      /\ \A l \in Call \ {k} : call'[l] = call[l]
  BY <1>1, <1>2, <1>3, CallMoves
<1>5. /\ challenge' \in [Challenge -> ChallengeRow]
      /\ \A d \in Challenge :
           /\ challenge[d].state \notin S!Live \union {"unused"} => challenge'[d] = challenge[d]
           /\ challenge'[d].state \in S!Live => d = c
  <2>1. S!Over("invalidated") \in ChallengeRow /\ S!Over("invalidated").state = "invalidated"
    BY OverTyped
  <2>2. [S!Unused EXCEPT !.state = "awaiting_delivery",
           !.viewer = viewer = "active" /\ (invitation.accepted \/ invitation.pending = "open")]
          \in ChallengeRow
    BY OverTyped DEF S!Live, ChallengeRow
  <2>3. \A d \in Challenge : challenge[d] \in ChallengeRow
    BY <1>2 DEF SignInTyped
  <2>4. challenge' \in [Challenge -> ChallengeRow]
    BY <1>1, <2>1, <2>2, <2>3 DEF S!Issued
  <2>5. ASSUME NEW d \in Challenge \ {c}
        PROVE  challenge'[d] = IF challenge[d].state \in S!Live THEN S!Over("invalidated")
                               ELSE challenge[d]
    BY <1>1 DEF S!Issued
  <2>6. \A d \in Challenge \ {c} :
          /\ challenge[d].state \notin S!Live \union {"unused"} => challenge'[d] = challenge[d]
          /\ challenge'[d].state \notin S!Live
    BY <2>1, <2>5 DEF S!Live
  <2> QED BY <1>1, <2>4, <2>6
<1>6. deliveries' \in [Challenge -> Rows(DeliverAttempts)]
  <2>1. S!Queued \in Rows(DeliverAttempts)
    BY AccessAssumption DEF S!Queued, S!Row, S!Columns, Rows
  <2> QED BY <1>1, <1>2, <2>1 DEF SignInTyped
<1>7. SignInTyped' /\ Invited'
  BY <1>1, <1>4, <1>5, <1>6 DEF SignInInv, SignInTyped, Invited
<1>8. OfIssued'
  BY <1>1, <1>3, <1>4 DEF SignInInv, OfIssued
<1>9. Exchanged'
  BY <1>1, <1>3, <1>4, <1>5, ExchangesKept
<1>10. OneLive'
  BY <1>5 DEF OneLive, S!Live
<1> QED BY <1>7, <1>8, <1>9, <1>10 DEF SignInInv

\* The one step that spends a code: nothing was exchanged for it before, since it was live.
LEMMA ConsumeKeeps == ASSUME SignInInv, NEW k \in Call, S!ConsumeOtp(k) PROVE SignInInv'
<1> DEFINE c == call[k].challenge
           row1 == [[challenge[c] EXCEPT !.state = "consumed"] EXCEPT !.failed = 0]
           request == [[call[k] EXCEPT !.kind = "consumed"] EXCEPT !.code = S!Wrong]
<1>1. SignInTyped /\ Invited /\ OfIssued /\ Exchanged /\ OneLive
  BY DEF SignInInv
<1>2. /\ call[k].kind = "verify" /\ c \in Challenge /\ challenge[c].state = "pending"
      /\ viewer = "active"
      /\ invitation' = S!AcceptViewerInvitation
      /\ UNCHANGED <<deliveries, post, viewer, sessions, page>>
  BY <1>1 DEF S!ConsumeOtp, S!Verified, S!OtpUsable, OfIssued
<1>3. challenge[c] \in ChallengeRow /\ call[k] \in Request
  BY <1>1, <1>2 DEF SignInTyped
<1>4. /\ row1 \in ChallengeRow /\ row1.state = "consumed"
      /\ request \in Request /\ request.kind = "consumed" /\ request.challenge = c
  <2>1. row1 \in ChallengeRow /\ row1.state = "consumed"
    <3>1. 0 \in 0..MaxAttempts
      BY AccessAssumption
    <3>2. [challenge[c] EXCEPT !.state = "consumed"] \in ChallengeRow
      BY <1>3 DEF ChallengeRow
    <3> QED BY <3>1, <3>2 DEF ChallengeRow
  <2>2. S!Wrong \in S!Code
    BY AccessAssumption DEF S!Wrong, S!Code
  <2>3. request \in Request /\ request.kind = "consumed" /\ request.challenge = c
    BY <1>3, <2>2 DEF Request, CallKind
  <2> QED BY <2>1, <2>3
<1>5. challenge' = [challenge EXCEPT ![c] = row1] /\ call' = [call EXCEPT ![k] = request]
  BY <1>1, <1>2, <1>3 DEF S!ConsumeOtp, SignInTyped, ChallengeRow, Request
<1>6. /\ challenge' \in [Challenge -> ChallengeRow] /\ challenge'[c].state = "consumed"
      /\ \A d \in Challenge \ {c} : challenge'[d] = challenge[d]
  BY <1>1, <1>2, <1>4, <1>5 DEF SignInTyped
<1>7. /\ call' \in [Call -> Request] /\ call'[k] = request
      /\ \A l \in Call \ {k} : call'[l] = call[l]
  BY <1>1, <1>4, <1>5, CallMoves
<1>8. /\ invitation' \in [accepted : BOOLEAN, pending : {"none", "open", "lapsed"}]
      /\ invitation'.accepted
  BY <1>1, <1>2 DEF S!AcceptViewerInvitation, SignInTyped, Invited
<1>9. SignInTyped' /\ Invited' /\ OfIssued'
  <2>1. SignInTyped'
    BY <1>1, <1>2, <1>6, <1>7, <1>8 DEF SignInTyped
  <2>2. Invited'
    BY <1>8 DEF Invited
  <2>3. OfIssued'
    BY <1>1, <1>2, <1>4, <1>7 DEF OfIssued
  <2> QED BY <2>1, <2>2, <2>3
<1>10. sessions[c] = 0 /\ \A l \in Call : ~Consuming(l, c)
  BY <1>1, <1>2 DEF Exchanged, Closed, S!Live, SignInTyped
<1>11. Exchanged'
  <2>1. ASSUME NEW d \in Challenge
        PROVE  /\ sessions'[d] = 1 => Closed(d)' /\ \A l \in Call : ~Consuming(l, d)'
               /\ \A l \in Call : Consuming(l, d)' =>
                    Closed(d)' /\ \A m \in Call : Consuming(m, d)' => l = m
    <3>1. CASE d = c
      <4>1. Closed(d)'
        BY <1>6, <1>8, <3>1 DEF Closed
      <4>2. \A l \in Call : Consuming(l, d)' => l = k
        BY <1>7, <1>10, <3>1 DEF Consuming
      <4> QED BY <1>2, <1>10, <3>1, <4>1, <4>2
    <3>2. CASE d # c
      <4>1. Closed(d) => Closed(d)'
        BY <1>2, <1>6, <1>8, <3>2 DEF Closed
      <4>2. \A l \in Call : Consuming(l, d)' => Consuming(l, d)
        BY <1>4, <1>7, <3>2 DEF Consuming
      <4> QED BY <1>1, <1>2, <4>1, <4>2 DEF Exchanged
    <3> QED BY <3>1, <3>2
  <2> QED BY <2>1 DEF Exchanged
<1>12. OneLive'
  BY <1>6, LiveKept DEF S!Live
<1> QED BY <1>9, <1>11, <1>12 DEF SignInInv

\* The session of a code: until here there was none, and the request is no longer about it.
LEMMA IssueKeeps == ASSUME SignInInv, NEW k \in Call, S!IssueSession(k) PROVE SignInInv'
<1> DEFINE c == call[k].challenge
<1>1. SignInTyped /\ Invited /\ OfIssued /\ Exchanged /\ OneLive
  BY DEF SignInInv
<1>2. /\ Consuming(k, c) /\ c \in Challenge
      /\ sessions' = [sessions EXCEPT ![c] = @ + 1]
      /\ call' = [call EXCEPT ![k] = S!Answer("issued")]
      /\ UNCHANGED <<challenge, deliveries, post, viewer, invitation, page>>
  BY <1>1 DEF S!IssueSession, Consuming, OfIssued
<1>3. /\ call' \in [Call -> Request] /\ call'[k].kind = "issued"
      /\ \A l \in Call \ {k} : call'[l] = call[l]
  BY <1>1, <1>2, AnswersTyped, CallMoves DEF CallKind
<1>4. sessions[c] = 0 /\ Closed(c) /\ \A l \in Call : Consuming(l, c) => l = k
  BY <1>1, <1>2 DEF Exchanged, SignInTyped
<1>5. /\ sessions' \in [Challenge -> {0, 1}] /\ sessions'[c] = 1
      /\ \A d \in Challenge \ {c} : sessions'[d] = sessions[d]
  BY <1>1, <1>2, <1>4 DEF SignInTyped
<1>6. SignInTyped' /\ Invited' /\ OfIssued'
  BY <1>1, <1>2, <1>3, <1>5 DEF SignInTyped, Invited, OfIssued
<1>7. Exchanged'
  <2>1. \A d \in Challenge : Closed(d)' <=> Closed(d)
    BY <1>2 DEF Closed
  <2>2. \A l \in Call, d \in Challenge : Consuming(l, d)' <=> Consuming(l, d) /\ l # k
    BY <1>3 DEF Consuming
  <2> QED BY <1>1, <1>4, <1>5, <2>1, <2>2 DEF Exchanged
<1>8. OneLive'
  BY <1>2, LiveKept
<1> QED BY <1>6, <1>7, <1>8 DEF SignInInv

\* What a wrong code, a refusal or a session that fails leaves behind.
LEMMA RefuseKeeps ==
  ASSUME SignInInv, NEW k \in Call, S!RefuseRequest(k) \/ S!RejectOtp(k) \/ S!SessionFails(k)
  PROVE  SignInInv'
<1> DEFINE c == call[k].challenge
<1>1. SignInTyped /\ Invited /\ OfIssued
  BY DEF SignInInv
<1>2. /\ \/ call' = [call EXCEPT ![k] = S!Answer("failed")]
         \/ call' = [call EXCEPT ![k] = S!Answer("rejected")]
      /\ \/ challenge' = challenge
         \/ c \in Challenge /\ challenge' = [challenge EXCEPT ![c] = S!Recorded(c)]
      /\ UNCHANGED <<deliveries, post, viewer, invitation, sessions, page>>
  BY <1>1 DEF S!RefuseRequest, S!RejectOtp, S!SessionFails, OfIssued
<1>3. /\ call' \in [Call -> Request] /\ call'[k].kind \in {"failed", "rejected"}
      /\ \A l \in Call \ {k} : call'[l] = call[l]
  BY <1>1, <1>2, AnswersTyped, CallMoves DEF CallKind
<1>4. /\ challenge' \in [Challenge -> ChallengeRow]
      /\ \A d \in Challenge :
           /\ challenge[d].state \notin S!Live \union {"unused"} =>
                challenge'[d].state = challenge[d].state
           /\ challenge'[d].state \in S!Live => challenge[d].state \in S!Live
  <2>1. challenge \in [Challenge -> ChallengeRow]
    BY <1>1 DEF SignInTyped
  <2>2. ASSUME c \in Challenge
        PROVE  /\ S!Recorded(c) \in ChallengeRow
               /\ challenge[c].state \notin S!Live => S!Recorded(c) = challenge[c]
    <3>1. S!Over("locked") \in ChallengeRow
      BY OverTyped
    <3>2. challenge[c] \in ChallengeRow
      BY <2>1, <2>2
    <3>3. challenge[c].failed < MaxAttempts =>
            [challenge[c] EXCEPT !.failed = @ + 1] \in ChallengeRow
      <4>1. challenge[c].failed < MaxAttempts => challenge[c].failed + 1 \in 0..MaxAttempts
        BY <3>2, AccessAssumption DEF ChallengeRow
      <4> QED BY <3>2, <4>1 DEF ChallengeRow
    <3>4. challenge[c].failed >= MaxAttempts \/ challenge[c].failed < MaxAttempts
      BY <3>2, AccessAssumption DEF ChallengeRow
    <3> QED BY <3>1, <3>2, <3>3, <3>4 DEF S!Recorded
  <2> QED BY <1>2, <2>1, <2>2
<1>5. SignInTyped' /\ Invited' /\ OfIssued'
  BY <1>1, <1>2, <1>3, <1>4 DEF SignInTyped, Invited, OfIssued
<1>6. Exchanged'
  BY <1>2, <1>3, <1>4, ExchangesKept
<1>7. OneLive'
  BY <1>4, LiveKept
<1> QED BY <1>5, <1>6, <1>7 DEF SignInInv

LEMMA RouteKeeps == ASSUME SignInInv, S!RouteNext PROVE SignInInv'
BY ChallengeKeeps, ConsumeKeeps, IssueKeeps, RefuseKeeps DEF S!RouteNext

-----------------------------------------------------------------------------
(* The delivery and the viewer.                                             *)

\* What S says of a row is what WorkRows says.
LEMMA RowsMove ==
  ASSUME NEW r \in Rows(DeliverAttempts)
  PROVE  /\ S!Row("done") \in Rows(DeliverAttempts) /\ S!Row("failed") \in Rows(DeliverAttempts)
         /\ S!CanClaim(r, DeliverAttempts) =>
              /\ S!Claimed(r) \in Rows(DeliverAttempts)
              /\ S!GivenBack(S!Claimed(r), DeliverAttempts) \in Rows(DeliverAttempts)
              /\ r.attempts + 1 \in S!Code
         /\ S!Lapsed(r) \in Rows(DeliverAttempts)
         /\ S!GivenBack(r, DeliverAttempts) \in Rows(DeliverAttempts)
<1>1. DeliverAttempts \in Nat
  BY AccessAssumption
<1>2. /\ CanClaim(r, DeliverAttempts) => /\ Claimed(r) \in Rows(DeliverAttempts)
                                         /\ r.attempts + 1 \in 1..DeliverAttempts
      /\ Lapsed(r) \in Rows(DeliverAttempts)
      /\ GivenBack(r, DeliverAttempts) \in Rows(DeliverAttempts)
  BY <1>1, RowsTyped
<1>3. CanClaim(r, DeliverAttempts) =>
        GivenBack(Claimed(r), DeliverAttempts) \in Rows(DeliverAttempts)
  BY <1>1, <1>2, RowsTyped
<1>4. S!Row("done") \in Rows(DeliverAttempts) /\ S!Row("failed") \in Rows(DeliverAttempts)
  BY <1>1 DEF S!Row, S!Columns, Rows
<1>5. /\ S!CanClaim(r, DeliverAttempts) <=> CanClaim(r, DeliverAttempts)
      /\ S!Claimed(r) = Claimed(r) /\ S!Lapsed(r) = Lapsed(r)
      /\ \A q : S!GivenBack(q, DeliverAttempts) = GivenBack(q, DeliverAttempts)
  BY DEF S!CanClaim, CanClaim, S!Claimed, Claimed, S!Lapsed, Lapsed, S!GivenBack, GivenBack,
     S!Columns, Columns
<1> QED BY <1>1, <1>2, <1>3, <1>4, <1>5 DEF S!Code

\* Neither a step of the delivery nor a lapse reopens a challenge that is over.
LEMMA RowKeeps ==
  ASSUME SignInInv, NEW c \in Challenge, NEW r \in ChallengeRow,
         challenge' = [challenge EXCEPT ![c] = r],
         challenge[c].state \notin S!Live => r = challenge[c],
         deliveries' \in [Challenge -> Rows(DeliverAttempts)],
         post' \in [Challenge -> {"none", "mailing", "mailed"}],
         UNCHANGED <<viewer, invitation, sessions, call, page>>
  PROVE  SignInInv'
<1>1. SignInTyped /\ OfIssued /\ Invited
  BY DEF SignInInv
<1>2. /\ challenge' \in [Challenge -> ChallengeRow]
      /\ \A d \in Challenge :
           /\ challenge[d].state \notin S!Live \union {"unused"} =>
                challenge'[d].state = challenge[d].state
           /\ challenge'[d].state \in S!Live => challenge[d].state \in S!Live
  BY <1>1 DEF SignInTyped
<1>3. SignInTyped' /\ OfIssued' /\ Invited'
  BY <1>1, <1>2 DEF SignInTyped, OfIssued, Invited
<1>4. Exchanged'
  BY <1>2, ExchangesKept
<1>5. OneLive'
  BY <1>2, LiveKept
<1> QED BY <1>3, <1>4, <1>5 DEF SignInInv

LEMMA DeliveryKeeps == ASSUME SignInInv, S!DeliveryNext PROVE SignInInv'
<1>1. /\ challenge \in [Challenge -> ChallengeRow]
      /\ deliveries \in [Challenge -> Rows(DeliverAttempts)]
      /\ post \in [Challenge -> {"none", "mailing", "mailed"}]
  BY DEF SignInInv, SignInTyped
<1>2. ASSUME NEW c \in Challenge, S!Deliver(c)
      PROVE  SignInInv'
  <2> DEFINE a == deliveries[c].attempts + 1
             r == IF S!Preparable(c) THEN S!Prepared(c, a) ELSE challenge[c]
  <2>1. challenge[c] \in ChallengeRow /\ deliveries[c] \in Rows(DeliverAttempts)
    BY <1>1
  <2>2. S!CanClaim(deliveries[c], DeliverAttempts)
    BY <1>2 DEF S!Deliver
  <2>3. a \in S!Code /\ S!Claimed(deliveries[c]) \in Rows(DeliverAttempts)
    BY <2>1, <2>2, RowsMove
  <2>4. S!Row("done") \in Rows(DeliverAttempts)
    BY <2>1, RowsMove
  <2>5. r \in ChallengeRow
    <3>1. [challenge[c] EXCEPT !.state = "pending", !.code = a, !.lapsed = FALSE] \in ChallengeRow
      BY <2>1, <2>3 DEF ChallengeRow, S!Live
    <3> QED BY <2>1, <3>1, OverTyped DEF S!Prepared
  <2>6. /\ challenge' = [challenge EXCEPT ![c] = r]
        /\ UNCHANGED <<viewer, invitation, sessions, call, page>>
        /\ \/ deliveries' = [deliveries EXCEPT ![c] = S!Claimed(deliveries[c])]
           \/ deliveries' = [deliveries EXCEPT ![c] = S!Row("done")]
        /\ post' = post \/ post' = [post EXCEPT ![c] = "mailing"]
    BY <1>2 DEF S!Deliver
  <2>7. /\ deliveries' \in [Challenge -> Rows(DeliverAttempts)]
        /\ post' \in [Challenge -> {"none", "mailing", "mailed"}]
    BY <1>1, <2>3, <2>4, <2>6
  <2>8. challenge[c].state \notin S!Live => r = challenge[c]
    BY DEF S!Preparable
  <2> QED BY <2>5, <2>6, <2>7, <2>8, RowKeeps
<1>3. ASSUME NEW c \in Challenge,
             S!Mail(c) \/ S!MailFails(c) \/ S!DeliverFails(c) \/ S!LoseLease(c)
      PROVE  SignInInv'
  <2>1. /\ UNCHANGED <<challenge, viewer, invitation, sessions, call, page>>
        /\ \/ post' = post \/ post' = [post EXCEPT ![c] = "mailed"]
           \/ post' = [post EXCEPT ![c] = "none"]
    BY <1>3 DEF S!Mail, S!MailFails, S!DeliverFails, S!LoseLease
  <2>2. /\ S!Row("done") \in Rows(DeliverAttempts)
        /\ S!GivenBack(deliveries[c], DeliverAttempts) \in Rows(DeliverAttempts)
        /\ S!Lapsed(deliveries[c]) \in Rows(DeliverAttempts)
        /\ S!CanClaim(deliveries[c], DeliverAttempts) =>
             S!GivenBack(S!Claimed(deliveries[c]), DeliverAttempts) \in Rows(DeliverAttempts)
    BY <1>1, RowsMove
  <2>3. \E q \in Rows(DeliverAttempts) : deliveries' = [deliveries EXCEPT ![c] = q]
    <3>1. CASE S!Mail(c)
      BY <1>1, <2>2, <3>1 DEF S!Mail
    <3>2. CASE S!MailFails(c)
      BY <1>1, <2>2, <3>2 DEF S!MailFails
    <3>3. CASE S!DeliverFails(c)
      BY <2>2, <3>3 DEF S!DeliverFails
    <3>4. CASE S!LoseLease(c)
      BY <2>2, <3>4 DEF S!LoseLease
    <3> QED BY <1>3, <3>1, <3>2, <3>3, <3>4
  <2>4. /\ deliveries' \in [Challenge -> Rows(DeliverAttempts)]
        /\ post' \in [Challenge -> {"none", "mailing", "mailed"}]
        /\ challenge' = [challenge EXCEPT ![c] = challenge[c]]
        /\ challenge[c] \in ChallengeRow
    BY <1>1, <2>1, <2>3
  <2> QED BY <2>1, <2>4, RowKeeps
<1>4. ASSUME NEW c \in Challenge, S!Sweep(c)
      PROVE  SignInInv'
  <2>1. /\ UNCHANGED <<post, viewer, invitation, sessions, call, page>>
        /\ challenge' = [challenge EXCEPT ![c] = S!FailExhausted(c)]
        /\ deliveries' = [deliveries EXCEPT ![c] = S!Row("failed")]
    BY <1>4 DEF S!Sweep
  <2>2. /\ S!FailExhausted(c) \in ChallengeRow
        /\ challenge[c].state \notin S!Live => S!FailExhausted(c) = challenge[c]
    BY <1>1, OverTyped DEF S!FailExhausted
  <2>3. deliveries' \in [Challenge -> Rows(DeliverAttempts)]
    BY <1>1, <2>1, RowsMove
  <2> QED BY <1>1, <2>1, <2>2, <2>3, RowKeeps
<1>5. ASSUME NEW c \in Challenge, S!CodeLapses(c)
      PROVE  SignInInv'
  <2> DEFINE r == [challenge[c] EXCEPT !.lapsed = TRUE]
  <2>1. /\ UNCHANGED <<deliveries, post, viewer, invitation, sessions, call, page>>
        /\ challenge' = [challenge EXCEPT ![c] = r]
        /\ challenge[c].state = "pending"
    BY <1>1, <1>5 DEF S!CodeLapses
  <2>2. r \in ChallengeRow
    BY <1>1 DEF ChallengeRow
  <2> QED BY <1>1, <2>1, <2>2, RowKeeps DEF S!Live
<1> QED BY <1>2, <1>3, <1>4, <1>5 DEF S!DeliveryNext

LEMMA ViewerKeeps == ASSUME SignInInv, S!ViewerNext PROVE SignInInv'
<1>1. SignInTyped /\ OfIssued /\ Invited /\ Exchanged /\ OneLive
  BY DEF SignInInv
<1>2. CASE S!Invite \/ S!InvitationLapses
  <2>1. /\ UNCHANGED <<challenge, deliveries, post, sessions, call, page>>
        /\ viewer' \in {viewer, "active"}
        /\ viewer' = viewer \/ viewer # "anonymized"
        /\ \/ invitation' = [invitation EXCEPT !.pending = "open"]
           \/ invitation' = [invitation EXCEPT !.pending = "lapsed"]
    BY <1>2 DEF S!Invite, S!InvitationLapses
  <2>2. /\ invitation' \in [accepted : BOOLEAN, pending : {"none", "open", "lapsed"}]
        /\ invitation'.accepted = invitation.accepted /\ invitation'.pending # "none"
    BY <1>1, <2>1 DEF SignInTyped
  <2>3. SignInTyped' /\ OfIssued' /\ Invited'
    BY <1>1, <2>1, <2>2 DEF SignInTyped, OfIssued, Invited
  <2>4. Exchanged' /\ OneLive'
    BY <2>1, <2>2, ExchangesKept, LiveKept
  <2> QED BY <2>3, <2>4 DEF SignInInv
<1>3. CASE S!Anonymise
  <2>1. /\ viewer' = "anonymized" /\ invitation' = [accepted |-> FALSE, pending |-> "none"]
        /\ challenge' = [c \in Challenge |->
             IF challenge[c].viewer THEN S!Over("invalidated") ELSE challenge[c]]
        /\ sessions' = [c \in Challenge |-> 0]
        /\ UNCHANGED <<deliveries, post, call, page>>
    BY <1>3 DEF S!Anonymise
  <2>2. /\ challenge' \in [Challenge -> ChallengeRow]
        /\ \A c \in Challenge : challenge'[c].state \in {challenge[c].state, "invalidated"}
    BY <1>1, <2>1, OverTyped DEF SignInTyped
  <2>3. SignInTyped' /\ OfIssued' /\ Invited'
    BY <1>1, <2>1, <2>2 DEF SignInTyped, OfIssued, Invited
  <2>4. Exchanged'
    <3>1. \A c \in Challenge : Closed(c) => Closed(c)'
      BY <1>1, <2>1, <2>2 DEF Closed, S!Live, SignInTyped
    <3>2. \A k \in Call, c \in Challenge : Consuming(k, c)' <=> Consuming(k, c)
      BY <2>1 DEF Consuming
    <3> QED BY <1>1, <2>1, <3>1, <3>2 DEF Exchanged
  <2>5. OneLive'
    BY <1>1, <2>2 DEF OneLive, S!Live
  <2> QED BY <2>3, <2>4, <2>5 DEF SignInInv
<1> QED BY <1>2, <1>3 DEF S!ViewerNext

LEMMA SignInStepKeeps == ASSUME SignInInv, [S!Next]_(S!vars) PROVE SignInInv'
<1>1. CASE UNCHANGED S!vars
  BY <1>1 DEF S!vars, SignInInv, SignInTyped, OfIssued, Invited, Exchanged, Closed, Consuming,
     OneLive
<1>2. CASE S!Next
  BY <1>2, PageKeeps, RouteKeeps, DeliveryKeeps, ViewerKeeps DEF S!Next
<1> QED BY <1>1, <1>2

LEMMA SignInKept == S!Init /\ [][S!Next]_(S!vars) => []SignInInv
<1>1. SignInInv /\ [S!Next]_(S!vars) => SignInInv'
  BY SignInStepKeeps
<1> QED BY <1>1, SignInInitially, PTL

\* A code gives one session at most, an address has one live challenge at most, and who is
\* signed in has accepted an invitation with a code that is spent, however submissions, lost
\* answers, resends, repeated deliveries, lapses and an anonymisation interleave
\* (consumeOtp, issueSession, otp-delivery.ts, accept_viewer_invitation).
THEOREM CodesSignInOnce == S!Init /\ [][S!Next]_(S!vars) => []SignInSound
<1>1. SignInInv => SignInSound
  BY SignInPromise
<1> QED BY <1>1, SignInKept, PTL

-----------------------------------------------------------------------------
(* The three beside each other.                                             *)

\* Where one moves, the others stay as they were.
LEMMA OneMoves ==
  ASSUME [AccessNext]_<<vars, signInVars, grantVars>>
  PROVE  [Next]_vars /\ [S!Next]_(S!vars) /\ [G!Next]_(G!vars)
<1>1. S!vars = signInVars /\ G!vars = grantVars
  BY DEF S!vars, signInVars, G!vars, grantVars
<1>2. S!vars' = signInVars' /\ G!vars' = grantVars'
  BY DEF S!vars, signInVars, G!vars, grantVars
<1>3. CASE UNCHANGED <<vars, signInVars, grantVars>>
  BY <1>1, <1>2, <1>3
<1>4. CASE Next /\ UNCHANGED <<signInVars, grantVars>>
  BY <1>1, <1>2, <1>4
<1>5. CASE S!Next /\ UNCHANGED <<vars, grantVars>>
  BY <1>1, <1>2, <1>5
<1>6. CASE G!Next /\ UNCHANGED <<vars, signInVars>>
  BY <1>1, <1>2, <1>6
<1> QED BY <1>3, <1>4, <1>5, <1>6 DEF AccessNext

\* The variables of all three have their types.
THEOREM AccessTypeCorrect == ASSUME WatermarkAssumption PROVE AccessSpec => []TypesOK
<1>1. AccessInit => TypeOK /\ GrantInv /\ SignInInv
  BY InitTyped, GrantInitially, SignInInitially DEF AccessInit
<1>2. /\ TypeOK /\ GrantInv /\ SignInInv
      /\ [AccessNext]_<<vars, signInVars, grantVars>>
      => (TypeOK /\ GrantInv /\ SignInInv)'
  BY OneMoves, StepTyped, GrantStepKeeps, SignInStepKeeps
<1>3. TypeOK /\ GrantInv /\ SignInInv => TypesOK
  BY SignInTypes DEF TypesOK, GrantInv
<1> QED BY <1>1, <1>2, <1>3, PTL DEF AccessSpec
=============================================================================
