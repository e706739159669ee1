---------------------------- MODULE DeliveryProofs ----------------------------
(***************************************************************************)
(* Theorems about what is behind a page once it may be shown: the evidence *)
(* of a preview, for any tabs, pages and bounds of the clock; the lease of *)
(* a download, for any number of requests and of bytes; the converters'    *)
(* sandbox, for any compositions, validations, slots and identities; and   *)
(* the viewer's reading room, for any documents and versions.              *)
(***************************************************************************)
EXTENDS MCDelivery, WorkRowsProofs, Sequences

(* Preview evidence.                                                        *)

RunPC == {"gone", "claimed", "return", "throw"}

\* The instants of an activity are in order, and a call takes no time.
InOrder ==
  /\ started <= heartbeat /\ heartbeat <= clock
  /\ \A t \in Tab : tab[t] \in {"reactivate", "select"} => clock <= LastRequest

\* The row of a finalizer is of an instant that has been, and claimed once it is due; one that
\* is at work holds its lease.
FinalizerSound(k) ==
  /\ job[k].stage # "absent" => activity # "none" /\ k <= heartbeat
  /\ job[k].stage \notin {"absent", "queued"} => DueAt(k) <= clock
  /\ job[k].stage = "failed" => job[k].attempts = FinalizeAttempts
  /\ job[k].stage # "deleted"
  /\ job[k].live # 0 => job[k].stage = "running"
  /\ run[k] # "gone" => job[k].live # 0

\* A finalizer that has done its work under the heartbeat it was queued for has ended the
\* activity.
Answered(k) ==
  (job[k].stage = "done" \/ run[k] = "return") /\ heartbeat = k => activity # "active"

\* Somebody will come, unless a finalizer has used up its attempts.
ChainHolds ==
  activity = "active" => \E k \in Key : Coming(k) \/ job[k].stage = "failed"

PreviewInv ==
  /\ TypeOK /\ InOrder /\ EvidenceExact /\ DeliveredIsReported /\ ChainHolds
  /\ \A k \in Key : FinalizerSound(k) /\ Answered(k)

LEMMA KeyFacts ==
  /\ Initial \in Key /\ Initial = -1 /\ \A k \in Key : k \in Int
  /\ \A k \in 0..LastRequest : k \in Key /\ k # Initial /\ DueAt(k) = Timeout + k
  /\ \A k \in Key : k # Initial => k \in 0..LastRequest
BY PreviewAssumption DEF Initial, Key, DueAt

LEMMA PreviewInitially == ASSUME Init PROVE PreviewInv
<1>1. TypeOK
  <2>1. 0 \in 0..LastRequest /\ 0 \in 0..Horizon
    BY PreviewAssumption DEF Horizon
  <2>2. job \in [Key -> Rows(FinalizeAttempts)]
    BY PreviewAssumption DEF Init, Absent, Row, Columns, Rows
  <2> QED BY <2>1, <2>2 DEF Init, TypeOK
<1>2. InOrder /\ EvidenceExact /\ DeliveredIsReported /\ ChainHolds
  BY DEF Init, InOrder, EvidenceExact, DeliveredIsReported, ChainHolds
<1>3. \A k \in Key : FinalizerSound(k) /\ Answered(k)
  BY DEF Init, FinalizerSound, Answered, Absent, Row, Columns
<1> QED BY <1>1, <1>2, <1>3 DEF PreviewInv

\* What the invariant promises.
LEMMA PreviewPromise == ASSUME PreviewInv PROVE EvidenceSound
<1>1. ASSUME NEW k \in Key, job[k].stage # "absent"
      PROVE  DueAt(k) <= heartbeat + Timeout
  BY <1>1, KeyFacts, PreviewAssumption DEF PreviewInv, FinalizerSound, InOrder, TypeOK, DueAt
<1>2. ActiveHasFinalizer
  BY <1>1 DEF PreviewInv, ChainHolds, ActiveHasFinalizer, Coming, OnLastAttempt, FinalizerSound
<1> QED BY <1>2 DEF PreviewInv, EvidenceSound

\* Queueing a finalizer leaves the row of a key that has one.
LEMMA QueuedOnce ==
  ASSUME TypeOK, NEW k \in Key
  PROVE  /\ QueuedFor(k) \in [Key -> Rows(FinalizeAttempts)]
         /\ job[k].stage = "absent" => QueuedFor(k)[k] = Queued
         /\ job[k].stage # "absent" => QueuedFor(k) = job
         /\ \A l \in Key \ {k} : QueuedFor(k)[l] = job[l]
<1>1. Queued \in Rows(FinalizeAttempts)
  BY PreviewAssumption DEF Queued, Row, Columns, Rows
<1> QED BY <1>1 DEF QueuedFor, TypeOK

\* What the tabs, the clock and the purge do to the rows: nothing, but for one that is queued.
LEMMA KeysKept ==
  ASSUME PreviewInv, UNCHANGED run,
         heartbeat' \in 0..LastRequest, started' \in 0..LastRequest, clock' \in 0..Horizon,
         heartbeat <= heartbeat', clock <= clock',
         heartbeat' = heartbeat \/ heartbeat' = clock,
         started' = started \/ activity = "none",
         activity # "none" => activity' # "none",
         activity' = "active" => activity = "active" \/ heartbeat' = clock,
         job' = job \/ \E l \in Key : job' = QueuedFor(l) /\ l <= heartbeat' /\ activity' # "none"
  PROVE  \A k \in Key : (FinalizerSound(k) /\ Answered(k))'
<1> SUFFICES ASSUME NEW k \in Key
             PROVE  (FinalizerSound(k) /\ Answered(k))'
  OBVIOUS
<1>1. /\ FinalizerSound(k) /\ Answered(k) /\ TypeOK
      /\ job[k] \in Rows(FinalizeAttempts) /\ run[k] \in RunPC
      /\ heartbeat \in Int /\ clock \in Int /\ started \in Int /\ k \in Int /\ Timeout \in Int
      /\ heartbeat' \in Int /\ clock' \in Int /\ started' \in Int /\ Timeout > 0
  BY KeyFacts, PreviewAssumption DEF PreviewInv, TypeOK, RunPC, Horizon
<1>2. \/ job'[k] = job[k]
      \/ job[k].stage = "absent" /\ job'[k] = Queued /\ k <= heartbeat' /\ activity' # "none"
  BY <1>1, QueuedOnce
<1>3. CASE job'[k] = job[k]
  <2>1. activity = "none" => job[k].stage = "absent"
    BY <1>1 DEF FinalizerSound
  <2>2. job[k].stage # "absent" => DueAt(k)' = DueAt(k)
    BY <2>1 DEF DueAt
  <2>3. DueAt(k) \in Int
    BY <1>1 DEF DueAt
  <2>4. FinalizerSound(k)'
    BY <1>1, <1>3, <2>1, <2>2, <2>3 DEF FinalizerSound
  <2>5. Answered(k)'
    <3>1. CASE heartbeat' = heartbeat /\ (activity' = "active" => activity = "active")
      BY <1>1, <1>3, <3>1 DEF Answered
    <3>2. CASE heartbeat' = clock
      <4>1. ASSUME heartbeat' = k, job[k].stage = "done" \/ run[k] = "return"
            PROVE  FALSE
        <5>1. job[k].stage \in {"done", "running"}
          BY <1>1, <4>1 DEF FinalizerSound
        <5>2. DueAt(k) <= clock
          BY <1>1, <5>1 DEF FinalizerSound
        <5>3. k # Initial
          BY <4>1, KeyFacts
        <5> QED BY <1>1, <3>2, <4>1, <5>2, <5>3 DEF DueAt
      <4> QED BY <1>1, <1>3, <4>1 DEF Answered
    <3> QED BY <3>1, <3>2
  <2> QED BY <2>4, <2>5
<1>4. CASE job[k].stage = "absent" /\ job'[k] = Queued /\ k <= heartbeat' /\ activity' # "none"
  <2>1. run'[k] = "gone" /\ job'[k].stage = "queued" /\ job'[k].live = 0
    BY <1>1, <1>4 DEF FinalizerSound, Queued, Row, Columns
  <2> QED BY <1>4, <2>1 DEF FinalizerSound, Answered
<1> QED BY <1>2, <1>3, <1>4

\* A row that is there and has not ended is one that will be looked at.
LEMMA ComingOrAnswered ==
  ASSUME PreviewInv, NEW k \in Key, job[k].stage # "absent"
  PROVE  \/ Coming(k) \/ job[k].stage = "failed"
         \/ job[k].stage = "done" \/ run[k] = "return"
BY DEF PreviewInv, TypeOK, FinalizerSound, Coming, Rows

LEMMA TickKeeps == ASSUME PreviewInv, Tick \/ PurgeSession PROVE PreviewInv'
<1>1. TypeOK /\ InOrder /\ EvidenceExact /\ DeliveredIsReported /\ ChainHolds
  BY DEF PreviewInv
<1>2. clock \in Int /\ Horizon \in Int
  BY <1>1, PreviewAssumption DEF TypeOK, Horizon
<1>3. /\ clock' \in 0..Horizon /\ clock <= clock'
      /\ UNCHANGED <<started, heartbeat, pages, eventVars, tab, jobVars>>
      /\ activity' = activity \/ (activity \notin {"none", "active"} /\ activity' = "purged")
  BY <1>1, <1>2 DEF Tick, PurgeSession, TypeOK, rowVars
<1>4. TypeOK'
  BY <1>1, <1>3 DEF TypeOK, eventVars, jobVars
<1>5. InOrder'
  <2>1. \A t \in Tab : tab[t] \in {"idle", "open"}
    BY DEF Tick, PurgeSession
  <2> QED BY <1>1, <1>2, <1>3, <2>1 DEF InOrder, TypeOK
<1>6. EvidenceExact' /\ DeliveredIsReported' /\ ChainHolds'
  BY <1>1, <1>3 DEF EvidenceExact, DeliveredIsReported, ChainHolds, Coming, eventVars, jobVars
<1>7. \A k \in Key : (FinalizerSound(k) /\ Answered(k))'
  <2>1. /\ heartbeat' = heartbeat /\ heartbeat \in 0..LastRequest /\ started \in 0..LastRequest
        /\ started' = started /\ job' = job /\ run' = run
        /\ activity' = "active" => activity = "active"
        /\ activity # "none" => activity' # "none"
    BY <1>1, <1>3 DEF TypeOK, jobVars
  <2> QED BY <1>3, <2>1, KeysKept
<1> QED BY <1>4, <1>5, <1>6, <1>7 DEF PreviewInv

\* A tab that opens the activity, or finds it open: who opens it queues a finalizer for now.
LEMMA BeginKeeps ==
  ASSUME PreviewInv, NEW t \in Tab, InsertActivity(t) \/ Reactivate(t) \/ HandBack(t)
  PROVE  PreviewInv'
<1>1. TypeOK /\ InOrder /\ EvidenceExact /\ DeliveredIsReported /\ ChainHolds
  BY DEF PreviewInv
<1>2. /\ clock \in 0..Horizon /\ clock <= LastRequest /\ clock \in 0..LastRequest
  BY <1>1, PreviewAssumption DEF TypeOK, InOrder, InsertActivity, Reactivate, HandBack, Asking,
     Horizon
<1>3. /\ UNCHANGED <<clock, pages, reported, run>>
      /\ \E place \in {"reactivate", "select", "open"} : TabGoto(t, place)
  BY DEF InsertActivity, Reactivate, HandBack, rowVars, eventVars, jobVars
<1>4. tab' \in [Tab -> {"idle", "reactivate", "select", "open"}]
  BY <1>1, <1>3 DEF TypeOK, TabGoto
<1>5. CASE UNCHANGED <<activity, started, heartbeat, starts, owed, job>>
  <2>1. TypeOK' /\ InOrder'
    BY <1>1, <1>2, <1>3, <1>4, <1>5 DEF TypeOK, InOrder
  <2>2. EvidenceExact' /\ DeliveredIsReported' /\ ChainHolds'
    BY <1>1, <1>3, <1>5 DEF EvidenceExact, DeliveredIsReported, ChainHolds, Coming
  <2>3. \A k \in Key : (FinalizerSound(k) /\ Answered(k))'
    BY <1>1, <1>2, <1>3, <1>5, KeysKept DEF TypeOK
  <2> QED BY <2>1, <2>2, <2>3 DEF PreviewInv
<1>6. ASSUME NEW k \in Key, job' = QueuedFor(k), activity' = "active", activity # "active",
             heartbeat' = clock, started' \in {started, clock},
             started' = started \/ activity = "none",
             starts' = 1, owed' = owed + 1,
             k = clock \/ (k = Initial /\ activity = "none")
      PROVE  PreviewInv'
  <2>1. TypeOK'
    BY <1>1, <1>2, <1>3, <1>4, <1>6, QueuedOnce DEF TypeOK
  <2>2. InOrder'
    BY <1>1, <1>2, <1>3, <1>6 DEF InOrder, TypeOK
  <2>3. EvidenceExact' /\ DeliveredIsReported'
    BY <1>1, <1>3, <1>6 DEF EvidenceExact, DeliveredIsReported
  <2>4. k <= heartbeat' /\ heartbeat <= heartbeat'
    BY <1>1, <1>2, <1>6, KeyFacts DEF InOrder, TypeOK
  <2>5. \A l \in Key : (FinalizerSound(l) /\ Answered(l))'
    BY <1>1, <1>2, <1>3, <1>6, <2>1, <2>4, KeysKept DEF TypeOK
  <2>6. ChainHolds'
    <3>1. job[k].stage = "absent" => job'[k].stage = "queued"
      BY <1>1, <1>6, QueuedOnce DEF Queued, Row, Columns
    <3>2. job[k].stage # "absent" => job'[k] = job[k]
      BY <1>1, <1>6, QueuedOnce
    <3>3. (job[k].stage = "done" \/ run[k] = "return") => FALSE
      <4>1. FinalizerSound(k)
        BY DEF PreviewInv
      <4>2. k = clock => DueAt(k) > clock
        BY <1>2, KeyFacts, PreviewAssumption
      <4>3. DueAt(k) \in Int /\ clock \in Int
        BY <1>1, <1>2, KeyFacts, PreviewAssumption DEF DueAt, TypeOK
      <4>4. CASE k = clock
        BY <4>1, <4>2, <4>3, <4>4 DEF FinalizerSound
      <4>5. CASE activity = "none"
        BY <4>1, <4>5 DEF FinalizerSound
      <4> QED BY <1>6, <4>4, <4>5
    <3>4. job[k].stage # "absent" => Coming(k) \/ job[k].stage = "failed"
      BY <3>3, ComingOrAnswered
    <3> QED BY <1>3, <3>1, <3>2, <3>4 DEF ChainHolds, Coming
  <2> QED BY <2>1, <2>2, <2>3, <2>5, <2>6 DEF PreviewInv
<1>7. CASE InsertActivity(t) /\ activity = "none"
  <2>1. starts = 0
    BY <1>1, <1>7 DEF EvidenceExact
  <2> QED BY <1>2, <1>6, <1>7, <2>1, KeyFacts DEF InsertActivity
<1>8. CASE Reactivate(t) /\ Ended
  <2>1. starts = 1 /\ activity # "active" /\ activity # "none"
    BY <1>1, <1>8 DEF EvidenceExact, Ended
  <2>2. /\ activity' = "active" /\ heartbeat' = clock /\ owed' = owed + 1
        /\ job' = QueuedFor(clock) /\ UNCHANGED <<started, starts>>
    BY <1>8 DEF Reactivate, ReopenedJobs
  <2> QED BY <1>2, <1>6, <2>1, <2>2, KeyFacts
<1> QED BY <1>5, <1>7, <1>8 DEF InsertActivity, Reactivate, HandBack, rowVars, eventVars, jobVars

\* What an open tab asks for while the activity is open.
LEMMA ReadKeeps ==
  ASSUME PreviewInv, NEW t \in Tab,
         \/ Heartbeat(t) \/ \E p \in Page : DeliverPage(t, p)
         \/ \E state \in {"closed", "inactive"} : Summarize(t, state)
  PROVE  PreviewInv'
<1>1. TypeOK /\ InOrder /\ EvidenceExact /\ DeliveredIsReported /\ ChainHolds
  BY DEF PreviewInv
<1>2. /\ activity = "active" /\ clock \in 0..Horizon /\ clock \in 0..LastRequest
      /\ UNCHANGED <<clock, started, starts, job, run>>
  BY <1>1 DEF TypeOK, Heartbeat, DeliverPage, Summarize, Summarized, Recordable, Asking, rowVars,
     eventVars, jobVars
<1>3. /\ heartbeat' \in 0..LastRequest /\ heartbeat <= heartbeat' /\ heartbeat' <= clock
      /\ heartbeat' = heartbeat \/ heartbeat' = clock
  BY <1>1, <1>2 DEF TypeOK, InOrder, Heartbeat, DeliverPage, Summarize, Summarized
<1>4. /\ activity' \in {"active", "closed", "inactive"}
      /\ pages' \in SUBSET Page /\ reported' \in SUBSET Page /\ owed' \in Int
      /\ tab' \in [Tab -> {"idle", "reactivate", "select", "open"}]
      /\ \A u \in Tab : tab'[u] \in {tab[u], "idle"}
  BY <1>1, <1>2 DEF TypeOK, Heartbeat, DeliverPage, Summarize, Summarized, TabGoto, eventVars
<1>5. TypeOK' /\ InOrder'
  BY <1>1, <1>2, <1>3, <1>4 DEF TypeOK, InOrder
<1>6. EvidenceExact'
  BY <1>1, <1>2 DEF EvidenceExact, Heartbeat, DeliverPage, Summarize, Summarized, eventVars
<1>7. DeliveredIsReported'
  BY <1>1, <1>2 DEF DeliveredIsReported, Heartbeat, DeliverPage, Summarize, Summarized
<1>8. \A k \in Key : (FinalizerSound(k) /\ Answered(k))'
  <2>1. started' \in 0..LastRequest /\ clock' \in 0..Horizon /\ clock <= clock'
    BY <1>1, <1>2 DEF TypeOK, Horizon
  <2> QED BY <1>2, <1>3, <1>4, <2>1, KeysKept
<1>9. ChainHolds'
  BY <1>1, <1>2 DEF ChainHolds, Coming
<1> QED BY <1>5, <1>6, <1>7, <1>8, <1>9 DEF PreviewInv

\* The row of k moves on, and with it its run; the activity does not.
LEMMA RunKeeps ==
  ASSUME PreviewInv, NEW k \in Key, NEW r \in Rows(FinalizeAttempts), NEW place \in RunPC,
         job' = [job EXCEPT ![k] = r], run' = [run EXCEPT ![k] = place],
         UNCHANGED <<clock, rowVars, eventVars, tab>>,
         r.stage \notin {"absent", "deleted"}, job[k].stage # "absent",
         r.stage # "queued" => DueAt(k) <= clock,
         r.stage = "failed" => r.attempts = FinalizeAttempts,
         r.live # 0 => r.stage = "running",
         place # "gone" => r.live # 0,
         r.stage = "done" => run[k] = "return" \/ job[k].stage = "done",
         place = "return" => run[k] = "return"
  PROVE  PreviewInv'
<1>1. TypeOK /\ InOrder /\ EvidenceExact /\ DeliveredIsReported /\ ChainHolds
  BY DEF PreviewInv
<1>2. /\ job' \in [Key -> Rows(FinalizeAttempts)] /\ run' \in [Key -> RunPC]
      /\ job'[k] = r /\ run'[k] = place
      /\ \A l \in Key \ {k} : job'[l] = job[l] /\ run'[l] = run[l]
  BY <1>1 DEF TypeOK, RunPC
<1>3. TypeOK' /\ InOrder' /\ EvidenceExact' /\ DeliveredIsReported'
  BY <1>1, <1>2 DEF TypeOK, InOrder, EvidenceExact, DeliveredIsReported, rowVars, eventVars, RunPC
<1>4. \A l \in Key : (FinalizerSound(l) /\ Answered(l))'
  <2>1. ASSUME NEW l \in Key
        PROVE  FinalizerSound(l) /\ Answered(l) /\ DueAt(l)' = DueAt(l)
    BY DEF PreviewInv, DueAt, rowVars
  <2>2. FinalizerSound(k)' /\ Answered(k)'
    BY <1>2, <2>1 DEF FinalizerSound, Answered, rowVars
  <2>3. ASSUME NEW l \in Key \ {k}
        PROVE  FinalizerSound(l)' /\ Answered(l)'
    BY <1>2, <2>1 DEF FinalizerSound, Answered, rowVars
  <2> QED BY <2>2, <2>3
<1>5. ChainHolds'
  <2>1. ASSUME activity = "active"
        PROVE  \E l \in Key : (Coming(l) \/ job[l].stage = "failed")'
    <3>1. CASE r.stage \in {"queued", "running", "failed"} /\ place # "return"
      BY <1>2, <3>1 DEF Coming
    <3>2. CASE r.stage = "done" \/ place = "return"
      <4>1. ~Coming(k) /\ job[k].stage # "failed"
        BY <3>2 DEF Coming, PreviewInv, FinalizerSound
      <4>2. PICK l \in Key : Coming(l) \/ job[l].stage = "failed"
        BY <1>1, <2>1 DEF ChainHolds
      <4> QED BY <1>2, <4>1, <4>2 DEF Coming
    <3> QED BY <3>1, <3>2 DEF Rows
  <2> QED BY <2>1 DEF ChainHolds, rowVars
<1> QED BY <1>3, <1>4, <1>5 DEF PreviewInv

LEMMA RowKeeps ==
  ASSUME PreviewInv, NEW k \in Key,
         ClaimFinalizer(k) \/ SettleFinalizer(k) \/ WorkerDies(k) \/ LoseLease(k)
           \/ ExhaustFinalizer(k)
  PROVE  PreviewInv'
<1>1. /\ FinalizerSound(k) /\ job \in [Key -> Rows(FinalizeAttempts)] /\ run \in [Key -> RunPC]
      /\ job[k] \in Rows(FinalizeAttempts) /\ FinalizeAttempts \in Nat
      /\ job[k] = [job[k] EXCEPT !.live = @]
  BY PreviewAssumption DEF PreviewInv, TypeOK, RunPC, Rows
<1>2. CASE ClaimFinalizer(k)
  <2> DEFINE r == Claimed(job[k])
  <2>1. /\ r \in Rows(FinalizeAttempts) /\ job[k].stage # "absent"
        /\ job[k].attempts + 1 \in 1..FinalizeAttempts
    BY <1>1, <1>2, RowsTyped DEF ClaimFinalizer, CanClaim
  <2>2. r.stage = "running" /\ r.live # 0
    BY <1>1, <2>1 DEF Claimed, Columns, Rows
  <2>3. DueAt(k) <= clock
    BY <1>1, <1>2 DEF ClaimFinalizer, CanClaim, FinalizerSound
  <2>4. "claimed" \in RunPC
    BY DEF RunPC
  <2> QED BY <1>2, <2>1, <2>2, <2>3, <2>4, RunKeeps DEF ClaimFinalizer, RunGoto
<1>3. CASE SettleFinalizer(k)
  <2> DEFINE r == IF run[k] = "return" THEN Completed(job[k])
                  ELSE GivenBack(job[k], FinalizeAttempts)
  <2>1. r \in Rows(FinalizeAttempts) /\ job[k].stage = "running"
    BY <1>1, <1>3, RowsTyped DEF SettleFinalizer, FinalizerSound
  <2>2. /\ r.stage \in {"done", "running", "queued"} /\ r.live = 0
        /\ r.stage = "done" => run[k] = "return"
        /\ DueAt(k) <= clock
    BY <1>1, <2>1 DEF Completed, GivenBack, Columns, FinalizerSound
  <2>3. job' = [job EXCEPT ![k] = r]
    BY <1>3 DEF SettleFinalizer
  <2>4. "gone" \in RunPC
    BY DEF RunPC
  <2> QED BY <1>3, <2>1, <2>2, <2>3, <2>4, RunKeeps DEF SettleFinalizer, RunGoto
<1>4. CASE WorkerDies(k)
  <2>1. job[k].stage = "running" /\ DueAt(k) <= clock
    BY <1>1, <1>4 DEF WorkerDies, FinalizerSound
  <2>2. job' = [job EXCEPT ![k] = job[k]]
    BY <1>1, <1>4 DEF WorkerDies
  <2>3. "gone" \in RunPC
    BY DEF RunPC
  <2> QED BY <1>1, <1>4, <2>1, <2>2, <2>3, RunKeeps DEF WorkerDies, RunGoto
<1>5. CASE LoseLease(k)
  <2> DEFINE r == Lapsed(job[k])
  <2>1. /\ r \in Rows(FinalizeAttempts) /\ r.stage = "running" /\ r.live = 0
        /\ job[k].stage = "running" /\ DueAt(k) <= clock
    BY <1>1, <1>5, RowsTyped DEF LoseLease, FinalizerSound, Lapsed, Rows
  <2>2. "gone" \in RunPC
    BY DEF RunPC
  <2> QED BY <1>5, <2>1, <2>2, RunKeeps DEF LoseLease, RunGoto
<1>6. CASE ExhaustFinalizer(k)
  <2> DEFINE r == Buried(job[k])
  <2>1. /\ r \in Rows(FinalizeAttempts) /\ r.stage = "failed" /\ r.live = 0
        /\ r.attempts = FinalizeAttempts
        /\ job[k].stage = "running" /\ DueAt(k) <= clock /\ run[k] = "gone"
    BY <1>1, <1>6, RowsTyped DEF ExhaustFinalizer, Spent, FinalizerSound, Buried, Rows
  <2>2. run' = [run EXCEPT ![k] = "gone"] /\ "gone" \in RunPC
    BY <1>1, <1>6, <2>1 DEF ExhaustFinalizer, RunPC
  <2> QED BY <1>6, <2>1, <2>2, RunKeeps DEF ExhaustFinalizer
<1> QED BY <1>2, <1>3, <1>4, <1>5, <1>6

\* The one call of a finalizer: it ends an activity that is silent, or queues the next for the
\* heartbeat that came since.
LEMMA FinalizeKeeps == ASSUME PreviewInv, NEW k \in Key, FinalizeOrReschedule(k) PROVE PreviewInv'
<1>1. /\ TypeOK /\ InOrder /\ EvidenceExact /\ DeliveredIsReported /\ ChainHolds
      /\ FinalizerSound(k) /\ run[k] = "claimed" /\ clock \in Int /\ heartbeat \in Int
      /\ started \in Int
  BY PreviewAssumption DEF PreviewInv, FinalizeOrReschedule, TypeOK, Horizon
<1>2. /\ UNCHANGED <<clock, tab, started, heartbeat, pages, starts>>
      /\ \E place \in {"return", "throw"} : run' = [run EXCEPT ![k] = place]
      /\ job' = job \/ (job' = QueuedFor(heartbeat) /\ activity = "active" /\ ~Silent)
  BY DEF FinalizeOrReschedule, Summarized, rowVars, eventVars, SuccessorKey, RunGoto
<1>3. /\ run' \in [Key -> RunPC] /\ run'[k] \in {"return", "throw"}
      /\ \A l \in Key \ {k} : run'[l] = run[l]
  BY <1>1, <1>2 DEF TypeOK, RunPC
<1>4. /\ heartbeat \in Key /\ heartbeat # Initial /\ DueAt(heartbeat) = Timeout + heartbeat
      /\ heartbeat \in 0..LastRequest
  BY <1>1, KeyFacts DEF TypeOK
<1>5. /\ job[k].stage = "running" /\ job[k].live # 0 /\ DueAt(k) <= clock
  BY <1>1 DEF FinalizerSound
<1>6. heartbeat = k => Silent
  BY <1>1, <1>4, <1>5, PreviewAssumption DEF Silent
<1>7. \/ UNCHANGED <<activity, owed, reported>>
      \/ /\ activity = "active" /\ activity' = "inactive" /\ owed' = owed - 1
         /\ reported' = pages /\ job' = job
  BY <1>1 DEF FinalizeOrReschedule, Summarized, Abandoned, rowVars, eventVars, Silent
<1>8. job' \in [Key -> Rows(FinalizeAttempts)]
  BY <1>1, <1>2, <1>4, QueuedOnce DEF TypeOK
<1>9. TypeOK' /\ InOrder' /\ EvidenceExact' /\ DeliveredIsReported'
  <2>1. CASE UNCHANGED <<activity, owed, reported>>
    BY <1>1, <1>2, <1>3, <1>8, <2>1 DEF TypeOK, InOrder, EvidenceExact, DeliveredIsReported, RunPC
  <2>2. CASE /\ activity = "active" /\ activity' = "inactive" /\ owed' = owed - 1
             /\ reported' = pages
    BY <1>1, <1>2, <1>3, <1>8, <2>2 DEF TypeOK, InOrder, EvidenceExact, DeliveredIsReported, RunPC
  <2> QED BY <1>7, <2>1, <2>2
<1>10. \A l \in Key : FinalizerSound(l)'
  <2> SUFFICES ASSUME NEW l \in Key PROVE FinalizerSound(l)'
    OBVIOUS
  <2>1. FinalizerSound(l) /\ DueAt(l)' = DueAt(l) /\ (activity' = "none" <=> activity = "none")
    BY <1>2, <1>7 DEF PreviewInv, DueAt
  <2>2. \/ job'[l] = job[l]
        \/ /\ l = heartbeat /\ job[l].stage = "absent" /\ job'[l] = Queued
           /\ activity # "none"
    BY <1>1, <1>2, <1>4, QueuedOnce
  <2>3. CASE job'[l] = job[l]
    BY <1>2, <1>3, <1>5, <2>1, <2>3 DEF FinalizerSound
  <2>4. CASE l = heartbeat /\ job[l].stage = "absent" /\ job'[l] = Queued /\ activity # "none"
    <3>1. l # k /\ run[l] = "gone"
      BY <1>5, <2>1, <2>4 DEF FinalizerSound
    <3> QED BY <1>1, <1>2, <1>3, <2>1, <2>4, <3>1 DEF FinalizerSound, Queued, Row, Columns
  <2> QED BY <2>2, <2>3, <2>4
<1>11. \A l \in Key : Answered(l)'
  <2> SUFFICES ASSUME NEW l \in Key, heartbeat = l, activity' = "active",
                      job'[l].stage = "done" \/ run'[l] = "return"
               PROVE  FALSE
    BY <1>2 DEF Answered
  <2>1. activity = "active" /\ Answered(l)
    BY <1>7 DEF PreviewInv
  <2>2. job'[l] = job[l] \/ job'[l] = Queued
    BY <1>1, <1>2, <1>4, QueuedOnce
  <2>3. job'[l].stage # "done"
    BY <2>1, <2>2 DEF Answered, Queued, Row, Columns
  <2>4. run'[l] = "return" /\ l = k
    BY <1>3, <2>1, <2>3 DEF Answered
  <2>5. Silent
    BY <1>6, <2>4
  <2>6. activity' = "inactive" \/ run'[k] = "throw"
    BY <1>1, <2>1, <2>5 DEF FinalizeOrReschedule, Abandoned, Summarized, RunGoto, TypeOK
  <2> QED BY <2>4, <2>6
<1>12. ChainHolds'
  <2> SUFFICES ASSUME activity' = "active"
               PROVE  \E l \in Key : (Coming(l) \/ job[l].stage = "failed")'
    BY DEF ChainHolds
  <2>1. activity = "active"
    BY <1>7
  <2>2. CASE run'[k] = "throw"
    <3>1. job'[k] = job[k]
      BY <1>1, <1>2, <1>4, <1>5, QueuedOnce
    <3> QED BY <1>5, <2>2, <3>1 DEF Coming
  <2>3. CASE run'[k] = "return"
    <3>1. ~Silent /\ job' = QueuedFor(heartbeat)
      BY <1>1, <2>1, <2>3 DEF FinalizeOrReschedule, Abandoned, Summarized, RunGoto, TypeOK,
         SuccessorKey
    <3>2. heartbeat # k
      BY <1>6, <3>1
    <3>3. CASE job[heartbeat].stage = "absent"
      BY <1>1, <1>4, <3>1, <3>3, QueuedOnce DEF Coming, Queued, Row, Columns
    <3>4. CASE job[heartbeat].stage # "absent"
      <4>1. Coming(heartbeat) \/ job[heartbeat].stage = "failed"
        BY <1>4, <2>1, <3>4, ComingOrAnswered DEF PreviewInv, Answered
      <4>2. job'[heartbeat] = job[heartbeat] /\ run'[heartbeat] = run[heartbeat]
        BY <1>1, <1>3, <1>4, <3>1, <3>2, <3>4, QueuedOnce
      <4>3. heartbeat' = heartbeat
        BY <1>2
      <4> QED BY <1>4, <4>1, <4>2 DEF Coming
    <3> QED BY <3>3, <3>4
  <2> QED BY <1>3, <2>2, <2>3
<1> QED BY <1>9, <1>10, <1>11, <1>12 DEF PreviewInv

LEMMA PreviewStepKeeps == ASSUME PreviewInv, [Next]_vars PROVE PreviewInv'
<1>1. CASE UNCHANGED vars
  BY <1>1 DEF vars, rowVars, eventVars, jobVars, PreviewInv, TypeOK, InOrder, EvidenceExact,
     DeliveredIsReported, ChainHolds, Coming, FinalizerSound, Answered, DueAt
<1>2. ASSUME NEW t \in Tab, TabStep(t)
      PROVE  PreviewInv'
  BY <1>2, BeginKeeps, ReadKeeps DEF TabStep
<1>3. ASSUME NEW k \in Key,
             ClaimFinalizer(k) \/ FinalizeStep(k) \/ WorkerDies(k) \/ LoseLease(k)
               \/ ExhaustFinalizer(k)
      PROVE  PreviewInv'
  BY <1>3, RowKeeps, FinalizeKeeps DEF FinalizeStep
<1> QED BY <1>1, <1>2, <1>3, TickKeeps DEF Next

LEMMA PreviewsKept == Spec => []PreviewInv
<1>1. PreviewInv /\ [Next]_vars => PreviewInv'
  BY PreviewStepKeeps
<1> QED BY <1>1, PreviewInitially, PTL DEF Spec

\* One start and one summary for each time the activity was open, every delivered page in it,
\* and a finalizer to come for as long as it is open, however tabs, heartbeats, reopenings and
\* repeated finalizers overlap (begin_preview_activity, finalize_or_reschedule_preview).
THEOREM EvidenceStaysExact == Spec => []EvidenceSound
<1>1. PreviewInv => EvidenceSound
  BY PreviewPromise
<1> QED BY <1>1, PreviewsKept, PTL

-----------------------------------------------------------------------------
(* Downloads.                                                               *)

\* The requests that have recorded what they recorded.
Recorded == {r \in Request : request[r].pc \in {"fail", "done"}}

RequestPC == {"idle", "open", "stream", "record", "fail", "done"}
ByteRequest == [pc : RequestPC, range : D!ByteRange \cup {{}}]

DownloadTyped ==
  /\ session \in BOOLEAN /\ permitted \in BOOLEAN /\ expired \in BOOLEAN
  /\ lease \in {"none", "active", "completed", "failed", "purged"}
  /\ served \in SUBSET D!Bytes /\ delivered \in SUBSET D!Bytes
  /\ request \in [Request -> ByteRequest]
  /\ summaries \in Nat /\ summed \in Nat /\ bytes \in Nat
  /\ leaseJob \in D!Rows(FinalizeAttempts)
  /\ leaseRun \in {"gone", "claimed", "return", "throw"}

\* Each request counts its bytes once.
BytesCounted == bytes <= Size * Cardinality(Recorded)

\* What is recorded was streamed, and a lease is completed over what is recorded.
StreamedFirst ==
  /\ served \subseteq delivered
  /\ \A r \in Request : request[r].pc = "record" => request[r].range \subseteq delivered
  /\ lease = "completed" => D!Bytes \subseteq served

DownloadInv == DownloadTyped /\ BytesCounted /\ D!OneSummary /\ StreamedFirst

LEMMA SizesAdd ==
  ASSUME NEW s \in Nat, NEW c \in Nat, NEW n \in Nat, c <= n
  PROVE  s * (c + 1) = s * c + s /\ s * c <= s * n /\ s * c \in Nat
<1>1. s * (c + 1) = s * c + s /\ s * c \in Nat
  OBVIOUS
<1>2. PICK k \in Nat : n = c + k
  <2>1. n - c \in Nat /\ n = c + (n - c)
    OBVIOUS
  <2> QED BY <2>1
<1>3. s * n = s * c + s * k /\ s * k \in Nat
  BY <1>2
<1> QED BY <1>1, <1>3

LEMMA RangesInside == \A range \in D!ByteRange : range \subseteq D!Bytes
<1> SUFFICES ASSUME NEW range \in D!ByteRange
             PROVE  range \subseteq D!Bytes
  OBVIOUS
<1>1. PICK first \in D!Bytes, last \in D!Bytes : range = first..last
  BY DEF D!ByteRange
<1> QED BY <1>1, DownloadAssumption DEF D!Bytes

LEMMA RangesFit ==
  ASSUME NEW range \in D!ByteRange
  PROVE  D!Cardinality(range) \in 0..Size
<1>1. D!Cardinality(range) = Cardinality(range)
  BY DEF D!Cardinality, Cardinality
<1>2. D!Bytes = 0..(Size - 1) /\ range \subseteq D!Bytes
  BY RangesInside DEF D!Bytes
<1>3. IsFiniteSet(D!Bytes) /\ Cardinality(D!Bytes) = Size
  BY <1>2, DownloadAssumption, FS_Interval
<1>4. IsFiniteSet(range) /\ Cardinality(range) <= Size
  BY <1>2, <1>3, FS_Subset
<1>5. Cardinality(range) \in Nat
  BY <1>4, FS_CardinalityType
<1> QED BY <1>1, <1>4, <1>5, DownloadAssumption

LEMMA RecordedCounts ==
  /\ IsFiniteSet(Recorded) /\ Cardinality(Recorded) \in Nat
  /\ Cardinality(Recorded) <= Cardinality(Request) /\ Cardinality(Request) \in Nat
  /\ \A r \in Request \ Recorded : Cardinality(Recorded \cup {r}) = Cardinality(Recorded) + 1
<1>1. Recorded \subseteq Request
  BY DEF Recorded
<1>2. IsFiniteSet(Recorded) /\ Cardinality(Recorded) <= Cardinality(Request)
  BY <1>1, DownloadAssumption, FS_Subset
<1>3. \A r \in Request \ Recorded : Cardinality(Recorded \cup {r}) = Cardinality(Recorded) + 1
  BY <1>2, FS_AddElement
<1> QED BY <1>2, <1>3, DownloadAssumption, FS_CardinalityType

LEMMA DownloadPromise == ASSUME DownloadInv PROVE D!TypeOK /\ SummarySound
<1>1. bytes \in 0..(Size * Cardinality(Request))
  BY RecordedCounts, SizesAdd, DownloadAssumption DEF DownloadInv, DownloadTyped, BytesCounted
<1>2. D!Cardinality(Request) = Cardinality(Request)
  BY DEF D!Cardinality, Cardinality
<1>3. D!TypeOK
  BY <1>1, <1>2 DEF DownloadInv, DownloadTyped, D!TypeOK, ByteRequest, RequestPC
<1>4. D!CompletedIsWhole
  BY DEF DownloadInv, DownloadTyped, StreamedFirst, D!CompletedIsWhole
<1> QED BY <1>3, <1>4 DEF DownloadInv, SummarySound, D!SummarySound

LEMMA DownloadInitially == ASSUME D!Init PROVE DownloadInv
<1>1. leaseJob \in D!Rows(FinalizeAttempts)
  BY PreviewAssumption DEF D!Init, D!Absent, D!Row, D!Columns, D!Rows
<1>2. request \in [Request -> ByteRequest]
  BY DEF D!Init, ByteRequest, RequestPC
<1>3. BytesCounted
  BY RecordedCounts, SizesAdd, DownloadAssumption DEF D!Init, BytesCounted
<1>4. D!OneSummary /\ StreamedFirst
  BY DEF D!Init, D!OneSummary, StreamedFirst
<1> QED BY <1>1, <1>2, <1>3, <1>4 DEF D!Init, DownloadInv, DownloadTyped

\* What any step may do to the lease and its summary.
LeaseMoves ==
  \/ lease' = lease /\ UNCHANGED <<summaries, summed>>
  \/ /\ lease = "none" /\ lease' = "active" /\ UNCHANGED <<summaries, summed>>
  \/ /\ lease = "active" /\ lease' \in {"completed", "failed"}
     /\ summaries' = summaries + 1 /\ summed' = bytes'
  \/ /\ lease \in {"completed", "failed"} /\ lease' = "purged"
     /\ UNCHANGED <<summaries, summed>>

LEMMA SummaryKeeps ==
  ASSUME DownloadInv, LeaseMoves, bytes' \in Nat,
         lease = "active" \/ bytes' = bytes
  PROVE  /\ D!OneSummary' /\ lease' \in {"none", "active", "completed", "failed", "purged"}
         /\ summaries' \in Nat /\ summed' \in Nat
BY DEF DownloadInv, DownloadTyped, LeaseMoves, D!OneSummary

\* A request moves on and records nothing.
LEMMA RequestMoves ==
  ASSUME DownloadInv, NEW r \in Request, NEW to \in ByteRequest,
         request' = [request EXCEPT ![r] = to],
         request[r].pc \in {"fail", "done"} => to.pc \in {"fail", "done"},
         UNCHANGED <<session, permitted, expired, leaseJob, leaseRun, bytes, served>>,
         delivered' \in SUBSET D!Bytes, delivered \subseteq delivered',
         to.pc = "record" => to.range \subseteq delivered',
         LeaseMoves, lease' = "completed" => lease = "completed"
  PROVE  DownloadInv'
<1>1. DownloadTyped /\ BytesCounted /\ StreamedFirst
  BY DEF DownloadInv
<1>2. /\ request' \in [Request -> ByteRequest] /\ request'[r] = to
      /\ \A q \in Request \ {r} : request'[q] = request[q]
  BY <1>1 DEF DownloadTyped
<1>3. D!OneSummary' /\ DownloadTyped'
  BY <1>1, <1>2, SummaryKeeps DEF DownloadTyped
<1>4. StreamedFirst'
  BY <1>1, <1>2 DEF StreamedFirst
<1>5. Recorded' = Recorded \/ (r \notin Recorded /\ Recorded' = Recorded \cup {r})
  BY <1>1, <1>2 DEF Recorded
<1>6. BytesCounted'
  <2>1. CASE Recorded' = Recorded
    BY <1>1, <2>1 DEF BytesCounted
  <2>2. CASE r \notin Recorded /\ Recorded' = Recorded \cup {r}
    <3>1. Cardinality(Recorded)' = Cardinality(Recorded) + 1 /\ Cardinality(Recorded) \in Nat
      BY <2>2, RecordedCounts
    <3>2. Size * Cardinality(Recorded)' = Size * Cardinality(Recorded) + Size
      BY <3>1, SizesAdd, DownloadAssumption
    <3>3. Size * Cardinality(Recorded) \in Nat
      BY <3>1, SizesAdd, DownloadAssumption
    <3> QED BY <1>1, <3>2, <3>3, DownloadAssumption DEF BytesCounted, DownloadTyped
  <2> QED BY <1>5, <2>1, <2>2
<1> QED BY <1>3, <1>4, <1>6 DEF DownloadInv

\* record_download_range counts the bytes of a request that has not counted any.
LEMMA RecordKeeps == ASSUME DownloadInv, NEW r \in Request, D!RecordRange(r) PROVE DownloadInv'
<1>1. DownloadTyped /\ BytesCounted /\ StreamedFirst /\ D!OneSummary /\ request[r].pc = "record"
  BY DEF DownloadInv, D!RecordRange, D!At
<1>2. request[r] \in ByteRequest
  BY <1>1 DEF DownloadTyped
<1>3. UNCHANGED <<session, permitted, expired, leaseJob, leaseRun, delivered>>
  BY DEF D!RecordRange, D!accessVars, D!jobVars
<1>4. PICK place \in {"done", "fail"} : D!Goto(r, place)
  BY DEF D!RecordRange
<1> DEFINE to == [request[r] EXCEPT !.pc = place]
<1>5. to \in ByteRequest /\ to.pc = place /\ request' = [request EXCEPT ![r] = to]
  BY <1>2, <1>4 DEF ByteRequest, RequestPC, D!Goto
<1> HIDE DEF to
<1>6. CASE UNCHANGED D!rowVars
  BY <1>1, <1>3, <1>5, <1>6, RequestMoves DEF D!rowVars, LeaseMoves, DownloadTyped
<1>7. CASE /\ D!Recordable
           /\ served' = served \cup request[r].range
           /\ bytes' = bytes + D!Cardinality(request[r].range)
           /\ IF D!Complete(served', bytes') THEN D!FinalizeDownload("completed", bytes')
              ELSE UNCHANGED <<lease, summaries, summed>>
  <2>1. lease = "active" /\ LeaseMoves /\ (lease' = "completed" => D!Bytes \subseteq served')
    BY <1>7 DEF D!Recordable, D!MayDownload, D!FinalizeDownload, LeaseMoves, D!Complete
  <2>2. /\ request' \in [Request -> ByteRequest] /\ request'[r] = to
        /\ \A q \in Request \ {r} : request'[q] = request[q]
    BY <1>1, <1>5 DEF DownloadTyped
  <2>3. request[r].range \subseteq D!Bytes /\ request[r].range \subseteq delivered
    BY <1>1 DEF DownloadTyped, StreamedFirst
  <2>4. D!Cardinality(request[r].range) \in 0..Size
    <3>1. CASE request[r].range \in D!ByteRange
      BY <3>1, RangesFit
    <3>2. CASE request[r].range = {}
      <4>1. D!Cardinality({}) = Cardinality({})
        BY DEF D!Cardinality, Cardinality
      <4> QED BY <3>2, <4>1, FS_EmptySet, DownloadAssumption
    <3> QED BY <1>2, <3>1, <3>2 DEF ByteRequest
  <2>5. bytes' \in Nat
    BY <1>1, <1>7, <2>4, DownloadAssumption DEF DownloadTyped
  <2>6. D!OneSummary' /\ DownloadTyped'
    BY <1>1, <1>3, <1>7, <2>1, <2>2, <2>3, <2>5, SummaryKeeps DEF DownloadTyped
  <2>7. StreamedFirst'
    BY <1>1, <1>3, <1>5, <1>7, <2>1, <2>2, <2>3 DEF StreamedFirst
  <2>8. r \notin Recorded /\ Recorded' = Recorded \cup {r}
    BY <1>1, <1>5, <2>2 DEF Recorded
  <2>9. BytesCounted'
    <3>1. Cardinality(Recorded)' = Cardinality(Recorded) + 1 /\ Cardinality(Recorded) \in Nat
      BY <2>8, RecordedCounts
    <3>2. /\ Size * Cardinality(Recorded)' = Size * Cardinality(Recorded) + Size
          /\ Size * Cardinality(Recorded) \in Nat
      BY <3>1, SizesAdd, DownloadAssumption
    <3> QED BY <1>1, <1>7, <2>4, <3>2, DownloadAssumption DEF BytesCounted, DownloadTyped
  <2> QED BY <2>6, <2>7, <2>9 DEF DownloadInv
<1> QED BY <1>6, <1>7 DEF D!RecordRange

LEMMA RequestKeeps ==
  ASSUME DownloadInv, NEW r \in Request, D!RequestStep(r) \/ D!WebDies(r)
  PROVE  DownloadInv'
<1>1. DownloadTyped /\ BytesCounted /\ StreamedFirst /\ D!OneSummary
  BY DEF DownloadInv
<1>2. request[r] \in ByteRequest /\ request \in [Request -> ByteRequest]
  BY <1>1 DEF DownloadTyped
<1> DEFINE at0(place) == [request[r] EXCEPT !.pc = place]
<1>3. ASSUME NEW place \in RequestPC
      PROVE  /\ at0(place) \in ByteRequest /\ at0(place).pc = place
             /\ at0(place).range = request[r].range
             /\ D!Goto(r, place) => request' = [request EXCEPT ![r] = at0(place)]
  BY <1>2 DEF ByteRequest, RequestPC, D!Goto
<1> HIDE DEF at0
<1>4. CASE D!RecordRange(r)
  BY <1>4, RecordKeeps
<1>5. CASE D!AuthorizeRange(r)
  <2>1. /\ UNCHANGED <<session, permitted, expired, leaseJob, leaseRun, bytes, served, delivered>>
        /\ request[r].pc = "idle" /\ LeaseMoves /\ (lease' = "completed" => lease = "completed")
    BY <1>5 DEF D!AuthorizeRange, D!At, D!accessVars, D!jobVars, D!rowVars, LeaseMoves,
       D!FinalizeDownload
  <2>2. PICK to \in ByteRequest :
          /\ to.pc \in {"open", "done"}
          /\ request' = [request EXCEPT ![r] = to]
    <3>1. CASE D!Goto(r, "done")
      BY <1>3, <3>1 DEF RequestPC
    <3>2. CASE \E range \in D!ByteRange :
            request' = [request EXCEPT ![r] = [pc |-> "open", range |-> range]]
      <4>1. PICK range \in D!ByteRange :
              request' = [request EXCEPT ![r] = [pc |-> "open", range |-> range]]
        BY <3>2
      <4>2. [pc |-> "open", range |-> range] \in ByteRequest
        BY DEF ByteRequest, RequestPC
      <4> QED BY <4>1, <4>2
    <3> QED BY <1>5, <3>1, <3>2 DEF D!AuthorizeRange
  <2> QED BY <1>1, <2>1, <2>2, RequestMoves DEF DownloadTyped
<1>6. CASE D!OpenStream(r)
  <2>1. PICK place \in {"stream", "fail"} : D!Goto(r, place)
    BY <1>6 DEF D!OpenStream
  <2>2. /\ UNCHANGED <<session, permitted, expired, leaseJob, leaseRun, bytes, served, delivered,
                       lease, summaries, summed>>
        /\ request[r].pc = "open"
    BY <1>6 DEF D!OpenStream, D!At, D!accessVars, D!jobVars, D!rowVars
  <2> QED BY <1>1, <1>3, <2>1, <2>2, RequestMoves DEF DownloadTyped, LeaseMoves, RequestPC
<1>7. CASE D!StreamBytes(r)
  <2>1. /\ UNCHANGED <<session, permitted, expired, leaseJob, leaseRun, bytes, served,
                       lease, summaries, summed>>
        /\ request[r].pc = "stream"
    BY <1>7 DEF D!StreamBytes, D!At, D!accessVars, D!jobVars, D!rowVars
  <2>2. CASE D!Goto(r, "record") /\ delivered' = delivered \cup request[r].range
    <3>1. delivered' \in SUBSET D!Bytes /\ request[r].range \subseteq delivered'
      BY <1>1, <1>2, <2>2, RangesInside DEF DownloadTyped, ByteRequest
    <3> QED BY <1>1, <1>3, <2>1, <2>2, <3>1, RequestMoves DEF LeaseMoves, RequestPC
  <2>3. CASE \E place \in {"fail", "done"} : D!Goto(r, place) /\ UNCHANGED delivered
    <3>1. PICK place \in {"fail", "done"} : D!Goto(r, place) /\ UNCHANGED delivered
      BY <2>3
    <3> QED BY <1>1, <1>3, <2>1, <3>1, RequestMoves DEF DownloadTyped, LeaseMoves, RequestPC
  <2> QED BY <1>7, <2>2, <2>3 DEF D!StreamBytes
<1>8. CASE D!FailDownload(r)
  <2>1. /\ UNCHANGED <<session, permitted, expired, leaseJob, leaseRun, bytes, served, delivered>>
        /\ D!Goto(r, "done") /\ LeaseMoves /\ (lease' = "completed" => lease = "completed")
    BY <1>8 DEF D!FailDownload, D!accessVars, D!jobVars, D!rowVars, LeaseMoves,
       D!FinalizeDownload
  <2> QED BY <1>1, <1>3, <2>1, RequestMoves DEF DownloadTyped, RequestPC
<1>9. CASE D!WebDies(r)
  <2>1. /\ UNCHANGED <<session, permitted, expired, leaseJob, leaseRun, bytes, served, delivered,
                       lease, summaries, summed>>
        /\ D!Goto(r, "done")
    BY <1>9 DEF D!WebDies, D!accessVars, D!jobVars, D!rowVars
  <2> QED BY <1>1, <1>3, <2>1, RequestMoves DEF DownloadTyped, LeaseMoves, RequestPC
<1> QED BY <1>4, <1>5, <1>6, <1>7, <1>8, <1>9 DEF D!RequestStep

\* The session, the clock, the finalizer and the purge.
LEMMA LeaseKeeps ==
  ASSUME DownloadInv, UNCHANGED <<request, served, bytes, delivered>>,
         session' \in BOOLEAN, permitted' \in BOOLEAN, expired' \in BOOLEAN,
         leaseJob' \in D!Rows(FinalizeAttempts),
         leaseRun' \in {"gone", "claimed", "return", "throw"},
         LeaseMoves, lease' = "completed" => lease = "completed"
  PROVE  DownloadInv'
<1>1. D!OneSummary' /\ DownloadTyped'
  BY SummaryKeeps DEF DownloadInv, DownloadTyped
<1>2. BytesCounted'
  BY DEF DownloadInv, BytesCounted, Recorded
<1>3. StreamedFirst'
  BY DEF DownloadInv, StreamedFirst
<1> QED BY <1>1, <1>2, <1>3 DEF DownloadInv

LEMMA DownloadRowsTyped ==
  ASSUME NEW max \in Nat, NEW r \in D!Rows(max)
  PROVE  /\ D!Queued \in D!Rows(max)
         /\ D!CanClaim(r, max) => D!Claimed(r) \in D!Rows(max)
         /\ D!Lapsed(r) \in D!Rows(max) /\ D!Completed(r) \in D!Rows(max)
         /\ D!GivenBack(r, max) \in D!Rows(max) /\ D!Buried(r) \in D!Rows(max)
<1>1. D!Rows(max) = Rows(max)
  BY DEF D!Rows, Rows
<1>2. /\ D!Queued = Queued /\ D!CanClaim(r, max) = CanClaim(r, max)
      /\ D!Claimed(r) = Claimed(r) /\ D!Lapsed(r) = Lapsed(r)
      /\ D!Completed(r) = Completed(r) /\ D!GivenBack(r, max) = GivenBack(r, max)
      /\ D!Buried(r) = Buried(r)
  BY DEF D!Queued, Queued, D!CanClaim, CanClaim, D!Claimed, Claimed, D!Lapsed, Lapsed,
         D!Completed, Completed, D!GivenBack, GivenBack, D!Buried, Buried, D!Row, Row,
         D!Columns, Columns
<1> QED BY <1>1, <1>2, RowsTyped

LEMMA DownloadStepKeeps == ASSUME DownloadInv, [D!Next]_(D!vars) PROVE DownloadInv'
<1>1. DownloadTyped
  BY DEF DownloadInv
<1>2. /\ FinalizeAttempts \in Nat /\ leaseJob \in D!Rows(FinalizeAttempts)
      /\ session \in BOOLEAN /\ permitted \in BOOLEAN /\ expired \in BOOLEAN
      /\ leaseRun \in {"gone", "claimed", "return", "throw"}
  BY <1>1, PreviewAssumption DEF DownloadTyped
<1> USE DEF D!accessVars, D!rowVars, D!jobVars
<1>3. CASE D!CreateLease
  BY <1>2, <1>3, LeaseKeeps, DownloadRowsTyped DEF D!CreateLease, LeaseMoves
<1>4. CASE D!EndSession \/ D!ChangePermission \/ D!Expire
  <2>1. session' \in BOOLEAN /\ permitted' \in BOOLEAN /\ expired' \in BOOLEAN
    BY <1>2, <1>4 DEF D!EndSession, D!ChangePermission, D!Expire
  <2>2. UNCHANGED <<request, served, bytes, delivered, lease, summaries, summed, leaseJob,
                    leaseRun>>
    BY <1>4 DEF D!EndSession, D!ChangePermission, D!Expire
  <2> QED BY <1>2, <2>1, <2>2, LeaseKeeps DEF LeaseMoves
<1>5. CASE D!PurgeSession
  BY <1>2, <1>5, LeaseKeeps DEF D!PurgeSession, LeaseMoves
<1>6. ASSUME NEW r \in Request, D!RequestStep(r) \/ D!WebDies(r)
      PROVE  DownloadInv'
  BY <1>6, RequestKeeps
<1>7. CASE D!ClaimFinalizer \/ D!SettleFinalizer \/ D!WorkerDies \/ D!LoseLease
           \/ D!ExhaustFinalizer
  <2>1. leaseJob' \in D!Rows(FinalizeAttempts)
    BY <1>2, <1>7, DownloadRowsTyped DEF D!ClaimFinalizer, D!SettleFinalizer, D!WorkerDies,
       D!LoseLease, D!ExhaustFinalizer
  <2>2. /\ leaseRun' \in {"gone", "claimed", leaseRun}
        /\ UNCHANGED <<session, permitted, expired, request, served, bytes, delivered, lease,
                       summaries, summed>>
    BY <1>7 DEF D!ClaimFinalizer, D!SettleFinalizer, D!WorkerDies, D!LoseLease, D!ExhaustFinalizer
  <2> QED BY <1>2, <2>1, <2>2, LeaseKeeps DEF LeaseMoves
<1>8. CASE D!FinalizeExpired
  <2>1. LeaseMoves /\ (lease' = "completed" => lease = "completed")
    BY <1>8 DEF D!FinalizeExpired, D!FinalizeDownload, LeaseMoves
  <2>2. /\ leaseRun' \in {"return", "throw"}
        /\ UNCHANGED <<session, permitted, expired, request, served, bytes, delivered, leaseJob>>
    BY <1>8 DEF D!FinalizeExpired
  <2> QED BY <1>2, <2>1, <2>2, LeaseKeeps
<1>9. CASE UNCHANGED D!vars
  BY <1>2, <1>9, LeaseKeeps DEF D!vars, LeaseMoves
<1> QED BY <1>3, <1>4, <1>5, <1>6, <1>7, <1>8, <1>9 DEF D!Next, D!FinalizeStep

\* A lease that is over has exactly one summary, of what it counted, and is completed only when
\* every byte was streamed, however its requests, its expiry, its finalizer and their crashes
\* overlap (finalize_download, record_download_range, finalize_expired_download).
THEOREM SummariesAreSound == D!Spec => []SummarySound
<1>1. DownloadInv /\ [D!Next]_(D!vars) => DownloadInv'
  BY DownloadStepKeeps
<1>2. DownloadInv => SummarySound
  BY DownloadPromise
<1> QED BY <1>1, <1>2, DownloadInitially, PTL DEF D!Spec

-----------------------------------------------------------------------------
(* The converters' sandbox.                                                 *)

\* Who stands in a queue, and that nobody stands there twice.
Members(s) == {s[n] : n \in 1..Len(s)}
Distinct(s) == \A m, n \in 1..Len(s) : s[m] = s[n] => m = n

LEMMA QueueAppend ==
  ASSUME NEW X, NEW s \in Seq(X), NEW e \in X
  PROVE  /\ Append(s, e) \in Seq(X) /\ Append(s, e) # <<>>
         /\ Members(Append(s, e)) = Members(s) \cup {e}
         /\ Distinct(s) /\ e \notin Members(s) => Distinct(Append(s, e))
<1>1. /\ Append(s, e) \in Seq(X) /\ Len(Append(s, e)) = Len(s) + 1 /\ Len(s) \in Nat
      /\ \A n \in 1..Len(s) : Append(s, e)[n] = s[n]
      /\ Append(s, e)[Len(s) + 1] = e
  OBVIOUS
<1>2. 1..(Len(s) + 1) = (1..Len(s)) \cup {Len(s) + 1}
  BY <1>1
<1>3. Members(Append(s, e)) = Members(s) \cup {e}
  <2>1. ASSUME NEW x \in Members(Append(s, e))
        PROVE  x \in Members(s) \cup {e}
    BY <1>1, <1>2 DEF Members
  <2>2. ASSUME NEW n \in 1..Len(s)
        PROVE  s[n] \in Members(Append(s, e))
    <3>1. n \in 1..(Len(s) + 1) /\ Append(s, e)[n] = s[n]
      BY <1>1, <1>2
    <3> QED BY <1>1, <3>1 DEF Members
  <2>3. e \in Members(Append(s, e))
    BY <1>1 DEF Members
  <2> QED BY <2>1, <2>2, <2>3 DEF Members
<1>4. ASSUME Distinct(s), e \notin Members(s)
      PROVE  Distinct(Append(s, e))
  BY <1>1, <1>2, <1>4 DEF Distinct, Members
<1> QED BY <1>1, <1>3, <1>4

LEMMA QueueTail ==
  ASSUME NEW X, NEW s \in Seq(X), s # <<>>, Distinct(s)
  PROVE  /\ Tail(s) \in Seq(X) /\ Head(s) \in X /\ Head(s) \in Members(s)
         /\ Members(Tail(s)) = Members(s) \ {Head(s)}
         /\ Distinct(Tail(s))
<1>1. /\ Tail(s) \in Seq(X) /\ Len(s) \in Nat /\ Len(s) # 0 /\ Head(s) = s[1] /\ Head(s) \in X
      /\ Len(Tail(s)) = Len(s) - 1
      /\ \A n \in 1..(Len(s) - 1) : Tail(s)[n] = s[n + 1]
  OBVIOUS
<1>2. 1 \in 1..Len(s) /\ \A n \in 1..(Len(s) - 1) : n + 1 \in 1..Len(s) /\ n + 1 # 1
  BY <1>1
<1>3. Distinct(Tail(s))
  BY <1>1, <1>2 DEF Distinct
<1>4. ASSUME NEW x \in Members(Tail(s))
      PROVE  x \in Members(s) \ {Head(s)}
  <2>1. PICK n \in 1..(Len(s) - 1) : x = s[n + 1]
    BY <1>1 DEF Members
  <2> QED BY <1>1, <1>2, <2>1 DEF Members, Distinct
<1>5. ASSUME NEW x \in Members(s) \ {Head(s)}
      PROVE  x \in Members(Tail(s))
  <2>1. PICK n \in 1..Len(s) : x = s[n] /\ n # 1
    BY <1>1 DEF Members
  <2>2. n - 1 \in 1..(Len(s) - 1) /\ s[n] = Tail(s)[n - 1]
    BY <1>1, <2>1
  <2> QED BY <1>1, <2>1, <2>2 DEF Members
<1> QED BY <1>1, <1>2, <1>3, <1>4, <1>5 DEF Members

LEMMA QueueEmpty == Members(<<>>) = {} /\ Distinct(<<>>)
BY DEF Members, Distinct

\* An invocation holds an identity at these places, and has none yet before them.
Held == {"mkdtemp", "start", "running", "finally", "sweep", "release"}
Before == {"idle", "slot", "acquire", "identity"}
HoldsIdentity(i) == uid[i] # "none" /\ pc[i] \in Held

SlotInv ==
  /\ S!Composing \subseteq Composition
  /\ composing = Cardinality(S!Composing) /\ composing \in 0..Concurrency
  /\ waiting # <<>> => composing = Concurrency
  /\ waiting \in Seq(Composition) /\ Distinct(waiting)
  /\ \A i \in Members(waiting) : pc[i] = "slot"

IdentityInv ==
  /\ available \subseteq Identity /\ queue \in Seq(S!Invocation) /\ Distinct(queue)
  /\ \A u \in Identity : u \in available <=> \A i \in S!Invocation : HoldsIdentity(i) => uid[i] # u
  /\ \A i, j \in S!Invocation : HoldsIdentity(i) /\ HoldsIdentity(j) /\ uid[i] = uid[j] => i = j
  /\ queue # <<>> => available = {}
  /\ \A i \in Members(queue) : pc[i] = "identity"
  /\ \A i \in S!Invocation : pc[i] \in Before => uid[i] = "none"
  /\ mode = "degraded" => \A i \in S!Invocation : pc[i] \in Held => uid[i] # "none"
  /\ mode = "namespaced" =>
       \A i \in S!Invocation : uid[i] = "none" /\ pc[i] \notin {"identity", "sweep", "release"}

\* A pass of the sweep visits the processes under its identity; while it has killed nothing, one
\* of those that are left is still to be visited.
SweepSound(i) ==
  pc[i] = "sweep" =>
    /\ \A p \in sweep[i].todo : uid[p[1]] = uid[i]
    /\ ~sweep[i].kills /\ i \notin raced /\ processes[i] # {} =>
         \E k \in processes[i] : <<i, k>> \in sweep[i].todo

ChildSound(i) ==
  /\ pc[i] \in Before \cup {"mkdtemp"} => i \notin scratch
  /\ pc[i] \in Before \cup {"mkdtemp", "start"} => processes[i] = {}
  /\ pc[i] \in {"hand", "done"} /\ i \notin dirty => i \notin scratch
  /\ pc[i] \in {"release", "rm", "hand", "done"} /\ i \notin dirty \cup raced => processes[i] = {}
  /\ mode = "namespaced" /\ processes[i] # {} => "child" \in processes[i]
  /\ mode = "namespaced" /\ pc[i] = "finally" => processes[i] = {}

SandboxTyped ==
  /\ mode \in {"namespaced", "degraded"}
  /\ pc \in [S!Invocation -> S!Places] /\ uid \in [S!Invocation -> Identity \cup {"none"}]
  /\ processes \in [S!Invocation -> SUBSET S!Kind] /\ forks \in 0..MaxForks
  /\ killed \subseteq S!Invocation /\ scratch \subseteq S!Invocation
  /\ dirty \subseteq S!Invocation /\ raced \subseteq S!Invocation
  /\ sweep \in [S!Invocation -> [todo : SUBSET (S!Invocation \X S!Kind), kills : BOOLEAN]]

SandboxInv ==
  /\ SandboxTyped /\ SlotInv /\ IdentityInv
  /\ \A i \in S!Invocation : SweepSound(i) /\ ChildSound(i)

LEMMA SameCardinality == \A set : S!Cardinality(set) = Cardinality(set)
BY DEF S!Cardinality, Cardinality

LEMMA SandboxPromise == ASSUME SandboxInv PROVE S!TypeOK /\ SandboxSound
<1>1. S!TypeOK
  BY DEF SandboxInv, SandboxTyped, SlotInv, IdentityInv, S!TypeOK, S!None
<1>2. \A i \in S!Holding : i \in S!Invocation /\ HoldsIdentity(i)
  BY DEF S!Holding, HoldsIdentity, Held, S!None
<1>3. \A i \in S!Invocation : HoldsIdentity(i) => i \in S!Holding
  BY DEF S!Holding, HoldsIdentity, Held, S!None
<1>4. available = Identity \ {uid[i] : i \in S!Holding}
  BY <1>2, <1>3 DEF SandboxInv, IdentityInv
<1>5. \A i, j \in S!Holding : uid[i] = uid[j] => i = j
  BY <1>2 DEF SandboxInv, IdentityInv
<1>6. S!NothingLeaks
  BY <1>4, <1>5, SameCardinality, SandboxAssumption DEF S!NothingLeaks, SandboxInv, SlotInv,
     IdentityInv
<1>7. S!EndsClean
  BY DEF S!EndsClean, S!LeavesNothing, SandboxInv, ChildSound
<1> QED BY <1>1, <1>6, <1>7 DEF SandboxSound, S!SandboxSound

LEMMA SandboxInitially == ASSUME S!Init PROVE SandboxInv
<1>1. SandboxTyped
  BY SandboxAssumption DEF S!Init, SandboxTyped, S!Places, S!Running, S!None
<1>2. S!Composing = {}
  BY DEF S!Init, S!Composing, S!Invocation
<1>3. SlotInv
  BY <1>2, QueueEmpty, FS_EmptySet, SandboxAssumption DEF S!Init, SlotInv
<1>4. \A i \in S!Invocation : pc[i] = "idle" /\ uid[i] = "none" /\ ~HoldsIdentity(i)
  BY DEF S!Init, HoldsIdentity, S!None
<1>5. IdentityInv
  BY <1>4, QueueEmpty DEF S!Init, IdentityInv, Held
<1>6. \A i \in S!Invocation : SweepSound(i) /\ ChildSound(i)
  BY DEF S!Init, SweepSound, ChildSound
<1> QED BY <1>1, <1>3, <1>5, <1>6 DEF SandboxInv

-----------------------------------------------------------------------------
\* Where a step leaves the slots alone.
LEMMA SlotsKeep ==
  ASSUME SandboxInv, UNCHANGED <<composing, waiting>>, pc' \in [S!Invocation -> S!Places],
         \A i \in Composition : pc'[i] # pc[i] =>
           /\ pc[i] \notin {"idle", "slot", "done"} /\ pc'[i] \notin {"idle", "slot", "done"}
  PROVE  SlotInv'
<1>1. Composition \subseteq S!Invocation
  BY DEF S!Invocation
<1>2. S!Composing' = S!Composing
  BY <1>1 DEF S!Composing
<1>3. \A i \in Members(waiting) : i \in Composition /\ pc'[i] = "slot"
  BY DEF SandboxInv, SlotInv, Members
<1> QED BY <1>2, <1>3 DEF SandboxInv, SlotInv

\* Where it leaves the identities alone.
LEMMA IdentitiesKeep ==
  ASSUME SandboxInv, UNCHANGED <<mode, available, queue, uid>>,
         \A i \in S!Invocation :
           \/ pc'[i] = pc[i]
           \/ /\ HoldsIdentity(i)' = HoldsIdentity(i)
              /\ pc[i] # "identity"
              /\ pc'[i] \in Before => pc[i] \in Before
              /\ mode = "degraded" /\ pc'[i] \in Held => pc[i] \in Held
              /\ mode = "namespaced" => pc'[i] \notin {"identity", "sweep", "release"}
  PROVE  IdentityInv'
<1>1. IdentityInv
  BY DEF SandboxInv
<1>2. \A i \in S!Invocation : HoldsIdentity(i)' = HoldsIdentity(i)
  BY DEF HoldsIdentity
<1>3. \A i \in Members(queue) : i \in S!Invocation /\ pc'[i] = "identity"
  BY <1>1 DEF IdentityInv, Members
<1>4. \A i \in S!Invocation : /\ pc'[i] \in Before => uid[i] = "none"
                              /\ mode = "degraded" /\ pc'[i] \in Held => uid[i] # "none"
                              /\ mode = "namespaced" =>
                                   pc'[i] \notin {"identity", "sweep", "release"}
  BY <1>1 DEF IdentityInv
<1> QED BY <1>1, <1>2, <1>3, <1>4 DEF IdentityInv

\* An invocation moves on.
LEMMA InvocationMoves ==
  ASSUME SandboxInv, NEW i \in S!Invocation, NEW place \in S!Places, S!Goto(i, place)
  PROVE  /\ pc' \in [S!Invocation -> S!Places] /\ pc'[i] = place
         /\ \A j \in S!Invocation \ {i} : pc'[j] = pc[j]
BY DEF SandboxInv, SandboxTyped, S!Goto

\* What another invocation is and has stays sound while its row in the sweep, its place and its
\* processes stay.
LEMMA OthersKeep ==
  ASSUME SandboxInv, NEW j \in S!Invocation, mode' = mode, pc'[j] = pc[j],
         processes'[j] = processes[j], sweep'[j] = sweep[j],
         j \in raced => j \in raced', j \in dirty => j \in dirty', j \in scratch' <=> j \in scratch,
         \A m \in S!Invocation : uid[m] # "none" => uid'[m] = uid[m]
  PROVE  (SweepSound(j) /\ ChildSound(j))'
<1>1. SweepSound(j) /\ ChildSound(j) /\ IdentityInv
  BY DEF SandboxInv
<1>2. ChildSound(j)'
  BY <1>1 DEF ChildSound
<1>3. ASSUME pc[j] = "sweep"
      PROVE  \A p \in sweep[j].todo : uid'[p[1]] = uid'[j]
  <2>1. uid[j] # "none"
    BY <1>1, <1>3 DEF IdentityInv, Held, SandboxInv, SandboxTyped
  <2>2. \A p \in sweep[j].todo : p[1] \in S!Invocation
    BY DEF SandboxInv, SandboxTyped
  <2> QED BY <1>1, <1>3, <2>1, <2>2 DEF SweepSound
<1>4. SweepSound(j)'
  BY <1>1, <1>3 DEF SweepSound
<1> QED BY <1>2, <1>4

\* A step of the child, or of the clean-up behind it: no slot, no identity moves.
LEMMA PlainKeeps ==
  ASSUME SandboxInv, NEW i \in S!Invocation,
         UNCHANGED <<mode, composing, waiting, available, queue, uid>>, SandboxTyped',
         \A j \in S!Invocation \ {i} : pc'[j] = pc[j],
         \A j \in S!Invocation : (SweepSound(j) /\ ChildSound(j))',
         \/ pc'[i] = pc[i]
         \/ /\ pc[i] \in {"start", "running", "finally", "sweep", "rm"}
            /\ pc'[i] \in {"running", "finally", "sweep", "release", "rm", "hand"}
            /\ pc[i] = "rm" => pc'[i] = "hand"
            /\ mode = "namespaced" => pc'[i] \notin {"sweep", "release"}
            /\ mode # "namespaced" /\ pc[i] # "rm" => pc'[i] \notin {"rm", "hand"}
  PROVE  SandboxInv'
<1>1. SandboxTyped /\ IdentityInv
  BY DEF SandboxInv
<1>2. SlotInv'
  BY SlotsKeep DEF SandboxTyped, S!Invocation
<1>3. pc'[i] # pc[i] => HoldsIdentity(i)' = HoldsIdentity(i)
  <2>1. CASE mode = "namespaced"
    BY <1>1, <2>1 DEF IdentityInv, HoldsIdentity
  <2>2. CASE mode # "namespaced"
    BY <2>2 DEF HoldsIdentity, Held
  <2> QED BY <2>1, <2>2
<1>4. IdentityInv'
  <2>1. \/ pc'[i] = pc[i]
        \/ /\ HoldsIdentity(i)' = HoldsIdentity(i)
           /\ pc[i] # "identity" /\ pc'[i] \notin Before
           /\ pc'[i] \in Held => pc[i] \in Held
           /\ mode = "namespaced" => pc'[i] \notin {"identity", "sweep", "release"}
    BY <1>3 DEF Before, Held
  <2> QED BY <2>1, IdentitiesKeep
<1> QED BY <1>2, <1>4 DEF SandboxInv

\* The child itself: it starts, forks, ends, is killed, and its pipe is closed.
LEMMA ChildKeeps ==
  ASSUME SandboxInv, NEW i \in S!Invocation,
         S!Spawn(i) \/ S!Fork(i) \/ S!Exit(i) \/ S!RequestKill(i) \/ S!Close(i)
  PROVE  SandboxInv'
<1> USE DEF S!poolVars, S!childVars, S!cleanVars
<1>1. SandboxTyped /\ IdentityInv /\ SweepSound(i) /\ ChildSound(i)
  BY DEF SandboxInv
<1>2. UNCHANGED <<mode, composing, waiting, available, queue, uid, scratch, sweep, dirty>>
  BY DEF S!Spawn, S!Fork, S!Exit, S!RequestKill, S!Close
<1>3. raced \subseteq raced' /\ raced' \subseteq S!Invocation
  BY <1>1 DEF S!Spawn, S!Fork, S!Exit, S!RequestKill, S!Close, SandboxTyped
<1>4. PICK place \in S!Places :
        /\ pc' = [pc EXCEPT ![i] = place]
        /\ place = pc[i] \/ (pc[i] \in {"start", "running"} /\ place \in {"running", "finally"})
  <2>1. pc' = [pc EXCEPT ![i] = pc[i]] \/ pc' = [pc EXCEPT ![i] = "running"]
          \/ pc' = [pc EXCEPT ![i] = "finally"]
    BY <1>1 DEF S!Spawn, S!Fork, S!Exit, S!RequestKill, S!Close, S!Goto, SandboxTyped
  <2>2. \/ pc' = pc
        \/ (pc[i] \in {"start", "running"} /\ (S!Goto(i, "running") \/ S!Goto(i, "finally")))
    BY DEF S!Spawn, S!Fork, S!Exit, S!RequestKill, S!Close
  <2>3. {"running", "finally", pc[i]} \subseteq S!Places
    BY <1>1 DEF S!Places, S!Running, SandboxTyped
  <2>4. pc' = pc => pc' = [pc EXCEPT ![i] = pc[i]]
    BY <1>1 DEF SandboxTyped
  <2> QED BY <2>2, <2>3, <2>4 DEF S!Goto
<1>5. PICK alive \in SUBSET S!Kind : processes' = [processes EXCEPT ![i] = alive]
  <2>1. processes[i] \in SUBSET S!Kind /\ "child" \in S!Kind
    BY <1>1 DEF SandboxTyped, S!Kind
  <2>2. CASE S!Spawn(i)
    <3>1. processes' = [processes EXCEPT ![i] = {"child"}]
          \/ processes' = [processes EXCEPT ![i] = processes[i]]
      BY <1>1, <2>2 DEF S!Spawn, SandboxTyped
    <3> QED BY <2>1, <3>1
  <2>3. CASE S!Fork(i)
    <3>1. PICK kind \in S!Kind : processes' = [processes EXCEPT ![i] = processes[i] \cup {kind}]
      BY <2>3 DEF S!Fork
    <3> QED BY <2>1, <3>1
  <2>4. CASE S!Exit(i)
    <3>1. PICK kind \in processes[i] : processes' = [processes EXCEPT ![i] = S!Surviving(i, {kind})]
      BY <2>4 DEF S!Exit
    <3>2. S!Surviving(i, {kind}) \in SUBSET S!Kind
      BY <2>1 DEF S!Surviving
    <3> QED BY <3>1, <3>2
  <2>5. CASE S!RequestKill(i)
    <3>1. S!Surviving(i, S!Group) \in SUBSET S!Kind
      BY <2>1 DEF S!Surviving
    <3> QED BY <2>5, <3>1 DEF S!RequestKill
  <2>6. CASE S!Close(i)
    BY <1>1, <2>1, <2>6 DEF S!Close, SandboxTyped
  <2> QED BY <2>2, <2>3, <2>4, <2>5, <2>6
<1>6. SandboxTyped'
  <2>1. forks' \in 0..MaxForks
    BY <1>1, SandboxAssumption DEF S!Spawn, S!Fork, S!Exit, S!RequestKill, S!Close, SandboxTyped
  <2>2. killed' \subseteq S!Invocation
    BY <1>1 DEF S!Spawn, S!Fork, S!Exit, S!RequestKill, S!Close, SandboxTyped
  <2> QED BY <1>1, <1>2, <1>3, <1>4, <1>5, <2>1, <2>2 DEF SandboxTyped
<1>7. /\ pc'[i] = place /\ processes'[i] = alive
      /\ \A j \in S!Invocation \ {i} : pc'[j] = pc[j] /\ processes'[j] = processes[j]
  BY <1>1, <1>4, <1>5 DEF SandboxTyped
<1>8. ASSUME NEW j \in S!Invocation \ {i}
      PROVE  (SweepSound(j) /\ ChildSound(j))'
  BY <1>2, <1>3, <1>7, OthersKeep
<1>9. (SweepSound(i) /\ ChildSound(i))'
  <2>1. CASE S!Spawn(i)
    <3>1. pc[i] = "start" /\ place \in {"running", "finally"}
      BY <1>1, <1>7, <2>1 DEF S!Spawn, S!Goto, SandboxTyped
    <3>2. processes[i] = {} /\ alive \in {{}, {"child"}}
      BY <1>1, <1>7, <2>1, <3>1 DEF S!Spawn, ChildSound, SandboxTyped
    <3>3. place = "finally" => alive = {}
      BY <1>1, <1>7, <2>1, <3>2 DEF S!Spawn, S!Goto, SandboxTyped
    <3> QED BY <1>7, <3>1, <3>2, <3>3 DEF SweepSound, ChildSound, Before
  <2>2. CASE S!Fork(i)
    <3>1. place = pc[i] /\ raced' = raced
      BY <1>7, <2>2 DEF S!Fork
    <3>2. processes[i] # {} /\ \E kind \in S!Kind : alive = processes[i] \cup {kind}
      BY <1>1, <1>7, <2>2 DEF S!Fork, SandboxTyped
    <3> QED BY <1>1, <1>2, <1>7, <3>1, <3>2 DEF SweepSound, ChildSound
  <2>3. CASE S!Exit(i)
    <3>1. place = pc[i] /\ (pc[i] = "sweep" => i \in raced')
      BY <1>7, <2>3 DEF S!Exit
    <3>2. PICK kind \in processes[i] : alive = S!Surviving(i, {kind})
      BY <1>1, <1>7, <2>3 DEF S!Exit, SandboxTyped
    <3>3. alive \subseteq processes[i]
            /\ (mode = "namespaced" /\ alive # {} /\ "child" \in processes[i] => "child" \in alive)
      BY <3>2 DEF S!Surviving
    <3> QED BY <1>1, <1>2, <1>3, <1>7, <3>1, <3>3 DEF SweepSound, ChildSound
  <2>4. CASE S!RequestKill(i)
    <3>1. place = "running" /\ raced' = raced
      BY <1>7, <2>4 DEF S!RequestKill
    <3>2. alive = S!Surviving(i, S!Group)
      BY <1>1, <1>7, <2>4 DEF S!RequestKill, SandboxTyped
    <3>3. mode = "namespaced" => alive = {}
      BY <3>2 DEF S!Surviving, S!Group
    <3> QED BY <1>2, <1>7, <3>1, <3>3 DEF SweepSound, ChildSound, Before
  <2>5. CASE S!Close(i)
    <3>1. /\ pc[i] = "running" /\ place = "finally" /\ alive = processes[i]
          /\ "child" \notin processes[i]
      BY <1>1, <1>7, <2>5 DEF S!Close, S!Goto, SandboxTyped, S!Pipe
    <3> QED BY <1>1, <1>2, <1>7, <3>1 DEF SweepSound, ChildSound, Before
  <2> QED BY <2>1, <2>2, <2>3, <2>4, <2>5
<1> QED BY <1>2, <1>4, <1>6, <1>7, <1>8, <1>9, PlainKeeps

\* The clean-up behind the child.
LEMMA CleanupKeeps ==
  ASSUME SandboxInv, NEW i \in S!Invocation,
         S!Cleanup(i) \/ S!EndPass(i) \/ S!RemoveDirectory(i)
  PROVE  SandboxInv'
<1> USE DEF S!poolVars, S!childVars, S!cleanVars
<1>1. SandboxTyped /\ IdentityInv /\ SweepSound(i) /\ ChildSound(i)
  BY DEF SandboxInv
<1>2. UNCHANGED <<mode, composing, waiting, available, queue, uid, processes, forks, killed, raced>>
  BY DEF S!Cleanup, S!EndPass, S!RemoveDirectory
<1>3. /\ dirty \subseteq dirty' /\ dirty' \subseteq dirty \cup {i}
      /\ scratch' \subseteq scratch /\ scratch \subseteq scratch' \cup {i}
  BY DEF S!Cleanup, S!EndPass, S!RemoveDirectory
<1>4. /\ i \in S!Invocation
      /\ [todo |-> S!Listed(i), kills |-> FALSE]
           \in [todo : SUBSET (S!Invocation \X S!Kind), kills : BOOLEAN]
      /\ \A p \in S!Listed(i) : uid[p[1]] = uid[i]
      /\ \A k \in processes[i] : <<i, k>> \in S!Listed(i)
  BY <1>1 DEF S!Listed, SandboxTyped
<1>5. CASE S!Cleanup(i)
  <2>1. CASE mode = "namespaced"
    <3>1. S!Goto(i, "rm") /\ sweep' = sweep /\ pc[i] = "finally" /\ "rm" \in S!Places
            /\ scratch' = scratch /\ dirty' = dirty
      BY <1>5, <2>1 DEF S!Cleanup, S!Places
    <3>2. pc'[i] = "rm" /\ pc' \in [S!Invocation -> S!Places]
            /\ \A j \in S!Invocation \ {i} : pc'[j] = pc[j]
      BY <3>1, InvocationMoves
    <3>3. SandboxTyped'
      BY <1>1, <1>2, <3>1, <3>2 DEF SandboxTyped
    <3>4. (SweepSound(i) /\ ChildSound(i))'
      BY <1>1, <1>2, <2>1, <3>1, <3>2 DEF SweepSound, ChildSound, Before
    <3>5. ASSUME NEW j \in S!Invocation \ {i}
          PROVE  (SweepSound(j) /\ ChildSound(j))'
      BY <1>2, <3>1, <3>2, OthersKeep
    <3> QED BY <1>2, <2>1, <3>1, <3>2, <3>3, <3>4, <3>5, PlainKeeps
  <2>2. CASE mode # "namespaced"
    <3>1. /\ S!Goto(i, "sweep") /\ pc[i] = "finally" /\ "sweep" \in S!Places
               /\ scratch' = scratch /\ dirty' = dirty
          /\ sweep' = [sweep EXCEPT ![i] = [todo |-> S!Listed(i), kills |-> FALSE]]
      BY <1>5, <2>2 DEF S!Cleanup, S!Places
    <3>2. pc'[i] = "sweep" /\ pc' \in [S!Invocation -> S!Places]
            /\ \A j \in S!Invocation \ {i} : pc'[j] = pc[j]
      BY <3>1, InvocationMoves
    <3>3. /\ sweep'[i] = [todo |-> S!Listed(i), kills |-> FALSE]
          /\ \A j \in S!Invocation \ {i} : sweep'[j] = sweep[j]
      BY <1>1, <3>1 DEF SandboxTyped
    <3>4. SandboxTyped'
      BY <1>1, <1>2, <1>4, <3>1, <3>2 DEF SandboxTyped
    <3>5. (SweepSound(i) /\ ChildSound(i))'
      BY <1>1, <1>2, <1>4, <2>2, <3>1, <3>2, <3>3 DEF SweepSound, ChildSound, Before
    <3>6. ASSUME NEW j \in S!Invocation \ {i}
          PROVE  (SweepSound(j) /\ ChildSound(j))'
      BY <1>2, <3>1, <3>2, <3>3, OthersKeep
    <3> QED BY <1>2, <2>2, <3>1, <3>2, <3>4, <3>5, <3>6, PlainKeeps
  <2> QED BY <2>1, <2>2
<1>6. CASE S!EndPass(i)
  <2>0. mode # "namespaced" /\ pc[i] = "sweep" /\ scratch' = scratch
    BY <1>1, <1>6 DEF S!EndPass, IdentityInv
  <2>1. CASE S!Goto(i, "release") /\ sweep' = sweep
    <3>1. pc'[i] = "release" /\ pc' \in [S!Invocation -> S!Places]
            /\ \A j \in S!Invocation \ {i} : pc'[j] = pc[j]
      BY <2>1, InvocationMoves DEF S!Places
    <3>2. SandboxTyped'
      BY <1>1, <1>2, <1>3, <2>0, <2>1, <3>1 DEF SandboxTyped
    <3>3. i \notin dirty' => sweep[i].todo = {} /\ ~sweep[i].kills
      BY <1>6, <2>0, <2>1, <3>1 DEF S!EndPass, S!Settled
    <3>4. i \notin dirty' \cup raced' => processes'[i] = {}
      BY <1>1, <1>2, <2>0, <3>3 DEF SweepSound
    <3>5. (SweepSound(i) /\ ChildSound(i))'
      BY <1>1, <1>2, <2>0, <3>1, <3>4 DEF SweepSound, ChildSound, Before
    <3>6. ASSUME NEW j \in S!Invocation \ {i}
          PROVE  (SweepSound(j) /\ ChildSound(j))'
      BY <1>2, <1>3, <2>0, <2>1, <3>1, OthersKeep
    <3> QED BY <1>2, <2>0, <3>1, <3>2, <3>5, <3>6, PlainKeeps
  <2>2. CASE /\ sweep' = [sweep EXCEPT ![i] = [todo |-> S!Listed(i), kills |-> FALSE]]
             /\ pc' = pc /\ dirty' = dirty
    <3>1. /\ sweep'[i] = [todo |-> S!Listed(i), kills |-> FALSE]
          /\ \A j \in S!Invocation \ {i} : sweep'[j] = sweep[j]
      BY <1>1, <2>2 DEF SandboxTyped
    <3>2. SandboxTyped'
      BY <1>1, <1>2, <1>4, <2>0, <2>2 DEF SandboxTyped
    <3>3. (SweepSound(i) /\ ChildSound(i))'
      BY <1>1, <1>2, <1>4, <2>0, <2>2, <3>1 DEF SweepSound, ChildSound, Before
    <3>4. ASSUME NEW j \in S!Invocation \ {i}
          PROVE  (SweepSound(j) /\ ChildSound(j))'
      BY <1>2, <2>0, <2>2, <3>1, OthersKeep
    <3> QED BY <1>2, <2>2, <3>2, <3>3, <3>4, PlainKeeps
  <2> QED BY <1>6, <2>1, <2>2 DEF S!EndPass
<1>7. CASE S!RemoveDirectory(i)
  <2>1. S!Goto(i, "hand") /\ sweep' = sweep /\ pc[i] = "rm" /\ "hand" \in S!Places
    BY <1>7 DEF S!RemoveDirectory, S!Places
  <2>2. pc'[i] = "hand" /\ pc' \in [S!Invocation -> S!Places]
          /\ \A j \in S!Invocation \ {i} : pc'[j] = pc[j]
    BY <2>1, InvocationMoves
  <2>3. SandboxTyped'
    BY <1>1, <1>2, <1>3, <2>1, <2>2 DEF SandboxTyped
  <2>4. i \notin dirty' => i \notin scratch'
    BY <1>7 DEF S!RemoveDirectory
  <2>5. (SweepSound(i) /\ ChildSound(i))'
    BY <1>1, <1>2, <1>3, <2>1, <2>2, <2>4 DEF SweepSound, ChildSound, Before
  <2>6. ASSUME NEW j \in S!Invocation \ {i}
        PROVE  (SweepSound(j) /\ ChildSound(j))'
    BY <1>2, <1>3, <2>1, <2>2, OthersKeep
  <2> QED BY <1>2, <2>1, <2>2, <2>3, <2>5, <2>6, PlainKeeps
<1> QED BY <1>5, <1>6, <1>7

\* A visit of the sweep: whoever it kills, the identity is the sweeper's.
LEMMA SweepKeeps ==
  ASSUME SandboxInv, NEW i \in S!Invocation, S!SweepOne(i)
  PROVE  SandboxInv'
<1> USE DEF S!poolVars, S!childVars, S!cleanVars
<1>1. SandboxTyped /\ IdentityInv /\ SweepSound(i) /\ ChildSound(i) /\ pc[i] = "sweep"
  BY DEF SandboxInv, S!SweepOne
<1>2. PICK p \in sweep[i].todo :
        /\ processes' = [processes EXCEPT ![p[1]] = @ \ {p[2]}]
        /\ sweep' = [sweep EXCEPT ![i] = [todo |-> @.todo \ {p},
                                         kills |-> @.kills \/ p[2] \in processes[p[1]]]]
  BY DEF S!SweepOne
<1>3. UNCHANGED <<mode, composing, waiting, available, queue, uid, pc, forks, killed, raced,
                  scratch, dirty>>
  BY DEF S!SweepOne
<1>4. mode = "degraded" /\ uid[i] # "none"
  BY <1>1 DEF SandboxTyped, IdentityInv, Held
<1>5. p \in S!Invocation \X S!Kind /\ p = <<p[1], p[2]>> /\ p[1] \in S!Invocation
        /\ uid[p[1]] = uid[i]
  BY <1>1 DEF SandboxTyped, SweepSound
<1>6. /\ processes' \in [S!Invocation -> SUBSET S!Kind]
      /\ processes'[p[1]] = processes[p[1]] \ {p[2]}
      /\ \A j \in S!Invocation \ {p[1]} : processes'[j] = processes[j]
  BY <1>1, <1>2, <1>5 DEF SandboxTyped
<1>7. /\ sweep'[i].todo = sweep[i].todo \ {p}
      /\ sweep'[i].kills = (sweep[i].kills \/ p[2] \in processes[p[1]])
      /\ sweep' \in [S!Invocation -> [todo : SUBSET (S!Invocation \X S!Kind), kills : BOOLEAN]]
      /\ \A j \in S!Invocation \ {i} : sweep'[j] = sweep[j]
  <2>1. sweep[i] \in [todo : SUBSET (S!Invocation \X S!Kind), kills : BOOLEAN]
    BY <1>1 DEF SandboxTyped
  <2>2. [todo |-> sweep[i].todo \ {p}, kills |-> sweep[i].kills \/ p[2] \in processes[p[1]]]
          \in [todo : SUBSET (S!Invocation \X S!Kind), kills : BOOLEAN]
    BY <2>1
  <2>3. sweep' = [sweep EXCEPT ![i] = [todo |-> sweep[i].todo \ {p},
                                     kills |-> sweep[i].kills \/ p[2] \in processes[p[1]]]]
    BY <1>2
  <2> HIDE <1>2
  <2> QED BY <1>1, <2>2, <2>3 DEF SandboxTyped
<1>8. SandboxTyped'
  BY <1>1, <1>3, <1>6, <1>7 DEF SandboxTyped
<1>9. (SweepSound(i) /\ ChildSound(i))'
  <2>1. \A q \in sweep'[i].todo : uid'[q[1]] = uid'[i]
    BY <1>1, <1>3, <1>7 DEF SweepSound
  <2>2. ASSUME ~sweep'[i].kills, i \notin raced, processes'[i] # {}
        PROVE  \E k \in processes'[i] : <<i, k>> \in sweep'[i].todo
    <3>1. p[2] \notin processes[p[1]] /\ ~sweep[i].kills
      BY <1>7, <2>2
    <3>2. processes'[i] = processes[i]
      BY <1>5, <1>6, <3>1
    <3>3. PICK k \in processes[i] : <<i, k>> \in sweep[i].todo
      BY <1>1, <2>2, <3>1, <3>2 DEF SweepSound
    <3>4. <<i, k>> # p
      BY <1>5, <3>1, <3>3
    <3> QED BY <1>7, <3>2, <3>3, <3>4
  <2> QED BY <1>1, <1>3, <1>4, <2>1, <2>2 DEF SweepSound, ChildSound, Before
<1>10. ASSUME NEW j \in S!Invocation \ {i}
       PROVE  (SweepSound(j) /\ ChildSound(j))'
  <2>1. CASE p[1] # j
    BY <1>3, <1>6, <1>7, <2>1, OthersKeep
  <2>2. CASE p[1] = j
    <3>1. pc[j] \notin Held
      BY <1>1, <1>4, <1>5, <2>2 DEF IdentityInv, HoldsIdentity, Held
    <3>2. processes'[j] \subseteq processes[j] /\ ChildSound(j)
      BY <1>6, <2>2 DEF SandboxInv
    <3> QED BY <1>3, <1>4, <3>1, <3>2 DEF SweepSound, ChildSound, Held
  <2> QED BY <2>1, <2>2
<1> QED BY <1>3, <1>8, <1>9, <1>10, PlainKeeps

\* A slot is taken, queued for, and handed on.
LEMMA EnterKeeps == ASSUME SandboxInv, NEW i \in S!Invocation, S!Enter(i) PROVE SandboxInv'
<1> USE DEF S!childVars, S!cleanVars
<1>1. /\ SandboxTyped /\ IdentityInv /\ SlotInv /\ SweepSound(i) /\ ChildSound(i)
      /\ pc[i] = "idle" /\ uid[i] = "none"
  BY DEF SandboxInv, S!Enter, IdentityInv, Before
<1>2. UNCHANGED <<mode, available, queue, uid, processes, forks, killed, raced, scratch, sweep,
                  dirty>>
  BY DEF S!Enter
<1>3. PICK place \in {"acquire", "slot"} : S!Goto(i, place)
  BY DEF S!Enter
<1>4. /\ pc' \in [S!Invocation -> S!Places] /\ pc'[i] = place
      /\ \A j \in S!Invocation \ {i} : pc'[j] = pc[j]
  BY <1>3, InvocationMoves DEF S!Places
<1>5. SandboxTyped'
  BY <1>1, <1>2, <1>4 DEF SandboxTyped
<1>6. IdentityInv'
  BY <1>1, <1>2, <1>4, IdentitiesKeep DEF HoldsIdentity, Before, Held
<1>7. ASSUME NEW j \in S!Invocation
      PROVE  (SweepSound(j) /\ ChildSound(j))'
  <2>1. CASE j = i
    BY <1>1, <1>2, <1>4, <2>1 DEF SweepSound, ChildSound, Before
  <2>2. CASE j # i
    BY <1>2, <1>4, <2>2, OthersKeep
  <2> QED BY <2>1, <2>2
<1>8. SlotInv'
  <2>1. Composition \subseteq S!Invocation /\ \A j \in Members(waiting) : j \in Composition
    BY <1>1 DEF S!Invocation, SlotInv, Members
  <2>2. IsFiniteSet(S!Composing)
    BY <1>1, SandboxAssumption, FS_Subset DEF SlotInv
  <2>3. CASE i \in Validation
    <3>1. i \notin Composition /\ UNCHANGED <<composing, waiting>>
      BY <2>3, SandboxAssumption DEF S!Enter
    <3> QED BY <1>4, <2>1, <3>1, SlotsKeep
  <2>4. CASE i \notin Validation /\ composing < Concurrency
    <3>1. composing' = composing + 1 /\ place = "acquire" /\ waiting' = waiting
      BY <1>1, <1>4, <2>4 DEF S!Enter, S!Goto, SandboxTyped
    <3>2. i \in Composition /\ waiting = <<>>
      BY <1>1, <2>4 DEF S!Invocation, SlotInv
    <3>3. S!Composing' = S!Composing \cup {i} /\ i \notin S!Composing
      BY <1>1, <1>4, <2>1, <3>1, <3>2 DEF S!Composing
    <3>4. Cardinality(S!Composing \cup {i}) = Cardinality(S!Composing) + 1
      BY <2>2, <3>3, FS_AddElement
    <3> QED BY <1>1, <2>4, <3>1, <3>2, <3>3, <3>4, SandboxAssumption, QueueEmpty DEF SlotInv
  <2>5. CASE i \notin Validation /\ ~(composing < Concurrency)
    <3>1. waiting' = Append(waiting, i) /\ place = "slot" /\ composing' = composing
      BY <1>1, <1>4, <2>5 DEF S!Enter, S!Goto, SandboxTyped
    <3>2. i \in Composition /\ i \notin Members(waiting)
      BY <1>1, <2>5 DEF S!Invocation, SlotInv
    <3>3. S!Composing' = S!Composing
      BY <1>1, <1>4, <2>1, <3>1, <3>2 DEF S!Composing
    <3>4. /\ waiting' \in Seq(Composition) /\ Distinct(waiting')
          /\ Members(waiting') = Members(waiting) \cup {i}
      BY <1>1, <3>1, <3>2, QueueAppend DEF SlotInv
    <3>5. \A j \in Members(waiting') : pc'[j] = "slot"
      BY <1>1, <1>4, <2>1, <3>1, <3>4 DEF SlotInv
    <3>6. composing = Concurrency
      BY <1>1, <2>5, SandboxAssumption DEF SlotInv
    <3> QED BY <1>1, <3>1, <3>3, <3>4, <3>5, <3>6 DEF SlotInv
  <2> QED BY <2>3, <2>4, <2>5
<1> QED BY <1>5, <1>6, <1>7, <1>8 DEF SandboxInv

LEMMA HandKeeps == ASSUME SandboxInv, NEW i \in S!Invocation, S!HandSlot(i) PROVE SandboxInv'
<1> USE DEF S!childVars, S!cleanVars
<1>1. /\ SandboxTyped /\ IdentityInv /\ SlotInv /\ ChildSound(i) /\ pc[i] = "hand"
  BY DEF SandboxInv, S!HandSlot
<1>2. UNCHANGED <<mode, available, queue, uid, processes, forks, killed, raced, scratch, sweep,
                  dirty>>
  BY DEF S!HandSlot
<1>3. Composition \subseteq S!Invocation /\ \A j \in Members(waiting) : j \in Composition
  BY <1>1 DEF S!Invocation, SlotInv, Members
<1>4. IsFiniteSet(S!Composing)
  BY <1>1, SandboxAssumption, FS_Subset DEF SlotInv
<1>5. ASSUME pc' \in [S!Invocation -> S!Places], pc'[i] = "done",
             \A j \in S!Invocation \ {i} :
               pc'[j] = pc[j] \/ (pc[j] = "slot" /\ pc'[j] = "acquire"),
             SlotInv'
      PROVE  SandboxInv'
  <2>1. SandboxTyped'
    BY <1>1, <1>2, <1>5 DEF SandboxTyped
  <2>2. \A j \in S!Invocation : pc[j] = "slot" => uid[j] = "none"
    BY <1>1 DEF IdentityInv, Before
  <2>3. IdentityInv'
    BY <1>1, <1>2, <1>5, <2>2, IdentitiesKeep DEF HoldsIdentity, Before, Held
  <2>4. ASSUME NEW j \in S!Invocation
        PROVE  (SweepSound(j) /\ ChildSound(j))'
    <3>1. CASE pc'[j] = pc[j]
      BY <1>2, <3>1, OthersKeep
    <3>2. CASE pc'[j] # pc[j]
      <4>1. (j = i /\ pc'[j] = "done") \/ (pc[j] = "slot" /\ pc'[j] = "acquire")
        BY <1>5, <3>2
      <4>2. ChildSound(j)
        BY DEF SandboxInv
      <4> QED BY <1>1, <1>2, <4>1, <4>2 DEF SweepSound, ChildSound, Before
    <3> QED BY <3>1, <3>2
  <2> QED BY <1>5, <2>1, <2>3, <2>4 DEF SandboxInv
<1>6. CASE i \in Validation \/ waiting = <<>>
  <2>1. S!Goto(i, "done") /\ waiting' = waiting
    BY <1>6 DEF S!HandSlot
  <2>2. /\ pc' \in [S!Invocation -> S!Places] /\ pc'[i] = "done"
        /\ \A j \in S!Invocation \ {i} : pc'[j] = pc[j]
    BY <2>1, InvocationMoves DEF S!Places
  <2>3. CASE i \in Validation
    <3>1. i \notin Composition /\ composing' = composing
      BY <2>3, SandboxAssumption DEF S!HandSlot
    <3>2. SlotInv'
      BY <1>3, <2>1, <2>2, <3>1, SlotsKeep
    <3> QED BY <1>5, <2>2, <3>2
  <2>4. CASE i \notin Validation
    <3>1. i \in Composition /\ waiting = <<>> /\ composing' = composing - 1
      BY <1>6, <2>4 DEF S!HandSlot, S!Counted, S!Invocation
    <3>2. S!Composing' = S!Composing \ {i} /\ i \in S!Composing
      BY <1>1, <1>3, <2>2, <3>1 DEF S!Composing
    <3>3. Cardinality(S!Composing \ {i}) = Cardinality(S!Composing) - 1
            /\ Cardinality(S!Composing \ {i}) \in Nat
      BY <1>4, <3>2, FS_RemoveElement, FS_CardinalityType
    <3>4. SlotInv'
      BY <1>1, <2>1, <3>1, <3>2, <3>3, SandboxAssumption, QueueEmpty DEF SlotInv
    <3> QED BY <1>5, <2>2, <3>4
  <2> QED BY <2>3, <2>4
<1>7. CASE ~(i \in Validation \/ waiting = <<>>)
  <2> DEFINE h == Head(waiting)
  <2>1. /\ i \in Composition /\ composing' = composing /\ waiting' = Tail(waiting)
        /\ pc' = [pc EXCEPT ![i] = "done", ![h] = "acquire"]
    BY <1>7 DEF S!HandSlot, S!Counted, S!Invocation
  <2>2. /\ h \in Composition /\ h \in Members(waiting) /\ Tail(waiting) \in Seq(Composition)
        /\ Members(Tail(waiting)) = Members(waiting) \ {h} /\ Distinct(Tail(waiting))
    BY <1>1, <1>7, QueueTail DEF SlotInv
  <2>3. pc[h] = "slot" /\ h # i
    BY <1>1, <2>2 DEF SlotInv
  <2> HIDE DEF h
  <2>4. /\ pc' \in [S!Invocation -> S!Places] /\ pc'[i] = "done" /\ pc'[h] = "acquire"
        /\ \A j \in S!Invocation \ {i, h} : pc'[j] = pc[j]
    BY <1>1, <1>3, <2>1, <2>2, <2>3 DEF SandboxTyped, S!Places
  <2>5. S!Composing' = (S!Composing \ {i}) \cup {h} /\ i \in S!Composing /\ h \notin S!Composing
    BY <1>1, <1>3, <2>1, <2>2, <2>3, <2>4 DEF S!Composing
  <2>6. Cardinality(S!Composing') = Cardinality(S!Composing)
    <3>1. IsFiniteSet(S!Composing \ {i})
            /\ Cardinality(S!Composing \ {i}) = Cardinality(S!Composing) - 1
      BY <1>4, <2>5, FS_RemoveElement
    <3>2. Cardinality((S!Composing \ {i}) \cup {h}) = Cardinality(S!Composing \ {i}) + 1
      BY <2>5, <3>1, FS_AddElement
    <3>3. Cardinality(S!Composing) \in Nat
      BY <1>4, FS_CardinalityType
    <3> QED BY <2>5, <3>1, <3>2, <3>3
  <2>7. \A j \in Members(waiting') : pc'[j] = "slot"
    BY <1>1, <1>3, <2>1, <2>2, <2>4 DEF SlotInv
  <2>8. SlotInv'
    BY <1>1, <1>7, <2>1, <2>2, <2>5, <2>6, <2>7 DEF SlotInv
  <2> QED BY <1>5, <2>3, <2>4, <2>8
<1> QED BY <1>6, <1>7

-----------------------------------------------------------------------------
\* An identity is taken from the pool, or queued for.
LEMMA AcquireKeeps == ASSUME SandboxInv, NEW i \in S!Invocation, S!Acquire(i) PROVE SandboxInv'
<1> USE DEF S!childVars, S!cleanVars
<1>1. /\ SandboxTyped /\ IdentityInv /\ SlotInv /\ ChildSound(i)
      /\ pc[i] = "acquire" /\ uid[i] = "none"
  BY DEF SandboxInv, S!Acquire, IdentityInv, Before
<1>2. UNCHANGED <<mode, composing, waiting, processes, forks, killed, raced, scratch, sweep, dirty>>
  BY DEF S!Acquire
<1>3. PICK place \in {"mkdtemp", "identity"} : S!Goto(i, place)
  BY DEF S!Acquire
<1>4. /\ pc' \in [S!Invocation -> S!Places] /\ pc'[i] = place
      /\ \A j \in S!Invocation \ {i} : pc'[j] = pc[j]
  BY <1>3, InvocationMoves DEF S!Places
<1>5. SlotInv'
  BY <1>1, <1>2, <1>4, SlotsKeep DEF S!Invocation
<1>6. ASSUME uid' \in [S!Invocation -> Identity \cup {"none"}],
             \A j \in S!Invocation \ {i} : uid'[j] = uid[j], IdentityInv'
      PROVE  SandboxInv'
  <2>1. SandboxTyped'
    BY <1>1, <1>2, <1>4, <1>6 DEF SandboxTyped
  <2>2. ASSUME NEW j \in S!Invocation
        PROVE  (SweepSound(j) /\ ChildSound(j))'
    <3>1. CASE j = i
      BY <1>1, <1>2, <1>4, <3>1 DEF SweepSound, ChildSound, Before
    <3>2. CASE j # i
      BY <1>1, <1>2, <1>4, <1>6, <3>2, OthersKeep
    <3> QED BY <3>1, <3>2
  <2> QED BY <1>5, <1>6, <2>1, <2>2 DEF SandboxInv
<1>7. CASE mode = "namespaced"
  <2>1. place = "mkdtemp" /\ UNCHANGED <<available, queue, uid>>
    BY <1>1, <1>4, <1>7 DEF S!Acquire, S!Goto, SandboxTyped
  <2>2. IdentityInv'
    BY <1>1, <1>2, <1>4, <1>7, <2>1, IdentitiesKeep DEF HoldsIdentity, Before, Held
  <2> QED BY <1>1, <1>6, <2>1, <2>2 DEF SandboxTyped
<1>8. CASE mode = "degraded" /\ available # {}
  <2>1. PICK u \in available :
          /\ available' = available \ {u} /\ uid' = [uid EXCEPT ![i] = u]
          /\ place = "mkdtemp" /\ queue' = queue
    BY <1>1, <1>4, <1>8 DEF S!Acquire, S!Goto, SandboxTyped
  <2>2. u \in Identity /\ u # "none" /\ queue = <<>>
    BY <1>1, <1>8, <2>1, SandboxAssumption DEF IdentityInv
  <2>3. /\ uid' \in [S!Invocation -> Identity \cup {"none"}] /\ uid'[i] = u
        /\ \A j \in S!Invocation \ {i} : uid'[j] = uid[j]
    BY <1>1, <2>1, <2>2 DEF SandboxTyped
  <2>4. /\ HoldsIdentity(i)' /\ ~HoldsIdentity(i)
        /\ \A j \in S!Invocation \ {i} : HoldsIdentity(j)' = HoldsIdentity(j)
    BY <1>1, <1>4, <2>1, <2>2, <2>3 DEF HoldsIdentity, Held
  <2>5. \A j \in S!Invocation : HoldsIdentity(j) => uid[j] # u
    BY <1>1, <2>1, <2>2 DEF IdentityInv
  <2>6. \A w \in Identity : w \in available' <=>
          \A j \in S!Invocation : HoldsIdentity(j)' => uid'[j] # w
    BY <1>1, <2>1, <2>3, <2>4, <2>5 DEF IdentityInv
  <2>7. \A j, k \in S!Invocation :
          HoldsIdentity(j)' /\ HoldsIdentity(k)' /\ uid'[j] = uid'[k] => j = k
    BY <1>1, <2>3, <2>4, <2>5 DEF IdentityInv
  <2>8. \A j \in S!Invocation : /\ pc'[j] \in Before => uid'[j] = "none"
                                /\ pc'[j] \in Held => uid'[j] # "none"
    BY <1>1, <1>4, <1>8, <2>1, <2>2, <2>3 DEF IdentityInv, Before, Held
  <2>9. IdentityInv'
    BY <1>1, <1>2, <1>8, <2>1, <2>2, <2>6, <2>7, <2>8, QueueEmpty DEF IdentityInv
  <2> QED BY <1>6, <2>3, <2>9
<1>9. CASE mode = "degraded" /\ available = {}
  <2>1. queue' = Append(queue, i) /\ place = "identity" /\ UNCHANGED <<available, uid>>
    BY <1>1, <1>4, <1>9 DEF S!Acquire, S!Goto, SandboxTyped
  <2>2. i \notin Members(queue) /\ \A j \in Members(queue) : j \in S!Invocation
    BY <1>1 DEF IdentityInv, Members
  <2>3. /\ queue' \in Seq(S!Invocation) /\ Distinct(queue')
        /\ Members(queue') = Members(queue) \cup {i}
    BY <1>1, <2>1, <2>2, QueueAppend DEF IdentityInv
  <2>4. \A j \in S!Invocation : HoldsIdentity(j)' = HoldsIdentity(j)
    BY <1>1, <1>4, <2>1 DEF HoldsIdentity, Held
  <2>5. \A j \in Members(queue') : pc'[j] = "identity"
    BY <1>1, <1>4, <2>1, <2>2, <2>3 DEF IdentityInv
  <2>6. \A j \in S!Invocation : /\ pc'[j] \in Before => uid'[j] = "none"
                                /\ pc'[j] \in Held => uid'[j] # "none"
    BY <1>1, <1>4, <1>9, <2>1 DEF IdentityInv, Before, Held
  <2>7. IdentityInv'
    BY <1>1, <1>2, <1>9, <2>1, <2>3, <2>4, <2>5, <2>6 DEF IdentityInv
  <2> QED BY <1>1, <1>6, <2>1, <2>7 DEF SandboxTyped
<1> QED BY <1>1, <1>7, <1>8, <1>9 DEF SandboxTyped

\* An identity is given back, or handed to the next in the queue.
LEMMA ReleasedKeeps ==
  ASSUME SandboxInv, NEW i \in S!Invocation, NEW place \in {"hand", "rm"},
         pc[i] \in {"mkdtemp", "release"}, uid[i] # "none", S!Released(i, place),
         UNCHANGED <<mode, composing, waiting, processes, forks, killed, raced, scratch, sweep,
                     dirty>>
  PROVE  /\ SandboxTyped' /\ SlotInv' /\ IdentityInv' /\ pc'[i] = place
         /\ \A j \in S!Invocation \ {i} : (SweepSound(j) /\ ChildSound(j))'
<1>1. SandboxTyped /\ IdentityInv /\ SlotInv
  BY DEF SandboxInv
<1>2. /\ mode = "degraded" /\ HoldsIdentity(i) /\ uid[i] \in Identity
      /\ place \in S!Places /\ "mkdtemp" \in S!Places
  BY <1>1 DEF IdentityInv, HoldsIdentity, Held, SandboxTyped, S!Places
<1>3. ASSUME NEW j \in S!Invocation, HoldsIdentity(j), uid[j] = uid[i]
      PROVE  j = i
  BY <1>1, <1>2, <1>3 DEF IdentityInv
<1>4. CASE queue = <<>>
  <2>1. available' = available \cup {uid[i]} /\ S!Goto(i, place) /\ UNCHANGED <<queue, uid>>
    BY <1>4 DEF S!Released
  <2>2. /\ pc' \in [S!Invocation -> S!Places] /\ pc'[i] = place
        /\ \A j \in S!Invocation \ {i} : pc'[j] = pc[j]
    BY <1>2, <2>1, InvocationMoves
  <2>3. ~HoldsIdentity(i)' /\ \A j \in S!Invocation \ {i} : HoldsIdentity(j)' = HoldsIdentity(j)
    BY <2>1, <2>2 DEF HoldsIdentity, Held
  <2>4. \A w \in Identity : w \in available' <=>
          \A j \in S!Invocation : HoldsIdentity(j)' => uid'[j] # w
    BY <1>1, <1>2, <1>3, <2>1, <2>3 DEF IdentityInv
  <2>5. \A j \in S!Invocation : /\ pc'[j] \in Before => uid'[j] = "none"
                                /\ pc'[j] \in Held => uid'[j] # "none"
    BY <1>1, <1>2, <2>1, <2>2 DEF IdentityInv, Before, Held
  <2>6. \A j, k \in S!Invocation :
          HoldsIdentity(j)' /\ HoldsIdentity(k)' /\ uid'[j] = uid'[k] => j = k
    BY <1>1, <2>1, <2>3 DEF IdentityInv
  <2>7. IdentityInv'
    BY <1>1, <1>2, <1>4, <2>1, <2>4, <2>5, <2>6, QueueEmpty DEF IdentityInv
  <2>8. SandboxTyped'
    BY <1>1, <2>1, <2>2 DEF SandboxTyped
  <2>9. SlotInv'
    BY <2>2, SlotsKeep DEF S!Invocation
  <2> QED BY <2>1, <2>2, <2>7, <2>8, <2>9, OthersKeep
<1>5. CASE queue # <<>>
  <2>0. PICK h : h = Head(queue)
    OBVIOUS
  <2>1. /\ queue' = Tail(queue) /\ available' = available
        /\ uid' = [uid EXCEPT ![h] = uid[i]]
        /\ pc' = [pc EXCEPT ![i] = place, ![h] = "mkdtemp"]
    BY <1>5, <2>0 DEF S!Released
  <2>2. /\ h \in S!Invocation /\ h \in Members(queue) /\ Tail(queue) \in Seq(S!Invocation)
        /\ Members(Tail(queue)) = Members(queue) \ {h} /\ Distinct(Tail(queue))
    BY <1>1, <1>5, <2>0, QueueTail DEF IdentityInv
  <2>3. pc[h] = "identity" /\ h # i /\ uid[h] = "none" /\ available = {}
    BY <1>1, <1>5, <2>2 DEF IdentityInv, Before
  <2>4. /\ pc' \in [S!Invocation -> S!Places] /\ pc'[i] = place /\ pc'[h] = "mkdtemp"
        /\ \A j \in S!Invocation \ {i, h} : pc'[j] = pc[j]
    BY <1>1, <1>2, <2>1, <2>2, <2>3 DEF SandboxTyped
  <2>5. /\ uid' \in [S!Invocation -> Identity \cup {"none"}] /\ uid'[h] = uid[i]
        /\ \A j \in S!Invocation \ {h} : uid'[j] = uid[j]
    BY <1>1, <1>2, <2>1, <2>2 DEF SandboxTyped
  <2>6. /\ ~HoldsIdentity(i)' /\ HoldsIdentity(h)' /\ ~HoldsIdentity(h)
        /\ \A j \in S!Invocation \ {i, h} : HoldsIdentity(j)' = HoldsIdentity(j)
    BY <2>2, <2>3, <2>4, <2>5 DEF HoldsIdentity, Held
  <2>7. \A w \in Identity : w \in available' <=>
          \A j \in S!Invocation : HoldsIdentity(j)' => uid'[j] # w
    <3>1. ASSUME NEW w \in Identity
          PROVE  \E j \in S!Invocation : HoldsIdentity(j)' /\ uid'[j] = w
      <4>1. PICK j \in S!Invocation : HoldsIdentity(j) /\ uid[j] = w
        BY <1>1, <2>3 DEF IdentityInv
      <4>2. CASE j = i
        BY <2>2, <2>5, <2>6, <4>1, <4>2
      <4>3. CASE j # i
        BY <2>5, <2>6, <4>1, <4>3
      <4> QED BY <4>2, <4>3
    <3> QED BY <2>1, <2>3, <3>1
  <2>8. \A j, k \in S!Invocation :
          HoldsIdentity(j)' /\ HoldsIdentity(k)' /\ uid'[j] = uid'[k] => j = k
    BY <1>1, <1>3, <2>2, <2>5, <2>6 DEF IdentityInv
  <2>9. \A j \in S!Invocation : /\ pc'[j] \in Before => uid'[j] = "none"
                                /\ pc'[j] \in Held => uid'[j] # "none"
    BY <1>1, <1>2, <2>3, <2>4, <2>5 DEF IdentityInv, Before, Held
  <2>10. \A j \in Members(queue') : pc'[j] = "identity"
    <3>1. ASSUME NEW j \in Members(queue), j # h
          PROVE  j \in S!Invocation \ {i, h} /\ pc[j] = "identity"
      BY <1>1, <3>1 DEF IdentityInv, Members
    <3> QED BY <2>1, <2>2, <2>4, <3>1
  <2>11. IdentityInv'
    BY <1>1, <1>2, <2>1, <2>2, <2>3, <2>7, <2>8, <2>9, <2>10 DEF IdentityInv
  <2>12. SandboxTyped'
    BY <1>1, <2>4, <2>5 DEF SandboxTyped
  <2>13. SlotInv'
    BY <2>3, <2>4, SlotsKeep DEF S!Invocation
  <2>14. ASSUME NEW j \in S!Invocation \ {i}
         PROVE  (SweepSound(j) /\ ChildSound(j))'
    <3>1. CASE j = h
      <4>1. ChildSound(j)
        BY DEF SandboxInv
      <4> QED BY <2>3, <2>4, <3>1, <4>1 DEF SweepSound, ChildSound, Before
    <3>2. CASE j # h
      BY <2>3, <2>4, <2>5, <3>2, OthersKeep
    <3> QED BY <3>1, <3>2
  <2> QED BY <2>4, <2>11, <2>12, <2>13, <2>14
<1> QED BY <1>4, <1>5

LEMMA ReleaseKeeps ==
  ASSUME SandboxInv, NEW i \in S!Invocation, S!Release(i) \/ S!MakeDirectory(i)
  PROVE  SandboxInv'
<1> USE DEF S!childVars, S!cleanVars
<1>1. SandboxTyped /\ IdentityInv /\ ChildSound(i)
  BY DEF SandboxInv
<1>2. CASE S!Release(i)
  <2>1. /\ pc[i] = "release"
        /\ UNCHANGED <<mode, composing, waiting, processes, forks, killed, raced, scratch, sweep,
                       dirty>>
    BY <1>2 DEF S!Release
  <2>2. uid[i] # "none" /\ mode = "degraded"
    BY <1>1, <2>1 DEF IdentityInv, Held, SandboxTyped
  <2>3. PICK place \in {"hand", "rm"} : S!Released(i, place) /\ (place = "hand" <=> i \in dirty)
    BY <1>2 DEF S!Release
  <2>4. /\ SandboxTyped' /\ SlotInv' /\ IdentityInv' /\ pc'[i] = place
        /\ \A j \in S!Invocation \ {i} : (SweepSound(j) /\ ChildSound(j))'
    BY <2>1, <2>2, <2>3, ReleasedKeeps
  <2>5. (SweepSound(i) /\ ChildSound(i))'
    BY <1>1, <2>1, <2>2, <2>3, <2>4 DEF SweepSound, ChildSound, Before
  <2> QED BY <2>4, <2>5 DEF SandboxInv
<1>3. CASE S!MakeDirectory(i)
  <2>1. /\ pc[i] = "mkdtemp"
        /\ UNCHANGED <<mode, composing, waiting, processes, forks, killed, raced, sweep, dirty>>
    BY <1>3 DEF S!MakeDirectory
  <2>2. processes[i] = {} /\ i \notin scratch
    BY <1>1, <2>1 DEF ChildSound
  <2>3. CASE scratch' = scratch \cup {i} /\ S!Goto(i, "start")
             /\ UNCHANGED <<available, queue, uid>>
    <3>1. /\ pc' \in [S!Invocation -> S!Places] /\ pc'[i] = "start"
          /\ \A j \in S!Invocation \ {i} : pc'[j] = pc[j]
      BY <2>3, InvocationMoves DEF S!Places, S!Running
    <3>2. SandboxTyped'
      BY <1>1, <2>1, <2>3, <3>1 DEF SandboxTyped
    <3>3. SlotInv'
      BY <2>1, <3>1, SlotsKeep DEF S!Invocation
    <3>4. IdentityInv'
      BY <2>1, <2>3, <3>1, IdentitiesKeep DEF HoldsIdentity, Before, Held
    <3>5. (SweepSound(i) /\ ChildSound(i))'
      BY <1>1, <2>1, <2>2, <3>1 DEF SweepSound, ChildSound, Before
    <3>6. ASSUME NEW j \in S!Invocation \ {i}
          PROVE  (SweepSound(j) /\ ChildSound(j))'
      BY <2>1, <2>3, <3>1, OthersKeep
    <3> QED BY <3>2, <3>3, <3>4, <3>5, <3>6 DEF SandboxInv
  <2>4. CASE S!NoDirectory(i) /\ scratch' = scratch
    <3>1. CASE uid[i] = "none"
      <4>1. S!Goto(i, "hand") /\ UNCHANGED <<available, queue, uid>>
        BY <2>4, <3>1 DEF S!NoDirectory, S!None
      <4>2. /\ pc' \in [S!Invocation -> S!Places] /\ pc'[i] = "hand"
            /\ \A j \in S!Invocation \ {i} : pc'[j] = pc[j]
        BY <4>1, InvocationMoves DEF S!Places
      <4>3. SandboxTyped'
        BY <1>1, <2>1, <2>4, <4>1, <4>2 DEF SandboxTyped
      <4>4. SlotInv'
        BY <2>1, <4>2, SlotsKeep DEF S!Invocation
      <4>5. IdentityInv'
        BY <2>1, <3>1, <4>1, <4>2, IdentitiesKeep DEF HoldsIdentity, Before, Held
      <4>6. (SweepSound(i) /\ ChildSound(i))'
        BY <1>1, <2>1, <2>2, <2>4, <4>2 DEF SweepSound, ChildSound, Before
      <4>7. ASSUME NEW j \in S!Invocation \ {i}
            PROVE  (SweepSound(j) /\ ChildSound(j))'
        BY <2>1, <2>4, <4>1, <4>2, OthersKeep
      <4> QED BY <4>3, <4>4, <4>5, <4>6, <4>7 DEF SandboxInv
    <3>2. CASE uid[i] # "none"
      <4>1. S!Released(i, "hand")
        BY <2>4, <3>2 DEF S!NoDirectory, S!None
      <4>2. /\ SandboxTyped' /\ SlotInv' /\ IdentityInv' /\ pc'[i] = "hand"
            /\ \A j \in S!Invocation \ {i} : (SweepSound(j) /\ ChildSound(j))'
        BY <2>1, <2>4, <3>2, <4>1, ReleasedKeeps
      <4>3. (SweepSound(i) /\ ChildSound(i))'
        BY <1>1, <2>1, <2>2, <2>4, <4>2 DEF SweepSound, ChildSound, Before
      <4> QED BY <4>2, <4>3 DEF SandboxInv
    <3> QED BY <3>1, <3>2
  <2> QED BY <1>3, <2>3, <2>4 DEF S!MakeDirectory
<1> QED BY <1>2, <1>3

LEMMA SandboxStepKeeps == ASSUME SandboxInv, [S!Next]_(S!vars) PROVE SandboxInv'
<1>1. CASE UNCHANGED S!vars
  <2>1. UNCHANGED <<mode, composing, waiting, available, queue, pc, uid, processes, forks, killed,
                    raced, scratch, sweep, dirty>>
    BY <1>1 DEF S!vars, S!poolVars, S!childVars, S!cleanVars
  <2>2. SandboxTyped' /\ SlotInv' /\ IdentityInv'
    BY <2>1, SlotsKeep, IdentitiesKeep DEF SandboxInv, SandboxTyped
  <2>3. ASSUME NEW j \in S!Invocation
        PROVE  (SweepSound(j) /\ ChildSound(j))'
    BY <2>1, OthersKeep
  <2> QED BY <2>2, <2>3 DEF SandboxInv
<1>2. ASSUME NEW i \in S!Invocation,
             S!Enter(i) \/ S!CallStep(i) \/ S!RequestKill(i) \/ S!Fork(i) \/ S!Exit(i)
      PROVE  SandboxInv'
  BY <1>2, EnterKeeps, HandKeeps, AcquireKeeps, ReleaseKeeps, ChildKeeps, CleanupKeeps, SweepKeeps
     DEF S!CallStep
<1> QED BY <1>1, <1>2 DEF S!Next

\* No identity is used twice, none is lost, the slots are counted, and an invocation that is
\* over and could clean up leaves neither process nor directory, however compositions and
\* validations, forks, kills and failed clean-ups overlap (protected-delivery.ts, sandbox.ts,
\* privilege-separation.ts).
THEOREM SandboxStaysSound == S!Spec => []SandboxSound
<1>1. SandboxInv /\ [S!Next]_(S!vars) => SandboxInv'
  BY SandboxStepKeeps
<1>2. SandboxInv => SandboxSound
  BY SandboxPromise
<1> QED BY <1>1, <1>2, SandboxInitially, PTL DEF S!Spec

-----------------------------------------------------------------------------
(* The reading room.                                                        *)

Location == Doc \cup {"room", "rooms"}
Metadata == [doc: Doc \cup {NoDoc}, load: Version \cup {"loading", "gone", "failed"}]
Tracker == [known: BOOLEAN, over: BOOLEAN, again: BOOLEAN, opening: BOOLEAN]
PageRead == [step: {"none", "loading", "shown", "failed"}, doc: Doc \cup {NoDoc},
             image: Version \cup {"none"}, text: BOOLEAN, opened: BOOLEAN]
Rereading == [step: {"none", "document", "found", "room", "listed"}, doc: Doc \cup {NoDoc},
              found: R!Answer \cup {"none"}, docs: SUBSET Doc]
Listing == [kind: {"loading", "failed", "ready"}, docs: SUBSET Doc]
ListCall == [step: {"none", "sent", "failed", "ready"}, docs: SUBSET Doc]

\* The page, and the tracker it waits for, are those of the open version.
ReadingSound ==
  /\ page \in PageRead /\ tracker \in Tracker
  /\ page.step # "none" => page.doc = at /\ R!Open # "none"
  /\ page.step = "shown" => page.image = R!Open
  /\ page.step = "loading" /\ ~page.opened => tracker.opening
  /\ tracker.known \/ tracker.over \/ tracker.opening => R!Open # "none"

\* The metadata is that of the open document, or is being read.
MetadataSound ==
  /\ at \in Location /\ meta \in Metadata /\ metaCall \in Doc \cup {NoDoc}
  /\ metaCall # NoDoc => metaCall = at
  /\ at \in Doc /\ (meta.doc # at \/ meta.load = "loading") => metaCall = at

\* The list of the room is there, or somebody is reading it; under a notice it is there.
ListSound ==
  /\ listing \in Listing /\ listCall \in ListCall /\ notice \in Doc \cup {NoDoc}
  /\ at # "rooms" /\ listing.kind = "loading" => listCall.step # "none"
  /\ notice # NoDoc => at = "room" /\ listing.kind = "ready"
  /\ R!WithdrawnIsGone

\* A re-read is about the open document; what it found gone is gone unless it came back.
RereadSound ==
  /\ reread \in Rereading
  /\ reread.step # "none" => reread.doc = at /\ at \in Doc
  /\ reread.step = "room" => reread.found = "gone"
  /\ reread.step \in {"found", "room"} /\ reread.found = "gone" /\ ~back =>
       standing # "reads" \/ published[reread.doc] = "gone"
  /\ reread.step = "listed" /\ reread.found = "gone" /\ ~back => reread.doc \notin reread.docs

ServerTyped ==
  /\ standing \in {"reads", "revoked", "signed out"}
  /\ published \in [Doc -> Version \cup {"gone"}]
  /\ arrived \in BOOLEAN /\ ended \in BOOLEAN /\ lost \in BOOLEAN /\ back \in BOOLEAN

ReaderInv ==
  ServerTyped /\ ReadingSound /\ MetadataSound /\ ListSound /\ RereadSound

LEMMA ReaderPromise == ASSUME ReaderInv PROVE R!TypeOK /\ ReaderSound
<1>1. R!TypeOK
  BY DEF ReaderInv, ServerTyped, ReadingSound, MetadataSound, ListSound, RereadSound, R!TypeOK,
     Location, Metadata, Tracker, PageRead, Rereading, Listing, ListCall
<1>2. R!ShowsOpenVersion
  BY DEF ReaderInv, ReadingSound, R!ShowsOpenVersion
<1>3. R!NothingStuck
  BY DEF ReaderInv, ReadingSound, MetadataSound, ListSound, R!NothingStuck
<1>4. R!WithdrawnIsGone
  BY DEF ReaderInv, ListSound
<1> QED BY <1>1, <1>2, <1>3, <1>4 DEF ReaderSound, R!ReaderSound

LEMMA Nothing ==
  /\ R!NoPage \in PageRead /\ R!NoTracker \in Tracker /\ R!NoReread \in Rereading
  /\ R!Loading \in Listing
  /\ R!NoPage.step = "none" /\ R!NoReread.step = "none" /\ R!Loading.kind = "loading"
  /\ ~R!NoTracker.known /\ ~R!NoTracker.over /\ ~R!NoTracker.opening
BY DEF R!NoPage, R!NoTracker, R!NoReread, R!Loading, PageRead, Tracker, Rereading, Listing

\* A version is open only at the document the metadata is of.
LEMMA OpenIsRead ==
  ASSUME meta \in Metadata, at \in Location, R!Open # "none"
  PROVE  at \in Doc /\ meta.doc = at /\ meta.load \in Version /\ R!Open = meta.load
<1>1. meta.doc = at /\ meta.load \in Version /\ R!Open = meta.load
  BY DEF R!Open, R!OpenVersion
<1> QED BY <1>1, ReaderAssumption DEF Metadata, Location

LEMMA ReaderInitially == ASSUME R!Init PROVE ReaderInv
<1>1. page = R!NoPage /\ tracker = R!NoTracker /\ reread = R!NoReread /\ listing = R!Loading
  BY DEF R!Init
<1>2. ServerTyped
  BY DEF R!Init, ServerTyped
<1>3. ReadingSound
  BY <1>1, Nothing DEF ReadingSound
<1>4. MetadataSound
  BY ReaderAssumption DEF R!Init, MetadataSound, Location, Metadata
<1>5. ListSound
  BY <1>1, Nothing DEF R!Init, ListSound, R!WithdrawnIsGone, ListCall
<1>6. RereadSound
  BY <1>1, Nothing DEF RereadSound
<1> QED BY <1>2, <1>3, <1>4, <1>5, <1>6 DEF ReaderInv

\* The effect of another target keeps the page and the tracker with it.
LEMMA FollowKeeps ==
  ASSUME ReadingSound, meta \in Metadata, at \in Location, meta' \in Metadata, at' \in Location,
         R!Follow(at')
  PROVE  ReadingSound'
<1>1. R!Open' = R!OpenVersion(meta', at')
  BY DEF R!Open, R!OpenVersion
<1>2. CASE at' = at /\ R!Open' = R!Open
  <2>1. page' = page /\ tracker' = tracker
    BY <1>1, <1>2 DEF R!Follow, R!reading
  <2> QED BY <1>2, <2>1 DEF ReadingSound
<1>3. CASE ~(at' = at /\ R!Open' = R!Open) /\ R!Open' = "none"
  <2>1. page' = R!NoPage /\ tracker' = R!NoTracker
    BY <1>1, <1>3 DEF R!Follow
  <2> QED BY <2>1, Nothing DEF ReadingSound
<1>4. CASE ~(at' = at /\ R!Open' = R!Open) /\ R!Open' # "none"
  <2>1. /\ tracker' = [R!NoTracker EXCEPT !.opening = TRUE]
        /\ page' = [R!NoPage EXCEPT !.step = "loading", !.doc = at']
    BY <1>1, <1>4 DEF R!Follow
  <2>2. at' \in Doc
    BY <1>1, <1>4, ReaderAssumption DEF R!OpenVersion, Metadata, Location
  <2>3. /\ tracker' \in Tracker /\ tracker'.opening
        /\ page' \in PageRead /\ page'.step = "loading" /\ page'.doc = at'
    BY <2>1, <2>2, Nothing DEF Tracker, PageRead
  <2> QED BY <1>4, <2>3 DEF ReadingSound
<1> QED BY <1>2, <1>3, <1>4

\* A change of the location keeps all but the list, and what is left of a re-read is nothing.
LEMMA MoveKeeps ==
  ASSUME ReaderInv, NEW to \in Location, R!Move(to)
  PROVE  /\ ReadingSound' /\ MetadataSound' /\ RereadSound' /\ at' = to
         /\ listCall' \in ListCall
         /\ to # "rooms" /\ at = "rooms" => listCall'.step = "sent"
         /\ to # "rooms" /\ at # "rooms" => listCall' = listCall
<1>1. ReadingSound /\ meta \in Metadata /\ at \in Location /\ at' = to /\ listCall \in ListCall
  BY DEF ReaderInv, MetadataSound, ListSound, R!Move
<1>2. MetadataSound'
  <2>1. CASE to \in Doc
    BY <1>1, <2>1, ReaderAssumption DEF R!Move, MetadataSound, Metadata
  <2>2. CASE to \notin Doc
    BY <1>1, <2>2 DEF R!Move, MetadataSound
  <2> QED BY <2>1, <2>2
<1>3. ReadingSound'
  BY <1>1, <1>2, FollowKeeps DEF R!Move, MetadataSound
<1>4. RereadSound'
  BY Nothing DEF R!Move, R!Abandoned, RereadSound
<1>5. /\ listCall' \in ListCall
      /\ to # "rooms" /\ at = "rooms" => listCall'.step = "sent"
      /\ to # "rooms" /\ at # "rooms" => listCall' = listCall
  BY <1>1 DEF R!Move, ListCall
<1> QED BY <1>1, <1>2, <1>3, <1>4, <1>5

LEMMA NavigateKeeps ==
  ASSUME ReaderInv,
         (\E to \in Location : R!Navigate(to)) \/ R!Arrive \/ R!Withdrawn
  PROVE  ReaderInv'
<1>1. ListSound /\ RereadSound /\ ServerTyped /\ at \in Location
  BY DEF ReaderInv, MetadataSound
<1>2. ASSUME NEW to \in Location, R!Navigate(to)
      PROVE  ReaderInv'
  <2>1. R!Move(to)
    BY <1>2 DEF R!Navigate
  <2>2. ServerTyped'
    BY <1>1, <1>2 DEF R!Navigate, R!server, ServerTyped
  <2>3. ListSound'
    <3>1. listing' \in Listing /\ notice' = NoDoc
      BY <1>1, <1>2, Nothing DEF R!Navigate, ListSound
    <3>2. at' # "rooms" /\ listing'.kind = "loading" => listCall'.step # "none"
      BY <1>1, <1>2, <2>1, MoveKeeps DEF R!Navigate, ListSound
    <3> QED BY <2>1, <3>1, <3>2, MoveKeeps DEF ListSound, R!WithdrawnIsGone
  <2> QED BY <2>1, <2>2, <2>3, MoveKeeps DEF ReaderInv
<1>3. CASE R!Arrive
  <2>1. ServerTyped'
    BY <1>1, <1>3 DEF R!Arrive, R!server, ServerTyped
  <2>2. CASE at = "rooms" /\ standing = "reads"
    <3>1. R!Move("room") /\ listing' = R!Loading /\ UNCHANGED <<notice, back>>
      BY <1>3, <2>2 DEF R!Arrive
    <3>2. "room" \in Location
      BY DEF Location
    <3>3. notice = NoDoc
      BY <1>1, <2>2 DEF ListSound
    <3>4. ListSound'
      BY <2>2, <3>1, <3>2, <3>3, MoveKeeps, Nothing DEF ListSound, R!WithdrawnIsGone
    <3> QED BY <2>1, <3>1, <3>2, <3>4, MoveKeeps DEF ReaderInv
  <2>3. CASE ~(at = "rooms" /\ standing = "reads")
    <3>1. UNCHANGED <<standing, published, at, notice, back, listing, listCall, meta, metaCall,
                      reread, tracker, page>>
      BY <1>3, <2>3 DEF R!Arrive, R!server, R!listings, R!metadata, R!reading
    <3> QED BY <2>1, <3>1 DEF ReaderInv, ReadingSound, MetadataSound, ListSound, RereadSound,
               R!Open, R!OpenVersion, R!WithdrawnIsGone
  <2> QED BY <2>2, <2>3
<1>4. CASE R!Withdrawn
  <2>1. CASE reread.docs = {}
    <3>1. R!RoomIsLost
      BY <1>4, <2>1 DEF R!Withdrawn
    <3>2. "rooms" \in Location
      BY DEF Location
    <3>3. R!Move("rooms") /\ notice' = NoDoc /\ listing' = listing
      BY <3>1 DEF R!RoomIsLost
    <3>4. ServerTyped'
      BY <1>1, <3>1 DEF R!RoomIsLost, R!server, ServerTyped
    <3>5. ListSound'
      BY <1>1, <3>2, <3>3, MoveKeeps DEF ListSound, R!WithdrawnIsGone
    <3> QED BY <3>2, <3>3, <3>4, <3>5, MoveKeeps DEF ReaderInv
  <2>2. CASE reread.docs # {}
    <3>1. /\ R!Move("room") /\ UNCHANGED <<arrived, lost, back, ended, standing, published>>
          /\ listing' = [kind |-> "ready", docs |-> reread.docs] /\ notice' = reread.doc
          /\ reread.step = "listed" /\ reread.found = "gone"
      BY <1>4, <2>2 DEF R!Withdrawn, R!server
    <3>2. "room" \in Location
      BY DEF Location
    <3>3. ServerTyped'
      BY <1>1, <3>1 DEF ServerTyped
    <3>4. listing' \in Listing /\ notice' \in Doc \cup {NoDoc} /\ listing'.kind = "ready"
      BY <1>1, <3>1 DEF Listing, RereadSound, Rereading
    <3>5. R!WithdrawnIsGone'
      BY <1>1, <3>1 DEF RereadSound, R!WithdrawnIsGone
    <3>6. ListSound'
      BY <3>1, <3>2, <3>4, <3>5, MoveKeeps DEF ListSound
    <3> QED BY <3>1, <3>2, <3>3, <3>6, MoveKeeps DEF ReaderInv
  <2> QED BY <2>1, <2>2
<1> QED BY <1>2, <1>3, <1>4

\* What the reader does at one place, unless it reads the metadata again.
LEMMA StaysKeeps ==
  ASSUME ReaderInv, UNCHANGED <<at, meta, metaCall>>,
         ServerTyped', ListSound', RereadSound',
         page' \in PageRead, tracker' \in Tracker,
         page'.step # "none" => page.step # "none" /\ page'.doc = at,
         page'.step = "shown" =>
           page'.image = R!Open,
         page'.step = "loading" /\ ~page'.opened => tracker'.opening,
         tracker'.known \/ tracker'.over \/ tracker'.opening => R!Open # "none"
  PROVE  ReaderInv'
<1>1. R!Open' = R!Open
  BY DEF R!Open, R!OpenVersion
<1>2. MetadataSound'
  BY DEF ReaderInv, MetadataSound
<1>3. ReadingSound'
  BY <1>1 DEF ReaderInv, ReadingSound
<1> QED BY <1>2, <1>3 DEF ReaderInv

\* A step that leaves the page and the tracker alone.
LEMMA AsideKeeps ==
  ASSUME ReaderInv, UNCHANGED <<at, meta, metaCall, tracker, page>>,
         ServerTyped', ListSound', RereadSound'
  PROVE  ReaderInv'
BY StaysKeeps DEF ReaderInv, ReadingSound

LEMMA ListKeeps ==
  ASSUME ReaderInv, R!ListServed \/ R!ListAnswered
  PROVE  ReaderInv'
<1>1. ListSound /\ RereadSound /\ ServerTyped
  BY DEF ReaderInv
<1>2. UNCHANGED <<standing, published, at, arrived, lost, notice, back, ended, meta, metaCall,
                  reread, tracker, page>>
  BY DEF R!ListServed, R!ListAnswered, R!server, R!place, R!metadata, R!reading
<1>3. ServerTyped' /\ RereadSound'
  BY <1>1, <1>2 DEF ServerTyped, RereadSound
<1>4. R!Structure \in SUBSET Doc
  BY DEF R!Structure
<1>5. ListSound'
  <2>1. CASE R!ListServed
    <3>1. listing' = listing
      BY <2>1 DEF R!ListServed
    <3>2. listCall' \in {[step |-> "failed", docs |-> {}], [step |-> "ready", docs |-> R!Structure]}
      BY <2>1 DEF R!ListServed
    <3>3. listCall' \in ListCall /\ listCall'.step \in {"failed", "ready"}
      BY <1>4, <3>2 DEF ListCall
    <3> QED BY <1>1, <1>2, <3>1, <3>3 DEF ListSound, R!WithdrawnIsGone
  <2>2. CASE R!ListAnswered
    <3>1. listCall' \in ListCall /\ listCall.step \in {"failed", "ready"} /\ listCall \in ListCall
      BY <1>1, <2>2 DEF R!ListAnswered, ListCall, ListSound
    <3>2. /\ listing' \in Listing /\ listing'.kind # "loading"
          /\ listing.kind # "loading" => listing' = listing
      BY <1>1, <2>2, <3>1 DEF R!ListAnswered, R!Settled, Listing, ListCall, ListSound
    <3> QED BY <1>1, <1>2, <3>1, <3>2 DEF ListSound, R!WithdrawnIsGone
  <2> QED BY <2>1, <2>2
<1> QED BY <1>2, <1>3, <1>5, AsideKeeps

\* What the server says of a document.
LEMMA Documents ==
  ASSUME ServerTyped, NEW d \in Doc
  PROVE  /\ R!Document(d) \in Version \cup {"gone", "expired"}
         /\ R!Document(d) = "gone" => standing # "reads" \/ published[d] = "gone"
BY ReaderAssumption DEF ServerTyped, R!Document

LEMMA MetadataKeeps ==
  ASSUME ReaderInv, R!MetadataAnswered \/ R!Reread
  PROVE  ReaderInv'
<1>1. ListSound /\ RereadSound /\ ServerTyped /\ MetadataSound /\ ReadingSound
  BY DEF ReaderInv
<1>2. CASE R!MetadataAnswered
  <2>1. /\ UNCHANGED <<standing, published, at, arrived, lost, notice, back, ended, listing,
                       listCall, reread>>
        /\ metaCall # NoDoc /\ metaCall' = NoDoc /\ R!Follow(at)
    BY <1>2 DEF R!MetadataAnswered, R!server, R!place, R!listings
  <2>2. metaCall = at /\ at \in Doc
    BY <1>1, <2>1 DEF MetadataSound
  <2>3. meta' \in Metadata /\ meta'.doc = at /\ meta'.load # "loading"
    <3>1. PICK answer \in {R!Document(metaCall), "failed"} :
            meta' = [doc |-> metaCall, load |-> IF answer = "expired" THEN "failed" ELSE answer]
      BY <1>2 DEF R!MetadataAnswered
    <3>2. answer \in Version \cup {"gone", "expired", "failed"}
      BY <1>1, <2>2, Documents
    <3> QED BY <2>2, <3>1, <3>2, ReaderAssumption DEF Metadata
  <2>4. MetadataSound'
    BY <1>1, <2>1, <2>2, <2>3 DEF MetadataSound
  <2>5. ReadingSound'
    BY <1>1, <2>1, <2>3, FollowKeeps DEF MetadataSound
  <2>6. ServerTyped' /\ ListSound' /\ RereadSound'
    BY <1>1, <2>1 DEF ServerTyped, ListSound, RereadSound, R!WithdrawnIsGone
  <2> QED BY <2>4, <2>5, <2>6 DEF ReaderInv
<1>3. CASE R!Reread
  <2>1. /\ UNCHANGED <<standing, published, at, arrived, lost, notice, back, ended, listing,
                       listCall, metaCall>>
        /\ reread.step = "found" /\ reread.found \in Version \cup {"gone"} /\ R!Follow(at)
        /\ meta' = [doc |-> reread.doc, load |-> reread.found]
    BY <1>3 DEF R!Reread, R!server, R!place, R!listings
  <2>2. meta' \in Metadata /\ meta'.doc = at /\ meta'.load # "loading" /\ at \in Doc
    BY <1>1, <2>1, ReaderAssumption DEF RereadSound, Metadata
  <2>3. MetadataSound'
    BY <1>1, <2>1, <2>2 DEF MetadataSound
  <2>4. ReadingSound'
    BY <1>1, <2>1, <2>2, FollowKeeps DEF MetadataSound
  <2>5. ServerTyped' /\ ListSound'
    BY <1>1, <2>1 DEF ServerTyped, ListSound, R!WithdrawnIsGone
  <2>6. RereadSound'
    <3>1. CASE reread.found = "gone"
      <4>1. reread' = [reread EXCEPT !.step = "room"] /\ reread \in Rereading
        BY <1>1, <1>3, <3>1 DEF R!Reread, RereadSound
      <4>2. /\ reread' \in Rereading /\ reread'.step = "room" /\ reread'.doc = reread.doc
            /\ reread'.found = "gone"
        BY <3>1, <4>1 DEF Rereading
      <4> QED BY <1>1, <2>1, <3>1, <4>2 DEF RereadSound
    <3>2. CASE reread.found # "gone"
      <4>1. reread' = R!NoReread
        BY <1>3, <3>2 DEF R!Reread
      <4> QED BY <4>1, Nothing DEF RereadSound
    <3> QED BY <3>1, <3>2
  <2> QED BY <2>3, <2>4, <2>5, <2>6 DEF ReaderInv
<1> QED BY <1>2, <1>3

\* A step that leaves the server, the lists and the place alone.
LEMMA ReadingKeeps ==
  ASSUME ReaderInv, UNCHANGED <<standing, published, at, arrived, lost, notice, back, listing,
                                listCall>>,
         ended' \in BOOLEAN
  PROVE  /\ ServerTyped' /\ ListSound'
         /\ reread' = reread => RereadSound'
BY DEF ReaderInv, ServerTyped, ListSound, RereadSound, R!WithdrawnIsGone

LEMMA EndKeeps == ASSUME ReaderInv, R!SessionEnds PROVE ReaderInv'
<1>1. /\ UNCHANGED <<standing, published, at, arrived, lost, notice, back, listing, listCall,
                     meta, metaCall, reread, tracker, page>>
      /\ ended' = TRUE
  BY DEF R!SessionEnds, R!server, R!place, R!listings, R!metadata, R!reading
<1> QED BY <1>1, ReadingKeeps, AsideKeeps

\* The begin of the activity is answered.
LEMMA OpenKeeps == ASSUME ReaderInv, R!OpenAnswered PROVE ReaderInv'
<1>1. /\ RereadSound /\ ReadingSound /\ meta \in Metadata /\ at \in Location
      /\ page \in PageRead /\ tracker \in Tracker /\ tracker.opening
  BY DEF ReaderInv, ReadingSound, MetadataSound, R!OpenAnswered
<1>2. R!Open # "none" /\ at \in Doc
  BY <1>1, OpenIsRead DEF ReadingSound
<1>3. ASSUME R!Granted, UNCHANGED <<R!server, R!place, ended, R!listings, R!metadata>>
      PROVE  ReaderInv'
  <2>1. UNCHANGED <<standing, published, at, arrived, lost, notice, back, listing, listCall,
                    meta, metaCall, reread, ended>>
    BY <1>3 DEF R!Granted, R!server, R!place, R!listings, R!metadata
  <2>2. ServerTyped' /\ ListSound' /\ RereadSound'
    BY <1>1, <2>1, ReadingKeeps DEF ReaderInv, ServerTyped
  <2>3. tracker' \in Tracker
    BY <1>3, Nothing DEF R!Granted, Tracker
  <2>4. /\ page' \in PageRead /\ page'.step = page.step /\ page'.doc = page.doc
        /\ page'.image = page.image /\ (page.step = "loading" => page'.opened)
    BY <1>1, <1>3 DEF R!Granted, PageRead
  <2> QED BY <1>1, <1>2, <2>1, <2>2, <2>3, <2>4, StaysKeeps DEF ReadingSound
<1>4. ASSUME NEW answer, R!NotGranted(answer),
             UNCHANGED <<R!server, R!place, ended, R!listings, R!metadata>>
      PROVE  ReaderInv'
  <2>1. UNCHANGED <<standing, published, at, arrived, lost, notice, back, listing, listCall,
                    meta, metaCall, ended>>
    BY <1>4 DEF R!server, R!place, R!listings, R!metadata
  <2>2. ServerTyped' /\ ListSound'
    BY <1>1, <2>1, ReadingKeeps DEF ReaderInv, ServerTyped
  <2>3. RereadSound'
    <3>1. CASE answer = "refused"
      <4>1. reread' = [R!NoReread EXCEPT !.step = "document", !.doc = at]
        BY <1>4, <3>1 DEF R!NotGranted
      <4>2. reread' \in Rereading /\ reread'.step = "document" /\ reread'.doc = at
        BY <1>2, <4>1, Nothing DEF Rereading
      <4> QED BY <1>2, <2>1, <4>2 DEF RereadSound
    <3>2. CASE answer # "refused"
      BY <1>1, <1>4, <2>1, <3>2 DEF R!NotGranted, RereadSound
    <3> QED BY <3>1, <3>2
  <2>4. tracker' \in Tracker
    BY <1>1, <1>4 DEF R!NotGranted, Tracker
  <2>5. CASE page.step = "loading"
    <3>1. page' = R!PageFails /\ page.doc = at
      BY <1>1, <1>4, <2>5 DEF R!NotGranted, ReadingSound
    <3>2. page' \in PageRead /\ page'.step = "failed" /\ page'.doc = page.doc
      BY <1>1, <3>1, Nothing DEF R!PageFails, PageRead
    <3> QED BY <1>1, <1>2, <2>1, <2>2, <2>3, <2>4, <2>5, <3>1, <3>2, StaysKeeps DEF ReadingSound
  <2>6. CASE page.step # "loading"
    <3>1. page' = page
      BY <1>4, <2>6 DEF R!NotGranted
    <3> QED BY <1>1, <1>2, <2>1, <2>2, <2>3, <2>4, <2>6, <3>1, StaysKeeps DEF ReadingSound
  <2> QED BY <2>5, <2>6
<1> QED BY <1>3, <1>4, EndKeeps DEF R!OpenAnswered

\* The tracker of the open version moves on.
LEMMA TrackerKeeps ==
  ASSUME ReaderInv, R!Interact \/ R!Beat \/ R!Finish \/ R!Retry
  PROVE  ReaderInv'
<1>1. /\ ReadingSound /\ page \in PageRead /\ tracker \in Tracker
      /\ meta \in Metadata /\ at \in Location
  BY DEF ReaderInv, ReadingSound, MetadataSound
<1>2. CASE R!Interact \/ R!Finish \/ R!Retry \/ (R!Beat /\ standing # "signed out")
  <2>1. UNCHANGED <<standing, published, at, arrived, lost, notice, back, listing, listCall,
                    meta, metaCall, reread, ended>>
    BY <1>2 DEF R!Interact, R!Finish, R!Retry, R!Beat, R!server, R!place, R!listings, R!metadata
  <2>2. ServerTyped' /\ ListSound' /\ RereadSound'
    BY <2>1, ReadingKeeps DEF ReaderInv, ServerTyped
  <2>3. R!Open # "none"
    BY <1>1, <1>2 DEF ReadingSound, R!Interact, R!Finish, R!Retry, R!Beat
  <2>4. tracker' \in Tracker /\ (tracker'.opening \/ tracker'.opening = tracker.opening)
    BY <1>1, <1>2 DEF R!Interact, R!Finish, R!Retry, R!Beat, R!Reopening, Tracker
  <2>5. CASE ~R!Retry
    <3>1. page' = page
      BY <1>2, <2>5 DEF R!Interact, R!Finish, R!Beat
    <3> QED BY <1>1, <2>1, <2>2, <2>3, <2>4, <3>1, StaysKeeps DEF ReadingSound
  <2>6. CASE R!Retry
    <3>1. at \in Doc
      BY <1>1, <2>3, OpenIsRead
    <3>2. /\ page' \in PageRead /\ page'.step = "loading" /\ page'.doc = at
          /\ page.step = "failed" /\ tracker'.opening
      BY <1>1, <2>6, <3>1, Nothing DEF R!Retry, PageRead, Tracker
    <3> QED BY <1>1, <2>1, <2>2, <2>3, <2>4, <3>2, StaysKeeps
  <2> QED BY <2>5, <2>6
<1>3. CASE R!Beat /\ standing = "signed out"
  BY <1>3, EndKeeps DEF R!Beat
<1> QED BY <1>2, <1>3

\* The page that is loading moves on.
LEMMA PageKeeps ==
  ASSUME ReaderInv, R!Composed \/ R!TextRead \/ R!Drawn
  PROVE  ReaderInv'
<1>1. /\ ReadingSound /\ page \in PageRead /\ tracker \in Tracker /\ page.step = "loading"
  BY DEF ReaderInv, ReadingSound, R!Composed, R!TextRead, R!Drawn
<1>2. R!PageFails \in PageRead /\ R!PageFails.step = "failed" /\ R!PageFails.doc = page.doc
  BY <1>1, Nothing DEF R!PageFails, PageRead
<1>3. ASSUME NEW next \in PageRead, page' = next, next.doc = page.doc,
             UNCHANGED <<R!server, R!place, ended, R!listings, R!metadata, reread, tracker>>,
             next.step = "loading" => next.opened = page.opened,
             next.step = "shown" => next.image = R!Open
      PROVE  ReaderInv'
  <2>1. UNCHANGED <<standing, published, at, arrived, lost, notice, back, listing, listCall,
                    meta, metaCall, reread, ended, tracker>>
    BY <1>3 DEF R!server, R!place, R!listings, R!metadata
  <2>2. ServerTyped' /\ ListSound' /\ RereadSound'
    BY <2>1, ReadingKeeps DEF ReaderInv, ServerTyped
  <2> QED BY <1>1, <1>3, <2>1, <2>2, StaysKeeps DEF ReadingSound
<1>4. CASE R!Composed
  <2>1. PICK answer \in {R!Document(page.doc), "failed"} :
          IF answer = "expired" THEN R!SessionEnds
          ELSE /\ page' = IF answer \in Version THEN [page EXCEPT !.image = answer] ELSE R!PageFails
               /\ UNCHANGED <<R!server, R!place, ended, R!listings, R!metadata, reread, tracker>>
    BY <1>4 DEF R!Composed
  <2>2. CASE answer \in Version /\ answer # "expired"
    <3>1. /\ [page EXCEPT !.image = answer] \in PageRead
          /\ [page EXCEPT !.image = answer].doc = page.doc
          /\ [page EXCEPT !.image = answer].step = "loading"
          /\ [page EXCEPT !.image = answer].opened = page.opened
      BY <1>1, <2>2 DEF PageRead
    <3> QED BY <1>3, <2>1, <2>2, <3>1
  <2>3. CASE answer \notin Version /\ answer # "expired"
    BY <1>2, <1>3, <2>1, <2>3
  <2> QED BY <2>1, <2>2, <2>3, EndKeeps
<1>5. CASE R!TextRead
  <2>1. PICK answer \in {R!Document(page.doc), "failed"} :
          IF answer = "expired" THEN R!SessionEnds
          ELSE /\ page' = IF answer \in Version THEN [page EXCEPT !.text = TRUE] ELSE R!PageFails
               /\ UNCHANGED <<R!server, R!place, ended, R!listings, R!metadata, reread, tracker>>
    BY <1>5 DEF R!TextRead
  <2>2. CASE answer \in Version /\ answer # "expired"
    <3>1. /\ [page EXCEPT !.text = TRUE] \in PageRead
          /\ [page EXCEPT !.text = TRUE].doc = page.doc
          /\ [page EXCEPT !.text = TRUE].step = "loading"
          /\ [page EXCEPT !.text = TRUE].opened = page.opened
      BY <1>1 DEF PageRead
    <3> QED BY <1>3, <2>1, <2>2, <3>1
  <2>3. CASE answer \notin Version /\ answer # "expired"
    BY <1>2, <1>3, <2>1, <2>3
  <2> QED BY <2>1, <2>2, <2>3, EndKeeps
<1>6. CASE R!Drawn
  <2>1. UNCHANGED <<R!server, R!place, ended, R!listings, R!metadata, reread, tracker>>
    BY <1>6 DEF R!Drawn
  <2>2. CASE R!Deliverable(page.doc, page.image, R!Open) /\ page' = [page EXCEPT !.step = "shown"]
    <3>1. /\ [page EXCEPT !.step = "shown"] \in PageRead
          /\ [page EXCEPT !.step = "shown"].doc = page.doc
          /\ [page EXCEPT !.step = "shown"].step = "shown"
          /\ [page EXCEPT !.step = "shown"].image = page.image
      BY <1>1 DEF PageRead
    <3> QED BY <1>3, <2>1, <2>2, <3>1 DEF R!Deliverable
  <2>3. CASE page' = R!PageFails
    BY <1>2, <1>3, <2>1, <2>3
  <2> QED BY <1>6, <2>2, <2>3 DEF R!Drawn
<1> QED BY <1>4, <1>5, <1>6

\* The re-read after a refusal.
LEMMA RereadKeeps ==
  ASSUME ReaderInv, R!RereadServed \/ R!RoomReread \/ R!RereadFails
  PROVE  ReaderInv'
<1>1. ListSound /\ RereadSound /\ ServerTyped /\ reread \in Rereading
  BY DEF ReaderInv, RereadSound
<1>2. CASE R!RereadServed
  <2>1. /\ UNCHANGED <<standing, published, at, arrived, lost, notice, ended, listing, listCall,
                       meta, metaCall, tracker, page>>
        /\ back' = FALSE /\ reread.step = "document"
    BY <1>2 DEF R!RereadServed, R!server, R!listings, R!metadata, R!reading
  <2>2. reread.doc = at /\ at \in Doc /\ notice = NoDoc
    BY <1>1, <2>1, ReaderAssumption DEF RereadSound, ListSound
  <2>3. PICK answer \in {R!Document(reread.doc), "failed"} :
          reread' = [reread EXCEPT !.step = "found", !.found = answer]
    BY <1>2 DEF R!RereadServed
  <2>4. /\ answer \in Version \cup {"gone", "expired", "failed"}
        /\ answer = "gone" => standing # "reads" \/ published[reread.doc] = "gone"
    BY <1>1, <2>2, Documents
  <2>5. /\ reread' \in Rereading /\ reread'.step = "found" /\ reread'.found = answer
        /\ reread'.doc = reread.doc
    BY <1>1, <2>3, <2>4 DEF Rereading, R!Answer
  <2>6. RereadSound'
    BY <2>1, <2>2, <2>4, <2>5 DEF RereadSound
  <2>7. ServerTyped' /\ ListSound'
    BY <1>1, <2>1, <2>2 DEF ServerTyped, ListSound, R!WithdrawnIsGone
  <2> QED BY <2>1, <2>6, <2>7, AsideKeeps
<1>3. CASE R!RoomReread
  <2>1. /\ UNCHANGED <<standing, published, at, arrived, lost, notice, back, ended, listing,
                       listCall, meta, metaCall, tracker, page>>
        /\ reread.step = "room"
    BY <1>3 DEF R!RoomReread, R!server, R!place, R!listings, R!metadata, R!reading
  <2>2. PICK answer \in {"expired", "gone", "failed"} :
          reread' = [reread EXCEPT !.step = "listed", !.found = answer, !.docs = R!Structure]
    BY <1>3 DEF R!RoomReread
  <2>3. R!Structure \in SUBSET Doc
    BY DEF R!Structure
  <2>4. /\ reread' \in Rereading /\ reread'.step = "listed" /\ reread'.found = answer
        /\ reread'.doc = reread.doc /\ reread'.docs = R!Structure
    BY <1>1, <2>2, <2>3 DEF Rereading, R!Answer
  <2>5. answer = "gone" /\ ~back => reread.doc \notin R!Structure
    BY <1>1, <2>1 DEF RereadSound, R!Structure
  <2>6. RereadSound'
    BY <1>1, <2>1, <2>4, <2>5 DEF RereadSound
  <2> QED BY <2>1, <2>6, ReadingKeeps, AsideKeeps DEF ReaderInv, ServerTyped
<1>4. CASE R!RereadFails
  <2>1. CASE reread' = R!NoReread
             /\ UNCHANGED <<R!server, R!place, ended, R!listings, R!metadata, R!reading>>
    <3>1. UNCHANGED <<standing, published, at, arrived, lost, notice, back, ended, listing,
                       listCall, meta, metaCall, tracker, page>>
      BY <2>1 DEF R!server, R!place, R!listings, R!metadata, R!reading
    <3>2. RereadSound'
      BY <2>1, Nothing DEF RereadSound
    <3> QED BY <3>1, <3>2, ReadingKeeps, AsideKeeps DEF ReaderInv, ServerTyped
  <2> QED BY <1>4, <2>1, EndKeeps DEF R!RereadFails
<1> QED BY <1>2, <1>3, <1>4

\* The server.
LEMMA ServerKeeps ==
  ASSUME ReaderInv, R!Revoke \/ \E d \in Doc : R!Publish(d)
  PROVE  ReaderInv'
<1>1. ListSound /\ RereadSound /\ ServerTyped /\ reread \in Rereading
  BY DEF ReaderInv, RereadSound
<1>2. CASE R!Revoke
  <2>1. /\ UNCHANGED <<published, at, arrived, lost, notice, back, ended, listing,
                       listCall, meta, metaCall, reread, tracker, page>>
        /\ standing' \in {"revoked", "signed out"}
    BY <1>2 DEF R!Revoke, R!place, R!listings, R!metadata, R!reading
  <2> QED BY <1>1, <2>1, AsideKeeps DEF ServerTyped, ListSound, RereadSound, R!WithdrawnIsGone
<1>3. ASSUME NEW d \in Doc, R!Publish(d)
      PROVE  ReaderInv'
  <2>1. UNCHANGED <<standing, at, arrived, lost, notice, ended, listing, listCall, meta, metaCall,
                    reread, tracker, page>>
    BY <1>3 DEF R!Publish, R!listings, R!metadata, R!reading
  <2>2. PICK v \in Version \cup {"gone"} :
          /\ published' = [published EXCEPT ![d] = v]
          /\ back' = (back \/ (v # "gone" /\ d \in {notice, reread.doc}))
    BY <1>3 DEF R!Publish
  <2>3. ServerTyped'
    BY <1>1, <2>1, <2>2 DEF ServerTyped
  <2>4. ListSound'
    BY <1>1, <2>1, <2>2 DEF ListSound, R!WithdrawnIsGone
  <2>5. \A c \in Doc : published'[c] = published[c] \/ (c = d /\ published'[c] = v)
    BY <1>1, <2>2 DEF ServerTyped
  <2>6. RereadSound'
    BY <1>1, <2>1, <2>2, <2>5 DEF RereadSound
  <2> QED BY <2>1, <2>3, <2>4, <2>6, AsideKeeps
<1> QED BY <1>2, <1>3

LEMMA ReaderStepKeeps ==
  ASSUME ReaderInv, [R!Next]_(R!vars)
  PROVE  ReaderInv'
<1>1. CASE UNCHANGED R!vars
  <2>1. UNCHANGED <<standing, published, at, arrived, lost, notice, back, ended, listing, listCall,
                    meta, metaCall, reread, tracker, page>>
    BY <1>1 DEF R!vars, R!server, R!place, R!listings, R!metadata, R!reading
  <2> QED BY <2>1, ReadingKeeps, AsideKeeps DEF ReaderInv, ServerTyped
<1>2. CASE R!Surface
  BY <1>2, NavigateKeeps, ListKeeps, MetadataKeeps, OpenKeeps, TrackerKeeps, PageKeeps,
     RereadKeeps DEF R!Surface, Location
<1>3. CASE R!Revoke \/ \E d \in Revised : R!Publish(d)
  BY <1>3, ServerKeeps, ReaderAssumption
<1> QED BY <1>1, <1>2, <1>3 DEF R!Next

\* What the reading room shows is of the document at its address and of the version that is
\* open, and a notice of withdrawal names a document that is gone or has come back since,
\* however navigation, late answers and revocation overlap (ViewerReadingRoom.tsx).
THEOREM ReaderStaysSound == R!Spec => []ReaderSound
<1>1. ReaderInv /\ [R!Next]_(R!vars) => ReaderInv'
  BY ReaderStepKeeps
<1>2. ReaderInv => ReaderSound
  BY ReaderPromise
<1> QED BY <1>1, <1>2, ReaderInitially, PTL DEF R!Spec

-----------------------------------------------------------------------------
(* The four beside each other.                                              *)

DeliveryInv == PreviewInv /\ DownloadInv /\ SandboxInv /\ ReaderInv

\* Where one moves, the others stay as they were.
LEMMA DeliveryStepKeeps ==
  ASSUME DeliveryInv, [DeliveryNext]_<<vars, downloadVars, sandboxVars, readerVars>>
  PROVE  DeliveryInv'
<1>1. UNCHANGED downloadVars => UNCHANGED D!vars
  BY DEF downloadVars, D!vars, D!accessVars, D!rowVars, D!jobVars
<1>2. UNCHANGED sandboxVars => UNCHANGED S!vars
  BY DEF sandboxVars, S!vars, S!poolVars, S!childVars, S!cleanVars
<1>3. UNCHANGED readerVars => UNCHANGED R!vars
  BY DEF readerVars, R!vars, R!server, R!place, R!listings, R!metadata, R!reading
<1>4. Next \/ UNCHANGED vars
  BY DEF DeliveryNext
<1>5. D!Next \/ UNCHANGED D!vars
  BY <1>1 DEF DeliveryNext
<1>6. S!Next \/ UNCHANGED S!vars
  BY <1>2 DEF DeliveryNext
<1>7. R!Next \/ UNCHANGED R!vars
  BY <1>3 DEF DeliveryNext
<1>8. PreviewInv'
  BY <1>4, PreviewStepKeeps DEF DeliveryInv
<1>9. DownloadInv'
  BY <1>5, DownloadStepKeeps DEF DeliveryInv
<1>10. SandboxInv'
  BY <1>6, SandboxStepKeeps DEF DeliveryInv
<1>11. ReaderInv'
  BY <1>7, ReaderStepKeeps DEF DeliveryInv
<1> QED BY <1>8, <1>9, <1>10, <1>11 DEF DeliveryInv

\* The variables of the four have their types in every behaviour of the composition.
THEOREM DeliveryTypeCorrect == DeliverySpec => []TypesOK
<1>1. DeliveryInit => DeliveryInv
  BY PreviewInitially, DownloadInitially, SandboxInitially, ReaderInitially
     DEF DeliveryInit, ReaderInit, DeliveryInv
<1>2. DeliveryInv /\ [DeliveryNext]_<<vars, downloadVars, sandboxVars, readerVars>>
        => DeliveryInv'
  BY DeliveryStepKeeps
<1>3. DeliveryInv => TypesOK
  BY DownloadPromise, SandboxPromise, ReaderPromise DEF DeliveryInv, PreviewInv, TypesOK
<1> QED BY <1>1, <1>2, <1>3, PTL DEF DeliverySpec
=============================================================================
