------------------------------ MODULE Previews ------------------------------
(***************************************************************************)
(* The evidence of one viewer session reading one version: the             *)
(* preview_activity row its tabs share, the pages delivered under it, and  *)
(* the chain of preview.inactivity.finalize jobs that ends it when the     *)
(* tabs do not (008_protected_delivery.sql, 035_lifecycle_corrections.sql, *)
(* 043_preview_activity_resume.sql, jobs/preview-inactivity.ts).  A tab    *)
(* whose access ended is refused without effect, so what it may still read *)
(* is no variable: any of its requests may simply not happen.              *)
(***************************************************************************)
EXTENDS Integers, WorkRows

CONSTANTS
  Tab, Page,
  Timeout,           \* the two minutes without a heartbeat, in ticks of the clock
  Gap,               \* the fifty seconds in which a second beat is not recorded
  LastRequest,       \* bound: the tabs are gone after this instant
  FinalizeAttempts   \* max_attempts of preview.inactivity.finalize

\* A preview is over some time after its last heartbeat, and job_queue's CHECK asks for an
\* attempt at least.
ASSUME PreviewAssumption ==
  /\ Timeout \in Nat \ {0} /\ Gap \in Nat /\ LastRequest \in Nat
  /\ FinalizeAttempts \in Nat \ {0}

VARIABLES
  clock,
  activity,    \* preview_activity.state, "none" before the row, "purged" after it
  started, heartbeat,
  pages,       \* page_ranges
  starts,      \* preview.start events
  owed,        \* times the row became active, less its preview.summary events
  reported,    \* pages of the last preview.summary
  tab,         \* per tab, its call of begin_preview_activity, or what came of it
  job,         \* per idempotency key, the finalizer's row
  run          \* per key, the attempt that holds the lease; one that lost it has no effect

Horizon == LastRequest + Timeout
Initial == -1
Key == {Initial} \cup 0..LastRequest    \* ':initial' or the heartbeat it was queued for

rowVars == <<activity, started, heartbeat, pages>>
eventVars == <<starts, owed, reported>>
jobVars == <<job, run>>
vars == <<clock, rowVars, eventVars, tab, jobVars>>

TypeOK ==
  /\ clock \in 0..Horizon
  /\ activity \in {"none", "active", "closed", "inactive", "purged"}
  /\ started \in 0..LastRequest /\ heartbeat \in 0..LastRequest
  /\ pages \in SUBSET Page /\ reported \in SUBSET Page
  /\ starts \in Nat /\ owed \in Int
  /\ tab \in [Tab -> {"idle", "reactivate", "select", "open"}]
  /\ job \in [Key -> Rows(FinalizeAttempts)]
  /\ run \in [Key -> {"gone", "claimed", "return", "throw"}]

Init ==
  /\ clock = 0 /\ activity = "none" /\ started = 0 /\ heartbeat = 0 /\ pages = {}
  /\ starts = 0 /\ owed = 0 /\ reported = {}
  /\ tab = [t \in Tab |-> "idle"]
  /\ job = [k \in Key |-> Absent]
  /\ run = [k \in Key |-> "gone"]

Tick ==
  /\ clock < Horizon
  /\ \A t \in Tab : tab[t] \in {"idle", "open"}    \* a call takes no time on this clock
  /\ clock' = clock + 1
  /\ UNCHANGED <<rowVars, eventVars, tab, jobVars>>

-----------------------------------------------------------------------------
(* begin_preview_activity: three statements, each with a snapshot of its own. *)

TabGoto(t, pc) == tab' = [tab EXCEPT ![t] = pc]
Asking == clock <= LastRequest /\ activity # "purged"

\* ON CONFLICT DO NOTHING: a key that has a row, whatever became of it, keeps it.
QueuedFor(k) == [job EXCEPT ![k] = IF @.stage = "absent" THEN Queued ELSE @]

\* The insert creates the row, its start event and its first finalizer, or it meets a row.
InsertActivity(t) ==
  /\ Asking /\ tab[t] \in {"idle", "open"}
  /\ \/ /\ activity = "none"
        /\ activity' = "active" /\ started' = clock /\ heartbeat' = clock
        /\ starts' = starts + 1 /\ owed' = owed + 1
        /\ job' = QueuedFor(Initial)
        /\ TabGoto(t, "open")
     \/ /\ activity # "none"
        /\ TabGoto(t, "reactivate")
        /\ UNCHANGED <<activity, started, heartbeat, starts, owed, job>>
  /\ UNCHANGED <<clock, pages, reported, run>>

ReopenedJobs == QueuedFor(clock)

Ended == activity \in {"closed", "inactive"}

Reactivate(t) ==
  /\ tab[t] = "reactivate"
  /\ \/ /\ Ended
        /\ activity' = "active" /\ heartbeat' = clock /\ owed' = owed + 1
        /\ job' = ReopenedJobs
        /\ TabGoto(t, "open")
     \/ /\ ~Ended
        /\ TabGoto(t, "select")
        /\ UNCHANGED <<activity, heartbeat, owed, job>>
  /\ UNCHANGED <<clock, started, pages, starts, reported, run>>

HandBack(t) ==
  /\ tab[t] = "select"
  /\ TabGoto(t, "open")
  /\ UNCHANGED <<clock, rowVars, eventVars, jobVars>>

-----------------------------------------------------------------------------
(* The requests of an open tab, which may stop making any.                  *)

Recordable == activity = "active"

\* authorize_watermark_delivery records the page before its bytes are read.
DeliverPage(t, p) ==
  /\ Asking /\ tab[t] = "open" /\ Recordable
  /\ pages' = pages \cup {p}
  /\ UNCHANGED <<clock, activity, started, heartbeat, eventVars, tab, jobVars>>

Heartbeat(t) ==
  /\ Asking /\ tab[t] = "open" /\ activity = "active"
  /\ heartbeat + Gap <= clock
  /\ heartbeat' = clock
  /\ UNCHANGED <<clock, activity, started, pages, eventVars, tab, jobVars>>

Silent == heartbeat + Timeout <= clock

\* The row leaves 'active' with its summary.
Summarized(state) ==
  /\ activity' = state
  /\ owed' = owed - 1 /\ reported' = pages
  /\ UNCHANGED <<started, heartbeat, pages, starts>>

\* summarize_preview, for any tab that holds the activity's id.
Summarize(t, state) ==
  /\ Asking /\ tab[t] = "open" /\ activity = "active"
  /\ state = "inactive" => Silent
  /\ Summarized(state)
  /\ TabGoto(t, "idle")
  /\ UNCHANGED <<clock, jobVars>>

\* purge_ended_sign_in, long after the session's last request.
PurgeSession ==
  /\ clock > LastRequest /\ activity \notin {"none", "active", "purged"}
  /\ \A t \in Tab : tab[t] \in {"idle", "open"}
  /\ activity' = "purged"
  /\ UNCHANGED <<clock, started, heartbeat, pages, eventVars, tab, jobVars>>

TabStep(t) ==
  \/ InsertActivity(t) \/ Reactivate(t) \/ HandBack(t) \/ Heartbeat(t)
  \/ \E p \in Page : DeliverPage(t, p)
  \/ \E state \in {"closed", "inactive"} : Summarize(t, state)

-----------------------------------------------------------------------------
(* jobs/preview-inactivity.ts: one call of finalize_or_reschedule_preview,   *)
(* which asks for the lease, as the settlement of the row does.             *)

RunGoto(k, pc) == run' = [run EXCEPT ![k] = pc]
DueAt(k) == Timeout + (IF k = Initial THEN started ELSE k)

ClaimFinalizer(k) ==
  /\ job[k].stage = "queued" => DueAt(k) <= clock
  /\ CanClaim(job[k], FinalizeAttempts)
  /\ job' = [job EXCEPT ![k] = Claimed(@)]
  /\ RunGoto(k, "claimed")
  /\ UNCHANGED <<clock, rowVars, eventVars, tab>>

\* Slip: the state of the row is not asked before it is summarized.
SlipAnyState == Silent /\ activity # "none"

Abandoned == activity = "active" /\ Silent

SuccessorKey == heartbeat

FinalizeOrReschedule(k) ==
  /\ run[k] = "claimed"
  /\ \/ /\ IF Abandoned THEN Summarized("inactive") ELSE UNCHANGED <<rowVars, eventVars>>
        /\ job' = IF activity = "active" /\ ~Silent THEN QueuedFor(SuccessorKey) ELSE job
        /\ \E pc \in {"return", "throw"} : RunGoto(k, pc)
     \/ RunGoto(k, "throw") /\ UNCHANGED <<rowVars, eventVars, job>>
  /\ UNCHANGED <<clock, tab>>

SettleFinalizer(k) ==
  /\ run[k] \in {"return", "throw"}
  /\ job' = [job EXCEPT ![k] = IF run[k] = "return" THEN Completed(@)
                               ELSE GivenBack(@, FinalizeAttempts)]
  /\ RunGoto(k, "gone")
  /\ UNCHANGED <<clock, rowVars, eventVars, tab>>

WorkerDies(k) ==
  /\ run[k] # "gone"
  /\ RunGoto(k, "gone")
  /\ UNCHANGED <<clock, rowVars, eventVars, tab, job>>

LoseLease(k) ==
  /\ job[k].live # 0
  /\ job' = [job EXCEPT ![k] = Lapsed(@)]
  /\ RunGoto(k, "gone")
  /\ UNCHANGED <<clock, rowVars, eventVars, tab>>

ExhaustFinalizer(k) ==
  /\ Spent(job[k], FinalizeAttempts)
  /\ job' = [job EXCEPT ![k] = Buried(@)]
  /\ UNCHANGED <<clock, rowVars, eventVars, tab, run>>

FinalizeStep(k) == FinalizeOrReschedule(k) \/ SettleFinalizer(k)

\* What the workers and the database do about k without a mishap.
WorkerStep(k) ==
  \/ ClaimFinalizer(k) \/ ExhaustFinalizer(k) \/ FinalizeStep(k)
  \/ run[k] = "gone" /\ LoseLease(k)

-----------------------------------------------------------------------------
Next ==
  \/ Tick \/ PurgeSession
  \/ \E t \in Tab : TabStep(t)
  \/ \E k \in Key :
       \/ ClaimFinalizer(k) \/ FinalizeStep(k) \/ WorkerDies(k) \/ LoseLease(k)
       \/ ExhaustFinalizer(k)

Spec == Init /\ [][Next]_vars

(* Time passes, however often the tabs call; workers keep claiming, a handler *)
(* that runs makes progress, the lease of a dead one runs out.  The tabs owe  *)
(* nothing.                                                                  *)
Fairness ==
  /\ []<>(activity = "none" \/ clock = Horizon)
  /\ \A k \in Key : WF_vars(WorkerStep(k))

FairSpec == Spec /\ Fairness

-----------------------------------------------------------------------------
(* Properties.                                                              *)

\* One preview.start per viewer, session and version, and one preview.summary for each
\* time the activity was open: tabs that open, reopen and close at once, finalizers that
\* overlap or are repeated, neither lose an event nor write it twice.
EvidenceExact ==
  /\ starts = IF activity = "none" THEN 0 ELSE 1
  /\ owed = IF activity = "active" THEN 1 ELSE 0

\* Every page that was delivered is in the summary of the activity it was delivered
\* under, also when another tab or a finalizer wrote that summary.
DeliveredIsReported == activity # "active" => reported = pages

\* The finalizer k will still look at the row.
Coming(k) ==
  \/ job[k].stage = "queued"
  \/ job[k].stage = "running" /\ run[k] # "return"

\* A finalizer without a next attempt.
OnLastAttempt(k) ==
  job[k].stage \in {"running", "failed"} /\ job[k].attempts = FinalizeAttempts

\* An active activity always has a finalizer coming within two minutes of its last
\* heartbeat: however heartbeats, reopenings and retried runs share keys, the chain of
\* jobs does not end early.
ActiveHasFinalizer ==
  activity = "active" =>
    \/ \E k \in Key : Coming(k) /\ DueAt(k) <= heartbeat + Timeout
    \/ \E k \in Key : OnLastAttempt(k)

\* Tabs and finalizers in any order leave exact evidence: one start, one summary, every
\* delivered page in it, and an open activity that someone will end.
EvidenceSound == EvidenceExact /\ DeliveredIsReported /\ ActiveHasFinalizer

\* An abandoned activity is summarized, unless a finalizer has used up its attempts.
Unsettled == activity = "active" /\ \A k \in Key : job[k].stage # "failed"
AbandonedEnds == Unsettled ~> ~Unsettled
=============================================================================
