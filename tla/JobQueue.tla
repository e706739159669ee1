------------------------------ MODULE JobQueue ------------------------------
(***************************************************************************)
(* The worker's job queue: table job_queue and the JobRunner of            *)
(* apps/worker/src/runner.ts.  Runners claim rows under a lease, renew it  *)
(* with heartbeats, and settle a row only while they still hold it.  A     *)
(* runner may crash, stall past its lease, or lose its database            *)
(* connection at any point; its row is then claimed again until its        *)
(* attempts are spent, when the exhaustion sweep fails it and runs the     *)
(* hook its type declares.                                                 *)
(*                                                                         *)
(* Time is kept as countdowns: due (available_at), lease                   *)
(* (lease_expires_at), both relative to now, moved by Tick.  A lease token *)
(* (createOpaqueId) is the number of the claim that issued it, which is    *)
(* unique per row as the random id is.                                     *)
(***************************************************************************)
EXTENDS Integers, FiniteSets

CONSTANTS
  Job,          \* the rows that may ever exist
  NoJob,        \* not a row
  Worker,       \* runner processes
  Validation,   \* rows of job_type 'document.source.validate'
  Unknown,      \* rows whose job_type has no handler
  Hooked,       \* rows whose job_type declares an exhaustion hook
  Cancellable,  \* rows another component deletes while they are pending
  Requeueable,  \* rows another component resets ('retention:' upsert)
  Scheduled,    \* rows queued by the migrations: heads of recurring schedules
  Histories,    \* sets of rows, one of which was settled before the behaviour begins
  Successor,    \* recurring row -> the row its claim queues
  MaxAttempts,  \* max_attempts
  LeaseTicks,   \* JOB_LEASE_SECONDS
  RetryTicks,   \* the longest back-off of fail()
  HookTicks,    \* EXHAUSTION_HOOK_RETRY_SECONDS
  RecurTicks,   \* everySeconds
  LateTicks,    \* how far past due the order of two rows is still told apart
  MaxRequeues   \* bound on the resets of one row

ASSUME QueueAssumption ==
  /\ NoJob \notin Job \cup Worker
  /\ Validation \subseteq Job /\ Unknown \subseteq Job /\ Hooked \subseteq Job
  /\ Cancellable \subseteq Job /\ Requeueable \subseteq Job /\ Scheduled \subseteq Job
  /\ DOMAIN Successor \subseteq Job /\ Histories \subseteq SUBSET Job
  /\ \A j \in DOMAIN Successor : Successor[j] \in Job \ {j}
  /\ MaxAttempts \in Nat \ {0} /\ LeaseTicks \in Nat \ {0} /\ RetryTicks \in Nat \ {0}
  /\ HookTicks \in Nat \ {0} /\ RecurTicks \in Nat \ {0}
  /\ LateTicks \in Nat /\ MaxRequeues \in Nat

(* The rows of recurring schedules belong to the runner alone: each is      *)
(* queued by one predecessor's claim and nothing else touches it, so a      *)
(* history holds a run of a schedule together with the next.  The only type *)
(* that is ever reset, document.retention.sweep, declares no hook.          *)
ASSUME ScheduleAssumption ==
  /\ Requeueable \cap Hooked = {}
  /\ \A j, k \in DOMAIN Successor : Successor[j] = Successor[k] => j = k
  /\ \A j \in DOMAIN Successor : Successor[j] \notin Scheduled
  /\ (DOMAIN Successor) \cap (Cancellable \cup Requeueable) = {}
  /\ {Successor[j] : j \in DOMAIN Successor} \cap (Cancellable \cup Requeueable) = {}
  /\ \A history \in Histories, j \in DOMAIN Successor :
       j \in history <=> Successor[j] \in history

VARIABLES
  row,      \* job_queue
  claims,   \* per row, how many leases were ever issued (the token source)
  run,      \* per runner, the local state of runOne()
  hookRuns, \* per row, how often its exhaustion hook committed
  requeues  \* per row, how often another component reset it

vars == <<row, claims, run, hookRuns, requeues>>

NoToken == 0
RowState == {"absent", "pending", "running", "succeeded", "failed", "deleted"}
Terminal == {"succeeded", "failed", "deleted"}
Row == [state : RowState, attempts : 0..MaxAttempts, due : Int,
        token : Nat, lease : 0..LeaseTicks]

(* JobRunner.runOne's locals after its claim commits.  phase says which     *)
(* await the runner is in; beat is heartbeatError.                          *)
Phase == {"idle", "handling", "returned", "asserted", "failing"}
Run == [phase : Phase, job : Job \cup {NoJob}, token : Nat,
        attempts : 0..MaxAttempts, beat : {"ok", "lost"}]
Idle == [phase |-> "idle", job |-> NoJob, token |-> NoToken, attempts |-> 0, beat |-> "ok"]

TypeOK ==
  /\ row \in [Job -> Row]
  /\ claims \in [Job -> Nat]
  /\ run \in [Worker -> Run]
  /\ hookRuns \in [Job -> Nat]
  /\ requeues \in [Job -> 0..MaxRequeues]

-----------------------------------------------------------------------------
Cols(s, a, d, t, l) == [state |-> s, attempts |-> a, due |-> d, token |-> t, lease |-> l]

Absent == Cols("absent", 0, 0, NoToken, 0)
Queued(d) == Cols("pending", 0, d, NoToken, 0)
Deleted == Cols("deleted", 0, 0, NoToken, 0)

\* A row that succeeded at its first claim.
Settled == Cols("succeeded", 1, 0, NoToken, 0)

Init ==
  \E history \in Histories :
    /\ row = [j \in Job |-> IF j \in history THEN Settled
                           ELSE IF j \in Scheduled THEN Queued(0) ELSE Absent]
    /\ claims = [j \in Job |-> IF j \in history THEN 1 ELSE 0]
    /\ run = [w \in Worker |-> Idle]
    /\ hookRuns = [j \in Job |-> 0]
    /\ requeues = [j \in Job |-> IF j \in history THEN MaxRequeues ELSE 0]

-----------------------------------------------------------------------------
(* Other components' writes to the queue.                                   *)

\* A request path or another job inserts a row.
Enqueue(j, d) ==
  /\ j \notin {Successor[k] : k \in DOMAIN Successor}
  /\ row[j].state = "absent"
  /\ row' = [row EXCEPT ![j] = Queued(d)]
  /\ UNCHANGED <<claims, run, hookRuns, requeues>>

\* Slip: the row is deleted whoever runs it.
CancelRunning(j) ==
  /\ j \in Cancellable
  /\ row[j].state \in {"pending", "running"}
  /\ row' = [row EXCEPT ![j] = Deleted]
  /\ UNCHANGED <<claims, run, hookRuns, requeues>>

\* Work that is no longer wanted is deleted, but only while nobody runs it.
CancelPending(j) ==
  /\ j \in Cancellable
  /\ row[j].state = "pending"
  /\ row' = [row EXCEPT ![j] = Deleted]
  /\ UNCHANGED <<claims, run, hookRuns, requeues>>

\* record_document_processing_failure: a terminal row is replaced, a live one is
\* set back to pending with its lease cleared, which fences any run holding it.
Requeue(j, d) ==
  /\ j \in Requeueable
  /\ requeues[j] < MaxRequeues
  /\ row[j].state # "absent"
  /\ row' = [row EXCEPT ![j] = Queued(d)]
  /\ requeues' = [requeues EXCEPT ![j] = @ + 1]
  /\ UNCHANGED <<claims, run, hookRuns>>

-----------------------------------------------------------------------------
(* JobRunner.runOne up to the COMMIT of its claim.                          *)

Exhausted(j) ==
  /\ row[j].state = "running" /\ row[j].lease = 0
  /\ row[j].attempts >= MaxAttempts /\ row[j].due <= 0

\* Slip: attempts < max_attempts is missing.
ClaimableSpent(j) ==
  \/ row[j].state = "pending" /\ row[j].due <= 0
  \/ row[j].state = "running" /\ row[j].lease = 0
Claimable(j) ==
  /\ row[j].attempts < MaxAttempts
  /\ \/ row[j].state = "pending" /\ row[j].due <= 0
     \/ row[j].state = "running" /\ row[j].lease = 0

\* ORDER BY available_at; created_at among equals is left open.
Earliest(S) == {j \in S : \A k \in S : row[j].due <= row[k].due}

\* ORDER BY job_type = 'document.source.validate', available_at.
FirstClaim(S) == Earliest(IF S \subseteq Validation THEN S ELSE S \ Validation)

\* What LIMIT 1 returns: one of the candidates, or no row.
Selected(S) == IF S = {} THEN {NoJob} ELSE S

\* finishExhaustion: the row fails together with its hook, or, when the hook raises,
\* the savepoint undoes both and the row waits for another sweep.
Buried(r) == Cols("failed", r.attempts, r.due, NoToken, 0)
HookRaised(r) == Cols("running", r.attempts, HookTicks, r.token, 0)
\* Slip: no savepoint around the hook.
SweptRegardless(r, hookOk) == Buried(r)
Swept(r, hookOk) == IF hookOk THEN Buried(r) ELSE HookRaised(r)

Claimed(r, t) == Cols("running", r.attempts + 1, r.due, t, LeaseTicks)

\* The claim of a recurring row queues its successor, unless a retry already did.
QueuesSuccessor(c, j) ==
  /\ c \in DOMAIN Successor
  /\ j = Successor[c]
  /\ row[j].state = "absent"

\* Slip: a transaction that swept a row does not queue the successor.
SweptOrClaimed(s, c, hookOk) ==
  [j \in Job |->
     IF j = s THEN Swept(row[j], hookOk)
     ELSE IF j = c THEN Claimed(row[j], claims[j] + 1)
     ELSE IF s = NoJob /\ QueuesSuccessor(c, j) THEN Queued(RecurTicks)
     ELSE row[j]]

\* What the transaction of runOne() leaves when it swept s and claimed c.
SweptAndClaimed(s, c, hookOk) ==
  [j \in Job |->
     IF j = s THEN Swept(row[j], hookOk)
     ELSE IF j = c THEN Claimed(row[j], claims[j] + 1)
     ELSE IF QueuesSuccessor(c, j) THEN Queued(RecurTicks)
     ELSE row[j]]

\* Slip: a reclaimed row keeps its old token.
StartedStale(c) ==
  [phase |-> IF c \in Unknown THEN "failing" ELSE "handling", job |-> c,
   token |-> IF claims[c] = 0 THEN 1 ELSE claims[c], attempts |-> row[c].attempts + 1,
   beat |-> "ok"]

Started(c) ==
  [phase |-> IF c \in Unknown THEN "failing" ELSE "handling", job |-> c,
   token |-> claims[c] + 1, attempts |-> row[c].attempts + 1, beat |-> "ok"]

SweepAndClaim(w, s, c, hookOk) ==
  /\ s # NoJob \/ c # NoJob
  /\ hookOk \/ s \in Hooked
  /\ row' = SweptAndClaimed(s, c, hookOk)
  /\ hookRuns' = [j \in Job |->
                    IF j = s /\ j \in Hooked /\ hookOk THEN hookRuns[j] + 1 ELSE hookRuns[j]]
  /\ claims' = [j \in Job |-> IF j = c THEN claims[j] + 1 ELSE claims[j]]
  /\ run' = IF c = NoJob THEN run ELSE [run EXCEPT ![w] = Started(c)]
  /\ UNCHANGED requeues

\* One transaction: sweep at most one exhausted row, claim at most one due row.
\* `locked' are the rows SKIP LOCKED passes over because a peer's open transaction
\* holds them.
RunOne(w, locked) ==
  /\ run[w].phase = "idle"
  /\ \E s \in Selected(Earliest({j \in Job \ locked : Exhausted(j)})),
        c \in Selected(FirstClaim({j \in Job \ locked : Claimable(j)})),
        hookOk \in BOOLEAN :
       SweepAndClaim(w, s, c, hookOk)

-----------------------------------------------------------------------------
(* JobRunner.runOne after its claim: the handler, the lease and the result. *)

\* Slip: a lease is checked by row alone.
HeldByRow(w) ==
  /\ run[w].phase # "idle"
  /\ row[run[w].job].state = "running" /\ row[run[w].job].lease > 0

\* The WHERE clause every later statement of the run carries.
Held(w) ==
  /\ run[w].phase # "idle"
  /\ row[run[w].job].state = "running"
  /\ row[run[w].job].token = run[w].token
  /\ row[run[w].job].lease > 0

\* The interval's UPDATE.  It finds no row, or the statement fails: heartbeatError.
Heartbeat(w) ==
  /\ run[w].phase # "idle"
  /\ run[w].job \notin Unknown
  /\ \/ /\ Held(w)
        /\ row' = [row EXCEPT ![run[w].job].lease = LeaseTicks]
        /\ UNCHANGED run
     \/ /\ run' = [run EXCEPT ![w].beat = "lost"]
        /\ UNCHANGED row
  /\ UNCHANGED <<claims, hookRuns, requeues>>

\* The handler resolves, rejects, or rejects with JOB_LEASE_LOST from its own
\* context.assertLease(), which abandons the run.
HandlerEnds(w) ==
  /\ run[w].phase = "handling"
  /\ \/ run' = [run EXCEPT ![w].phase = "returned"]
     \/ run' = [run EXCEPT ![w].phase = "failing"]
     \/ /\ run[w].beat = "lost" \/ ~Held(w)
        /\ run' = [run EXCEPT ![w] = Idle]
  /\ UNCHANGED <<row, claims, hookRuns, requeues>>

\* assertLease() after the handler: JOB_LEASE_LOST leaves the row alone, a failed
\* query goes to fail().
AssertLease(w) ==
  /\ run[w].phase = "returned"
  /\ \/ /\ run[w].beat = "ok" /\ Held(w)
        /\ run' = [run EXCEPT ![w].phase = "asserted"]
     \/ /\ run[w].beat = "lost" \/ ~Held(w)
        /\ run' = [run EXCEPT ![w] = Idle]
     \/ /\ run[w].beat = "ok"
        /\ run' = [run EXCEPT ![w].phase = "failing"]
  /\ UNCHANGED <<row, claims, hookRuns, requeues>>

Succeeded(r) == Cols("succeeded", r.attempts, r.due, NoToken, 0)

\* The completing UPDATE.  Its reply may be lost whether or not it took effect; the
\* runner then goes on to fail().
Complete(w) ==
  /\ run[w].phase = "asserted"
  /\ \/ /\ Held(w)
        /\ row' = [row EXCEPT ![run[w].job] = Succeeded(@)]
        /\ \/ run' = [run EXCEPT ![w] = Idle]
           \/ run' = [run EXCEPT ![w].phase = "failing"]
     \/ /\ ~Held(w)
        /\ run' = [run EXCEPT ![w] = Idle]
        /\ UNCHANGED row
     \/ /\ run' = [run EXCEPT ![w].phase = "failing"]
        /\ UNCHANGED row
  /\ UNCHANGED <<claims, hookRuns, requeues>>

\* Slip: a spent row goes back to pending, where nothing looks for it.
FailedParked(r, exhausted, d) == Cols("pending", r.attempts, d, NoToken, 0)

\* What fail() writes: the last attempt only gives up its lease.
Failed(r, exhausted, d) ==
  IF exhausted THEN Cols("running", r.attempts, 0, r.token, 0)
  ELSE Cols("pending", r.attempts, d, NoToken, 0)

Fail(w) ==
  /\ run[w].phase = "failing"
  /\ \/ /\ Held(w)
        /\ \E d \in 1..RetryTicks :
             row' = [row EXCEPT ![run[w].job] =
                       Failed(@, run[w].attempts >= MaxAttempts, d)]
     \/ UNCHANGED row        \* no row matched, or the statement failed
  /\ run' = [run EXCEPT ![w] = Idle]
  /\ UNCHANGED <<claims, hookRuns, requeues>>

\* The process dies: killed, out of memory, or stopped before the job in flight ended.
Crash(w) ==
  /\ run[w].phase # "idle"
  /\ run' = [run EXCEPT ![w] = Idle]
  /\ UNCHANGED <<row, claims, hookRuns, requeues>>

-----------------------------------------------------------------------------
Countdown(n, floor) == IF n > floor THEN n - 1 ELSE n

Elapsed(r) ==
  IF r.state \in {"pending", "running"}
  THEN Cols(r.state, r.attempts, Countdown(r.due, -LateTicks), r.token, Countdown(r.lease, 0))
  ELSE r

Tick ==
  /\ row' = [j \in Job |-> Elapsed(row[j])]
  /\ UNCHANGED <<claims, run, hookRuns, requeues>>

\* The rows a peer's open transaction may keep from a claim.
Outstanding == {j \in Job : row[j].state \in {"pending", "running"}}

RunStep(w) == HandlerEnds(w) \/ AssertLease(w) \/ Complete(w) \/ Fail(w)

RunnerStep(w) ==
  \/ \E locked \in SUBSET Outstanding : RunOne(w, locked)
  \/ Heartbeat(w)
  \/ RunStep(w)
  \/ Crash(w)

OtherComponents(j) == Enqueue(j, 0) \/ CancelPending(j) \/ Requeue(j, 1)

Next ==
  \/ \E j \in Job : OtherComponents(j)
  \/ \E w \in Worker : RunnerStep(w)
  \/ Tick

Spec == Init /\ [][Next]_vars

\* run() polls every second, far more often than a tick: no idle runner lets a row
\* grow overdue beyond LateTicks.
Neglected ==
  \E w \in Worker, j \in Job : /\ run[w].phase = "idle"
                              /\ (Exhausted(j) \/ Claimable(j))
                              /\ row[j].due = -LateTicks
PolledTick == ~Neglected /\ Tick

PolledNext ==
  \/ \E j \in Job : OtherComponents(j)
  \/ \E w \in Worker : RunnerStep(w)
  \/ PolledTick

\* Time passes, an idle runner polls, and a handler ends.  Nothing is assumed of
\* heartbeats, crashes, or the outcome of handlers and hooks.
Fairness ==
  /\ WF_vars(PolledTick)
  /\ \A w \in Worker : WF_vars(RunOne(w, {})) /\ WF_vars(RunStep(w))

FairSpec == Init /\ [][PolledNext]_vars /\ Fairness

-----------------------------------------------------------------------------
(* Properties.                                                              *)

\* However many runners still execute a row's handler after crashes and stalls, at
\* most one of them can pass a lease check (runner.ts assertLease and the WHERE
\* clauses of the heartbeat, completion and failure statements).
OneLiveRun ==
  \A v, w \in Worker : Held(v) /\ Held(w) /\ run[v].job = run[w].job => v = w

\* No two runs ever share a token, no runner holds one that was never issued, and a
\* running row carries its newest: what makes OneLiveRun inductive.
TokensFenced ==
  /\ \A j \in Job : row[j].state = "running" => row[j].token = claims[j]
  /\ \A w \in Worker : run[w].phase # "idle" =>
       run[w].job \in Job /\ run[w].token \in 1..claims[run[w].job]
  /\ \A v, w \in Worker :
       /\ run[v].phase # "idle" /\ run[w].phase # "idle"
       /\ run[v].job = run[w].job /\ run[v].token = run[w].token
       => v = w

\* An exhaustion hook's effect is committed exactly once, and exactly when its row
\* fails: a hook that raises leaves neither (finishExhaustion's savepoint).
HookWithFailure ==
  \A j \in Hooked : hookRuns[j] = IF row[j].state = "failed" THEN 1 ELSE 0

\* A recurring schedule neither dies nor forks: the next run is queued as soon as
\* this one was ever claimed, whatever became of it, and only then (runOne's INSERT
\* with the claim, ON CONFLICT DO NOTHING).
ScheduleUnbroken ==
  \A j \in DOMAIN Successor :
    row[Successor[j]].state # "absent" <=> row[j].attempts > 0

\* The queue keeps its promise: what its rows, leases and runners do is a behaviour
\* of LeasedWork, in which stale runners do not exist.
Stage(r) ==
  CASE r.state = "absent" -> "absent"
    [] r.state \in {"pending", "running"} -> "waiting"
    [] r.state = "succeeded" -> "done"
    [] r.state = "failed" -> "given_up"
    [] r.state = "deleted" -> "withdrawn"

Holders(j) == {w \in Worker : run[w].job = j /\ Held(w)}

OneOf(holders) == IF holders = {} THEN NoJob ELSE CHOOSE w \in holders : TRUE

Work == [j \in Job |->
           [stage |-> Stage(row[j]), holder |-> OneOf(Holders(j)), cleanups |-> hookRuns[j]]]

Promise == INSTANCE LeasedWork WITH Nobody <- NoJob, work <- Work

KeepsPromise == Promise!LWSpec

\* Every queued row without a hook is settled in the end, through crashes, stalls and
\* lost connections, and even while another row's hook raises forever.  A hooked row is
\* settled, or keeps coming back to the sweep with its attempts spent: neither is ever
\* left waiting for a runner that is gone.
Unsettled ==
  \E j \in Job : row[j].state \in {"pending", "running"} /\ (j \in Hooked => ~Exhausted(j))
QueueSettles == Unsettled ~> ~Unsettled
=============================================================================
