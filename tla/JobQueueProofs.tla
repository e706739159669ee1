--------------------------- MODULE JobQueueProofs ---------------------------
(***************************************************************************)
(* Theorems about the queue, for any rows, runners, attempts and times,    *)
(* and about the organization, for any members, rooms and requests.        *)
(***************************************************************************)
EXTENDS MCJobQueue, TLAPS, FiniteSetTheorems

\* What runOne() selects: rows that are exhausted or claimable, or none.
LEMMA SelectedRows ==
  ASSUME NEW locked \in SUBSET Job,
         NEW s \in Selected(Earliest({j \in Job \ locked : Exhausted(j)})),
         NEW c \in Selected(FirstClaim({j \in Job \ locked : Claimable(j)}))
  PROVE  /\ s # NoJob => s \in Job /\ Exhausted(s)
         /\ c # NoJob => c \in Job /\ Claimable(c)
BY DEF Selected, Earliest, FirstClaim

\* A heartbeat leaves a row's state and token, a move to another phase a run's job and
\* token.
LEMMA FieldsKept ==
  /\ \A r \in Row : \A l : /\ [r EXCEPT !.lease = l].state = r.state
                           /\ [r EXCEPT !.lease = l].token = r.token
  /\ \A r \in Run : \A x : /\ [r EXCEPT !.beat = x].phase = r.phase
                           /\ [r EXCEPT !.beat = x].job = r.job
                           /\ [r EXCEPT !.beat = x].token = r.token
  /\ \A r \in Run : \A x : /\ [r EXCEPT !.phase = x].job = r.job
                           /\ [r EXCEPT !.phase = x].token = r.token
BY DEF Row, Run

\* Rows written by the operations are rows.
LEMMA RowsTyped ==
  ASSUME QueueAssumption, NEW r \in Row
  PROVE  /\ Absent \in Row /\ Deleted \in Row
         /\ \A d \in Int : Queued(d) \in Row
         /\ Succeeded(r) \in Row
         /\ \A hookOk \in BOOLEAN : Swept(r, hookOk) \in Row
         /\ \A t \in Nat : r.attempts < MaxAttempts => Claimed(r, t) \in Row
         /\ \A x, d \in Int : Failed(r, x >= MaxAttempts, d) \in Row
         /\ Elapsed(r) \in Row
<1> USE QueueAssumption DEF QueueAssumption, NoToken, RowState, Cols, Row
<1>0. /\ r.state \in RowState /\ r.attempts \in 0..MaxAttempts /\ r.due \in Int
      /\ r.token \in Nat /\ r.lease \in 0..LeaseTicks
  BY DEF Row
<1>1. Absent \in Row /\ Deleted \in Row /\ \A d \in Int : Queued(d) \in Row
  BY DEF Absent, Deleted, Queued
<1>2. Succeeded(r) \in Row
  BY <1>0 DEF Succeeded
<1>3. \A hookOk \in BOOLEAN : Swept(r, hookOk) \in Row
  BY <1>0 DEF Swept, Buried, HookRaised
<1>4. \A t \in Nat : r.attempts < MaxAttempts => Claimed(r, t) \in Row
  BY <1>0 DEF Claimed
<1>5. \A x, d \in Int : Failed(r, x >= MaxAttempts, d) \in Row
  BY <1>0 DEF Failed
<1>6. Elapsed(r) \in Row
  BY <1>0 DEF Elapsed, Countdown
<1> QED BY <1>1, <1>2, <1>3, <1>4, <1>5, <1>6

\* A claim's run is a run.
LEMMA StartedTyped ==
  ASSUME QueueAssumption, TypeOK, NEW c \in Job, Claimable(c)
  PROVE  Started(c) \in Run
<1>1. row[c].attempts \in 0..MaxAttempts /\ row[c].attempts < MaxAttempts
  BY DEF TypeOK, Row, Claimable
<1>2. claims[c] \in Nat
  BY DEF TypeOK
<1> QED BY <1>1, <1>2 DEF Started, Run, Phase, QueueAssumption

\* The transaction of runOne() leaves rows.
LEMMA SweptAndClaimedTyped ==
  ASSUME QueueAssumption, TypeOK, NEW s, NEW c, NEW hookOk \in BOOLEAN,
         c # NoJob => c \in Job /\ Claimable(c)
  PROVE  SweptAndClaimed(s, c, hookOk) \in [Job -> Row]
<1> SUFFICES ASSUME NEW j \in Job
             PROVE (IF j = s THEN Swept(row[j], hookOk)
                    ELSE IF j = c THEN Claimed(row[j], claims[j] + 1)
                    ELSE IF QueuesSuccessor(c, j) THEN Queued(RecurTicks)
                    ELSE row[j]) \in Row
  BY DEF SweptAndClaimed
<1>1. row[j] \in Row /\ claims[j] + 1 \in Nat /\ RecurTicks \in Int
  BY DEF TypeOK, QueueAssumption
<1>2. Swept(row[j], hookOk) \in Row
  BY <1>1, RowsTyped
<1>3. j = c => Claimed(row[j], claims[j] + 1) \in Row
  BY <1>1, RowsTyped DEF Claimable, QueueAssumption
<1>4. Queued(RecurTicks) \in Row
  BY <1>1, RowsTyped
<1> QED BY <1>1, <1>2, <1>3, <1>4

\* Every operation of the runners and of the other components writes values of the
\* declared shape (runner.ts, job_queue's CHECK constraints).
THEOREM TypeCorrect == Spec => []TypeOK
<1> USE QueueAssumption
<1>1. Init => TypeOK
  <2> SUFFICES ASSUME Init PROVE TypeOK
    OBVIOUS
  <2>1. Absent \in Row /\ Queued(0) \in Row /\ Settled \in Row
    BY DEF Absent, Queued, Settled, Cols, Row, RowState, NoToken, QueueAssumption
  <2>2. Idle \in Run
    BY DEF Idle, Run, Phase, NoToken, QueueAssumption
  <2>3. 0 \in 0..MaxRequeues /\ MaxRequeues \in 0..MaxRequeues
    BY DEF QueueAssumption
  <2> QED BY <2>1, <2>2, <2>3 DEF Init, TypeOK
<1>2. TypeOK /\ [Next]_vars => TypeOK'
  <2> SUFFICES ASSUME TypeOK, [Next]_vars PROVE TypeOK'
    OBVIOUS
  <2>0. /\ row \in [Job -> Row] /\ run \in [Worker -> Run]
        /\ \A j \in Job : /\ row[j] \in Row /\ Absent \in Row /\ Deleted \in Row
                          /\ Succeeded(row[j]) \in Row /\ Elapsed(row[j]) \in Row
                          /\ \A d \in Int : Queued(d) \in Row
    BY RowsTyped DEF TypeOK
  <2>1. ASSUME NEW j \in Job, OtherComponents(j) PROVE TypeOK'
    <3>1. CASE Enqueue(j, 0)
      BY <2>0, <3>1 DEF Enqueue, TypeOK
    <3>2. CASE CancelPending(j)
      BY <2>0, <3>2 DEF CancelPending, TypeOK
    <3>3. CASE Requeue(j, 1)
      <4>1. requeues[j] + 1 \in 0..MaxRequeues
        BY <3>3 DEF Requeue, TypeOK, QueueAssumption
      <4> QED BY <2>0, <3>3, <4>1 DEF Requeue, TypeOK
    <3> QED BY <2>1, <3>1, <3>2, <3>3 DEF OtherComponents
  <2>2. ASSUME NEW w \in Worker, RunnerStep(w) PROVE TypeOK'
    <3>1. ASSUME NEW locked \in SUBSET Job, RunOne(w, locked) PROVE TypeOK'
      <4>1. PICK s \in Selected(Earliest({j \in Job \ locked : Exhausted(j)})),
                 c \in Selected(FirstClaim({j \in Job \ locked : Claimable(j)})),
                 hookOk \in BOOLEAN : SweepAndClaim(w, s, c, hookOk)
        BY <3>1 DEF RunOne
      <4>2. c # NoJob => c \in Job /\ Claimable(c)
        BY SelectedRows
      <4>3. row' \in [Job -> Row]
        BY <4>1, <4>2, SweptAndClaimedTyped DEF SweepAndClaim
      <4>4. run' \in [Worker -> Run]
        BY <2>0, <4>1, <4>2, StartedTyped DEF SweepAndClaim
      <4>5. claims' \in [Job -> Nat] /\ hookRuns' \in [Job -> Nat]
        BY <4>1 DEF SweepAndClaim, TypeOK
      <4> QED BY <4>1, <4>3, <4>4, <4>5 DEF SweepAndClaim, TypeOK
    <3>2. CASE Heartbeat(w)
      <4>1. [row EXCEPT ![run[w].job].lease = LeaseTicks] \in [Job -> Row]
        <5>1. LeaseTicks \in 0..LeaseTicks
          BY DEF QueueAssumption
        <5>2. \A r \in Row : [r EXCEPT !.lease = LeaseTicks] \in Row
          BY <5>1 DEF Row
        <5> QED BY <2>0, <5>2
      <4>2. [run EXCEPT ![w].beat = "lost"] \in [Worker -> Run]
        BY <2>0 DEF Run
      <4> QED BY <3>2, <4>1, <4>2 DEF Heartbeat, TypeOK
    <3>3. CASE HandlerEnds(w)
      BY <3>3 DEF HandlerEnds, Idle, NoToken, TypeOK, Run, Phase, QueueAssumption
    <3>4. CASE AssertLease(w)
      BY <3>4 DEF AssertLease, Idle, NoToken, TypeOK, Run, Phase, QueueAssumption
    <3>5. CASE Complete(w)
      <4>1. [row EXCEPT ![run[w].job] = Succeeded(@)] \in [Job -> Row]
        BY <2>0
      <4>2. Idle \in Run /\ [run EXCEPT ![w].phase = "failing"] \in [Worker -> Run]
        BY <2>0 DEF Idle, NoToken, Run, Phase, QueueAssumption
      <4> QED BY <3>5, <4>1, <4>2 DEF Complete, TypeOK
    <3>6. CASE Fail(w)
      <4>1. run[w].attempts \in Int
        BY <2>0 DEF Run
      <4>2. \A d \in 1..RetryTicks :
              [row EXCEPT ![run[w].job] = Failed(@, run[w].attempts >= MaxAttempts, d)]
                \in [Job -> Row]
        <5> SUFFICES ASSUME NEW d \in 1..RetryTicks, run[w].job \in Job
                     PROVE  Failed(row[run[w].job], run[w].attempts >= MaxAttempts, d) \in Row
          BY <2>0
        <5>1. d \in Int /\ row[run[w].job] \in Row
          BY <2>0 DEF QueueAssumption
        <5> QED BY <4>1, <5>1, RowsTyped
      <4>3. Idle \in Run
        BY DEF Idle, NoToken, Run, Phase, QueueAssumption
      <4> QED BY <3>6, <4>2, <4>3 DEF Fail, TypeOK
    <3>7. CASE Crash(w)
      BY <3>7 DEF Crash, Idle, NoToken, TypeOK, Run, Phase, QueueAssumption
    <3> QED BY <2>2, <3>1, <3>2, <3>3, <3>4, <3>5, <3>6, <3>7 DEF RunnerStep, Outstanding, RunStep
  <2>3. CASE Tick
    BY <2>0, <2>3 DEF Tick, TypeOK
  <2>4. CASE UNCHANGED vars
    BY <2>4 DEF vars, TypeOK
  <2> QED BY <2>1, <2>2, <2>3, <2>4 DEF Next
<1> QED BY <1>1, <1>2, PTL DEF Spec

-----------------------------------------------------------------------------
(* Fencing.                                                                 *)

LEMMA TokensFencedStep ==
  ASSUME QueueAssumption, TypeOK, TokensFenced, [Next]_vars
  PROVE  TokensFenced'
<1> USE DEF TokensFenced
<1>0. /\ DOMAIN row = Job /\ \A j \in Job : claims[j] \in Nat /\ row[j] \in Row
      /\ DOMAIN run = Worker /\ \A w \in Worker : run[w] \in Run
      /\ DOMAIN claims = Job
  BY DEF TypeOK
<1>1. ASSUME NEW j \in Job, OtherComponents(j) PROVE TokensFenced'
  <2>1. claims' = claims /\ run' = run
    BY <1>1 DEF OtherComponents, Enqueue, CancelPending, Requeue
  <2>2. row'[j].state # "running" /\ \A k \in Job \ {j} : row'[k] = row[k]
    BY <1>0, <1>1 DEF OtherComponents, Enqueue, CancelPending, Requeue, Queued, Deleted, Cols
  <2> QED BY <2>1, <2>2
<1>2. ASSUME NEW w \in Worker, RunnerStep(w) PROVE TokensFenced'
  <2>1. ASSUME NEW locked \in SUBSET Job, RunOne(w, locked) PROVE TokensFenced'
    <3>1. PICK s \in Selected(Earliest({j \in Job \ locked : Exhausted(j)})),
               c \in Selected(FirstClaim({j \in Job \ locked : Claimable(j)})),
               hookOk \in BOOLEAN : SweepAndClaim(w, s, c, hookOk)
      BY <2>1 DEF RunOne
    <3>2. /\ s # NoJob => s \in Job /\ Exhausted(s)
          /\ c # NoJob => c \in Job /\ Claimable(c)
      BY SelectedRows
    <3>3. \A j \in Job : claims'[j] = IF j = c THEN claims[j] + 1 ELSE claims[j]
      BY <3>1 DEF SweepAndClaim
    <3>4. \A j \in Job : row'[j].state = "running" => row'[j].token = claims'[j]
      <4> SUFFICES ASSUME NEW j \in Job, row'[j].state = "running"
                   PROVE  row'[j].token = claims'[j]
        OBVIOUS
      <4>0. row'[j] = IF j = s THEN Swept(row[j], hookOk)
                      ELSE IF j = c THEN Claimed(row[j], claims[j] + 1)
                      ELSE IF QueuesSuccessor(c, j) THEN Queued(RecurTicks)
                      ELSE row[j]
        BY <3>1 DEF SweepAndClaim, SweptAndClaimed
      <4>1. CASE j = s
        <5>1. row[j].state = "running" /\ row'[j].token = row[j].token
          BY <3>2, <4>0, <4>1, QueueAssumption
             DEF Swept, Buried, HookRaised, Cols, Exhausted, QueueAssumption
        <5>2. j # c
          BY <3>2, <4>1, QueueAssumption DEF Exhausted, Claimable, QueueAssumption, TypeOK, Row
        <5> QED BY <3>3, <5>1, <5>2
      <4>2. CASE j # s /\ j = c
        BY <3>3, <4>0, <4>2 DEF Claimed, Cols
      <4>3. CASE j # s /\ j # c
        BY <3>3, <4>0, <4>3 DEF Queued, Cols
      <4> QED BY <4>1, <4>2, <4>3
    <3>5. CASE c = NoJob
      <4>1. run' = run /\ \A j \in Job : claims'[j] = claims[j]
        BY <3>1, <3>3, <3>5, QueueAssumption DEF SweepAndClaim, QueueAssumption
      <4> QED BY <3>4, <4>1
    <3>6. CASE c # NoJob
      <4>1. /\ run'[w].job = c /\ run'[w].token = claims[c] + 1
            /\ \A v \in Worker \ {w} : run'[v] = run[v]
        BY <1>0, <3>1, <3>6 DEF SweepAndClaim, Started
      <4>2. c \in Job /\ claims[c] \in Nat
        BY <1>0, <3>2, <3>6
      <4>3. \A v \in Worker : run'[v].phase # "idle" =>
              run'[v].job \in Job /\ run'[v].token \in 1..claims'[run'[v].job]
        BY <1>0, <3>3, <4>1, <4>2
      <4>4. \A v \in Worker \ {w} : run'[v].phase # "idle" =>
              ~(run'[v].job = run'[w].job /\ run'[v].token = run'[w].token)
        BY <4>1, <4>2
      <4> QED BY <3>4, <4>1, <4>3, <4>4
    <3> QED BY <3>5, <3>6
  <2>2. CASE Heartbeat(w)
    <3>1. CASE row' = [row EXCEPT ![run[w].job].lease = LeaseTicks] /\ run' = run
      <4>1. \A j \in Job : row'[j] = row[j] \/ row'[j] = [row[j] EXCEPT !.lease = LeaseTicks]
        BY <1>0, <3>1
      <4>2. ASSUME NEW j \in Job
            PROVE  row'[j].state = row[j].state /\ row'[j].token = row[j].token
        <5>1. row[j] \in Row
          BY <1>0
        <5>2. CASE row'[j] = [row[j] EXCEPT !.lease = LeaseTicks]
          BY <5>1, <5>2, FieldsKept
        <5> QED BY <4>1, <5>2
      <4> QED BY <2>2, <3>1, <4>2 DEF Heartbeat
    <3>2. CASE row' = row /\ run' = [run EXCEPT ![w].beat = "lost"]
      <4>1. \A v \in Worker : run'[v] = run[v] \/ run'[v] = [run[v] EXCEPT !.beat = "lost"]
        BY <1>0, <3>2
      <4>2. ASSUME NEW v \in Worker
            PROVE  /\ run'[v].phase = run[v].phase /\ run'[v].job = run[v].job
                   /\ run'[v].token = run[v].token
        <5>1. run[v] \in Run
          BY <1>0
        <5>2. CASE run'[v] = [run[v] EXCEPT !.beat = "lost"]
          BY <5>1, <5>2, FieldsKept
        <5> QED BY <4>1, <5>2
      <4> QED BY <2>2, <3>2, <4>2 DEF Heartbeat
    <3> QED BY <2>2, <3>1, <3>2 DEF Heartbeat
  <2>3. CASE RunStep(w) \/ Crash(w)
    <3>1. claims' = claims
      BY <2>3 DEF RunStep, HandlerEnds, AssertLease, Complete, Fail, Crash
    <3>2. \A v \in Worker : run'[v].phase # "idle" =>
            /\ run[v].phase # "idle" /\ run'[v].job = run[v].job
            /\ run'[v].token = run[v].token
      <4>1. run[w].phase # "idle"
        BY <2>3 DEF RunStep, HandlerEnds, AssertLease, Complete, Fail, Crash
      <4>2. \/ run' = [run EXCEPT ![w] = Idle]
            \/ \E p \in Phase : run' = [run EXCEPT ![w].phase = p]
        BY <2>3 DEF RunStep, HandlerEnds, AssertLease, Complete, Fail, Crash, Phase
      <4>3. CASE run' = [run EXCEPT ![w] = Idle]
        BY <1>0, <4>3 DEF Idle
      <4>4. ASSUME NEW p \in Phase, run' = [run EXCEPT ![w].phase = p]
            PROVE  \A v \in Worker : run'[v].phase # "idle" =>
                     /\ run[v].phase # "idle" /\ run'[v].job = run[v].job
                     /\ run'[v].token = run[v].token
        <5> SUFFICES ASSUME NEW v \in Worker, run'[v].phase # "idle"
                     PROVE  /\ run[v].phase # "idle" /\ run'[v].job = run[v].job
                            /\ run'[v].token = run[v].token
          OBVIOUS
        <5>1. \/ run'[v] = run[v]
              \/ v = w /\ run'[v] = [run[v] EXCEPT !.phase = p]
          BY <1>0, <4>4
        <5>2. run[v] \in Run
          BY <1>0
        <5>3. CASE v = w /\ run'[v] = [run[v] EXCEPT !.phase = p]
          BY <4>1, <5>2, <5>3, FieldsKept
        <5> QED BY <5>1, <5>3
      <4> QED BY <4>2, <4>3, <4>4
    <3>3. \A j \in Job : row'[j].state = "running" =>
            row[j].state = "running" /\ row'[j].token = row[j].token
      <4>1. \/ row' = row
            \/ Held(w) /\ row' = [row EXCEPT ![run[w].job] = Succeeded(@)]
            \/ Held(w) /\ \E d \in 1..RetryTicks :
                 row' = [row EXCEPT ![run[w].job] =
                           Failed(@, run[w].attempts >= MaxAttempts, d)]
        BY <2>3 DEF RunStep, HandlerEnds, AssertLease, Complete, Fail, Crash
      <4>2. CASE Held(w) /\ row' = [row EXCEPT ![run[w].job] = Succeeded(@)]
        BY <1>0, <4>2 DEF Succeeded, Cols
      <4>3. ASSUME NEW d \in 1..RetryTicks, Held(w),
                   row' = [row EXCEPT ![run[w].job] =
                             Failed(@, run[w].attempts >= MaxAttempts, d)]
            PROVE  \A j \in Job : row'[j].state = "running" =>
                     row[j].state = "running" /\ row'[j].token = row[j].token
        BY <1>0, <4>3 DEF Held, Failed, Cols
      <4> QED BY <4>1, <4>2, <4>3
    <3> QED BY <3>1, <3>2, <3>3
  <2> QED BY <1>2, <2>1, <2>2, <2>3 DEF RunnerStep, Outstanding
<1>3. CASE Tick
  <2>1. \A j \in Job : row'[j].state = row[j].state /\ row'[j].token = row[j].token
    BY <1>3 DEF Tick, Elapsed, Cols
  <2> QED BY <1>3, <2>1 DEF Tick
<1>4. CASE UNCHANGED vars
  BY <1>4 DEF vars
<1> QED BY <1>1, <1>2, <1>3, <1>4 DEF Next

\* No token is ever in two hands, and a running row carries the newest (runner.ts:
\* createOpaqueId per claim, written with the claim).
THEOREM TokensStayFenced == Spec => []TokensFenced
<1>1. Init => TokensFenced
  BY DEF Init, TokensFenced, Idle, Absent, Queued, Settled, Cols
<1>2. QueueAssumption /\ TypeOK /\ TokensFenced /\ [Next]_vars => TokensFenced'
  BY TokensFencedStep
<1> QED BY <1>1, <1>2, TypeCorrect, QueueAssumption, PTL DEF Spec

\* At most one run of a row can pass a lease check, whatever crashed, stalled or was
\* claimed again (runner.ts assertLease and the fenced UPDATEs).
THEOREM AtMostOneLiveRun == Spec => []OneLiveRun
<1>1. TokensFenced => OneLiveRun
  BY DEF TokensFenced, OneLiveRun, Held
<1> QED BY <1>1, TokensStayFenced, PTL

-----------------------------------------------------------------------------
(* What the steps do to a row.                                              *)

\* The columns the runner's statements write.
LEMMA RowFields ==
  /\ \A d : Queued(d).state = "pending" /\ Queued(d).attempts = 0
  /\ Deleted.state = "deleted" /\ Deleted.attempts = 0
  /\ Absent.state = "absent" /\ Absent.attempts = 0
  /\ Settled.state = "succeeded" /\ Settled.attempts = 1
  /\ \A r : Succeeded(r).state = "succeeded" /\ Succeeded(r).attempts = r.attempts
  /\ \A r : Buried(r).state = "failed" /\ Buried(r).attempts = r.attempts
  /\ \A r : /\ HookRaised(r).state = "running" /\ HookRaised(r).attempts = r.attempts
            /\ HookRaised(r).lease = 0
  /\ \A r, t : /\ Claimed(r, t).state = "running" /\ Claimed(r, t).attempts = r.attempts + 1
               /\ Claimed(r, t).token = t /\ Claimed(r, t).lease = LeaseTicks
  /\ \A r, d : \A x \in BOOLEAN :
       /\ Failed(r, x, d).attempts = r.attempts
       /\ \/ Failed(r, x, d).state = "pending"
          \/ Failed(r, x, d).state = "running" /\ Failed(r, x, d).lease = 0
  /\ \A r : /\ Elapsed(r).state = r.state /\ Elapsed(r).attempts = r.attempts
            /\ Elapsed(r).token = r.token
            /\ Elapsed(r).lease = r.lease \/ Elapsed(r).lease = Countdown(r.lease, 0)
BY DEF Queued, Deleted, Absent, Settled, Succeeded, Buried, HookRaised, Claimed, Failed,
       Elapsed, Cols

\* The transaction of runOne(): it never claims the row it sweeps, sweeps a hookless
\* row for good, and changes no row but these two and the next run of a schedule.
LEMMA RunOneDoes ==
  ASSUME QueueAssumption, TypeOK, NEW w \in Worker, NEW locked \in SUBSET Job,
         RunOne(w, locked)
  PROVE  \E s \in Job \cup {NoJob}, c \in Job \cup {NoJob}, hookOk \in BOOLEAN :
           /\ SweepAndClaim(w, s, c, hookOk)
           /\ s \in Job => Exhausted(s)
           /\ c \in Job => Claimable(c)
           /\ \A j \in Job : ~(j = s /\ j = c)
           /\ \A j \in Job : j = s =>
                IF hookOk THEN row'[j] = Buried(row[j])
                ELSE row'[j] = HookRaised(row[j]) /\ j \in Hooked
           /\ \A j \in Job : j = c => row'[j] = Claimed(row[j], claims[j] + 1)
           /\ \A j \in Job : j # s /\ j # c =>
                row'[j] = IF QueuesSuccessor(c, j) THEN Queued(RecurTicks) ELSE row[j]
           /\ \A j \in Job :
                hookRuns'[j] = IF j = s /\ j \in Hooked /\ hookOk THEN hookRuns[j] + 1
                               ELSE hookRuns[j]
<1>1. PICK s \in Selected(Earliest({j \in Job \ locked : Exhausted(j)})),
           c \in Selected(FirstClaim({j \in Job \ locked : Claimable(j)})),
           hookOk \in BOOLEAN : SweepAndClaim(w, s, c, hookOk)
  BY DEF RunOne
<1>2. /\ s # NoJob => s \in Job /\ Exhausted(s)
      /\ c # NoJob => c \in Job /\ Claimable(c)
  BY SelectedRows
<1>3. NoJob \notin Job
  BY DEF QueueAssumption
<1>4. \A j \in Job : ~(j = s /\ j = c)
  BY <1>2, <1>3 DEF Exhausted, Claimable, TypeOK, Row, QueueAssumption
<1>5. \A j \in Job : row'[j] = IF j = s THEN Swept(row[j], hookOk)
                              ELSE IF j = c THEN Claimed(row[j], claims[j] + 1)
                              ELSE IF QueuesSuccessor(c, j) THEN Queued(RecurTicks)
                              ELSE row[j]
  BY <1>1 DEF SweepAndClaim, SweptAndClaimed
<1>6. \A j \in Job :
        hookRuns'[j] = IF j = s /\ j \in Hooked /\ hookOk THEN hookRuns[j] + 1 ELSE hookRuns[j]
  BY <1>1 DEF SweepAndClaim
<1>7. hookOk \/ s \in Hooked
  BY <1>1 DEF SweepAndClaim
<1>8. \A j \in Job : j = s => row'[j] = Swept(row[j], hookOk)
  BY <1>5
<1>9. \A j \in Job : j = s => IF hookOk THEN row'[j] = Buried(row[j])
                             ELSE row'[j] = HookRaised(row[j]) /\ j \in Hooked
  BY <1>7, <1>8 DEF Swept
<1>10. \A j \in Job : j = c => row'[j] = Claimed(row[j], claims[j] + 1)
  BY <1>4, <1>5
<1>11. \A j \in Job : j # s /\ j # c =>
         row'[j] = IF QueuesSuccessor(c, j) THEN Queued(RecurTicks) ELSE row[j]
  BY <1>5
<1>12. s \in Job \cup {NoJob} /\ c \in Job \cup {NoJob}
  BY <1>2
<1> QED BY <1>1, <1>2, <1>3, <1>4, <1>6, <1>9, <1>10, <1>11, <1>12

\* A runner past its claim, a crash and the clock: a row keeps its attempts and its
\* state, unless its handler's end settles it or puts it back.
LEMMA RowKept ==
  ASSUME QueueAssumption, TypeOK, NEW j \in Job,
         \/ \E w \in Worker : Heartbeat(w) \/ RunStep(w) \/ Crash(w)
         \/ Tick
         \/ UNCHANGED vars
  PROVE  /\ hookRuns' = hookRuns
         /\ row'[j].attempts = row[j].attempts
         /\ \/ row'[j].state = row[j].state
            \/ row[j].state = "running" /\ row'[j].state \in {"pending", "succeeded"}
<1>0. row \in [Job -> Row] /\ row[j] \in Row
  BY DEF TypeOK
<1>1. \A r \in Row : \A l : /\ [r EXCEPT !.lease = l].state = r.state
                            /\ [r EXCEPT !.lease = l].attempts = r.attempts
  BY DEF Row
<1>2. ASSUME NEW w \in Worker, Heartbeat(w)
      PROVE  /\ hookRuns' = hookRuns
             /\ row'[j].attempts = row[j].attempts /\ row'[j].state = row[j].state
  <2>1. row'[j] = row[j] \/ row'[j] = [row[j] EXCEPT !.lease = LeaseTicks]
    BY <1>0, <1>2 DEF Heartbeat
  <2>2. hookRuns' = hookRuns
    BY <1>2 DEF Heartbeat
  <2>3. CASE row'[j] = [row[j] EXCEPT !.lease = LeaseTicks]
    BY <1>0, <1>1, <2>2, <2>3
  <2> QED BY <2>1, <2>2, <2>3
<1>3. ASSUME NEW w \in Worker, RunStep(w) \/ Crash(w)
      PROVE  /\ hookRuns' = hookRuns
             /\ row'[j].attempts = row[j].attempts
             /\ \/ row'[j].state = row[j].state
                \/ row[j].state = "running" /\ row'[j].state \in {"pending", "succeeded"}
  <2>1. hookRuns' = hookRuns
    BY <1>3 DEF RunStep, HandlerEnds, AssertLease, Complete, Fail, Crash
  <2>2. \/ row' = row
        \/ Held(w) /\ row' = [row EXCEPT ![run[w].job] = Succeeded(@)]
        \/ Held(w) /\ \E d \in 1..RetryTicks :
             row' = [row EXCEPT ![run[w].job] = Failed(@, run[w].attempts >= MaxAttempts, d)]
    BY <1>3 DEF RunStep, HandlerEnds, AssertLease, Complete, Fail, Crash
  <2>3. \/ row'[j] = row[j]
        \/ row[j].state = "running" /\ row'[j] = Succeeded(row[j])
        \/ /\ row[j].state = "running"
           /\ \E d \in 1..RetryTicks :
                row'[j] = Failed(row[j], run[w].attempts >= MaxAttempts, d)
    BY <1>0, <2>2 DEF Held
  <2>4. row'[j] = Succeeded(row[j])
        => row'[j].state = "succeeded" /\ row'[j].attempts = row[j].attempts
    BY RowFields
  <2>5. ASSUME NEW d \in 1..RetryTicks,
               row'[j] = Failed(row[j], run[w].attempts >= MaxAttempts, d)
        PROVE  row'[j].state \in {"running", "pending"} /\ row'[j].attempts = row[j].attempts
    BY <2>5 DEF Failed, Cols
  <2> QED BY <2>1, <2>3, <2>4, <2>5
<1>4. CASE Tick
  BY <1>4, RowFields DEF Tick
<1>5. CASE UNCHANGED vars
  BY <1>5 DEF vars
<1> QED BY <1>2, <1>3, <1>4, <1>5

-----------------------------------------------------------------------------
(* Exhaustion and recurrence.                                               *)

LEMMA HookWithFailureStep ==
  ASSUME QueueAssumption, ScheduleAssumption, TypeOK, HookWithFailure, [Next]_vars
  PROVE  HookWithFailure'
<1> USE DEF HookWithFailure
<1>0. row \in [Job -> Row] /\ Hooked \subseteq Job
  BY DEF TypeOK, QueueAssumption
<1>1. ASSUME NEW j \in Job, OtherComponents(j) PROVE HookWithFailure'
  <2>1. hookRuns' = hookRuns /\ \A k \in Job \ {j} : row'[k] = row[k]
    BY <1>0, <1>1 DEF OtherComponents, Enqueue, CancelPending, Requeue
  <2>2. j \in Hooked => row[j].state # "failed" /\ row'[j].state # "failed"
    BY <1>0, <1>1
       DEF OtherComponents, Enqueue, CancelPending, Requeue, ScheduleAssumption, Queued,
           Deleted, Cols
  <2> QED BY <1>0, <2>1, <2>2
<1>2. ASSUME NEW w \in Worker, NEW locked \in SUBSET Job, RunOne(w, locked)
      PROVE  HookWithFailure'
  <2>1. PICK s \in Job \cup {NoJob}, c \in Job \cup {NoJob}, hookOk \in BOOLEAN :
          /\ s \in Job => Exhausted(s)
          /\ c \in Job => Claimable(c)
          /\ \A j \in Job : ~(j = s /\ j = c)
          /\ \A j \in Job : j = s =>
               IF hookOk THEN row'[j] = Buried(row[j])
               ELSE row'[j] = HookRaised(row[j]) /\ j \in Hooked
          /\ \A j \in Job : j = c => row'[j] = Claimed(row[j], claims[j] + 1)
          /\ \A j \in Job : j # s /\ j # c =>
               row'[j] = IF QueuesSuccessor(c, j) THEN Queued(RecurTicks) ELSE row[j]
          /\ \A j \in Job :
               hookRuns'[j] = IF j = s /\ j \in Hooked /\ hookOk THEN hookRuns[j] + 1
                              ELSE hookRuns[j]
    BY <1>2, RunOneDoes
  <2> SUFFICES ASSUME NEW j \in Hooked
               PROVE  hookRuns'[j] = IF row'[j].state = "failed" THEN 1 ELSE 0
    OBVIOUS
  <2>2. j \in Job /\ hookRuns[j] = IF row[j].state = "failed" THEN 1 ELSE 0
    BY <1>0
  <2>3. CASE j = s
    BY <2>1, <2>2, <2>3, RowFields DEF Exhausted
  <2>4. CASE j = c
    BY <2>1, <2>2, <2>4, RowFields DEF Claimable
  <2>5. CASE j # s /\ j # c
    BY <2>1, <2>2, <2>5, RowFields DEF QueuesSuccessor
  <2> QED BY <2>3, <2>4, <2>5
<1>3. CASE \/ \E w \in Worker : Heartbeat(w) \/ RunStep(w) \/ Crash(w)
           \/ Tick
           \/ UNCHANGED vars
  <2> SUFFICES ASSUME NEW j \in Hooked
               PROVE  hookRuns'[j] = IF row'[j].state = "failed" THEN 1 ELSE 0
    OBVIOUS
  <2>1. j \in Job
    BY <1>0
  <2>2. /\ hookRuns' = hookRuns
        /\ \/ row'[j].state = row[j].state
           \/ row[j].state = "running" /\ row'[j].state \in {"pending", "succeeded"}
    BY <1>3, <2>1, RowKept
  <2> QED BY <2>2
<1> QED BY <1>1, <1>2, <1>3 DEF Next, RunnerStep, Outstanding

\* A hook's effect is committed once, and with its row's failure or not at all
\* (runner.ts finishExhaustion: one savepoint around both).
THEOREM HookRunsWithFailure == Spec => []HookWithFailure
<1>1. Init => HookWithFailure
  BY QueueAssumption
     DEF Init, HookWithFailure, QueueAssumption, Settled, Queued, Absent, Cols
<1>2. QueueAssumption /\ ScheduleAssumption /\ TypeOK /\ HookWithFailure /\ [Next]_vars
      => HookWithFailure'
  BY HookWithFailureStep
<1> QED BY <1>1, <1>2, TypeCorrect, QueueAssumption, ScheduleAssumption, PTL DEF Spec

\* A row that was never queued was never claimed: what ScheduleUnbroken needs to hold
\* across the row's own insertion.
NeverQueued == \A j \in Job : row[j].state = "absent" => row[j].attempts = 0

LEMMA ScheduleStep ==
  ASSUME QueueAssumption, ScheduleAssumption, TypeOK, NeverQueued, ScheduleUnbroken,
         [Next]_vars
  PROVE  NeverQueued' /\ ScheduleUnbroken'
<1> USE DEF NeverQueued, ScheduleUnbroken
<1>0. /\ row \in [Job -> Row] /\ DOMAIN Successor \subseteq Job
      /\ \A j \in DOMAIN Successor : Successor[j] \in Job /\ Successor[j] # j
      /\ NoJob \notin Job
  BY DEF TypeOK, QueueAssumption
<1>1. ASSUME NEW j \in Job, OtherComponents(j) PROVE NeverQueued' /\ ScheduleUnbroken'
  <2>1. \A k \in Job \ {j} : row'[k] = row[k]
    BY <1>0, <1>1 DEF OtherComponents, Enqueue, CancelPending, Requeue
  <2>2. row'[j].state # "absent" /\ row'[j].attempts = 0
    BY <1>0, <1>1
       DEF OtherComponents, Enqueue, CancelPending, Requeue, Queued, Deleted, Cols
  <2>3. \A k \in DOMAIN Successor : Successor[k] # j
    BY <1>0, <1>1 DEF OtherComponents, Enqueue, CancelPending, Requeue, ScheduleAssumption
  <2>4. j \in DOMAIN Successor => row[j].attempts = 0
    BY <1>0, <1>1 DEF OtherComponents, Enqueue, CancelPending, Requeue, ScheduleAssumption
  <2> QED BY <1>0, <2>1, <2>2, <2>3, <2>4
<1>2. ASSUME NEW w \in Worker, NEW locked \in SUBSET Job, RunOne(w, locked)
      PROVE  NeverQueued' /\ ScheduleUnbroken'
  <2>1. PICK s \in Job \cup {NoJob}, c \in Job \cup {NoJob}, hookOk \in BOOLEAN :
          /\ s \in Job => Exhausted(s)
          /\ c \in Job => Claimable(c)
          /\ \A j \in Job : ~(j = s /\ j = c)
          /\ \A j \in Job : j = s =>
               IF hookOk THEN row'[j] = Buried(row[j])
               ELSE row'[j] = HookRaised(row[j]) /\ j \in Hooked
          /\ \A j \in Job : j = c => row'[j] = Claimed(row[j], claims[j] + 1)
          /\ \A j \in Job : j # s /\ j # c =>
               row'[j] = IF QueuesSuccessor(c, j) THEN Queued(RecurTicks) ELSE row[j]
    BY <1>2, RunOneDoes
  <2>2. \A j \in Job : j = s => /\ row'[j].attempts = row[j].attempts
                                /\ row[j].state # "absent" /\ row'[j].state # "absent"
    BY <2>1, RowFields DEF Exhausted
  <2>3. \A j \in Job : j = c => /\ row'[j].attempts > 0
                                /\ row[j].state # "absent" /\ row'[j].state # "absent"
    <3>1. \A j \in Job : row[j].attempts \in Nat
      BY DEF TypeOK, Row, QueueAssumption
    <3> QED BY <2>1, <3>1, RowFields DEF Claimable
  <2>4. \A j \in Job : j # s /\ j # c =>
          IF QueuesSuccessor(c, j)
          THEN row'[j].state # "absent" /\ row'[j].attempts = 0 /\ row[j].attempts = 0
          ELSE row'[j] = row[j]
    BY <2>1 DEF QueuesSuccessor, Queued, Cols
  <2>5. NeverQueued'
    BY <2>2, <2>3, <2>4
  <2>6. ASSUME NEW j \in DOMAIN Successor
        PROVE  row'[Successor[j]].state # "absent" <=> row'[j].attempts > 0
    <3>1. j \in Job /\ Successor[j] \in Job
      BY <1>0
    <3>2. CASE j = c
      <4>1. row[Successor[j]].state = "absent" => QueuesSuccessor(c, Successor[j])
        BY <2>6, <3>2 DEF QueuesSuccessor
      <4> QED BY <2>2, <2>3, <2>4, <3>1, <3>2, <4>1
    <3>3. CASE j # c
      <4>1. ~QueuesSuccessor(c, Successor[j])
        BY <2>6, <3>3 DEF QueuesSuccessor, ScheduleAssumption
      <4>2. row'[Successor[j]].state = "absent" <=> row[Successor[j]].state = "absent"
        BY <2>2, <2>3, <2>4, <3>1, <4>1
      <4>3. row'[j].attempts = row[j].attempts
        BY <2>2, <2>4, <3>1, <3>3
      <4> QED BY <4>2, <4>3
    <3> QED BY <3>2, <3>3
  <2> QED BY <2>5, <2>6
<1>3. CASE \/ \E w \in Worker : Heartbeat(w) \/ RunStep(w) \/ Crash(w)
           \/ Tick
           \/ UNCHANGED vars
  <2>1. \A j \in Job : /\ row'[j].attempts = row[j].attempts
                       /\ row'[j].state = "absent" <=> row[j].state = "absent"
    BY <1>3, RowKept
  <2> QED BY <1>0, <2>1
<1> QED BY <1>1, <1>2, <1>3 DEF Next, RunnerStep, Outstanding

\* A schedule neither dies nor forks: the next run is queued when this one is first
\* claimed, and by nothing else (runner.ts runOne: INSERT ... ON CONFLICT DO NOTHING in
\* the claim's transaction).
THEOREM ScheduleStaysUnbroken == Spec => []ScheduleUnbroken
<1>1. Init /\ QueueAssumption /\ ScheduleAssumption => NeverQueued /\ ScheduleUnbroken
  <2> SUFFICES ASSUME Init, QueueAssumption, ScheduleAssumption
               PROVE  NeverQueued /\ ScheduleUnbroken
    OBVIOUS
  <2>1. PICK history \in Histories :
          row = [j \in Job |-> IF j \in history THEN Settled
                              ELSE IF j \in Scheduled THEN Queued(0) ELSE Absent]
    BY DEF Init
  <2>2. \A j \in Job : /\ row[j].attempts = IF j \in history THEN 1 ELSE 0
                       /\ j \in history => row[j].state = "succeeded"
                       /\ j \notin history \cup Scheduled => row[j].state = "absent"
    BY <2>1 DEF Settled, Queued, Absent, Cols
  <2>3. \A j \in DOMAIN Successor :
          /\ j \in Job /\ Successor[j] \in Job /\ Successor[j] \notin Scheduled
          /\ j \in history <=> Successor[j] \in history
    BY DEF QueueAssumption, ScheduleAssumption
  <2>4. \A j \in Job : row[j].state = "absent" => j \notin history
    BY <2>2
  <2> QED BY <2>2, <2>3, <2>4 DEF NeverQueued, ScheduleUnbroken
<1>2. QueueAssumption /\ ScheduleAssumption
      /\ TypeOK /\ NeverQueued /\ ScheduleUnbroken /\ [Next]_vars
      => NeverQueued' /\ ScheduleUnbroken'
  BY ScheduleStep
<1> QED BY <1>1, <1>2, TypeCorrect, QueueAssumption, ScheduleAssumption, PTL DEF Spec

-----------------------------------------------------------------------------
(* The queue implements LeasedWork.                                         *)

LEMMA StageOf ==
  ASSUME NEW r
  PROVE  /\ r.state = "absent" => Stage(r) = "absent"
         /\ r.state \in {"pending", "running"} => Stage(r) = "waiting"
         /\ r.state = "succeeded" => Stage(r) = "done"
         /\ r.state = "failed" => Stage(r) = "given_up"
         /\ r.state = "deleted" => Stage(r) = "withdrawn"
BY DEF Stage

LEMMA OneOfIs ==
  ASSUME QueueAssumption, NEW S \in SUBSET Worker
  PROVE  /\ S = {} => OneOf(S) = NoJob
         /\ \A w \in Worker : S = {w} => OneOf(S) = w
         /\ OneOf(S) \in Worker \cup {NoJob}
         /\ NoJob \notin Worker
BY DEF OneOf, QueueAssumption

\* Every state of the queue stands for pieces of work.
LEMMA WorkTyped == QueueAssumption /\ TypeOK => Work \in [Job -> Promise!Piece]
<1> SUFFICES ASSUME QueueAssumption, TypeOK, NEW j \in Job
             PROVE  [stage |-> Stage(row[j]), holder |-> OneOf(Holders(j)),
                     cleanups |-> hookRuns[j]] \in Promise!Piece
  BY DEF Work
<1>1. Stage(row[j]) \in {"absent", "waiting", "done", "given_up", "withdrawn"}
  <2>1. row[j].state \in RowState
    BY DEF TypeOK, Row
  <2> QED BY <2>1, StageOf DEF RowState
<1>2. OneOf(Holders(j)) \in Worker \cup {NoJob}
  BY OneOfIs DEF Holders
<1>3. hookRuns[j] \in Nat
  BY DEF TypeOK
<1> QED BY <1>1, <1>2, <1>3 DEF Promise!Piece

LEMMA WorkTypedNext == (QueueAssumption /\ TypeOK => Work \in [Job -> Promise!Piece])'
BY WorkTyped, PTL

\* Only a running row is in anybody's hands, and in one pair of them.
LEMMA HandsOf ==
  ASSUME QueueAssumption, TypeOK, OneLiveRun, NEW j \in Job
  PROVE  /\ Holders(j) \in SUBSET Worker
         /\ row[j].state # "running" \/ row[j].lease = 0 => Holders(j) = {}
         /\ Holders(j) = {} \/ \E w \in Worker : Holders(j) = {w}
         /\ \A w \in Worker : run[w].job = j /\ Held(w) => Holders(j) = {w}
BY DEF Holders, Held, OneLiveRun

\* A step that leaves a row's stage alone and puts it in no new hands is a stutter, or
\* its holder letting go.
LEMMA FewerHands ==
  ASSUME QueueAssumption, TypeOK, OneLiveRun, NEW j \in Job,
         Stage(row'[j]) = Stage(row[j]), hookRuns'[j] = hookRuns[j],
         Holders(j)' \subseteq Holders(j)
  PROVE  Promise!Step(j, Work[j], Work'[j])
<1>1. /\ Work[j] = [stage |-> Stage(row[j]), holder |-> OneOf(Holders(j)),
                    cleanups |-> hookRuns[j]]
      /\ Work'[j] = [stage |-> Stage(row[j]), holder |-> OneOf(Holders(j)'),
                     cleanups |-> hookRuns[j]]
  BY DEF Work
<1>2. CASE Holders(j)' = Holders(j)
  BY <1>1, <1>2 DEF Promise!Step
<1>3. CASE Holders(j)' # Holders(j)
  <2>1. PICK w \in Worker : Holders(j) = {w}
    BY <1>3, HandsOf
  <2>2. Holders(j)' = {}
    BY <1>3, <2>1
  <2>3. Stage(row[j]) = "waiting"
    BY <2>1, HandsOf, StageOf
  <2>4. OneOf(Holders(j)) = w /\ OneOf(Holders(j)') = NoJob /\ w # NoJob
    BY <2>1, <2>2, OneOfIs
  <2>5. Promise!LetGo(Work[j], Work'[j])
    BY <1>1, <2>3, <2>4 DEF Promise!LetGo
  <2> QED BY <2>5 DEF Promise!Step
<1> QED BY <1>2, <1>3

\* A step that leaves a row and its runs alone, or only makes it harder to hold, puts
\* it in no new hands.
LEMMA NoNewHands ==
  ASSUME NEW j \in Job,
         \A v \in Worker : run'[v].phase # "idle" /\ run'[v].job = j =>
           run[v].phase # "idle" /\ run[v].job = j /\ run[v].token = run'[v].token,
         row'[j].state = "running" /\ row'[j].lease > 0 =>
           row[j].state = "running" /\ row[j].lease > 0 /\ row[j].token = row'[j].token
  PROVE  Holders(j)' \subseteq Holders(j)
BY DEF Holders, Held

\* What a run's steps after its claim do to the runs: no run appears, and none changes
\* its row or its token.
LEMMA RunsKept ==
  ASSUME TypeOK, NEW w \in Worker, Heartbeat(w) \/ RunStep(w) \/ Crash(w)
  PROVE  /\ run[w].phase # "idle"
         /\ \A v \in Worker : run'[v].phase # "idle" =>
              /\ run[v].phase # "idle" /\ run'[v].job = run[v].job
              /\ run'[v].token = run[v].token
<1>0. run \in [Worker -> Run]
  BY DEF TypeOK
<1>1. run[w].phase # "idle"
  BY DEF Heartbeat, RunStep, HandlerEnds, AssertLease, Complete, Fail, Crash
<1>2. \/ run' = run \/ run' = [run EXCEPT ![w] = Idle]
      \/ run' = [run EXCEPT ![w].beat = "lost"]
      \/ \E p \in Phase : run' = [run EXCEPT ![w].phase = p]
  BY DEF Heartbeat, RunStep, HandlerEnds, AssertLease, Complete, Fail, Crash, Phase
<1> SUFFICES ASSUME NEW v \in Worker, run'[v].phase # "idle"
             PROVE  /\ run[v].phase # "idle" /\ run'[v].job = run[v].job
                    /\ run'[v].token = run[v].token
  BY <1>1
<1>3. run[v] \in Run
  BY <1>0
<1>4. CASE run' = run
  BY <1>4
<1>5. CASE run' = [run EXCEPT ![w] = Idle]
  BY <1>0, <1>5 DEF Idle
<1>6. CASE run' = [run EXCEPT ![w].beat = "lost"]
  <2>1. run'[v] = run[v] \/ run'[v] = [run[v] EXCEPT !.beat = "lost"]
    BY <1>0, <1>6
  <2>2. CASE run'[v] = [run[v] EXCEPT !.beat = "lost"]
    BY <1>3, <2>2, FieldsKept
  <2> QED BY <2>1, <2>2
<1>7. ASSUME NEW p \in Phase, run' = [run EXCEPT ![w].phase = p]
      PROVE  /\ run[v].phase # "idle" /\ run'[v].job = run[v].job
             /\ run'[v].token = run[v].token
  <2>1. \/ run'[v] = run[v]
        \/ v = w /\ run'[v] = [run[v] EXCEPT !.phase = p]
    BY <1>0, <1>7
  <2>2. CASE v = w /\ run'[v] = [run[v] EXCEPT !.phase = p]
    BY <1>1, <1>3, <2>2, FieldsKept
  <2> QED BY <2>1, <2>2
<1> QED BY <1>2, <1>4, <1>5, <1>6, <1>7

\* Runs past their claim, crashes and the clock: the holder finishes the row or lets go.
LEMMA HoldersMove ==
  ASSUME QueueAssumption, TypeOK, OneLiveRun, NEW j \in Job,
         (\E w \in Worker : Heartbeat(w) \/ RunStep(w) \/ Crash(w)) \/ Tick \/ UNCHANGED vars
  PROVE  Promise!Step(j, Work[j], Work'[j])
<1>0. row \in [Job -> Row] /\ row[j] \in Row
  BY DEF TypeOK
<1>1. hookRuns'[j] = hookRuns[j]
  BY RowKept
<1>2. ASSUME NEW w \in Worker, Heartbeat(w) PROVE Promise!Step(j, Work[j], Work'[j])
  <2>1. \/ row'[j] = row[j]
        \/ /\ Held(w) /\ run[w].job = j
           /\ row'[j] = [row[j] EXCEPT !.lease = LeaseTicks]
    BY <1>0, <1>2 DEF Heartbeat
  <2>2. row'[j].state = row[j].state /\ row'[j].token = row[j].token
    <3>1. CASE row'[j] = [row[j] EXCEPT !.lease = LeaseTicks]
      BY <1>0, <3>1, FieldsKept
    <3> QED BY <2>1, <3>1
  <2>3. row'[j].lease > 0 /\ row[j].state = "running" => row[j].lease > 0
    BY <2>1 DEF Held
  <2>4. Holders(j)' \subseteq Holders(j)
    BY <1>2, <2>2, <2>3, RunsKept, NoNewHands
  <2> QED BY <1>1, <2>2, <2>4, FewerHands DEF Stage
<1>3. ASSUME NEW w \in Worker, RunStep(w) \/ Crash(w) PROVE Promise!Step(j, Work[j], Work'[j])
  <2>1. \/ row'[j] = row[j]
        \/ Held(w) /\ run[w].job = j /\ row'[j] = Succeeded(row[j])
        \/ /\ row[j].state = "running"
           /\ \E d \in 1..RetryTicks :
                row'[j] = Failed(row[j], run[w].attempts >= MaxAttempts, d)
    <3>1. \/ row' = row
          \/ Held(w) /\ row' = [row EXCEPT ![run[w].job] = Succeeded(@)]
          \/ Held(w) /\ \E d \in 1..RetryTicks :
               row' = [row EXCEPT ![run[w].job] = Failed(@, run[w].attempts >= MaxAttempts, d)]
      BY <1>3 DEF RunStep, HandlerEnds, AssertLease, Complete, Fail, Crash
    <3> QED BY <1>0, <3>1 DEF Held
  <2>2. CASE row'[j] = row[j]
    <3>1. Holders(j)' \subseteq Holders(j)
      BY <1>3, <2>2, RunsKept, NoNewHands
    <3> QED BY <1>1, <2>2, <3>1, FewerHands
  <2>3. CASE Held(w) /\ run[w].job = j /\ row'[j] = Succeeded(row[j])
    <3>1. Holders(j) = {w} /\ row[j].state = "running"
      BY <2>3, HandsOf DEF Held
    <3>2. row'[j].state = "succeeded"
      BY <2>3, RowFields
    <3>3. Holders(j)' = {}
      BY <3>2 DEF Holders, Held
    <3>4. /\ Stage(row[j]) = "waiting" /\ Stage(row'[j]) = "done"
          /\ OneOf(Holders(j)) = w /\ OneOf(Holders(j)') = NoJob /\ w # NoJob
      BY <3>1, <3>2, <3>3, StageOf, OneOfIs
    <3>5. /\ Work[j] = [stage |-> "waiting", holder |-> w, cleanups |-> hookRuns[j]]
          /\ Work'[j] = [stage |-> "done", holder |-> NoJob, cleanups |-> hookRuns[j]]
      BY <1>1, <3>4 DEF Work
    <3>6. Promise!Finish(Work[j], Work'[j])
      BY <3>4, <3>5 DEF Promise!Finish, Promise!Free
    <3> QED BY <3>6 DEF Promise!Step
  <2>4. ASSUME row[j].state = "running", NEW d \in 1..RetryTicks,
               row'[j] = Failed(row[j], run[w].attempts >= MaxAttempts, d)
        PROVE  Promise!Step(j, Work[j], Work'[j])
    <3>1. \/ row'[j].state = "pending"
          \/ row'[j].state = "running" /\ row'[j].lease = 0
      BY <2>4 DEF Failed, Cols
    <3>2. Holders(j)' = {}
      BY <3>1 DEF Holders, Held
    <3>3. Stage(row'[j]) = Stage(row[j])
      BY <2>4, <3>1, StageOf
    <3> QED BY <1>1, <3>2, <3>3, FewerHands
  <2> QED BY <2>1, <2>2, <2>3, <2>4
<1>4. CASE Tick
  <2>1. row'[j] = Elapsed(row[j]) /\ run' = run
    BY <1>4 DEF Tick
  <2>2. row'[j].state = row[j].state /\ row'[j].token = row[j].token
    BY <2>1, RowFields
  <2>3. row'[j].lease > 0 => row[j].lease > 0
    <3>1. row[j].lease \in Nat
      BY <1>0 DEF Row, QueueAssumption
    <3> QED BY <2>1, <3>1, RowFields DEF Countdown
  <2>4. Holders(j)' \subseteq Holders(j)
    BY <2>1, <2>2, <2>3, NoNewHands
  <2> QED BY <1>1, <2>2, <2>4, FewerHands DEF Stage
<1>5. CASE UNCHANGED vars
  BY <1>1, <1>5, NoNewHands, FewerHands DEF vars
<1> QED BY <1>2, <1>3, <1>4, <1>5

\* The other components submit, withdraw and restart work.
LEMMA OthersMove ==
  ASSUME QueueAssumption, ScheduleAssumption, TypeOK, OneLiveRun, NEW j \in Job,
         NEW k \in Job, OtherComponents(k)
  PROVE  Promise!Step(j, Work[j], Work'[j])
<1>0. row \in [Job -> Row]
  BY DEF TypeOK
<1>1. /\ run' = run /\ hookRuns' = hookRuns
      /\ j # k => row'[j] = row[j]
  BY <1>0 DEF OtherComponents, Enqueue, CancelPending, Requeue
<1>2. CASE j # k
  BY <1>1, <1>2, NoNewHands, FewerHands
<1>3. CASE j = k
  <2>1. row'[j].state \in {"pending", "deleted"}
    BY <1>0, <1>3, RowFields DEF OtherComponents, Enqueue, CancelPending, Requeue
  <2>2. Holders(j)' = {} /\ OneOf(Holders(j)') = NoJob
    BY <2>1, OneOfIs DEF Holders, Held
  <2>3. /\ Work[j] = [stage |-> Stage(row[j]), holder |-> OneOf(Holders(j)),
                      cleanups |-> hookRuns[j]]
        /\ Work'[j] = [stage |-> Stage(row'[j]), holder |-> NoJob, cleanups |-> hookRuns[j]]
    BY <1>1, <2>2 DEF Work
  <2>4. row[j].state \in {"absent", "pending"} => OneOf(Holders(j)) = NoJob
    BY HandsOf, OneOfIs
  <2>5. CASE Enqueue(j, 0)
    <3>1. row[j].state = "absent" /\ row'[j].state = "pending"
      BY <1>0, <2>5, RowFields DEF Enqueue
    <3>2. Promise!Submit(Work[j], Work'[j])
      BY <2>3, <2>4, <3>1, StageOf DEF Promise!Submit, Promise!Idle
    <3> QED BY <3>2 DEF Promise!Step
  <2>6. CASE CancelPending(j)
    <3>1. row[j].state = "pending" /\ row'[j].state = "deleted"
      BY <1>0, <2>6, RowFields DEF CancelPending
    <3>2. Promise!Withdraw(Work[j], Work'[j])
      BY <2>3, <2>4, <3>1, StageOf DEF Promise!Withdraw, Promise!Idle
    <3> QED BY <3>2 DEF Promise!Step
  <2>7. CASE Requeue(j, 1)
    <3>1. row[j].state # "absent" /\ row'[j].state = "pending" /\ j \notin Hooked
      BY <1>0, <2>7, RowFields DEF Requeue, ScheduleAssumption
    <3>2. Stage(row[j]) # "absent"
      BY <3>1, StageOf DEF TypeOK, Row, RowState
    <3>3. /\ Work[j].stage # "absent"
          /\ Work'[j] = [stage |-> "waiting", holder |-> NoJob, cleanups |-> hookRuns[j]]
      BY <2>3, <3>1, <3>2, StageOf
    <3>4. Promise!Restart(j, Work[j], Work'[j])
      BY <2>3, <3>1, <3>3 DEF Promise!Restart, Promise!Free
    <3> QED BY <3>4 DEF Promise!Step
  <2> QED BY <1>3, <2>5, <2>6, <2>7 DEF OtherComponents
<1> QED BY <1>2, <1>3

\* One transaction of runOne() gives up one row, takes another and submits a third.
LEMMA RunOneMoves ==
  ASSUME QueueAssumption, TypeOK, TokensFenced, OneLiveRun, NEW j \in Job,
         NEW w \in Worker, NEW locked \in SUBSET Job, RunOne(w, locked)
  PROVE  Promise!Step(j, Work[j], Work'[j])
<1>0. /\ row[j] \in Row /\ run \in [Worker -> Run] /\ run[w].phase = "idle"
      /\ claims[j] \in Nat /\ LeaseTicks \in Nat \ {0} /\ NoJob \notin Job
  BY DEF TypeOK, RunOne, QueueAssumption
<1>1. PICK s \in Job \cup {NoJob}, c \in Job \cup {NoJob}, hookOk \in BOOLEAN :
        /\ SweepAndClaim(w, s, c, hookOk)
        /\ s \in Job => Exhausted(s)
        /\ c \in Job => Claimable(c)
        /\ ~(j = s /\ j = c)
        /\ j = s =>
             IF hookOk THEN row'[j] = Buried(row[j])
             ELSE row'[j] = HookRaised(row[j]) /\ j \in Hooked
        /\ j = c => row'[j] = Claimed(row[j], claims[j] + 1)
        /\ j # s /\ j # c =>
             row'[j] = IF QueuesSuccessor(c, j) THEN Queued(RecurTicks) ELSE row[j]
        /\ hookRuns'[j] = IF j = s /\ j \in Hooked /\ hookOk THEN hookRuns[j] + 1
                          ELSE hookRuns[j]
  BY RunOneDoes
<1>2. /\ \A v \in Worker \ {w} : run'[v] = run[v]
      /\ c = NoJob => run' = run
      /\ c # NoJob => /\ run'[w].phase # "idle" /\ run'[w].job = c
                      /\ run'[w].token = claims[c] + 1
  BY <1>0, <1>1 DEF SweepAndClaim, Started
<1>3. /\ Work[j] = [stage |-> Stage(row[j]), holder |-> OneOf(Holders(j)),
                    cleanups |-> hookRuns[j]]
      /\ Work'[j] = [stage |-> Stage(row'[j]), holder |-> OneOf(Holders(j)'),
                     cleanups |-> hookRuns'[j]]
  BY DEF Work
<1>4. CASE j = s
  <2>1. row[j].state = "running" /\ Holders(j) = {}
    BY <1>1, <1>4, HandsOf DEF Exhausted
  <2>2. CASE hookOk
    <3>1. row'[j].state = "failed"
      BY <1>1, <1>4, <2>2, RowFields
    <3>2. Holders(j)' = {}
      BY <3>1 DEF Holders, Held
    <3>3. /\ Stage(row[j]) = "waiting" /\ Stage(row'[j]) = "given_up"
          /\ OneOf(Holders(j)) = NoJob /\ OneOf(Holders(j)') = NoJob
      BY <2>1, <3>1, <3>2, StageOf, OneOfIs
    <3>4. hookRuns'[j] = IF j \in Hooked THEN hookRuns[j] + 1 ELSE hookRuns[j]
      BY <1>1, <1>4, <2>2
    <3>5. /\ Work[j] = [stage |-> "waiting", holder |-> NoJob, cleanups |-> hookRuns[j]]
          /\ Work'[j] = [stage |-> "given_up", holder |-> NoJob, cleanups |-> hookRuns'[j]]
      BY <1>3, <3>3
    <3>6. Promise!Idle(Work[j], "waiting")
      BY <3>5 DEF Promise!Idle
    <3>7. Promise!GiveUp(j, Work[j], Work'[j])
      BY <3>4, <3>5, <3>6 DEF Promise!GiveUp, Promise!Free
    <3> QED BY <3>7 DEF Promise!Step
  <2>3. CASE ~hookOk
    <3>1. row'[j].state = "running" /\ row'[j].lease = 0 /\ hookRuns'[j] = hookRuns[j]
      BY <1>1, <1>4, <2>3, RowFields
    <3>2. Holders(j)' = {}
      BY <3>1 DEF Holders, Held
    <3>3. Stage(row'[j]) = Stage(row[j])
      BY <2>1, <3>1, StageOf
    <3> QED BY <3>1, <3>2, <3>3, FewerHands
  <2> QED BY <2>2, <2>3
<1>5. CASE j = c
  <2>1. row[j].state \in {"pending", "running"} /\ Holders(j) = {}
    BY <1>1, <1>5, HandsOf DEF Claimable
  <2>2. /\ row'[j].state = "running" /\ row'[j].token = claims[j] + 1
        /\ row'[j].lease > 0 /\ hookRuns'[j] = hookRuns[j]
    BY <1>0, <1>1, <1>5, RowFields
  <2>3. \A v \in Worker \ {w} : run'[v].phase # "idle" /\ run'[v].job = j =>
          run'[v].token # row'[j].token
    <3>1. \A v \in Worker : run[v].phase # "idle" /\ run[v].job = j =>
            run[v].token \in 1..claims[j]
      BY DEF TokensFenced
    <3> QED BY <1>0, <1>2, <2>2, <3>1
  <2>4. run'[w].phase # "idle" /\ run'[w].job = j /\ run'[w].token = row'[j].token
    BY <1>0, <1>2, <1>5, <2>2
  <2>5. Holders(j)' = {w}
    BY <2>2, <2>3, <2>4 DEF Holders, Held
  <2>6. /\ Stage(row[j]) = "waiting" /\ Stage(row'[j]) = "waiting"
        /\ OneOf(Holders(j)) = NoJob /\ OneOf(Holders(j)') = w /\ w # NoJob
    BY <2>1, <2>2, <2>5, StageOf, OneOfIs
  <2>7. Promise!Take(Work[j], Work'[j])
    BY <1>3, <2>2, <2>6 DEF Promise!Take, Promise!Idle
  <2> QED BY <2>7 DEF Promise!Step
<1>6. CASE j # s /\ j # c /\ QueuesSuccessor(c, j)
  <2>1. row[j].state = "absent" /\ row'[j].state = "pending" /\ hookRuns'[j] = hookRuns[j]
    BY <1>1, <1>6, RowFields DEF QueuesSuccessor
  <2>2. Holders(j) = {} /\ Holders(j)' = {}
    BY <2>1 DEF Holders, Held
  <2>3. /\ Stage(row[j]) = "absent" /\ Stage(row'[j]) = "waiting"
        /\ OneOf(Holders(j)) = NoJob /\ OneOf(Holders(j)') = NoJob
    BY <2>1, <2>2, StageOf, OneOfIs
  <2>4. Promise!Submit(Work[j], Work'[j])
    BY <1>3, <2>1, <2>3 DEF Promise!Submit, Promise!Idle
  <2> QED BY <2>4 DEF Promise!Step
<1>7. CASE j # s /\ j # c /\ ~QueuesSuccessor(c, j)
  <2>1. row'[j] = row[j] /\ hookRuns'[j] = hookRuns[j]
    BY <1>1, <1>7
  <2>2. \A v \in Worker : run'[v].phase # "idle" /\ run'[v].job = j => run'[v] = run[v]
    BY <1>2, <1>7
  <2>3. Holders(j)' \subseteq Holders(j)
    BY <2>1, <2>2, NoNewHands
  <2> QED BY <2>1, <2>3, FewerHands
<1> QED BY <1>4, <1>5, <1>6, <1>7

\* What the rows, leases, tokens and runners do is a behaviour of LeasedWork: one pair of
\* hands per piece, finished by those hands only, given up with its cleanup and only when
\* nobody holds it (runner.ts runOne, finishExhaustion and fail()).
THEOREM QueueKeepsPromise == Spec => KeepsPromise
<1>1. Init /\ QueueAssumption => Promise!LWInit
  <2> SUFFICES ASSUME Init, QueueAssumption PROVE Promise!LWInit
    OBVIOUS
  <2>1. PICK history \in Histories :
          row = [j \in Job |-> IF j \in history THEN Settled
                              ELSE IF j \in Scheduled THEN Queued(0) ELSE Absent]
    BY DEF Init
  <2>2. \A j \in Job : /\ Holders(j) = {} /\ hookRuns[j] = 0
                       /\ row[j].state \in {"absent", "pending", "succeeded"}
    BY <2>1, RowFields DEF Init, Holders, Held, Idle
  <2>3. \A j \in Job : OneOf(Holders(j)) = NoJob
    BY <2>2 DEF OneOf
  <2>4. \A j \in Job : Stage(row[j]) \in {"absent", "waiting", "done"}
    BY <2>2, StageOf
  <2> QED BY <2>2, <2>3, <2>4 DEF Work, Promise!LWInit
<1>2. /\ QueueAssumption /\ ScheduleAssumption
      /\ TypeOK /\ TypeOK' /\ TokensFenced /\ OneLiveRun /\ [Next]_vars
      => [Promise!LWNext]_Work
  <2> SUFFICES ASSUME QueueAssumption, ScheduleAssumption,
                      TypeOK, TypeOK', TokensFenced, OneLiveRun, [Next]_vars
               PROVE  Promise!LWNext
    OBVIOUS
  <2>1. Work' \in [Job -> Promise!Piece]
    BY WorkTypedNext
  <2>2. \A j \in Job : Promise!Step(j, Work[j], Work'[j])
    <3> SUFFICES ASSUME NEW j \in Job PROVE Promise!Step(j, Work[j], Work'[j])
      OBVIOUS
    <3>1. ASSUME NEW k \in Job, OtherComponents(k) PROVE Promise!Step(j, Work[j], Work'[j])
      BY <3>1, OthersMove
    <3>2. ASSUME NEW w \in Worker, NEW locked \in SUBSET Outstanding, RunOne(w, locked)
          PROVE  Promise!Step(j, Work[j], Work'[j])
      BY <3>2, RunOneMoves DEF Outstanding
    <3>3. CASE (\E w \in Worker : Heartbeat(w) \/ RunStep(w) \/ Crash(w)) \/ Tick \/ UNCHANGED vars
      BY <3>3, HoldersMove
    <3> QED BY <3>1, <3>2, <3>3 DEF Next, RunnerStep
  <2> QED BY <2>1, <2>2 DEF Promise!LWNext
<1> QED BY <1>1, <1>2, TypeCorrect, TokensStayFenced, AtMostOneLiveRun, QueueAssumption,
           ScheduleAssumption, PTL DEF Spec, KeepsPromise, Promise!LWSpec

-----------------------------------------------------------------------------
(* The organization.                                                        *)

\* The rows of what Organization keeps.
MemberRow == [state : {"absent", "active", "disabled"}, role : {"owner"} \union O!Assignable]
PreviewRow ==
  [state : {"none", "open", "consumed", "lapsed"}, actor : Member \union {NoMember},
   target : Member \union {NoMember}, current : BOOLEAN, same : BOOLEAN,
   held : [Room -> O!RoomRole]]
RequestRow ==
  [kind : {"idle", "role", "state", "assign", "dry-run", "impact", "transfer", "applied"},
   actor : Member \union {NoMember}, target : Member \union {NoMember},
   value : {"active", "disabled"} \union O!RoomRole \union O!Assignable,
   preview : Preview \union {NoPreview}]
DialogRow == [by : Member \union {NoMember}, for : Member \union {NoMember},
              impact : Preview \union {NoPreview}, pending : BOOLEAN]

OrganizationTyped ==
  /\ member \in [Member -> MemberRow] /\ invitation \in [Member -> {"none"} \union O!Assignable]
  /\ assigned \in [Member -> [Room -> O!RoomRole]] /\ newcomers \subseteq Member
  /\ preview \in [Preview -> PreviewRow] /\ request \in [Request -> RequestRow]
  /\ dialog \in DialogRow

\* One member at most is an Owner, and an active one; where there are members, or invitations,
\* there is one.  Only members that are no administrators have rooms.
OneOwner ==
  /\ \A m \in Member : member[m].role = "owner" => member[m].state = "active"
  /\ \A m, o \in Member : member[m].role = "owner" /\ member[o].role = "owner" => m = o
Governed ==
  \A m \in Member : member[m].state # "absent" \/ invitation[m] # "none" =>
    \E o \in Member : member[o].role = "owner"
RoomsSound ==
  \A m \in Member : member[m].role # "member" \/ member[m].state = "absent" =>
    \A r \in Room : assigned[m][r] = "none"
Governance == OneOwner /\ Governed /\ RoomsSound

\* A mutation is about a member, who does not become absent again; a transfer and its dry run
\* name both members.
RequestSound(x) ==
  /\ x.kind \in {"role", "state", "assign"} =>
       x.target \in Member /\ member[x.target].state # "absent"
  /\ x.kind = "role" => x.value \in O!Assignable
  /\ x.kind = "state" => x.value \in {"active", "disabled"}
  /\ x.kind = "assign" => x.value \in O!RoomRole
  /\ x.kind \in {"dry-run", "transfer"} => x.actor \in Member /\ x.target \in Member
  /\ x.kind = "transfer" => x.preview \in Preview

OrganizationInv ==
  /\ OrganizationTyped /\ Governance
  /\ \A q \in Request : RequestSound(request[q])
  /\ dialog.for # NoMember => dialog.by \in Member

\* The invariant says what the run checks.
LEMMA OrganizationPromise == ASSUME OrganizationInv PROVE OrganizationSound
<1>1. O!TypeOK
  BY DEF OrganizationInv, OrganizationTyped, MemberRow, PreviewRow, RequestRow, DialogRow, O!TypeOK
<1>2. ASSUME NEW m \in Member, member[m].state # "absent"
      PROVE  O!Cardinality({o \in Member : O!IsOwner(o)}) = 1
  <2>1. PICK o \in Member : member[o].role = "owner"
    BY <1>2 DEF OrganizationInv, Governance, Governed
  <2>2. {p \in Member : O!IsOwner(p)} = {o}
    BY <2>1 DEF OrganizationInv, Governance, OneOwner, O!IsOwner
  <2>3. \A set : O!Cardinality(set) = Cardinality(set)
    BY DEF O!Cardinality, Cardinality
  <2> QED BY <2>2, <2>3, FS_Singleton
<1>3. ASSUME NEW m \in Member, member[m].role # "member"
      PROVE  O!Holds(m) = {}
  BY <1>3 DEF OrganizationInv, Governance, RoomsSound, O!Holds
<1> QED BY <1>1, <1>2, <1>3 DEF OrganizationSound, O!OrganizationSound

LEMMA OrganizationRows ==
  /\ O!Idle \in RequestRow /\ RequestSound(O!Idle) /\ O!Closed \in DialogRow
  /\ O!Closed.for = NoMember
  /\ O!Nothing \in [Room -> O!RoomRole] /\ \A r \in Room : O!Nothing[r] = "none"
  /\ \A state \in {"none", "consumed", "lapsed"} : O!Ended(state) \in PreviewRow
<1>1. O!Nothing \in [Room -> O!RoomRole] /\ \A r \in Room : O!Nothing[r] = "none"
  BY DEF O!Nothing, O!RoomRole
<1>2. O!Idle \in RequestRow /\ RequestSound(O!Idle)
  BY DEF O!Idle, RequestRow, O!RoomRole, RequestSound
<1>3. O!Closed \in DialogRow /\ O!Closed.for = NoMember
  BY DEF O!Closed, DialogRow
<1>4. \A state \in {"none", "consumed", "lapsed"} : O!Ended(state) \in PreviewRow
  BY <1>1 DEF O!Ended, PreviewRow
<1> QED BY <1>1, <1>2, <1>3, <1>4

LEMMA OrganizationInitially == ASSUME O!Init PROVE OrganizationInv
<1>1. [state |-> "absent", role |-> "member"] \in MemberRow
  BY DEF MemberRow, O!Assignable
<1>2. OrganizationTyped
  BY <1>1, OrganizationRows DEF O!Init, OrganizationTyped
<1>3. \A m \in Member : member[m].state = "absent" /\ member[m].role = "member"
  BY DEF O!Init
<1>4. Governance
  BY <1>3, OrganizationRows DEF O!Init, Governance, OneOwner, Governed, RoomsSound
<1> QED BY <1>2, <1>4, OrganizationRows DEF O!Init, OrganizationInv

\* A request moves on, and what it now is about is there.
LEMMA RequestMoves ==
  ASSUME OrganizationInv, NEW q \in Request, NEW x \in RequestRow, RequestSound(x),
         request' = [request EXCEPT ![q] = x],
         \A m \in Member : member[m].state # "absent" => member'[m].state # "absent"
  PROVE  request' \in [Request -> RequestRow] /\ \A p \in Request : RequestSound(request[p])'
<1>1. request' \in [Request -> RequestRow]
  BY DEF OrganizationInv, OrganizationTyped
<1>2. \A p \in Request : RequestSound(request'[p])
  BY DEF OrganizationInv, OrganizationTyped
<1>3. \A p \in Request : RequestSound(request[p])'
  BY <1>2 DEF RequestSound
<1> QED BY <1>1, <1>3

\* What a new revision makes of requests and previews.
LEMMA DroppedIsSound ==
  ASSUME OrganizationInv, NEW changed
  PROVE  /\ O!Dropped(changed) \in [Request -> RequestRow]
         /\ \A q \in Request : RequestSound(O!Dropped(changed)[q])
         /\ \A q \in Request : request[q].kind \notin {"role", "state"} =>
              O!Dropped(changed)[q] = request[q]
BY OrganizationRows DEF OrganizationInv, OrganizationTyped, O!Dropped

LEMMA OutdatedIsTyped ==
  ASSUME OrganizationInv, NEW changed
  PROVE  O!Outdated(changed) \in [Preview -> PreviewRow]
<1>1. \A v \in Preview : preview[v] \in PreviewRow
  BY DEF OrganizationInv, OrganizationTyped
<1>2. \A v \in Preview : [preview[v] EXCEPT !.current = FALSE] \in PreviewRow
  BY <1>1 DEF PreviewRow
<1> QED BY <1>1, <1>2 DEF O!Outdated

\* Requests whose list is new are sound where everybody stays.
LEMMA RequestsStand ==
  ASSUME \A q \in Request : RequestSound(request'[q]),
         \A m \in Member : member[m].state # "absent" => member'[m].state # "absent"
  PROVE  \A q \in Request : RequestSound(request[q])'
BY DEF RequestSound

\* The members, the invitations and the rooms stay as they are.
LEMMA GovernanceStays ==
  ASSUME OrganizationInv, UNCHANGED <<member, invitation, assigned>>
  PROVE  Governance'
BY DEF OrganizationInv, Governance, OneOwner, Governed, RoomsSound

LEMMA ProvisionKeeps == ASSUME OrganizationInv, O!ProvisionNext PROVE OrganizationInv'
<1>1. PICK m \in Member :
        \/ O!ResolveOidcMember(m) \/ O!ClaimFirstOwner(m) \/ O!RevokeMemberInvitation(m)
        \/ \E a \in Member, role \in O!Assignable : O!InviteMember(a, m, role)
  BY DEF O!ProvisionNext
<1>2. OrganizationTyped /\ Governance
  BY DEF OrganizationInv
<1>3. UNCHANGED <<assigned, preview, request, dialog>>
  BY <1>1 DEF O!ResolveOidcMember, O!ClaimFirstOwner, O!RevokeMemberInvitation, O!InviteMember
<1>4. SUFFICES ASSUME \/ UNCHANGED member
                      \/ \E role \in {"owner"} \union O!Assignable : O!Provisioned(m, role),
                      newcomers' \subseteq Member,
                      invitation' \in [Member -> {"none"} \union O!Assignable], Governance'
               PROVE  OrganizationInv'
  <2>1. CASE O!ResolveOidcMember(m)
    <3>1. invitation[m] # "none" => invitation[m] \in O!Assignable
      BY <1>2 DEF OrganizationTyped
    <3>2. /\ \/ UNCHANGED <<member, invitation>>
             \/ /\ invitation[m] \in O!Assignable /\ member[m].state = "absent"
                /\ O!Provisioned(m, invitation[m])
                /\ invitation' = [invitation EXCEPT ![m] = "none"]
          /\ newcomers' \subseteq Member
      BY <1>2, <2>1, <3>1 DEF O!ResolveOidcMember, OrganizationTyped
    <3>3. CASE UNCHANGED <<member, invitation>>
      BY <1>2, <1>3, <1>4, <3>2, <3>3, GovernanceStays DEF OrganizationTyped
    <3>4. CASE /\ invitation[m] \in O!Assignable /\ member[m].state = "absent"
               /\ O!Provisioned(m, invitation[m])
               /\ invitation' = [invitation EXCEPT ![m] = "none"]
      <4>1. /\ invitation' \in [Member -> {"none"} \union O!Assignable]
            /\ \A o \in Member : invitation'[o] \in {"none", invitation[o]}
        BY <1>2, <3>4 DEF OrganizationTyped
      <4>2. /\ member'[m].state = "active" /\ member'[m].role # "owner"
            /\ \A o \in Member \ {m} : member'[o] = member[o]
        BY <1>2, <3>4 DEF OrganizationTyped, O!Provisioned, O!Assignable
      <4>3. invitation[m] # "none" /\ member[m].role # "owner"
        BY <1>2, <3>4 DEF Governance, OneOwner, O!Assignable
      <4>4. PICK o \in Member : member[o].role = "owner"
        BY <1>2, <4>3 DEF Governance, Governed
      <4>5. o # m /\ member'[o].role = "owner"
        BY <4>2, <4>3, <4>4
      <4>6. OneOwner'
        BY <1>2, <4>2 DEF Governance, OneOwner
      <4>7. Governed'
        BY <4>5 DEF Governed
      <4>8. RoomsSound'
        BY <1>2, <1>3, <3>4, <4>2 DEF Governance, RoomsSound
      <4> QED BY <1>4, <3>2, <3>4, <4>1, <4>6, <4>7, <4>8 DEF Governance
    <3> QED BY <3>2, <3>3, <3>4
  <2>2. CASE O!ClaimFirstOwner(m)
    <3>1. newcomers' \subseteq Member /\ invitation' = invitation
      BY <1>2, <2>2 DEF O!ClaimFirstOwner, OrganizationTyped
    <3>2. CASE ~O!Claimable(m)
      BY <1>2, <1>3, <1>4, <2>2, <3>1, <3>2, GovernanceStays
         DEF O!ClaimFirstOwner, OrganizationTyped
    <3>3. CASE O!Claimable(m)
      <4>1. /\ member'[m].state = "active" /\ member'[m].role = "owner"
            /\ \A o \in Member \ {m} : member'[o] = member[o]
            /\ O!Provisioned(m, "owner")
        BY <1>2, <2>2, <3>3 DEF O!ClaimFirstOwner, O!Provisioned, OrganizationTyped
      <4>2. \A o \in Member : member[o].role # "owner"
        BY <1>2, <3>3 DEF O!Claimable, O!IsOwner, Governance, OneOwner
      <4>3. OneOwner' /\ Governed'
        BY <4>1, <4>2 DEF OneOwner, Governed
      <4>4. RoomsSound'
        BY <1>2, <1>3, <3>3, <4>1 DEF Governance, RoomsSound, O!Claimable
      <4> QED BY <1>2, <1>4, <3>1, <4>1, <4>3, <4>4 DEF Governance, OrganizationTyped
    <3> QED BY <3>2, <3>3
  <2>3. CASE \/ O!RevokeMemberInvitation(m)
             \/ \E a \in Member, role \in O!Assignable : O!InviteMember(a, m, role)
    <3>1. member' = member /\ newcomers' = newcomers
      BY <2>3 DEF O!RevokeMemberInvitation, O!InviteMember
    <3>2. PICK role \in {"none"} \union O!Assignable :
            /\ invitation' = [invitation EXCEPT ![m] = role]
            /\ role = "none" \/ \E a \in Member : member[a].state # "absent"
      BY <2>3 DEF O!RevokeMemberInvitation, O!InviteMember, O!Administers
    <3>3. /\ invitation' \in [Member -> {"none"} \union O!Assignable]
          /\ \A o \in Member : invitation'[o] = invitation[o] \/ (o = m /\ invitation'[o] = role)
      BY <1>2, <3>2 DEF OrganizationTyped
    <3>4. Governed'
      BY <1>2, <3>1, <3>2, <3>3 DEF Governance, Governed
    <3>5. OneOwner' /\ RoomsSound'
      BY <1>2, <1>3, <3>1 DEF Governance, OneOwner, RoomsSound
    <3> QED BY <1>2, <1>4, <3>1, <3>3, <3>4, <3>5 DEF Governance, OrganizationTyped
  <2> QED BY <1>1, <2>1, <2>2, <2>3
<1>5. \A role \in {"owner"} \union O!Assignable : [state |-> "active", role |-> role] \in MemberRow
  BY DEF MemberRow
<1>6. member' \in [Member -> MemberRow]
  BY <1>2, <1>4, <1>5 DEF OrganizationTyped, O!Provisioned
<1>7. \A o \in Member : member[o].state # "absent" => member'[o].state # "absent"
  BY <1>2, <1>4 DEF OrganizationTyped, O!Provisioned
<1>8. \A q \in Request : RequestSound(request[q])'
  BY <1>3, <1>7, RequestsStand DEF OrganizationInv
<1> QED BY <1>2, <1>3, <1>4, <1>6, <1>8 DEF OrganizationInv, OrganizationTyped

\* A request is admitted, refused, or gets its answer.
LEMMA RequestKeeps ==
  ASSUME OrganizationInv, NEW q \in Request, NEW x \in RequestRow, RequestSound(x),
         request' = [request EXCEPT ![q] = x],
         UNCHANGED <<member, invitation, assigned, newcomers>>,
         preview' \in [Preview -> PreviewRow], dialog' \in DialogRow,
         dialog'.for # NoMember => dialog'.by \in Member
  PROVE  OrganizationInv'
<1>1. Governance'
  BY GovernanceStays
<1>2. request' \in [Request -> RequestRow] /\ \A p \in Request : RequestSound(request[p])'
  BY RequestMoves
<1> QED BY <1>1, <1>2 DEF OrganizationInv, OrganizationTyped

LEMMA AdmissionKeeps ==
  ASSUME OrganizationInv, NEW q \in Request, O!AdmitMutation(q) \/ O!RefuseMutation(q)
  PROVE  OrganizationInv'
<1>1. OrganizationTyped
  BY DEF OrganizationInv
<1>2. UNCHANGED <<member, invitation, assigned, newcomers, preview, dialog>>
  BY DEF O!AdmitMutation, O!Admit, O!RefuseMutation
<1>3. PICK x \in RequestRow : RequestSound(x) /\ request' = [request EXCEPT ![q] = x]
  <2>1. CASE O!RefuseMutation(q)
    BY <2>1, OrganizationRows DEF O!RefuseMutation
  <2>2. CASE O!AdmitMutation(q)
    <3>1. PICK a \in Member, m \in Member, kind \in {"role", "state", "assign"},
               value \in {"active", "disabled"} \union O!RoomRole \union O!Assignable :
            /\ O!Admit(q, kind, a, m, value)
            /\ kind = "role" => value \in O!Assignable
            /\ kind = "state" => value \in {"active", "disabled"}
            /\ kind = "assign" => value \in O!RoomRole
      <4>1. CASE \E a, m \in Member, role \in O!Assignable : O!Admit(q, "role", a, m, role)
        BY <4>1
      <4>2. CASE \E a, m \in Member, state \in {"active", "disabled"} :
                   O!Admit(q, "state", a, m, state)
        BY <4>2
      <4>3. CASE \E a, m \in Member, role \in {"none", "manager", "contributor"} :
                   O!Admit(q, "assign", a, m, role)
        BY <4>3 DEF O!RoomRole
      <4> QED BY <2>2, <4>1, <4>2, <4>3 DEF O!AdmitMutation
    <3>2. PICK x : x = [O!Idle EXCEPT !.kind = kind, !.target = m, !.value = value]
      OBVIOUS
    <3>3. x \in RequestRow /\ x.kind = kind /\ x.target = m /\ x.value = value
      BY <3>2, OrganizationRows DEF RequestRow
    <3>4. RequestSound(x)
      BY <3>1, <3>3 DEF O!Admit, RequestSound
    <3>5. request' = [request EXCEPT ![q] = x]
      BY <3>1, <3>2 DEF O!Admit
    <3> QED BY <3>3, <3>4, <3>5
  <2> QED BY <2>1, <2>2
<1> QED BY <1>1, <1>2, <1>3, RequestKeeps DEF OrganizationInv, OrganizationTyped

\* The role or the state of a member that is no Owner changes.
LEMMA MemberKeeps ==
  ASSUME OrganizationInv, NEW q \in Request, O!SetMemberGlobalRole(q) \/ O!SetMemberState(q)
  PROVE  OrganizationInv'
<1>1. OrganizationTyped /\ Governance /\ RequestSound(request[q])
  BY DEF OrganizationInv
<1>2. PICK m : m = request[q].target
  OBVIOUS
<1>3. /\ m \in Member /\ member[m].state # "absent" /\ member[m].role # "owner"
      /\ UNCHANGED <<invitation, newcomers, dialog>>
      /\ request' = O!Dropped({m}) /\ preview' = O!Outdated({m})
  BY <1>1, <1>2 DEF O!SetMemberGlobalRole, O!SetMemberState, RequestSound
<1>4. \/ /\ O!SetMemberGlobalRole(q) /\ request[q].value \in O!Assignable
         /\ member' = [member EXCEPT ![m] = [state |-> member[m].state,
                                              role |-> request[q].value]]
      \/ /\ O!SetMemberState(q) /\ request[q].value \in {"active", "disabled"}
         /\ member' = [member EXCEPT ![m] = [state |-> request[q].value,
                                              role |-> member[m].role]]
  <2>1. member[m] \in MemberRow
    BY <1>1, <1>3 DEF OrganizationTyped
  <2>2. CASE O!SetMemberGlobalRole(q)
    <3>1. request[q].value \in O!Assignable
      BY <1>1, <2>2 DEF O!SetMemberGlobalRole, RequestSound
    <3>2. member' = [member EXCEPT ![m] = [member[m] EXCEPT !.role = request[q].value]]
      BY <1>2, <2>2 DEF O!SetMemberGlobalRole
    <3>3. [member[m] EXCEPT !.role = request[q].value]
            = [state |-> member[m].state, role |-> request[q].value]
      BY <2>1 DEF MemberRow
    <3> QED BY <2>2, <3>1, <3>2, <3>3
  <2>3. CASE O!SetMemberState(q)
    <3>1. request[q].value \in {"active", "disabled"}
      BY <1>1, <2>3 DEF O!SetMemberState, RequestSound
    <3>2. member' = [member EXCEPT ![m] = [member[m] EXCEPT !.state = request[q].value]]
      BY <1>2, <2>3 DEF O!SetMemberState
    <3>3. [member[m] EXCEPT !.state = request[q].value]
            = [state |-> request[q].value, role |-> member[m].role]
      BY <2>1 DEF MemberRow
    <3> QED BY <2>3, <3>1, <3>2, <3>3
  <2> QED BY <2>2, <2>3
<1>5. /\ member' \in [Member -> MemberRow] /\ member'[m].state # "absent"
      /\ member'[m].role # "owner"
      /\ \A o \in Member \ {m} : member'[o] = member[o]
      /\ member'[m].role # "member" =>
           \/ O!SetMemberGlobalRole(q) /\ request[q].value # "member"
           \/ O!SetMemberState(q) /\ member[m].role # "member"
  BY <1>1, <1>3, <1>4 DEF OrganizationTyped, MemberRow, O!Assignable
<1>6. /\ assigned' \in [Member -> [Room -> O!RoomRole]]
      /\ \A o \in Member \ {m} : assigned'[o] = assigned[o]
      /\ member'[m].role # "member" => \A r \in Room : assigned'[m][r] = "none"
  <2>1. CASE O!SetMemberState(q)
    BY <1>1, <1>3, <1>4, <1>5, <2>1
       DEF O!SetMemberState, OrganizationTyped, Governance, RoomsSound
  <2>2. CASE O!SetMemberGlobalRole(q)
    <3>1. assigned' = assigned \/ assigned' = [assigned EXCEPT ![m] = O!Nothing]
      BY <1>2, <2>2 DEF O!SetMemberGlobalRole, O!Superseded
    <3>2. request[q].value # "member" => assigned' = [assigned EXCEPT ![m] = O!Nothing]
      BY <1>2, <2>2 DEF O!SetMemberGlobalRole, O!Superseded
    <3>3. ~O!SetMemberState(q)
      BY <2>2 DEF O!SetMemberGlobalRole, O!SetMemberState
    <3> QED BY <1>1, <1>3, <1>5, <3>1, <3>2, <3>3, OrganizationRows DEF OrganizationTyped
  <2> QED BY <1>4, <2>1, <2>2
<1>7. OneOwner' /\ Governed'
  <2>1. OneOwner'
    BY <1>1, <1>5 DEF Governance, OneOwner
  <2>2. PICK o \in Member : member[o].role = "owner"
    BY <1>1, <1>3 DEF Governance, Governed
  <2>3. member'[o].role = "owner"
    BY <1>3, <1>5, <2>2
  <2> QED BY <2>1, <2>3 DEF Governed
<1>8. RoomsSound'
  BY <1>1, <1>5, <1>6 DEF Governance, RoomsSound
<1>9. preview' \in [Preview -> PreviewRow] /\ request' \in [Request -> RequestRow]
  BY <1>3, DroppedIsSound, OutdatedIsTyped
<1>10. \A p \in Request : RequestSound(request[p])'
  BY <1>3, <1>5, DroppedIsSound, RequestsStand
<1> QED BY <1>1, <1>3, <1>5, <1>6, <1>7, <1>8, <1>9, <1>10
        DEF OrganizationInv, OrganizationTyped, Governance

LEMMA AssignmentKeeps ==
  ASSUME OrganizationInv, NEW q \in Request, NEW r \in Room, O!ApplyRoomAssignments(q, r)
  PROVE  OrganizationInv'
<1>1. OrganizationTyped /\ Governance /\ RequestSound(request[q])
  BY DEF OrganizationInv
<1>2. PICK m : m = request[q].target
  OBVIOUS
<1>3. PICK role : role = request[q].value
  OBVIOUS
<1>4. /\ m \in Member /\ role \in O!RoomRole
      /\ member[m].state = "active" /\ member[m].role = "member"
      /\ UNCHANGED <<member, invitation, newcomers, dialog>>
      /\ request' = [request EXCEPT ![q] = O!Idle]
      /\ assigned' = [assigned EXCEPT ![m][r] = role]
  BY <1>1, <1>2, <1>3 DEF O!ApplyRoomAssignments, RequestSound
<1>5. PICK kept \in BOOLEAN :
        preview' = [v \in Preview |->
          IF preview[v].target = m THEN [preview[v] EXCEPT !.same = @ /\ kept] ELSE preview[v]]
  BY <1>2 DEF O!ApplyRoomAssignments
<1>6. preview' \in [Preview -> PreviewRow]
  <2>1. \A v \in Preview : preview[v] \in PreviewRow
    BY <1>1 DEF OrganizationTyped
  <2>2. \A v \in Preview : [preview[v] EXCEPT !.same = @ /\ kept] \in PreviewRow
    BY <2>1 DEF PreviewRow
  <2> QED BY <1>5, <2>1, <2>2
<1>7. /\ assigned' \in [Member -> [Room -> O!RoomRole]]
      /\ \A o \in Member \ {m} : assigned'[o] = assigned[o]
  BY <1>1, <1>4 DEF OrganizationTyped
<1>8. Governance'
  BY <1>1, <1>4, <1>7 DEF Governance, OneOwner, Governed, RoomsSound
<1>9. request' \in [Request -> RequestRow] /\ \A p \in Request : RequestSound(request[p])'
  BY <1>4, RequestMoves, OrganizationRows
<1> QED BY <1>1, <1>4, <1>6, <1>7, <1>8, <1>9 DEF OrganizationInv, OrganizationTyped

\* The dialog, and what it asks for.
LEMMA DialogKeeps ==
  ASSUME OrganizationInv, NEW q \in Request,
         \/ \E o, m \in Member : O!ReviewTransfer(q, o, m)
         \/ \E v \in Preview : O!DryRunOwnershipTransfer(q, v)
         \/ O!ReceiveImpact(q) \/ O!ApplyTransfer(q) \/ O!TransferFails(q) \/ O!Transferred(q)
  PROVE  OrganizationInv'
<1>1. /\ OrganizationTyped /\ RequestSound(request[q])
      /\ request[q] \in RequestRow /\ dialog \in DialogRow
      /\ dialog.for # NoMember => dialog.by \in Member
  BY DEF OrganizationInv, OrganizationTyped
<1>2. SUFFICES ASSUME preview' \in [Preview -> PreviewRow], dialog' \in DialogRow,
                      dialog'.for # NoMember => dialog'.by \in Member,
                      NEW x \in RequestRow, RequestSound(x), request' = [request EXCEPT ![q] = x]
               PROVE  OrganizationInv'
  <2>1. CASE \E o, m \in Member : O!ReviewTransfer(q, o, m)
    <3>1. PICK o \in Member, m \in Member : O!ReviewTransfer(q, o, m)
      BY <2>1
    <3>2. PICK x : x = [O!Idle EXCEPT !.kind = "dry-run", !.actor = o, !.target = m]
      OBVIOUS
    <3>3. x \in RequestRow /\ x.kind = "dry-run" /\ x.actor = o /\ x.target = m
      BY <3>2, OrganizationRows DEF RequestRow
    <3>4. RequestSound(x)
      BY <3>3 DEF RequestSound
    <3>5. /\ dialog' = [O!Closed EXCEPT !.by = o, !.for = m]
          /\ request' = [request EXCEPT ![q] = x] /\ preview' = preview
      BY <3>1, <3>2 DEF O!ReviewTransfer
    <3>6. dialog' \in DialogRow /\ dialog'.by \in Member
      BY <3>5, OrganizationRows DEF DialogRow
    <3> QED BY <1>1, <1>2, <3>3, <3>4, <3>5, <3>6 DEF OrganizationTyped
  <2>2. CASE \E v \in Preview : O!DryRunOwnershipTransfer(q, v)
    <3>1. PICK v \in Preview : O!DryRunOwnershipTransfer(q, v)
      BY <2>2
    <3>2. request[q].actor \in Member /\ request[q].target \in Member
      BY <1>1, <3>1 DEF O!DryRunOwnershipTransfer, RequestSound
    <3>3. PICK reviewed : reviewed = [state |-> "open", actor |-> request[q].actor,
                              target |-> request[q].target, current |-> TRUE, same |-> TRUE,
                              held |-> assigned[request[q].target]]
      OBVIOUS
    <3>4. reviewed \in PreviewRow
      BY <1>1, <3>2, <3>3 DEF PreviewRow, OrganizationTyped
    <3>5. preview' = [preview EXCEPT ![v] = reviewed] /\ dialog' = dialog
      BY <3>1, <3>3 DEF O!DryRunOwnershipTransfer
    <3>6. PICK x : x = [request[q] EXCEPT !.kind = "impact", !.preview = v]
      OBVIOUS
    <3>7. x \in RequestRow /\ x.kind = "impact" /\ RequestSound(x)
      BY <1>1, <3>6 DEF RequestRow, RequestSound
    <3>8. request' = [request EXCEPT ![q] = x]
      <4>1. request' = [request EXCEPT ![q].kind = "impact", ![q].preview = v]
        BY <3>1 DEF O!DryRunOwnershipTransfer
      <4> QED BY <1>1, <3>6, <4>1 DEF OrganizationTyped
    <3>9. preview' \in [Preview -> PreviewRow]
      BY <1>1, <3>4, <3>5 DEF OrganizationTyped
    <3> QED BY <1>1, <1>2, <3>5, <3>7, <3>8, <3>9
  <2>3. CASE O!ReceiveImpact(q)
    <3>1. dialog' = [dialog EXCEPT !.impact = request[q].preview] /\ preview' = preview
      BY <2>3 DEF O!ReceiveImpact
    <3>2. dialog' \in DialogRow /\ dialog'.for = dialog.for /\ dialog'.by = dialog.by
      BY <1>1, <3>1 DEF DialogRow, RequestRow
    <3> QED BY <1>1, <1>2, <2>3, <3>1, <3>2, OrganizationRows DEF O!ReceiveImpact, OrganizationTyped
  <2>4. CASE O!ApplyTransfer(q)
    <3>1. dialog' = [dialog EXCEPT !.pending = TRUE] /\ preview' = preview
      BY <2>4 DEF O!ApplyTransfer
    <3>2. dialog' \in DialogRow /\ dialog'.for = dialog.for /\ dialog'.by = dialog.by
      BY <1>1, <3>1 DEF DialogRow
    <3>3. dialog.for \in Member /\ dialog.by \in Member /\ dialog.impact \in Preview
      BY <1>1, <2>4 DEF O!ApplyTransfer, DialogRow
    <3>4. PICK x : x = [kind |-> "transfer", actor |-> dialog.by, target |-> dialog.for,
                        value |-> "none", preview |-> dialog.impact]
      OBVIOUS
    <3>5. x \in RequestRow /\ RequestSound(x) /\ request' = [request EXCEPT ![q] = x]
      BY <2>4, <3>3, <3>4 DEF RequestRow, RequestSound, O!RoomRole, O!ApplyTransfer
    <3> QED BY <1>1, <1>2, <3>1, <3>2, <3>5 DEF OrganizationTyped
  <2>5. CASE O!TransferFails(q)
    <3>1. PICK impact \in {NoPreview, dialog.impact} :
            dialog' = [dialog EXCEPT !.pending = FALSE, !.impact = impact]
      BY <1>1, <2>5 DEF O!TransferFails
    <3>2. dialog' \in DialogRow /\ dialog'.for = dialog.for /\ dialog'.by = dialog.by
      BY <1>1, <3>1 DEF DialogRow
    <3> QED BY <1>1, <1>2, <2>5, <3>2, OrganizationRows DEF O!TransferFails, OrganizationTyped
  <2>6. CASE O!Transferred(q)
    BY <1>1, <1>2, <2>6, OrganizationRows DEF O!Transferred, OrganizationTyped
  <2> QED BY <2>1, <2>2, <2>3, <2>4, <2>5, <2>6
<1>3. UNCHANGED <<member, invitation, assigned, newcomers>>
  BY DEF O!ReviewTransfer, O!DryRunOwnershipTransfer, O!ReceiveImpact, O!ApplyTransfer,
     O!TransferFails, O!Transferred
<1> QED BY <1>2, <1>3, RequestKeeps

LEMMA DialogEnds ==
  ASSUME OrganizationInv, O!CancelTransfer \/ \E v \in Preview : O!PreviewLapses(v)
  PROVE  OrganizationInv'
<1>1. OrganizationTyped /\ \A q \in Request : RequestSound(request[q])
  BY DEF OrganizationInv
<1>2. /\ UNCHANGED <<member, invitation, assigned, newcomers, request>>
      /\ \/ dialog' = O!Closed /\ preview' = preview
         \/ /\ dialog' = dialog
            /\ \E v \in Preview : preview' = [preview EXCEPT ![v] = O!Ended("lapsed")]
  BY DEF O!CancelTransfer, O!PreviewLapses
<1>3. \A q \in Request : RequestSound(request[q])'
  BY <1>1, <1>2, RequestsStand
<1>4. preview' \in [Preview -> PreviewRow] /\ dialog' \in DialogRow
      /\ (dialog'.for # NoMember => dialog'.by \in Member)
  BY <1>1, <1>2, OrganizationRows DEF OrganizationTyped, OrganizationInv
<1> QED BY <1>1, <1>2, <1>3, <1>4, GovernanceStays DEF OrganizationInv, OrganizationTyped

\* What a transfer finds, and what it leaves.
LEMMA Transfers ==
  ASSUME OrganizationInv, NEW q \in Request, O!TransferOwnership(q),
         NEW o, NEW m, o = request[q].actor, m = request[q].target
  PROVE  /\ o \in Member /\ m \in Member /\ o # m /\ request[q].preview \in Preview
         /\ member[o].role = "owner" /\ member[o].state = "active"
         /\ member[m].state = "active"
         /\ member' \in [Member -> MemberRow]
         /\ member'[o].role = "admin" /\ member'[o].state = "active"
         /\ member'[m].role = "owner" /\ member'[m].state = "active"
         /\ \A p \in Member \ {o, m} : member'[p] = member[p]
<1>1. OrganizationTyped /\ RequestSound(request[q])
  BY DEF OrganizationInv
<1>2. o \in Member /\ m \in Member /\ request[q].preview \in Preview
  BY <1>1 DEF O!TransferOwnership, RequestSound
<1>3. O!IsOwner(o) /\ ~O!IsOwner(m) /\ member[m].state = "active"
  BY DEF O!TransferOwnership, O!Transferable
<1>4. o # m
  BY <1>3
<1>5. PICK before \in MemberRow : before = member[o]
  BY <1>1, <1>2 DEF OrganizationTyped
<1>6. PICK after \in MemberRow : after = member[m]
  BY <1>1, <1>2 DEF OrganizationTyped
<1>7. member' = [[member EXCEPT ![o] = [before EXCEPT !.role = "admin"]]
                   EXCEPT ![m] = [after EXCEPT !.role = "owner"]]
  BY <1>1, <1>2, <1>4, <1>5, <1>6 DEF O!TransferOwnership, OrganizationTyped
<1>8. /\ [before EXCEPT !.role = "admin"] \in MemberRow
      /\ [after EXCEPT !.role = "owner"] \in MemberRow
      /\ [before EXCEPT !.role = "admin"].role = "admin"
      /\ [before EXCEPT !.role = "admin"].state = before.state
      /\ [after EXCEPT !.role = "owner"].role = "owner"
      /\ [after EXCEPT !.role = "owner"].state = after.state
  BY DEF MemberRow, O!Assignable
<1>9. member' \in [Member -> MemberRow]
  BY <1>1, <1>2, <1>7, <1>8 DEF OrganizationTyped
<1>10. /\ member'[o] = [before EXCEPT !.role = "admin"]
       /\ member'[m] = [after EXCEPT !.role = "owner"]
       /\ \A p \in Member \ {o, m} : member'[p] = member[p]
  BY <1>1, <1>2, <1>4, <1>7, <1>8 DEF OrganizationTyped
<1> QED BY <1>2, <1>3, <1>4, <1>5, <1>6, <1>8, <1>9, <1>10 DEF O!IsOwner

LEMMA TransferKeeps ==
  ASSUME OrganizationInv, NEW q \in Request, O!TransferOwnership(q)
  PROVE  OrganizationInv'
<1>1. OrganizationTyped /\ Governance
  BY DEF OrganizationInv
<1>2. PICK o, m : o = request[q].actor /\ m = request[q].target
  OBVIOUS
<1>3. /\ o \in Member /\ m \in Member /\ o # m /\ request[q].preview \in Preview
      /\ member[o].role = "owner" /\ member[o].state = "active"
      /\ member[m].state = "active"
      /\ member' \in [Member -> MemberRow]
      /\ member'[o].role = "admin" /\ member'[o].state = "active"
      /\ member'[m].role = "owner" /\ member'[m].state = "active"
      /\ \A p \in Member \ {o, m} : member'[p] = member[p]
  BY <1>2, Transfers
<1>4. /\ UNCHANGED <<invitation, newcomers, dialog>>
      /\ assigned' = [assigned EXCEPT ![m] = O!Nothing]
  BY <1>2 DEF O!TransferOwnership, O!Superseded
<1>5. assigned' \in [Member -> [Room -> O!RoomRole]]
  BY <1>1, <1>3, <1>4, OrganizationRows DEF OrganizationTyped
<1>6. OneOwner' /\ Governed'
  BY <1>1, <1>3 DEF Governance, OneOwner, Governed
<1>7. RoomsSound'
  <2>1. \A r \in Room : assigned'[m][r] = "none"
    BY <1>1, <1>3, <1>4, OrganizationRows DEF OrganizationTyped
  <2>2. \A p \in Member \ {m} : assigned'[p] = assigned[p]
    BY <1>1, <1>4 DEF OrganizationTyped
  <2>3. \A r \in Room : assigned[o][r] = "none"
    BY <1>1, <1>3 DEF Governance, RoomsSound
  <2> QED BY <1>1, <1>3, <2>1, <2>2, <2>3 DEF Governance, RoomsSound
<1>8. preview' \in [Preview -> PreviewRow]
  BY <1>2, OutdatedIsTyped, OrganizationRows DEF O!TransferOwnership
<1>9. request' \in [Request -> RequestRow] /\ \A p \in Request : RequestSound(request'[p])
  <2>1. O!Dropped({o, m})[q] = request[q] /\ request[q] \in RequestRow
    BY <1>1, DroppedIsSound DEF O!TransferOwnership, OrganizationTyped
  <2>2. PICK x : x = [request[q] EXCEPT !.kind = "applied"]
    OBVIOUS
  <2>3. x \in RequestRow /\ RequestSound(x)
    BY <2>1, <2>2 DEF RequestRow, RequestSound
  <2>4. request' = [O!Dropped({o, m}) EXCEPT ![q] = x]
    BY <1>2, <2>1, <2>2 DEF O!TransferOwnership
  <2> QED BY <2>3, <2>4, DroppedIsSound
<1>10. \A p \in Request : RequestSound(request[p])'
  BY <1>3, <1>9, RequestsStand
<1> QED BY <1>1, <1>3, <1>4, <1>5, <1>6, <1>7, <1>8, <1>9, <1>10
        DEF OrganizationInv, OrganizationTyped, Governance

LEMMA RecoveryKeeps ==
  ASSUME OrganizationInv, NEW m \in Member, O!RecoverOwner(m)
  PROVE  OrganizationInv'
<1>1. OrganizationTyped /\ Governance
  BY DEF OrganizationInv
<1>2. /\ member[m].state = "active" /\ UNCHANGED <<invitation, newcomers, dialog>>
      /\ assigned' = [assigned EXCEPT ![m] = O!Nothing]
      /\ \E changed : request' = O!Dropped(changed) /\ preview' = O!Outdated(changed)
  BY DEF O!RecoverOwner, O!Superseded
<1>3. \A p \in Member :
        /\ member[p] \in MemberRow
        /\ \A role \in {"owner", "member"} :
             /\ [member[p] EXCEPT !.role = role] \in MemberRow
             /\ [member[p] EXCEPT !.role = role].role = role
             /\ [member[p] EXCEPT !.role = role].state = member[p].state
  BY <1>1 DEF OrganizationTyped, MemberRow, O!Assignable
<1>4. /\ member' \in [Member -> MemberRow]
      /\ \A p \in Member : /\ member'[p].state = member[p].state
                           /\ member'[p].role = "owner" <=> p = m
                           /\ member'[p].role # "member" => p = m \/ member[p].role # "member"
  BY <1>1, <1>3 DEF O!RecoverOwner, O!IsOwner, Governance, OneOwner
<1>5. /\ assigned' \in [Member -> [Room -> O!RoomRole]]
      /\ \A r \in Room : assigned'[m][r] = "none"
      /\ \A p \in Member \ {m} : assigned'[p] = assigned[p]
  BY <1>1, <1>2, OrganizationRows DEF OrganizationTyped
<1>6. OneOwner' /\ Governed'
  BY <1>2, <1>4 DEF OneOwner, Governed
<1>7. RoomsSound'
  BY <1>1, <1>4, <1>5 DEF Governance, RoomsSound
<1>8. preview' \in [Preview -> PreviewRow] /\ request' \in [Request -> RequestRow]
  BY <1>2, DroppedIsSound, OutdatedIsTyped
<1>9. \A p \in Request : RequestSound(request[p])'
  BY <1>2, <1>4, DroppedIsSound, RequestsStand
<1> QED BY <1>1, <1>2, <1>4, <1>5, <1>6, <1>7, <1>8, <1>9
        DEF OrganizationInv, OrganizationTyped, Governance

LEMMA OrganizationStepKeeps ==
  ASSUME OrganizationInv, [O!Next]_(O!vars)
  PROVE  OrganizationInv'
<1>1. CASE UNCHANGED O!vars
  <2>1. UNCHANGED <<member, invitation, assigned, newcomers, preview, request, dialog>>
    BY <1>1 DEF O!vars
  <2>2. \A q \in Request : RequestSound(request[q])'
    BY <2>1, RequestsStand DEF OrganizationInv
  <2> QED BY <2>1, <2>2, GovernanceStays DEF OrganizationInv, OrganizationTyped
<1>2. CASE O!ProvisionNext
  BY <1>2, ProvisionKeeps
<1>3. CASE \E q \in Request : O!RefuseMutation(q)
  BY <1>3, AdmissionKeeps
<1>4. CASE O!MutationNext
  BY <1>4, AdmissionKeeps, MemberKeeps, AssignmentKeeps DEF O!MutationNext
<1>5. CASE O!TransferNext
  BY <1>5, DialogEnds, DialogKeeps, TransferKeeps DEF O!TransferNext
<1>6. CASE O!RecoveryNext
  BY <1>6, RecoveryKeeps DEF O!RecoveryNext
<1> QED BY <1>1, <1>2, <1>3, <1>4, <1>5, <1>6 DEF O!Next

LEMMA OrganizationKept == O!Spec => []OrganizationInv
<1>1. OrganizationInv /\ [O!Next]_(O!vars) => OrganizationInv'
  BY OrganizationStepKeeps
<1> QED BY <1>1, OrganizationInitially, PTL DEF O!Spec

\* Once there are members there is exactly one Owner, an active one, and whoever administers
\* the organization holds no room, whichever mutations were admitted before a promotion and
\* whichever first sign-ins, transfers and recoveries overlap (member-mutations.ts, oidc.ts,
\* recovery.ts, 017's supersede_room_assignments_for_role).
THEOREM OrganizationStaysSound == O!Spec => []OrganizationSound
<1>1. OrganizationInv => OrganizationSound
  BY OrganizationPromise
<1> QED BY <1>1, OrganizationKept, PTL

\* Who hands the organization over hands it to the member of the dry run the dialog showed,
\* as that dry run saw them and with the rooms it listed (017's transfer_ownership).
THEOREM TransfersAsReviewed == O!Spec => TransferAsReviewed
<1> DEFINE Reviewed ==
      \A o, m \in Member :
        (o # m /\ O!IsOwner(o) /\ member'[m].role = "owner" /\ member'[o].role = "admin") =>
          \E v \in Preview :
            /\ preview[v].state = "open" /\ preview'[v].state = "consumed"
            /\ preview[v].actor = o /\ preview[v].target = m
            /\ preview[v].current
            /\ preview[v].held = assigned[m]
<1>1. ASSUME OrganizationInv, [O!Next]_(O!vars)
      PROVE  [Reviewed]_(O!vars)
  <2> SUFFICES ASSUME NEW o \in Member, NEW m \in Member,
                      o # m, O!IsOwner(o), member'[m].role = "owner", member'[o].role = "admin"
               PROVE  \E v \in Preview :
                        /\ preview[v].state = "open" /\ preview'[v].state = "consumed"
                        /\ preview[v].actor = o /\ preview[v].target = m
                        /\ preview[v].current
                        /\ preview[v].held = assigned[m]
    OBVIOUS
  <2>1. OrganizationTyped /\ Governance /\ member[o].role = "owner" /\ member'[o] # member[o]
    BY <1>1 DEF OrganizationInv, O!IsOwner
  <2>2. CASE UNCHANGED member
    BY <2>1, <2>2
  <2>3. CASE O!ProvisionNext
    <3>1. PICK p \in Member : O!ResolveOidcMember(p) \/ O!ClaimFirstOwner(p)
      BY <2>1, <2>3 DEF O!ProvisionNext, O!RevokeMemberInvitation, O!InviteMember
    <3>2. member[p].state = "absent"
      BY <2>1, <3>1 DEF O!ResolveOidcMember, O!ClaimFirstOwner, O!Claimable
    <3>3. \E role : O!Provisioned(p, role)
      BY <2>1, <3>1 DEF O!ResolveOidcMember, O!ClaimFirstOwner
    <3>4. member'[o] = member[o]
      BY <2>1, <3>2, <3>3 DEF O!Provisioned, OrganizationTyped, Governance, OneOwner
    <3> QED BY <2>1, <3>4
  <2>4. CASE O!MutationNext
    <3>1. PICK q \in Request : O!SetMemberGlobalRole(q) \/ O!SetMemberState(q)
      BY <2>1, <2>4 DEF O!MutationNext, O!AdmitMutation, O!Admit, O!RefuseMutation,
         O!ApplyRoomAssignments
    <3>2. PICK p : p = request[q].target
      OBVIOUS
    <3>3. /\ p \in Member /\ member[p].role # "owner"
          /\ \E new : member' = [member EXCEPT ![p] = new]
      BY <1>1, <3>1, <3>2
         DEF O!SetMemberGlobalRole, O!SetMemberState, RequestSound, OrganizationInv
    <3>4. member'[o] = member[o]
      BY <2>1, <3>3 DEF OrganizationTyped
    <3> QED BY <2>1, <3>4
  <2>5. CASE O!RecoveryNext
    <3>1. PICK p \in Member : O!RecoverOwner(p)
      BY <2>5 DEF O!RecoveryNext
    <3>2. \A c \in Member, role \in {"owner", "member"} :
            [member[c] EXCEPT !.role = role].role = role
      BY <2>1 DEF OrganizationTyped, MemberRow
    <3>3. member'[o].role \in {"owner", "member"}
      BY <2>1, <3>1, <3>2 DEF O!RecoverOwner, O!IsOwner
    <3> QED BY <3>3
  <2>6. CASE O!TransferNext
    <3>1. PICK q \in Request : O!TransferOwnership(q)
      BY <2>1, <2>6 DEF O!TransferNext, O!CancelTransfer, O!PreviewLapses, O!ReviewTransfer,
         O!DryRunOwnershipTransfer, O!ReceiveImpact, O!ApplyTransfer, O!TransferFails,
         O!Transferred
    <3>2. PICK p, s : p = request[q].actor /\ s = request[q].target
      OBVIOUS
    <3>3. /\ member[p].role = "owner" /\ member'[s].role = "owner" /\ member'[p].role = "admin"
          /\ p \in Member /\ s \in Member /\ request[q].preview \in Preview
          /\ \A c \in Member \ {p, s} : member'[c] = member[c]
      BY <1>1, <3>1, <3>2, Transfers
    <3>4. o = p
      BY <2>1, <3>3 DEF Governance, OneOwner
    <3>5. m = s
      BY <2>1, <3>3, <3>4 DEF Governance, OneOwner
    <3>6. PICK v \in Preview : v = request[q].preview
      BY <3>3
    <3>7. /\ preview[v].state = "open" /\ preview[v].actor = o /\ preview[v].target = m
          /\ preview[v].current /\ preview[v].held = assigned[m]
      BY <3>1, <3>2, <3>4, <3>5, <3>6 DEF O!TransferOwnership, O!Transferable, O!Digest
    <3>8. preview'[v].state = "consumed"
      BY <1>1, <3>1, <3>6, OutdatedIsTyped DEF O!TransferOwnership, O!Ended
    <3> QED BY <3>7, <3>8
  <2>7. CASE \E q \in Request : O!RefuseMutation(q)
    BY <2>1, <2>7 DEF O!RefuseMutation
  <2> QED BY <1>1, <2>2, <2>3, <2>4, <2>5, <2>6, <2>7 DEF O!Next, O!vars
<1> QED BY <1>1, OrganizationKept, PTL DEF O!Spec, TransferAsReviewed, O!TransferAsReviewed
=============================================================================
