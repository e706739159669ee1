------------------------------ MODULE WorkRows ------------------------------
(***************************************************************************)
(* One row of the job queue as the components that queue work see it: the  *)
(* promise of LeasedWork, which JobQueue implements, reduced to what a     *)
(* handler's database functions can tell.  live is the attempt that holds  *)
(* the lease, 0 when none does; era tells one arming of a row that is      *)
(* reset from the next.                                                    *)
(***************************************************************************)
EXTENDS Integers

Rows(max) ==
  [stage : {"absent", "queued", "running", "done", "failed", "deleted"},
   attempts : 0..max, live : 0..max, era : {0, 1}]
Columns(stage, attempts, live, era) ==
  [stage |-> stage, attempts |-> attempts, live |-> live, era |-> era]
Row(stage) == Columns(stage, 0, 0, 0)
Absent == Row("absent")
Queued == Row("queued")

\* Slip: attempts < max_attempts is not asked.
SlipUnbounded(row, max) == row.stage = "queued" \/ (row.stage = "running" /\ row.live = 0)

\* Slip: only pending rows are claimed, never one whose lease ran out.
SlipPendingOnly(row, max) == row.attempts < max /\ row.stage = "queued"

CanClaim(row, max) ==
  /\ row.attempts < max
  /\ \/ row.stage = "queued"
     \/ row.stage = "running" /\ row.live = 0

Claimed(row) == Columns("running", row.attempts + 1, row.attempts + 1, row.era)

HeldBy(row, attempt) == row.stage = "running" /\ row.live = attempt

\* No heartbeat came in time.
Lapsed(row) == [row EXCEPT !.live = 0]

Completed(row) == Columns("done", row.attempts, 0, row.era)

\* JobRunner.fail: another attempt after a back-off, or none is left and the row keeps
\* running without a lease until the exhaustion sweep finds it.
GivenBack(row, max) ==
  Columns(IF row.attempts = max THEN row.stage ELSE "queued", row.attempts, 0, row.era)

Spent(row, max) == row.stage = "running" /\ row.live = 0 /\ row.attempts = max

Buried(row) == [row EXCEPT !.stage = "failed"]
=============================================================================
