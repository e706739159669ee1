----------------------------- MODULE LeasedWork -----------------------------
(***************************************************************************)
(* What the job queue promises the components that put work in it, without *)
(* leases, tokens, attempts or time: a piece of work is in at most one     *)
(* pair of hands, only those hands can finish it, it is given up only when *)
(* nobody holds it, and giving up runs its cleanup in the same step.       *)
(* Pieces of work are independent of each other, so one step of the queue  *)
(* may be a step of several of them.                                       *)
(***************************************************************************)
EXTENDS Naturals

CONSTANTS
  Job,     \* pieces of work
  Worker,  \* the processes that do it
  Nobody,  \* not one of them
  Hooked   \* work that has a cleanup

VARIABLE
  work  \* per piece: what became of it, who may still finish it, how often it was cleaned up

Piece == [stage : {"absent", "waiting", "done", "given_up", "withdrawn"},
          holder : Worker \cup {Nobody}, cleanups : Nat]

LWInit ==
  work \in [Job -> [stage : {"absent", "waiting", "done"}, holder : {Nobody}, cleanups : {0}]]

----------------------------------------------------------------------------
(* What one step makes of a piece that was as was.                          *)

\* It leaves everybody's hands.
Free(stage, cleanups) == [stage |-> stage, holder |-> Nobody, cleanups |-> cleanups]

Idle(piece, stage) == piece.stage = stage /\ piece.holder = Nobody

Submit(was, is) == Idle(was, "absent") /\ is = [was EXCEPT !.stage = "waiting"]

Take(was, is) ==
  /\ Idle(was, "waiting") /\ is.holder # Nobody
  /\ is = [was EXCEPT !.holder = is.holder]

\* By failing, by crashing, or because its time is up.
LetGo(was, is) ==
  /\ was.stage = "waiting" /\ was.holder # Nobody
  /\ is = [was EXCEPT !.holder = Nobody]

Finish(was, is) ==
  /\ was.stage = "waiting" /\ was.holder # Nobody
  /\ is = Free("done", was.cleanups)

GiveUp(j, was, is) ==
  /\ Idle(was, "waiting")
  /\ is = Free("given_up", IF j \in Hooked THEN was.cleanups + 1 ELSE was.cleanups)

Withdraw(was, is) == Idle(was, "waiting") /\ is = [was EXCEPT !.stage = "withdrawn"]

\* Work without a cleanup may be started over, out of anybody's hands.
Restart(j, was, is) ==
  /\ j \notin Hooked /\ was.stage # "absent"
  /\ is = Free("waiting", was.cleanups)

Step(j, was, is) ==
  \/ is = was
  \/ Submit(was, is) \/ Take(was, is) \/ LetGo(was, is) \/ Finish(was, is)
  \/ GiveUp(j, was, is) \/ Withdraw(was, is) \/ Restart(j, was, is)

LWNext ==
  /\ work' \in [Job -> Piece]
  /\ \A j \in Job : Step(j, work[j], work'[j])

LWSpec == LWInit /\ [][LWNext]_work
=============================================================================
