----------------------------- MODULE MCJobQueue -----------------------------
(* JobQueue and Organization on small instances for TLC.  They share no     *)
(* variable: one of them moves in a behaviour and the other stays as it     *)
(* began.                                                                   *)
EXTENDS JobQueue, TLC

CONSTANTS j1, j2, u1, r1, r2, w1, w2
CONSTANTS Member, Allowed, Room, Request, Preview, NoMember, NoPreview

VARIABLES member, invitation, assigned, newcomers, preview, request, dialog

O == INSTANCE Organization

memberVars == <<member, invitation, assigned, newcomers, preview, request, dialog>>

\* r1 is the head of a schedule whose next run is r2.
RecurringPair == r1 :> r2

\* Either the rows of members' work take part, or the schedule and a row nobody can handle.
EitherHalf == {{u1, r1, r2}, {j1, j2}}

\* Runners are interchangeable in the safety runs.
WorkerSymmetry == Permutations(Worker)

QueueInit == Init /\ O!Init

\* The organization need not be followed once for each of the two.
Half == row[j1].state = "absent"

QueueNext ==
  \/ O!Init /\ Next /\ UNCHANGED memberVars
  \/ Init /\ Half /\ O!Next /\ UNCHANGED vars

QueueSpec == QueueInit /\ [][QueueNext]_<<vars, memberVars>>

\* What Organization promises of its members and of the Owner, and of a transfer.
OrganizationSound == O!TypeOK /\ O!OrganizationSound
TransferAsReviewed == O!TransferAsReviewed
=============================================================================
