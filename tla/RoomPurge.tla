------------------------------ MODULE RoomPurge ------------------------------
(***************************************************************************)
(* The purge of a whole room (lifecycle.ts, jobs/room-purge.ts,            *)
(* 011_retention_lifecycle.sql, 022_room_administration.sql), the          *)
(* visibility changes and cancellations that race it, and the restore of   *)
(* an older database, after which external access is enabled only if no    *)
(* deletion marker names a room (apps/cli/src/lifecycle.ts).               *)
(***************************************************************************)
EXTENDS Integers, FiniteSets, WorkRows

CONSTANTS
  Owner,          \* owners who change the room
  Purge,          \* 1..n: the purges that may be scheduled, in their order
  PurgeAttempts   \* max_attempts of room.whole.purge

ASSUME PurgeAssumption ==
  /\ IsFiniteSet(Purge) /\ Purge = 1..Cardinality(Purge)
  /\ PurgeAttempts \in Nat \ {0}

VARIABLES
  db,          \* the database: room.state, per purge its row and its job's, and which
               \* purges have marker_written_at and marker_reconciled_at
  due,         \* purges whose purge_after has passed
  used,        \* purge ids that were ever issued
  objects,     \* the room's objects in storage
  marker,      \* purges whose deletion marker is in storage
  current,     \* owners whose view has the room's revision
  cancelling,  \* per owner, the purge whose cancellation began before it was due, or 0
  runner,      \* per purge and attempt: jobs/room-purge.ts
  snapshot,    \* the last backup of the database, until it is restored
  restored,    \* a backup was restored
  enabled,     \* external access
  operator     \* restore enable-external

storageVars == <<objects, marker>>
ownerVars == <<current, cancelling>>
recoveryVars == <<snapshot, restored, enabled, operator>>
vars == <<db, due, used, storageVars, ownerVars, runner, recoveryVars>>

Attempt == 1..PurgeAttempts
Live == {"scheduled", "marker_pending", "purging"}

Database ==
  [room : {"draft", "published", "archived", "gone"},
   purge : [Purge -> Live \cup {"none", "cancelled", "purged"}],
   job : [Purge -> Rows(PurgeAttempts)],
   written : SUBSET Purge, reconciled : SUBSET Purge]

TypeOK ==
  /\ db \in Database
  /\ due \subseteq used /\ used \subseteq Purge /\ marker \subseteq due
  /\ objects \in {"whole", "part", "none"}
  /\ current \subseteq Owner /\ cancelling \in [Owner -> Purge \cup {0}]
  /\ runner \in [Purge -> [Attempt -> {"gone", "begin", "marker", "manifest", "delete",
                                       "finalize", "return"}]]
  /\ snapshot \subseteq Database
  /\ restored \in BOOLEAN /\ enabled \in BOOLEAN
  /\ operator \in {"idle", "list", "match"}

Init ==
  /\ db = [room |-> "published", purge |-> [p \in Purge |-> "none"],
           job |-> [p \in Purge |-> Absent], written |-> {}, reconciled |-> {}]
  /\ due = {} /\ used = {} /\ objects = "whole" /\ marker = {}
  /\ current = {} /\ cancelling = [o \in Owner |-> 0]
  /\ runner = [p \in Purge |-> [a \in Attempt |-> "gone"]]
  /\ snapshot = {} /\ restored = FALSE /\ enabled = TRUE /\ operator = "idle"

-----------------------------------------------------------------------------
(* Owners.                                                                  *)

Review(o) ==
  /\ db.room # "gone" /\ o \notin current
  /\ current' = current \cup {o}
  /\ UNCHANGED <<db, due, used, storageVars, cancelling, runner, recoveryVars>>

Pinning == Live

\* enforce_live_purge_pins_archive.
Pinned == \E p \in Purge : db.purge[p] \in Pinning

Moves == {<<"draft", "published">>, <<"draft", "archived">>, <<"published", "draft">>,
          <<"published", "archived">>, <<"archived", "draft">>}

ChangeVisibility(o, state) ==
  /\ o \in current /\ <<db.room, state>> \in Moves
  /\ ~(db.room = "archived" /\ Pinned)
  /\ db' = [db EXCEPT !.room = state]
  /\ current' = {}
  /\ UNCHANGED <<due, used, storageVars, cancelling, runner, recoveryVars>>

SchedulePurge(o, p) ==
  /\ o \in current /\ db.room = "archived"
  /\ \A q \in Purge : db.purge[q] \in {"none", "cancelled"}
  /\ p = Cardinality(used) + 1
  /\ db' = [db EXCEPT !.purge[p] = "scheduled", !.job[p] = Queued]
  /\ used' = used \cup {p}
  /\ UNCHANGED <<due, storageVars, ownerVars, runner, recoveryVars>>

ComeDue(p) ==
  /\ p \in used \ due
  /\ due' = due \cup {p}
  /\ UNCHANGED <<db, used, storageVars, ownerVars, runner, recoveryVars>>

\* statement_timestamp() is taken as the statement begins.
BeginCancel(o, p) ==
  /\ db.room # "gone" /\ cancelling[o] = 0
  /\ db.purge[p] = "scheduled" /\ p \notin due
  /\ cancelling' = [cancelling EXCEPT ![o] = p]
  /\ UNCHANGED <<db, due, used, storageVars, current, runner, recoveryVars>>

Releasable == {"scheduled"}

\* cancel_room_purge; a job that is already running keeps its row.
CancelPurge(o) ==
  LET p == cancelling[o] IN
  /\ p # 0
  /\ IF db.purge[p] \in Releasable
     THEN db' = [db EXCEPT !.purge[p] = "cancelled",
                           !.job[p] = IF @.stage = "queued" THEN Row("deleted") ELSE @]
     ELSE UNCHANGED db
  /\ cancelling' = [cancelling EXCEPT ![o] = 0]
  /\ UNCHANGED <<due, used, storageVars, current, runner, recoveryVars>>

OwnerStep(o) ==
  \/ Review(o)
  \/ \E state \in {"draft", "published", "archived"} : ChangeVisibility(o, state)
  \/ \E p \in Purge : SchedulePurge(o, p) \/ BeginCancel(o, p)
  \/ CancelPurge(o)

-----------------------------------------------------------------------------
(* jobs/room-purge.ts.                                                      *)

Goto(p, a, pc) == runner' = [runner EXCEPT ![p][a] = pc]
Holds(p, a) == HeldBy(db.job[p], a)

\* The handler throws, and JobRunner.fail gives the row back.
Throw(p, a) ==
  /\ Goto(p, a, "gone")
  /\ db' = IF Holds(p, a) THEN [db EXCEPT !.job[p] = GivenBack(@, PurgeAttempts)] ELSE db

ClaimPurge(p) ==
  /\ p \in due /\ CanClaim(db.job[p], PurgeAttempts)
  /\ db' = [db EXCEPT !.job[p] = Claimed(@)]
  /\ Goto(p, db.job[p].attempts + 1, "begin")
  /\ UNCHANGED <<due, used, storageVars, ownerVars, recoveryVars>>

\* Slip: the objects go before the marker is written.
SlipDeleteFirst == "manifest"

AfterBegin == "marker"

\* begin_room_purge, and the lease is asserted.
BeginPurge(p, a) ==
  /\ runner[p][a] = "begin"
  /\ IF Holds(p, a) /\ db.purge[p] \in Live
     THEN /\ db' = [db EXCEPT !.purge[p] = IF @ = "scheduled" THEN "marker_pending" ELSE @]
          /\ Goto(p, a, AfterBegin)
     ELSE Throw(p, a)
  /\ UNCHANGED <<due, used, storageVars, ownerVars, recoveryVars>>

\* putSystemDeletionMarker: one that is there already is a success.
PutMarker(p, a) ==
  /\ runner[p][a] = "marker"
  /\ \/ marker' = marker \cup {p} /\ Goto(p, a, "manifest") /\ UNCHANGED db
     \/ marker' \in {marker, marker \cup {p}} /\ Throw(p, a)
  /\ UNCHANGED <<due, used, objects, ownerVars, recoveryVars>>

\* mark_room_purge_marker_written returns the object keys, read_room_purge_viewers the viewers.
ReadManifest(p, a) ==
  /\ runner[p][a] = "manifest"
  /\ IF Holds(p, a) /\ db.purge[p] \in {"marker_pending", "purging"}
     THEN /\ db' = [db EXCEPT !.purge[p] = "purging", !.written = @ \cup {p}]
          /\ Goto(p, a, "delete")
     ELSE Throw(p, a)
  /\ UNCHANGED <<due, used, storageVars, ownerVars, recoveryVars>>

\* deleteObjects, in batches; a batch may fail for some of its keys.
DeleteObjects(p, a) ==
  /\ runner[p][a] = "delete"
  /\ \/ objects' = "none" /\ Goto(p, a, "finalize") /\ UNCHANGED db
     \/ objects' \in {objects, IF objects = "none" THEN "none" ELSE "part"} /\ Throw(p, a)
  /\ UNCHANGED <<due, used, marker, ownerVars, recoveryVars>>

FinalizePurge(p, a) ==
  /\ runner[p][a] = "finalize"
  /\ IF Holds(p, a) /\ db.purge[p] = "purging" /\ p \in db.written
     THEN db' = [db EXCEPT !.purge[p] = "purged", !.room = "gone"] /\ Goto(p, a, "return")
     ELSE Throw(p, a)
  /\ UNCHANGED <<due, used, storageVars, ownerVars, recoveryVars>>

SettlePurge(p, a) ==
  /\ runner[p][a] = "return"
  /\ db' = IF Holds(p, a) THEN [db EXCEPT !.job[p] = Completed(@)] ELSE db
  /\ Goto(p, a, "gone")
  /\ UNCHANGED <<due, used, storageVars, ownerVars, recoveryVars>>

\* The worker died, or has stalled and goes on later without its lease.
LoseLease(p) ==
  LET a == db.job[p].live IN
  /\ a # 0
  /\ db' = [db EXCEPT !.job[p] = Lapsed(@)]
  /\ runner' \in {runner, [runner EXCEPT ![p][a] = "gone"]}
  /\ UNCHANGED <<due, used, storageVars, ownerVars, recoveryVars>>

ExhaustPurge(p) ==
  /\ Spent(db.job[p], PurgeAttempts)
  /\ db' = [db EXCEPT !.job[p] = Buried(@)]
  /\ UNCHANGED <<due, used, storageVars, ownerVars, runner, recoveryVars>>

PurgeStep(p, a) ==
  \/ BeginPurge(p, a) \/ PutMarker(p, a) \/ ReadManifest(p, a) \/ DeleteObjects(p, a)
  \/ FinalizePurge(p, a) \/ SettlePurge(p, a)

-----------------------------------------------------------------------------
(* Recovery.                                                                *)

\* No lease of a backup is live when it is restored.
Saved == [db EXCEPT !.job = [p \in Purge |-> Lapsed(db.job[p])]]

BackUp ==
  /\ ~restored /\ snapshot # {Saved}
  /\ snapshot' = {Saved}
  /\ UNCHANGED <<db, due, used, storageVars, ownerVars, runner, restored, enabled, operator>>

\* Every process is stopped and external access is off.
RestoreDatabase ==
  /\ \E saved \in snapshot : db' = saved
  /\ snapshot' = {}
  /\ restored' = TRUE /\ enabled' = FALSE /\ operator' = "idle"
  /\ current' = {} /\ cancelling' = [o \in Owner |-> 0]
  /\ runner' = [p \in Purge |-> [a \in Attempt |-> "gone"]]
  /\ UNCHANGED <<due, used, storageVars>>

Unreconciled == {p \in db.written \ db.reconciled : db.purge[p] \in {"purging", "purged"}}

ReconcileMarker(p) ==
  /\ p \in Unreconciled /\ p \in marker
  /\ db.purge[p] = "purged" /\ db.room = "gone"
  /\ db' = [db EXCEPT !.reconciled = @ \cup {p}]
  /\ UNCHANGED <<due, used, storageVars, ownerVars, runner, recoveryVars>>

OperatorGoto(pc) == operator' = pc /\ UNCHANGED <<snapshot, restored>>

AskUnreconciled ==
  /\ restored /\ ~enabled /\ operator = "idle"
  /\ OperatorGoto(IF Unreconciled = {} THEN "list" ELSE "idle")
  /\ UNCHANGED <<db, due, used, storageVars, ownerVars, runner, enabled>>

\* Slip: the markers in storage are not read.
SlipDatabaseOnly == {}

MarkedInStorage == marker

ListMarkers ==
  /\ operator = "list"
  /\ IF MarkedInStorage = {}
     THEN enabled' = TRUE /\ OperatorGoto("idle")
     ELSE UNCHANGED enabled /\ OperatorGoto("match")
  /\ UNCHANGED <<db, due, used, storageVars, ownerVars, runner>>

MatchRooms ==
  /\ operator = "match"
  /\ enabled' = (db.room = "gone")
  /\ OperatorGoto("idle")
  /\ UNCHANGED <<db, due, used, storageVars, ownerVars, runner>>

EnableExternal == AskUnreconciled \/ ListMarkers \/ MatchRooms

-----------------------------------------------------------------------------
WorkerStep ==
  \E p \in Purge :
    \/ ComeDue(p) \/ ClaimPurge(p) \/ ExhaustPurge(p)
    \/ \E a \in Attempt : PurgeStep(p, a)

Next ==
  \/ \E o \in Owner : OwnerStep(o)
  \/ \E p \in Purge :
       \/ ComeDue(p) \/ ClaimPurge(p) \/ LoseLease(p) \/ ExhaustPurge(p) \/ ReconcileMarker(p)
       \/ \E a \in Attempt : PurgeStep(p, a)
  \/ BackUp \/ RestoreDatabase \/ EnableExternal

Spec == Init /\ [][Next]_vars

(* Time passes, workers claim what is due and their handlers go on.          *)
Fairness == WF_vars(WorkerStep)

FairSpec == Spec /\ Fairness

-----------------------------------------------------------------------------
(* Properties.                                                              *)

\* From its first step to its last a purge finds its room archived, and the room is gone
\* exactly when a purge of it is through, whatever its owners do meanwhile.
PurgeHoldsRoom ==
  /\ \A p \in Purge : db.purge[p] \in Live => db.room = "archived"
  /\ (db.room = "gone") <=> (\E p \in Purge : db.purge[p] = "purged")
  /\ Cardinality({p \in Purge : db.purge[p] \in Live}) <= 1

\* The marker is in storage before the first object is deleted, so it outlives any
\* database the room could come back from.
MarkerFirst == objects # "whole" \/ db.room = "gone" => marker # {}

\* A purge that was cancelled has touched nothing and never will.
CancelledStands ==
  \A p \in Purge : db.purge[p] = "cancelled" =>
    p \notin marker /\ \A a \in Attempt : runner[p][a] \in {"gone", "begin"}

\* However cancellations, visibility changes, retries and restores overlap, a purge has its
\* room to itself, leaves its marker first, and does nothing once cancelled.
PurgeSound == PurgeHoldsRoom /\ MarkerFirst /\ CancelledStands

\* With external access enabled, a room that is open has all its objects: an older
\* database that still holds a purged room does not bring it back to viewers.
NoResurrection == enabled /\ db.room = "published" => objects = "whole"

\* A scheduled purge is cancelled or carried out, unless its job uses up its attempts.
Unsettled == \E p \in Purge : db.purge[p] \in Live /\ db.job[p].stage # "failed"
PurgeEnds == Unsettled ~> ~Unsettled
=============================================================================
