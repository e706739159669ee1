--------------------------- MODULE RoomPurgeProofs ---------------------------
(***************************************************************************)
(* Theorems about RoomPurge for any number of owners, of purges and of     *)
(* attempts.                                                               *)
(***************************************************************************)
EXTENDS RoomPurge, WorkRowsProofs

Started == {"marker_pending", "purging", "purged"}

\* A database that may be the current one or a backup.
DatabaseSound(d) ==
  /\ \A p \in Purge : p \notin used => d.purge[p] = "none"
  /\ \A p \in Purge : d.purge[p] \in Live => d.room = "archived"
  /\ (d.room = "gone") <=> (\E p \in Purge : d.purge[p] = "purged")
  /\ \A p, q \in Purge : d.purge[p] \in Live /\ d.purge[q] \in Live => p = q
  /\ \A p \in Purge : d.purge[p] = "purged" => p \in marker
  /\ \A p \in Purge : d.purge[p] = "cancelled" => p \notin marker

\* Where an attempt may stand.
RunnerSound ==
  \A p \in Purge, a \in Attempt :
    /\ runner[p][a] # "gone" => p \in due
    /\ runner[p][a] \notin {"gone", "begin"} => db.purge[p] \in Started
    /\ runner[p][a] \in {"manifest", "delete", "finalize", "return"} => p \in marker
    /\ runner[p][a] \in {"delete", "finalize", "return"} => db.purge[p] \in {"purging", "purged"}

\* What a backup holds of a cancelled purge stands.
BackupSound ==
  \A s \in snapshot :
    /\ DatabaseSound(s)
    /\ \A p \in Purge : s.purge[p] = "cancelled" => db.purge[p] = "cancelled"

\* A restore may bring back a purge as scheduled whose marker is there already; nobody
\* began to cancel it before it was due.
CancelSound ==
  \A p \in Purge : db.purge[p] = "scheduled" /\ p \in marker =>
    \A o \in Owner : cancelling[o] # p

ObjectsSound ==
  /\ objects # "whole" => marker # {}
  /\ enabled /\ objects # "whole" => \E p \in Purge : db.purge[p] \in {"purging", "purged"}

PurgeInv ==
  /\ used = 1..Cardinality(used)
  /\ DatabaseSound(db) /\ RunnerSound /\ BackupSound /\ CancelSound /\ ObjectsSound

-----------------------------------------------------------------------------

\* A claimed row has an attempt that can be run, and a held row one that is running.
LEMMA AttemptsRun ==
  ASSUME PurgeAssumption, NEW r \in Rows(PurgeAttempts)
  PROVE  /\ CanClaim(r, PurgeAttempts) => r.attempts + 1 \in Attempt
         /\ r.live # 0 => r.live \in Attempt
<1>1. CanClaim(r, PurgeAttempts) => r.attempts + 1 \in Attempt
  BY RowsTyped DEF PurgeAssumption, Attempt
<1>2. r.live \in 0..PurgeAttempts
  BY DEF Rows
<1> QED BY <1>1, <1>2 DEF PurgeAssumption, Attempt

\* The database keeps its type whatever a step makes of one purge, one job or the room.
LEMMA DatabaseTyped ==
  ASSUME NEW d \in Database, NEW p \in Purge
  PROVE  /\ \A x \in Live \cup {"none", "cancelled", "purged"} :
              \A r \in Rows(PurgeAttempts) :
                [d EXCEPT !.purge[p] = x, !.job[p] = r] \in Database
         /\ \A x \in Live \cup {"none", "cancelled", "purged"} :
              [d EXCEPT !.purge[p] = x] \in Database
         /\ \A r \in Rows(PurgeAttempts) : [d EXCEPT !.job[p] = r] \in Database
         /\ \A x \in {"draft", "published", "archived", "gone"} :
              [d EXCEPT !.room = x] \in Database
         /\ [d EXCEPT !.purge[p] = "purging", !.written = @ \cup {p}] \in Database
         /\ [d EXCEPT !.purge[p] = "purged", !.room = "gone"] \in Database
         /\ [d EXCEPT !.reconciled = @ \cup {p}] \in Database
BY DEF Database, Live

LEMMA OwnerStepTyped ==
  ASSUME PurgeAssumption, TypeOK, NEW o \in Owner, OwnerStep(o)
  PROVE  TypeOK'
<1> USE DEF TypeOK, storageVars, ownerVars, recoveryVars
<1>1. CASE Review(o)
  BY <1>1 DEF Review
<1>2. ASSUME NEW state \in {"draft", "published", "archived"}, ChangeVisibility(o, state)
      PROVE  TypeOK'
  <2>1. db' \in Database
    BY <1>2 DEF ChangeVisibility, Database
  <2> QED BY <1>2, <2>1 DEF ChangeVisibility
<1>3. ASSUME NEW p \in Purge, SchedulePurge(o, p) PROVE TypeOK'
  <2>1. db' \in Database
    <3>1. Queued \in Rows(PurgeAttempts)
      BY DEF Queued, Row, Columns, Rows, PurgeAssumption
    <3>2. [db EXCEPT !.purge[p] = "scheduled", !.job[p] = Queued] \in Database
      BY <3>1, DatabaseTyped DEF Live
    <3> QED BY <1>3, <3>2 DEF SchedulePurge
  <2> QED BY <1>3, <2>1 DEF SchedulePurge
<1>4. ASSUME NEW p \in Purge, BeginCancel(o, p) PROVE TypeOK'
  BY <1>4 DEF BeginCancel
<1>5. CASE CancelPurge(o)
  <2>1. cancelling[o] \in Purge
    BY <1>5 DEF CancelPurge
  <2>2. Row("deleted") \in Rows(PurgeAttempts) /\ db.job[cancelling[o]] \in Rows(PurgeAttempts)
    BY <2>1 DEF Row, Columns, Rows, PurgeAssumption, Database
  <2>3. db' \in Database
    <3>1. \A r \in Rows(PurgeAttempts) :
            [db EXCEPT !.purge[cancelling[o]] = "cancelled", !.job[cancelling[o]] = r] \in Database
      BY <2>1, DatabaseTyped DEF Live
    <3>2. (IF db.job[cancelling[o]].stage = "queued" THEN Row("deleted")
           ELSE db.job[cancelling[o]]) \in Rows(PurgeAttempts)
      BY <2>2
    <3> QED BY <1>5, <3>1, <3>2 DEF CancelPurge
  <2>4. cancelling' \in [Owner -> Purge \cup {0}]
    BY <1>5 DEF CancelPurge
  <2> QED BY <1>5, <2>3, <2>4 DEF CancelPurge
<1> QED BY <1>1, <1>2, <1>3, <1>4, <1>5 DEF OwnerStep

PC == {"gone", "begin", "marker", "manifest", "delete", "finalize", "return"}

\* An attempt that moves on leaves the others where they are.
LEMMA RunnerMoves ==
  ASSUME runner \in [Purge -> [Attempt -> PC]], NEW p \in Purge, NEW a \in Attempt,
         NEW pc \in PC, Goto(p, a, pc)
  PROVE  /\ runner' \in [Purge -> [Attempt -> PC]]
         /\ runner'[p][a] = pc
         /\ \A q \in Purge, b \in Attempt : q # p \/ b # a => runner'[q][b] = runner[q][b]
<1>1. runner' = [runner EXCEPT ![p] = [runner[p] EXCEPT ![a] = pc]]
  BY DEF Goto
<1>2. [runner[p] EXCEPT ![a] = pc] \in [Attempt -> PC]
  OBVIOUS
<1>3. runner' \in [Purge -> [Attempt -> PC]]
  BY <1>1, <1>2
<1>4. runner'[p] = [runner[p] EXCEPT ![a] = pc] /\ \A q \in Purge \ {p} : runner'[q] = runner[q]
  BY <1>1, <1>2
<1>5. runner[p] \in [Attempt -> PC]
  OBVIOUS
<1> QED BY <1>3, <1>4, <1>5

\* A handler that throws is gone, and of the database only its job has changed.
LEMMA Throws ==
  ASSUME PurgeAssumption, TypeOK, NEW p \in Purge, NEW a \in Attempt, Throw(p, a)
  PROVE  /\ db' \in Database /\ db'.purge = db.purge /\ db'.room = db.room
         /\ runner' \in [Purge -> [Attempt -> PC]]
         /\ runner'[p][a] = "gone"
         /\ \A q \in Purge, b \in Attempt : q # p \/ b # a => runner'[q][b] = runner[q][b]
<1>1. db \in Database /\ db.job[p] \in Rows(PurgeAttempts)
  BY DEF TypeOK, Database
<1>2. GivenBack(db.job[p], PurgeAttempts) \in Rows(PurgeAttempts)
  BY <1>1, RowsTyped DEF PurgeAssumption
<1>3. db' \in Database /\ db'.purge = db.purge /\ db'.room = db.room
  <2>1. db' \in {db, [db EXCEPT !.job[p] = GivenBack(db.job[p], PurgeAttempts)]}
    BY DEF Throw
  <2>2. [db EXCEPT !.job[p] = GivenBack(db.job[p], PurgeAttempts)] \in Database
    BY <1>1, <1>2, DatabaseTyped
  <2> QED BY <1>1, <2>1, <2>2 DEF Database
<1>4. runner \in [Purge -> [Attempt -> PC]]
  BY DEF TypeOK, PC
<1>5. Goto(p, a, "gone") /\ "gone" \in PC
  BY DEF Throw, PC
<1> QED BY <1>3, <1>4, <1>5, RunnerMoves

\* What an attempt's step leaves of the database's type and where it takes the attempt.
LEMMA PurgeStepTyped ==
  ASSUME PurgeAssumption, TypeOK, RunnerSound, NEW p \in Purge, NEW a \in Attempt,
         PurgeStep(p, a)
  PROVE  /\ TypeOK'
         /\ \A q \in Purge, b \in Attempt : q # p \/ b # a => runner'[q][b] = runner[q][b]
<1>1. /\ db \in Database /\ db.job[p] \in Rows(PurgeAttempts)
      /\ runner \in [Purge -> [Attempt -> PC]]
  BY DEF TypeOK, Database, PC
<1>2. /\ UNCHANGED <<due, used, ownerVars, recoveryVars>>
      /\ marker' \in {marker, marker \cup {p}} /\ objects' \in {"whole", "part", "none"}
  BY DEF PurgeStep, BeginPurge, PutMarker, ReadManifest, DeleteObjects, FinalizePurge,
         SettlePurge, storageVars, ownerVars, recoveryVars, TypeOK
<1>3. p \in due
  BY DEF RunnerSound, PurgeStep, BeginPurge, PutMarker, ReadManifest, DeleteObjects,
         FinalizePurge, SettlePurge
<1>4. SUFFICES /\ db' \in Database /\ runner' \in [Purge -> [Attempt -> PC]]
               /\ \A q \in Purge, b \in Attempt :
                    q # p \/ b # a => runner'[q][b] = runner[q][b]
  BY <1>2, <1>3 DEF TypeOK, PC, ownerVars, recoveryVars
<1>5. CASE Throw(p, a)
  BY <1>5, Throws
<1>6. ASSUME NEW pc \in PC, Goto(p, a, pc), db' \in Database
      PROVE  /\ db' \in Database /\ runner' \in [Purge -> [Attempt -> PC]]
             /\ \A q \in Purge, b \in Attempt :
                  q # p \/ b # a => runner'[q][b] = runner[q][b]
  BY <1>1, <1>6, RunnerMoves
<1>7. CASE BeginPurge(p, a) /\ ~Throw(p, a)
  <2>1. \A x \in Live \cup {"none", "cancelled", "purged"} :
          [db EXCEPT !.purge[p] = x] \in Database
    BY <1>1, DatabaseTyped
  <2>2. (IF db.purge[p] = "scheduled" THEN "marker_pending" ELSE db.purge[p])
          \in Live \cup {"none", "cancelled", "purged"}
    BY <1>1 DEF Database, Live
  <2>3. db' \in Database /\ Goto(p, a, "marker")
    BY <1>7, <2>1, <2>2 DEF BeginPurge, AfterBegin
  <2> QED BY <1>6, <2>3 DEF PC
<1>8. CASE PutMarker(p, a) /\ ~Throw(p, a)
  BY <1>1, <1>6, <1>8 DEF PutMarker, PC
<1>9. CASE ReadManifest(p, a) /\ ~Throw(p, a)
  <2>1. [db EXCEPT !.purge[p] = "purging", !.written = db.written \cup {p}] \in Database
    BY <1>1, DatabaseTyped
  <2>2. db' \in Database /\ Goto(p, a, "delete")
    BY <1>9, <2>1 DEF ReadManifest
  <2> QED BY <1>6, <2>2 DEF PC
<1>10. CASE DeleteObjects(p, a) /\ ~Throw(p, a)
  BY <1>1, <1>6, <1>10 DEF DeleteObjects, PC
<1>11. CASE FinalizePurge(p, a) /\ ~Throw(p, a)
  <2>1. db' \in Database /\ Goto(p, a, "return")
    BY <1>1, <1>11, DatabaseTyped DEF FinalizePurge
  <2> QED BY <1>6, <2>1 DEF PC
<1>12. CASE SettlePurge(p, a)
  <2>1. Completed(db.job[p]) \in Rows(PurgeAttempts)
    BY <1>1, RowsTyped DEF PurgeAssumption
  <2>2. [db EXCEPT !.job[p] = Completed(db.job[p])] \in Database
    BY <1>1, <2>1, DatabaseTyped
  <2>3. db' \in Database /\ Goto(p, a, "gone")
    BY <1>1, <1>12, <2>2 DEF SettlePurge
  <2> QED BY <1>6, <2>3 DEF PC
<1> QED BY <1>5, <1>7, <1>8, <1>9, <1>10, <1>11, <1>12 DEF PurgeStep

LEMMA QueueStepTyped ==
  ASSUME PurgeAssumption, TypeOK, NEW p \in Purge,
         ComeDue(p) \/ ClaimPurge(p) \/ LoseLease(p) \/ ExhaustPurge(p) \/ ReconcileMarker(p)
  PROVE  TypeOK'
<1>1. /\ db \in Database /\ db.job[p] \in Rows(PurgeAttempts)
      /\ runner \in [Purge -> [Attempt -> PC]]
  BY DEF TypeOK, Database, PC
<1>2. CASE ComeDue(p)
  BY <1>2 DEF ComeDue, TypeOK, storageVars, ownerVars, recoveryVars
<1>3. ASSUME db' \in Database, runner' \in [Purge -> [Attempt -> PC]],
             UNCHANGED <<due, used, storageVars, ownerVars, recoveryVars>>
      PROVE  TypeOK'
  BY <1>3 DEF TypeOK, PC, storageVars, ownerVars, recoveryVars
<1>4. CASE ClaimPurge(p)
  <2>1. Claimed(db.job[p]) \in Rows(PurgeAttempts) /\ db.job[p].attempts + 1 \in Attempt
    BY <1>1, <1>4, RowsTyped, AttemptsRun DEF ClaimPurge, PurgeAssumption
  <2>2. [db EXCEPT !.job[p] = Claimed(db.job[p])] \in Database
    BY <1>1, <2>1, DatabaseTyped
  <2>3. db' \in Database /\ Goto(p, db.job[p].attempts + 1, "begin") /\ "begin" \in PC
    BY <1>4, <2>2 DEF ClaimPurge, PC
  <2>4. runner' \in [Purge -> [Attempt -> PC]]
    BY <1>1, <2>1, <2>3, RunnerMoves
  <2> QED BY <1>3, <1>4, <2>3, <2>4 DEF ClaimPurge
<1>5. CASE LoseLease(p)
  <2>1. Lapsed(db.job[p]) \in Rows(PurgeAttempts)
    BY <1>1, RowsTyped DEF PurgeAssumption
  <2>2. [db EXCEPT !.job[p] = Lapsed(db.job[p])] \in Database
    BY <1>1, <2>1, DatabaseTyped
  <2>3. db' \in Database
    BY <1>5, <2>2 DEF LoseLease
  <2>4. runner' = runner \/ Goto(p, db.job[p].live, "gone")
    BY <1>5 DEF LoseLease, Goto
  <2>5. db.job[p].live \in Attempt /\ "gone" \in PC
    BY <1>1, <1>5, AttemptsRun DEF LoseLease, PC
  <2>6. runner' \in [Purge -> [Attempt -> PC]]
    BY <1>1, <2>4, <2>5, RunnerMoves
  <2> QED BY <1>3, <1>5, <2>3, <2>6 DEF LoseLease
<1>6. CASE ExhaustPurge(p)
  <2>1. Buried(db.job[p]) \in Rows(PurgeAttempts)
    BY <1>1, RowsTyped DEF PurgeAssumption
  <2>2. [db EXCEPT !.job[p] = Buried(db.job[p])] \in Database
    BY <1>1, <2>1, DatabaseTyped
  <2> QED BY <1>1, <1>3, <1>6, <2>2 DEF ExhaustPurge
<1>7. CASE ReconcileMarker(p)
  BY <1>1, <1>3, <1>7, DatabaseTyped DEF ReconcileMarker
<1> QED BY <1>2, <1>4, <1>5, <1>6, <1>7

LEMMA RecoveryTyped ==
  ASSUME PurgeAssumption, TypeOK, BackUp \/ RestoreDatabase \/ EnableExternal
  PROVE  TypeOK'
<1>1. CASE BackUp
  <2>1. [p \in Purge |-> Lapsed(db.job[p])] \in [Purge -> Rows(PurgeAttempts)]
    BY RowsTyped DEF TypeOK, Database, PurgeAssumption
  <2>2. Saved \in Database
    BY <2>1 DEF Saved, TypeOK, Database
  <2> QED BY <1>1, <2>2 DEF BackUp, TypeOK, storageVars, ownerVars
<1>2. CASE RestoreDatabase
  BY <1>2 DEF RestoreDatabase, TypeOK, storageVars
<1>3. CASE EnableExternal
  BY <1>3 DEF EnableExternal, AskUnreconciled, ListMarkers, MatchRooms, OperatorGoto, TypeOK,
              storageVars, ownerVars
<1> QED BY <1>1, <1>2, <1>3

-----------------------------------------------------------------------------
(* The invariant.                                                           *)

\* A step that leaves the purges, the room, what was used and the markers alone.
LEMMA Untouched ==
  ASSUME PurgeInv, UNCHANGED <<used, marker, objects, cancelling, snapshot>>,
         db'.purge = db.purge, db'.room = db.room, due \subseteq due',
         enabled' => enabled \/ objects = "whole" \/ \E p \in Purge : db.purge[p] = "purged",
         \A p \in Purge, a \in Attempt : runner'[p][a] \in {runner[p][a], "gone"}
  PROVE  PurgeInv'
<1>1. used' = 1..Cardinality(used')
  BY DEF PurgeInv
<1>2. DatabaseSound(db)'
  BY DEF PurgeInv, DatabaseSound
<1>3. RunnerSound'
  BY DEF PurgeInv, RunnerSound
<1>4. BackupSound'
  BY DEF PurgeInv, BackupSound, DatabaseSound
<1>5. CancelSound'
  BY DEF PurgeInv, CancelSound
<1>6. ObjectsSound'
  BY DEF PurgeInv, ObjectsSound
<1> QED BY <1>1, <1>2, <1>3, <1>4, <1>5, <1>6 DEF PurgeInv

LEMMA OwnerStepKeeps ==
  ASSUME PurgeAssumption, TypeOK, PurgeInv, NEW o \in Owner, OwnerStep(o)
  PROVE  PurgeInv'
<1>0. db \in Database
  BY DEF TypeOK
<1>1. CASE Review(o)
  BY <1>1, Untouched DEF Review, storageVars, recoveryVars
<1>2. ASSUME NEW state \in {"draft", "published", "archived"}, ChangeVisibility(o, state)
      PROVE  PurgeInv'
  <2>1. /\ db'.purge = db.purge /\ db'.room = state /\ db.room # "gone"
        /\ \A p \in Purge : db.purge[p] \notin Live
    <3>1. \A p \in Purge : db.purge[p] \in Live => db.room = "archived"
      BY DEF PurgeInv, DatabaseSound
    <3> QED BY <1>0, <1>2, <3>1 DEF ChangeVisibility, Database, Moves, Pinned, Pinning
  <2>2. DatabaseSound(db)'
    BY <1>2, <2>1 DEF PurgeInv, DatabaseSound, ChangeVisibility, storageVars
  <2>3. BackupSound'
    BY <1>2, <2>1 DEF PurgeInv, BackupSound, DatabaseSound, ChangeVisibility, storageVars,
                      recoveryVars
  <2>4. RunnerSound' /\ CancelSound' /\ ObjectsSound'
    BY <1>2, <2>1 DEF PurgeInv, RunnerSound, CancelSound, ObjectsSound, ChangeVisibility,
                      storageVars, recoveryVars
  <2> QED BY <1>2, <2>2, <2>3, <2>4 DEF PurgeInv, ChangeVisibility
<1>3. ASSUME NEW p \in Purge, SchedulePurge(o, p) PROVE PurgeInv'
  <2>1. /\ used = 1..Cardinality(used) /\ IsFiniteSet(used) /\ Cardinality(used) \in Nat
        /\ p = Cardinality(used) + 1 /\ used' = used \cup {p}
    BY <1>3, FS_Subset, FS_CardinalityType DEF PurgeInv, SchedulePurge, TypeOK, PurgeAssumption
  <2>2. p \notin used
    BY <2>1
  <2>3. used' = 1..p
    BY <2>1
  <2>4. Cardinality(1..p) = p
    BY <2>1, FS_Interval
  <2>5. p \notin due /\ p \notin marker
    BY <2>2 DEF TypeOK
  <2>6. /\ db'.room = "archived" /\ db'.purge[p] = "scheduled"
        /\ \A q \in Purge \ {p} : db'.purge[q] = db.purge[q]
        /\ \A q \in Purge : db.purge[q] \in {"none", "cancelled"}
    BY <1>0, <1>3 DEF SchedulePurge, Database
  <2>7. DatabaseSound(db)'
    BY <1>3, <2>1, <2>5, <2>6 DEF PurgeInv, DatabaseSound, SchedulePurge, Live, storageVars
  <2>8. BackupSound'
    BY <1>3, <2>1, <2>2, <2>6
    DEF PurgeInv, BackupSound, DatabaseSound, SchedulePurge, storageVars, recoveryVars
  <2>9. RunnerSound'
    BY <1>3, <2>5, <2>6 DEF PurgeInv, RunnerSound, SchedulePurge, storageVars
  <2>10. CancelSound'
    BY <1>3, <2>5, <2>6 DEF PurgeInv, CancelSound, SchedulePurge, storageVars, ownerVars
  <2>11. ObjectsSound'
    BY <1>3, <2>6 DEF PurgeInv, ObjectsSound, SchedulePurge, storageVars, recoveryVars
  <2> QED BY <2>3, <2>4, <2>7, <2>8, <2>9, <2>10, <2>11 DEF PurgeInv
<1>4. ASSUME NEW p \in Purge, BeginCancel(o, p) PROVE PurgeInv'
  <2>1. CancelSound'
    BY <1>4 DEF PurgeInv, CancelSound, BeginCancel, storageVars, TypeOK
  <2>2. /\ UNCHANGED <<db, due, used, marker, objects, runner, snapshot, enabled>>
    BY <1>4 DEF BeginCancel, storageVars, recoveryVars
  <2> QED BY <2>1, <2>2
          DEF PurgeInv, DatabaseSound, RunnerSound, BackupSound, ObjectsSound
<1>5. CASE CancelPurge(o)
  <2> DEFINE p == cancelling[o]
  <2>0. p \in Purge /\ 0 \notin Purge
    <3>1. cancelling[o] \in Purge \cup {0}
      BY DEF TypeOK
    <3>2. cancelling[o] # 0
      BY <1>5 DEF CancelPurge
    <3>3. \A n \in Purge : n >= 1
      BY FS_CardinalityType DEF PurgeAssumption
    <3> QED BY <3>1, <3>2, <3>3
  <2>1. /\ p \in Purge /\ 0 \notin Purge
        /\ \A x \in Owner : cancelling'[x] \in {cancelling[x], 0}
        /\ UNCHANGED <<due, used, marker, objects, runner, snapshot, enabled>>
    <3>1. cancelling' = [cancelling EXCEPT ![o] = 0] /\ cancelling \in [Owner -> Purge \cup {0}]
      BY <1>5 DEF CancelPurge, TypeOK
    <3> QED BY <1>5, <2>0, <3>1 DEF CancelPurge, storageVars, recoveryVars
  <2>2. \/ db' = db
        \/ /\ db.purge[p] = "scheduled" /\ db'.purge[p] = "cancelled"
           /\ db'.room = db.room
           /\ \A q \in Purge \ {p} : db'.purge[q] = db.purge[q]
    <3>1. CASE db.purge[p] \in Releasable
      <4>1. db' = [db EXCEPT !.purge[p] = "cancelled",
                             !.job[p] = IF db.job[p].stage = "queued" THEN Row("deleted")
                                        ELSE db.job[p]]
        BY <1>5, <3>1 DEF CancelPurge
      <4> QED BY <1>0, <2>0, <3>1, <4>1 DEF Releasable, Database
    <3>2. CASE db.purge[p] \notin Releasable
      BY <1>5, <3>2 DEF CancelPurge
    <3> QED BY <3>1, <3>2
  <2>3. db.purge[p] = "scheduled" => p \notin marker
    BY <2>1 DEF PurgeInv, CancelSound
  <2>4. DatabaseSound(db)'
    BY <2>1, <2>2, <2>3 DEF PurgeInv, DatabaseSound, Live
  <2>5. BackupSound'
    BY <2>1, <2>2 DEF PurgeInv, BackupSound, DatabaseSound
  <2>6. RunnerSound'
    BY <2>1, <2>2 DEF PurgeInv, RunnerSound, Started
  <2>7. CancelSound'
    BY <2>1, <2>2 DEF PurgeInv, CancelSound
  <2>8. ObjectsSound'
    BY <2>1, <2>2 DEF PurgeInv, ObjectsSound
  <2> QED BY <2>1, <2>4, <2>5, <2>6, <2>7, <2>8 DEF PurgeInv
<1> QED BY <1>1, <1>2, <1>3, <1>4, <1>5 DEF OwnerStep

LEMMA PurgeStepKeeps ==
  ASSUME PurgeAssumption, TypeOK, PurgeInv, NEW p \in Purge, NEW a \in Attempt, PurgeStep(p, a)
  PROVE  PurgeInv'
<1>0. /\ db \in Database /\ runner \in [Purge -> [Attempt -> PC]]
      /\ \A q \in Purge, b \in Attempt : q # p \/ b # a => runner'[q][b] = runner[q][b]
  BY PurgeStepTyped DEF TypeOK, PC, PurgeInv
<1>1. /\ UNCHANGED <<due, used, cancelling, snapshot, enabled>>
      /\ used = 1..Cardinality(used)
  BY DEF PurgeStep, BeginPurge, PutMarker, ReadManifest, DeleteObjects, FinalizePurge,
         SettlePurge, ownerVars, recoveryVars, PurgeInv
<1>2. /\ p \in due
      /\ runner[p][a] \notin {"gone", "begin"} => db.purge[p] \in Started
      /\ runner[p][a] \in {"manifest", "delete", "finalize", "return"} => p \in marker
      /\ runner[p][a] \in {"delete", "finalize", "return"} => db.purge[p] \in {"purging", "purged"}
  BY DEF PurgeInv, RunnerSound, PurgeStep, BeginPurge, PutMarker, ReadManifest, DeleteObjects,
         FinalizePurge, SettlePurge
<1>3. CASE Throw(p, a) /\ UNCHANGED <<marker, objects>>
  BY <1>0, <1>1, <1>3, Throws, Untouched
<1>4. CASE BeginPurge(p, a) /\ ~Throw(p, a)
  <2>1. /\ db.purge[p] \in Live /\ db'.purge[p] \in Live /\ db'.purge[p] \in Started
        /\ db'.room = db.room
        /\ db.purge[p] # "scheduled" => db'.purge[p] = db.purge[p]
        /\ \A q \in Purge \ {p} : db'.purge[q] = db.purge[q]
    BY <1>0, <1>4 DEF BeginPurge, Database, Live, Started
  <2>2. runner'[p][a] = "marker" /\ UNCHANGED <<marker, objects>>
    BY <1>0, <1>4, RunnerMoves DEF BeginPurge, AfterBegin, PC, storageVars
  <2>3. DatabaseSound(db)'
    BY <1>1, <2>1, <2>2 DEF PurgeInv, DatabaseSound, Live
  <2>4. BackupSound'
    BY <1>1, <2>1, <2>2 DEF PurgeInv, BackupSound, DatabaseSound, Live
  <2>5. RunnerSound'
    BY <1>0, <1>1, <1>2, <2>1, <2>2 DEF PurgeInv, RunnerSound, Started
  <2>6. CancelSound' /\ ObjectsSound'
    BY <1>1, <2>1, <2>2 DEF PurgeInv, CancelSound, ObjectsSound, Started
  <2> QED BY <1>1, <2>3, <2>4, <2>5, <2>6 DEF PurgeInv
<1>5. CASE PutMarker(p, a)
  <2>1. /\ db'.purge = db.purge /\ db'.room = db.room /\ UNCHANGED objects
        /\ marker \subseteq marker' /\ marker' \subseteq marker \cup {p}
        /\ runner'[p][a] \in {"gone", "manifest"} /\ (runner'[p][a] = "manifest" => p \in marker')
        /\ db.purge[p] \in Started
    BY <1>0, <1>2, <1>5, Throws, RunnerMoves DEF PutMarker, PC
  <2>2. DatabaseSound(db)'
    BY <1>1, <2>1 DEF PurgeInv, DatabaseSound, Started
  <2>3. BackupSound'
    BY <1>1, <2>1 DEF PurgeInv, BackupSound, DatabaseSound, Started
  <2>4. RunnerSound'
    BY <1>0, <1>1, <1>2, <2>1 DEF PurgeInv, RunnerSound
  <2>5. CancelSound' /\ ObjectsSound'
    BY <1>1, <2>1 DEF PurgeInv, CancelSound, ObjectsSound, Started
  <2> QED BY <1>1, <2>2, <2>3, <2>4, <2>5 DEF PurgeInv
<1>6. CASE ReadManifest(p, a) /\ ~Throw(p, a)
  <2>1. /\ db.purge[p] \in Live \cap Started /\ db'.purge[p] = "purging" /\ db'.room = db.room
        /\ \A q \in Purge \ {p} : db'.purge[q] = db.purge[q]
    <3>1. /\ db' = [db EXCEPT !.purge[p] = "purging", !.written = db.written \cup {p}]
          /\ db.purge[p] \in {"marker_pending", "purging"}
      BY <1>6 DEF ReadManifest
    <3> QED BY <1>0, <3>1 DEF Database, Live, Started
  <2>2. runner'[p][a] = "delete" /\ runner[p][a] = "manifest" /\ UNCHANGED <<marker, objects>>
    BY <1>0, <1>6, RunnerMoves DEF ReadManifest, PC, storageVars
  <2>3. DatabaseSound(db)'
    BY <1>1, <2>1, <2>2 DEF PurgeInv, DatabaseSound, Live
  <2>4. BackupSound'
    BY <1>1, <2>1, <2>2 DEF PurgeInv, BackupSound, DatabaseSound, Live, Started
  <2>5. RunnerSound'
    BY <1>0, <1>1, <1>2, <2>1, <2>2 DEF PurgeInv, RunnerSound, Started
  <2>6. CancelSound' /\ ObjectsSound'
    BY <1>1, <2>1, <2>2 DEF PurgeInv, CancelSound, ObjectsSound, Started
  <2> QED BY <1>1, <2>3, <2>4, <2>5, <2>6 DEF PurgeInv
<1>7. CASE DeleteObjects(p, a)
  <2>1. /\ db'.purge = db.purge /\ db'.room = db.room /\ UNCHANGED marker
        /\ runner'[p][a] \in {"gone", "finalize"} /\ runner[p][a] = "delete"
    BY <1>0, <1>7, Throws, RunnerMoves DEF DeleteObjects, PC
  <2>2. DatabaseSound(db)' /\ BackupSound' /\ CancelSound'
    BY <1>1, <2>1 DEF PurgeInv, DatabaseSound, BackupSound, CancelSound
  <2>3. RunnerSound'
    BY <1>0, <1>1, <1>2, <2>1 DEF PurgeInv, RunnerSound
  <2>4. ObjectsSound'
    BY <1>1, <1>2, <2>1 DEF ObjectsSound
  <2> QED BY <1>1, <2>2, <2>3, <2>4 DEF PurgeInv
<1>8. CASE FinalizePurge(p, a) /\ ~Throw(p, a)
  <2>1. /\ db.purge[p] = "purging" /\ db'.purge[p] = "purged" /\ db'.room = "gone"
        /\ \A q \in Purge \ {p} : db'.purge[q] = db.purge[q]
    <3>1. /\ db' = [db EXCEPT !.purge[p] = "purged", !.room = "gone"]
          /\ db.purge[p] = "purging"
      BY <1>8 DEF FinalizePurge
    <3> QED BY <1>0, <3>1 DEF Database
  <2>2. runner'[p][a] = "return" /\ runner[p][a] = "finalize" /\ UNCHANGED <<marker, objects>>
    BY <1>0, <1>8, RunnerMoves DEF FinalizePurge, PC, storageVars
  <2>3. \A q \in Purge \ {p} : db.purge[q] \notin Live
    BY <2>1 DEF PurgeInv, DatabaseSound, Live
  <2>4. DatabaseSound(db)'
    BY <1>1, <1>2, <2>1, <2>2, <2>3 DEF PurgeInv, DatabaseSound, Live
  <2>5. BackupSound'
    BY <1>1, <2>1, <2>2 DEF PurgeInv, BackupSound, DatabaseSound
  <2>6. RunnerSound'
    BY <1>0, <1>1, <1>2, <2>1, <2>2 DEF PurgeInv, RunnerSound, Started
  <2>7. CancelSound' /\ ObjectsSound'
    BY <1>1, <2>1, <2>2 DEF PurgeInv, CancelSound, ObjectsSound
  <2> QED BY <1>1, <2>4, <2>5, <2>6, <2>7 DEF PurgeInv
<1>9. CASE SettlePurge(p, a)
  <2>1. db'.purge = db.purge /\ db'.room = db.room /\ UNCHANGED <<marker, objects>>
    BY <1>0, <1>9 DEF SettlePurge, Database, storageVars
  <2>2. runner'[p][a] = "gone"
    BY <1>0, <1>9, RunnerMoves DEF SettlePurge, PC
  <2> QED BY <1>0, <1>1, <2>1, <2>2, Untouched
<1>10. UNCHANGED <<marker, objects>> \/ PutMarker(p, a) \/ DeleteObjects(p, a)
  BY DEF PurgeStep, BeginPurge, ReadManifest, FinalizePurge, SettlePurge, storageVars
<1> QED BY <1>3, <1>4, <1>5, <1>6, <1>7, <1>8, <1>9, <1>10 DEF PurgeStep

LEMMA QueueStepKeeps ==
  ASSUME PurgeAssumption, TypeOK, PurgeInv, NEW p \in Purge,
         ComeDue(p) \/ ClaimPurge(p) \/ LoseLease(p) \/ ExhaustPurge(p) \/ ReconcileMarker(p)
  PROVE  PurgeInv'
<1>1. /\ db \in Database /\ db.job[p] \in Rows(PurgeAttempts)
      /\ runner \in [Purge -> [Attempt -> PC]]
  BY DEF TypeOK, Database, PC
<1>2. CASE ComeDue(p)
  BY <1>2, Untouched DEF ComeDue, storageVars, ownerVars, recoveryVars
<1>3. CASE ClaimPurge(p)
  <2> DEFINE a == db.job[p].attempts + 1
  <2>1. a \in Attempt
    BY <1>1, <1>3, AttemptsRun DEF ClaimPurge
  <2>2. /\ db'.purge = db.purge /\ db'.room = db.room /\ p \in due
        /\ UNCHANGED <<due, used, marker, objects, cancelling, snapshot, enabled>>
    BY <1>1, <1>3 DEF ClaimPurge, Database, storageVars, ownerVars, recoveryVars
  <2>3. /\ runner'[p][a] = "begin"
        /\ \A q \in Purge, b \in Attempt : q # p \/ b # a => runner'[q][b] = runner[q][b]
    BY <1>1, <1>3, <2>1, RunnerMoves DEF ClaimPurge, PC
  <2>4. RunnerSound'
    BY <2>1, <2>2, <2>3 DEF PurgeInv, RunnerSound
  <2> QED BY <2>2, <2>4
          DEF PurgeInv, DatabaseSound, BackupSound, CancelSound, ObjectsSound
<1>4. CASE LoseLease(p)
  <2>1. db.job[p].live \in Attempt /\ "gone" \in PC
    BY <1>1, <1>4, AttemptsRun DEF LoseLease, PC
  <2>2. runner' = runner \/ Goto(p, db.job[p].live, "gone")
    BY <1>4 DEF LoseLease, Goto
  <2>3. \A q \in Purge, b \in Attempt : runner'[q][b] \in {runner[q][b], "gone"}
    <3>1. CASE runner' = runner
      BY <3>1
    <3>2. CASE Goto(p, db.job[p].live, "gone")
      BY <1>1, <2>1, <3>2, RunnerMoves
    <3> QED BY <2>2, <3>1, <3>2
  <2>4. db'.purge = db.purge /\ db'.room = db.room
    BY <1>1, <1>4 DEF LoseLease, Database
  <2> QED BY <1>4, <2>3, <2>4, Untouched DEF LoseLease, storageVars, ownerVars, recoveryVars
<1>5. CASE ExhaustPurge(p) \/ ReconcileMarker(p)
  <2>1. db'.purge = db.purge /\ db'.room = db.room
    BY <1>1, <1>5 DEF ExhaustPurge, ReconcileMarker, Database
  <2> QED BY <1>5, <2>1, Untouched
          DEF ExhaustPurge, ReconcileMarker, storageVars, ownerVars, recoveryVars
<1> QED BY <1>2, <1>3, <1>4, <1>5

LEMMA RecoveryKeeps ==
  ASSUME PurgeAssumption, TypeOK, PurgeInv, BackUp \/ RestoreDatabase \/ EnableExternal
  PROVE  PurgeInv'
<1>1. CASE BackUp
  <2>1. /\ Saved.purge = db.purge /\ Saved.room = db.room /\ snapshot' = {Saved}
        /\ UNCHANGED <<db, due, used, marker, objects, cancelling, runner, enabled>>
    BY <1>1 DEF BackUp, Saved, TypeOK, Database, storageVars, ownerVars
  <2>2. DatabaseSound(Saved)'
    BY <2>1 DEF PurgeInv, DatabaseSound, Saved
  <2>3. BackupSound'
    BY <2>1, <2>2 DEF BackupSound, DatabaseSound, PurgeInv
  <2> QED BY <2>1, <2>3 DEF PurgeInv, DatabaseSound, RunnerSound, CancelSound, ObjectsSound
<1>2. CASE RestoreDatabase
  <2>1. /\ DatabaseSound(db') /\ snapshot' = {} /\ ~enabled'
        /\ UNCHANGED <<due, used, marker, objects>>
    BY <1>2 DEF RestoreDatabase, PurgeInv, BackupSound, storageVars
  <2>2. /\ \A p \in Purge, a \in Attempt : runner'[p][a] = "gone"
        /\ \A o \in Owner : cancelling'[o] = 0
    BY <1>2 DEF RestoreDatabase
  <2>3. DatabaseSound(db)'
    BY <2>1 DEF DatabaseSound
  <2>4. 0 \notin Purge
    BY FS_CardinalityType DEF PurgeAssumption
  <2> QED BY <2>1, <2>2, <2>3, <2>4
          DEF PurgeInv, RunnerSound, BackupSound, CancelSound, ObjectsSound
<1>3. CASE EnableExternal
  <2>1. UNCHANGED <<db, due, used, storageVars, ownerVars, runner, snapshot>>
    BY <1>3 DEF EnableExternal, AskUnreconciled, ListMarkers, MatchRooms, OperatorGoto
  <2>2. enabled' => enabled \/ objects = "whole" \/ \E p \in Purge : db.purge[p] = "purged"
    BY <1>3 DEF EnableExternal, AskUnreconciled, ListMarkers, MatchRooms, MarkedInStorage,
                PurgeInv, ObjectsSound, DatabaseSound
  <2> QED BY <2>1, <2>2, Untouched DEF storageVars, ownerVars
<1> QED BY <1>1, <1>2, <1>3

LEMMA NextKeeps ==
  ASSUME PurgeAssumption, TypeOK, PurgeInv, [Next]_vars
  PROVE  TypeOK' /\ PurgeInv'
<1>1. ASSUME NEW o \in Owner, OwnerStep(o) PROVE TypeOK' /\ PurgeInv'
  BY <1>1, OwnerStepTyped, OwnerStepKeeps
<1>2. ASSUME NEW p \in Purge, NEW a \in Attempt, PurgeStep(p, a) PROVE TypeOK' /\ PurgeInv'
  BY <1>2, PurgeStepTyped, PurgeStepKeeps DEF PurgeInv
<1>3. ASSUME NEW p \in Purge,
             ComeDue(p) \/ ClaimPurge(p) \/ LoseLease(p) \/ ExhaustPurge(p) \/ ReconcileMarker(p)
      PROVE  TypeOK' /\ PurgeInv'
  BY <1>3, QueueStepTyped, QueueStepKeeps
<1>4. CASE BackUp \/ RestoreDatabase \/ EnableExternal
  BY <1>4, RecoveryTyped, RecoveryKeeps
<1>5. CASE UNCHANGED vars
  <2>1. TypeOK'
    BY <1>5 DEF vars, TypeOK, storageVars, ownerVars, recoveryVars
  <2>2. PurgeInv'
    BY <1>5, Untouched DEF vars, storageVars, ownerVars, recoveryVars
  <2> QED BY <2>1, <2>2
<1> QED BY <1>1, <1>2, <1>3, <1>4, <1>5 DEF Next

LEMMA InitHolds == PurgeAssumption /\ Init => TypeOK /\ PurgeInv
<1> SUFFICES ASSUME PurgeAssumption, Init PROVE TypeOK /\ PurgeInv
  OBVIOUS
<1>1. Absent \in Rows(PurgeAttempts)
  BY DEF Absent, Row, Columns, Rows, PurgeAssumption
<1>2. TypeOK
  BY <1>1 DEF Init, TypeOK, Database
<1>3. used = 1..Cardinality(used)
  BY FS_EmptySet DEF Init
<1> QED BY <1>2, <1>3 DEF Init, PurgeInv, DatabaseSound, RunnerSound, BackupSound, CancelSound,
                          ObjectsSound, Live

-----------------------------------------------------------------------------

LEMMA Inductive == Spec => [](TypeOK /\ PurgeInv)
BY InitHolds, NextKeeps, PurgeAssumption, PTL DEF Spec

\* However many purges of a room are scheduled, cancelled, retried and restored, the state
\* keeps its type.
THEOREM PurgeTypeCorrect == Spec => []TypeOK
BY Inductive, PTL

\* A purge has its room to itself from its first step to its last, its marker is in storage
\* before the first object is deleted, and once it is cancelled it does nothing
\* (011:164, 011:194).
THEOREM PurgesAreSound == Spec => []PurgeSound
<1>1. ASSUME PurgeAssumption, TypeOK, PurgeInv PROVE PurgeSound
  <2>1. PurgeHoldsRoom
    <3> DEFINE S == {p \in Purge : db.purge[p] \in Live}
    <3>1. \A p, q \in S : p = q
      BY <1>1 DEF PurgeInv, DatabaseSound
    <3>2. Cardinality(S) <= 1
      BY ONLY <3>1, AtMostOne
    <3> QED BY <1>1, <3>2 DEF PurgeInv, DatabaseSound, PurgeHoldsRoom
  <2>2. MarkerFirst
    BY <1>1 DEF PurgeInv, DatabaseSound, ObjectsSound, MarkerFirst
  <2>3. CancelledStands
    BY <1>1 DEF PurgeInv, DatabaseSound, RunnerSound, CancelledStands, Started
  <2> QED BY <2>1, <2>2, <2>3 DEF PurgeSound
<1> QED BY <1>1, Inductive, PurgeAssumption, PTL

\* Whichever backup is restored, external access comes back only to a room that has all its
\* objects or is not open (apps/cli/src/lifecycle.ts:356).
THEOREM PurgedStaysGone == Spec => []NoResurrection
<1>1. ASSUME PurgeInv PROVE NoResurrection
  BY <1>1 DEF PurgeInv, ObjectsSound, DatabaseSound, NoResurrection, Live
<1> QED BY <1>1, Inductive, PTL
=============================================================================
