--------------------------- MODULE UploadsProofs ---------------------------
(***************************************************************************)
(* Theorems about what enters a room and what leaves it whole: an upload,  *)
(* for any number of finalizing requests and of reap attempts, and an      *)
(* export, for any number of generation attempts, of members who ask for   *)
(* its archive and of clean-ups that overlap and fail.                     *)
(***************************************************************************)
EXTENDS MCUploads, WorkRowsProofs

PC == {"idle", "mark", "complete", "head", "begin", "lock", "locked", "record", "delete",
       "abort", "gone"}
ReaperPC == {"gone", "claimed", "abortLive", "abortSettled", "expire", "delete", "return",
             "throw"}

\* A finalizer that moves on stays a finalizer and leaves the others where they are.
LEMMA Moves ==
  ASSUME finalizer \in [Request -> Finalizing], NEW f \in Request, NEW pc \in PC, Goto(f, pc)
  PROVE  /\ finalizer' \in [Request -> Finalizing]
         /\ finalizer'[f].pc = pc
         /\ \A g \in Request \ {f} : finalizer'[g] = finalizer[g]
<1>1. finalizer[f] \in Finalizing
  OBVIOUS
<1>2. [finalizer[f] EXCEPT !.pc = pc] \in Finalizing
  BY <1>1 DEF Finalizing, PC
<1>3. [finalizer[f] EXCEPT !.pc = pc].pc = pc
  BY <1>1 DEF Finalizing
<1>4. finalizer' = [finalizer EXCEPT ![f] = [finalizer[f] EXCEPT !.pc = pc]]
  BY DEF Goto
<1> QED BY <1>2, <1>3, <1>4

LEMMA ReaperMoves ==
  ASSUME reaper \in [ReapRun -> ReaperPC], NEW a \in ReapRun, NEW pc \in ReaperPC,
         ReaperGoto(a, pc)
  PROVE  /\ reaper' \in [ReapRun -> ReaperPC]
         /\ reaper'[a] = pc
         /\ \A b \in ReapRun \ {a} : reaper'[b] = reaper[b]
BY DEF ReaperGoto

\* Every step of a finalizer puts it somewhere, and only it.
LEMMA FinalizerMoves ==
  ASSUME finalizer \in [Request -> Finalizing], NEW f \in Request,
         FinalizeStep(f) \/ FinalizerDies(f)
  PROVE  /\ finalizer' \in [Request -> Finalizing]
         /\ \A g \in Request \ {f} : finalizer'[g] = finalizer[g]
         /\ finalizer[f].pc # "gone"
<1>0. /\ finalizer[f] \in Finalizing
      /\ \A recorded \in BOOLEAN : Cleanup(f, recorded) \in PC
  BY DEF Cleanup, PC
<1>1. finalizer[f].pc # "gone"
  BY DEF FinalizeStep, FinalizerDies, ReadIntent, MarkCompleting, CompleteMultipart, HeadObject,
         BeginTransaction, LockIntent, CommitVersion, RefuseVersion, RecordFailure,
         DeleteCompleted, AbortParts, At
<1>2. CASE \E pc \in PC : Goto(f, pc)
  BY <1>1, <1>2, Moves
<1>3. CASE \E x \in Finalizing : finalizer' = [finalizer EXCEPT ![f] = x]
  BY <1>1, <1>3
<1>4. CASE CompleteMultipart(f)
  <2>1. [pc |-> "head", completed |-> "yes", fresh |-> finalizer[f].fresh] \in Finalizing
    BY <1>0 DEF Finalizing
  <2> QED BY <2>1, <1>1, <1>2, <1>3, <1>4 DEF CompleteMultipart, PC
<1>5. CASE BeginTransaction(f)
  <2>1. [pc |-> "lock", completed |-> finalizer[f].completed,
         fresh |-> IF expired THEN "no" ELSE "yes"] \in Finalizing
    BY <1>0 DEF Finalizing
  <2> QED BY <2>1, <1>1, <1>2, <1>3, <1>5 DEF BeginTransaction, PC
<1>6. CASE RecordFailure(f)
  BY <1>0, <1>1, <1>2, <1>6 DEF RecordFailure
<1>7. CASE \/ ReadIntent(f) \/ MarkCompleting(f) \/ HeadObject(f) \/ LockIntent(f)
           \/ CommitVersion(f) \/ RefuseVersion(f) \/ DeleteCompleted(f) \/ AbortParts(f)
           \/ FinalizerDies(f)
  BY <1>1, <1>2, <1>7
  DEF ReadIntent, MarkCompleting, HeadObject, LockIntent, CommitVersion, RefuseVersion,
      DeleteCompleted, AbortParts, FinalizerDies, PC
<1> QED BY <1>4, <1>5, <1>6, <1>7 DEF FinalizeStep

LEMMA ReaperSteps ==
  ASSUME UploadAssumption, reaper \in [ReapRun -> ReaperPC], reap \in Rows(ReapAttempts),
         NEW a \in ReapRun, ReapStep(a) \/ ReaperDies(a)
  PROVE  /\ reaper' \in [ReapRun -> ReaperPC]
         /\ reap' \in Rows(ReapAttempts)
         /\ \A b \in ReapRun \ {a} : reaper'[b] = reaper[b]
<1>1. \E pc \in ReaperPC : ReaperGoto(a, pc)
  BY DEF ReapStep, SelectIntent, AbortMultipart, ExpireIntent, DeleteAssembled, SettleReap,
         ReaperDies, ReaperPC
<1>2. reap' \in Rows(ReapAttempts)
  BY RowsTyped
  DEF ReapStep, SelectIntent, AbortMultipart, ExpireIntent, DeleteAssembled, SettleReap,
      ReaperDies, UploadAssumption
<1> QED BY <1>1, <1>2, ReaperMoves

LEMMA InitTyped ==
  ASSUME UploadAssumption, Init
  PROVE  TypeOK
<1>1. reap \in Rows(ReapAttempts)
  BY DEF Init, UploadAssumption, Absent, Row, Columns, Rows
<1>2. finalizer \in [Request -> Finalizing]
  BY DEF Init, Idle, Finalizing
<1> QED BY <1>1, <1>2 DEF Init, TypeOK

LEMMA StepTyped ==
  ASSUME UploadAssumption, TypeOK, [Next]_vars
  PROVE  TypeOK'
<1> USE UploadAssumption
<1>1. CASE UNCHANGED vars
  BY <1>1 DEF vars, TypeOK
<1>2. CASE CreateStep \/ Expire
  <2>1. reap' \in Rows(ReapAttempts)
    BY <1>2, RowsTyped DEF CreateStep, CreateMultipart, InsertIntent, InsertRefused, UndoMultipart,
       CreatorDies, Expire, UploadAssumption, TypeOK, reapVars
  <2> QED BY <1>2, <2>1 DEF CreateStep, CreateMultipart, InsertIntent, InsertRefused,
          UndoMultipart, CreatorDies, Expire, TypeOK, reapVars, storageVars
<1>3. ASSUME NEW f \in Request, FinalizeStep(f) \/ FinalizerDies(f)
      PROVE  TypeOK'
  <2>1. finalizer' \in [Request -> Finalizing]
    BY <1>3, FinalizerMoves DEF TypeOK
  <2> USE DEF FinalizeStep, FinalizerDies, ReadIntent, MarkCompleting, CompleteMultipart,
          HeadObject, BeginTransaction, LockIntent, CommitVersion, RefuseVersion,
          RecordFailure, DeleteCompleted, AbortParts
  <2>2. UNCHANGED <<expired, creator, reap, reaper>>
    BY <1>3 DEF reapVars
  <2>3. /\ intent' \in {intent, "completing", "finalized", "failed"}
        /\ version' \in {version, TRUE}
    BY <1>3
  <2>4. multipart' \in {multipart, FALSE} /\ object' \in {object, TRUE, FALSE}
    BY <1>3 DEF storageVars
  <2> QED BY <2>1, <2>2, <2>3, <2>4 DEF TypeOK
<1>4. CASE ClaimReap
  <2>1. reap.attempts + 1 \in ReapRun /\ reap' \in Rows(ReapAttempts)
    BY <1>4, RowsTyped DEF ClaimReap, UploadAssumption, TypeOK, ReapRun
  <2> QED BY <1>4, <2>1 DEF ClaimReap, ReaperGoto, TypeOK, storageVars
<1>5. CASE LoseReapLease \/ ExhaustReap
  <2>1. reap' \in Rows(ReapAttempts)
    BY <1>5, RowsTyped DEF LoseReapLease, ExhaustReap, UploadAssumption, TypeOK
  <2> QED BY <1>5, <2>1 DEF LoseReapLease, ExhaustReap, TypeOK, storageVars
<1>6. ASSUME NEW a \in ReapRun, ReapStep(a) \/ ReaperDies(a)
      PROVE  TypeOK'
  <2>1. reaper' \in [ReapRun -> ReaperPC] /\ reap' \in Rows(ReapAttempts)
    BY <1>6, ReaperSteps DEF TypeOK, ReaperPC
  <2> QED BY <1>6, <2>1 DEF ReapStep, SelectIntent, AbortMultipart, ExpireIntent,
          DeleteAssembled, SettleReap, ReaperDies, TypeOK, ReaperPC, storageVars
<1> QED BY <1>1, <1>2, <1>3, <1>4, <1>5, <1>6 DEF Next

\* Every reachable state of an upload is well typed.
THEOREM UploadTypeCorrect == ASSUME UploadAssumption PROVE Spec => []TypeOK
BY InitTyped, StepTyped, PTL DEF Spec

-----------------------------------------------------------------------------
(* The object of a committed version is kept.  Only the request that took   *)
(* the intent from open to completing is ever past its first statement, and *)
(* whoever is about to delete the object has seen the intent settled        *)
(* against the version, for good.                                           *)

Past == PC \ {"idle", "mark", "gone"}

\* Nobody finalizes an intent that is not inserted or still open, and one request at most
\* finalizes it after that.
OneFinalizer ==
  /\ creator \in {"idle", "insert"} => intent = "none"
  /\ \A f \in Request : finalizer[f].pc \in Past => intent \notin {"none", "open"}
  /\ \A f, g \in Request : finalizer[f].pc \in Past /\ finalizer[g].pc \in Past => f = g

\* Whoever deletes the object has seen the intent fail or expire.
DeletersRight ==
  /\ \A f \in Request : finalizer[f].pc = "delete" => intent = "failed"
  /\ \A a \in ReapRun : reaper[a] \in {"delete", "abortSettled"} =>
                          intent \in {"failed", "expired"}

\* A finalizer that has seen the object still has it as long as the intent is completing,
\* which it is while the row is locked.
ObjectSeen ==
  /\ \A f \in Request :
       finalizer[f].pc \in {"begin", "lock", "locked"} /\ intent = "completing" => object
  /\ \A f \in Request : finalizer[f].pc = "locked" => intent = "completing"

KeepsInv == OneFinalizer /\ DeletersRight /\ ObjectSeen /\ VersionKeepsObject

LEMMA InitKeeps == Init => KeepsInv
BY DEF Init, Idle, KeepsInv, OneFinalizer, DeletersRight, ObjectSeen, VersionKeepsObject, Past

LEMMA CreatorKeeps ==
  ASSUME TypeOK, KeepsInv, CreateStep \/ Expire
  PROVE  KeepsInv'
<1> USE DEF reapVars, storageVars, Past, KeepsInv, OneFinalizer, DeletersRight, ObjectSeen,
            VersionKeepsObject
<1>1. CASE CreateMultipart
  BY <1>1 DEF CreateMultipart
<1>2. CASE InsertIntent
  <2>1. intent = "none" /\ ~version
    BY <1>2 DEF InsertIntent
  <2>2. intent' = "open" /\ version' = version /\ finalizer' = finalizer /\ reaper' = reaper
        /\ object' = object /\ creator' \in {"gone", "undo"}
    BY <1>2 DEF InsertIntent
  <2>3. ~version'
    BY <2>1, <2>2
  <2>4. \A f \in Request : finalizer'[f].pc \notin Past /\ finalizer'[f].pc # "delete"
    BY <2>1, <2>2 DEF PC
  <2>5. \A a \in ReapRun : reaper'[a] \notin {"delete", "abortSettled"}
    BY <2>1, <2>2
  <2>6. OneFinalizer'
    BY <2>2, <2>4
  <2>7. DeletersRight'
    BY <2>4, <2>5
  <2>8. ObjectSeen'
    BY <2>4 DEF PC
  <2>9. VersionKeepsObject'
    BY <2>3
  <2> QED BY <2>6, <2>7, <2>8, <2>9
<1>3. CASE InsertRefused \/ UndoMultipart \/ CreatorDies
  <2>1. /\ intent' = intent /\ object' = object /\ version' = version
        /\ finalizer' = finalizer /\ reaper' = reaper /\ creator' \in {"undo", "gone"}
    BY <1>3 DEF InsertRefused, UndoMultipart, CreatorDies
  <2> QED BY <2>1
<1>4. CASE Expire
  BY <1>4 DEF Expire
<1> QED BY <1>1, <1>2, <1>3, <1>4 DEF CreateStep

LEMMA FinalizerKeeps ==
  ASSUME TypeOK, KeepsInv, NEW f \in Request, FinalizeStep(f) \/ FinalizerDies(f)
  PROVE  KeepsInv'
<1>1. \A g \in Request \ {f} : finalizer'[g] = finalizer[g]
  BY FinalizerMoves DEF TypeOK
<1>2. \A x \in PC : Goto(f, x) => finalizer'[f].pc = x
  BY Moves DEF TypeOK
<1> USE <1>1, <1>2 DEF PC, Past, KeepsInv, OneFinalizer, DeletersRight, ObjectSeen,
                       VersionKeepsObject, At, reapVars, storageVars
<1>3. CASE ReadIntent(f)
  BY <1>3 DEF ReadIntent
<1>4. CASE MarkCompleting(f)
  BY <1>4 DEF MarkCompleting
<1>5. CASE CompleteMultipart(f)
  BY <1>5 DEF CompleteMultipart, TypeOK
<1>6. CASE HeadObject(f)
  BY <1>6 DEF HeadObject
<1>7. CASE BeginTransaction(f)
  BY <1>7 DEF BeginTransaction, TypeOK
<1>8. CASE LockIntent(f)
  BY <1>8 DEF LockIntent
<1>9. CASE CommitVersion(f)
  BY <1>9 DEF CommitVersion
<1>10. CASE RefuseVersion(f)
  BY <1>10 DEF RefuseVersion
<1>11. CASE RecordFailure(f)
  BY <1>11 DEF RecordFailure, Cleanup
<1>12. CASE DeleteCompleted(f)
  BY <1>12 DEF DeleteCompleted
<1>13. CASE AbortParts(f)
  BY <1>13 DEF AbortParts
<1>14. CASE FinalizerDies(f)
  BY <1>14 DEF FinalizerDies
<1> QED BY <1>3, <1>4, <1>5, <1>6, <1>7, <1>8, <1>9, <1>10, <1>11, <1>12, <1>13, <1>14
        DEF FinalizeStep

LEMMA ReaperKeeps ==
  ASSUME TypeOK, KeepsInv, NEW a \in ReapRun, ReapStep(a) \/ ReaperDies(a)
  PROVE  KeepsInv'
<1>1. \A x \in ReaperPC : ReaperGoto(a, x) =>
        reaper'[a] = x /\ \A b \in ReapRun \ {a} : reaper'[b] = reaper[b]
  BY ReaperMoves DEF TypeOK, ReaperPC
<1> USE <1>1 DEF ReaperPC, Past, KeepsInv, OneFinalizer, DeletersRight, ObjectSeen,
                 VersionKeepsObject, storageVars
<1>2. CASE SelectIntent(a)
  BY <1>2 DEF SelectIntent, Reapable
<1>3. CASE AbortMultipart(a)
  BY <1>3 DEF AbortMultipart
<1>4. CASE ExpireIntent(a)
  BY <1>4 DEF ExpireIntent, Locked, At
<1>5. CASE DeleteAssembled(a)
  BY <1>5 DEF DeleteAssembled
<1>6. CASE SettleReap(a) \/ ReaperDies(a)
  BY <1>6 DEF SettleReap, ReaperDies
<1> QED BY <1>2, <1>3, <1>4, <1>5, <1>6 DEF ReapStep

LEMMA StepKeeps ==
  ASSUME UploadAssumption, TypeOK, KeepsInv, [Next]_vars
  PROVE  KeepsInv'
<1>1. CASE UNCHANGED vars
  BY <1>1 DEF vars, Past, KeepsInv, OneFinalizer, DeletersRight, ObjectSeen, VersionKeepsObject
<1>2. CASE ClaimReap
  <2>1. reap.attempts + 1 \in ReapRun
    BY <1>2, RowsTyped DEF ClaimReap, UploadAssumption, TypeOK, ReapRun
  <2>2. ReaperGoto(reap.attempts + 1, "claimed")
    BY <1>2 DEF ClaimReap
  <2>3. /\ reaper'[reap.attempts + 1] = "claimed"
        /\ \A b \in ReapRun \ {reap.attempts + 1} : reaper'[b] = reaper[b]
    BY <2>1, <2>2, ReaperMoves DEF TypeOK, ReaperPC
  <2> QED BY <1>2, <2>1, <2>3 DEF ClaimReap, storageVars, Past, KeepsInv, OneFinalizer,
             DeletersRight, ObjectSeen, VersionKeepsObject
<1>3. CASE LoseReapLease \/ ExhaustReap
  BY <1>3 DEF LoseReapLease, ExhaustReap, storageVars, Past, KeepsInv, OneFinalizer,
     DeletersRight, ObjectSeen, VersionKeepsObject
<1> QED BY <1>1, <1>2, <1>3, CreatorKeeps, FinalizerKeeps, ReaperKeeps DEF Next

\* However many requests finalize an upload, whatever fails or stops half way, and
\* however late its reaper runs: the object of a committed version is not deleted by any
\* of them (finalizeUpload, multipart-reap.ts).
THEOREM VersionsKeepObjects == ASSUME UploadAssumption PROVE Spec => []VersionKeepsObject
<1>1. Init => TypeOK /\ KeepsInv
  BY InitTyped, InitKeeps
<1>2. TypeOK /\ KeepsInv /\ [Next]_vars => TypeOK' /\ KeepsInv'
  BY StepTyped, StepKeeps
<1>3. KeepsInv => VersionKeepsObject
  BY DEF KeepsInv
<1> QED BY <1>1, <1>2, <1>3, PTL DEF Spec

-----------------------------------------------------------------------------
(* What an unfinished upload leaves behind is reaped.  Once the intent      *)
(* exists nothing starts another multipart upload, and an object comes from *)
(* the multipart upload alone; so an upload that is clean stays clean, and  *)
(* the row of the reaper is completed only by a run that saw it clean.      *)

Clean == intent = "finalized" \/ (~multipart /\ ~object)

\* The row is there as soon as the intent is, and is not started before the deadline.
RowFollowsIntent ==
  /\ creator \in {"idle", "insert"} => intent = "none"
  /\ IF intent = "none" THEN reap.stage = "absent"
     ELSE reap.stage \in {"queued", "running", "done", "failed"}
  /\ reap.stage \in {"running", "done", "failed"} => expired
  /\ \A a \in ReapRun : reaper[a] # "gone" => intent # "none"

\* What a run of the reaper knows of the storage when it gets there.
ReaperKnows ==
  /\ \A a \in ReapRun : reaper[a] \in {"expire", "delete"} => ~multipart
  /\ \A a \in ReapRun : reaper[a] = "return" /\ HeldBy(reap, a) => Clean
  /\ reap.stage = "done" => Clean

ReapedInv == RowFollowsIntent /\ ReaperKnows

LEMMA InitReaped == UploadAssumption /\ Init => ReapedInv
BY DEF Init, Absent, Row, Columns, HeldBy, ReapedInv, RowFollowsIntent, ReaperKnows

LEMMA ReapedSuffices == ASSUME ReapedInv PROVE LeftoversHaveReaper
BY DEF ReapedInv, RowFollowsIntent, ReaperKnows, Clean, LeftoversHaveReaper

\* A step of the web process or the clock that leaves the reaper and its row alone.
LEMMA OthersReaped ==
  ASSUME ReapedInv, UNCHANGED <<reap, reaper>>, intent # "none",
         intent' \notin {"none"} , intent = "finalized" => intent' = "finalized",
         ~multipart => ~multipart', ~multipart /\ ~object => ~object',
         expired => expired', creator' \notin {"idle", "insert"}
  PROVE  ReapedInv'
<1>1. RowFollowsIntent'
  BY DEF ReapedInv, RowFollowsIntent
<1>2. Clean => Clean'
  BY DEF Clean
<1>3. ReaperKnows'
  BY <1>2 DEF ReapedInv, ReaperKnows, HeldBy
<1> QED BY <1>1, <1>3 DEF ReapedInv

LEMMA CreatorReaped ==
  ASSUME UploadAssumption, TypeOK, ReapedInv, CreateStep \/ Expire
  PROVE  ReapedInv'
<1>1. CASE intent # "none"
  <2>1. creator \notin {"idle", "insert"}
    BY <1>1 DEF ReapedInv, RowFollowsIntent
  <2>2. UndoMultipart \/ CreatorDies \/ Expire
    BY <2>1 DEF CreateStep, CreateMultipart, InsertIntent, InsertRefused
  <2>3. /\ intent' = intent /\ object' = object /\ UNCHANGED <<reap, reaper>>
        /\ creator' \notin {"idle", "insert"}
    BY <2>1, <2>2 DEF UndoMultipart, CreatorDies, Expire, reapVars, storageVars
  <2>4. (expired => expired') /\ (~multipart => ~multipart')
    <3>1. multipart' = multipart \/ multipart' = FALSE
      BY <2>2 DEF UndoMultipart, CreatorDies, Expire, storageVars
    <3>2. expired' = expired \/ expired' = TRUE
      BY <2>2 DEF UndoMultipart, CreatorDies, Expire
    <3> QED BY <3>1, <3>2
  <2> QED BY <1>1, <2>3, <2>4, OthersReaped
<1>2. CASE intent = "none"
  <2>1. /\ \A a \in ReapRun : reaper[a] = "gone"
        /\ reaper' = reaper
    BY <1>2 DEF ReapedInv, RowFollowsIntent, CreateStep, CreateMultipart, InsertIntent,
       InsertRefused, UndoMultipart, CreatorDies, Expire, reapVars
  <2>2. CASE InsertIntent
    <3>1. intent' = "open" /\ reap'.stage = "queued" /\ creator' \notin {"idle", "insert"}
      BY <2>2 DEF InsertIntent, Queued, Row, Columns
    <3> QED BY <2>1, <3>1 DEF ReapedInv, RowFollowsIntent, ReaperKnows
  <2>3. CASE ~InsertIntent
    <3>1. reap' = reap /\ intent' = intent /\ reap.stage = "absent"
      BY <1>2, <2>3 DEF ReapedInv, RowFollowsIntent, CreateStep, CreateMultipart,
         InsertRefused, UndoMultipart, CreatorDies, Expire, reapVars
    <3> QED BY <1>2, <2>1, <3>1 DEF ReapedInv, RowFollowsIntent, ReaperKnows
  <2> QED BY <2>2, <2>3
<1> QED BY <1>1, <1>2

LEMMA FinalizerReaped ==
  ASSUME TypeOK, KeepsInv, ReapedInv, NEW f \in Request, FinalizeStep(f) \/ FinalizerDies(f)
  PROVE  ReapedInv'
<1>1. intent # "none" \/ UNCHANGED <<intent, expired, multipart, object, creator, reap, reaper>>
  BY DEF KeepsInv, OneFinalizer, Past, PC, FinalizeStep, FinalizerDies, ReadIntent,
     MarkCompleting, CompleteMultipart, HeadObject, BeginTransaction, LockIntent, CommitVersion,
     RefuseVersion, RecordFailure, DeleteCompleted, AbortParts, At, storageVars, reapVars
<1>2. /\ UNCHANGED <<expired, creator, reap, reaper>>
      /\ intent' = intent \/ intent' \in {"completing", "finalized", "failed"}
      /\ intent = "finalized" => intent' = "finalized"
  BY DEF KeepsInv, ObjectSeen, FinalizeStep, FinalizerDies, ReadIntent,
     MarkCompleting, CompleteMultipart, HeadObject, BeginTransaction, LockIntent, CommitVersion,
     RefuseVersion, RecordFailure, DeleteCompleted, AbortParts, At, storageVars, reapVars
<1>5. (~multipart => ~multipart') /\ (~multipart /\ ~object => ~object')
  <2>1. CASE CompleteMultipart(f)
    BY <2>1 DEF CompleteMultipart, storageVars
  <2>2. CASE DeleteCompleted(f)
    <3>1. (object' = object \/ object' = FALSE) /\ multipart' = multipart
      BY <2>2 DEF DeleteCompleted
    <3> QED BY <3>1
  <2>3. CASE AbortParts(f)
    <3>1. (multipart' = multipart \/ multipart' = FALSE) /\ object' = object
      BY <2>3 DEF AbortParts
    <3> QED BY <3>1
  <2>4. CASE ~(CompleteMultipart(f) \/ DeleteCompleted(f) \/ AbortParts(f))
    <3>1. UNCHANGED storageVars
      BY <2>4 DEF FinalizeStep, FinalizerDies, ReadIntent, MarkCompleting, HeadObject,
         BeginTransaction, LockIntent, CommitVersion, RefuseVersion, RecordFailure, storageVars
    <3> QED BY <3>1 DEF storageVars
  <2> QED BY <2>1, <2>2, <2>3, <2>4
<1>3. CASE intent # "none"
  BY <1>2, <1>3, <1>5, OthersReaped DEF ReapedInv, RowFollowsIntent
<1>4. CASE UNCHANGED <<intent, expired, multipart, object, creator, reap, reaper>>
  BY <1>4 DEF ReapedInv, RowFollowsIntent, ReaperKnows, Clean, HeldBy
<1> QED BY <1>1, <1>3, <1>4

LEMMA ReaperReaped ==
  ASSUME UploadAssumption, TypeOK, ReapedInv, NEW a \in ReapRun, ReapStep(a) \/ ReaperDies(a)
  PROVE  ReapedInv'
<1>1. \A x \in ReaperPC : ReaperGoto(a, x) =>
        reaper'[a] = x /\ \A b \in ReapRun \ {a} : reaper'[b] = reaper[b]
  BY ReaperMoves DEF TypeOK, ReaperPC
<1>2. reaper[a] # "gone"
  BY DEF ReapStep, ReaperDies, SelectIntent, AbortMultipart, ExpireIntent, DeleteAssembled,
     SettleReap
<1>3. intent # "none" /\ creator \notin {"idle", "insert"}
  BY <1>2 DEF ReapedInv, RowFollowsIntent
<1> USE <1>1 DEF ReaperPC
<1>4. CASE SelectIntent(a)
  <2>1. /\ intent' = intent /\ object' = object /\ multipart' = multipart /\ reap' = reap
        /\ expired' = expired /\ creator' = creator
        /\ \A b \in ReapRun \ {a} : reaper'[b] = reaper[b]
        /\ reaper'[a] \in {"abortLive", "abortSettled", "return", "throw"}
    BY <1>4 DEF SelectIntent, storageVars
  <2>2. ASSUME reaper'[a] = "return", HeldBy(reap, a)
        PROVE  intent = "finalized"
    <3>1. ~Reapable
      BY <2>2, <1>4 DEF SelectIntent, Holds
    <3>2. expired
      BY <2>2 DEF HeldBy, ReapedInv, RowFollowsIntent
    <3> QED BY <1>3, <3>1, <3>2 DEF Reapable, TypeOK
  <2>3. RowFollowsIntent'
    BY <1>3, <2>1 DEF ReapedInv, RowFollowsIntent
  <2>4. ReaperKnows'
    BY <2>1, <2>2 DEF ReapedInv, ReaperKnows, Clean, HeldBy
  <2> QED BY <2>3, <2>4 DEF ReapedInv
<1>5. CASE AbortMultipart(a) \/ DeleteAssembled(a)
  <2>1. /\ intent' = intent /\ reap' = reap /\ expired' = expired /\ creator' = creator
        /\ \A b \in ReapRun \ {a} : reaper'[b] = reaper[b]
    BY <1>5 DEF AbortMultipart, DeleteAssembled
  <2>2. /\ multipart' = multipart \/ multipart' = FALSE
        /\ object' = object \/ object' = FALSE
    BY <1>5 DEF AbortMultipart, DeleteAssembled
  <2>3. reaper'[a] \in {"expire", "delete"} => ~multipart'
    BY <1>5 DEF AbortMultipart, DeleteAssembled
  <2>4. reaper'[a] = "return" => ~multipart' /\ ~object'
    BY <1>5, <2>2 DEF AbortMultipart, DeleteAssembled, ReapedInv, ReaperKnows
  <2>5. Clean => Clean'
    BY <2>1, <2>2 DEF Clean
  <2>6. RowFollowsIntent'
    BY <1>3, <2>1 DEF ReapedInv, RowFollowsIntent
  <2>7. \A b \in ReapRun : reaper'[b] \in {"expire", "delete"} => ~multipart'
    BY <2>1, <2>2, <2>3 DEF ReapedInv, ReaperKnows
  <2>8. \A b \in ReapRun : reaper'[b] = "return" /\ HeldBy(reap, b) => Clean'
    BY <2>1, <2>4, <2>5 DEF ReapedInv, ReaperKnows, Clean
  <2>9. reap.stage = "done" => Clean'
    BY <2>5 DEF ReapedInv, ReaperKnows
  <2> QED BY <2>1, <2>6, <2>7, <2>8, <2>9 DEF ReapedInv, ReaperKnows, HeldBy
<1>6. CASE ExpireIntent(a)
  <2>1. /\ intent' = intent \/ (intent \in {"open", "completing"} /\ intent' = "expired")
        /\ reap' = reap /\ expired' = expired /\ creator' = creator
        /\ multipart' = multipart /\ object' = object
        /\ \A b \in ReapRun \ {a} : reaper'[b] = reaper[b]
        /\ reaper'[a] \in {"delete", "throw", "gone"} /\ reaper[a] = "expire"
    BY <1>6 DEF ExpireIntent, storageVars
  <2>2. Clean => Clean'
    BY <2>1 DEF Clean
  <2>3. RowFollowsIntent'
    BY <1>3, <2>1 DEF ReapedInv, RowFollowsIntent
  <2>4. ReaperKnows'
    BY <2>1, <2>2 DEF ReapedInv, ReaperKnows, HeldBy
  <2> QED BY <2>3, <2>4 DEF ReapedInv
<1>7. CASE SettleReap(a) \/ ReaperDies(a)
  <2>1. /\ intent' = intent /\ expired' = expired /\ creator' = creator
        /\ multipart' = multipart /\ object' = object
        /\ \A b \in ReapRun \ {a} : reaper'[b] = reaper[b]
        /\ reaper'[a] = "gone"
    BY <1>7 DEF SettleReap, ReaperDies, storageVars
  <2>2. \/ reap' = reap
        \/ reap'.live = 0 /\ reap'.stage = "done" /\ HeldBy(reap, a) /\ reaper[a] = "return"
        \/ reap'.live = 0 /\ reap'.stage \in {"running", "queued"} /\ HeldBy(reap, a)
    BY <1>7 DEF SettleReap, ReaperDies, Holds, HeldBy, Completed, GivenBack, Columns
  <2>3. RowFollowsIntent'
    BY <1>3, <2>1, <2>2 DEF ReapedInv, RowFollowsIntent, HeldBy
  <2>4. \A b \in ReapRun : b # 0
    BY DEF ReapRun
  <2>5. ReaperKnows'
    BY <2>1, <2>2, <2>4 DEF ReapedInv, ReaperKnows, HeldBy, Clean
  <2> QED BY <2>3, <2>5 DEF ReapedInv
<1> QED BY <1>4, <1>5, <1>6, <1>7 DEF ReapStep

LEMMA RowReaped ==
  ASSUME UploadAssumption, TypeOK, ReapedInv, ClaimReap \/ LoseReapLease \/ ExhaustReap
  PROVE  ReapedInv'
<1>1. CASE ClaimReap
  <2>1. reap.attempts + 1 \in ReapRun
    BY <1>1, RowsTyped DEF ClaimReap, UploadAssumption, TypeOK, ReapRun
  <2>2. ReaperGoto(reap.attempts + 1, "claimed")
    BY <1>1 DEF ClaimReap
  <2>3. /\ reaper'[reap.attempts + 1] = "claimed"
        /\ \A b \in ReapRun \ {reap.attempts + 1} : reaper'[b] = reaper[b]
    BY <2>1, <2>2, ReaperMoves DEF TypeOK, ReaperPC
  <2>4. /\ reap'.stage = "running" /\ reap'.live = reap.attempts + 1
        /\ reap.stage \in {"queued", "running"} /\ (reap.stage = "queued" => expired)
        /\ intent' = intent /\ expired' = expired /\ creator' = creator
        /\ multipart' = multipart /\ object' = object
    BY <1>1 DEF ClaimReap, CanClaim, Claimed, Columns, storageVars
  <2>5. RowFollowsIntent'
    BY <2>3, <2>4 DEF ReapedInv, RowFollowsIntent
  <2>6. ReaperKnows'
    BY <2>3, <2>4 DEF ReapedInv, ReaperKnows, HeldBy
  <2> QED BY <2>5, <2>6 DEF ReapedInv
<1>2. CASE LoseReapLease \/ ExhaustReap
  <2>1. /\ reap'.stage = reap.stage \/ (reap.stage = "running" /\ reap'.stage = "failed")
        /\ reap'.live = 0
        /\ intent' = intent /\ expired' = expired /\ creator' = creator
        /\ multipart' = multipart /\ object' = object /\ reaper' = reaper
    BY <1>2 DEF LoseReapLease, ExhaustReap, Lapsed, Spent, Buried, Rows, TypeOK, storageVars
  <2>2. RowFollowsIntent'
    BY <2>1 DEF ReapedInv, RowFollowsIntent
  <2>3. ReaperKnows'
    BY <2>1 DEF ReapedInv, ReaperKnows, HeldBy, Clean, ReapRun
  <2> QED BY <2>2, <2>3 DEF ReapedInv
<1> QED BY <1>1, <1>2

LEMMA StepReaped ==
  ASSUME UploadAssumption, TypeOK, KeepsInv, ReapedInv, [Next]_vars
  PROVE  ReapedInv'
<1>1. CASE UNCHANGED vars
  BY <1>1 DEF vars, ReapedInv, RowFollowsIntent, ReaperKnows, HeldBy, Clean
<1> QED BY <1>1, CreatorReaped, FinalizerReaped, ReaperReaped, RowReaped DEF Next

\* Wherever the web process stopped and whichever storage call was lost, what an upload
\* that never became a version left in storage has its reaper ahead of it or in progress,
\* or a reaper that used up its attempts: none has ever reported success and left
\* something behind (multipart-reap.ts against uploads.ts).
THEOREM LeftoversAreReaped == ASSUME UploadAssumption PROVE Spec => []LeftoversHaveReaper
<1>1. Init => TypeOK /\ KeepsInv /\ ReapedInv
  BY InitTyped, InitKeeps, InitReaped
<1>2. TypeOK /\ KeepsInv /\ ReapedInv /\ [Next]_vars => TypeOK' /\ KeepsInv' /\ ReapedInv'
  BY StepTyped, StepKeeps, StepReaped
<1>3. ReapedInv => LeftoversHaveReaper
  BY ReapedSuffices
<1> QED BY <1>1, <1>2, <1>3, PTL DEF Spec

-----------------------------------------------------------------------------
(* Exports: what the steps keep.                                            *)

LEMMA ArchiveRowsTyped ==
  ASSUME NEW max \in Nat, NEW r \in X!Rows(max)
  PROVE  /\ X!Absent \in X!Rows(max) /\ X!Queued \in X!Rows(max)
         /\ X!CanClaim(r, max) => /\ X!Claimed(r) \in X!Rows(max)
                                  /\ r.attempts + 1 \in 1..max
         /\ X!Lapsed(r) \in X!Rows(max) /\ X!Completed(r) \in X!Rows(max)
         /\ X!GivenBack(r, max) \in X!Rows(max) /\ X!Buried(r) \in X!Rows(max)
<1>1. X!Rows(max) = Rows(max)
  BY DEF X!Rows, Rows
<1>2. /\ X!Absent = Absent /\ X!Queued = Queued /\ X!CanClaim(r, max) = CanClaim(r, max)
      /\ X!Claimed(r) = Claimed(r) /\ X!Lapsed(r) = Lapsed(r)
      /\ X!Completed(r) = Completed(r) /\ X!GivenBack(r, max) = GivenBack(r, max)
      /\ X!Buried(r) = Buried(r)
  BY DEF X!Absent, Absent, X!Queued, Queued, X!CanClaim, CanClaim, X!Claimed, Claimed,
         X!Lapsed, Lapsed, X!Completed, Completed, X!GivenBack, GivenBack, X!Buried, Buried,
         X!Row, Row, X!Columns, Columns
<1> QED BY <1>1, <1>2, RowsTyped

LEMMA ArchiveJobTyped ==
  ASSUME X!TypeOK, NEW a \in X!Attempt, NEW pc
  PROVE  /\ X!Throw(a) => job' \in X!Rows(GenerateAttempts)
         /\ X!Completed(job) \in X!Rows(GenerateAttempts)
         /\ X!Lapsed(job) \in X!Rows(GenerateAttempts)
         /\ X!Buried(job) \in X!Rows(GenerateAttempts)
BY ExportAssumption, ArchiveRowsTyped DEF X!TypeOK, X!Throw

LEMMA GeneratorTyped ==
  ASSUME X!TypeOK, NEW a \in X!Attempt,
         NEW pc \in {"gone", "read", "put", "outgrown", "mark", "discard", "return"}
  PROVE  X!Goto(a, pc) => generator' \in [X!Attempt -> {"gone", "read", "put", "outgrown", "mark",
                                                    "discard", "return"}]
BY DEF X!TypeOK, X!Goto

LEMMA GenerateTyped ==
  ASSUME X!TypeOK, NEW a \in X!Attempt, X!GenerateStep(a)
  PROVE  X!TypeOK'
<1>0. X!Goto(a, "gone") => generator' \in [X!Attempt -> {"gone", "read", "put", "outgrown", "mark",
                                                     "discard", "return"}]
  BY GeneratorTyped
<1>1. CASE X!ReadPayload(a)
  BY <1>0, <1>1, ArchiveJobTyped, GeneratorTyped DEF X!ReadPayload, X!Throw, X!TypeOK, X!requestVars
<1>2. CASE X!PutArchive(a)
  BY <1>0, <1>2, ArchiveJobTyped, GeneratorTyped DEF X!PutArchive, X!Throw, X!TypeOK, X!requestVars
<1>3. CASE X!FailExport(a)
  BY <1>0, <1>3, ArchiveJobTyped, GeneratorTyped DEF X!FailExport, X!Throw, X!TypeOK
<1>4. CASE X!MarkReady(a)
  BY <1>0, <1>4, ArchiveJobTyped, GeneratorTyped DEF X!MarkReady, X!Throw, X!TypeOK
<1>5. CASE X!DiscardArchive(a)
  BY <1>0, <1>5, ArchiveJobTyped, GeneratorTyped DEF X!DiscardArchive, X!Throw, X!TypeOK,
     X!requestVars
<1>6. CASE X!SettleGenerate(a)
  BY <1>0, <1>6, ArchiveJobTyped DEF X!SettleGenerate, X!TypeOK, X!requestVars
<1> QED BY <1>1, <1>2, <1>3, <1>4, <1>5, <1>6 DEF X!GenerateStep

LEMMA ExportTyped == X!TypeOK /\ [X!Next]_(X!vars) => X!TypeOK'
<1> SUFFICES ASSUME X!TypeOK, [X!Next]_(X!vars) PROVE X!TypeOK'
  OBVIOUS
<1>1. CASE X!CreateExport
  BY ExportAssumption, <1>1, ArchiveRowsTyped DEF X!CreateExport, X!TypeOK
<1>2. CASE X!Expire
  BY <1>2 DEF X!Expire, X!TypeOK, X!jobVars
<1>3. CASE X!ClaimGenerate
  <2>1. job' \in X!Rows(GenerateAttempts) /\ job.attempts + 1 \in X!Attempt
    BY ExportAssumption, <1>3, ArchiveRowsTyped DEF X!ClaimGenerate, X!TypeOK, X!Attempt
  <2> QED BY <1>3, <2>1, GeneratorTyped DEF X!ClaimGenerate, X!TypeOK, X!requestVars
<1>4. CASE X!LoseLease
  <2>1. job' \in X!Rows(GenerateAttempts)
    BY ExportAssumption, <1>4, ArchiveRowsTyped DEF X!LoseLease, X!TypeOK
  <2>2. job.live \in X!Attempt
    BY ExportAssumption, <1>4 DEF X!LoseLease, X!TypeOK, X!Attempt, X!Rows
  <2>3. archive' \in BOOLEAN
    BY <1>4 DEF X!LoseLease, X!TypeOK
  <2>4. generator' \in [X!Attempt -> {"gone", "read", "put", "outgrown", "mark", "discard",
                                    "return"}]
    BY <1>4, <2>2, GeneratorTyped DEF X!LoseLease, X!TypeOK
  <2> QED BY <1>4, <2>1, <2>3, <2>4 DEF X!LoseLease, X!TypeOK, X!requestVars
<1>5. CASE X!ExhaustGenerate
  BY ExportAssumption, <1>5, ArchiveRowsTyped DEF X!ExhaustGenerate, X!TypeOK, X!requestVars
<1>6. ASSUME NEW a \in X!Attempt, X!GenerateStep(a) PROVE X!TypeOK'
  BY <1>6, GenerateTyped
<1>7. ASSUME NEW d \in Download, X!ClaimDownload(d) \/ X!OpenArchive(d) \/ X!EndDownload(d)
      PROVE  X!TypeOK'
  BY <1>7 DEF X!ClaimDownload, X!OpenArchive, X!EndDownload, X!Consumed, X!TypeOK, X!requestVars,
     X!jobVars
<1>8. ASSUME NEW c \in Cleaner, X!CleanStep(c) PROVE X!TypeOK'
  BY <1>8 DEF X!CleanStep, X!ExpireExports, X!ClaimCleanup, X!DeleteArchive, X!FinalizeCleanup,
              X!CleanerGoto, X!TypeOK, X!requestVars, X!jobVars
<1>9. ASSUME NEW c \in Cleaner, X!CleanerFails(c) PROVE X!TypeOK'
  <2>1. failures' \in 0..Failures
    BY ExportAssumption, <1>9 DEF X!CleanerFails, X!TypeOK
  <2>2. archive' \in BOOLEAN
    BY <1>9 DEF X!CleanerFails, X!TypeOK
  <2>3. cleaner' \in [Cleaner -> {"idle", "claim", "delete", "finalize"}]
    BY <1>9 DEF X!CleanerFails, X!CleanerGoto, X!TypeOK
  <2> QED BY <1>9, <2>1, <2>2, <2>3 DEF X!CleanerFails, X!TypeOK, X!requestVars, X!jobVars
<1>10. CASE UNCHANGED X!vars
  BY <1>10 DEF X!vars, X!requestVars, X!jobVars, X!TypeOK
<1> QED BY <1>1, <1>2, <1>3, <1>4, <1>5, <1>6, <1>7, <1>8, <1>9, <1>10 DEF X!Next

-----------------------------------------------------------------------------
(* The inductive invariant.                                                 *)

\* Before the export there is nothing.
NothingBefore ==
  state = "none" =>
    /\ job = X!Absent /\ \A a \in X!Attempt : generator[a] = "gone"
    /\ \A d \in Download : download[d] = "idle"
    /\ \A c \in Cleaner : cleaner[c] = "idle"

\* One member was handed the archive, and the export is never ready again.
OneMember ==
  /\ \A d, e \in Download : download[d] # "idle" /\ download[e] # "idle" => d = e
  /\ \A d \in Download : download[d] # "idle" => state \in {"deletion_pending", "deleted"}

\* An attempt that may still answer finds the export not ready yet; one that is to discard
\* what it wrote was told so for good; one that is to answer has the archive in place, or
\* its answer comes too late.
AttemptSound(a) ==
  /\ generator[a] \in {"put", "outgrown", "mark"} /\ X!HeldBy(job, a) => state # "ready"
  /\ generator[a] = "discard" => state # "ready" /\ (state # "generating" \/ exportExpired)
  /\ generator[a] = "mark" => archive \/ exportExpired \/ state # "generating"

\* The clean-up deletes what was consumed or has expired.
CleanersSound ==
  \A c \in Cleaner :
    cleaner[c] \in {"delete", "finalize"} => state \in {"deletion_pending", "deleted"}

ExportInv ==
  /\ NothingBefore /\ OneMember /\ CleanersSound /\ X!ReadyHasArchive
  /\ \A a \in X!Attempt : AttemptSound(a)

\* The invariant says what the run checks.
LEMMA InvariantSuffices == ExportInv => X!ExportWhole
<1> SUFFICES ASSUME ExportInv PROVE X!ExportWhole
  OBVIOUS
<1>1. X!Cardinality({d \in Download : download[d] # "idle"}) <= 1
  <2>1. \A set : X!Cardinality(set) = Cardinality(set)
    BY DEF X!Cardinality, Cardinality
  <2> QED BY <2>1, AtMostOne DEF ExportInv, OneMember
<1>2. state = "ready" => \A d \in Download : download[d] = "idle"
  BY DEF ExportInv, OneMember
<1> QED BY <1>1, <1>2 DEF ExportInv, X!ExportWhole, X!HandedOnce

\* The steps of an attempt: it marks the export ready with its archive in place, and takes
\* an archive away only when the export cannot become ready any more.
LEMMA GenerateKeeps ==
  ASSUME X!TypeOK, ExportInv, NEW a \in X!Attempt, X!GenerateStep(a)
  PROVE  ExportInv'
<1> USE DEF ExportInv, AttemptSound
<1>0. /\ generator \in [X!Attempt -> {"gone", "read", "put", "outgrown", "mark", "discard",
                                    "return"}]
      /\ job.live \in 0..GenerateAttempts /\ a # 0
  BY ExportAssumption DEF X!TypeOK, X!Rows, X!Attempt
<1>1. download' = download /\ cleaner' = cleaner /\ exportExpired' = exportExpired
  BY DEF X!GenerateStep, X!ReadPayload, X!PutArchive, X!FailExport, X!MarkReady, X!DiscardArchive,
         X!SettleGenerate, X!requestVars
<1>2. \A b \in X!Attempt \ {a} : generator'[b] = generator[b]
  BY <1>0 DEF X!GenerateStep, X!ReadPayload, X!PutArchive, X!FailExport, X!MarkReady,
     X!DiscardArchive,
         X!SettleGenerate, X!Goto, X!Throw
<1>3. \A b \in X!Attempt : X!HeldBy(job', b) => X!HeldBy(job, b)
  <2>1. job' = job \/ job' = X!GivenBack(job, GenerateAttempts) \/ job' = X!Completed(job)
    BY DEF X!GenerateStep, X!ReadPayload, X!PutArchive, X!FailExport, X!MarkReady, X!DiscardArchive,
           X!SettleGenerate, X!Throw
  <2>2. X!GivenBack(job, GenerateAttempts).live = 0 /\ X!Completed(job).live = 0
    BY DEF X!GivenBack, X!Completed, X!Columns
  <2> QED BY <1>0, <2>1, <2>2 DEF X!HeldBy, X!Attempt
<1>4. state # "none"
  BY DEF NothingBefore, X!GenerateStep, X!ReadPayload, X!PutArchive, X!FailExport, X!MarkReady,
         X!DiscardArchive, X!SettleGenerate
<1>5. CASE X!ReadPayload(a)
  <2>1. /\ state' = state /\ archive' = archive
        /\ \/ generator'[a] = "put" /\ state = "generating"
           \/ generator'[a] \in {"return", "gone"}
    BY <1>0, <1>5 DEF X!ReadPayload, X!Goto, X!Throw, X!requestVars
  <2> QED BY <1>1, <1>2, <1>3, <1>4, <2>1
         DEF NothingBefore, OneMember, CleanersSound, X!ReadyHasArchive
<1>6. CASE X!PutArchive(a)
  <2>1. /\ state' = state
        /\ archive => archive'
        /\ \/ generator'[a] = "mark" /\ archive'
           \/ generator'[a] \in {"outgrown", "gone"}
    BY <1>0, <1>6 DEF X!PutArchive, X!Goto, X!Throw, X!requestVars, X!TypeOK
  <2>2. generator[a] = "put"
    BY <1>6 DEF X!PutArchive
  <2> QED BY <1>1, <1>2, <1>3, <1>4, <2>1, <2>2
         DEF NothingBefore, OneMember, CleanersSound, X!ReadyHasArchive
<1>7. CASE X!FailExport(a)
  <2>1. /\ archive' = archive /\ generator'[a] \in {"return", "gone"}
        /\ \/ state' = state
           \/ state = "generating" /\ state' = "failed"
    BY <1>0, <1>7 DEF X!FailExport, X!Goto, X!Throw
  <2> QED BY <1>1, <1>2, <1>3, <1>4, <2>1
         DEF NothingBefore, OneMember, CleanersSound, X!ReadyHasArchive
<1>8. CASE X!MarkReady(a)
  <2>1. CASE X!MayAnswer(a) /\ state = "generating" /\ ~exportExpired
    <3>1. /\ state' = "ready" /\ archive' = archive /\ archive /\ generator'[a] = "return"
      BY <1>0, <1>8, <2>1 DEF X!MarkReady, X!Goto
    <3>2. \A b \in X!Attempt \ {a} : ~X!HeldBy(job, b)
      BY <2>1 DEF X!MayAnswer, X!HeldBy
    <3>3. \A d \in Download : download[d] = "idle"
      BY <2>1 DEF OneMember
    <3>4. \A c \in Cleaner : cleaner[c] \notin {"delete", "finalize"}
      BY <2>1 DEF CleanersSound
    <3> QED BY <1>1, <1>2, <1>3, <2>1, <3>1, <3>2, <3>3, <3>4
           DEF NothingBefore, OneMember, CleanersSound, X!ReadyHasArchive
  <2>2. CASE ~(X!MayAnswer(a) /\ state = "generating" /\ ~exportExpired)
    <3>1. /\ state' = state /\ archive' = archive
          /\ \/ /\ generator'[a] = "discard" /\ X!MayAnswer(a)
                /\ state # "generating" \/ exportExpired
             \/ generator'[a] = "gone"
      BY <1>0, <1>8, <2>2 DEF X!MarkReady, X!Goto, X!Throw
    <3>2. X!MayAnswer(a) => state # "ready"
      BY <1>8 DEF X!MayAnswer, X!MarkReady
    <3> QED BY <1>1, <1>2, <1>3, <1>4, <3>1, <3>2
           DEF NothingBefore, OneMember, CleanersSound, X!ReadyHasArchive
  <2> QED BY <2>1, <2>2
<1>9. CASE X!DiscardArchive(a)
  <2>1. /\ state' = state /\ generator'[a] \in {"return", "gone"}
        /\ state # "ready" /\ (state # "generating" \/ exportExpired)
    BY <1>0, <1>9 DEF X!DiscardArchive, X!Goto, X!Throw, X!requestVars
  <2> QED BY <1>1, <1>2, <1>3, <1>4, <2>1
         DEF NothingBefore, OneMember, CleanersSound, X!ReadyHasArchive
<1>10. CASE X!SettleGenerate(a)
  <2>1. state' = state /\ archive' = archive /\ generator'[a] = "gone"
    BY <1>0, <1>10 DEF X!SettleGenerate, X!Goto, X!requestVars
  <2> QED BY <1>1, <1>2, <1>3, <1>4, <2>1
         DEF NothingBefore, OneMember, CleanersSound, X!ReadyHasArchive
<1> QED BY <1>5, <1>6, <1>7, <1>8, <1>9, <1>10 DEF X!GenerateStep

LEMMA ExportInvStep == X!TypeOK /\ ExportInv /\ [X!Next]_(X!vars) => ExportInv'
<1> SUFFICES ASSUME X!TypeOK, ExportInv, [X!Next]_(X!vars) PROVE ExportInv'
  OBVIOUS
<1> USE DEF ExportInv
<1>1. CASE X!CreateExport
  <2>1. /\ state = "none" /\ state' = "generating" /\ generator' = generator
        /\ download' = download /\ cleaner' = cleaner
    BY <1>1 DEF X!CreateExport
  <2>2. /\ \A a \in X!Attempt : generator'[a] = "gone"
        /\ \A d \in Download : download'[d] = "idle"
        /\ \A c \in Cleaner : cleaner'[c] = "idle"
    BY <2>1 DEF NothingBefore
  <2> QED BY <2>1, <2>2
         DEF NothingBefore, OneMember, CleanersSound, X!ReadyHasArchive, AttemptSound
<1>2. CASE X!Expire
  <2>1. /\ state' = state /\ exportExpired' = TRUE /\ archive' = archive /\ job' = job
        /\ generator' = generator /\ download' = download /\ cleaner' = cleaner
    BY <1>2 DEF X!Expire, X!jobVars
  <2> QED BY <2>1
         DEF NothingBefore, OneMember, CleanersSound, X!ReadyHasArchive, AttemptSound, X!HeldBy
<1>3. CASE X!ClaimGenerate
  <2>1. /\ state' = state /\ exportExpired' = exportExpired /\ archive' = archive
        /\ download' = download /\ cleaner' = cleaner
    BY <1>3 DEF X!ClaimGenerate, X!requestVars
  <2>2. state # "none"
    BY <1>3 DEF X!ClaimGenerate, NothingBefore, X!CanClaim, X!Absent, X!Row, X!Columns
  <2>3. \A a \in X!Attempt :
          IF a = job.attempts + 1 THEN generator'[a] = "read"
          ELSE generator'[a] = generator[a] /\ ~X!HeldBy(job', a)
    BY <1>3 DEF X!ClaimGenerate, X!Goto, X!TypeOK, X!HeldBy, X!Claimed, X!Columns
  <2> QED BY <2>1, <2>2, <2>3
         DEF NothingBefore, OneMember, CleanersSound, X!ReadyHasArchive, AttemptSound
<1>4. CASE X!LoseLease
  <2>1. /\ state' = state /\ exportExpired' = exportExpired
        /\ archive => archive'
        /\ download' = download /\ cleaner' = cleaner
    BY <1>4 DEF X!LoseLease, X!requestVars, X!TypeOK
  <2>2. state # "none"
    BY <1>4 DEF X!LoseLease, NothingBefore, X!Absent, X!Row, X!Columns
  <2>3. job'.live = 0
    BY <1>4 DEF X!LoseLease, X!Lapsed, X!TypeOK, X!Rows
  <2>4. \A a \in X!Attempt : /\ generator'[a] = generator[a] \/ generator'[a] = "gone"
                           /\ ~X!HeldBy(job', a)
    <3> TAKE a \in X!Attempt
    <3>1. generator'[a] = generator[a] \/ generator'[a] = "gone"
      BY <1>4 DEF X!LoseLease, X!Goto, X!TypeOK
    <3>2. a # 0
      BY ExportAssumption DEF X!Attempt
    <3> QED BY <2>3, <3>1, <3>2 DEF X!HeldBy
  <2> QED BY <2>1, <2>2, <2>4
         DEF NothingBefore, OneMember, CleanersSound, X!ReadyHasArchive, AttemptSound
<1>5. CASE X!ExhaustGenerate
  <2>1. /\ state' = state /\ exportExpired' = exportExpired /\ archive' = archive
        /\ generator' = generator /\ download' = download /\ cleaner' = cleaner
    BY <1>5 DEF X!ExhaustGenerate, X!requestVars
  <2>2. state # "none"
    BY <1>5 DEF X!ExhaustGenerate, NothingBefore, X!Spent, X!Absent, X!Row, X!Columns
  <2>3. job'.stage = "failed"
    BY <1>5 DEF X!ExhaustGenerate, X!Buried, X!TypeOK, X!Rows
  <2>4. \A a \in X!Attempt : ~X!HeldBy(job', a)
    BY <2>3 DEF X!HeldBy
  <2> QED BY <2>1, <2>2, <2>4
         DEF NothingBefore, OneMember, CleanersSound, X!ReadyHasArchive, AttemptSound
<1>6. ASSUME NEW a \in X!Attempt, X!GenerateStep(a) PROVE ExportInv'
  BY <1>6, GenerateKeeps
<1>7. ASSUME NEW d \in Download, X!ClaimDownload(d) \/ X!OpenArchive(d) \/ X!EndDownload(d)
      PROVE  ExportInv'
  <2>1. /\ exportExpired' = exportExpired /\ archive' = archive /\ job' = job
        /\ generator' = generator
        /\ cleaner' = cleaner /\ state # "none"
    BY <1>7 DEF X!ClaimDownload, X!OpenArchive, X!EndDownload, NothingBefore, X!requestVars,
       X!jobVars
  <2>2. \A e \in Download : download'[e] # "idle" => e = d \/ download[e] # "idle"
    BY <1>7 DEF X!ClaimDownload, X!OpenArchive, X!EndDownload, X!TypeOK
  <2>3. CASE X!ClaimDownload(d)
    <3>1. state = "ready" /\ state' = "deletion_pending"
      BY <2>3 DEF X!ClaimDownload, X!Consumed
    <3>2. \A e \in Download : download[e] = "idle"
      BY <3>1 DEF OneMember
    <3> QED BY <2>1, <2>2, <3>1, <3>2
           DEF NothingBefore, OneMember, CleanersSound, X!ReadyHasArchive, AttemptSound
  <2>4. CASE X!OpenArchive(d) \/ X!EndDownload(d)
    <3>1. state' = state /\ download[d] # "idle"
      BY <2>4 DEF X!OpenArchive, X!EndDownload, X!requestVars
    <3> QED BY <2>1, <2>2, <3>1
           DEF NothingBefore, OneMember, CleanersSound, X!ReadyHasArchive, AttemptSound, X!HeldBy
  <2> QED BY <1>7, <2>3, <2>4
<1>8. ASSUME NEW c \in Cleaner, X!CleanStep(c) \/ X!CleanerFails(c) PROVE ExportInv'
  <2>1. /\ exportExpired' = exportExpired /\ job' = job /\ generator' = generator
        /\ download' = download
        /\ state # "none"
    BY <1>8 DEF X!CleanStep, X!ExpireExports, X!ClaimCleanup, X!DeleteArchive, X!FinalizeCleanup,
                X!CleanerFails, X!CleanerGoto, NothingBefore, X!Expirable, X!requestVars, X!jobVars
  <2>2. /\ state' = state \/ state' \in {"deletion_pending", "deleted"}
        /\ state \in {"deletion_pending", "deleted"} => state' \in {"deletion_pending", "deleted"}
    BY <1>8 DEF X!CleanStep, X!ExpireExports, X!ClaimCleanup, X!DeleteArchive, X!FinalizeCleanup,
                X!CleanerFails, X!requestVars
  <2>3. archive' = archive \/ state \in {"deletion_pending", "deleted"}
    BY <1>8 DEF X!CleanStep, X!ExpireExports, X!ClaimCleanup, X!DeleteArchive, X!FinalizeCleanup,
                X!CleanerFails, CleanersSound, X!TypeOK
  <2>4. \A e \in Cleaner : cleaner'[e] \in {"delete", "finalize"} =>
          state \in {"deletion_pending", "deleted"}
    BY <1>8 DEF X!CleanStep, X!ExpireExports, X!ClaimCleanup, X!DeleteArchive, X!FinalizeCleanup,
                X!CleanerFails, X!CleanerGoto, CleanersSound, X!TypeOK
  <2> QED BY <2>1, <2>2, <2>3, <2>4
         DEF NothingBefore, OneMember, CleanersSound, X!ReadyHasArchive, AttemptSound, X!HeldBy
<1>9. CASE UNCHANGED X!vars
  BY <1>9 DEF X!vars, X!requestVars, X!jobVars, NothingBefore, OneMember, CleanersSound,
              X!ReadyHasArchive, AttemptSound, X!HeldBy
<1> QED BY <1>1, <1>2, <1>3, <1>4, <1>5, <1>6, <1>7, <1>8, <1>9 DEF X!Next

LEMMA ExportBegins == X!Init => X!TypeOK /\ ExportInv
<1> SUFFICES ASSUME X!Init PROVE X!TypeOK /\ ExportInv
  OBVIOUS
<1>1. X!Absent \in X!Rows(GenerateAttempts)
  BY ExportAssumption DEF X!Absent, X!Row, X!Columns, X!Rows
<1>2. X!TypeOK
  <2>1. failures \in 0..Failures
    BY ExportAssumption DEF X!Init
  <2>2. exportExpired \in BOOLEAN /\ archive \in BOOLEAN
    BY DEF X!Init
  <2>3. /\ generator \in [X!Attempt -> {"gone", "read", "put", "outgrown", "mark", "discard",
                                      "return"}]
        /\ download \in [Download -> {"idle", "claimed", "streaming", "lost", "done"}]
        /\ cleaner \in [Cleaner -> {"idle", "claim", "delete", "finalize"}]
    BY DEF X!Init
  <2> QED BY <1>1, <2>1, <2>2, <2>3 DEF X!Init, X!TypeOK
<1>3. ExportInv
  BY DEF X!Init, ExportInv, NothingBefore, OneMember, CleanersSound, X!ReadyHasArchive,
         AttemptSound
<1> QED BY <1>2, <1>3

\* An export that is ready has its archive, whatever stalled attempts, the hour and the
\* clean-up do, and hands it to one member at most (exports.ts downloadExportOnce,
\* export-generation.ts, 010_exports.sql claim_export_download and mark_export_job_ready).
THEOREM ExportStaysWhole == X!Spec => []ExportWhole
<1>1. X!TypeOK /\ ExportInv /\ [X!Next]_(X!vars) => X!TypeOK' /\ ExportInv'
  BY ExportTyped, ExportInvStep
<1>2. ExportInv => ExportWhole
  BY InvariantSuffices DEF ExportWhole
<1> QED BY ExportBegins, <1>1, <1>2, PTL DEF X!Spec

\* The variables of uploads and of exports have their types in every behaviour of the two,
\* beside the queue's.
THEOREM IntakeTypeCorrect == UploadsSpec => []TypesOK
<1>1. UploadsInit => TypesOK
  BY UploadAssumption, InitTyped, ExportBegins DEF UploadsInit, TypesOK
<1>2. TypesOK /\ [UploadsNext]_<<vars, queueVars, exportVars>> => TypesOK'
  <2> SUFFICES ASSUME TypesOK, [UploadsNext]_<<vars, queueVars, exportVars>>
               PROVE  TypesOK'
    OBVIOUS
  <2>1. [Next]_vars /\ [X!Next]_(X!vars)
    BY DEF UploadsNext, exportVars, X!vars, X!requestVars, X!jobVars
  <2>2. TypeOK'
    BY <2>1, UploadAssumption, StepTyped DEF TypesOK
  <2>3. X!TypeOK'
    BY <2>1, ExportTyped DEF TypesOK
  <2> QED BY <2>2, <2>3 DEF TypesOK
<1> QED BY <1>1, <1>2, PTL DEF UploadsSpec
=============================================================================
