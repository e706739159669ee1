-------------------------- MODULE ProcessingProofs --------------------------
(***************************************************************************)
(* Theorems about Processing for any number of pages, of attempts of each  *)
(* job, and for whatever a member may ask for: its types, that the source  *)
(* outlives what needs it (SourceInv), that a failed source is always      *)
(* swept (SweepInv), that no object is forgotten (RegistryInv), and that   *)
(* no accepted page is deleted where attempts are in time (KeptInv).       *)
(***************************************************************************)
EXTENDS Processing, WorkRowsProofs

-----------------------------------------------------------------------------
(* Types.                                                                   *)

PC == {"gone", "start", "scan", "evidence", "process", "register", "put", "verify",
       "discard", "accept", "undo", "fail", "return", "throw"}

\* An attempt that is about to fail the version has said how.
VerdictGiven == \A r \in VRun : At(r, "fail") => run[r].verdict \in Failed

\* The numbers of a case.
LEMMA CaseNumbers ==
  ASSUME ProcessingAssumption, TypeOK
  PROVE  /\ given.pages \in Nat \ {0} /\ given.attempts \in Nat \ {0}
         /\ given.cleanups \in Nat /\ given.sweeps \in Nat
BY DEF ProcessingAssumption, Case, TypeOK

\* An attempt moves on, with or without a verdict.
LEMMA AttemptMoves ==
  ASSUME NEW a \in Attempt, NEW pc \in PC
  PROVE  [a EXCEPT !.pc = pc] \in Attempt /\ [a EXCEPT !.pc = pc].pc = pc
BY DEF Attempt, PC

LEMMA AttemptFails ==
  ASSUME NEW a \in Attempt, NEW v \in Failed
  PROVE  /\ [[a EXCEPT !.pc = "fail"] EXCEPT !.verdict = v] \in Attempt
         /\ [[a EXCEPT !.pc = "fail"] EXCEPT !.verdict = v].verdict = v
BY DEF Attempt

LEMMA AttemptScans ==
  ASSUME NEW a \in Attempt
  PROVE  /\ [[a EXCEPT !.pc = "process"] EXCEPT !.scanned = "clean"] \in Attempt
         /\ [[a EXCEPT !.pc = "process"] EXCEPT !.scanned = "clean"].pc = "process"
         /\ [[a EXCEPT !.pc = "process"] EXCEPT !.scanned = "clean"].verified = a.verified
         /\ [[a EXCEPT !.pc = "process"] EXCEPT !.scanned = "clean"].page = a.page
BY DEF Attempt

LEMMA AttemptBegins ==
  ASSUME ProcessingAssumption, TypeOK
  PROVE  /\ Gone \in Attempt /\ Gone.pc = "gone"
         /\ [Gone EXCEPT !.pc = "start"] \in Attempt /\ [Gone EXCEPT !.pc = "start"].pc = "start"
<1>1. 1 \in 1..given.pages
  BY CaseNumbers
<1> QED BY <1>1 DEF Gone, Attempt

\* What a step of the handler makes of its attempt, and that it touches no other.
LEMMA HandlerRuns ==
  ASSUME ProcessingAssumption, TypeOK, NEW r \in VRun, HandlerStep(r)
  PROVE  \E x \in Attempt : /\ run' = [run EXCEPT ![r] = x]
                            /\ x.pc = "fail" => x.verdict \in Failed
<1>0. run \in [VRun -> Attempt] /\ run[r] \in Attempt
  BY DEF TypeOK
<1>1. \A pc \in PC : Goto(r, pc) /\ pc # "fail" =>
        \E x \in Attempt : run' = [run EXCEPT ![r] = x] /\ x.pc # "fail"
  <2> SUFFICES ASSUME NEW pc \in PC, Goto(r, pc), pc # "fail"
               PROVE  \E x \in Attempt : run' = [run EXCEPT ![r] = x] /\ x.pc # "fail"
    OBVIOUS
  <2>1. run' = [run EXCEPT ![r] = [run[r] EXCEPT !.pc = pc]]
    BY <1>0 DEF Goto
  <2>2. [run[r] EXCEPT !.pc = pc] \in Attempt /\ [run[r] EXCEPT !.pc = pc].pc = pc
    BY <1>0, AttemptMoves
  <2> QED BY <2>1, <2>2
<1>2. \A v \in Failed : FailWith(r, v) =>
        \E x \in Attempt : run' = [run EXCEPT ![r] = x] /\ x.verdict \in Failed
  <2> SUFFICES ASSUME NEW v \in Failed, FailWith(r, v)
               PROVE  \E x \in Attempt : run' = [run EXCEPT ![r] = x] /\ x.verdict \in Failed
    OBVIOUS
  <2>1. run' = [run EXCEPT ![r] = [[run[r] EXCEPT !.pc = "fail"] EXCEPT !.verdict = v]]
    BY <1>0 DEF FailWith
  <2>2. /\ [[run[r] EXCEPT !.pc = "fail"] EXCEPT !.verdict = v] \in Attempt
        /\ [[run[r] EXCEPT !.pc = "fail"] EXCEPT !.verdict = v].verdict = v
    BY <1>0, AttemptFails
  <2> QED BY <2>1, <2>2
<1>3. Transient(r) => \E x \in Attempt : /\ run' = [run EXCEPT ![r] = x]
                                         /\ x.pc = "fail" => x.verdict \in Failed
  BY <1>1, <1>2 DEF Transient, Failed, PC
<1>4. CASE ReadVersion(r)
  BY <1>1, <1>4 DEF ReadVersion, PC
<1>5. CASE ReadAndScan(r)
  BY <1>1, <1>2, <1>3, <1>5 DEF ReadAndScan, PC, Failed
<1>6. CASE RecordCleanScan(r)
  <2>1. CASE Goto(r, "throw")
    BY <1>1, <2>1 DEF PC
  <2>2. CASE run' = [run EXCEPT ![r].pc = "process", ![r].scanned = "clean"]
    <3>1. run' = [run EXCEPT ![r] = [[run[r] EXCEPT !.pc = "process"] EXCEPT !.scanned = "clean"]]
      BY <1>0, <2>2
    <3>2. /\ [[run[r] EXCEPT !.pc = "process"] EXCEPT !.scanned = "clean"] \in Attempt
          /\ [[run[r] EXCEPT !.pc = "process"] EXCEPT !.scanned = "clean"].pc = "process"
      BY <1>0, AttemptScans
    <3> QED BY <3>1, <3>2
  <2> QED BY <1>6, <2>1, <2>2 DEF RecordCleanScan
<1>7. CASE Convert(r)
  BY <1>1, <1>2, <1>3, <1>7 DEF Convert, PC, Failed
<1>8. CASE RegisterCleanup(r)
  BY <1>1, <1>8 DEF RegisterCleanup, PC
<1>9. CASE PutDerivative(r)
  BY <1>1, <1>9 DEF PutDerivative, PC
<1>10. CASE RecordVerified(r)
  <2>1. CASE Goto(r, "discard")
    BY <1>1, <2>1 DEF PC
  <2>2. CASE ~Goto(r, "discard")
    <3>1. run' = [run EXCEPT ![r] = NextPage(run[r])]
      BY <1>0, <1>10, <2>2 DEF RecordVerified
    <3>2. NextPage(run[r]) \in Attempt /\ NextPage(run[r]).pc # "fail"
      <4>1. run[r].page \in 1..given.pages /\ given.pages \in Nat
        BY <1>0, CaseNumbers DEF Attempt
      <4>2. run[r].verified \cup {run[r].page} \in SUBSET (1..given.pages)
        BY <1>0, <4>1 DEF Attempt
      <4>3. (IF run[r].page < given.pages THEN run[r].page + 1 ELSE run[r].page)
              \in 1..given.pages
        BY <4>1
      <4> QED BY <1>0, <4>2, <4>3 DEF Attempt, NextPage
    <3> QED BY <3>1, <3>2
  <2> QED BY <2>1, <2>2
<1>11. CASE Discard(r)
  BY <1>3, <1>11 DEF Discard
<1>12. CASE AcceptVersion(r) \/ AcceptRefused(r) \/ Undo(r)
  BY <1>1, <1>12 DEF AcceptVersion, AcceptRefused, Undo, PC
<1>13. CASE FailProcessing(r)
  BY <1>1, <1>13 DEF FailProcessing, PC
<1>14. CASE Return(r) \/ Throw(r)
  <2>1. CASE run' = [run EXCEPT ![r] = Gone]
    BY <2>1, AttemptBegins
  <2>2. CASE Goto(r, "throw")
    BY <1>1, <2>2 DEF PC
  <2> QED BY <1>14, <2>1, <2>2 DEF Return, Throw
<1> QED BY <1>4, <1>5, <1>6, <1>7, <1>8, <1>9, <1>10, <1>11, <1>12, <1>13, <1>14
        DEF HandlerStep

\* What no step of a handler changes.
LEMMA HandlerFrame ==
  ASSUME NEW r \in VRun, HandlerStep(r)
  PROVE  /\ given' = given /\ manual' = manual /\ source' = source
         /\ cleaner' = cleaner /\ sweeper' = sweeper /\ deleter' = deleter
BY DEF HandlerStep, ReadVersion, ReadAndScan, RecordCleanScan, Convert, RegisterCleanup,
       PutDerivative, RecordVerified, Discard, AcceptVersion, AcceptRefused, Undo,
       FailProcessing, Return, Throw, derivativeVars, sourceVars

\* The sets a behaviour's case spans do not change with its steps.
LEMMA SpansKept ==
  ASSUME given' = given
  PROVE  /\ VRun' = VRun /\ Key' = Key /\ Cleaner' = Cleaner /\ Sweeper' = Sweeper
         /\ Attempt' = Attempt
         /\ \A r : KeysOf(r)' = KeysOf(r)
BY DEF VRun, Key, Cleaner, Sweeper, Attempt, KeysOf

LEMMA TypedNext ==
  ASSUME TypeOK, given' = given,
         version' \in VersionState, manual' \in 0..1, due' \in BOOLEAN, source' \in BOOLEAN,
         job' \in [VJob -> Rows(given.attempts)], run' \in [VRun -> Attempt],
         intents' \subseteq Key, objects' \subseteq Key, accepted' \subseteq Key,
         cleanup' \in [Key -> Rows(given.cleanups)],
         cleaner' \in [Cleaner -> {"gone", "claimed", "resolved", "return", "throw"}],
         sweep' \in Rows(given.sweeps),
         sweeper' \in [Sweeper -> {"gone", "claimed", "deleting", "finalizing", "return",
                                   "throw"}],
         deleter' \in {"none", "deleting", "finalizing"}
  PROVE  TypeOK'
BY SpansKept DEF TypeOK

\* The rows a step may write.
LEMMA RowsOf ==
  ASSUME ProcessingAssumption, TypeOK
  PROVE  /\ \A j \in VJob :
              /\ CanClaim(job[j], given.attempts) =>
                   /\ Claimed(job[j]) \in Rows(given.attempts)
                   /\ job[j].attempts + 1 \in 1..given.attempts
              /\ Lapsed(job[j]) \in Rows(given.attempts)
              /\ Completed(job[j]) \in Rows(given.attempts)
              /\ GivenBack(job[j], given.attempts) \in Rows(given.attempts)
              /\ Buried(job[j]) \in Rows(given.attempts)
         /\ \A k \in Key :
              /\ CanClaim(cleanup[k], given.cleanups) =>
                   /\ Claimed(cleanup[k]) \in Rows(given.cleanups)
                   /\ cleanup[k].attempts + 1 \in 1..given.cleanups
              /\ Lapsed(cleanup[k]) \in Rows(given.cleanups)
              /\ Completed(cleanup[k]) \in Rows(given.cleanups)
              /\ GivenBack(cleanup[k], given.cleanups) \in Rows(given.cleanups)
              /\ Buried(cleanup[k]) \in Rows(given.cleanups)
         /\ CanClaim(sweep, given.sweeps) => /\ Claimed(sweep) \in Rows(given.sweeps)
                                             /\ sweep.attempts + 1 \in 1..given.sweeps
         /\ Lapsed(sweep) \in Rows(given.sweeps) /\ Completed(sweep) \in Rows(given.sweeps)
         /\ GivenBack(sweep, given.sweeps) \in Rows(given.sweeps)
         /\ Buried(sweep) \in Rows(given.sweeps)
<1>1. /\ given.attempts \in Nat /\ given.cleanups \in Nat /\ given.sweeps \in Nat
  BY CaseNumbers
<1>2. ASSUME NEW j \in VJob
      PROVE  /\ CanClaim(job[j], given.attempts) =>
                  /\ Claimed(job[j]) \in Rows(given.attempts)
                  /\ job[j].attempts + 1 \in 1..given.attempts
             /\ Lapsed(job[j]) \in Rows(given.attempts)
             /\ Completed(job[j]) \in Rows(given.attempts)
             /\ GivenBack(job[j], given.attempts) \in Rows(given.attempts)
             /\ Buried(job[j]) \in Rows(given.attempts)
  BY <1>1, RowsTyped DEF TypeOK
<1>3. ASSUME NEW k \in Key
      PROVE  /\ CanClaim(cleanup[k], given.cleanups) =>
                  /\ Claimed(cleanup[k]) \in Rows(given.cleanups)
                  /\ cleanup[k].attempts + 1 \in 1..given.cleanups
             /\ Lapsed(cleanup[k]) \in Rows(given.cleanups)
             /\ Completed(cleanup[k]) \in Rows(given.cleanups)
             /\ GivenBack(cleanup[k], given.cleanups) \in Rows(given.cleanups)
             /\ Buried(cleanup[k]) \in Rows(given.cleanups)
  BY <1>1, RowsTyped DEF TypeOK
<1>4. /\ CanClaim(sweep, given.sweeps) => /\ Claimed(sweep) \in Rows(given.sweeps)
                                          /\ sweep.attempts + 1 \in 1..given.sweeps
      /\ Lapsed(sweep) \in Rows(given.sweeps) /\ Completed(sweep) \in Rows(given.sweeps)
      /\ GivenBack(sweep, given.sweeps) \in Rows(given.sweeps)
      /\ Buried(sweep) \in Rows(given.sweeps)
  BY <1>1, RowsTyped DEF TypeOK
<1> QED BY <1>2, <1>3, <1>4

LEMMA NewRows ==
  ASSUME ProcessingAssumption, TypeOK
  PROVE  /\ Queued \in Rows(given.attempts) /\ Queued \in Rows(given.cleanups)
         /\ Absent \in Rows(given.attempts) /\ Absent \in Rows(given.cleanups)
         /\ Absent \in Rows(given.sweeps)
         /\ Row("deleted") \in Rows(given.cleanups)
         /\ [Queued EXCEPT !.era = manual] \in Rows(given.sweeps)
<1>1. /\ given.attempts \in Nat /\ given.cleanups \in Nat /\ given.sweeps \in Nat
      /\ manual \in {0, 1}
  BY CaseNumbers DEF TypeOK
<1> QED BY <1>1 DEF Queued, Absent, Row, Columns, Rows

LEMMA FailTyped ==
  ASSUME ProcessingAssumption, TypeOK, NEW verdict \in Failed, FailVersion(verdict)
  PROVE  version' \in VersionState /\ due' \in BOOLEAN /\ sweep' \in Rows(given.sweeps)
BY NewRows DEF FailVersion, VersionState

LEMMA HandlerTyped ==
  ASSUME ProcessingAssumption, TypeOK, VerdictGiven, NEW r \in VRun, HandlerStep(r)
  PROVE  TypeOK'
<1>0. run' \in [VRun -> Attempt]
  BY HandlerRuns DEF TypeOK
<1>1. r[1] \in VJob /\ CurrentKey(r) \in Key /\ KeysOf(r) \subseteq Key
  BY DEF VRun, CurrentKey, Key, KeysOf, TypeOK, Attempt
<1>2. job' \in [VJob -> Rows(given.attempts)]
  <2>1. \/ job' = job
        \/ job' = [job EXCEPT ![r[1]] = Completed(@)]
        \/ job' = [job EXCEPT ![r[1]] = GivenBack(@, given.attempts)]
    BY DEF HandlerStep, ReadVersion, ReadAndScan, RecordCleanScan, Convert, RegisterCleanup,
           PutDerivative, RecordVerified, Discard, AcceptVersion, AcceptRefused, Undo,
           FailProcessing, Return, Throw
  <2> QED BY <1>1, <2>1, RowsOf DEF TypeOK
<1>3. version' \in VersionState /\ due' \in BOOLEAN /\ sweep' \in Rows(given.sweeps)
  <2>1. CASE FailProcessing(r)
    <3>1. FailVersion(run[r].verdict) \/ UNCHANGED <<version, due, sweep>>
      BY <2>1 DEF FailProcessing
    <3>2. run[r].verdict \in Failed
      BY <2>1 DEF FailProcessing, VerdictGiven
    <3> QED BY <3>1, <3>2, FailTyped DEF TypeOK
  <2>2. CASE ~FailProcessing(r)
    <3>1. /\ version' = version \/ version' = "ready_for_review"
          /\ due' = due /\ sweep' = sweep
      BY <2>2 DEF HandlerStep, ReadVersion, ReadAndScan, RecordCleanScan, Convert,
             RegisterCleanup, PutDerivative, RecordVerified, Discard, AcceptVersion,
             AcceptRefused, Undo, Return, Throw, derivativeVars, sourceVars
    <3> QED BY <3>1 DEF TypeOK, VersionState
  <2> QED BY <2>1, <2>2
<1>4. intents' \subseteq Key /\ accepted' \subseteq Key
  <2>1. /\ \/ intents' = intents
           \/ intents' = intents \cup {CurrentKey(r)}
           \/ intents' = intents \ KeysOf(r)
        /\ accepted' = accepted \/ accepted' = accepted \cup KeysOf(r)
    BY DEF HandlerStep, ReadVersion, ReadAndScan, RecordCleanScan, Convert, RegisterCleanup,
           PutDerivative, RecordVerified, Discard, AcceptVersion, AcceptRefused, Undo,
           FailProcessing, Return, Throw, derivativeVars
  <2> QED BY <1>1, <2>1 DEF TypeOK
<1>5. objects' \subseteq objects \cup {CurrentKey(r)}
  BY DEF HandlerStep, ReadVersion, ReadAndScan, RecordCleanScan, Convert, RegisterCleanup,
         PutDerivative, RecordVerified, Discard, AcceptVersion, AcceptRefused, Undo,
         FailProcessing, Return, Throw, DeletesSome, derivativeVars
<1>6. cleanup' \in [Key -> Rows(given.cleanups)]
  <2>1. \/ cleanup' = cleanup
        \/ cleanup' = [cleanup EXCEPT ![CurrentKey(r)] = Queued]
        \/ cleanup' = Withdrawn(KeysOf(r))
    BY DEF HandlerStep, ReadVersion, ReadAndScan, RecordCleanScan, Convert, RegisterCleanup,
           PutDerivative, RecordVerified, Discard, AcceptVersion, AcceptRefused, Undo,
           FailProcessing, Return, Throw, QueuedCleanup, derivativeVars
  <2>2. Withdrawn(KeysOf(r)) \in [Key -> Rows(given.cleanups)]
    BY NewRows DEF Withdrawn, TypeOK
  <2> QED BY <1>1, <2>1, <2>2, NewRows DEF TypeOK
<1>7. objects' \subseteq Key
  BY <1>1, <1>5 DEF TypeOK
<1> QED BY <1>0, <1>2, <1>3, <1>4, <1>6, <1>7, HandlerFrame, TypedNext DEF TypeOK

LEMMA CleanerTyped ==
  ASSUME ProcessingAssumption, TypeOK,
         \/ \E k \in Key : ClaimCleanup(k) \/ ExhaustCleanup(k) \/ LoseCleanupLease(k)
         \/ \E c \in Cleaner : CleanerStep(c) \/ CrashCleaner(c)
  PROVE  TypeOK'
<1>1. ASSUME NEW k \in Key, ClaimCleanup(k) \/ ExhaustCleanup(k) \/ LoseCleanupLease(k)
      PROVE  TypeOK'
  <2>1. /\ given' = given /\ version' = version /\ manual' = manual /\ due' = due
        /\ source' = source /\ job' = job /\ run' = run /\ intents' = intents
        /\ objects' = objects /\ accepted' = accepted /\ sweep' = sweep
        /\ sweeper' = sweeper /\ deleter' = deleter
    BY <1>1 DEF ClaimCleanup, ExhaustCleanup, LoseCleanupLease, sourceVars
  <2>2. cleanup' \in [Key -> Rows(given.cleanups)]
    BY <1>1, RowsOf DEF ClaimCleanup, ExhaustCleanup, LoseCleanupLease, TypeOK
  <2>3. cleaner' \in [Cleaner -> {"gone", "claimed", "resolved", "return", "throw"}]
    BY <1>1, RowsOf
       DEF ClaimCleanup, ExhaustCleanup, LoseCleanupLease, CleanerGoto, Cleaner, TypeOK
  <2> QED BY <2>1, <2>2, <2>3, TypedNext DEF TypeOK
<1>2. ASSUME NEW c \in Cleaner, CleanerStep(c) \/ CrashCleaner(c)
      PROVE  TypeOK'
  <2>1. /\ given' = given /\ version' = version /\ manual' = manual /\ due' = due
        /\ source' = source /\ job' = job /\ run' = run
        /\ accepted' = accepted /\ sweep' = sweep
        /\ sweeper' = sweeper /\ deleter' = deleter
        /\ intents' \subseteq intents /\ objects' \subseteq objects
    BY <1>2 DEF CleanerStep, ResolveCleanup, DeleteDerivative, SettleCleanup, CrashCleaner,
                sourceVars
  <2>2. cleanup' \in [Key -> Rows(given.cleanups)]
    <3>1. c[1] \in Key
      BY DEF Cleaner
    <3>2. \/ cleanup' = cleanup
          \/ cleanup' = [cleanup EXCEPT ![c[1]] = Completed(@)]
          \/ cleanup' = [cleanup EXCEPT ![c[1]] = GivenBack(@, given.cleanups)]
      BY <1>2 DEF CleanerStep, ResolveCleanup, DeleteDerivative, SettleCleanup, CrashCleaner
    <3> QED BY <3>1, <3>2, RowsOf DEF TypeOK
  <2>3. cleaner' \in [Cleaner -> {"gone", "claimed", "resolved", "return", "throw"}]
    BY <1>2 DEF CleanerStep, ResolveCleanup, DeleteDerivative, SettleCleanup, CrashCleaner,
                CleanerGoto, TypeOK
  <2> QED BY <2>1, <2>2, <2>3, TypedNext DEF TypeOK
<1> QED BY <1>1, <1>2

\* What no step of the sweep, of a member or of the clock changes.
SourceStep ==
  \/ ClaimSweep \/ ExhaustSweep \/ LoseSweepLease \/ Deadline
  \/ BeginDelete \/ DeleteSource \/ FinalizeDelete
  \/ \E s \in Sweeper : SweeperStep(s) \/ CrashSweeper(s)

LEMMA SourceFrame ==
  ASSUME SourceStep
  PROVE  /\ given' = given /\ manual' = manual /\ job' = job /\ run' = run
         /\ intents' = intents /\ objects' = objects /\ accepted' = accepted
         /\ cleanup' = cleanup /\ cleaner' = cleaner
BY DEF SourceStep, ClaimSweep, ExhaustSweep, LoseSweepLease, Deadline, BeginDelete,
       DeleteSource, FinalizeDelete, SweeperStep, BeginSweep, SweepSource, FinalizeSweep,
       SettleSweep, CrashSweeper, derivativeVars

LEMMA SourceTyped ==
  ASSUME ProcessingAssumption, TypeOK, SourceStep
  PROVE  TypeOK'
<1>1. version' \in VersionState
  <2>1. DeletionPending \/ SourceDeleted => version' \in VersionState
    BY DEF DeletionPending, SourceDeleted, VersionState, Failed, Pending, Deleted, TypeOK
  <2> QED BY <2>1 DEF SourceStep, ClaimSweep, ExhaustSweep, LoseSweepLease, Deadline, BeginDelete,
         DeleteSource, FinalizeDelete, SweeperStep, BeginSweep, SweepSource, FinalizeSweep,
         SettleSweep, CrashSweeper, TypeOK
<1>2. due' \in BOOLEAN /\ source' \in BOOLEAN /\ deleter' \in {"none", "deleting", "finalizing"}
  BY DEF SourceStep, ClaimSweep, ExhaustSweep, LoseSweepLease, Deadline, BeginDelete,
         DeleteSource, FinalizeDelete, SweeperStep, BeginSweep, SweepSource, FinalizeSweep,
         SettleSweep, CrashSweeper, TypeOK, sourceVars
<1>3. sweep' \in Rows(given.sweeps)
  <2>1. \/ sweep' = sweep \/ sweep' = Completed(sweep) \/ sweep' = GivenBack(sweep, given.sweeps)
        \/ sweep' = Lapsed(sweep) \/ sweep' = Buried(sweep)
        \/ CanClaim(sweep, given.sweeps) /\ sweep' = Claimed(sweep)
    BY DEF SourceStep, ClaimSweep, ExhaustSweep, LoseSweepLease, Deadline, BeginDelete,
           DeleteSource, FinalizeDelete, SweeperStep, BeginSweep, SweepSource, FinalizeSweep,
           SettleSweep, CrashSweeper, sourceVars
  <2> QED BY <2>1, RowsOf DEF TypeOK
<1>4. sweeper' \in [Sweeper -> {"gone", "claimed", "deleting", "finalizing", "return", "throw"}]
  <2>1. CASE ClaimSweep
    <3>1. sweep.era \in {0, 1} /\ sweep.attempts + 1 \in 1..given.sweeps
      BY <2>1, RowsOf DEF ClaimSweep, TypeOK, Rows
    <3>2. <<sweep.era, sweep.attempts + 1>> \in Sweeper
      BY <3>1 DEF Sweeper
    <3> QED BY <2>1, <3>2 DEF ClaimSweep, SweeperGoto, TypeOK
  <2>2. CASE \E s \in Sweeper : SweeperStep(s) \/ CrashSweeper(s)
    BY <2>2 DEF SweeperStep, BeginSweep, SweepSource, FinalizeSweep, SettleSweep, CrashSweeper,
                SweeperGoto, TypeOK
  <2>3. CASE ~(ClaimSweep \/ \E s \in Sweeper : SweeperStep(s) \/ CrashSweeper(s))
    BY <2>3 DEF SourceStep, ExhaustSweep, LoseSweepLease, Deadline, BeginDelete, DeleteSource,
                FinalizeDelete, TypeOK, sourceVars
  <2> QED BY <2>1, <2>2, <2>3
<1> QED BY <1>1, <1>2, <1>3, <1>4, SourceFrame, TypedNext DEF TypeOK

LEMMA QueueTyped ==
  ASSUME ProcessingAssumption, TypeOK,
         \/ \E j \in VJob : ClaimValidation(j) \/ Exhaust(j) \/ LoseLease(j)
         \/ \E r \in VRun : Crash(r)
         \/ RequestRetry
  PROVE  TypeOK'
<1>1. ASSUME NEW j \in VJob, ClaimValidation(j) PROVE TypeOK'
  <2>1. /\ job[j].attempts + 1 \in 1..given.attempts
        /\ job' \in [VJob -> Rows(given.attempts)]
    BY <1>1, RowsOf DEF ClaimValidation, TypeOK
  <2>2. <<j, job[j].attempts + 1>> \in VRun
    BY <2>1 DEF VRun
  <2>3. run' \in [VRun -> Attempt]
    BY <1>1, <2>2, AttemptBegins DEF ClaimValidation, TypeOK
  <2> QED BY <1>1, <2>1, <2>3, TypedNext DEF ClaimValidation, TypeOK, derivativeVars, sourceVars
<1>2. ASSUME NEW j \in VJob, Exhaust(j) PROVE TypeOK'
  <2>1. job' \in [VJob -> Rows(given.attempts)]
    BY <1>2, RowsOf DEF Exhaust, TypeOK
  <2>2. version' \in VersionState /\ due' \in BOOLEAN /\ sweep' \in Rows(given.sweeps)
    BY <1>2, FailTyped DEF Exhaust, ExhaustionHook, Failed, TypeOK
  <2> QED BY <1>2, <2>1, <2>2, TypedNext DEF Exhaust, TypeOK, derivativeVars
<1>3. ASSUME NEW j \in VJob, LoseLease(j) PROVE TypeOK'
  <2>1. job' \in [VJob -> Rows(given.attempts)]
    BY <1>3, RowsOf DEF LoseLease, TypeOK
  <2> QED BY <1>3, <2>1, TypedNext DEF LoseLease, TypeOK, derivativeVars, sourceVars
<1>4. ASSUME NEW r \in VRun, Crash(r) PROVE TypeOK'
  <2>1. run' \in [VRun -> Attempt]
    BY <1>4, AttemptBegins DEF Crash, TypeOK
  <2> QED BY <1>4, <2>1, TypedNext DEF Crash, TypeOK, derivativeVars, sourceVars
<1>5. CASE RequestRetry
  <2>1. job' \in [VJob -> Rows(given.attempts)]
    BY <1>5, NewRows DEF RequestRetry, TypeOK
  <2>2. version' \in VersionState /\ manual' \in 0..1
    BY <1>5 DEF RequestRetry, VersionState
  <2> QED BY <1>5, <2>1, <2>2, TypedNext DEF RequestRetry, TypeOK, derivativeVars, sourceVars
<1> QED BY <1>1, <1>2, <1>3, <1>4, <1>5

\* The steps of Next, in the four groups the proofs take.
LEMMA StepGroups ==
  ASSUME [Next]_vars
  PROVE  \/ \E r \in VRun : HandlerStep(r)
         \/ \E j \in VJob : ClaimValidation(j) \/ Exhaust(j) \/ LoseLease(j)
         \/ \E r \in VRun : Crash(r)
         \/ RequestRetry
         \/ \E k \in Key : ClaimCleanup(k) \/ ExhaustCleanup(k) \/ LoseCleanupLease(k)
         \/ \E c \in Cleaner : CleanerStep(c) \/ CrashCleaner(c)
         \/ SourceStep
         \/ UNCHANGED vars
BY DEF Next, QueueStep, LeaseLapses, ProcessDies, MemberStep, SourceStep

\* An attempt goes on to fail the version only with a verdict.
LEMMA VerdictsGiven ==
  ASSUME ProcessingAssumption, TypeOK, VerdictGiven, [Next]_vars
  PROVE  VerdictGiven'
<1>1. ASSUME NEW r \in VRun, HandlerStep(r) PROVE VerdictGiven'
  <2>1. PICK x \in Attempt : /\ run' = [run EXCEPT ![r] = x]
                             /\ x.pc = "fail" => x.verdict \in Failed
    BY <1>1, HandlerRuns
  <2>2. VRun' = VRun
    BY <1>1, HandlerFrame, SpansKept
  <2> QED BY <2>1, <2>2 DEF VerdictGiven, At, TypeOK
<1>2. ASSUME NEW j \in VJob, ClaimValidation(j) \/ Exhaust(j) \/ LoseLease(j)
      PROVE  VerdictGiven'
  <2>1. \A r \in VRun : run'[r] = run[r] \/ run'[r].pc = "start"
    BY <1>2, AttemptBegins DEF ClaimValidation, Exhaust, LoseLease, TypeOK
  <2>2. VRun' = VRun
    BY <1>2, SpansKept DEF ClaimValidation, Exhaust, LoseLease
  <2> QED BY <2>1, <2>2 DEF VerdictGiven, At
<1>3. ASSUME NEW r \in VRun, Crash(r) PROVE VerdictGiven'
  <2>1. VRun' = VRun /\ \A q \in VRun : run'[q] = run[q] \/ run'[q] = Gone
    BY <1>3, SpansKept DEF Crash, TypeOK
  <2> QED BY <2>1, AttemptBegins DEF VerdictGiven, At
<1>4. CASE \/ RequestRetry
           \/ \E k \in Key : ClaimCleanup(k) \/ ExhaustCleanup(k) \/ LoseCleanupLease(k)
           \/ \E c \in Cleaner : CleanerStep(c) \/ CrashCleaner(c)
           \/ SourceStep
           \/ UNCHANGED vars
  <2>1. given' = given /\ run' = run
    BY <1>4, SourceFrame
       DEF RequestRetry, ClaimCleanup, ExhaustCleanup, LoseCleanupLease, CleanerStep,
           ResolveCleanup, DeleteDerivative, SettleCleanup, CrashCleaner, vars
  <2> QED BY <2>1, SpansKept DEF VerdictGiven, At
<1> QED BY <1>1, <1>2, <1>3, <1>4, StepGroups

LEMMA TypedInit == ProcessingAssumption /\ Init => TypeOK /\ VerdictGiven
<1> SUFFICES ASSUME ProcessingAssumption, Init PROVE TypeOK /\ VerdictGiven
  OBVIOUS
<1>1. /\ given \in Case /\ given.pages \in Nat \ {0} /\ given.attempts \in Nat \ {0}
      /\ given.cleanups \in Nat /\ given.sweeps \in Nat
  BY DEF ProcessingAssumption, Init, Case
<1>2. /\ Queued \in Rows(given.attempts) /\ Absent \in Rows(given.attempts)
      /\ Absent \in Rows(given.cleanups) /\ Absent \in Rows(given.sweeps)
  BY <1>1 DEF Queued, Absent, Row, Columns, Rows
<1>3. Gone \in Attempt /\ Gone.pc = "gone"
  BY <1>1 DEF Gone, Attempt
<1>4. /\ job \in [VJob -> Rows(given.attempts)] /\ run \in [VRun -> Attempt]
      /\ cleanup \in [Key -> Rows(given.cleanups)] /\ sweep \in Rows(given.sweeps)
  BY <1>2, <1>3 DEF Init
<1>5. /\ cleaner \in [Cleaner -> {"gone", "claimed", "resolved", "return", "throw"}]
      /\ sweeper \in [Sweeper -> {"gone", "claimed", "deleting", "finalizing", "return", "throw"}]
  BY DEF Init
<1>6. TypeOK
  <2>1. version \in VersionState /\ deleter \in {"none", "deleting", "finalizing"}
    BY DEF Init, VersionState
  <2>3. due \in BOOLEAN /\ source \in BOOLEAN
    BY DEF Init
  <2>4. given \in Cases /\ manual \in 0..1
    BY DEF Init
  <2>2. intents \subseteq Key /\ objects \subseteq Key /\ accepted \subseteq Key
    BY DEF Init
  <2> QED BY <1>4, <1>5, <2>1, <2>2, <2>3, <2>4 DEF TypeOK
<1>7. VerdictGiven
  BY <1>3 DEF Init, VerdictGiven, At
<1> QED BY <1>6, <1>7

LEMMA TypedStep ==
  ProcessingAssumption /\ TypeOK /\ VerdictGiven /\ [Next]_vars => TypeOK' /\ VerdictGiven'
<1> SUFFICES ASSUME ProcessingAssumption, TypeOK, VerdictGiven, [Next]_vars
             PROVE  TypeOK' /\ VerdictGiven'
  OBVIOUS
<1>1. CASE UNCHANGED vars
  <2>1. given' = given
    BY <1>1 DEF vars
  <2> QED BY <1>1, <2>1, TypedNext, VerdictsGiven DEF vars, TypeOK
<1>2. CASE ~UNCHANGED vars
  <2>1. TypeOK'
    BY <1>2, StepGroups, HandlerTyped, QueueTyped, CleanerTyped, SourceTyped
  <2> QED BY <2>1, VerdictsGiven
<1> QED BY <1>1, <1>2

\* Every step of the jobs, of their crashes and of a member keeps rows, attempts and
\* objects within the case the behaviour is about (jobs/*.ts, 003_processing_pipeline.sql).
THEOREM ProcessingTypeCorrect == Spec => []TypeOK
BY TypedInit, TypedStep, ProcessingAssumption, PTL DEF Spec

-----------------------------------------------------------------------------
(* The invariant of the source, and that of its sweep.                      *)

\* Whoever is deleting the source has made the version one that is never processed or
\* retried again.
DeletionsCommitted ==
  /\ \A s \in Sweeper : sweeper[s] \in {"deleting", "finalizing"} => version \in Pending \cup Deleted
  /\ deleter \in {"deleting", "finalizing"} => version \in Pending \cup Deleted

SourceInv == SourceKept /\ DeletionsCommitted

\* A sweep runs only after its deadline, and a run that still holds it has nothing left to
\* delete when it returns.
SweepReturns ==
  /\ sweep.stage = "running" => due
  /\ \A s \in Sweeper :
       SweeperHolds(s) /\ sweeper[s] = "return" => version \notin Failed \cup Pending

SweepInv == FailedIsSwept /\ SweepReturns

-----------------------------------------------------------------------------
(* The invariants of the derivatives and their cleanups.                    *)

\* Rows are sound, and the manual retry's is not queued before it is asked for.
JobsSound ==
  /\ \A j \in VJob : RowSound(job[j])
  /\ \A k \in Key : RowSound(cleanup[k])
  /\ manual = 0 => job["retry"] = Absent

\* Only an attempt that was claimed runs, registers cleanups or is accepted, so none of
\* this is there when it begins.
OfClaimed ==
  /\ \A r \in VRun : ~At(r, "gone") => job[r[1]].attempts >= r[2]
  /\ \A k \in Key : cleanup[k].stage # "absent" => job[k[1][1]].attempts >= k[1][2]
  /\ \A k \in accepted : /\ job[k[1][1]].attempts >= k[1][2]
                         /\ run[k[1]].pc \in {"return", "throw", "gone"}

\* An attempt registers every page once: those ahead of it have no cleanup yet.
AheadUnregistered ==
  \A r \in VRun, p \in 1..given.pages :
    \/ run[r].pc \in {"start", "scan", "evidence", "process", "register"} /\ p >= run[r].page
    \/ run[r].pc \in {"put", "verify"} /\ p > run[r].page
    => cleanup[<<r, p>>].stage = "absent"

\* A cleanup that runs was registered, and one that resolved its intent took it away.
ResolvedForGood ==
  \A c \in Cleaner : /\ cleaner[c] # "gone" => cleanup[c[1]].stage # "absent"
                     /\ cleaner[c] \in {"resolved", "return"} => c[1] \notin intents

\* What is being stored is registered, or its cleanup is already at work.
PutRegistered ==
  \A r \in VRun : At(r, "put") =>
    CurrentKey(r) \in intents \/ cleanup[CurrentKey(r)].attempts > 0

RegistryInv ==
  /\ JobsSound /\ OfClaimed /\ AheadUnregistered /\ ResolvedForGood /\ PutRegistered
  /\ NothingUnregistered

\* No attempt outlives the five minutes before the cleanup of its keys is due.
InTime == ~Is("slow")

\* A cleanup is claimed only after its attempt lost the lease, and never of an accepted
\* page.
CleanupAfterLease ==
  /\ \A k \in Key : cleanup[k].attempts > 0 => ~LeaseHeld(k[1])
  /\ \A c \in Cleaner : cleaner[c] # "gone" => cleanup[c[1]].attempts > 0
  /\ \A k \in accepted :
       cleanup[k].attempts = 0 /\ cleanup[k].stage \notin {"queued", "running"}

\* While an attempt may still be accepted, what it verified is in storage.
Building == {"start", "scan", "evidence", "process", "register", "put", "verify", "accept"}

VerifiedStored ==
  \A r \in VRun : LeaseHeld(r) =>
    /\ run[r].pc \in Building => \A p \in run[r].verified : <<r, p>> \in objects
    /\ At(r, "verify") => CurrentKey(r) \in objects

KeptInv == CleanupAfterLease /\ VerifiedStored /\ AcceptedIntact

-----------------------------------------------------------------------------
(* The source outlives what needs it.                                       *)

\* What a step of the handler, or the sweep of a spent validation row, makes of the
\* version: it decides a quarantined one, or leaves it.
Decided ==
  \/ version' = version /\ due' = due /\ sweep' = sweep
  \/ /\ version = "quarantine"
     /\ \/ version' = "ready_for_review" /\ due' = due /\ sweep' = sweep
        \/ \E verdict \in Failed : FailVersion(verdict)

LEMMA HandlerDecides ==
  ASSUME VerdictGiven, NEW r \in VRun, HandlerStep(r)
  PROVE  Decided
<1>1. CASE FailProcessing(r)
  <2>1. \/ version = "quarantine" /\ FailVersion(run[r].verdict)
        \/ UNCHANGED <<version, due, sweep>>
    BY <1>1 DEF FailProcessing
  <2>2. run[r].verdict \in Failed
    BY <1>1 DEF FailProcessing, VerdictGiven
  <2> QED BY <2>1, <2>2 DEF Decided
<1>2. CASE AcceptVersion(r)
  BY <1>2 DEF AcceptVersion, MayAccept, Decided, sourceVars
<1>3. CASE ~FailProcessing(r) /\ ~AcceptVersion(r)
  BY <1>3 DEF HandlerStep, ReadVersion, ReadAndScan, RecordCleanScan, Convert,
     RegisterCleanup, PutDerivative, RecordVerified, Discard, AcceptRefused, Undo, Return,
     Throw, Decided, derivativeVars, sourceVars
<1> QED BY <1>1, <1>2, <1>3

LEMMA JobDecides ==
  ASSUME NEW j \in VJob, ClaimValidation(j) \/ Exhaust(j) \/ LoseLease(j)
  PROVE  Decided /\ source' = source /\ sweeper' = sweeper /\ deleter' = deleter
BY DEF ClaimValidation, Exhaust, LoseLease, ExhaustionHook, Decided, Failed, sourceVars

\* What the other steps leave of the source's state.
LEMMA CleanersApart ==
  ASSUME \/ \E k \in Key : ClaimCleanup(k) \/ ExhaustCleanup(k) \/ LoseCleanupLease(k)
         \/ \E c \in Cleaner : CleanerStep(c) \/ CrashCleaner(c)
         \/ \E r \in VRun : Crash(r)
  PROVE  UNCHANGED <<given, version, manual, due, source, sweep, sweeper, deleter>>
BY DEF ClaimCleanup, ExhaustCleanup, LoseCleanupLease, CleanerStep, ResolveCleanup,
       DeleteDerivative, SettleCleanup, CrashCleaner, Crash, sourceVars

\* A deletion that was begun is never taken back, and the source is gone only after one.
LEMMA SourceInvDecided ==
  ASSUME TypeOK, SourceInv, Decided,
         given' = given, source' = source, sweeper' = sweeper, deleter' = deleter
  PROVE  SourceInv'
<1>1. Sweeper' = Sweeper
  BY SpansKept
<1>2. CASE version' = version
  BY <1>1, <1>2 DEF SourceInv, SourceKept, DeletionsCommitted
<1>3. CASE version = "quarantine"
  <2>1. source /\ deleter \notin {"deleting", "finalizing"}
    BY <1>3 DEF SourceInv, SourceKept, DeletionsCommitted, Pending, Deleted
  <2>2. \A s \in Sweeper : sweeper[s] \notin {"deleting", "finalizing"}
    BY <1>3 DEF SourceInv, DeletionsCommitted, Pending, Deleted
  <2> QED BY <1>1, <2>1, <2>2 DEF SourceInv, SourceKept, DeletionsCommitted
<1> QED BY <1>2, <1>3 DEF Decided

LEMMA SourceInvSource ==
  ASSUME TypeOK, SourceInv, SourceStep
  PROVE  SourceInv'
<1>1. Sweeper' = Sweeper
  BY SourceFrame, SpansKept
<1>2. /\ version \in Pending \cup Deleted => version' \in Pending \cup Deleted
      /\ version' = version \/ version' \in Pending \cup Deleted
  <2>1. /\ DeletionPending /\ version \in Failed \cup Pending => version' \in Pending
        /\ DeletionPending \/ SourceDeleted => version' \in Pending \cup Deleted \/ version' = version
    BY DEF DeletionPending, SourceDeleted, Failed, Pending, Deleted
  <2>2. \/ version' = version \/ DeletionPending
        \/ version \in Pending /\ SourceDeleted
    BY DEF SourceStep, ClaimSweep, ExhaustSweep, LoseSweepLease, Deadline, BeginDelete,
           DeleteSource, FinalizeDelete, SweeperStep, BeginSweep, SweepSource, FinalizeSweep,
           SettleSweep, CrashSweeper
  <2>3. DeletionPending /\ version \in Deleted => version' = version
    BY DEF DeletionPending, Failed, Deleted
  <2> QED BY <2>1, <2>2, <2>3 DEF SourceDeleted, Deleted, Pending
<1>3. SourceKept'
  <2>1. CASE source' = source
    BY <1>2, <2>1 DEF SourceInv, SourceKept, Pending, Deleted, Failed
  <2>2. CASE source' # source
    <3>1. /\ version' = version
          /\ (\E s \in Sweeper : sweeper[s] = "deleting") \/ deleter = "deleting"
      BY <2>2 DEF SourceStep, ClaimSweep, ExhaustSweep, LoseSweepLease, Deadline, BeginDelete,
         DeleteSource, FinalizeDelete, SweeperStep, BeginSweep, SweepSource, FinalizeSweep,
         SettleSweep, CrashSweeper, sourceVars
    <3>2. version \in Pending \cup Deleted
      BY <3>1 DEF SourceInv, DeletionsCommitted
    <3> QED BY <3>1, <3>2 DEF SourceKept, Pending, Deleted, Failed
  <2> QED BY <2>1, <2>2
<1>4. DeletionsCommitted'
  <2>1. ASSUME NEW s \in Sweeper, sweeper'[s] \in {"deleting", "finalizing"}
        PROVE  version' \in Pending \cup Deleted
    <3>1. CASE sweeper[s] \in {"deleting", "finalizing"}
      BY <1>2, <3>1 DEF SourceInv, DeletionsCommitted
    <3>2. CASE sweeper[s] \notin {"deleting", "finalizing"}
      <4>1. \E q \in Sweeper : BeginSweep(q) /\ DeletionPending /\ Deletable
        BY <2>1, <3>2 DEF SourceStep, ClaimSweep, ExhaustSweep, LoseSweepLease, Deadline,
           BeginDelete, DeleteSource, FinalizeDelete, SweeperStep, BeginSweep, SweepSource,
           FinalizeSweep, SettleSweep, CrashSweeper, SweeperGoto, sourceVars, TypeOK
      <4> QED BY <4>1 DEF DeletionPending, Deletable, Failed, Pending
    <3> QED BY <3>1, <3>2
  <2>2. ASSUME deleter' \in {"deleting", "finalizing"}
        PROVE  version' \in Pending \cup Deleted
    <3>1. CASE deleter \in {"deleting", "finalizing"}
      BY <1>2, <3>1 DEF SourceInv, DeletionsCommitted
    <3>2. CASE deleter \notin {"deleting", "finalizing"}
      <4>1. BeginDelete
        BY <2>2, <3>2 DEF SourceStep, ClaimSweep, ExhaustSweep, LoseSweepLease, Deadline,
           DeleteSource, FinalizeDelete, SweeperStep, BeginSweep, SweepSource,
           FinalizeSweep, SettleSweep, CrashSweeper, sourceVars
      <4> QED BY <4>1 DEF BeginDelete, DeletionPending, Failed, Pending
    <3> QED BY <3>1, <3>2
  <2> QED BY <1>1, <2>1, <2>2 DEF DeletionsCommitted
<1> QED BY <1>3, <1>4 DEF SourceInv

LEMMA SourceInvStep ==
  TypeOK /\ VerdictGiven /\ SourceInv /\ [Next]_vars => SourceInv'
<1> SUFFICES ASSUME TypeOK, VerdictGiven, SourceInv, [Next]_vars PROVE SourceInv'
  OBVIOUS
<1>1. ASSUME NEW r \in VRun, HandlerStep(r) PROVE SourceInv'
  BY <1>1, HandlerDecides, HandlerFrame, SourceInvDecided
<1>2. ASSUME NEW j \in VJob, ClaimValidation(j) \/ Exhaust(j) \/ LoseLease(j) PROVE SourceInv'
  <2>1. given' = given
    BY <1>2 DEF ClaimValidation, Exhaust, LoseLease
  <2> QED BY <1>2, <2>1, JobDecides, SourceInvDecided
<1>3. CASE RequestRetry
  <2>1. /\ given' = given /\ source' = source /\ sweeper' = sweeper /\ deleter' = deleter
        /\ version = "processing_failed" /\ version' = "quarantine"
    BY <1>3 DEF RequestRetry, Retryable, sourceVars
  <2>2. Sweeper' = Sweeper
    BY <2>1, SpansKept
  <2> QED BY <2>1, <2>2 DEF SourceInv, SourceKept, DeletionsCommitted, Failed, Pending, Deleted
<1>4. CASE \/ \E k \in Key : ClaimCleanup(k) \/ ExhaustCleanup(k) \/ LoseCleanupLease(k)
           \/ \E c \in Cleaner : CleanerStep(c) \/ CrashCleaner(c)
           \/ \E r \in VRun : Crash(r)
           \/ UNCHANGED vars
  <2>1. UNCHANGED <<given, version, manual, due, source, sweep, sweeper, deleter>>
    BY <1>4, CleanersApart DEF vars
  <2> QED BY <2>1, SourceInvDecided DEF Decided
<1> QED BY <1>1, <1>2, <1>3, <1>4, SourceInvSource, StepGroups

LEMMA SourceInvInit == Init => SourceInv
BY DEF Init, SourceInv, SourceKept, DeletionsCommitted

\* No overlap of retries, sweeps and member's deletions takes the source from a version
\* that may still be processed or was accepted (jobs/retention-sweep.ts,
\* failed-source-deletion.ts): whoever deletes it has first made the version one of those
\* that are never retried.
THEOREM SourceStaysKept == Spec => []SourceKept
<1>1. Init => TypeOK /\ VerdictGiven /\ SourceInv
  BY TypedInit, SourceInvInit, ProcessingAssumption
<1>2. TypeOK /\ VerdictGiven /\ SourceInv /\ [Next]_vars
        => TypeOK' /\ VerdictGiven' /\ SourceInv'
  BY TypedStep, SourceInvStep, ProcessingAssumption
<1>3. SourceInv => SourceKept
  BY DEF SourceInv
<1> QED BY <1>1, <1>2, <1>3, PTL DEF Spec

-----------------------------------------------------------------------------
(* A failed source is always swept.                                         *)

LEMMA SweepInvDecided ==
  ASSUME TypeOK, SweepInv, Decided, given' = given, sweeper' = sweeper
  PROVE  SweepInv'
<1>1. Sweeper' = Sweeper
  BY SpansKept
<1>2. CASE version' = version /\ due' = due /\ sweep' = sweep
  BY <1>1, <1>2 DEF SweepInv, FailedIsSwept, SweepReturns, SweeperHolds
<1>3. CASE version' = "ready_for_review" /\ due' = due /\ sweep' = sweep
  BY <1>1, <1>3 DEF SweepInv, FailedIsSwept, SweepReturns, SweeperHolds, Failed, Pending
<1>4. CASE sweep' = [Queued EXCEPT !.era = manual]
  <2>1. sweep'.stage = "queued"
    BY <1>4 DEF Queued, Row, Columns
  <2> QED BY <2>1 DEF SweepInv, FailedIsSwept, SweepReturns, SweeperHolds, HeldBy
<1> QED BY <1>2, <1>3, <1>4 DEF Decided, FailVersion

\* The steps of the queue: only a claim gives the sweep to a run, one that has just begun.
LEMMA SweepInvQueue ==
  ASSUME ProcessingAssumption, TypeOK, SweepInv,
         ClaimSweep \/ ExhaustSweep \/ LoseSweepLease \/ Deadline
  PROVE  SweepInv'
<1>0. Sweeper' = Sweeper /\ version' = version
  BY SourceFrame, SpansKept
     DEF SourceStep, ClaimSweep, ExhaustSweep, LoseSweepLease, Deadline
<1>1. sweep.live \in Nat /\ sweep.attempts \in Nat
  BY CaseNumbers DEF TypeOK, Rows
<1>2. CASE ClaimSweep
  <2>1. /\ sweep.stage \in {"queued", "running"} /\ due /\ due' = due
        /\ sweep' = Claimed(sweep)
        /\ SweeperGoto(<<sweep.era, sweep.attempts + 1>>, "claimed")
    BY <1>2 DEF ClaimSweep, CanClaim, SweepInv, SweepReturns
  <2>2. sweep'.stage = "running" /\ sweep'.live = sweep.attempts + 1 /\ sweep'.era = sweep.era
    BY <2>1 DEF Claimed, Columns
  <2>3. \A s \in Sweeper : SweeperHolds(s)' => sweeper'[s] = "claimed"
    <3> SUFFICES ASSUME NEW s \in Sweeper, SweeperHolds(s)' PROVE sweeper'[s] = "claimed"
      OBVIOUS
    <3>1. s[2] = sweep.attempts + 1 /\ s[1] = sweep.era
      BY <2>2 DEF SweeperHolds, HeldBy
    <3>2. s = <<sweep.era, sweep.attempts + 1>>
      BY <3>1 DEF Sweeper
    <3> QED BY <2>1, <3>2 DEF SweeperGoto, TypeOK
  <2> QED BY <1>0, <2>1, <2>2, <2>3 DEF SweepInv, FailedIsSwept, SweepReturns
<1>3. CASE ExhaustSweep
  <2>1. sweep'.stage = "failed"
    BY <1>3 DEF ExhaustSweep, Buried, TypeOK, Rows
  <2> QED BY <1>0, <2>1 DEF SweepInv, FailedIsSwept, SweepReturns, SweeperHolds, HeldBy
<1>4. CASE LoseSweepLease
  <2>1. sweep'.stage = sweep.stage /\ sweep'.live = 0 /\ due' = due
    BY <1>4 DEF LoseSweepLease, Lapsed, TypeOK, Rows
  <2>2. \A s \in Sweeper : s[2] # 0
    BY CaseNumbers DEF Sweeper
  <2>3. \A s \in Sweeper : ~SweeperHolds(s)'
    BY <2>1, <2>2 DEF SweeperHolds, HeldBy
  <2> QED BY <1>0, <2>1, <2>3 DEF SweepInv, FailedIsSwept, SweepReturns
<1>5. CASE Deadline
  <2>1. due' /\ sweep' = sweep /\ sweeper' = sweeper
    BY <1>5 DEF Deadline, sourceVars
  <2> QED BY <1>0, <2>1 DEF SweepInv, FailedIsSwept, SweepReturns, SweeperHolds
<1> QED BY <1>2, <1>3, <1>4, <1>5

\* The steps of a run of the sweep and of a member's request: only a version that is no
\* longer theirs to delete lets a run that holds the sweep return.
LEMMA SweepInvRun ==
  ASSUME ProcessingAssumption, TypeOK, SweepInv,
         \/ BeginDelete \/ DeleteSource \/ FinalizeDelete
         \/ \E s \in Sweeper : SweeperStep(s) \/ CrashSweeper(s)
  PROVE  SweepInv'
<1>0. Sweeper' = Sweeper /\ due' = due
  BY SourceFrame, SpansKept
     DEF SourceStep, BeginDelete, DeleteSource, FinalizeDelete, SweeperStep, BeginSweep,
         SweepSource, FinalizeSweep, SettleSweep, CrashSweeper
<1>1. version' \in Failed \cup Pending => version \in Failed \cup Pending
  <2>1. version' = version \/ DeletionPending \/ SourceDeleted
    BY DEF BeginDelete, DeleteSource, FinalizeDelete, SweeperStep, BeginSweep, SweepSource,
           FinalizeSweep, SettleSweep, CrashSweeper
  <2> QED BY <2>1 DEF DeletionPending, SourceDeleted, Failed, Pending
<1>2. CASE sweep' = sweep
  <2>1. FailedIsSwept' /\ (sweep'.stage = "running" => due')
    BY <1>0, <1>1, <1>2 DEF SweepInv, FailedIsSwept, SweepReturns
  <2>2. ASSUME NEW s \in Sweeper, SweeperHolds(s), sweeper'[s] = "return"
        PROVE  version' \notin Failed \cup Pending
    <3>1. CASE sweeper[s] = "return"
      BY <1>1, <2>2, <3>1 DEF SweepInv, SweepReturns
    <3>2. CASE sweeper[s] # "return"
      <4>1. BeginSweep(s) \/ FinalizeSweep(s)
        BY <2>2, <3>2 DEF BeginDelete, DeleteSource, FinalizeDelete, SweeperStep, BeginSweep,
           SweepSource, FinalizeSweep, SettleSweep, CrashSweeper, SweeperGoto, TypeOK
      <4>2. CASE BeginSweep(s)
        <5>1. ~Deletable /\ version' = version
          BY <2>2, <4>2 DEF BeginSweep, SweeperGoto, TypeOK
        <5>2. due
          BY <2>2 DEF SweepInv, SweepReturns, SweeperHolds, HeldBy
        <5> QED BY <5>1, <5>2 DEF Deletable
      <4>3. CASE FinalizeSweep(s)
        BY <2>2, <4>3 DEF FinalizeSweep, SweeperGoto, SourceDeleted, Failed, Pending, TypeOK
      <4> QED BY <4>1, <4>2, <4>3
    <3> QED BY <3>1, <3>2
  <2>3. \A s \in Sweeper : SweeperHolds(s)' = SweeperHolds(s)
    BY <1>2 DEF SweeperHolds
  <2> QED BY <1>0, <2>1, <2>2, <2>3 DEF SweepInv, SweepReturns
<1>3. CASE sweep' # sweep
  <2>1. PICK s \in Sweeper : SettleSweep(s) /\ SweeperHolds(s)
    BY <1>3 DEF BeginDelete, DeleteSource, FinalizeDelete, SweeperStep, BeginSweep,
       SweepSource, FinalizeSweep, SettleSweep, CrashSweeper
  <2>2. sweep.stage = "running" /\ due /\ version' = version
    BY <2>1 DEF SweeperHolds, HeldBy, SweepInv, SweepReturns, SettleSweep
  <2>3. \A q \in Sweeper : q[2] # 0
    BY CaseNumbers DEF Sweeper
  <2>4. CASE sweeper[s] = "return"
    <3>1. sweep'.stage = "done" /\ version \notin Failed \cup Pending
      BY <2>1, <2>4 DEF SettleSweep, Completed, Columns, SweepInv, SweepReturns
    <3> QED BY <2>2, <3>1 DEF SweepInv, FailedIsSwept, SweepReturns, SweeperHolds, HeldBy
  <2>5. CASE sweeper[s] # "return"
    <3>1. sweep'.stage \in {"queued", "running"} /\ sweep'.live = 0
      BY <2>1, <2>2, <2>5 DEF SettleSweep, GivenBack, Columns
    <3>2. \A q \in Sweeper : ~SweeperHolds(q)'
      BY <2>3, <3>1 DEF SweeperHolds, HeldBy
    <3> QED BY <1>0, <2>2, <3>1, <3>2 DEF SweepInv, FailedIsSwept, SweepReturns
  <2> QED BY <2>4, <2>5
<1> QED BY <1>2, <1>3

LEMMA SweepInvStep ==
  ProcessingAssumption /\ TypeOK /\ VerdictGiven /\ SweepInv /\ [Next]_vars => SweepInv'
<1> SUFFICES ASSUME ProcessingAssumption, TypeOK, VerdictGiven, SweepInv, [Next]_vars
             PROVE  SweepInv'
  OBVIOUS
<1>1. ASSUME NEW r \in VRun, HandlerStep(r) PROVE SweepInv'
  BY <1>1, HandlerDecides, HandlerFrame, SweepInvDecided
<1>2. ASSUME NEW j \in VJob, ClaimValidation(j) \/ Exhaust(j) \/ LoseLease(j) PROVE SweepInv'
  <2>1. given' = given
    BY <1>2 DEF ClaimValidation, Exhaust, LoseLease
  <2> QED BY <1>2, <2>1, JobDecides, SweepInvDecided
<1>3. CASE RequestRetry
  <2>1. /\ given' = given /\ sweep' = sweep /\ due' = due /\ sweeper' = sweeper
        /\ version' = "quarantine"
    BY <1>3 DEF RequestRetry, sourceVars
  <2>2. Sweeper' = Sweeper
    BY <2>1, SpansKept
  <2> QED BY <2>1, <2>2
          DEF SweepInv, FailedIsSwept, SweepReturns, SweeperHolds, Failed, Pending
<1>4. CASE \/ \E k \in Key : ClaimCleanup(k) \/ ExhaustCleanup(k) \/ LoseCleanupLease(k)
           \/ \E c \in Cleaner : CleanerStep(c) \/ CrashCleaner(c)
           \/ \E r \in VRun : Crash(r)
           \/ UNCHANGED vars
  <2>1. UNCHANGED <<given, version, manual, due, source, sweep, sweeper, deleter>>
    BY <1>4, CleanersApart DEF vars
  <2> QED BY <2>1, SweepInvDecided DEF Decided
<1>5. CASE SourceStep
  BY <1>5, SweepInvQueue, SweepInvRun DEF SourceStep
<1> QED BY <1>1, <1>2, <1>3, <1>4, <1>5, StepGroups

LEMMA SweepInvInit == Init => SweepInv
BY DEF Init, SweepInv, FailedIsSwept, SweepReturns, Failed, Pending, Absent, Row, Columns

\* A failed source always has its retention sweep ahead of it
\* (record_document_processing_failure, 035_lifecycle_corrections.sql; retention-sweep.ts):
\* each failure queues the sweep afresh, and a run that holds it returns only when the
\* version is no longer one to delete.
THEOREM FailedSourcesAreSwept == Spec => []FailedIsSwept
<1>1. Init => TypeOK /\ VerdictGiven /\ SweepInv
  BY TypedInit, SweepInvInit, ProcessingAssumption
<1>2. TypeOK /\ VerdictGiven /\ SweepInv /\ [Next]_vars
        => TypeOK' /\ VerdictGiven' /\ SweepInv'
  BY TypedStep, SweepInvStep, ProcessingAssumption
<1>3. SweepInv => FailedIsSwept
  BY DEF SweepInv
<1> QED BY <1>1, <1>2, <1>3, PTL DEF Spec

-----------------------------------------------------------------------------
(* No object is forgotten.                                                  *)

\* How far an attempt may get in a step that registers and stores nothing: it stops, goes
\* on towards the first page, or from a verified page to the next.
Stopped == {"discard", "undo", "fail", "return", "throw"}

Moved(x, y) ==
  \/ y = x \/ y.pc = "gone"
  \/ /\ x.pc # "gone" /\ y.pc \in Stopped
     /\ x.pc \in {"return", "throw"} => y.pc \in {"return", "throw"}
  \/ /\ x.pc \in {"start", "scan", "evidence", "process"}
     /\ y.pc \in {"scan", "evidence", "process", "register"}
     /\ y.page = x.page /\ y.verified = x.verified
  \/ x.pc = "verify" /\ y = NextPage(x)

LEMMA QuietMoves ==
  ASSUME ProcessingAssumption, TypeOK, NEW r \in VRun, HandlerStep(r),
         ~RegisterCleanup(r), ~PutDerivative(r), ~AcceptVersion(r)
  PROVE  /\ \E x : run' = [run EXCEPT ![r] = x] /\ Moved(run[r], x)
         /\ UNCHANGED <<intents, accepted, cleanup>> /\ objects' \subseteq objects
<1>0. run \in [VRun -> Attempt] /\ run[r] \in Attempt
  BY DEF TypeOK
<1>1. \A pc \in PC : Goto(r, pc) =>
        \E x \in Attempt : /\ run' = [run EXCEPT ![r] = x] /\ x.pc = pc
                           /\ x.page = run[r].page /\ x.verified = run[r].verified
  <2> SUFFICES ASSUME NEW pc \in PC, Goto(r, pc)
               PROVE  \E x \in Attempt : /\ run' = [run EXCEPT ![r] = x] /\ x.pc = pc
                                         /\ x.page = run[r].page
                                         /\ x.verified = run[r].verified
    OBVIOUS
  <2>1. run' = [run EXCEPT ![r] = [run[r] EXCEPT !.pc = pc]]
    BY <1>0 DEF Goto
  <2>2. [run[r] EXCEPT !.pc = pc] \in Attempt /\ [run[r] EXCEPT !.pc = pc].pc = pc
    BY <1>0, AttemptMoves
  <2>3. /\ [run[r] EXCEPT !.pc = pc].page = run[r].page
        /\ [run[r] EXCEPT !.pc = pc].verified = run[r].verified
    BY <1>0 DEF Attempt
  <2> QED BY <2>1, <2>2, <2>3
<1>2. \A v \in Failed : FailWith(r, v) =>
        \E x \in Attempt : run' = [run EXCEPT ![r] = x] /\ x.pc = "fail"
  <2> SUFFICES ASSUME NEW v \in Failed, FailWith(r, v)
               PROVE  \E x \in Attempt : run' = [run EXCEPT ![r] = x] /\ x.pc = "fail"
    OBVIOUS
  <2>1. run' = [run EXCEPT ![r] = [[run[r] EXCEPT !.pc = "fail"] EXCEPT !.verdict = v]]
    BY <1>0 DEF FailWith
  <2>2. /\ [[run[r] EXCEPT !.pc = "fail"] EXCEPT !.verdict = v] \in Attempt
        /\ [[run[r] EXCEPT !.pc = "fail"] EXCEPT !.verdict = v].pc = "fail"
    BY <1>0, AttemptFails DEF Attempt
  <2> QED BY <2>1, <2>2
<1>3. Transient(r) =>
        \E x \in Attempt : run' = [run EXCEPT ![r] = x] /\ x.pc \in {"fail", "throw"}
  BY <1>1, <1>2 DEF Transient, Failed, PC
<1>4. \E x : run' = [run EXCEPT ![r] = x] /\ Moved(run[r], x)
  <2>1. CASE ReadVersion(r)
    BY <1>1, <2>1 DEF ReadVersion, At, Moved, Stopped, PC
  <2>2. CASE ReadAndScan(r)
    <3>1. run[r].pc = "scan"
      BY <2>2 DEF ReadAndScan, At
    <3>2. \/ Goto(r, "evidence") \/ Transient(r)
          \/ \E verdict \in Failed : FailWith(r, verdict)
      BY <2>2 DEF ReadAndScan, Failed
    <3> QED BY <1>1, <1>2, <1>3, <3>1, <3>2 DEF Moved, Stopped, PC
  <2>3. CASE RecordCleanScan(r)
    <3>0. run[r].pc = "evidence"
      BY <2>3 DEF RecordCleanScan, At
    <3>1. CASE Goto(r, "throw")
      BY <1>1, <3>0, <3>1 DEF Moved, Stopped, PC
    <3>2. CASE ~Goto(r, "throw")
      <4>1. run' = [run EXCEPT ![r] = [[run[r] EXCEPT !.pc = "process"] EXCEPT !.scanned = "clean"]]
        BY <1>0, <2>3, <3>2 DEF RecordCleanScan
      <4> QED BY <1>0, <3>0, <4>1, AttemptScans DEF Moved
    <3> QED BY <3>1, <3>2
  <2>4. CASE Convert(r)
    <3>1. run[r].pc = "process"
      BY <2>4 DEF Convert, At
    <3>2. \/ Goto(r, "register") \/ Transient(r)
          \/ \E verdict \in Failed : FailWith(r, verdict)
      BY <2>4 DEF Convert, Failed
    <3> QED BY <1>1, <1>2, <1>3, <3>1, <3>2 DEF Moved, Stopped, PC
  <2>5. CASE RecordVerified(r)
    BY <1>0, <1>1, <2>5 DEF RecordVerified, At, Moved, Stopped, PC
  <2>6. CASE Discard(r)
    BY <1>3, <2>6 DEF Discard, At, Moved, Stopped
  <2>7. CASE AcceptRefused(r) \/ Undo(r)
    BY <1>1, <2>7 DEF AcceptRefused, Undo, At, Moved, Stopped, PC
  <2>8. CASE FailProcessing(r)
    BY <1>1, <2>8 DEF FailProcessing, At, Moved, Stopped, PC
  <2>9. CASE Return(r) \/ Throw(r)
    <3>1. CASE run' = [run EXCEPT ![r] = Gone]
      BY <3>1, AttemptBegins DEF Moved
    <3>2. CASE Goto(r, "throw")
      BY <1>1, <2>9, <3>2 DEF Return, Throw, At, Moved, Stopped, PC
    <3> QED BY <2>9, <3>1, <3>2 DEF Return, Throw
  <2> QED BY <2>1, <2>2, <2>3, <2>4, <2>5, <2>6, <2>7, <2>8, <2>9 DEF HandlerStep
<1>5. UNCHANGED <<intents, accepted, cleanup>> /\ objects' \subseteq objects
  BY DEF HandlerStep, ReadVersion, ReadAndScan, RecordCleanScan, Convert, RecordVerified,
     Discard, AcceptRefused, Undo, FailProcessing, Return, Throw, DeletesSome, derivativeVars
<1> QED BY <1>4, <1>5

\* What a row keeps when an attempt ends, or its lease does.
Fades(row, next) ==
  /\ next.attempts = row.attempts /\ RowSound(next)
  /\ next = row \/ next.live = 0
  /\ next.stage = "absent" <=> row.stage = "absent"
  /\ row = Absent => next = Absent

LEMMA RowsFade ==
  ASSUME NEW max \in Nat, NEW row \in Rows(max), RowSound(row)
  PROVE  /\ Fades(row, row)
         /\ row.stage = "running" => Fades(row, Completed(row)) /\ Fades(row, GivenBack(row, max))
         /\ row.live # 0 => Fades(row, Lapsed(row))
         /\ Spent(row, max) => Fades(row, Buried(row))
<1>1. Absent.stage = "absent" /\ Absent.live = 0 /\ Absent.attempts = 0
  BY DEF Absent, Row, Columns
<1>2. ASSUME row.stage = "running"
      PROVE  Fades(row, Completed(row)) /\ Fades(row, GivenBack(row, max))
  <2>1. /\ Completed(row).attempts = row.attempts /\ Completed(row).live = 0
        /\ Completed(row).stage = "done"
    BY DEF Completed, Columns
  <2>2. /\ GivenBack(row, max).attempts = row.attempts /\ GivenBack(row, max).live = 0
        /\ GivenBack(row, max).stage \in {"running", "queued"}
    BY <1>2 DEF GivenBack, Columns
  <2> QED BY <1>1, <1>2, <2>1, <2>2, RowsSound DEF Fades
<1>3. ASSUME row.live # 0 PROVE Fades(row, Lapsed(row))
  <2>1. /\ Lapsed(row).attempts = row.attempts /\ Lapsed(row).live = 0
        /\ Lapsed(row).stage = row.stage
    BY DEF Lapsed, Rows
  <2> QED BY <1>1, <1>3, <2>1, RowsSound DEF Fades
<1>4. ASSUME Spent(row, max) PROVE Fades(row, Buried(row))
  <2>1. /\ Buried(row).attempts = row.attempts /\ Buried(row).live = 0
        /\ Buried(row).stage = "failed" /\ row.stage = "running"
    BY <1>4 DEF Spent, Buried, Rows
  <2> QED BY <1>1, <2>1, RowsSound DEF Fades
<1> QED BY <1>2, <1>3, <1>4 DEF Fades

JobsFade == \A j \in VJob : Fades(job[j], job'[j])

LEMMA HandlerFades ==
  ASSUME ProcessingAssumption, TypeOK, JobsSound, NEW r \in VRun, HandlerStep(r)
  PROVE  JobsFade
<1>0. given.attempts \in Nat /\ job \in [VJob -> Rows(given.attempts)]
  BY CaseNumbers DEF TypeOK
<1>1. ASSUME NEW j \in VJob
      PROVE  /\ Fades(job[j], job[j])
             /\ job[j].stage = "running" =>
                  Fades(job[j], Completed(job[j])) /\ Fades(job[j], GivenBack(job[j], given.attempts))
  BY <1>0, RowsFade DEF JobsSound
<1>2. \/ job' = job
      \/ LeaseHeld(r) /\ job' = [job EXCEPT ![r[1]] = Completed(@)]
      \/ LeaseHeld(r) /\ job' = [job EXCEPT ![r[1]] = GivenBack(@, given.attempts)]
  BY DEF HandlerStep, ReadVersion, ReadAndScan, RecordCleanScan, Convert, RegisterCleanup,
         PutDerivative, RecordVerified, Discard, AcceptVersion, AcceptRefused, Undo,
         FailProcessing, Return, Throw
<1> QED BY <1>0, <1>1, <1>2 DEF JobsFade, LeaseHeld, HeldBy

LEMMA LeasesFade ==
  ASSUME ProcessingAssumption, TypeOK, JobsSound, NEW j \in VJob, Exhaust(j) \/ LoseLease(j)
  PROVE  JobsFade
<1>0. given.attempts \in Nat /\ job \in [VJob -> Rows(given.attempts)]
  BY CaseNumbers DEF TypeOK
<1>1. ASSUME NEW i \in VJob
      PROVE  /\ Fades(job[i], job[i])
             /\ job[i].live # 0 => Fades(job[i], Lapsed(job[i]))
             /\ Spent(job[i], given.attempts) => Fades(job[i], Buried(job[i]))
  BY <1>0, RowsFade DEF JobsSound
<1> QED BY <1>0, <1>1 DEF JobsFade, Exhaust, LoseLease

\* A step that registers, stores and accepts nothing.
LEMMA RegistryQuiet ==
  ASSUME ProcessingAssumption, TypeOK, RegistryInv, given' = given, JobsSound',
         \A j \in VJob : job'[j].attempts = job[j].attempts,
         UNCHANGED <<intents, accepted, cleanup, cleaner>>, objects' \subseteq objects,
         \A r \in VRun : Moved(run[r], run'[r])
  PROVE  RegistryInv'
<1>0. /\ VRun' = VRun /\ Key' = Key /\ Cleaner' = Cleaner
      /\ given.pages \in Nat /\ given'.pages = given.pages
      /\ \A r \in VRun : r[1] \in VJob /\ run[r].page \in 1..given.pages
  BY SpansKept, CaseNumbers DEF VRun, TypeOK, Attempt
<1>1. OfClaimed'
  <2>1. \A r \in VRun : ~At(r, "gone")' => job'[r[1]].attempts >= r[2]
    BY <1>0 DEF RegistryInv, OfClaimed, At, Moved, NextPage
  <2>2. \A k \in Key : cleanup[k].stage # "absent" => job'[k[1][1]].attempts >= k[1][2]
    BY <1>0 DEF RegistryInv, OfClaimed, Key
  <2>3. \A k \in accepted : /\ job'[k[1][1]].attempts >= k[1][2]
                            /\ run'[k[1]].pc \in {"return", "throw", "gone"}
    <3> SUFFICES ASSUME NEW k \in accepted
                 PROVE  /\ job'[k[1][1]].attempts >= k[1][2]
                        /\ run'[k[1]].pc \in {"return", "throw", "gone"}
      OBVIOUS
    <3>1. k[1] \in VRun /\ k[1][1] \in VJob
      BY <1>0 DEF TypeOK, Key
    <3>2. job[k[1][1]].attempts >= k[1][2] /\ run[k[1]].pc \in {"return", "throw", "gone"}
      BY DEF RegistryInv, OfClaimed
    <3> QED BY <3>1, <3>2 DEF Moved
  <2> QED BY <1>0, <2>1, <2>2, <2>3 DEF OfClaimed
<1>2. AheadUnregistered'
  <2> SUFFICES ASSUME NEW r \in VRun, NEW p \in 1..given.pages,
                      \/ /\ run'[r].pc \in {"start", "scan", "evidence", "process", "register"}
                         /\ p >= run'[r].page
                      \/ run'[r].pc \in {"put", "verify"} /\ p > run'[r].page
               PROVE  cleanup[<<r, p>>].stage = "absent"
    BY <1>0 DEF AheadUnregistered
  <2>1. \/ /\ run[r].pc \in {"start", "scan", "evidence", "process", "register"}
           /\ p >= run[r].page
        \/ run[r].pc \in {"put", "verify"} /\ p > run[r].page
    <3>1. run[r].page \in Nat /\ p \in Nat
      BY <1>0
    <3>2. CASE run[r].pc = "verify" /\ run'[r] = NextPage(run[r])
      BY <1>0, <3>1, <3>2 DEF NextPage, TypeOK, Attempt
    <3>3. CASE ~(run[r].pc = "verify" /\ run'[r] = NextPage(run[r]))
      BY <3>3 DEF Moved, Stopped
    <3> QED BY <3>2, <3>3
  <2> QED BY <2>1 DEF RegistryInv, AheadUnregistered
<1>3. ResolvedForGood'
  BY <1>0 DEF RegistryInv, ResolvedForGood
<1>4. PutRegistered'
  <2> SUFFICES ASSUME NEW r \in VRun, run'[r].pc = "put"
               PROVE  \/ <<r, run'[r].page>> \in intents
                      \/ cleanup[<<r, run'[r].page>>].attempts > 0
    BY <1>0 DEF PutRegistered, At, CurrentKey
  <2>1. NextPage(run[r]).pc # "put"
    BY <1>0 DEF NextPage, TypeOK, Attempt
  <2>2. run'[r] = run[r]
    BY <2>1 DEF Moved, Stopped
  <2> QED BY <2>2 DEF RegistryInv, PutRegistered, At, CurrentKey
<1>5. NothingUnregistered'
  BY DEF RegistryInv, NothingUnregistered
<1> QED BY <1>1, <1>2, <1>3, <1>4, <1>5 DEF RegistryInv

\* Where an attempt goes on without a verdict.
LEMMA Goes ==
  ASSUME TypeOK, NEW r \in VRun, NEW pc \in PC, Goto(r, pc)
  PROVE  /\ run'[r].pc = pc /\ run'[r].page = run[r].page
         /\ run'[r].verified = run[r].verified /\ run'[r].scanned = run[r].scanned
         /\ \A q \in VRun : q # r => run'[q] = run[q]
<1>1. run'[r] = [run[r] EXCEPT !.pc = pc] /\ \A q \in VRun : q # r => run'[q] = run[q]
  BY DEF Goto, TypeOK
<1>2. run[r] \in Attempt
  BY DEF TypeOK
<1> QED BY <1>1, <1>2 DEF Attempt

\* register_derivative_cleanup with the lease: a page that had no cleanup gets its intent and
\* its cleanup.
LEMMA RegistryRegister ==
  ASSUME ProcessingAssumption, TypeOK, TypeOK', RegistryInv, NEW r \in VRun, RegisterCleanup(r)
  PROVE  RegistryInv'
<1>0. /\ VRun' = VRun /\ Key' = Key /\ Cleaner' = Cleaner
      /\ given.pages \in Nat /\ given'.pages = given.pages
      /\ r[1] \in VJob /\ run[r].page \in 1..given.pages /\ CurrentKey(r) \in Key
      /\ CurrentKey(r) = <<r, run[r].page>>
  BY SpansKept, CaseNumbers DEF RegisterCleanup, VRun, TypeOK, Attempt, CurrentKey, Key
<1>1. /\ run[r].pc = "register" /\ job' = job /\ manual' = manual
      /\ UNCHANGED <<objects, accepted, cleaner>>
  BY DEF RegisterCleanup, At
<1>2. CASE Goto(r, "discard") /\ UNCHANGED <<intents, cleanup>>
  <2>1. \A q \in VRun : Moved(run[q], run'[q])
    BY <1>1, <1>2, Goes DEF PC, Moved, Stopped
  <2>2. JobsSound'
    BY <1>0, <1>1, <1>2 DEF RegistryInv, JobsSound
  <2> QED BY <1>1, <1>2, <2>1, <2>2, RegistryQuiet DEF RegisterCleanup
<1>3. CASE ~(Goto(r, "discard") /\ UNCHANGED <<intents, cleanup>>)
  <2>1. /\ intents' = intents \cup {CurrentKey(r)}
        /\ cleanup' = [cleanup EXCEPT ![CurrentKey(r)] = Queued]
        /\ \E pc \in {"put", "discard"} : Goto(r, pc)
    BY <1>3 DEF RegisterCleanup, QueuedCleanup
  <2>2. /\ run'[r].pc \in {"put", "discard"} /\ run'[r].page = run[r].page
        /\ \A q \in VRun : q # r => run'[q] = run[q]
    BY <2>1, Goes DEF PC
  <2>3. /\ cleanup'[CurrentKey(r)] = Queued
        /\ \A k \in Key : k # CurrentKey(r) => cleanup'[k] = cleanup[k]
        /\ Queued.stage = "queued"
    BY <1>0, <2>1 DEF TypeOK, Queued, Row, Columns
  <2>4. cleanup[CurrentKey(r)].stage = "absent"
    BY <1>0, <1>1 DEF RegistryInv, AheadUnregistered
  <2>5. job[r[1]].attempts >= r[2]
    BY <1>1 DEF RegistryInv, OfClaimed, At
  <2>6. JobsSound'
    BY <1>0, <1>1, <2>3, NewRows, RowsSound DEF RegistryInv, JobsSound, RowSound, Queued, Row, Columns
  <2>7. OfClaimed'
    <3>1. \A q \in VRun : run'[q].pc # "gone" => job[q[1]].attempts >= q[2]
      BY <2>2, <2>5 DEF RegistryInv, OfClaimed, At
    <3>2. \A k \in Key : cleanup'[k].stage # "absent" => job[k[1][1]].attempts >= k[1][2]
      BY <1>0, <2>3, <2>5 DEF RegistryInv, OfClaimed
    <3>3. \A k \in accepted : /\ job[k[1][1]].attempts >= k[1][2]
                              /\ run'[k[1]].pc \in {"return", "throw", "gone"}
      <4>1. \A k \in accepted : k[1] \in VRun
        BY DEF TypeOK, Key
      <4> QED BY <1>1, <2>2, <4>1 DEF RegistryInv, OfClaimed
    <3> QED BY <1>0, <1>1, <3>1, <3>2, <3>3 DEF OfClaimed, At
  <2>8. AheadUnregistered'
    <3> SUFFICES ASSUME NEW q \in VRun, NEW p \in 1..given.pages,
                        \/ /\ run'[q].pc \in {"start", "scan", "evidence", "process", "register"}
                           /\ p >= run'[q].page
                        \/ run'[q].pc \in {"put", "verify"} /\ p > run'[q].page
                 PROVE  cleanup'[<<q, p>>].stage = "absent"
      BY <1>0 DEF AheadUnregistered
    <3>1. <<q, p>> \in Key /\ <<q, p>> # CurrentKey(r)
      BY <1>0, <2>2 DEF Key
    <3>2. cleanup[<<q, p>>].stage = "absent"
      BY <1>0, <1>1, <2>2 DEF RegistryInv, AheadUnregistered
    <3> QED BY <2>3, <3>1, <3>2
  <2>9. ResolvedForGood'
    <3> SUFFICES ASSUME NEW c \in Cleaner
                 PROVE  /\ cleaner[c] # "gone" => cleanup'[c[1]].stage # "absent"
                        /\ cleaner[c] \in {"resolved", "return"} => c[1] \notin intents'
      BY <1>0, <1>1 DEF ResolvedForGood
    <3>1. c[1] \in Key
      BY DEF Cleaner
    <3> QED BY <2>1, <2>3, <2>4, <3>1 DEF RegistryInv, ResolvedForGood
  <2>10. PutRegistered'
    <3> SUFFICES ASSUME NEW q \in VRun, run'[q].pc = "put"
                 PROVE  \/ <<q, run'[q].page>> \in intents'
                        \/ cleanup'[<<q, run'[q].page>>].attempts > 0
      BY <1>0 DEF PutRegistered, At, CurrentKey
    <3>1. CASE q = r
      BY <1>0, <2>1, <2>2, <3>1
    <3>2. CASE q # r
      <4>1. <<q, run'[q].page>> \in Key /\ <<q, run'[q].page>> # CurrentKey(r)
        BY <1>0, <2>2, <3>2 DEF Key, TypeOK, Attempt
      <4> QED BY <2>1, <2>2, <2>3, <3>2, <4>1 DEF RegistryInv, PutRegistered, At, CurrentKey
    <3> QED BY <3>1, <3>2
  <2>11. NothingUnregistered'
    <3>1. \A k \in intents' : cleanup'[k].stage \in {"queued", "running", "failed"}
      BY <2>1, <2>3 DEF RegistryInv, NothingUnregistered, TypeOK
    <3>2. \A k \in objects \ (accepted \cup intents') : cleanup'[k].attempts > 0
      BY <2>1, <2>3 DEF RegistryInv, NothingUnregistered, TypeOK
    <3> QED BY <1>1, <3>1, <3>2 DEF NothingUnregistered
  <2> QED BY <2>6, <2>7, <2>8, <2>9, <2>10, <2>11 DEF RegistryInv
<1> QED BY <1>2, <1>3

\* putDerivative, whether or not the store answers: what it may have stored is registered.
LEMMA RegistryPut ==
  ASSUME ProcessingAssumption, TypeOK, TypeOK', RegistryInv, NEW r \in VRun, PutDerivative(r)
  PROVE  RegistryInv'
<1>0. /\ VRun' = VRun /\ Key' = Key /\ Cleaner' = Cleaner /\ given'.pages = given.pages
      /\ r[1] \in VJob
  BY SpansKept DEF PutDerivative, VRun
<1>1. /\ run[r].pc = "put" /\ job' = job /\ manual' = manual
      /\ UNCHANGED <<intents, accepted, cleanup, cleaner>>
      /\ objects' \subseteq objects \cup {CurrentKey(r)}
      /\ Goto(r, "verify") \/ Goto(r, "discard")
  BY DEF PutDerivative, At
<1>2. /\ run'[r].pc \in {"verify", "discard"} /\ run'[r].page = run[r].page
      /\ \A q \in VRun : q # r => run'[q] = run[q]
  BY <1>1, Goes DEF PC
<1>3. JobsSound'
  BY <1>0, <1>1 DEF RegistryInv, JobsSound
<1>4. OfClaimed'
  <2>1. \A q \in VRun : run'[q].pc # "gone" => job[q[1]].attempts >= q[2]
    BY <1>1, <1>2 DEF RegistryInv, OfClaimed, At
  <2>2. \A k \in accepted : run'[k[1]].pc \in {"return", "throw", "gone"}
    <3>1. \A k \in accepted : k[1] \in VRun
      BY DEF TypeOK, Key
    <3> QED BY <1>1, <1>2, <3>1 DEF RegistryInv, OfClaimed
  <2> QED BY <1>0, <1>1, <2>1, <2>2 DEF RegistryInv, OfClaimed, At
<1>5. AheadUnregistered'
  BY <1>0, <1>1, <1>2 DEF RegistryInv, AheadUnregistered
<1>6. ResolvedForGood'
  BY <1>0, <1>1 DEF RegistryInv, ResolvedForGood
<1>7. PutRegistered'
  <2> SUFFICES ASSUME NEW q \in VRun, run'[q].pc = "put"
               PROVE  \/ <<q, run'[q].page>> \in intents
                      \/ cleanup[<<q, run'[q].page>>].attempts > 0
    BY <1>0, <1>1 DEF PutRegistered, At, CurrentKey
  <2> QED BY <1>2 DEF RegistryInv, PutRegistered, At, CurrentKey
<1>8. NothingUnregistered'
  <2>1. CurrentKey(r) \in intents \/ cleanup[CurrentKey(r)].attempts > 0
    BY <1>1 DEF RegistryInv, PutRegistered, At
  <2> QED BY <1>1, <2>1 DEF RegistryInv, NothingUnregistered
<1> QED BY <1>3, <1>4, <1>5, <1>6, <1>7, <1>8 DEF RegistryInv

\* accept_processed_version: its keys are owned, their intents and waiting cleanups go.
LEMMA RegistryAccept ==
  ASSUME ProcessingAssumption, TypeOK, TypeOK', RegistryInv, NEW r \in VRun, AcceptVersion(r)
  PROVE  RegistryInv'
<1>0. /\ VRun' = VRun /\ Key' = Key /\ Cleaner' = Cleaner /\ given'.pages = given.pages
      /\ r[1] \in VJob /\ KeysOf(r) \subseteq Key
  BY SpansKept DEF AcceptVersion, VRun, KeysOf, Key
<1>1. /\ run[r].pc = "accept" /\ job' = job /\ manual' = manual
      /\ UNCHANGED <<objects, cleaner>>
      /\ accepted' = accepted \cup KeysOf(r) /\ intents' = intents \ KeysOf(r)
      /\ cleanup' = Withdrawn(KeysOf(r))
      /\ \E pc \in {"return", "throw"} : Goto(r, pc)
  BY DEF AcceptVersion, At
<1>2. /\ run'[r].pc \in {"return", "throw"} /\ run'[r].page = run[r].page
      /\ \A q \in VRun : q # r => run'[q] = run[q]
  BY <1>1, Goes DEF PC
<1>3. \A k \in Key : \/ cleanup'[k] = cleanup[k]
                     \/ /\ k \in KeysOf(r) /\ cleanup[k].stage = "queued"
                        /\ cleanup'[k] = Row("deleted")
  BY <1>1 DEF Withdrawn
<1>4. Row("deleted").stage = "deleted" /\ RowSound(Row("deleted"))
  BY DEF Row, Columns, RowSound
<1>5. job[r[1]].attempts >= r[2]
  BY <1>1 DEF RegistryInv, OfClaimed, At
<1>6. \A k \in KeysOf(r) : k[1] = r
  BY DEF KeysOf
<1>7. JobsSound'
  <2>1. \A k \in Key : RowSound(cleanup'[k])
    BY <1>3, <1>4 DEF RegistryInv, JobsSound
  <2> QED BY <1>0, <1>1, <2>1 DEF RegistryInv, JobsSound
<1>8. OfClaimed'
  <2>1. \A q \in VRun : run'[q].pc # "gone" => job[q[1]].attempts >= q[2]
    BY <1>2, <1>5 DEF RegistryInv, OfClaimed, At
  <2>2. \A k \in Key : cleanup'[k].stage # "absent" => job[k[1][1]].attempts >= k[1][2]
    BY <1>3 DEF RegistryInv, OfClaimed
  <2>3. \A k \in accepted' : /\ job[k[1][1]].attempts >= k[1][2]
                             /\ run'[k[1]].pc \in {"return", "throw", "gone"}
    <3> SUFFICES ASSUME NEW k \in accepted'
                 PROVE  /\ job[k[1][1]].attempts >= k[1][2]
                        /\ run'[k[1]].pc \in {"return", "throw", "gone"}
      OBVIOUS
    <3>1. CASE k \in KeysOf(r)
      BY <1>2, <1>5, <1>6, <3>1
    <3>2. CASE k \notin KeysOf(r)
      <4>1. k \in accepted /\ k[1] \in VRun
        BY <1>1, <3>2 DEF TypeOK, Key
      <4> QED BY <1>1, <1>2, <4>1 DEF RegistryInv, OfClaimed
    <3> QED BY <3>1, <3>2
  <2> QED BY <1>0, <1>1, <2>1, <2>2, <2>3 DEF OfClaimed, At
<1>9. AheadUnregistered'
  <2> SUFFICES ASSUME NEW q \in VRun, NEW p \in 1..given.pages,
                      \/ /\ run'[q].pc \in {"start", "scan", "evidence", "process", "register"}
                         /\ p >= run'[q].page
                      \/ run'[q].pc \in {"put", "verify"} /\ p > run'[q].page
               PROVE  cleanup'[<<q, p>>].stage = "absent"
    BY <1>0 DEF AheadUnregistered
  <2>1. <<q, p>> \in Key /\ q # r /\ run'[q] = run[q]
    BY <1>2 DEF Key
  <2>2. cleanup[<<q, p>>].stage = "absent"
    BY <2>1 DEF RegistryInv, AheadUnregistered
  <2> QED BY <1>3, <2>1, <2>2
<1>10. ResolvedForGood'
  <2>1. \A c \in Cleaner : c[1] \in Key
    BY DEF Cleaner
  <2> QED BY <1>0, <1>1, <1>3, <1>4, <2>1 DEF RegistryInv, ResolvedForGood
<1>11. PutRegistered'
  <2> SUFFICES ASSUME NEW q \in VRun, run'[q].pc = "put"
               PROVE  \/ <<q, run'[q].page>> \in intents'
                      \/ cleanup'[<<q, run'[q].page>>].attempts > 0
    BY <1>0 DEF PutRegistered, At, CurrentKey
  <2>1. q # r /\ run'[q] = run[q]
    BY <1>2
  <2>2. <<q, run[q].page>> \in Key /\ <<q, run[q].page>> \notin KeysOf(r)
    BY <2>1 DEF Key, KeysOf, TypeOK, Attempt
  <2>3. <<q, run[q].page>> \in intents \/ cleanup[<<q, run[q].page>>].attempts > 0
    BY <2>1 DEF RegistryInv, PutRegistered, At, CurrentKey
  <2> QED BY <1>1, <1>3, <2>1, <2>2, <2>3
<1>12. NothingUnregistered'
  <2>1. \A k \in intents' : cleanup'[k].stage \in {"queued", "running", "failed"}
    BY <1>1, <1>3 DEF RegistryInv, NothingUnregistered, TypeOK
  <2>2. \A k \in objects \ (accepted' \cup intents') : cleanup'[k].attempts > 0
    BY <1>1, <1>3 DEF RegistryInv, NothingUnregistered, TypeOK
  <2> QED BY <1>1, <2>1, <2>2 DEF NothingUnregistered
<1> QED BY <1>7, <1>8, <1>9, <1>10, <1>11, <1>12 DEF RegistryInv

\* A new attempt has registered and stored nothing.
LEMMA RegistryClaim ==
  ASSUME ProcessingAssumption, TypeOK, TypeOK', RegistryInv, NEW j \in VJob, ClaimValidation(j)
  PROVE  RegistryInv'
<1> DEFINE r == <<j, job[j].attempts + 1>>
<1>0. /\ VRun' = VRun /\ Key' = Key /\ Cleaner' = Cleaner /\ given'.pages = given.pages
      /\ manual' = manual
      /\ UNCHANGED <<intents, accepted, cleanup, cleaner, objects>>
  BY SpansKept DEF ClaimValidation, derivativeVars
<1>1. /\ job[j].attempts \in Nat /\ r \in VRun
      /\ \A i \in VJob : job[i].attempts \in Nat
  <2>1. job[j].attempts + 1 \in 1..given.attempts
    BY RowsOf DEF ClaimValidation
  <2> QED BY <2>1, CaseNumbers DEF VRun, TypeOK, Rows
<1>2. /\ run'[r] = [Gone EXCEPT !.pc = "start"] /\ run'[r].pc = "start"
      /\ \A q \in VRun : q # r => run'[q] = run[q]
  BY <1>1, AttemptBegins DEF ClaimValidation, TypeOK
<1>3. /\ job'[j] = Claimed(job[j]) /\ job'[j].attempts = job[j].attempts + 1
      /\ \A i \in VJob : i # j => job'[i] = job[i]
  BY DEF ClaimValidation, TypeOK, Claimed, Columns
<1>4. \A i \in VJob : job'[i].attempts \in Nat /\ job'[i].attempts >= job[i].attempts
  BY <1>1, <1>3
<1>5. \A k \in Key : k[1] \in VRun /\ k[1][1] \in VJob /\ k[1][2] \in Nat
  BY CaseNumbers DEF Key, VRun
<1>6. JobsSound'
  <2>1. RowSound(Claimed(job[j]))
    BY CaseNumbers, RowsSound DEF ClaimValidation, TypeOK, RegistryInv, JobsSound
  <2>2. manual = 0 => j # "retry"
    <3>1. Absent.stage = "absent"
      BY DEF Absent, Row, Columns
    <3> QED BY <3>1 DEF ClaimValidation, CanClaim, RegistryInv, JobsSound
  <2> QED BY <1>0, <1>3, <2>1, <2>2 DEF RegistryInv, JobsSound, VJob
<1>7. OfClaimed'
  <2>1. \A q \in VRun : run'[q].pc # "gone" => job'[q[1]].attempts >= q[2]
    <3> SUFFICES ASSUME NEW q \in VRun, run'[q].pc # "gone"
                 PROVE  job'[q[1]].attempts >= q[2]
      OBVIOUS
    <3>1. CASE q = r
      BY <1>1, <1>3, <3>1
    <3>2. CASE q # r
      <4>1. q[1] \in VJob /\ q[2] \in Nat /\ job[q[1]].attempts >= q[2]
        BY <1>2, <3>2, CaseNumbers DEF RegistryInv, OfClaimed, At, VRun
      <4> QED BY <1>1, <1>4, <4>1
    <3> QED BY <3>1, <3>2
  <2>2. \A k \in Key : cleanup[k].stage # "absent" => job'[k[1][1]].attempts >= k[1][2]
    BY <1>1, <1>4, <1>5 DEF RegistryInv, OfClaimed
  <2>3. \A k \in accepted : /\ job'[k[1][1]].attempts >= k[1][2]
                            /\ run'[k[1]].pc \in {"return", "throw", "gone"}
    <3> SUFFICES ASSUME NEW k \in accepted
                 PROVE  /\ job'[k[1][1]].attempts >= k[1][2]
                        /\ run'[k[1]].pc \in {"return", "throw", "gone"}
      OBVIOUS
    <3>1. /\ k[1] \in VRun /\ k[1][1] \in VJob /\ k[1][2] \in Nat
          /\ job[k[1][1]].attempts >= k[1][2] /\ run[k[1]].pc \in {"return", "throw", "gone"}
      BY <1>5 DEF TypeOK, RegistryInv, OfClaimed
    <3>2. k[1] # r
      BY <1>1, <3>1
    <3> QED BY <1>1, <1>2, <1>4, <3>1, <3>2
  <2> QED BY <1>0, <2>1, <2>2, <2>3 DEF OfClaimed, At
<1>8. AheadUnregistered'
  <2> SUFFICES ASSUME NEW q \in VRun, NEW p \in 1..given.pages,
                      \/ /\ run'[q].pc \in {"start", "scan", "evidence", "process", "register"}
                         /\ p >= run'[q].page
                      \/ run'[q].pc \in {"put", "verify"} /\ p > run'[q].page
               PROVE  cleanup[<<q, p>>].stage = "absent"
    BY <1>0 DEF AheadUnregistered
  <2>1. CASE q = r
    <3>1. <<r, p>> \in Key /\ <<r, p>>[1] = r
      BY <1>1 DEF Key
    <3>2. ~(job[j].attempts >= job[j].attempts + 1)
      BY <1>1
    <3> QED BY <2>1, <3>1, <3>2 DEF RegistryInv, OfClaimed
  <2>2. CASE q # r
    BY <1>2, <2>2 DEF RegistryInv, AheadUnregistered
  <2> QED BY <2>1, <2>2
<1>9. ResolvedForGood' /\ NothingUnregistered'
  BY <1>0 DEF RegistryInv, ResolvedForGood, NothingUnregistered
<1>10. PutRegistered'
  <2> SUFFICES ASSUME NEW q \in VRun, run'[q].pc = "put"
               PROVE  \/ <<q, run'[q].page>> \in intents
                      \/ cleanup[<<q, run'[q].page>>].attempts > 0
    BY <1>0 DEF PutRegistered, At, CurrentKey
  <2>1. q # r /\ run'[q] = run[q]
    BY <1>2
  <2> QED BY <2>1 DEF RegistryInv, PutRegistered, At, CurrentKey
<1> QED BY <1>6, <1>7, <1>8, <1>9, <1>10 DEF RegistryInv

\* What a step of a cleanup job may do to the row of one key, to its intent and object.
CleanupMoved(k) ==
  /\ \A i \in Key : i # k => cleanup'[i] = cleanup[i]
  /\ cleanup'[k].attempts >= cleanup[k].attempts /\ RowSound(cleanup'[k])
  /\ cleanup'[k].stage = "absent" <=> cleanup[k].stage = "absent"
  /\ cleanup[k].stage \in {"queued", "running", "failed"} =>
       \/ cleanup'[k].stage \in {"queued", "running", "failed"}
       \/ k \notin intents
  /\ \/ intents' = intents
     \/ intents' = intents \ {k} /\ cleanup[k].attempts > 0
  /\ objects' \subseteq objects

LEMMA RegistryCleanup ==
  ASSUME ProcessingAssumption, TypeOK, TypeOK', RegistryInv, NEW k \in Key, CleanupMoved(k),
         ResolvedForGood', UNCHANGED <<given, manual, job, run, accepted>>
  PROVE  RegistryInv'
<1>0. VRun' = VRun /\ Key' = Key /\ given'.pages = given.pages
  BY SpansKept
<1>1. \A i \in Key : /\ cleanup'[i].attempts \in Nat /\ cleanup[i].attempts \in Nat
                     /\ cleanup'[i].attempts >= cleanup[i].attempts
                     /\ cleanup'[i].stage = "absent" <=> cleanup[i].stage = "absent"
  BY <1>0, CaseNumbers DEF CleanupMoved, TypeOK, Rows
<1>2. JobsSound'
  BY <1>0 DEF CleanupMoved, RegistryInv, JobsSound
<1>3. OfClaimed'
  BY <1>0, <1>1 DEF RegistryInv, OfClaimed, At
<1>4. AheadUnregistered'
  <2>1. \A r \in VRun, p \in 1..given.pages : <<r, p>> \in Key
    BY DEF Key
  <2> QED BY <1>0, <1>1, <2>1 DEF RegistryInv, AheadUnregistered
<1>5. PutRegistered'
  <2>1. \A r \in VRun : CurrentKey(r) \in Key /\ CurrentKey(r)' = CurrentKey(r)
    BY DEF CurrentKey, Key, TypeOK, Attempt
  <2> QED BY <1>0, <1>1, <2>1 DEF CleanupMoved, RegistryInv, PutRegistered, At
<1>6. NothingUnregistered'
  <2>1. \A i \in intents' : cleanup'[i].stage \in {"queued", "running", "failed"}
    BY DEF CleanupMoved, RegistryInv, NothingUnregistered, TypeOK
  <2>2. \A i \in objects' \ (accepted \cup intents') : cleanup'[i].attempts > 0
    BY <1>1 DEF CleanupMoved, RegistryInv, NothingUnregistered, TypeOK
  <2> QED BY <2>1, <2>2 DEF NothingUnregistered
<1> QED BY <1>2, <1>3, <1>4, <1>5, <1>6 DEF RegistryInv

\* What the queue makes of a cleanup's row.
LEMMA CleanupRows ==
  ASSUME ProcessingAssumption, TypeOK, JobsSound, NEW k \in Key
  PROVE  /\ Fades(cleanup[k], cleanup[k])
         /\ cleanup[k].stage = "running" => /\ Fades(cleanup[k], Completed(cleanup[k]))
                                            /\ Fades(cleanup[k], GivenBack(cleanup[k], given.cleanups))
         /\ cleanup[k].live # 0 => Fades(cleanup[k], Lapsed(cleanup[k]))
         /\ Spent(cleanup[k], given.cleanups) => Fades(cleanup[k], Buried(cleanup[k]))
         /\ CanClaim(cleanup[k], given.cleanups) => RowSound(Claimed(cleanup[k]))
         /\ cleanup[k].attempts \in Nat /\ cleanup[k].live \in Nat
BY CaseNumbers, RowsFade, RowsSound DEF TypeOK, JobsSound, Rows

LEMMA CleanupQueueMoves ==
  ASSUME ProcessingAssumption, TypeOK, TypeOK', RegistryInv, NEW k \in Key,
         ClaimCleanup(k) \/ ExhaustCleanup(k) \/ LoseCleanupLease(k)
  PROVE  CleanupMoved(k) /\ ResolvedForGood'
<1>0. Cleaner' = Cleaner /\ UNCHANGED <<given, intents, objects>> /\ JobsSound
  BY SpansKept DEF ClaimCleanup, ExhaustCleanup, LoseCleanupLease, RegistryInv
<1>1. \A i \in Key : i # k => cleanup'[i] = cleanup[i]
  BY DEF ClaimCleanup, ExhaustCleanup, LoseCleanupLease, TypeOK
<1>2. CASE ClaimCleanup(k)
  <2>1. /\ cleanup'[k] = Claimed(cleanup[k]) /\ RowSound(cleanup'[k])
        /\ cleanup'[k].stage = "running" /\ cleanup'[k].attempts = cleanup[k].attempts + 1
        /\ cleanup[k].stage \in {"queued", "running"}
    BY <1>0, <1>2, CleanupRows DEF ClaimCleanup, CanClaim, Claimed, Columns, TypeOK
  <2>2. CleanupMoved(k)
    BY <1>0, <1>1, <2>1, CleanupRows DEF CleanupMoved
  <2>3. \A c \in Cleaner : \/ cleaner'[c] = cleaner[c]
                           \/ c[1] = k /\ cleaner'[c] = "claimed"
    BY <1>2 DEF ClaimCleanup, CleanerGoto, TypeOK
  <2>4. \A c \in Cleaner : c[1] \in Key
    BY DEF Cleaner
  <2> QED BY <1>0, <1>1, <2>1, <2>2, <2>3, <2>4 DEF RegistryInv, ResolvedForGood
<1>3. CASE ExhaustCleanup(k) \/ LoseCleanupLease(k)
  <2>0. \/ Spent(cleanup[k], given.cleanups) /\ cleanup'[k] = Buried(cleanup[k])
        \/ cleanup[k].live # 0 /\ cleanup'[k] = Lapsed(cleanup[k])
    BY <1>3 DEF ExhaustCleanup, LoseCleanupLease, TypeOK
  <2>1. /\ Fades(cleanup[k], cleanup'[k]) /\ cleaner' = cleaner
        /\ cleanup'[k].stage \in {cleanup[k].stage, "failed"}
    <3>1. Fades(cleanup[k], cleanup'[k])
      BY <1>0, <2>0, CleanupRows
    <3>2. cleanup'[k].stage \in {cleanup[k].stage, "failed"}
      BY <2>0 DEF Buried, Lapsed, TypeOK, Rows
    <3> QED BY <1>3, <3>1, <3>2 DEF ExhaustCleanup, LoseCleanupLease
  <2>2. CleanupMoved(k)
    BY <1>0, <1>1, <2>1, CleanupRows DEF CleanupMoved, Fades
  <2>3. \A c \in Cleaner : c[1] \in Key
    BY DEF Cleaner
  <2> QED BY <1>0, <1>1, <2>1, <2>2, <2>3 DEF RegistryInv, ResolvedForGood, Fades
<1> QED BY <1>2, <1>3

LEMMA CleanerMoves ==
  ASSUME ProcessingAssumption, TypeOK, TypeOK', RegistryInv, NEW c \in Cleaner,
         CleanerStep(c) \/ CrashCleaner(c)
  PROVE  CleanupMoved(c[1]) /\ ResolvedForGood'
<1>0. /\ Cleaner' = Cleaner /\ given' = given /\ JobsSound
      /\ c[1] \in Key /\ \A d \in Cleaner : d[1] \in Key
  BY SpansKept DEF CleanerStep, ResolveCleanup, DeleteDerivative, SettleCleanup, CrashCleaner,
                   RegistryInv, Cleaner
<1>1. Fades(cleanup[c[1]], cleanup[c[1]]) /\ cleanup[c[1]].attempts \in Nat
  BY <1>0, CleanupRows
<1>2. \A d \in Cleaner : d # c => cleaner'[d] = cleaner[d]
  BY DEF CleanerStep, ResolveCleanup, DeleteDerivative, SettleCleanup, CrashCleaner,
         CleanerGoto, TypeOK
<1>3. CASE ResolveCleanup(c)
  <2>1. /\ cleanup' = cleanup /\ objects' = objects
        /\ \/ /\ CleanerHolds(c) /\ intents' = intents \ {c[1]}
              /\ cleaner'[c] \in {"resolved", "throw"}
           \/ intents' = intents /\ cleaner'[c] = "throw"
        /\ cleaner[c] = "claimed"
    BY <1>3 DEF ResolveCleanup, CleanerGoto, TypeOK
  <2>2. CleanerHolds(c) => cleanup[c[1]].attempts > 0
    BY <1>0 DEF CleanerHolds, HeldBy, JobsSound, RowSound
  <2>3. CleanupMoved(c[1])
    BY <1>1, <2>1, <2>2 DEF CleanupMoved, Fades
  <2>4. ResolvedForGood'
    <3>1. \A d \in Cleaner : cleaner'[d] # "gone" => cleanup[d[1]].stage # "absent"
      BY <1>2, <2>1 DEF RegistryInv, ResolvedForGood
    <3>2. \A d \in Cleaner : cleaner'[d] \in {"resolved", "return"} => d[1] \notin intents'
      BY <1>2, <2>1 DEF RegistryInv, ResolvedForGood
    <3> QED BY <1>0, <2>1, <3>1, <3>2 DEF ResolvedForGood
  <2> QED BY <2>3, <2>4
<1>4. CASE DeleteDerivative(c) \/ CrashCleaner(c)
  <2>1. /\ cleanup' = cleanup /\ objects' \subseteq objects /\ intents' = intents
        /\ cleaner'[c] \in {"return", "throw", "gone"}
        /\ cleaner[c] # "gone" /\ (cleaner'[c] = "return" => cleaner[c] = "resolved")
    BY <1>4 DEF DeleteDerivative, CrashCleaner, CleanerGoto, TypeOK
  <2>2. CleanupMoved(c[1])
    BY <1>1, <2>1 DEF CleanupMoved, Fades
  <2>3. ResolvedForGood'
    <3>1. \A d \in Cleaner : cleaner'[d] # "gone" => cleanup[d[1]].stage # "absent"
      BY <1>2, <2>1 DEF RegistryInv, ResolvedForGood
    <3>2. \A d \in Cleaner : cleaner'[d] \in {"resolved", "return"} => d[1] \notin intents
      BY <1>2, <2>1 DEF RegistryInv, ResolvedForGood
    <3> QED BY <1>0, <2>1, <3>1, <3>2 DEF ResolvedForGood
  <2> QED BY <2>2, <2>3
<1>5. CASE SettleCleanup(c)
  <2>1. /\ objects' = objects /\ intents' = intents /\ cleaner'[c] = "gone"
        /\ cleaner[c] \in {"return", "throw"}
        /\ \A i \in Key : i # c[1] => cleanup'[i] = cleanup[i]
    BY <1>5 DEF SettleCleanup, CleanerGoto, TypeOK
  <2>2. \/ cleanup'[c[1]] = cleanup[c[1]]
        \/ /\ cleanup[c[1]].stage = "running" /\ cleaner[c] = "return"
           /\ cleanup'[c[1]] = Completed(cleanup[c[1]])
        \/ /\ cleanup[c[1]].stage = "running"
           /\ cleanup'[c[1]] = GivenBack(cleanup[c[1]], given.cleanups)
    BY <1>0, <1>5 DEF SettleCleanup, CleanerHolds, HeldBy, TypeOK
  <2>3. Fades(cleanup[c[1]], cleanup'[c[1]])
    BY <1>0, <1>1, <2>2, CleanupRows
  <2>4. \/ cleanup'[c[1]] = cleanup[c[1]]
        \/ cleanup'[c[1]].stage \in {"running", "queued"}
        \/ c[1] \notin intents
    BY <2>2 DEF GivenBack, Columns, RegistryInv, ResolvedForGood
  <2>5. CleanupMoved(c[1])
    BY <1>1, <2>1, <2>3, <2>4 DEF CleanupMoved, Fades
  <2>6. ResolvedForGood'
    <3>1. \A d \in Cleaner : cleaner'[d] # "gone" => cleanup'[d[1]].stage # "absent"
      BY <1>0, <1>2, <2>1, <2>3 DEF RegistryInv, ResolvedForGood, Fades
    <3>2. \A d \in Cleaner : cleaner'[d] \in {"resolved", "return"} => d[1] \notin intents
      BY <1>2, <2>1 DEF RegistryInv, ResolvedForGood
    <3> QED BY <1>0, <2>1, <3>1, <3>2 DEF ResolvedForGood
  <2> QED BY <2>5, <2>6
<1> QED BY <1>3, <1>4, <1>5 DEF CleanerStep

\* The manual retry arms the second row, which nobody had claimed.
LEMMA RegistryRetry ==
  ASSUME ProcessingAssumption, TypeOK, RegistryInv, RequestRetry
  PROVE  RegistryInv'
<1>1. /\ given' = given /\ run' = run /\ UNCHANGED <<intents, accepted, cleanup, cleaner, objects>>
      /\ manual = 0 /\ manual' = 1
  BY DEF RequestRetry, Retryable, derivativeVars
<1>2. job["retry"].attempts = 0 /\ Queued.attempts = 0 /\ RowSound(Queued)
  BY <1>1 DEF RegistryInv, JobsSound, RowSound, Absent, Queued, Row, Columns
<1>3. \A j \in VJob : job'[j].attempts = job[j].attempts /\ RowSound(job'[j])
  BY <1>2 DEF RequestRetry, RegistryInv, JobsSound, TypeOK
<1>4. JobsSound'
  BY <1>1, <1>3, SpansKept DEF RegistryInv, JobsSound
<1>5. \A r \in VRun : Moved(run[r], run'[r])
  BY <1>1 DEF Moved
<1> QED BY <1>1, <1>3, <1>4, <1>5, RegistryQuiet

\* Fading rows stay sound.
LEMMA FadedSound ==
  ASSUME RegistryInv, JobsFade, given' = given, manual' = manual, cleanup' = cleanup
  PROVE  JobsSound' /\ \A j \in VJob : job'[j].attempts = job[j].attempts
BY SpansKept DEF RegistryInv, JobsSound, JobsFade, Fades, VJob

LEMMA RegistryStep ==
  ProcessingAssumption /\ TypeOK /\ VerdictGiven /\ RegistryInv /\ [Next]_vars => RegistryInv'
<1> SUFFICES ASSUME ProcessingAssumption, TypeOK, VerdictGiven, RegistryInv, [Next]_vars
             PROVE  RegistryInv'
  OBVIOUS
<1>0. TypeOK' /\ JobsSound
  BY TypedStep DEF RegistryInv
<1>1. ASSUME NEW r \in VRun, HandlerStep(r) PROVE RegistryInv'
  <2>1. CASE RegisterCleanup(r) \/ PutDerivative(r) \/ AcceptVersion(r)
    BY <1>0, <2>1, RegistryRegister, RegistryPut, RegistryAccept
  <2>2. CASE ~(RegisterCleanup(r) \/ PutDerivative(r) \/ AcceptVersion(r))
    <3>1. /\ \E x : run' = [run EXCEPT ![r] = x] /\ Moved(run[r], x)
          /\ UNCHANGED <<intents, accepted, cleanup>> /\ objects' \subseteq objects
      BY <1>1, <2>2, QuietMoves
    <3>2. \A q \in VRun : Moved(run[q], run'[q])
      BY <3>1 DEF Moved, TypeOK
    <3>3. JobsFade /\ given' = given /\ manual' = manual /\ cleaner' = cleaner
      BY <1>0, <1>1, HandlerFades, HandlerFrame
    <3> QED BY <3>1, <3>2, <3>3, FadedSound, RegistryQuiet
  <2> QED BY <2>1, <2>2
<1>2. ASSUME NEW j \in VJob, ClaimValidation(j) \/ Exhaust(j) \/ LoseLease(j)
      PROVE  RegistryInv'
  <2>1. CASE ClaimValidation(j)
    BY <1>0, <2>1, RegistryClaim
  <2>2. CASE Exhaust(j) \/ LoseLease(j)
    <3>1. /\ given' = given /\ manual' = manual /\ run' = run
          /\ UNCHANGED <<intents, accepted, cleanup, cleaner, objects>>
      BY <2>2 DEF Exhaust, LoseLease, derivativeVars
    <3>2. JobsFade
      BY <1>0, <2>2, LeasesFade
    <3>3. \A q \in VRun : Moved(run[q], run'[q])
      BY <3>1 DEF Moved
    <3> QED BY <3>1, <3>2, <3>3, FadedSound, RegistryQuiet
  <2> QED BY <1>2, <2>1, <2>2
<1>3. CASE (\E r \in VRun : Crash(r)) \/ SourceStep \/ UNCHANGED vars
  <2>1. /\ given' = given /\ manual' = manual /\ job' = job
        /\ UNCHANGED <<intents, accepted, cleanup, cleaner, objects>>
    BY <1>3, SourceFrame DEF Crash, derivativeVars, vars
  <2>2. \A q \in VRun : Moved(run[q], run'[q])
    <3>1. CASE run' = run
      BY <3>1 DEF Moved
    <3>2. CASE run' # run
      BY <1>3, <3>2, SourceFrame, AttemptBegins DEF Crash, vars, Moved, TypeOK
    <3> QED BY <3>1, <3>2
  <2>3. JobsSound' /\ \A j \in VJob : job'[j].attempts = job[j].attempts
    BY <1>0, <2>1, SpansKept DEF JobsSound
  <2> QED BY <2>1, <2>2, <2>3, RegistryQuiet
<1>4. ASSUME NEW k \in Key, ClaimCleanup(k) \/ ExhaustCleanup(k) \/ LoseCleanupLease(k)
      PROVE  RegistryInv'
  <2>1. UNCHANGED <<given, manual, job, run, accepted>>
    BY <1>4 DEF ClaimCleanup, ExhaustCleanup, LoseCleanupLease
  <2> QED BY <1>0, <1>4, <2>1, CleanupQueueMoves, RegistryCleanup
<1>5. ASSUME NEW c \in Cleaner, CleanerStep(c) \/ CrashCleaner(c)
      PROVE  RegistryInv'
  <2>1. UNCHANGED <<given, manual, job, run, accepted>> /\ c[1] \in Key
    BY <1>5 DEF CleanerStep, ResolveCleanup, DeleteDerivative, SettleCleanup, CrashCleaner,
                Cleaner
  <2> QED BY <1>0, <1>5, <2>1, CleanerMoves, RegistryCleanup
<1> QED BY <1>1, <1>2, <1>3, <1>4, <1>5, RegistryRetry, StepGroups

LEMMA RegistryInit == ProcessingAssumption /\ Init => RegistryInv
<1> SUFFICES ASSUME ProcessingAssumption, Init PROVE RegistryInv
  OBVIOUS
<1>0. TypeOK
  BY TypedInit
<1>1. /\ Gone.pc = "gone" /\ Absent.stage = "absent" /\ RowSound(Absent) /\ RowSound(Queued)
  BY <1>0, AttemptBegins DEF Absent, Queued, Row, Columns, RowSound
<1>2. JobsSound
  BY <1>1 DEF Init, JobsSound, VJob
<1>3. OfClaimed /\ PutRegistered /\ NothingUnregistered
  BY <1>1 DEF Init, OfClaimed, PutRegistered, NothingUnregistered, At
<1>4. AheadUnregistered
  <2>1. \A r \in VRun, p \in 1..given.pages : <<r, p>> \in Key
    BY DEF Key
  <2> QED BY <1>1, <2>1 DEF Init, AheadUnregistered
<1>5. ResolvedForGood
  BY DEF Init, ResolvedForGood
<1> QED BY <1>2, <1>3, <1>4, <1>5 DEF RegistryInv

\* Whatever the attempts and the cleanups do, and whatever a lost lease or a slow worker lets
\* overlap, an object no version owns has its intent and a cleanup not yet done, or a cleanup
\* that has begun (register_derivative_cleanup before putDerivative in
\* jobs/source-validation.ts, resolve_derivative_cleanup in jobs/derivative-cleanup.ts).
THEOREM NoObjectForgotten == Spec => []NothingUnregistered
<1>1. Init => TypeOK /\ VerdictGiven /\ RegistryInv
  BY TypedInit, RegistryInit, ProcessingAssumption
<1>2. TypeOK /\ VerdictGiven /\ RegistryInv /\ [Next]_vars
        => TypeOK' /\ VerdictGiven' /\ RegistryInv'
  BY TypedStep, RegistryStep, ProcessingAssumption
<1>3. RegistryInv => NothingUnregistered
  BY DEF RegistryInv
<1> QED BY <1>1, <1>2, <1>3, PTL DEF Spec

-----------------------------------------------------------------------------
(* Accepted pages stay, when attempts are in time.                          *)

\* No step but a claim gives a lease.
LeasesOnlyLost == \A r \in VRun : LeaseHeld(r)' => LeaseHeld(r)

LEMMA FadingLosesLeases ==
  ASSUME ProcessingAssumption, TypeOK, JobsFade
  PROVE  LeasesOnlyLost
<1>1. \A r \in VRun : r[1] \in VJob /\ r[2] # 0
  BY CaseNumbers DEF VRun
<1> QED BY <1>1 DEF LeasesOnlyLost, LeaseHeld, HeldBy, JobsFade, Fades

\* A step that registers, stores and accepts nothing, and deletes only what an attempt that
\* stopped had stored.
LEMMA KeptQuiet ==
  ASSUME ProcessingAssumption, TypeOK, KeptInv, given' = given, LeasesOnlyLost,
         UNCHANGED <<accepted, cleanup, cleaner>>, objects' \subseteq objects,
         \A k \in objects \ objects' : k \notin accepted /\ run'[k[1]].pc \in Stopped,
         \A r \in VRun : Moved(run[r], run'[r])
  PROVE  KeptInv'
<1>0. /\ VRun' = VRun /\ Key' = Key /\ Cleaner' = Cleaner
      /\ \A k \in Key : k[1] \in VRun
      /\ \A r \in VRun : run[r] \in Attempt
  BY SpansKept DEF TypeOK, Key
<1>1. CleanupAfterLease'
  BY <1>0 DEF KeptInv, CleanupAfterLease, LeasesOnlyLost
<1>2. AcceptedIntact'
  BY DEF KeptInv, AcceptedIntact
<1>3. VerifiedStored'
  <2> SUFFICES ASSUME NEW r \in VRun, LeaseHeld(r)'
               PROVE  /\ run'[r].pc \in Building =>
                           \A p \in run'[r].verified : <<r, p>> \in objects'
                      /\ run'[r].pc = "verify" => <<r, run'[r].page>> \in objects'
    BY <1>0 DEF VerifiedStored, At, CurrentKey
  <2>1. /\ run[r].pc \in Building => \A p \in run[r].verified : <<r, p>> \in objects
        /\ run[r].pc = "verify" => <<r, run[r].page>> \in objects
    BY DEF KeptInv, VerifiedStored, LeasesOnlyLost, At, CurrentKey
  <2>2. run'[r].pc \in Building => \A p : <<r, p>> \in objects => <<r, p>> \in objects'
    BY DEF Building, Stopped
  <2>3. NextPage(run[r]).pc # "verify" /\ NextPage(run[r]).verified = run[r].verified \cup {run[r].page}
    BY <1>0 DEF NextPage, Attempt
  <2>4. run'[r].pc \in Building => \A p \in run'[r].verified : <<r, p>> \in objects
    <3>1. CASE run'[r] = run[r]
      BY <2>1, <3>1
    <3>2. CASE run[r].pc = "verify" /\ run'[r] = NextPage(run[r])
      BY <2>1, <2>3, <3>2 DEF Building
    <3>3. CASE /\ run[r].pc \in {"start", "scan", "evidence", "process"}
               /\ run'[r].verified = run[r].verified
      BY <2>1, <3>3 DEF Building
    <3> QED BY <3>1, <3>2, <3>3 DEF Moved, Stopped, Building
  <2>5. run'[r].pc = "verify" => run'[r] = run[r]
    BY <2>3 DEF Moved, Stopped
  <2> QED BY <2>1, <2>2, <2>4, <2>5 DEF Building
<1> QED BY <1>1, <1>2, <1>3 DEF KeptInv

LEMMA KeptRegister ==
  ASSUME ProcessingAssumption, TypeOK, RegistryInv, KeptInv, NEW r \in VRun, RegisterCleanup(r)
  PROVE  KeptInv'
<1>0. /\ VRun' = VRun /\ Key' = Key /\ Cleaner' = Cleaner
      /\ CurrentKey(r) \in Key /\ CurrentKey(r)[1] = r
      /\ \A c \in Cleaner : c[1] \in Key
      /\ CurrentKey(r) = <<r, run[r].page>> /\ run[r].page \in 1..given.pages
      /\ given.pages \in Nat
  BY SpansKept, CaseNumbers DEF RegisterCleanup, TypeOK, Attempt, CurrentKey, Key, Cleaner
<1>1. /\ run[r].pc = "register" /\ UNCHANGED <<job, objects, accepted, cleaner>>
      /\ \E pc \in {"put", "discard"} : Goto(r, pc)
      /\ cleanup' = cleanup \/ cleanup' = QueuedCleanup(r)
  BY DEF RegisterCleanup, At
<1>2. /\ run'[r].pc \in {"put", "discard"} /\ run'[r].verified = run[r].verified
      /\ \A q \in VRun : q # r => run'[q] = run[q]
  BY <1>1, Goes DEF PC
<1>3. \A k \in Key : \/ cleanup'[k] = cleanup[k]
                     \/ k = CurrentKey(r) /\ cleanup'[k].attempts = 0
  BY <1>0, <1>1 DEF QueuedCleanup, TypeOK, Queued, Row, Columns
<1>4. cleanup[CurrentKey(r)].attempts = 0
  <2>1. cleanup[CurrentKey(r)].stage = "absent"
    BY <1>0, <1>1 DEF RegistryInv, AheadUnregistered
  <2> QED BY <1>0, <2>1 DEF RegistryInv, JobsSound, RowSound
<1>5. CurrentKey(r) \notin accepted
  BY <1>0, <1>1 DEF RegistryInv, OfClaimed
<1>6. \A q \in VRun : LeaseHeld(q)' = LeaseHeld(q)
  BY <1>1 DEF LeaseHeld
<1>7. CleanupAfterLease'
  <2>1. \A k \in Key : cleanup'[k].attempts > 0 => ~LeaseHeld(k[1])'
    <3>1. \A k \in Key : k[1] \in VRun
      BY DEF Key
    <3> QED BY <1>3, <1>6, <3>1 DEF KeptInv, CleanupAfterLease
  <2>2. \A c \in Cleaner : cleaner[c] # "gone" => cleanup'[c[1]].attempts > 0
    BY <1>0, <1>3, <1>4 DEF KeptInv, CleanupAfterLease
  <2>3. \A k \in accepted :
          cleanup'[k].attempts = 0 /\ cleanup'[k].stage \notin {"queued", "running"}
    BY <1>3, <1>5 DEF KeptInv, CleanupAfterLease, TypeOK
  <2> QED BY <1>0, <1>1, <2>1, <2>2, <2>3 DEF CleanupAfterLease
<1>8. VerifiedStored'
  <2> SUFFICES ASSUME NEW q \in VRun, LeaseHeld(q)
               PROVE  /\ run'[q].pc \in Building => \A p \in run'[q].verified : <<q, p>> \in objects
                      /\ run'[q].pc = "verify" => <<q, run'[q].page>> \in objects
    BY <1>0, <1>1, <1>6 DEF VerifiedStored, At, CurrentKey
  <2>1. CASE q = r
    BY <1>1, <1>2, <2>1 DEF KeptInv, VerifiedStored, Building
  <2>2. CASE q # r
    BY <1>2, <2>2 DEF KeptInv, VerifiedStored, At, CurrentKey
  <2> QED BY <2>1, <2>2
<1>9. AcceptedIntact'
  BY <1>1 DEF KeptInv, AcceptedIntact
<1> QED BY <1>7, <1>8, <1>9 DEF KeptInv

LEMMA KeptPut ==
  ASSUME ProcessingAssumption, TypeOK, KeptInv, NEW r \in VRun, PutDerivative(r)
  PROVE  KeptInv'
<1>0. VRun' = VRun /\ Key' = Key /\ Cleaner' = Cleaner
  BY SpansKept DEF PutDerivative
<1>1. /\ run[r].pc = "put" /\ UNCHANGED <<job, accepted, cleanup, cleaner>>
      /\ objects \subseteq objects'
      /\ \/ Goto(r, "verify") /\ CurrentKey(r) \in objects'
         \/ Goto(r, "discard")
  BY DEF PutDerivative, At
<1>2. /\ run'[r].pc \in {"verify", "discard"} /\ run'[r].page = run[r].page
      /\ run'[r].verified = run[r].verified
      /\ run'[r].pc = "verify" => CurrentKey(r) \in objects'
      /\ \A q \in VRun : q # r => run'[q] = run[q]
  BY <1>1, Goes DEF PC
<1>3. CleanupAfterLease' /\ AcceptedIntact'
  BY <1>0, <1>1 DEF KeptInv, CleanupAfterLease, AcceptedIntact, LeaseHeld
<1>4. VerifiedStored'
  <2> SUFFICES ASSUME NEW q \in VRun, LeaseHeld(q)
               PROVE  /\ run'[q].pc \in Building => \A p \in run'[q].verified : <<q, p>> \in objects'
                      /\ run'[q].pc = "verify" => <<q, run'[q].page>> \in objects'
    BY <1>0, <1>1 DEF VerifiedStored, At, CurrentKey, LeaseHeld
  <2>1. CASE q = r
    BY <1>1, <1>2, <2>1 DEF KeptInv, VerifiedStored, Building, CurrentKey
  <2>2. CASE q # r
    BY <1>1, <1>2, <2>2 DEF KeptInv, VerifiedStored, At, CurrentKey
  <2> QED BY <2>1, <2>2
<1> QED BY <1>3, <1>4 DEF KeptInv

\* accept_processed_version: every page was verified under a lease that was never lost.
LEMMA KeptAccept ==
  ASSUME ProcessingAssumption, TypeOK, JobsSound, KeptInv, NEW r \in VRun, AcceptVersion(r)
  PROVE  KeptInv'
<1>0. /\ VRun' = VRun /\ Key' = Key /\ Cleaner' = Cleaner
      /\ \A k \in Key : k[1] \in VRun /\ cleanup[k].attempts \in Nat
      /\ \A c \in Cleaner : c[1] \in Key
  BY SpansKept, CaseNumbers DEF AcceptVersion, Key, Cleaner, TypeOK, Rows
<1>1. /\ run[r].pc = "accept" /\ LeaseHeld(r) /\ run[r].verified = 1..given.pages
      /\ UNCHANGED <<job, objects, cleaner>>
      /\ accepted' = accepted \cup KeysOf(r) /\ cleanup' = Withdrawn(KeysOf(r))
      /\ \E pc \in {"return", "throw"} : Goto(r, pc)
  BY DEF AcceptVersion, At, MayAccept, Evidence
<1>2. /\ run'[r].pc \in {"return", "throw"} /\ \A q \in VRun : q # r => run'[q] = run[q]
  BY <1>1, Goes DEF PC
<1>3. KeysOf(r) \subseteq objects /\ KeysOf(r) \subseteq Key
  <2>1. \A p \in 1..given.pages : <<r, p>> \in objects
    BY <1>1 DEF KeptInv, VerifiedStored, Building
  <2> QED BY <2>1 DEF KeysOf, Key
<1>4. \A k \in KeysOf(r) :
        k[1] = r /\ cleanup[k].attempts = 0 /\ cleanup[k].stage # "running"
  <2>1. \A k \in KeysOf(r) : k[1] = r
    BY DEF KeysOf
  <2>2. \A k \in KeysOf(r) : cleanup[k].attempts = 0
    BY <1>0, <1>1, <1>3, <2>1 DEF KeptInv, CleanupAfterLease
  <2> QED BY <1>3, <2>1, <2>2 DEF JobsSound, RowSound
<1>5. Row("deleted").stage = "deleted" /\ Row("deleted").attempts = 0
  BY DEF Row, Columns
<1>6. \A k \in Key : /\ cleanup'[k] \in {cleanup[k], Row("deleted")}
                     /\ cleanup'[k] # cleanup[k] => k \in KeysOf(r)
                     /\ k \in KeysOf(r) => cleanup'[k].stage # "queued"
  BY <1>1, <1>5 DEF Withdrawn
<1>7. AcceptedIntact'
  BY <1>1, <1>3 DEF KeptInv, AcceptedIntact
<1>8. VerifiedStored'
  BY <1>0, <1>1, <1>2 DEF KeptInv, VerifiedStored, LeaseHeld, At, CurrentKey, Building
<1>9. CleanupAfterLease'
  <2>1. \A k \in Key : cleanup'[k].attempts > 0 => ~LeaseHeld(k[1])
    BY <1>5, <1>6 DEF KeptInv, CleanupAfterLease
  <2>2. \A c \in Cleaner : cleaner[c] # "gone" => cleanup'[c[1]].attempts > 0
    BY <1>0, <1>4, <1>6 DEF KeptInv, CleanupAfterLease
  <2>3. \A k \in accepted' :
          cleanup'[k].attempts = 0 /\ cleanup'[k].stage \notin {"queued", "running"}
    BY <1>1, <1>3, <1>4, <1>5, <1>6 DEF KeptInv, CleanupAfterLease, TypeOK
  <2> QED BY <1>0, <1>1, <2>1, <2>2, <2>3 DEF CleanupAfterLease, LeaseHeld
<1> QED BY <1>7, <1>8, <1>9 DEF KeptInv

\* A new attempt takes the lease; nothing of its keys was ever registered.
LEMMA KeptClaim ==
  ASSUME ProcessingAssumption, TypeOK, RegistryInv, KeptInv, NEW j \in VJob, ClaimValidation(j)
  PROVE  KeptInv'
<1> DEFINE r == <<j, job[j].attempts + 1>>
<1>0. /\ VRun' = VRun /\ Key' = Key /\ Cleaner' = Cleaner
      /\ UNCHANGED <<intents, accepted, cleanup, cleaner, objects>>
      /\ \A k \in Key : k[1] \in VRun
  BY SpansKept DEF ClaimValidation, derivativeVars, Key
<1>1. job[j].attempts \in Nat /\ r \in VRun
  <2>1. job[j].attempts + 1 \in 1..given.attempts
    BY RowsOf DEF ClaimValidation
  <2> QED BY <2>1, CaseNumbers DEF VRun, TypeOK, Rows
<1>2. /\ run'[r] = [Gone EXCEPT !.pc = "start"] /\ run'[r].pc = "start" /\ run'[r].verified = {}
      /\ \A q \in VRun : q # r => run'[q] = run[q]
  BY <1>1, AttemptBegins DEF ClaimValidation, TypeOK, Gone
<1>3. /\ job'[j].live = job[j].attempts + 1
      /\ \A i \in VJob : i # j => job'[i] = job[i]
  BY DEF ClaimValidation, TypeOK, Claimed, Columns
<1>4. \A q \in VRun : LeaseHeld(q)' /\ q # r => LeaseHeld(q)
  <2> SUFFICES ASSUME NEW q \in VRun, LeaseHeld(q)', q # r PROVE LeaseHeld(q)
    OBVIOUS
  <2>1. CASE q[1] = j
    <3>1. q[2] = job[j].attempts + 1
      BY <1>3, <2>1 DEF LeaseHeld, HeldBy
    <3> QED BY <2>1, <3>1 DEF VRun
  <2>2. CASE q[1] # j
    BY <1>3, <2>2 DEF LeaseHeld, VRun
  <2> QED BY <2>1, <2>2
<1>5. \A k \in Key : k[1] = r => cleanup[k].attempts = 0
  <2> SUFFICES ASSUME NEW k \in Key, k[1] = r PROVE cleanup[k].attempts = 0
    OBVIOUS
  <2>1. k[1][1] = j /\ k[1][2] = job[j].attempts + 1
    OBVIOUS
  <2>2. ~(job[j].attempts >= job[j].attempts + 1)
    BY <1>1
  <2>3. cleanup[k].stage = "absent"
    BY <2>1, <2>2 DEF RegistryInv, OfClaimed
  <2> QED BY <2>3 DEF RegistryInv, JobsSound, RowSound
<1>6. CleanupAfterLease'
  <2>1. \A k \in Key : cleanup[k].attempts > 0 => ~LeaseHeld(k[1])'
    <3> SUFFICES ASSUME NEW k \in Key, cleanup[k].attempts > 0 PROVE ~LeaseHeld(k[1])'
      OBVIOUS
    <3>1. k[1] # r
      BY <1>5
    <3> QED BY <1>0, <1>4, <3>1 DEF KeptInv, CleanupAfterLease
  <2> QED BY <1>0, <2>1 DEF KeptInv, CleanupAfterLease
<1>7. VerifiedStored'
  <2> SUFFICES ASSUME NEW q \in VRun, LeaseHeld(q)'
               PROVE  /\ run'[q].pc \in Building => \A p \in run'[q].verified : <<q, p>> \in objects
                      /\ run'[q].pc = "verify" => <<q, run'[q].page>> \in objects
    BY <1>0 DEF VerifiedStored, At, CurrentKey
  <2>1. CASE q = r
    BY <1>2, <2>1
  <2>2. CASE q # r
    BY <1>2, <1>4, <2>2 DEF KeptInv, VerifiedStored, At, CurrentKey
  <2> QED BY <2>1, <2>2
<1>8. AcceptedIntact'
  BY <1>0 DEF KeptInv, AcceptedIntact
<1> QED BY <1>6, <1>7, <1>8 DEF KeptInv

\* A step of a cleanup job touches only the object of an attempt that lost its lease.
LEMMA KeptCleanup ==
  ASSUME ProcessingAssumption, TypeOK, TypeOK', JobsSound, KeptInv, NEW k \in Key, CleanupMoved(k),
         UNCHANGED <<given, job, run, accepted>>,
         cleanup' = cleanup \/ k \notin accepted,
         cleanup'[k].attempts > 0 => ~LeaseHeld(k[1]),
         objects' = objects \/ (objects' = objects \ {k} /\ cleanup[k].attempts > 0),
         \A c \in Cleaner : cleaner'[c] # "gone" =>
           cleaner[c] # "gone" \/ (c[1] = k /\ cleanup'[k].attempts > 0)
  PROVE  KeptInv'
<1>0. /\ VRun' = VRun /\ Key' = Key /\ Cleaner' = Cleaner
      /\ \A i \in Key : cleanup[i].attempts \in Nat /\ cleanup'[i].attempts \in Nat
      /\ \A c \in Cleaner : c[1] \in Key
  BY SpansKept, CaseNumbers DEF TypeOK, Rows, Cleaner
<1>1. \A i \in Key : /\ cleanup'[i].attempts >= cleanup[i].attempts
                     /\ i # k => cleanup'[i] = cleanup[i]
  BY <1>0 DEF CleanupMoved
<1>2. CleanupAfterLease'
  <2>1. \A i \in Key : cleanup'[i].attempts > 0 => ~LeaseHeld(i[1])
    BY <1>1 DEF KeptInv, CleanupAfterLease
  <2>2. \A c \in Cleaner : cleaner'[c] # "gone" => cleanup'[c[1]].attempts > 0
    BY <1>0, <1>1 DEF KeptInv, CleanupAfterLease
  <2>3. \A i \in accepted :
          cleanup'[i].attempts = 0 /\ cleanup'[i].stage \notin {"queued", "running"}
    BY <1>1 DEF KeptInv, CleanupAfterLease, TypeOK
  <2> QED BY <1>0, <2>1, <2>2, <2>3 DEF CleanupAfterLease, LeaseHeld
<1>3. AcceptedIntact'
  BY DEF KeptInv, CleanupAfterLease, AcceptedIntact
<1>4. VerifiedStored'
  <2> SUFFICES ASSUME NEW r \in VRun, LeaseHeld(r)
               PROVE  /\ run[r].pc \in Building => \A p \in run[r].verified : <<r, p>> \in objects'
                      /\ run[r].pc = "verify" => <<r, run[r].page>> \in objects'
    BY <1>0 DEF VerifiedStored, At, CurrentKey, LeaseHeld
  <2>1. \A p : <<r, p>> \in objects => <<r, p>> \in objects'
    <3>1. CASE objects' = objects \ {k} /\ cleanup[k].attempts > 0
      <4>1. ~LeaseHeld(k[1])
        BY <3>1 DEF KeptInv, CleanupAfterLease
      <4>2. k[1] # r
        BY <4>1
      <4> QED BY <3>1, <4>2
    <3> QED BY <3>1
  <2> QED BY <2>1 DEF KeptInv, VerifiedStored, At, CurrentKey
<1> QED BY <1>2, <1>3, <1>4 DEF KeptInv

LEMMA KeptQueue ==
  ASSUME ProcessingAssumption, InTime, TypeOK, TypeOK', RegistryInv, KeptInv, NEW k \in Key,
         ClaimCleanup(k) \/ ExhaustCleanup(k) \/ LoseCleanupLease(k)
  PROVE  KeptInv'
<1>1. /\ UNCHANGED <<given, job, run, accepted, objects>> /\ JobsSound
      /\ cleanup[k].attempts \in Nat /\ cleanup[k].live \in Nat
  BY CaseNumbers DEF ClaimCleanup, ExhaustCleanup, LoseCleanupLease, RegistryInv, TypeOK, Rows
<1>2. CleanupMoved(k)
  BY CleanupQueueMoves
<1>3. CASE ClaimCleanup(k)
  <2>1. ~LeaseHeld(k[1]) /\ cleanup[k].stage \in {"queued", "running"}
    BY <1>3 DEF ClaimCleanup, CanClaim, InTime
  <2>2. cleanup'[k].attempts > 0
    BY <1>1, <1>3 DEF ClaimCleanup, Claimed, Columns, TypeOK
  <2>3. \A c \in Cleaner : cleaner'[c] # "gone" => cleaner[c] # "gone" \/ c[1] = k
    BY <1>3 DEF ClaimCleanup, CleanerGoto, TypeOK
  <2>4. k \notin accepted
    BY <2>1 DEF KeptInv, CleanupAfterLease
  <2> QED BY <1>1, <1>2, <2>1, <2>2, <2>3, <2>4, KeptCleanup
<1>4. CASE ExhaustCleanup(k) \/ LoseCleanupLease(k)
  <2>1. cleaner' = cleaner
    BY <1>4 DEF ExhaustCleanup, LoseCleanupLease
  <2>2. cleanup'[k].attempts = cleanup[k].attempts
    BY <1>4 DEF ExhaustCleanup, LoseCleanupLease, Buried, Lapsed, TypeOK, Rows
  <2>3. cleanup'[k].attempts > 0 => ~LeaseHeld(k[1])
    BY <2>2 DEF KeptInv, CleanupAfterLease
  <2>4. k \notin accepted
    <3>1. cleanup[k].stage = "running" \/ cleanup[k].live # 0
      BY <1>4 DEF ExhaustCleanup, LoseCleanupLease, Spent
    <3>2. cleanup[k].attempts = 0 => cleanup[k].live = 0
      BY <1>1 DEF JobsSound, RowSound
    <3> QED BY <3>1, <3>2 DEF KeptInv, CleanupAfterLease
  <2> QED BY <1>1, <1>2, <2>1, <2>3, <2>4, KeptCleanup
<1> QED BY <1>3, <1>4

LEMMA KeptCleaner ==
  ASSUME ProcessingAssumption, TypeOK, TypeOK', RegistryInv, KeptInv, NEW c \in Cleaner,
         CleanerStep(c) \/ CrashCleaner(c)
  PROVE  KeptInv'
<1>1. /\ UNCHANGED <<given, job, run, accepted>> /\ JobsSound
      /\ c[1] \in Key /\ cleanup[c[1]].attempts \in Nat
  BY CaseNumbers DEF CleanerStep, ResolveCleanup, DeleteDerivative, SettleCleanup, CrashCleaner,
     RegistryInv, TypeOK, Rows, Cleaner
<1>2. CleanupMoved(c[1])
  BY CleanerMoves
<1>3. cleaner[c] # "gone" /\ cleanup[c[1]].attempts > 0
  BY DEF CleanerStep, ResolveCleanup, DeleteDerivative, SettleCleanup, CrashCleaner,
         KeptInv, CleanupAfterLease
<1>4. c[1] \notin accepted /\ ~LeaseHeld(c[1][1])
  BY <1>1, <1>3 DEF KeptInv, CleanupAfterLease
<1>5. \A d \in Cleaner : cleaner'[d] # "gone" => cleaner[d] # "gone"
  BY <1>3 DEF CleanerStep, ResolveCleanup, DeleteDerivative, SettleCleanup, CrashCleaner,
              CleanerGoto, TypeOK
<1>6. objects' = objects \/ objects' = objects \ {c[1]}
  BY DEF CleanerStep, ResolveCleanup, DeleteDerivative, SettleCleanup, CrashCleaner
<1> QED BY <1>1, <1>2, <1>3, <1>4, <1>5, <1>6, KeptCleanup

LEMMA KeptHandler ==
  ASSUME ProcessingAssumption, TypeOK, RegistryInv, KeptInv, NEW r \in VRun, HandlerStep(r)
  PROVE  KeptInv'
<1>0. JobsSound
  BY DEF RegistryInv
<1>1. CASE RegisterCleanup(r) \/ PutDerivative(r) \/ AcceptVersion(r)
  BY <1>0, <1>1, KeptRegister, KeptPut, KeptAccept
<1>2. CASE ~(RegisterCleanup(r) \/ PutDerivative(r) \/ AcceptVersion(r))
  <2>1. /\ \E x : run' = [run EXCEPT ![r] = x] /\ Moved(run[r], x)
        /\ UNCHANGED <<intents, accepted, cleanup>> /\ objects' \subseteq objects
    BY <1>2, QuietMoves
  <2>2. \A q \in VRun : Moved(run[q], run'[q])
    BY <2>1 DEF Moved, TypeOK
  <2>3. LeasesOnlyLost /\ given' = given /\ cleaner' = cleaner
    BY <1>0, HandlerFades, HandlerFrame, FadingLosesLeases
  <2>4. \A k \in objects \ objects' : k \notin accepted /\ run'[k[1]].pc \in Stopped
    <3> SUFFICES ASSUME NEW k \in objects, k \notin objects'
                 PROVE  k \notin accepted /\ run'[k[1]].pc \in Stopped
      OBVIOUS
    <3>1. k \in KeysOf(r) /\ (Discard(r) \/ Undo(r))
      BY <1>2 DEF HandlerStep, ReadVersion, ReadAndScan, RecordCleanScan, Convert,
         RecordVerified, Discard, AcceptRefused, Undo, FailProcessing, Return, Throw,
         DeletesSome, derivativeVars
    <3>2. k[1] = r /\ run[r].pc \in {"discard", "undo"}
      BY <3>1 DEF KeysOf, Discard, Undo, At
    <3>3. k \notin accepted
      BY <3>2 DEF RegistryInv, OfClaimed
    <3>4. run'[r].pc \in Stopped
      <4>1. CASE Undo(r)
        BY <4>1, Goes DEF Undo, PC, Stopped
      <4>2. CASE Discard(r)
        <5>1. CASE Goto(r, "throw")
          BY <5>1, Goes DEF PC, Stopped
        <5>2. CASE FailWith(r, "processing_failed")
          BY <5>2 DEF FailWith, Stopped, TypeOK, Attempt
        <5> QED BY <4>2, <5>1, <5>2 DEF Discard, Transient
      <4> QED BY <3>1, <4>1, <4>2
    <3> QED BY <3>2, <3>3, <3>4
  <2> QED BY <2>1, <2>2, <2>3, <2>4, KeptQuiet
<1> QED BY <1>1, <1>2

LEMMA KeptStep ==
  ASSUME ProcessingAssumption, TypeOK, VerdictGiven, RegistryInv, InTime, KeptInv, [Next]_vars
  PROVE  KeptInv'
<1>0. TypeOK' /\ JobsSound
  BY TypedStep DEF RegistryInv
<1>1. ASSUME NEW r \in VRun, HandlerStep(r) PROVE KeptInv'
  BY <1>1, KeptHandler
<1>2. ASSUME NEW j \in VJob, ClaimValidation(j) \/ Exhaust(j) \/ LoseLease(j)
      PROVE  KeptInv'
  <2>1. CASE ClaimValidation(j)
    BY <2>1, KeptClaim
  <2>2. CASE Exhaust(j) \/ LoseLease(j)
    <3>1. /\ given' = given /\ run' = run
          /\ UNCHANGED <<accepted, cleanup, cleaner, objects>>
      BY <2>2 DEF Exhaust, LoseLease, derivativeVars
    <3>2. LeasesOnlyLost
      BY <1>0, <2>2, LeasesFade, FadingLosesLeases
    <3>3. \A q \in VRun : Moved(run[q], run'[q])
      BY <3>1 DEF Moved
    <3> QED BY <3>1, <3>2, <3>3, KeptQuiet
  <2> QED BY <1>2, <2>1, <2>2
<1>3. CASE RequestRetry
  <2>1. /\ given' = given /\ run' = run
        /\ UNCHANGED <<accepted, cleanup, cleaner, objects>>
    BY <1>3 DEF RequestRetry, derivativeVars
  <2>2. LeasesOnlyLost
    BY <1>3 DEF RequestRetry, LeasesOnlyLost, LeaseHeld, HeldBy, Queued, Row, Columns, TypeOK
  <2>3. \A q \in VRun : Moved(run[q], run'[q])
    BY <2>1 DEF Moved
  <2> QED BY <2>1, <2>2, <2>3, KeptQuiet
<1>4. CASE (\E r \in VRun : Crash(r)) \/ SourceStep \/ UNCHANGED vars
  <2>1. /\ given' = given /\ job' = job
        /\ UNCHANGED <<accepted, cleanup, cleaner, objects>>
    BY <1>4, SourceFrame DEF Crash, derivativeVars, vars
  <2>2. \A q \in VRun : Moved(run[q], run'[q])
    <3>1. CASE run' = run
      BY <3>1 DEF Moved
    <3>2. CASE run' # run
      BY <1>4, <3>2, SourceFrame, AttemptBegins DEF Crash, vars, Moved, TypeOK
    <3> QED BY <3>1, <3>2
  <2>3. LeasesOnlyLost
    BY <2>1 DEF LeasesOnlyLost, LeaseHeld
  <2> QED BY <2>1, <2>2, <2>3, KeptQuiet
<1>5. ASSUME NEW k \in Key, ClaimCleanup(k) \/ ExhaustCleanup(k) \/ LoseCleanupLease(k)
      PROVE  KeptInv'
  BY <1>0, <1>5, KeptQueue
<1>6. ASSUME NEW c \in Cleaner, CleanerStep(c) \/ CrashCleaner(c)
      PROVE  KeptInv'
  BY <1>0, <1>6, KeptCleaner
<1> QED BY <1>1, <1>2, <1>3, <1>4, <1>5, <1>6, StepGroups

\* A behaviour is about one case.
LEMMA OneCase == [Next]_vars => given' = given
<1> SUFFICES ASSUME [Next]_vars PROVE given' = given
  OBVIOUS
<1> QED BY StepGroups, HandlerFrame, SourceFrame, CleanersApart
        DEF ClaimValidation, Exhaust, LoseLease, RequestRetry, vars

LEMMA KeptInit == ProcessingAssumption /\ Init => KeptInv
<1> SUFFICES ASSUME ProcessingAssumption, Init PROVE KeptInv
  OBVIOUS
<1>1. Gone.pc = "gone" /\ Gone.verified = {} /\ Absent.attempts = 0
  BY DEF Gone, Absent, Row, Columns
<1> QED BY <1>1 DEF Init, KeptInv, CleanupAfterLease, VerifiedStored, AcceptedIntact, At

\* In a behaviour where no attempt outlives the five minutes before the cleanup of its keys is due
\* (jobs/source-validation.ts and the job's heartbeat), no overlap of attempts, retries and
\* cleanups deletes a page of an accepted version, and none forgets an object no version owns.
THEOREM DerivativesStayKept == Spec => [](InTime => DerivativesKept)
<1> DEFINE Inv == TypeOK /\ VerdictGiven /\ RegistryInv /\ (InTime => KeptInv)
<1>1. Init => Inv
  BY TypedInit, RegistryInit, KeptInit, ProcessingAssumption
<1>2. Inv /\ [Next]_vars => Inv'
  <2> SUFFICES ASSUME Inv, [Next]_vars PROVE Inv'
    OBVIOUS
  <2>1. InTime' => InTime
    BY OneCase DEF InTime, Is
  <2>2. TypeOK' /\ VerdictGiven' /\ RegistryInv'
    BY TypedStep, RegistryStep, ProcessingAssumption
  <2>3. InTime' => KeptInv'
    BY <2>1, KeptStep, ProcessingAssumption
  <2> QED BY <2>2, <2>3
<1>3. Inv => (InTime => DerivativesKept)
  BY DEF RegistryInv, KeptInv, DerivativesKept
<1> QED BY <1>1, <1>2, <1>3, PTL DEF Spec
=============================================================================
