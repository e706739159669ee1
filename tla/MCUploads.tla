----------------------------- MODULE MCUploads -----------------------------
(* Uploads, exports, and the queue's runners when they may crash or stall,  *)
(* on small instances for TLC.  They share no variable: one of them moves   *)
(* in a behaviour and the others stay as they began.                        *)
EXTENDS Uploads

CONSTANTS j1, j2, w1, w2, Job, Worker, NoJob, Validation, Unknown, Hooked, Cancellable, Requeueable, Scheduled,
          Successor, Histories, MaxAttempts, LeaseTicks, RetryTicks, HookTicks, RecurTicks,
          LateTicks, MaxRequeues
CONSTANTS d1, d2, c1, c2, GenerateAttempts, Download, Cleaner, Failures

\* max_attempts is at least one (job_queue's CHECK); Failures only bounds the model.
ASSUME ExportAssumption == GenerateAttempts \in Nat \ {0} /\ Failures \in Nat

VARIABLES row, claims, run, hookRuns, requeues
VARIABLES state, exportExpired, archive, job, generator, download, cleaner, failures

Q == INSTANCE JobQueue
X == INSTANCE Exports WITH expired <- exportExpired, object <- archive

queueVars == <<row, claims, run, hookRuns, requeues>>
exportVars == <<state, exportExpired, archive, job, generator, download, cleaner, failures>>

NoSuccessor == [j \in {} |-> j]
Afresh == {{}}

UploadsInit == Init /\ Q!Init /\ X!Init

UploadsNext ==
  \/ Q!Init /\ X!Init /\ Next /\ UNCHANGED <<queueVars, exportVars>>
  \/ Init /\ X!Init /\ Q!PolledNext /\ UNCHANGED <<vars, exportVars>>
  \/ Init /\ Q!Init /\ X!Next /\ UNCHANGED <<vars, queueVars>>

UploadsSpec ==
  /\ UploadsInit
  /\ [][UploadsNext]_<<vars, queueVars, exportVars>>
  /\ Fairness /\ Q!Fairness /\ X!Fairness

TypesOK == TypeOK /\ X!TypeOK

\* An export that is ready has its archive and is handed to one member: ExportWhole of
\* Exports.
ExportWhole == X!ExportWhole

\* What has begun is settled, IntentSettles, QueueSettles and ExportEnds in one: every
\* upload intent, unless its reap job has used up its attempts; every queued row, unless
\* its hook keeps raising and it keeps coming back to the sweep; and every export.
AnyUnsettled == Unsettled \/ Q!Unsettled \/ X!Unsettled
QueuedSettles == AnyUnsettled ~> ~AnyUnsettled
=============================================================================
