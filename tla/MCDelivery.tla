---------------------------- MODULE MCDelivery ----------------------------
(* Previews, Downloads, Sandbox and Reader on small instances, for TLC.     *)
(* They share no variable, so one of them moves in a behaviour and the      *)
(* others stay as they began.                                               *)
EXTENDS Previews, FiniteSets

CONSTANTS c2, Request, Size, Composition, Validation, Concurrency, Identity,
          Forking, MaxForks
CONSTANTS e1, e2, Doc, Revised, Version, NoDoc

\* A download is asked for finitely often, and size_bytes is a number of bytes.
ASSUME DownloadAssumption == IsFiniteSet(Request) /\ Size \in Nat

\* What the reader is told is a version or one of these words, and a location is a document
\* or one of these.
ASSUME ReaderAssumption ==
  /\ Version \cap {"loading", "gone", "failed", "expired"} = {}
  /\ Doc \cap {"room", "rooms"} = {} /\ NoDoc \notin Doc \cup {"room", "rooms"}
  /\ Revised \subseteq Doc

\* Compositions are counted, and no converter's UID is "none".
ASSUME SandboxAssumption ==
  /\ IsFiniteSet(Composition) /\ Composition \cap Validation = {}
  /\ Concurrency \in Nat /\ MaxForks \in Nat /\ "none" \notin Identity

VARIABLES session, permitted, lease, expired, served, bytes, request, delivered, summaries,
          summed, leaseJob, leaseRun,
          mode, composing, waiting, available, queue, pc, uid, processes, forks, killed, scratch,
          sweep, dirty, raced
VARIABLES standing, published, at, arrived, ended, lost, notice, back, listing, listCall, meta,
          metaCall, reread, tracker, page

D == INSTANCE Downloads WITH reported <- summed, job <- leaseJob, run <- leaseRun
S == INSTANCE Sandbox
R == INSTANCE Reader

downloadVars == <<session, permitted, lease, expired, served, bytes, request, delivered,
                  summaries, summed, leaseJob, leaseRun>>
sandboxVars == <<mode, composing, waiting, available, queue, pc, uid, processes, forks, killed,
                 scratch, sweep, dirty, raced>>
readerVars == <<standing, published, at, arrived, ended, lost, notice, back, listing, listCall,
                meta, metaCall, reread, tracker, page>>

\* Bound: both documents begin with their first version.
ReaderInit == R!Init /\ published = [d \in Doc |-> e1]

DeliveryInit == Init /\ D!Init /\ S!Init /\ ReaderInit

SandboxIdle == S!Init /\ mode = "namespaced"
ReaderIdle == ReaderInit /\ at = "rooms"

\* Bound: processes fork twice only while the second composition has not begun.
ForkedAlone == forks' = MaxForks => pc'[c2] = "idle"

\* Bounds: a document goes from its first version to its second, by way of none or not,
\* and a viewer who loses access has seen no other.
RevisedOnce ==
  \A d \in Doc : \/ published'[d] \in {published[d], e2}
                 \/ published[d] = e1 /\ published'[d] = "gone"
LostEarly == standing' # "reads" => \A d \in Doc : published'[d] = e1

DeliveryNext ==
  \/ D!Init /\ SandboxIdle /\ ReaderIdle /\ Next
     /\ UNCHANGED <<downloadVars, sandboxVars, readerVars>>
  \/ Init /\ SandboxIdle /\ ReaderIdle /\ D!Next
     /\ UNCHANGED <<vars, sandboxVars, readerVars>>
  \/ Init /\ D!Init /\ ReaderIdle /\ S!Next /\ ForkedAlone
     /\ UNCHANGED <<vars, downloadVars, readerVars>>
  \/ Init /\ D!Init /\ SandboxIdle /\ R!Next /\ RevisedOnce /\ LostEarly
     /\ UNCHANGED <<vars, downloadVars, sandboxVars>>

DeliverySpec ==
  /\ DeliveryInit /\ [][DeliveryNext]_<<vars, downloadVars, sandboxVars, readerVars>>
  /\ Fairness /\ D!Fairness /\ S!Fairness

\* The variables have their types.
TypesOK == TypeOK /\ D!TypeOK /\ S!TypeOK /\ R!TypeOK

\* What Downloads promises of the one summary of a download.
SummarySound == D!SummarySound

\* What Sandbox promises.
SandboxSound == S!SandboxSound

\* What Reader promises: what the reading room shows belongs together.
ReaderSound == R!ReaderSound

\* What a comment says of the sweep, and the code does not keep.
SweepIsComplete == S!SweepIsComplete

\* What has begun ends: AbandonedEnds, LeaseSettles and InvocationsEnd, in one.
BegunEnds ==
  (Unsettled \/ D!Unsettled \/ S!Unsettled) ~> ~(Unsettled \/ D!Unsettled \/ S!Unsettled)
=============================================================================
