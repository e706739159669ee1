------------------------------- MODULE Sandbox -------------------------------
(***************************************************************************)
(* Untrusted content in child processes (processing/sandbox.ts and         *)
(* processing/privilege-separation.ts), and the composition slots of       *)
(* protected-delivery.ts in front of it: slots and identities that are     *)
(* handed from one invocation to the next, a child that forks, overruns or *)
(* hangs, and the clean-up behind it.                                      *)
(***************************************************************************)
EXTENDS Integers, FiniteSets, Sequences

CONSTANTS
  Composition,   \* invocations made by composeWatermarkPage
  Validation,    \* all others; one process stands for the web server and the worker
  Concurrency,   \* WATERMARK_CONCURRENCY
  Identity,      \* the converter UIDs of ConverterIdentityPool
  Forking,       \* bound: the invocations whose processes fork,
  MaxForks       \* bound: and how often, in all

Invocation == Composition \cup Validation
None == "none"

\* The child's own group holds the child and helpers without a pipe; an escaped process and
\* a daemon have called setsid, and the escaped one still holds the child's stdout.
Kind == {"child", "helper", "escaped", "daemon"}
Group == {"child", "helper"}
Pipe == {"child", "escaped"}

VARIABLES
  mode,        \* SandboxLaunchMode
  composing,   \* composingWatermarks
  waiting,     \* waitingWatermarks
  available,   \* #available
  queue,       \* #waiting
  pc, uid,     \* per invocation: where it stands, and the identity it acquired
  processes,   \* of each invocation, alive
  forks,
  killed,      \* invocations with a requestedError
  scratch,     \* invocations whose directory exists
  sweep,       \* sweepConverterProcesses: what this pass has to visit, and whether it killed
  dirty,       \* invocations whose sweep or rm has failed
  raced        \* history: invocations a process of which ended by itself during the sweep

poolVars == <<composing, waiting, available, queue>>
childVars == <<processes, forks, killed, raced>>
cleanVars == <<scratch, sweep, dirty>>
vars == <<mode, poolVars, pc, uid, childVars, cleanVars>>

Running == {"start", "running"}
Places == {"idle", "slot", "acquire", "identity", "mkdtemp", "finally", "sweep", "release",
           "rm", "hand", "done"} \cup Running

TypeOK ==
  /\ mode \in {"namespaced", "degraded"}
  /\ composing \in 0..Concurrency /\ waiting \in Seq(Composition)
  /\ available \subseteq Identity /\ queue \in Seq(Invocation)
  /\ pc \in [Invocation -> Places] /\ uid \in [Invocation -> Identity \cup {None}]
  /\ processes \in [Invocation -> SUBSET Kind] /\ forks \in 0..MaxForks
  /\ killed \subseteq Invocation /\ scratch \subseteq Invocation /\ dirty \subseteq Invocation /\ raced \subseteq Invocation
  /\ sweep \in [Invocation -> [todo : SUBSET (Invocation \X Kind), kills : BOOLEAN]]

Init ==
  /\ mode \in {"namespaced", "degraded"}
  /\ composing = 0 /\ waiting = <<>> /\ available = Identity /\ queue = <<>>
  /\ pc = [i \in Invocation |-> "idle"] /\ uid = [i \in Invocation |-> None]
  /\ processes = [i \in Invocation |-> {}] /\ forks = 0
  /\ killed = {} /\ scratch = {} /\ dirty = {} /\ raced = {}
  /\ sweep = [i \in Invocation |-> [todo |-> {}, kills |-> FALSE]]

Goto(i, place) == pc' = [pc EXCEPT ![i] = place]

-----------------------------------------------------------------------------
(* composeWatermarkPage: a slot, or a place in the queue for one.           *)

Enter(i) ==
  /\ pc[i] = "idle"
  /\ IF i \in Validation THEN Goto(i, "acquire") /\ UNCHANGED <<composing, waiting>>
     ELSE IF composing < Concurrency
          THEN composing' = composing + 1 /\ Goto(i, "acquire") /\ UNCHANGED waiting
          ELSE waiting' = Append(waiting, i) /\ Goto(i, "slot") /\ UNCHANGED composing
  /\ UNCHANGED <<mode, available, queue, uid, childVars, cleanVars>>

Counted == IF waiting = <<>> THEN composing - 1 ELSE composing

\* The finally block: the slot goes to the next waiter, whose promise it resolves.
HandSlot(i) ==
  /\ pc[i] = "hand"
  /\ IF i \in Validation THEN Goto(i, "done") /\ UNCHANGED <<composing, waiting>>
     ELSE /\ composing' = Counted
          /\ IF waiting = <<>> THEN Goto(i, "done") /\ UNCHANGED waiting
             ELSE /\ waiting' = Tail(waiting)
                  /\ pc' = [pc EXCEPT ![i] = "done", ![Head(waiting)] = "acquire"]
  /\ UNCHANGED <<mode, available, queue, uid, childVars, cleanVars>>

-----------------------------------------------------------------------------
(* ConverterIdentityPool.                                                   *)

Acquire(i) ==
  /\ pc[i] = "acquire"
  /\ \/ mode = "namespaced" /\ Goto(i, "mkdtemp") /\ UNCHANGED <<available, queue, uid>>
     \/ /\ mode = "degraded" /\ available # {}
        /\ \E u \in available :
             /\ available' = available \ {u}
             /\ uid' = [uid EXCEPT ![i] = u]
        /\ Goto(i, "mkdtemp")
        /\ UNCHANGED queue
     \/ /\ mode = "degraded" /\ available = {}
        /\ queue' = Append(queue, i)
        /\ Goto(i, "identity")
        /\ UNCHANGED <<available, uid>>
  /\ UNCHANGED <<mode, composing, waiting, childVars, cleanVars>>

\* What release(slot) does, and where the releasing invocation goes on.
Released(i, place) ==
  IF queue = <<>>
  THEN available' = available \cup {uid[i]} /\ Goto(i, place) /\ UNCHANGED <<queue, uid>>
  ELSE /\ queue' = Tail(queue) /\ UNCHANGED available
       /\ uid' = [uid EXCEPT ![Head(queue)] = uid[i]]
       /\ pc' = [pc EXCEPT ![i] = place, ![Head(queue)] = "mkdtemp"]

\* A failing mkdtemp returns the identity and throws.
NoDirectory(i) ==
  IF uid[i] = None THEN Goto(i, "hand") /\ UNCHANGED <<available, queue, uid>>
  ELSE Released(i, "hand")

MakeDirectory(i) ==
  /\ pc[i] = "mkdtemp"
  /\ \/ /\ scratch' = scratch \cup {i}
        /\ Goto(i, "start") /\ UNCHANGED <<available, queue, uid>>
     \/ NoDirectory(i) /\ UNCHANGED scratch
  /\ UNCHANGED <<mode, composing, waiting, childVars, sweep, dirty>>

-----------------------------------------------------------------------------
(* The child.                                                               *)

\* runtimeFiles, grantScratch and spawn, each of which may fail.
Spawn(i) ==
  /\ pc[i] = "start"
  /\ \/ processes' = [processes EXCEPT ![i] = {"child"}] /\ Goto(i, "running")
     \/ Goto(i, "finally") /\ UNCHANGED processes
  /\ UNCHANGED <<mode, poolVars, uid, forks, killed, raced, cleanVars>>

Fork(i) ==
  /\ i \in Forking /\ processes[i] # {} /\ forks < MaxForks
  /\ \E kind \in Kind \ {"child"} :
       processes' = [processes EXCEPT ![i] = @ \cup {kind}]
  /\ forks' = forks + 1
  /\ UNCHANGED <<mode, poolVars, pc, uid, killed, raced, cleanVars>>

\* The kernel ends a PID namespace with its first process; without one, nothing follows.
Surviving(i, dead) == IF mode = "namespaced" /\ "child" \in dead THEN {} ELSE processes[i] \ dead

Exit(i) ==
  /\ \E kind \in processes[i] :
       processes' = [processes EXCEPT ![i] = Surviving(i, {kind})]
  /\ UNCHANGED <<mode, poolVars, pc, uid, forks, killed, cleanVars>>
  /\ raced' = IF pc[i] = "sweep" THEN raced \cup {i} ELSE raced

\* requestKill: the timeout, an abort, too much output or too large a directory; the first
\* of them kills the child's group.
RequestKill(i) ==
  /\ pc[i] = "running" /\ i \notin killed
  /\ killed' = killed \cup {i}
  /\ processes' = [processes EXCEPT ![i] = Surviving(i, Group)]
  /\ UNCHANGED <<mode, poolVars, pc, uid, forks, raced, cleanVars>>

\* 'close' comes once nobody holds the pipe.
Close(i) ==
  /\ pc[i] = "running" /\ processes[i] \cap Pipe = {}
  /\ Goto(i, "finally")
  /\ UNCHANGED <<mode, poolVars, uid, childVars, cleanVars>>

-----------------------------------------------------------------------------
(* The finally block of invokeSandboxed.                                    *)

\* A pass over /proc sees the processes that run under this UID, whoever forked them.
Listed(i) ==
  {p \in Invocation \X Kind : uid[p[1]] = uid[i] /\ p[2] \in processes[p[1]]}

Cleanup(i) ==
  /\ pc[i] = "finally"
  /\ IF mode = "namespaced" THEN Goto(i, "rm") /\ UNCHANGED sweep
     ELSE Goto(i, "sweep") /\ sweep' = [sweep EXCEPT ![i] = [todo |-> Listed(i), kills |-> FALSE]]
  /\ UNCHANGED <<mode, poolVars, uid, childVars, scratch, dirty>>

\* Reads the status of one of them, and kills it unless it has ended or is a zombie.
SweepOne(i) ==
  /\ pc[i] = "sweep"
  /\ \E p \in sweep[i].todo :
       /\ processes' = [processes EXCEPT ![p[1]] = @ \ {p[2]}]
       /\ sweep' = [sweep EXCEPT ![i] = [todo |-> @.todo \ {p},
                                        kills |-> @.kills \/ p[2] \in processes[p[1]]]]
  /\ UNCHANGED <<mode, poolVars, pc, uid, forks, killed, raced, scratch, dirty>>

\* Slip: one pass is enough.
SlipSettled(i) == TRUE

\* Only a pass that killed nothing shows that nothing is left to fork.
Settled(i) == ~sweep[i].kills

\* /proc or a signal may be refused: the identity is released all the same.
EndPass(i) ==
  /\ pc[i] = "sweep"
  /\ \/ /\ sweep[i].todo = {}
        /\ IF Settled(i) THEN Goto(i, "release") /\ UNCHANGED sweep
           ELSE /\ sweep' = [sweep EXCEPT ![i] = [todo |-> Listed(i), kills |-> FALSE]]
                /\ UNCHANGED pc
        /\ UNCHANGED dirty
     \/ Goto(i, "release") /\ dirty' = dirty \cup {i} /\ UNCHANGED sweep
  /\ UNCHANGED <<mode, poolVars, uid, childVars, scratch>>

\* release is in the finally of the sweep; what the sweep threw skips rm.
Release(i) ==
  /\ pc[i] = "release"
  /\ Released(i, IF i \in dirty THEN "hand" ELSE "rm")
  /\ UNCHANGED <<mode, composing, waiting, childVars, cleanVars>>

RemoveDirectory(i) ==
  /\ pc[i] = "rm"
  /\ \/ scratch' = scratch \ {i} /\ UNCHANGED dirty
     \/ dirty' = dirty \cup {i} /\ UNCHANGED scratch
  /\ Goto(i, "hand")
  /\ UNCHANGED <<mode, poolVars, uid, childVars, sweep>>

-----------------------------------------------------------------------------
CallStep(i) ==
  \/ Acquire(i) \/ MakeDirectory(i) \/ Spawn(i) \/ Close(i) \/ Cleanup(i)
  \/ SweepOne(i) \/ EndPass(i) \/ Release(i) \/ RemoveDirectory(i) \/ HandSlot(i)

Next == \E i \in Invocation : Enter(i) \/ CallStep(i) \/ RequestKill(i) \/ Fork(i) \/ Exit(i)

Spec == Init /\ [][Next]_vars

(* The event loop goes on, and the timer of a running child goes off.        *)
Fairness == \A i \in Invocation : WF_vars(CallStep(i)) /\ WF_vars(RequestKill(i))

FairSpec == Spec /\ Fairness

-----------------------------------------------------------------------------
(* Properties.                                                              *)

Composing == {i \in Composition : pc[i] \notin {"idle", "slot", "done"}}
Holding == {i \in Invocation :
              uid[i] # None /\ pc[i] \in {"mkdtemp", "start", "running", "finally", "sweep", "release"}}

\* Slots and identities are neither lost nor handed out twice, whichever of the steps
\* of an invocation throws: what is not held is free, and nobody waits while it is.
NothingLeaks ==
  /\ composing = Cardinality(Composing) /\ composing <= Concurrency
  /\ waiting # <<>> => composing = Concurrency
  /\ available = Identity \ {uid[i] : i \in Holding}
  /\ \A i, j \in Holding : uid[i] = uid[j] => i = j
  /\ queue # <<>> => available = {}

\* An invocation that has ended leaves no process and no directory behind, however its
\* child forked and whatever it was ended by, unless the sweep or rm itself failed, or a
\* process forked and ended by itself before the sweep came to it.
LeavesNothing(i) == processes[i] = {} /\ i \notin scratch
EndsClean ==
  \A i \in Invocation \ (dirty \cup raced) : pc[i] = "done" => LeavesNothing(i)

\* Both: what an invocation takes, or starts, is given back and ended with it.
SandboxSound == NothingLeaks /\ EndsClean

\* Documented, and not kept: after a pass that killed nothing, nothing runs under the UID.
SweepIsComplete == \A i \in Invocation \ dirty : pc[i] = "done" => LeavesNothing(i)

\* Every invocation ends by its timeout, and passes on its slot: no promise stays open,
\* unless a process that left the child's group holds the child's pipe.
Unsettled ==
  /\ \E i \in Invocation : pc[i] \notin {"idle", "done"}
  /\ \A i \in Invocation : "escaped" \notin processes[i]
InvocationsEnd == Unsettled ~> ~Unsettled
=============================================================================
