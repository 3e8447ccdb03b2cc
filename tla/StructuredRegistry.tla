-------------------------- MODULE StructuredRegistry --------------------------
(***************************************************************************)
(* The run registry of wand-structured-renderd and its main loop           *)
(* (wand-structured-renderd/src/lib.rs, main.rs): connection threads that  *)
(* spawn, interrupt and forget runs or ask for a shutdown, the main thread *)
(* that polls signals and the shutdown word, and one reaper per run.       *)
(*                                                                         *)
(* A step is what a thread does while it holds the lock of the run map, or *)
(* between two such stretches.  Only spawn keeps the lock over several     *)
(* steps, for the draining flag is not under it.  A run's two pipe readers *)
(* matter here by when they end: at the end of file of both pipes, which a *)
(* descendant of the child can put off.  A request that finds nothing to   *)
(* do (an unknown run, a refused or repeated spawn) changes no state.      *)
(***************************************************************************)
EXTENDS Integers, FiniteSets

CONSTANTS
  Clients,     \* connection threads
  Main,        \* the main thread
  Ids,         \* run ids
  Runs,        \* the runs that may be created, each once (bound)
  Nil, Free,   \* no run; the lock is free
  Capacity     \* MAX_ADMITTED_RUNS

ASSUME StructuredAssumption ==
  /\ Main \notin Clients
  /\ Nil \notin Runs \cup Ids
  /\ Free \notin Clients
  /\ Capacity \in Nat

VARIABLES
  runs,      \* Registry.runs
  lock,      \* who holds it from one step to the next
  draining,  \* Registry.draining
  shutdown,  \* the shutdown word: 0, 1 (drain) or 2 (now)
  pending,   \* SIGNAL_COUNT, "two or more" as 2
  status,    \* per run: RunInner.status
  child,     \* per run: its process, with the strongest signal it was sent
  pipes,     \* per run: whether anybody can still write to its pipes
  stopped,   \* history: some stop_now has run to its end
  pc,        \* per thread: where it is
  request,   \* per thread: what it is doing
  target,    \* per thread: the run id it is about
  handle,    \* per thread: the run it has cloned out of the map
  victims    \* per thread: ids stop_now has not reached yet

runVars    == <<status, child, pipes>>
daemonVars == <<draining, shutdown, pending>>
threadVars == <<pc, request, target, handle, victims>>
vars == <<runs, lock, runVars, daemonVars, stopped, threadVars>>

Threads  == Clients \cup {Main}
Alive    == {"running", "interrupted", "killed"}
Steps    == {"idle", "spawn", "kill", "remove", "list", "next", "drain", "check", "exited"}
Requests == {"none", "spawn", "interrupt", "forget", "drain", "now"}

TypeOK ==
  /\ runs \in [Ids -> Runs \cup {Nil}]
  /\ lock \in Clients \cup {Free}
  /\ draining \in BOOLEAN
  /\ shutdown \in 0 .. 2
  /\ pending \in 0 .. 2
  /\ status \in [Runs -> {"running", "exited"}]
  /\ child \in [Runs -> Alive \cup {"unborn", "failed", "reaped"}]
  /\ pipes \in [Runs -> {"open", "closed"}]
  /\ stopped \in BOOLEAN
  /\ pc \in [Threads -> Steps]
  /\ request \in [Threads -> Requests]
  /\ target \in [Threads -> Ids \cup {Nil}]
  /\ handle \in [Threads -> Runs \cup {Nil}]
  /\ victims \in [Threads -> SUBSET Ids]
  /\ \A t \in Threads : pc[t] = "kill" => handle[t] # Nil

Init ==
  /\ runs = [i \in Ids |-> Nil]
  /\ lock = Free
  /\ draining = FALSE
  /\ shutdown = 0
  /\ pending = 0
  /\ status = [r \in Runs |-> "running"]
  /\ child = [r \in Runs |-> "unborn"]
  /\ pipes = [r \in Runs |-> "closed"]
  /\ stopped = FALSE
  /\ pc = [t \in Threads |-> "idle"]
  /\ request = [t \in Threads |-> "none"]
  /\ target = [t \in Threads |-> Nil]
  /\ handle = [t \in Threads |-> Nil]
  /\ victims = [t \in Threads |-> {}]

-----------------------------------------------------------------------------

Registered == {runs[i] : i \in Ids} \ {Nil}
Admitted   == {i \in Ids : runs[i] # Nil}
Running(i) == runs[i] # Nil /\ status[runs[i]] = "running"

\* A connection thread is through with its request, the main thread with the
\* signals it found.
Finish(t) ==
  /\ pc' = [pc EXCEPT ![t] = IF t = Main THEN "check" ELSE "idle"]
  /\ request' = [request EXCEPT ![t] = "none"]
  /\ target' = [target EXCEPT ![t] = Nil]
  /\ handle' = [handle EXCEPT ![t] = Nil]
  /\ victims' = [victims EXCEPT ![t] = {}]

Begin(t, what, step, i, r) ==
  /\ request' = [request EXCEPT ![t] = what]
  /\ pc' = [pc EXCEPT ![t] = step]
  /\ target' = [target EXCEPT ![t] = i]
  /\ handle' = [handle EXCEPT ![t] = r]
  /\ UNCHANGED victims

\* A thread is at a step, of a process that has not ended with its main thread.
Up == pc[Main] # "exited"
At(t, step) == Up /\ pc[t] = step

GoTo(t, step) ==
  /\ pc' = [pc EXCEPT ![t] = step]
  /\ UNCHANGED <<request, target, handle, victims>>

-----------------------------------------------------------------------------
(* Registry::spawn. *)

\* What spawn tests once it has the lock.
Admissible_OffByOne(i) ==
  runs[i] = Nil /\ ~draining /\ Cardinality(Admitted) <= Capacity
Admissible(i) ==
  runs[i] = Nil /\ ~draining /\ Cardinality(Admitted) < Capacity

SpawnBegin_Unlocked(t, i) ==
  /\ At(t, "idle") /\ t # Main
  /\ Admissible(i)
  /\ \E r \in Runs : child[r] = "unborn"
  /\ Begin(t, "spawn", "spawn", i, Nil)
  /\ UNCHANGED <<runs, lock, runVars, daemonVars, stopped>>

SpawnBegin(t, i) ==
  /\ At(t, "idle") /\ t # Main
  /\ lock = Free
  /\ Admissible(i)
  /\ \E r \in Runs : child[r] = "unborn"
  /\ lock' = t
  /\ Begin(t, "spawn", "spawn", i, Nil)
  /\ UNCHANGED <<runs, runVars, daemonVars, stopped>>

\* Command::spawn succeeds: the record is in the map before the lock is dropped,
\* and before a reader or the reaper runs.
SpawnInsert(t, r) ==
  /\ At(t, "spawn")
  /\ child[r] = "unborn"
  /\ child' = [child EXCEPT ![r] = "running"]
  /\ pipes' = [pipes EXCEPT ![r] = "open"]
  /\ runs' = [runs EXCEPT ![target[t]] = r]
  /\ lock' = Free
  /\ Finish(t)
  /\ UNCHANGED <<status, daemonVars, stopped>>

\* It fails: an exited record without a process, which takes a slot all the same.
SpawnFails(t, r) ==
  /\ At(t, "spawn")
  /\ child[r] = "unborn"
  /\ child' = [child EXCEPT ![r] = "failed"]
  /\ status' = [status EXCEPT ![r] = "exited"]
  /\ runs' = [runs EXCEPT ![target[t]] = r]
  /\ lock' = Free
  /\ Finish(t)
  /\ UNCHANGED <<pipes, daemonVars, stopped>>

\* No incarnation id can be drawn: nothing happened.
SpawnGivesUp(t) ==
  /\ At(t, "spawn")
  /\ lock' = Free
  /\ Finish(t)
  /\ UNCHANGED <<runs, runVars, daemonVars, stopped>>

-----------------------------------------------------------------------------
(* interrupt, forget and stop_now. *)

\* The run is cloned out of the map ...
Lookup(t, i, what) ==
  /\ At(t, "idle") /\ t # Main
  /\ lock = Free
  /\ runs[i] # Nil
  /\ Begin(t, what, "kill", i, runs[i])
  /\ UNCHANGED <<runs, lock, runVars, daemonVars, stopped>>

\* ... and signalled under its own lock.  Only stop_now goes on after an error;
\* forget goes on to the removal after a success.
Continue(t, success) ==
  IF request[t] = "now" THEN GoTo(t, "next")
  ELSE IF request[t] = "forget" /\ success THEN GoTo(t, "remove")
  ELSE Finish(t)

\* An interrupt may ask for any signal, SIGKILL included.
Sends(t) ==
  CASE request[t] = "now"    -> {"killed"}
    [] request[t] = "forget" -> {"interrupted"}
    [] OTHER                 -> {"interrupted", "killed"}

Signalled(r, signal) == IF child[r] = "killed" THEN "killed" ELSE signal

Kill(t) ==
  /\ At(t, "kill")
  /\ status[handle[t]] = "running"
  /\ child[handle[t]] \in Alive
  /\ \E signal \in Sends(t) :
       child' = [child EXCEPT ![handle[t]] = Signalled(handle[t], signal)]
  /\ Continue(t, TRUE)
  /\ UNCHANGED <<runs, lock, status, pipes, daemonVars, stopped>>

\* The child was waited for and its run is not marked yet: kill fails, or hits
\* whoever has the pid now.
KillGone(t) ==
  /\ At(t, "kill")
  /\ status[handle[t]] = "running"
  /\ child[handle[t]] = "reaped"
  /\ \E success \in BOOLEAN : Continue(t, success)
  /\ UNCHANGED <<runs, lock, runVars, daemonVars, stopped>>

KillExited(t) ==
  /\ At(t, "kill")
  /\ status[handle[t]] = "exited"
  /\ Continue(t, TRUE)
  /\ UNCHANGED <<runs, lock, runVars, daemonVars, stopped>>

\* forget: by the id, under the lock again.
Remove(t) ==
  /\ At(t, "remove")
  /\ lock = Free
  /\ runs' = [runs EXCEPT ![target[t]] = Nil]
  /\ Finish(t)
  /\ UNCHANGED <<lock, runVars, daemonVars, stopped>>

\* stop_now: begin_drain, then the ids that run, then one interrupt each.
StopsAdmission_NotYet == UNCHANGED draining
StopsAdmission == draining' = TRUE

NowBegin(t) ==
  /\ At(t, "idle") /\ t # Main
  /\ StopsAdmission
  /\ Begin(t, "now", "list", Nil, Nil)
  /\ UNCHANGED <<runs, lock, runVars, shutdown, pending, stopped>>

NowRuns(t) ==
  /\ At(t, "list")
  /\ lock = Free
  /\ victims' = [victims EXCEPT ![t] = {i \in Ids : Running(i)}]
  /\ pc' = [pc EXCEPT ![t] = "next"]
  /\ UNCHANGED <<runs, lock, runVars, daemonVars, stopped, request, target, handle>>

\* The next of them, unless it was forgotten meanwhile.
NowGoesTo(i) == IF runs[i] = Nil THEN "next" ELSE "kill"

NowNext(t, i) ==
  /\ At(t, "next")
  /\ lock = Free
  /\ i \in victims[t]
  /\ victims' = [victims EXCEPT ![t] = @ \ {i}]
  /\ handle' = [handle EXCEPT ![t] = runs[i]]
  /\ pc' = [pc EXCEPT ![t] = NowGoesTo(i)]
  /\ UNCHANGED <<runs, lock, runVars, daemonVars, stopped, request, target>>

\* shutdown.store(2).
NowEnd(t) ==
  /\ At(t, "next")
  /\ victims[t] = {}
  /\ shutdown' = 2
  /\ stopped' = TRUE
  /\ Finish(t)
  /\ UNCHANGED <<runs, lock, runVars, draining, pending>>

\* begin_drain, then shutdown.store(1).
DrainBegin(t) ==
  /\ At(t, "idle") /\ t # Main
  /\ StopsAdmission
  /\ Begin(t, "drain", "drain", Nil, Nil)
  /\ UNCHANGED <<runs, lock, runVars, shutdown, pending, stopped>>

DrainEnd(t) ==
  /\ At(t, "drain")
  /\ shutdown' = 1
  /\ Finish(t)
  /\ UNCHANGED <<runs, lock, runVars, draining, pending, stopped>>

-----------------------------------------------------------------------------
(* A run: its child, what the child started, and its reaper. *)

\* The last writer of its pipes goes, with the child or later; or the child
\* closes them early.
PipesEnd(r) ==
  /\ Up
  /\ pipes[r] = "open"
  /\ pipes' = [pipes EXCEPT ![r] = "closed"]
  /\ UNCHANGED <<runs, lock, status, child, daemonVars, stopped, threadVars>>

\* The child ends, by itself or of a signal, and child.wait() returns.
Reap(r) ==
  /\ Up
  /\ child[r] \in Alive
  /\ child' = [child EXCEPT ![r] = "reaped"]
  /\ UNCHANGED <<runs, lock, status, pipes, daemonVars, stopped, threadVars>>

\* Both readers are joined: the run is marked and its exit published.
MarkExited(r) ==
  /\ Up
  /\ child[r] = "reaped" /\ status[r] = "running"
  /\ pipes[r] = "closed"
  /\ status' = [status EXCEPT ![r] = "exited"]
  /\ UNCHANGED <<runs, lock, child, pipes, daemonVars, stopped, threadVars>>

-----------------------------------------------------------------------------
(* The daemon: shutdown_signal and the main loop. *)

Signal ==
  /\ Up
  /\ pending < 2
  /\ pending' = pending + 1
  /\ UNCHANGED <<runs, lock, runVars, draining, shutdown, stopped, threadVars>>

\* The loop takes the signals that came: the second, or the first of a daemon
\* that is shutting down, means now.
Escalates == pending = 2 \/ shutdown > 0

MainPoll ==
  /\ pc[Main] = "idle"
  /\ pending' = 0
  /\ \/ /\ pending = 0
        /\ GoTo(Main, "check")
        /\ UNCHANGED draining
     \/ /\ pending > 0
        /\ StopsAdmission
        /\ IF Escalates THEN Begin(Main, "now", "list", Nil, Nil)
           ELSE Begin(Main, "drain", "drain", Nil, Nil)
  /\ UNCHANGED <<runs, lock, runVars, shutdown, stopped>>

\* running_count() = 0, under the lock.
Drained == lock = Free /\ \A i \in Ids : ~Running(i)

\* The loop ends; what accept does is the connection threads' part.
LoopEnds_Draining == shutdown > 0
LoopEnds_AtDrain == shutdown = 1 /\ Drained
LoopEnds == shutdown = 2 \/ (shutdown = 1 /\ Drained)

MainExit ==
  /\ pc[Main] = "check"
  /\ LoopEnds
  /\ GoTo(Main, "exited")
  /\ UNCHANGED <<runs, lock, runVars, daemonVars, stopped>>

MainLoops ==
  /\ pc[Main] = "check"
  /\ ~LoopEnds
  /\ shutdown = 1 => lock = Free
  /\ GoTo(Main, "idle")
  /\ UNCHANGED <<runs, lock, runVars, daemonVars, stopped>>

-----------------------------------------------------------------------------

\* A thread on its way through a request, or through a signal.
Step(t) ==
  \/ \E r \in Runs : SpawnInsert(t, r) \/ SpawnFails(t, r)
  \/ SpawnGivesUp(t)
  \/ Kill(t) \/ KillGone(t) \/ KillExited(t) \/ Remove(t)
  \/ NowRuns(t) \/ (\E i \in Ids : NowNext(t, i)) \/ NowEnd(t)
  \/ DrainEnd(t)

Ask(t) ==
  \/ \E i \in Ids : SpawnBegin(t, i) \/ Lookup(t, i, "interrupt") \/ Lookup(t, i, "forget")
  \/ NowBegin(t) \/ DrainBegin(t)

MainLoop == MainPoll \/ MainExit \/ MainLoops \/ Step(Main)
Run(r)   == PipesEnd(r) \/ Reap(r) \/ MarkExited(r)

Next ==
  \/ \E t \in Clients : Ask(t) \/ Step(t)
  \/ MainLoop
  \/ Signal
  \/ \E r \in Runs : Run(r)

Spec == Init /\ [][Next]_vars

\* Threads run; children end and their pipes close, in their own time.
FairSpec ==
  /\ Spec
  /\ \A t \in Clients : WF_vars(Step(t))
  /\ WF_vars(MainLoop)
  /\ \A r \in Runs : WF_vars(Run(r))

-----------------------------------------------------------------------------
(* Properties. *)

\* lib.rs spawn, "competing callers never launch a second process for the same
\* runId": a record leaves its id only by forget, never because another run was
\* put in its place, however spawns race.
NeverDisplaced ==
  [][\A i \in Ids : runs[i] # Nil => runs'[i] \in {runs[i], Nil}]_vars

\* Retained runs, exited ones included, stay within the capacity.
WithinCapacity == Cardinality(Admitted) <= Capacity

\* Once stop_now is through, no registered run still runs that it did not kill,
\* also none that was being spawned when it began.
NowReachesAll ==
  stopped => \A r \in Registered : child[r] \in Alive => child[r] = "killed"

\* The daemon does not leave a registered run behind that it did not kill.
ExitLeavesNone ==
  pc[Main] = "exited" => \A r \in Registered : child[r] \in Alive => child[r] = "killed"

\* A shutdown that was asked for comes to an end when the children do, also when
\* drains, nows and signals cross.
ShutdownCompletes == (shutdown # 0 \/ pending # 0) ~> pc[Main] = "exited"

-----------------------------------------------------------------------------
(* A claim of a comment that this code does not keep; the run  *)
(* structured_forget refutes it.                                           *)

\* lib.rs forget: running children are interrupted before their records are released.
InterruptedBeforeReleased ==
  [][\A i \in Ids : runs[i] # Nil /\ runs'[i] = Nil => child[runs[i]] # "running"]_vars
=============================================================================
