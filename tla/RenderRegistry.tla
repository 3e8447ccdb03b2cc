---------------------------- MODULE RenderRegistry ----------------------------
(***************************************************************************)
(* The session registry of wand-renderd: which PTY a session id owns, who  *)
(* may create, kill or forget one, and when the daemon may leave.          *)
(*                                                                         *)
(* Processes (threads of the code):                                        *)
(*   - one read thread per client connection, serving one request at a     *)
(*     time (wand-renderd/src/server.rs read_loop / dispatch);             *)
(*   - the main thread, the only place that decides a shutdown             *)
(*     (wand-renderd/src/main.rs shutdown_loop);                           *)
(*   - the exit thread of every PTY (wand-render/src/session.rs exit_loop);*)
(*   - the children, and the signal thread that turns SIGTERM into `drain`.*)
(* A step is what a thread does between two lock operations.  A read of a  *)
(* status, which only ever goes from running to exited, is folded into the *)
(* neighbouring step of the same thread where the order cannot matter.     *)
(* Requests that only read (attach, list, stats, hello, and createOrAttach *)
(* of an id that is registered) leave this state alone.                    *)
(***************************************************************************)
EXTENDS Naturals, Sequences, FiniteSets

CONSTANTS
  Ids,          \* session ids clients ask for
  Clients,      \* client connections (their read threads)
  Ptys,         \* incarnations: every PTY ever spawned is a fresh one
  Nil,          \* no entry in the session map, no handle, no id
  Main,         \* the main thread, as the holder of a lock
  Free,         \* nobody holds the lock
  Closed,       \* a PTY writer that retire() has dropped
  Methods,      \* bound: the requests clients make, besides createOrAttach
  MaxRunning,   \* MAX_RUNNING_SESSIONS
  QueueDepth,   \* capacity of the shutdown channel
  MaxSignals    \* bound: how many SIGTERM/SIGINT the daemon receives

ASSUME SentinelAssumption ==
  /\ Nil \notin Ptys \cup Ids
  /\ Main \notin Clients
  /\ Free \notin Clients \cup {Main, Closed}
  /\ Closed \notin Clients

ASSUME BoundAssumption ==
  /\ IsFiniteSet(Ptys)
  /\ MaxRunning \in Nat
  /\ QueueDepth \in Nat
  /\ MaxSignals \in Nat

VARIABLES
  sessions,      \* the session map: id -> PTY or Nil
  admission,     \* holder of the admission lock
  shuttingDown,  \* the shutting_down flag
  requests,      \* the shutdown channel
  signals,       \* SIGTERM/SIGINT received so far
  main,          \* where the main thread is
  stale,         \* ids the main thread is about to drop (drain)
  victims,       \* PTYs the main thread is about to SIGKILL (now)
  verdict,       \* what shutdown_loop returned
  child,         \* per PTY: the child process
  status,        \* per PTY: Inner.status
  exitAt,        \* per PTY: where its exit thread is
  retired,       \* per PTY: the retired flag
  writer,        \* per PTY: holder of its writer lock, or Closed
  sent,          \* per PTY: the signals sent to its pid
  owner,         \* per PTY: the session id it was spawned for
  pc,            \* per client: where its read thread is
  target,        \* per client: the session id of its request
  handle,        \* per client: the PTY it holds a reference to
  announced      \* per client: the ids it is about to announce as live

mainVars   == <<main, stale, victims, verdict, requests, signals>>
ptyVars    == <<child, status, exitAt, retired, writer, sent, owner>>
clientVars == <<pc, target, handle, announced>>
lockVars   == <<admission, shuttingDown>>
vars == <<sessions, lockVars, mainVars, ptyVars, clientVars>>

Modes == {"drain", "now"}
\* The client steps that run under the admission lock.
Admitted == {"relookup", "spawn", "insert"}
ClientPCs == {"idle", "admit", "retire", "term", "close", "keys", "announce",
              "killSend", "writeLock", "writing"} \cup Admitted
\* The main-thread steps that run under the admission lock.
MainAdmitted == {"drop", "drained", "sigkill", "killed"}
MainPCs == {"recv", "drain", "count", "now", "flush", "gone"} \cup MainAdmitted

TypeOK ==
  /\ sessions \in [Ids -> Ptys \cup {Nil}]
  /\ admission \in Clients \cup {Main, Free}
  /\ shuttingDown \in BOOLEAN
  /\ requests \in Seq(Modes) /\ Len(requests) <= QueueDepth
  /\ signals \in Nat
  /\ main \in MainPCs
  /\ stale \in SUBSET Ids
  /\ victims \in SUBSET Ptys
  /\ verdict \in Modes \cup {"none"}
  /\ child \in [Ptys -> {"unborn", "running", "zombie", "reaped"}]
  /\ status \in [Ptys -> {"running", "exited"}]
  /\ exitAt \in [Ptys -> {"none", "wait", "record", "drain", "publish", "done"}]
  /\ retired \in [Ptys -> BOOLEAN]
  /\ writer \in [Ptys -> Clients \cup {Free, Closed}]
  /\ sent \in [Ptys -> SUBSET {"HUP", "TERM", "KILL"}]
  /\ owner \in [Ptys -> Ids \cup {Nil}]
  /\ pc \in [Clients -> ClientPCs]
  /\ target \in [Clients -> Ids \cup {Nil}]
  /\ handle \in [Clients -> Ptys \cup {Nil}]
  /\ announced \in [Clients -> SUBSET Ids]

Init ==
  /\ sessions = [i \in Ids |-> Nil]
  /\ admission = Free
  /\ shuttingDown = FALSE
  /\ requests = <<>>
  /\ signals = 0
  /\ main = "recv"
  /\ stale = {}
  /\ victims = {}
  /\ verdict = "none"
  /\ child = [p \in Ptys |-> "unborn"]
  /\ status = [p \in Ptys |-> "running"]
  /\ exitAt = [p \in Ptys |-> "none"]
  /\ retired = [p \in Ptys |-> FALSE]
  /\ writer = [p \in Ptys |-> Free]
  /\ sent = [p \in Ptys |-> {}]
  /\ owner = [p \in Ptys |-> Nil]
  /\ pc = [c \in Clients |-> "idle"]
  /\ target = [c \in Clients |-> Nil]
  /\ handle = [c \in Clients |-> Nil]
  /\ announced = [c \in Clients |-> {}]

-----------------------------------------------------------------------------
(* Helpers. *)

Alive == main # "gone"                  \* the daemon process still exists
Registered == {i \in Ids : sessions[i] # Nil}
InMap(p) == \E i \in Ids : sessions[i] = p
IsRunning(p) == status[p] = "running"
RunningSessions == {p \in Ptys : InMap(p) /\ IsRunning(p)}

\* running_session_count
RunningCount == Cardinality(RunningSessions)

Step(c, from, to) ==
  /\ Alive
  /\ pc[c] = from
  /\ pc' = [pc EXCEPT ![c] = to]

\* The handler answers; its locals are gone.
Answer(c, from) ==
  /\ Step(c, from, "idle")
  /\ target' = [target EXCEPT ![c] = Nil]
  /\ handle' = [handle EXCEPT ![c] = Nil]
  /\ announced' = [announced EXCEPT ![c] = {}]

\* kill_pid: the signal goes to the pid, whatever is behind it by now.
SendSignal(targets, signal) ==
  sent' = [p \in Ptys |-> IF p \in targets THEN sent[p] \cup {signal} ELSE sent[p]]

-----------------------------------------------------------------------------
(* createOrAttach: look up, take the admission lock, look up again, check  *)
(* the limits, spawn, register.                                            *)

CreateLookup(c, i) ==
  /\ Step(c, "idle", "admit")
  /\ sessions[i] = Nil
  /\ target' = [target EXCEPT ![c] = i]
  /\ UNCHANGED <<sessions, lockVars, mainVars, ptyVars, handle, announced>>

\* Under the lock the flag cannot change: refuse, or go on to the second lookup.
CreateRefusedByShutdown(c) ==
  /\ admission = Free
  /\ shuttingDown
  /\ Answer(c, "admit")
  /\ UNCHANGED <<sessions, lockVars, mainVars, ptyVars>>

CreateAdmit(c) ==
  /\ admission = Free
  /\ ~shuttingDown
  /\ Step(c, "admit", "relookup")
  /\ admission' = c
  /\ UNCHANGED <<sessions, shuttingDown, mainVars, ptyVars, target, handle, announced>>

\* Another client registered the id between the two lookups: attach to that one.
CreateFoundLate(c) ==
  /\ Answer(c, "relookup")
  /\ sessions[target[c]] # Nil
  /\ admission' = Free
  /\ UNCHANGED <<sessions, shuttingDown, mainVars, ptyVars>>

NotYetRegistered_Unchecked(i) == TRUE
NotYetRegistered(i) == sessions[i] = Nil

CreateRelookup(c) ==
  /\ Step(c, "relookup", "spawn")
  /\ NotYetRegistered(target[c])
  /\ UNCHANGED <<sessions, lockVars, mainVars, ptyVars, target, handle, announced>>

\* check_admission, the count part.
BelowLimit_OffByOne == RunningCount <= MaxRunning
BelowLimit == RunningCount < MaxRunning

\* A bad size, the running limit, the memory budget (its estimate is not
\* modelled: it may refuse at any time), or a spawn that fails before a child
\* exists.
CreateRefused(c) ==
  /\ Answer(c, "spawn")
  /\ admission' = Free
  /\ UNCHANGED <<sessions, shuttingDown, mainVars, ptyVars>>

\* Session::spawn: the child runs and both threads are started.
CreateSpawn(c) ==
  /\ BelowLimit
  /\ Step(c, "spawn", "insert")
  /\ \E p \in Ptys :
       /\ child[p] = "unborn"
       /\ child' = [child EXCEPT ![p] = "running"]
       /\ exitAt' = [exitAt EXCEPT ![p] = "wait"]
       /\ owner' = [owner EXCEPT ![p] = target[c]]
       /\ handle' = [handle EXCEPT ![c] = p]
  /\ UNCHANGED <<sessions, lockVars, mainVars, status, retired, writer, sent,
                 target, announced>>

\* Session::spawn fails after the child exists (descriptors, reader thread,
\* exit thread): SIGKILL, and nobody is left to wait for it.
CreateSpawnHalf(c) ==
  /\ BelowLimit
  /\ Answer(c, "spawn")
  /\ \E p \in Ptys :
       /\ child[p] = "unborn"
       /\ child' = [child EXCEPT ![p] = "running"]
       /\ owner' = [owner EXCEPT ![p] = target[c]]
       /\ SendSignal({p}, "KILL")
  /\ admission' = Free
  /\ UNCHANGED <<sessions, shuttingDown, mainVars, status, exitAt, retired, writer>>

\* The last lookup before the map changes: if the id is taken after all, the
\* new PTY is retired and the old one is kept.
CreateInsert(c) ==
  /\ Answer(c, "insert")
  /\ LET i == target[c]
         p == handle[c]
     IN IF sessions[i] = Nil
        THEN /\ sessions' = [sessions EXCEPT ![i] = p]
             /\ UNCHANGED <<retired, sent, writer>>
        ELSE /\ retired' = [retired EXCEPT ![p] = TRUE]
             /\ SendSignal({p}, "TERM")
             /\ writer' = [writer EXCEPT ![p] = Closed]
             /\ UNCHANGED sessions
  /\ admission' = Free
  /\ UNCHANGED <<shuttingDown, mainVars, child, status, exitAt, owner>>

-----------------------------------------------------------------------------
(* forget: unregister, retire (flag, SIGTERM, writer), announce the rest.  *)

ForgetRemove(c, i) ==
  /\ Step(c, "idle", "retire")
  /\ sessions[i] # Nil
  /\ sessions' = [sessions EXCEPT ![i] = Nil]
  /\ target' = [target EXCEPT ![c] = i]
  /\ handle' = [handle EXCEPT ![c] = sessions[i]]
  /\ UNCHANGED <<lockVars, mainVars, ptyVars, announced>>

ForgetRetire(c) ==
  /\ Step(c, "retire", "term")
  /\ retired' = [retired EXCEPT ![handle[c]] = TRUE]
  /\ UNCHANGED <<sessions, lockVars, mainVars, child, status, exitAt, writer, sent,
                 owner, target, handle, announced>>

ForgetTerminate_NoSignal(c) ==
  /\ Step(c, "term", "close")
  /\ UNCHANGED <<sessions, lockVars, mainVars, ptyVars, target, handle, announced>>

ForgetTerminate(c) ==
  /\ Step(c, "term", "close")
  /\ SendSignal({handle[c]}, "TERM")
  /\ UNCHANGED <<sessions, lockVars, mainVars, child, status, exitAt, retired, writer,
                 owner, target, handle, announced>>

\* Dropping the writer takes its lock: a write in progress holds it up.
ForgetClose(c) ==
  /\ Step(c, "close", "keys")
  /\ writer[handle[c]] = Free
  /\ writer' = [writer EXCEPT ![handle[c]] = Closed]
  /\ UNCHANGED <<sessions, lockVars, mainVars, child, status, exitAt, retired, sent,
                 owner, target, handle, announced>>

\* publish_reconcile reads the ids under the map's lock ...
ReconcileKeys(c) ==
  /\ Step(c, "keys", "announce")
  /\ announced' = [announced EXCEPT ![c] = Registered]
  /\ UNCHANGED <<sessions, lockVars, mainVars, ptyVars, target, handle>>

\* ... and publishes them after it released that lock.
ReconcilePublish(c) ==
  /\ Answer(c, "announce")
  /\ UNCHANGED <<sessions, lockVars, mainVars, ptyVars>>

-----------------------------------------------------------------------------
(* kill and write: a lookup and a status check, then the effect.           *)

KillCheck(c, i) ==
  /\ Step(c, "idle", "killSend")
  /\ sessions[i] # Nil
  /\ IsRunning(sessions[i])
  /\ target' = [target EXCEPT ![c] = i]
  /\ handle' = [handle EXCEPT ![c] = sessions[i]]
  /\ UNCHANGED <<sessions, lockVars, mainVars, ptyVars, announced>>

KillSend(c) ==
  /\ Answer(c, "killSend")
  /\ SendSignal({handle[c]}, "HUP")
  /\ UNCHANGED <<sessions, lockVars, mainVars, child, status, exitAt, retired, writer, owner>>

WriteCheck(c, i) ==
  /\ Step(c, "idle", "writeLock")
  /\ sessions[i] # Nil
  /\ IsRunning(sessions[i])
  /\ target' = [target EXCEPT ![c] = i]
  /\ handle' = [handle EXCEPT ![c] = sessions[i]]
  /\ UNCHANGED <<sessions, lockVars, mainVars, ptyVars, announced>>

WriteRefused(c) ==
  /\ Answer(c, "writeLock")
  /\ writer[handle[c]] = Closed
  /\ UNCHANGED <<sessions, lockVars, mainVars, ptyVars>>

WriteBegin(c) ==
  /\ Step(c, "writeLock", "writing")
  /\ writer[handle[c]] = Free
  /\ writer' = [writer EXCEPT ![handle[c]] = c]
  /\ UNCHANGED <<sessions, lockVars, mainVars, child, status, exitAt, retired, sent,
                 owner, target, handle, announced>>

\* write_all returns when the child read its input or its side is gone.
WriteEnd(c) ==
  /\ Answer(c, "writing")
  /\ writer' = [writer EXCEPT ![handle[c]] = Free]
  /\ UNCHANGED <<sessions, lockVars, mainVars, child, status, exitAt, retired, sent, owner>>

-----------------------------------------------------------------------------
(* Shutdown: requests reach the main thread over a bounded channel.        *)

HasRoom == Len(requests) < QueueDepth

\* `shutdown` of a client; send blocks while the channel is full.
RequestShutdown(c, mode) ==
  /\ Alive
  /\ pc[c] = "idle"
  /\ HasRoom
  /\ requests' = Append(requests, mode)
  /\ UNCHANGED <<sessions, lockVars, main, stale, victims, verdict, signals, ptyVars, clientVars>>

\* The signal thread: every SIGTERM/SIGINT is a `drain` request.
Signal ==
  /\ Alive
  /\ signals < MaxSignals
  /\ HasRoom
  /\ requests' = Append(requests, "drain")
  /\ signals' = signals + 1
  /\ UNCHANGED <<sessions, lockVars, main, stale, victims, verdict, ptyVars, clientVars>>

\* A second drain is escalated to now.
Effective(mode) == IF mode = "drain" /\ shuttingDown THEN "now" ELSE mode

MainReceive ==
  /\ main = "recv"
  /\ requests # <<>>
  /\ requests' = Tail(requests)
  /\ main' = Effective(Head(requests))
  /\ UNCHANGED <<sessions, lockVars, stale, victims, verdict, signals, ptyVars, clientVars>>

\* The receive timed out: has the last running session left?
MainTimeout ==
  /\ main = "recv"
  /\ requests = <<>>
  /\ shuttingDown
  /\ main' = "count"
  /\ UNCHANGED <<sessions, lockVars, stale, victims, verdict, requests, signals, ptyVars, clientVars>>

\* begin_shutdown(Drain): under the admission lock, note the exited sessions ...
DrainCanBegin_Unlocked == TRUE
DrainCanBegin == admission = Free
Droppable_Everything(i) == sessions[i] # Nil
Droppable(i) == sessions[i] # Nil /\ ~IsRunning(sessions[i])

DrainBegin ==
  /\ main = "drain"
  /\ DrainCanBegin
  /\ main' = "drop"
  /\ admission' = Main
  /\ shuttingDown' = TRUE
  /\ stale' = {i \in Ids : Droppable(i)}
  /\ UNCHANGED <<sessions, victims, verdict, requests, signals, ptyVars, clientVars>>

\* ... then drop them by id.
DrainDrop ==
  /\ main = "drop"
  /\ main' = "drained"
  /\ sessions' = [i \in Ids |-> IF i \in stale THEN Nil ELSE sessions[i]]
  /\ stale' = {}
  /\ UNCHANGED <<lockVars, victims, verdict, requests, signals, ptyVars, clientVars>>

\* begin_shutdown(Now): empty the map and remember who was in it ...
NowBegin ==
  /\ main = "now"
  /\ admission = Free
  /\ main' = "sigkill"
  /\ admission' = Main
  /\ shuttingDown' = TRUE
  /\ victims' = {p \in Ptys : InMap(p)}
  /\ sessions' = [i \in Ids |-> Nil]
  /\ UNCHANGED <<stale, verdict, requests, signals, ptyVars, clientVars>>

\* ... then SIGKILL each of them.
NowKill ==
  /\ main = "sigkill"
  /\ main' = "killed"
  /\ SendSignal(victims, "KILL")
  /\ victims' = {}
  /\ UNCHANGED <<sessions, lockVars, stale, verdict, requests, signals, child, status, exitAt,
                 retired, writer, owner, clientVars>>

\* Both publish a reconcile and release the admission lock.  Drain goes on to
\* count what still runs, now leaves the loop.
DrainEnd ==
  /\ main = "drained"
  /\ main' = "count"
  /\ admission' = Free
  /\ UNCHANGED <<sessions, shuttingDown, stale, victims, verdict, requests, signals, ptyVars, clientVars>>

NowEnd ==
  /\ main = "killed"
  /\ main' = "flush"
  /\ verdict' = "now"
  /\ admission' = Free
  /\ UNCHANGED <<sessions, shuttingDown, stale, victims, requests, signals, ptyVars, clientVars>>

DrainComplete_CountsExited == Registered = {}
DrainComplete == RunningSessions = {}

MainCount ==
  /\ main = "count"
  /\ IF DrainComplete
     THEN main' = "flush" /\ verdict' = "drain"
     ELSE main' = "recv" /\ UNCHANGED verdict
  /\ UNCHANGED <<sessions, lockVars, stale, victims, requests, signals, ptyVars, clientVars>>

\* EXIT_FLUSH_DELAY passes, the endpoint files go, the process returns from main.
MainExit ==
  /\ main = "flush"
  /\ main' = "gone"
  /\ UNCHANGED <<sessions, lockVars, stale, victims, verdict, requests, signals, ptyVars, clientVars>>

-----------------------------------------------------------------------------
(* A PTY's child and its exit thread.                                      *)

\* The child ends: on its own, or because of a signal it received.
ChildExit(p) ==
  /\ Alive
  /\ child[p] = "running"
  /\ child' = [child EXCEPT ![p] = "zombie"]
  /\ UNCHANGED <<sessions, lockVars, mainVars, status, exitAt, retired, writer, sent, owner, clientVars>>

Reap(p) ==
  /\ Alive
  /\ exitAt[p] = "wait"
  /\ child[p] = "zombie"
  /\ child' = [child EXCEPT ![p] = "reaped"]
  /\ exitAt' = [exitAt EXCEPT ![p] = "record"]
  /\ UNCHANGED <<sessions, lockVars, mainVars, status, retired, writer, sent, owner, clientVars>>

RecordExit(p) ==
  /\ Alive
  /\ exitAt[p] = "record"
  /\ status' = [status EXCEPT ![p] = "exited"]
  /\ exitAt' = [exitAt EXCEPT ![p] = "drain"]
  /\ UNCHANGED <<sessions, lockVars, mainVars, child, retired, writer, sent, owner, clientVars>>

\* The reader is done, or READER_DRAIN_TIMEOUT passed; a retired session stops here.
DrainReader(p) ==
  /\ Alive
  /\ exitAt[p] = "drain"
  /\ exitAt' = [exitAt EXCEPT ![p] = IF retired[p] THEN "done" ELSE "publish"]
  /\ UNCHANGED <<sessions, lockVars, mainVars, child, status, retired, writer, sent, owner, clientVars>>

PublishExit(p) ==
  /\ Alive
  /\ exitAt[p] = "publish"
  /\ exitAt' = [exitAt EXCEPT ![p] = "done"]
  /\ UNCHANGED <<sessions, lockVars, mainVars, child, status, retired, writer, sent, owner, clientVars>>

-----------------------------------------------------------------------------

ClientStep(c) ==
  \/ CreateRefusedByShutdown(c) \/ CreateAdmit(c) \/ CreateFoundLate(c)
  \/ CreateRelookup(c) \/ CreateRefused(c) \/ CreateSpawn(c) \/ CreateSpawnHalf(c)
  \/ CreateInsert(c)
  \/ ForgetRetire(c) \/ ForgetTerminate(c) \/ ForgetClose(c)
  \/ ReconcileKeys(c) \/ ReconcilePublish(c)
  \/ KillSend(c)
  \/ WriteRefused(c) \/ WriteBegin(c) \/ WriteEnd(c)

Request(c) ==
  \/ \E i \in Ids :
       \/ CreateLookup(c, i)
       \/ "forget" \in Methods /\ ForgetRemove(c, i)
       \/ "kill" \in Methods /\ KillCheck(c, i)
       \/ "write" \in Methods /\ WriteCheck(c, i)
  \/ \E mode \in Modes \cap Methods : RequestShutdown(c, mode)

MainStep ==
  \/ MainReceive \/ MainTimeout \/ DrainBegin \/ DrainDrop \/ NowBegin \/ NowKill
  \/ DrainEnd \/ NowEnd \/ MainCount \/ MainExit

ExitThread(p) == Reap(p) \/ RecordExit(p) \/ DrainReader(p) \/ PublishExit(p)

Next ==
  \/ \E c \in Clients : Request(c) \/ ClientStep(c)
  \/ \E p \in Ptys : ChildExit(p) \/ ExitThread(p)
  \/ MainStep
  \/ Signal

Spec == Init /\ [][Next]_vars

\* The scheduler runs every thread of the daemon that can take a step, and the
\* signal thread's and the clients' wish to ask for something is their own.  A
\* child that was sent a signal ends sooner or later, and with it a write that
\* waits for its input.
Fairness ==
  /\ WF_vars(MainStep)
  /\ \A c \in Clients :
       /\ SF_vars(CreateAdmit(c) \/ CreateRefusedByShutdown(c))
       /\ SF_vars(ForgetClose(c))
       /\ WF_vars(ClientStep(c) /\ pc[c] \notin {"admit", "close", "writing"})
       /\ WF_vars(WriteEnd(c) /\ child[handle[c]] # "running")
  /\ \A p \in Ptys :
       /\ WF_vars(ExitThread(p))
       /\ WF_vars(sent[p] # {} /\ ChildExit(p))

FairSpec == Spec /\ Fairness

-----------------------------------------------------------------------------
(* Properties. *)

Forgotten(p) == retired[p] \/ \E c \in Clients : pc[c] = "retire" /\ handle[c] = p
\* A PTY with both of its threads whose exit has not been recorded.
Live(p) == exitAt[p] # "none" /\ IsRunning(p)

\* The double lookup works: whenever a creator is about to register its PTY the
\* id is still free and no shutdown has begun, so the branch that would throw
\* away a freshly spawned PTY (registry.rs, "concurrent createOrAttach") is dead.
CreateRaceFree ==
  \A c \in Clients : pc[c] = "insert" => sessions[target[c]] = Nil /\ ~shuttingDown

\* A session id never has two live PTYs, whatever clients race to create it: a
\* second one exists only after the first was forgotten.
OnePtyPerId ==
  \A p, q \in Ptys :
    /\ p # q /\ owner[p] = owner[q]
    /\ Live(p) /\ Live(q)
    => Forgotten(p) \/ Forgotten(q)

\* Nothing is lost track of: a live PTY is registered, about to be registered,
\* forgotten at a client's request, or in the hands of shutdown(now).
NoOrphan ==
  \A p \in Ptys : Live(p) =>
    \/ InMap(p)
    \/ \E c \in Clients : pc[c] = "insert" /\ handle[c] = p
    \/ Forgotten(p)
    \/ p \in victims \/ "KILL" \in sent[p]

\* The daemon leaves only when it may: once shutdown_loop has returned, every
\* live PTY was forgotten by a client or was sent SIGKILL by `now`; after a
\* drain, only the former.
LeavesNothingRunning ==
  verdict # "none" =>
    \A p \in Ptys : Live(p) => Forgotten(p) \/ (verdict = "now" /\ "KILL" \in sent[p])

\* The running limit holds although the count and the registration are separate
\* steps: the admission lock makes them one.
RunningLimit == RunningCount <= MaxRunning

\* From the moment a shutdown begins no id gains a session, on any path.
NothingAdmittedInShutdown ==
  [][shuttingDown => \A i \in Ids : sessions'[i] \in {sessions[i], Nil}]_vars

\* Drain drops only exited sessions: while no `now` has begun, a running session
\* leaves the map only through a client's forget.
DrainKeepsRunning ==
  [][\A i \in Ids :
       sessions[i] # Nil /\ IsRunning(sessions[i]) /\ sessions'[i] # sessions[i]
       => main = "now" \/ \E c \in Clients : pc[c] = "idle" /\ pc'[c] = "retire"]_vars

\* Whatever locks a request meets it is answered, unless the daemon leaves
\* first; only a write may wait for ever, for a child that does not read.  In
\* particular a forget gets past a write that blocks on the same PTY, because it
\* signals the child before it asks for the writer.
RequestsAnswered ==
  \A c \in Clients :
    pc[c] \notin {"idle", "writeLock", "writing"} ~> (pc[c] = "idle" \/ ~Alive)

\* A `now`, or a drain when the running sessions end, brings the daemon down.
ShutdownCompletes ==
  (shuttingDown /\ \A p \in Ptys : child[p] # "running") ~> ~Alive

-----------------------------------------------------------------------------
(* Claims of comments and documents that this code does not keep; each is  *)
(* refuted by a counterexample the README describes.                       *)

\* registry.rs kill: a session that has exited is sent no signal any more.
NoSignalAfterExit ==
  [][\A p \in Ptys : sent'[p] # sent[p] => IsRunning(p)]_vars

\* session.rs exit_loop: a forgotten session is not announced any more.
ForgottenStaysSilent ==
  [][\A p \in Ptys : exitAt[p] = "publish" /\ exitAt'[p] = "done" => ~retired[p]]_vars

\* registry.rs publish_reconcile: the set announced is the set that exists.
ReconcileIsCurrent ==
  [][\A c \in Clients : pc[c] = "announce" /\ pc'[c] = "idle" => announced[c] = Registered]_vars

\* docs/render-protocol.md 9.3: a drain leaves running sessions alone; only a
\* second signal, or a `now`, escalates.
DrainStaysDrain ==
  [][main = "recv" /\ main' = "now" /\ signals < 2 => Head(requests) = "now"]_vars

\* docs/render-protocol.md 4: at most MaxRunning running PTYs, here counted by
\* their processes and not by the map's entries.
RunningPtyLimit ==
  Cardinality({p \in Ptys : exitAt[p] # "none" /\ child[p] = "running"}) <= MaxRunning

\* docs/render-protocol.md 9.3: `now` kills every PTY before the daemon exits.
NowKillsEveryPty ==
  verdict = "now" => \A p \in Ptys : child[p] = "running" => "KILL" \in sent[p]

-----------------------------------------------------------------------------
(* The inductive invariant behind the safety properties. *)

HasHandle == ClientPCs \ ({"idle", "admit"} \cup {"relookup", "spawn"})

\* The admission lock and the flag it protects.
LockInv ==
  /\ \A c \in Clients : pc[c] \in Admitted <=> admission = c
  /\ main \in MainAdmitted <=> admission = Main
  /\ main \in MainAdmitted \cup {"count", "flush", "gone"} => shuttingDown
  /\ verdict # "none" <=> main \in {"flush", "gone"}
  /\ admission \in Clients => ~shuttingDown

\* What a client's locals denote.
LocalInv ==
  \A c \in Clients :
    /\ pc[c] # "idle" => target[c] \in Ids
    /\ pc[c] \in HasHandle => handle[c] \in Ptys /\ exitAt[handle[c]] # "none"
    /\ pc[c] \in {"spawn", "insert"} => sessions[target[c]] = Nil
    /\ pc[c] = "insert" => owner[handle[c]] = target[c] /\ ~retired[handle[c]]
    /\ pc[c] = "retire" =>
         /\ ~InMap(handle[c])
         /\ \A d \in Clients : pc[d] = "insert" => handle[d] # handle[c]

\* What the map refers to, and what has not been spawned.
MapInv ==
  /\ \A i \in Ids : sessions[i] # Nil =>
       /\ owner[sessions[i]] = i
       /\ exitAt[sessions[i]] # "none"
       /\ ~retired[sessions[i]]
  /\ \A p \in Ptys :
       /\ child[p] = "unborn" => exitAt[p] = "none" /\ sent[p] = {}
       /\ exitAt[p] = "none" => ~retired[p]

\* What the main thread carries from one step of a shutdown to the next.
ShutdownInv ==
  /\ main = "drop" => \A i \in stale : sessions[i] = Nil \/ ~IsRunning(sessions[i])
  /\ main # "sigkill" => victims = {}
  /\ main \in {"sigkill", "killed"} => \A i \in Ids : sessions[i] = Nil
  /\ \A p \in victims : exitAt[p] # "none"
  /\ \A p \in Ptys :
       exitAt[p] # "none" /\ "KILL" \in sent[p] => main = "killed" \/ verdict = "now"

\* While a creator is between its count and its registration the limit is not reached.
LimitInv ==
  /\ RunningLimit
  /\ \A c \in Clients : pc[c] = "insert" => BelowLimit

IInv ==
  /\ TypeOK /\ LockInv /\ LocalInv /\ MapInv /\ ShutdownInv /\ LimitInv
  /\ NoOrphan /\ OnePtyPerId /\ LeavesNothingRunning
=============================================================================
