------------------------------- MODULE Endpoint -------------------------------
(***************************************************************************)
(* Who owns the endpoint of a configuration: the socket's path and the     *)
(* token, pid and meta files beside it.  Several daemon processes of one   *)
(* configuration come and go: a start inspects what it finds, takes away a *)
(* stale socket, binds, publishes; a running daemon binds again when a     *)
(* cleaner of temporary directories took its socket; an end removes the    *)
(* files; a crash removes nothing (wand-renderd/src/main.rs,               *)
(* wand-structured-renderd/src/main.rs, wand-render/src/socket_keepalive.rs*)
(* and security.rs).                                                       *)
(*                                                                         *)
(* Both daemons are here, wand-renderd ("render") and                      *)
(* wand-structured-renderd ("structured"): they have their own paths and   *)
(* never meet.                                                             *)
(* A daemon is one process, from its launch to its death; a pid is not     *)
(* used twice.  External: the file system, the launcher, the cleaner.      *)
(***************************************************************************)
EXTENDS Naturals, Sequences

CONSTANTS
  Daemons,     \* processes of one configuration, in the order of their launch
  Nobody,      \* no file, no open file
  Empty,       \* the content of a file opened and not yet written
  Overlap,     \* whether two starts may run at the same time
  MaxCleans    \* bound: how often the cleaner strikes

ASSUME EndpointAssumption ==
  /\ Daemons \subseteq Nat
  /\ Nobody \notin Daemons /\ Nobody \notin {"token", "pid", "meta", "unlinked"}
  /\ Nobody \notin [owner : Daemons, mode : {"0600", "0700"}]
  /\ Empty \notin Daemons \cup {Nobody}
  /\ Overlap \in BOOLEAN
  /\ MaxCleans \in Nat

VARIABLES
  program,     \* which of the two daemons, the same for ever
  sock,        \* the socket at the path: who bound it, and its mode
  file,        \* per file: whose content it has
  pc,          \* per daemon: where its main thread is
  at,          \* per daemon: the file it is to write, or to remove, next
  fd,          \* per daemon: the file it has open for writing
  accept,      \* per daemon: its RecoveringListener
  cleans       \* strikes of the cleaner so far

disk == <<sock, file>>
vars == <<program, disk, pc, at, fd, accept, cleans>>

Files == {"token", "pid", "meta"}
\* They are written, and removed, in this order.
Following == [token |-> "pid", pid |-> "meta", meta |-> "done"]
Socket(d, mode) == [owner |-> d, mode |-> mode]
Structured == program = "structured"
Unlinked == "unlinked"   \* an open file whose name is gone

Starting == {"inspect", "absent", "owned", "probe", "probe again", "unlink",
             "bind", "chmod", "watch", "publish"}
Ending == {"closing", "cleanup", "remove"}
Alive(d) == pc[d] \in Starting \cup {"run"} \cup Ending

TypeOK ==
  /\ program \in {"render", "structured"}
  /\ sock \in {Nobody} \cup [owner : Daemons, mode : {"0600", "0700"}]
  /\ file \in [Files -> Daemons \cup {Nobody, Empty}]
  /\ pc \in [Daemons -> Starting \cup {"run", "off", "dead"} \cup Ending]
  /\ at \in [Daemons -> Files \cup {"done"}]
  /\ fd \in [Daemons -> Files \cup {Nobody, Unlinked}]
  /\ accept \in [Daemons -> {"none", "spawned", "watch", "rebound", "ended"}]
  /\ cleans \in 0 .. MaxCleans

Init ==
  /\ program \in {"render", "structured"}
  /\ sock = Nobody
  /\ file = [f \in Files |-> Nobody]
  /\ pc = [d \in Daemons |-> "off"]
  /\ at = [d \in Daemons |-> "token"]
  /\ fd = [d \in Daemons |-> Nobody]
  /\ accept = [d \in Daemons |-> "none"]
  /\ cleans = 0

Goto(d, where) == pc' = [pc EXCEPT ![d] = where]
Die(d) ==
  /\ Goto(d, "dead")
  /\ fd' = [fd EXCEPT ![d] = Nobody]
  /\ accept' = [accept EXCEPT ![d] = "none"]
  /\ at' = [at EXCEPT ![d] = "token"]
Refuse(d) == Die(d) /\ UNCHANGED <<program, disk, cleans>>
Proceed(d, where) ==
  /\ Goto(d, where)
  /\ UNCHANGED <<program, disk, at, fd, accept, cleans>>

-----------------------------------------------------------------------------
(* Starting: is the path free, or may it be freed? *)

\* External: the launcher; without Overlap it waits for the outcome of a start.
Launch(d) ==
  /\ pc[d] = "off"
  /\ \A e \in Daemons : e < d => pc[e] # "off"
  /\ Overlap \/ \A e \in Daemons : pc[e] \notin Starting
  /\ Proceed(d, "inspect")

Inspect(d) ==
  /\ pc[d] = "inspect"
  /\ \/ sock = Nobody /\ Proceed(d, "absent")
     \/ sock # Nobody /\ sock.mode = "0600" /\ Proceed(d, "owned")
     \/ sock # Nobody /\ sock.mode # "0600" /\ Refuse(d)

\* The pid file names a process that lives.
LiveOwner == \E e \in Daemons : file["pid"] = e /\ Alive(e)

CheckAbsent_Unasked(d) ==
  /\ pc[d] = "absent"
  /\ Proceed(d, "bind")

CheckAbsent(d) ==
  /\ pc[d] = "absent"
  /\ \/ LiveOwner /\ Refuse(d)
     \/ ~LiveOwner /\ Proceed(d, "bind")

\* Only wand-renderd asks the pid file when the socket is there.
CheckOwned(d) ==
  /\ pc[d] = "owned"
  /\ \/ ~Structured /\ LiveOwner /\ Refuse(d)
     \/ (Structured \/ ~LiveOwner) /\ Proceed(d, "probe")

\* connect succeeds when the process that bound the socket still listens.
Connects == sock # Nobody /\ Alive(sock.owner) /\ accept[sock.owner] # "ended"

Probe_Unasked(d) ==
  /\ pc[d] = "probe"
  /\ Proceed(d, "unlink")

\* wand-renderd believes an answer only when it gets a second one.
Probe(d) ==
  /\ pc[d] = "probe"
  /\ \/ ~Connects /\ Proceed(d, "unlink")
     \/ Connects /\ Structured /\ Refuse(d)
     \/ Connects /\ ~Structured /\ Proceed(d, "probe again")

ProbeAgain(d) ==
  /\ pc[d] = "probe again"
  /\ \/ ~Connects /\ Proceed(d, "unlink")
     \/ Connects /\ Refuse(d)

\* remove_file of the stale socket: of whatever is at the path by now.
UnlinkStale(d) ==
  /\ pc[d] = "unlink"
  /\ \/ sock = Nobody /\ Refuse(d)
     \/ /\ sock # Nobody
        /\ sock' = Nobody
        /\ Goto(d, "bind")
        /\ UNCHANGED <<program, file, at, fd, accept, cleans>>

-----------------------------------------------------------------------------
(* Starting: bind, then publish. *)

\* Under the umask the new socket is 0700 until the chmod; a taken path is an
\* error.
BindSocket(d) ==
  /\ pc[d] = "bind"
  /\ \/ sock # Nobody /\ Refuse(d)
     \/ /\ sock = Nobody
        /\ sock' = Socket(d, "0700")
        /\ Goto(d, "chmod")
        /\ UNCHANGED <<program, file, at, fd, accept, cleans>>

\* By its path: it may be another's socket, or none.
ChmodSocket(d) ==
  /\ pc[d] = "chmod"
  /\ \/ sock = Nobody /\ Refuse(d)
     \/ /\ sock # Nobody
        /\ sock' = [sock EXCEPT !.mode = "0600"]
        /\ Goto(d, IF Structured THEN "watch" ELSE "publish")
        /\ UNCHANGED <<program, file, at, fd, accept, cleans>>

\* wand-structured-renderd: RecoveringListener::new comes before the files.
WatchFirst(d) ==
  /\ pc[d] = "watch"
  /\ \/ sock = Nobody /\ Refuse(d)
     \/ /\ sock # Nobody
        /\ accept' = [accept EXCEPT ![d] = "watch"]
        /\ Goto(d, "publish")
        /\ UNCHANGED <<program, disk, at, fd, cleans>>

\* wand-renderd: write_private opens (and truncates), then writes ...
OpenFile(d) ==
  /\ pc[d] = "publish" /\ ~Structured
  /\ fd[d] = Nobody
  /\ at[d] # "done"
  /\ fd' = [fd EXCEPT ![d] = at[d]]
  /\ file' = [file EXCEPT ![at[d]] = Empty]
  /\ UNCHANGED <<program, sock, pc, at, accept, cleans>>

\* ... to the open file, whether or not it still has its name.
FillFile(d) ==
  /\ pc[d] = "publish"
  /\ at[d] # "done"
  /\ fd[d] # Nobody
  /\ file' = IF fd[d] = Unlinked THEN file ELSE [file EXCEPT ![fd[d]] = d]
  /\ fd' = [fd EXCEPT ![d] = Nobody]
  /\ at' = [at EXCEPT ![d] = Following[@]]
  /\ UNCHANGED <<program, sock, pc, accept, cleans>>

\* wand-structured-renderd: a temporary file takes the name, complete.
RenameFile(d) ==
  /\ pc[d] = "publish" /\ Structured
  /\ at[d] # "done"
  /\ file' = [file EXCEPT ![at[d]] = d]
  /\ at' = [at EXCEPT ![d] = Following[@]]
  /\ UNCHANGED <<program, sock, pc, fd, accept, cleans>>

\* wand-renderd starts its accept thread only now.
StartAccepting(d) ==
  /\ pc[d] = "publish"
  /\ at[d] = "done"
  /\ Goto(d, "run")
  /\ accept' = [accept EXCEPT ![d] = IF Structured THEN @ ELSE "spawned"]
  /\ UNCHANGED <<program, disk, at, fd, cleans>>

-----------------------------------------------------------------------------
(* Running: the listener that recovers.  In wand-renderd it has a thread,    *)
(* which nobody stops before the process is gone; in the structured daemon it*)
(* is part of the main loop.                                                 *)

MayMaintain(d) == pc[d] = "run" \/ (~Structured /\ pc[d] \in Ending)

\* RenderServer::serve gives up when the socket is gone before it looked.
WatchSocket(d) ==
  /\ accept[d] = "spawned"
  /\ accept' = [accept EXCEPT ![d] = IF sock = Nobody THEN "ended" ELSE "watch"]
  /\ UNCHANGED <<program, disk, pc, at, fd, cleans>>

\* maintain: bind first, so a path somebody has taken meanwhile stays his.
Rebind(d) ==
  /\ accept[d] = "watch"
  /\ MayMaintain(d)
  /\ sock = Nobody
  /\ sock' = Socket(d, "0700")
  /\ accept' = [accept EXCEPT ![d] = "rebound"]
  /\ UNCHANGED <<program, file, pc, at, fd, cleans>>

Adopt_NoChmod(d) ==
  /\ accept[d] = "rebound"
  /\ MayMaintain(d)
  /\ accept' = [accept EXCEPT ![d] = "watch"]
  /\ UNCHANGED <<program, disk, pc, at, fd, cleans>>

\* ... then chmod and adopt; gone again, it is tried again.
Adopt(d) ==
  /\ accept[d] = "rebound"
  /\ MayMaintain(d)
  /\ sock' = IF sock = Nobody THEN sock ELSE [sock EXCEPT !.mode = "0600"]
  /\ accept' = [accept EXCEPT ![d] = "watch"]
  /\ UNCHANGED <<program, file, pc, at, fd, cleans>>

-----------------------------------------------------------------------------
(* Ending. *)

\* The shutdown was decided (RenderRegistry, StructuredRegistry).
Stop(d) ==
  /\ pc[d] = "run"
  /\ Structured => accept[d] # "rebound"
  /\ Goto(d, "closing")
  /\ UNCHANGED <<program, disk, at, fd, accept, cleans>>

\* The socket goes first, whoever bound it.
RemoveSocket(d) ==
  /\ pc[d] = "closing"
  /\ sock' = Nobody
  /\ Goto(d, "cleanup")
  /\ at' = [at EXCEPT ![d] = "token"]
  /\ UNCHANGED <<program, file, fd, accept, cleans>>

\* wand-renderd, remove_if_owned: read first ...
ReadOwned(d) ==
  /\ pc[d] = "cleanup" /\ ~Structured
  /\ at[d] # "done"
  /\ \/ /\ file[at[d]] = d
        /\ Goto(d, "remove")
        /\ UNCHANGED at
     \/ /\ file[at[d]] # d
        /\ at' = [at EXCEPT ![d] = Following[@]]
        /\ UNCHANGED pc
  /\ UNCHANGED <<program, disk, fd, accept, cleans>>

\* ... then remove; the structured daemon removes without reading.
RemoveFile(d) ==
  /\ pc[d] = "remove" \/ (pc[d] = "cleanup" /\ Structured)
  /\ at[d] # "done"
  /\ file' = [file EXCEPT ![at[d]] = Nobody]
  /\ fd' = [e \in Daemons |-> IF fd[e] = at[d] THEN Unlinked ELSE fd[e]]
  /\ at' = [at EXCEPT ![d] = Following[@]]
  /\ Goto(d, "cleanup")
  /\ UNCHANGED <<program, sock, accept, cleans>>

Exit(d) ==
  /\ pc[d] = "cleanup"
  /\ at[d] = "done"
  /\ Die(d)
  /\ UNCHANGED <<program, disk, cleans>>

-----------------------------------------------------------------------------
(* The environment. *)

\* A process is killed, or fails between two steps: everything stays on disk.
Crash(d) ==
  /\ Alive(d)
  /\ Die(d)
  /\ UNCHANGED <<program, disk, cleans>>

CleanTmp ==
  /\ sock # Nobody
  /\ cleans < MaxCleans
  /\ cleans' = cleans + 1
  /\ sock' = Nobody
  /\ UNCHANGED <<program, file, pc, at, fd, accept>>

-----------------------------------------------------------------------------

Prepare(d) ==
  Inspect(d) \/ CheckAbsent(d) \/ CheckOwned(d) \/ Probe(d) \/ ProbeAgain(d) \/ UnlinkStale(d)
Publish(d) ==
  \/ BindSocket(d) \/ ChmodSocket(d) \/ WatchFirst(d)
  \/ OpenFile(d) \/ FillFile(d) \/ RenameFile(d) \/ StartAccepting(d)
Maintain(d) == WatchSocket(d) \/ Rebind(d) \/ Adopt(d)
Cleanup(d) == RemoveSocket(d) \/ ReadOwned(d) \/ RemoveFile(d) \/ Exit(d)

Next ==
  \/ \E d \in Daemons :
       Launch(d) \/ Prepare(d) \/ Publish(d) \/ Maintain(d) \/ Stop(d) \/ Cleanup(d) \/ Crash(d)
  \/ CleanTmp

Spec == Init /\ [][Next]_vars

\* A process that lives takes its steps; nobody has to launch, stop, kill or clean.
FairSpec ==
  /\ Spec
  /\ \A d \in Daemons :
       WF_vars(Prepare(d) \/ Publish(d) \/ Cleanup(d)) /\ WF_vars(Maintain(d))

-----------------------------------------------------------------------------
(* Properties. *)

\* A structured daemon may lose its place when the cleaner strikes just while
\* another one starts, for that one does not ask the pid file again.
Undisturbed == Structured => cleans = 0

\* The invariant the proofs rest on, while starts are made one at a time.  A start
\* past its checks is committed; from its run until it has removed the pid file a
\* daemon holds the endpoint.
Committed(d) ==
  \/ pc[d] \in {"bind", "chmod", "watch", "publish"}
  \/ ~Structured /\ pc[d] \in {"probe", "probe again", "unlink"}
Removing(d) == pc[d] \in {"cleanup", "remove"}
Holds(d) == pc[d] \in {"run", "closing"} \/ (Removing(d) /\ at[d] \in {"token", "pid"})

StartsAlone == \A d, e \in Daemons : pc[d] \in Starting /\ pc[e] \in Starting => d = e

NoRival ==
  /\ \A d, e \in Daemons : Committed(d) /\ Holds(e) => d = e
  /\ \A d, e \in Daemons : Holds(d) /\ Holds(e) => d = e

\* What a daemon wrote stays: the files of one that publishes, runs or ends.
FilesOf(d) ==
  /\ pc[d] = "publish" /\ at[d] # "token" => file["token"] = d
  /\ pc[d] = "publish" /\ at[d] \in {"meta", "done"} => file["pid"] = d
  /\ pc[d] = "publish" /\ fd[d] # Nobody =>
       /\ ~Structured /\ at[d] # "done"
       /\ fd[d] = at[d] \/ (at[d] = "meta" /\ fd[d] = Unlinked)
  /\ pc[d] \in {"off"} \cup (Starting \ {"publish"}) => at[d] = "token"
  /\ pc[d] # "publish" => fd[d] = Nobody
  /\ pc[d] = "run" => file["token"] = d
  /\ Holds(d) => file["pid"] = d
FilesStay == \A d \in Daemons : FilesOf(d)

\* Without strikes of the cleaner a structured daemon's socket stays with it.
SocketOf(d) ==
  /\ pc[d] = "chmod" => sock = Socket(d, "0700")
  /\ pc[d] \in {"watch", "publish", "run", "closing"} => sock = Socket(d, "0600")
  /\ pc[d] \in {"publish", "run", "closing"} => accept[d] = "watch"
  /\ Holds(d) /\ Removing(d) => sock = Nobody
  /\ pc[d] = "unlink" /\ sock # Nobody => ~\E e \in Daemons : Holds(e)
SocketStays == Structured => \A d \in Daemons : SocketOf(d)

IInv ==
  /\ TypeOK
  /\ ~Overlap => StartsAlone
  /\ ~Overlap /\ Undisturbed => NoRival /\ FilesStay /\ SocketStays

\* From its bind to the end of its run a daemon has the endpoint to itself
\* (main.rs: a concurrent second process does not take a living Render's place):
\* whatever crashes, cleaners and ends of others it meets.
Owning(d) == pc[d] \in {"chmod", "watch", "publish", "run"}
OneOwner ==
  ~Overlap /\ Undisturbed => \A d, e \in Daemons : Owning(d) /\ Owning(e) => d = e

\* A daemon that runs is announced by its own token and pid: a client that finds
\* the files and the socket talks to the process the files are of.
Announced(d) == file["token"] = d /\ file["pid"] = d
CredentialsMatch ==
  ~Overlap /\ Undisturbed => \A d \in Daemons : pc[d] = "run" => Announced(d)

\* Neither a start nor an end of another process takes the socket of a daemon
\* that runs; only the cleaner does.
OnlyTheCleanerUnlinks ==
  [][Undisturbed' => \A d \in Daemons :
       pc[d] = "run" /\ pc'[d] = "run" /\ sock # Nobody /\ sock' # sock /\ sock.owner = d
         => sock' = Socket(d, "0600") \/ cleans' # cleans]_vars

\* A daemon that runs, is announced, watches its path and is alone becomes
\* reachable again after its socket was taken away, or ends, whoever is launched
\* meanwhile.
Reachable(d) == sock = Socket(d, "0600")
Alone(d) == \A e \in Daemons \ {d} : ~Alive(e)
RecoversSocket ==
  \A d \in Daemons :
    (pc[d] = "run" /\ Announced(d) /\ accept[d] = "watch" /\ sock = Nobody /\ Alone(d))
      ~> (Reachable(d) \/ pc[d] # "run")

\* What the comments claim without these conditions, and the code does not keep.
\* main.rs:113: a second process at the same time never takes the credentials of
\* a living Render.
CredentialsStay == ~Structured => \A d \in Daemons : pc[d] = "run" => Announced(d)

\* wand-structured-renderd/src/main.rs:260: never rotate credentials underneath
\* live runs.
NeverRotated == Structured => \A d \in Daemons : pc[d] = "run" => Announced(d)

\* cleanup and its test: a successor's files survive the end of its predecessor.
MetaMatches == \A d \in Daemons : pc[d] = "run" => file["meta"] = d

\* socket_keepalive.rs: keep the listener reachable when a cleaner unlinks it.
KeptReachable == \A d \in Daemons : pc[d] = "run" ~> (Reachable(d) \/ pc[d] # "run")
=============================================================================
