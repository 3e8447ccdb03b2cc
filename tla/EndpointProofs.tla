---------------------------- MODULE EndpointProofs ----------------------------
(***************************************************************************)
(* What TLAPS proves about Endpoint, for every value of its constants: the *)
(* inductive invariant, that an endpoint has one owner, and that a daemon  *)
(* that runs is announced by its own files.                                *)
(*                                                                         *)
(* Most of it is about the main threads: Advance says how one may move and *)
(* what it saw when it did; Step shows that every step is such a move, or  *)
(* moves nobody.                                                           *)
(***************************************************************************)
EXTENDS Endpoint, TLAPS

Others(x) == \A y \in Daemons : y # x => pc'[y] = pc[y] /\ at'[y] = at[y]
Moves(x, from, to) == pc[x] = from /\ pc'[x] \in to
Waits(x) == at'[x] = at[x]
\* A file is done with, or not yet.
FileStep(x) == at[x] # "done" /\ at'[x] \in {at[x], Following[at[x]]}

Check(x) ==
  \/ Moves(x, "inspect", {"absent", "owned"})
  \/ Moves(x, "absent", {"bind"}) /\ ~LiveOwner
  \/ Moves(x, "owned", {"probe"}) /\ (Structured \/ ~LiveOwner)
  \/ Moves(x, "probe", {"probe again"}) /\ ~Structured
  \/ Moves(x, "probe", {"unlink"}) /\ ~Connects
  \/ Moves(x, "probe again", {"unlink"}) /\ ~Connects
  \/ Moves(x, "unlink", {"bind"}) /\ sock # Nobody

Advance(x) ==
  \/ pc'[x] = "dead" /\ at'[x] = "token"
  \/ /\ Moves(x, "off", {"inspect"}) /\ Waits(x)
     /\ Overlap \/ \A e \in Daemons : pc[e] \notin Starting
  \/ Check(x) /\ Waits(x)
  \/ Moves(x, "bind", {"chmod"}) /\ Waits(x)
  \/ Moves(x, "chmod", {"watch", "publish"}) /\ Waits(x)
  \/ Moves(x, "watch", {"publish"}) /\ Waits(x)
  \/ Moves(x, "publish", {"publish"}) /\ FileStep(x)
  \/ Moves(x, "publish", {"run"}) /\ Waits(x) /\ at[x] = "done"
  \/ Moves(x, "run", {"closing"}) /\ Waits(x)
  \/ Moves(x, "closing", {"cleanup"}) /\ at'[x] = "token"
  \/ Moves(x, "cleanup", {"cleanup", "remove"}) /\ FileStep(x)
  \/ Moves(x, "remove", {"cleanup"}) /\ FileStep(x)

-----------------------------------------------------------------------------
(* Initially. *)

\* Nobody runs and nothing is on disk.
LEMMA InitIInv == ASSUME Init PROVE IInv
<1> USE EndpointAssumption DEF Init
<1>1. TypeOK
  BY DEF TypeOK, Starting, Ending, Files
<1>2. \A d \in Daemons : pc[d] = "off" /\ fd[d] = Nobody /\ at[d] = "token"
  OBVIOUS
<1>3. StartsAlone /\ NoRival
  BY <1>2 DEF StartsAlone, NoRival, Starting, Committed, Holds, Removing
<1>4. FilesStay /\ SocketStays
  BY <1>2 DEF FilesStay, FilesOf, SocketStays, SocketOf, Holds, Removing
<1>5. QED
  BY <1>1, <1>3, <1>4 DEF IInv

-----------------------------------------------------------------------------
(* Types. *)

\* The cleaner's counter stays in range, and a bound socket is a socket.
LEMMA Strikes == \A c \in 0 .. MaxCleans : c < MaxCleans => c + 1 \in 0 .. MaxCleans
BY EndpointAssumption
LEMMA Sockets == \A d \in Daemons, m \in {"0600", "0700"} :
                   Socket(d, m) \in [owner : Daemons, mode : {"0600", "0700"}]
BY DEF Socket

\* The order of the files.
LEMMA Order == \A f \in Files \cup {"done"} : f # "done" => Following[f] \in Files \cup {"done"}
BY DEF Following, Files

\* Every step keeps the types.
LEMMA TypeStep == ASSUME TypeOK, [Next]_vars PROVE TypeOK'
<1> USE EndpointAssumption DEF TypeOK, Starting, Ending, Files, disk, vars
<1>1. ASSUME NEW x \in Daemons, Launch(x) PROVE TypeOK'
  BY <1>1 DEF Launch, Proceed, Goto, Unlinked
<1>2. ASSUME NEW x \in Daemons, Inspect(x) PROVE TypeOK'
  BY <1>2 DEF Inspect, Proceed, Refuse, Die, Goto, Unlinked
<1>3. ASSUME NEW x \in Daemons, CheckAbsent(x) PROVE TypeOK'
  BY <1>3 DEF CheckAbsent, Proceed, Refuse, Die, Goto, Unlinked
<1>4. ASSUME NEW x \in Daemons, CheckOwned(x) PROVE TypeOK'
  BY <1>4 DEF CheckOwned, Proceed, Refuse, Die, Goto, Unlinked
<1>5. ASSUME NEW x \in Daemons, Probe(x) PROVE TypeOK'
  BY <1>5 DEF Probe, Proceed, Refuse, Die, Goto, Unlinked
<1>6. ASSUME NEW x \in Daemons, ProbeAgain(x) PROVE TypeOK'
  BY <1>6 DEF ProbeAgain, Proceed, Refuse, Die, Goto, Unlinked
<1>7. ASSUME NEW x \in Daemons, UnlinkStale(x) PROVE TypeOK'
  BY <1>7 DEF UnlinkStale, Refuse, Die, Goto, Unlinked
<1>8. ASSUME NEW x \in Daemons, BindSocket(x) PROVE TypeOK'
  <2>1. CASE Refuse(x)
    BY <1>8, <2>1 DEF Refuse, Die, Goto, Unlinked
  <2>2. CASE ~Refuse(x)
    BY <1>8, <2>2, Sockets DEF BindSocket, Goto, Unlinked
  <2>3. QED
    BY <2>1, <2>2
<1>9. ASSUME NEW x \in Daemons, ChmodSocket(x) PROVE TypeOK'
  BY <1>9 DEF ChmodSocket, Refuse, Die, Goto, Unlinked
<1>10. ASSUME NEW x \in Daemons, WatchFirst(x) PROVE TypeOK'
  BY <1>10 DEF WatchFirst, Refuse, Die, Goto, Unlinked
<1>11. ASSUME NEW x \in Daemons, OpenFile(x) PROVE TypeOK'
  BY <1>11 DEF OpenFile, Unlinked
<1>12. ASSUME NEW x \in Daemons, FillFile(x) PROVE TypeOK'
  BY <1>12, Order DEF FillFile, Unlinked
<1>13. ASSUME NEW x \in Daemons, RenameFile(x) PROVE TypeOK'
  BY <1>13, Order DEF RenameFile, Unlinked
<1>14. ASSUME NEW x \in Daemons, StartAccepting(x) PROVE TypeOK'
  BY <1>14 DEF StartAccepting, Goto, Unlinked
<1>15. ASSUME NEW x \in Daemons, WatchSocket(x) PROVE TypeOK'
  BY <1>15 DEF WatchSocket, Unlinked
<1>16. ASSUME NEW x \in Daemons, Rebind(x) PROVE TypeOK'
  BY <1>16, Sockets DEF Rebind, MayMaintain, Unlinked
<1>17. ASSUME NEW x \in Daemons, Adopt(x) PROVE TypeOK'
  BY <1>17 DEF Adopt, MayMaintain, Unlinked
<1>18. ASSUME NEW x \in Daemons, Stop(x) PROVE TypeOK'
  BY <1>18 DEF Stop, Goto, Unlinked
<1>19. ASSUME NEW x \in Daemons, RemoveSocket(x) PROVE TypeOK'
  BY <1>19 DEF RemoveSocket, Goto, Unlinked
<1>20. ASSUME NEW x \in Daemons, ReadOwned(x) PROVE TypeOK'
  BY <1>20, Order DEF ReadOwned, Goto, Unlinked
<1>21. ASSUME NEW x \in Daemons, RemoveFile(x) PROVE TypeOK'
  BY <1>21, Order DEF RemoveFile, Goto, Unlinked
<1>22. ASSUME NEW x \in Daemons, Exit(x) PROVE TypeOK'
  BY <1>22 DEF Exit, Die, Goto, Unlinked
<1>23. ASSUME NEW x \in Daemons, Crash(x) PROVE TypeOK'
  BY <1>23 DEF Crash, Die, Goto, Unlinked
<1>24. CASE CleanTmp
  BY <1>24, Strikes DEF CleanTmp
<1>25. CASE UNCHANGED vars
  BY <1>25 DEF vars, Unlinked
<1>26. QED
  BY <1>1, <1>2, <1>3, <1>4, <1>5, <1>6, <1>7, <1>8, <1>9, <1>10, <1>11, <1>12, <1>13, <1>14, <1>15, <1>16, <1>17, <1>18, <1>19, <1>20, <1>21, <1>22, <1>23, <1>24, <1>25 DEF Next, Prepare, Publish, Maintain, Cleanup

-----------------------------------------------------------------------------
(* Every step is a move of one main thread, or of none. *)

LEMMA Dies ==
  ASSUME TypeOK, NEW x \in Daemons, Die(x)
  PROVE  Others(x) /\ Advance(x)
BY DEF Die, Goto, TypeOK, Others, Advance

LEMMA Goes ==
  ASSUME TypeOK, NEW x \in Daemons, NEW where, Goto(x, where), at' = at
  PROVE  Others(x) /\ Waits(x) /\ Moves(x, pc[x], {where})
BY DEF Goto, TypeOK, Others, Waits, Moves

\* A start, up to the bind.
LEMMA StartMoves ==
  ASSUME TypeOK, NEW x \in Daemons, Launch(x) \/ Prepare(x)
  PROVE  program' = program /\ Others(x) /\ Advance(x)
<1>1. CASE Refuse(x)
  BY <1>1, Dies DEF Refuse
<1> SUFFICES ASSUME ~Refuse(x) PROVE program' = program /\ Others(x) /\ Advance(x)
  BY <1>1
<1>2. CASE Launch(x)
  <2>1. Goto(x, "inspect") /\ at' = at /\ program' = program
    BY <1>2 DEF Launch, Proceed
  <2>2. pc[x] = "off" /\ (Overlap \/ \A e \in Daemons : pc[e] \notin Starting)
    BY <1>2 DEF Launch
  <2>3. QED
    BY <2>1, <2>2, Goes DEF Advance, Moves
<1>3. ASSUME NEW where, Proceed(x, where), Moves(x, pc[x], {where}) => Check(x)
      PROVE  program' = program /\ Others(x) /\ Advance(x)
  BY <1>3, Goes DEF Proceed, Advance
<1>4. CASE Inspect(x)
  <2>1. pc[x] = "inspect" /\ (Proceed(x, "absent") \/ Proceed(x, "owned"))
    BY <1>4 DEF Inspect
  <2>2. QED
    BY <1>3, <2>1 DEF Check, Moves
<1>5. CASE CheckAbsent(x)
  <2>1. pc[x] = "absent" /\ ~LiveOwner /\ Proceed(x, "bind")
    BY <1>5 DEF CheckAbsent
  <2>2. QED
    BY <1>3, <2>1 DEF Check, Moves
<1>6. CASE CheckOwned(x)
  <2>1. pc[x] = "owned" /\ (Structured \/ ~LiveOwner) /\ Proceed(x, "probe")
    BY <1>6 DEF CheckOwned
  <2>2. QED
    BY <1>3, <2>1 DEF Check, Moves
<1>7. CASE Probe(x)
  <2>1. /\ pc[x] = "probe"
        /\ \/ ~Connects /\ Proceed(x, "unlink")
           \/ ~Structured /\ Proceed(x, "probe again")
    BY <1>7 DEF Probe
  <2>2. QED
    BY <1>3, <2>1 DEF Check, Moves
<1>8. CASE ProbeAgain(x)
  <2>1. pc[x] = "probe again" /\ ~Connects /\ Proceed(x, "unlink")
    BY <1>8 DEF ProbeAgain
  <2>2. QED
    BY <1>3, <2>1 DEF Check, Moves
<1>9. CASE UnlinkStale(x)
  <2>1. pc[x] = "unlink" /\ sock # Nobody /\ Goto(x, "bind") /\ at' = at /\ program' = program
    BY <1>9 DEF UnlinkStale
  <2>2. QED
    BY <2>1, Goes DEF Check, Moves, Advance
<1>10. QED
  BY <1>2, <1>4, <1>5, <1>6, <1>7, <1>8, <1>9 DEF Prepare

\* From the bind to the run.
LEMMA PublishMoves ==
  ASSUME TypeOK, NEW x \in Daemons, Publish(x)
  PROVE  program' = program /\ Others(x) /\ Advance(x)
<1>1. CASE Refuse(x)
  BY <1>1, Dies DEF Refuse
<1> SUFFICES ASSUME ~Refuse(x) PROVE program' = program /\ Others(x) /\ Advance(x)
  BY <1>1
<1>2. CASE BindSocket(x)
  <2>1. pc[x] = "bind" /\ Goto(x, "chmod") /\ at' = at /\ program' = program
    BY <1>2 DEF BindSocket
  <2>2. QED
    BY <2>1, Goes DEF Moves, Advance
<1>3. CASE ChmodSocket(x)
  <2>1. /\ pc[x] = "chmod" /\ at' = at /\ program' = program
        /\ Goto(x, "watch") \/ Goto(x, "publish")
    BY <1>3 DEF ChmodSocket
  <2>2. QED
    BY <2>1, Goes DEF Moves, Advance
<1>4. CASE WatchFirst(x)
  <2>1. pc[x] = "watch" /\ Goto(x, "publish") /\ at' = at /\ program' = program
    BY <1>4 DEF WatchFirst
  <2>2. QED
    BY <2>1, Goes DEF Moves, Advance
<1>5. CASE OpenFile(x)
  BY <1>5 DEF OpenFile, TypeOK, Others, Advance, Moves, FileStep
<1>6. CASE FillFile(x)
  BY <1>6 DEF FillFile, TypeOK, Others, Advance, Moves, FileStep
<1>7. CASE RenameFile(x)
  BY <1>7 DEF RenameFile, TypeOK, Others, Advance, Moves, FileStep
<1>8. CASE StartAccepting(x)
  <2>1. pc[x] = "publish" /\ at[x] = "done" /\ Goto(x, "run") /\ at' = at /\ program' = program
    BY <1>8 DEF StartAccepting
  <2>2. QED
    BY <2>1, Goes DEF Moves, Advance
<1>9. QED
  BY <1>2, <1>3, <1>4, <1>5, <1>6, <1>7, <1>8 DEF Publish

\* From the run to the end.
LEMMA EndMoves ==
  ASSUME TypeOK, NEW x \in Daemons, Stop(x) \/ Cleanup(x) \/ Crash(x)
  PROVE  program' = program /\ Others(x) /\ Advance(x)
<1>1. CASE Stop(x)
  <2>1. pc[x] = "run" /\ Goto(x, "closing") /\ at' = at /\ program' = program
    BY <1>1 DEF Stop
  <2>2. QED
    BY <2>1, Goes DEF Moves, Advance
<1>2. CASE RemoveSocket(x)
  BY <1>2 DEF RemoveSocket, Goto, TypeOK, Others, Advance, Moves
<1>3. CASE ReadOwned(x)
  <2>1. CASE Goto(x, "remove") /\ at' = at
    BY <1>3, <2>1 DEF ReadOwned, Goto, TypeOK, Others, Advance, Moves, FileStep
  <2>2. CASE pc' = pc /\ at' = [at EXCEPT ![x] = Following[@]]
    BY <1>3, <2>2 DEF ReadOwned, TypeOK, Others, Advance, Moves, FileStep
  <2>3. QED
    BY <1>3, <2>1, <2>2 DEF ReadOwned
<1>4. CASE RemoveFile(x)
  BY <1>4 DEF RemoveFile, Goto, TypeOK, Others, Advance, Moves, FileStep
<1>5. CASE Exit(x) \/ Crash(x)
  BY <1>5, Dies DEF Exit, Crash
<1>6. QED
  BY <1>1, <1>2, <1>3, <1>4, <1>5 DEF Cleanup

LEMMA Step ==
  ASSUME TypeOK, [Next]_vars
  PROVE  /\ program' = program
         /\ UNCHANGED <<pc, at>> \/ \E x \in Daemons : Others(x) /\ Advance(x)
<1>1. ASSUME NEW x \in Daemons, Maintain(x) PROVE program' = program /\ UNCHANGED <<pc, at>>
  BY <1>1 DEF Maintain, WatchSocket, Rebind, Adopt
<1>2. CASE CleanTmp
  BY <1>2 DEF CleanTmp
<1>3. CASE UNCHANGED vars
  BY <1>3 DEF vars
<1>4. QED
  BY <1>1, <1>2, <1>3, StartMoves, PublishMoves, EndMoves DEF Next

-----------------------------------------------------------------------------
(* One start at a time, and one daemon at the endpoint. *)

\* While the launcher waits, one daemon starts at a time.
LEMMA AloneStep ==
  ASSUME TypeOK, ~Overlap, StartsAlone, [Next]_vars
  PROVE  StartsAlone'
<1>1. CASE UNCHANGED <<pc, at>>
  BY <1>1 DEF StartsAlone
<1>2. ASSUME NEW x \in Daemons, Others(x), Advance(x) PROVE StartsAlone'
  <2>1. pc'[x] \in Starting => pc[x] \in Starting \/ \A e \in Daemons : pc[e] \notin Starting
    BY <1>2 DEF Advance, Check, Moves, Starting
  <2>2. QED
    BY <1>2, <2>1 DEF Others, StartsAlone
<1>3. QED
  BY <1>1, <1>2, Step

\* The pid file names whoever holds the endpoint.
LEMMA Answered ==
  ASSUME TypeOK, FilesStay, ~LiveOwner
  PROVE  \A y \in Daemons : ~Holds(y)
BY DEF FilesStay, FilesOf, LiveOwner, Holds, Removing, Alive, Starting, Ending

\* A structured daemon that holds the endpoint answers, or has removed its socket.
LEMMA Listened ==
  ASSUME TypeOK, SocketStays, Structured, ~Connects, sock # Nobody
  PROVE  \A y \in Daemons : ~Holds(y)
<1> SUFFICES ASSUME NEW y \in Daemons, Holds(y) PROVE FALSE
  OBVIOUS
<1>1. SocketOf(y)
  BY DEF SocketStays
<1>2. pc[y] \in {"run", "closing"}
  BY <1>1 DEF SocketOf, Holds
<1>3. sock = Socket(y, "0600") /\ accept[y] = "watch"
  BY <1>1, <1>2 DEF SocketOf
<1>4. Alive(y) /\ sock.owner = y
  BY <1>2, <1>3 DEF Alive, Ending, Socket
<1>5. QED
  BY <1>3, <1>4 DEF Connects

\* A start commits itself only while nobody holds the endpoint.
LEMMA Commits ==
  ASSUME TypeOK, FilesStay, SocketStays, program' = program, NEW x \in Daemons, Advance(x),
         Committed(x)', ~Committed(x)
  PROVE  \A y \in Daemons : ~Holds(y)
<1>1. CASE ~LiveOwner
  BY <1>1, Answered
<1>2. CASE LiveOwner
  <2>1. Structured /\ Moves(x, "unlink", {"bind"}) /\ sock # Nobody
    BY <1>2 DEF Advance, Check, Moves, Committed, Structured
  <2>2. SocketOf(x)
    BY <2>1 DEF SocketStays
  <2>3. QED
    BY <2>1, <2>2 DEF SocketOf, Moves
<1>3. QED
  BY <1>1, <1>2

\* Nobody but a committed start comes to hold the endpoint.
LEMMA Takes ==
  ASSUME TypeOK, program' = program, NEW x \in Daemons, Advance(x), Holds(x)', ~Holds(x)
  PROVE  pc[x] = "publish"
<1>1. CASE Moves(x, "closing", {"cleanup"})
  BY <1>1 DEF Moves, Holds
<1>2. CASE pc[x] \in {"cleanup", "remove"}
  <2>1. at[x] \notin {"token", "pid"}
    BY <1>2 DEF Holds, Removing
  <2>2. at[x] = "meta" \/ at[x] = "done"
    BY <2>1 DEF TypeOK, Files
  <2>3. Following["meta"] = "done"
    BY DEF Following
  <2>4. pc'[x] = "dead" \/ FileStep(x)
    BY <1>2 DEF Advance, Check, Moves
  <2>5. pc'[x] = "dead" \/ at'[x] \in {"meta", "done"}
    BY <2>2, <2>3, <2>4 DEF FileStep
  <2>6. pc'[x] \in {"dead", "cleanup", "remove"}
    BY <1>2 DEF Advance, Check, Moves
  <2>7. QED
    BY <2>5, <2>6 DEF Holds, Removing
<1>3. QED
  BY <1>1, <1>2 DEF Advance, Check, Moves, Holds, Removing

LEMMA RivalStep ==
  ASSUME TypeOK, ~Overlap, StartsAlone, NoRival, FilesStay, SocketStays, [Next]_vars
  PROVE  NoRival'
<1>1. program' = program
  BY Step
<1>2. CASE UNCHANGED <<pc, at>>
  BY <1>1, <1>2 DEF NoRival, Committed, Holds, Removing, Structured
<1>3. ASSUME NEW x \in Daemons, Others(x), Advance(x) PROVE NoRival'
  <2>1. ASSUME NEW y \in Daemons, y # x
        PROVE  (Committed(y)' <=> Committed(y)) /\ (Holds(y)' <=> Holds(y))
    BY <1>1, <1>3, <2>1 DEF Others, Committed, Holds, Removing, Structured
  <2>2. ASSUME Holds(x)', NEW y \in Daemons, y # x PROVE ~Holds(y) /\ ~Committed(y)
    <3>1. CASE Holds(x)
      BY <3>1, <2>2 DEF NoRival
    <3>2. CASE ~Holds(x)
      <4>1. pc[x] = "publish"
        BY <3>2, <2>2, <1>1, <1>3, Takes
      <4>2. ~Holds(y)
        BY <4>1, <2>2 DEF NoRival, Committed
      <4>3. pc[y] \notin Starting
        BY <4>1, <2>2 DEF StartsAlone, Starting
      <4>4. QED
        BY <4>2, <4>3 DEF Committed, Starting
    <3>3. QED
      BY <3>1, <3>2
  <2>3. ASSUME Committed(x)', NEW y \in Daemons, y # x PROVE ~Holds(y)
    BY <1>1, <1>3, <2>3, Commits DEF NoRival
  <2>4. QED
    BY <2>1, <2>2, <2>3 DEF NoRival
<1>4. QED
  BY <1>2, <1>3, Step
-----------------------------------------------------------------------------
(* The files. *)

\* What a step of x may do to the files: it writes while it publishes, it removes
\* when it ends, and an open file of another may lose its name.
Writes(x) ==
  \/ file' = file /\ \A y \in Daemons : y # x => fd'[y] = fd[y]
  \/ pc[x] = "publish" /\ \A y \in Daemons : y # x => fd'[y] = fd[y]
  \/ /\ Removing(x)
     /\ at[x] # "done"
     /\ file' = [file EXCEPT ![at[x]] = Nobody]
     /\ \A y \in Daemons : y # x => fd'[y] = IF fd[y] = at[x] THEN Unlinked ELSE fd[y]

\* The files of the others stay theirs.
LEMMA FilesOfOthers ==
  ASSUME TypeOK, StartsAlone, NoRival, FilesStay,
         program' = program, NEW x \in Daemons, Others(x), Writes(x),
         NEW d \in Daemons, d # x
  PROVE  FilesOf(d)'
<1> USE EndpointAssumption DEF Structured
<1>1. FilesOf(d) /\ pc'[d] = pc[d] /\ at'[d] = at[d]
  BY DEF FilesStay, Others
<1>2. CASE file' = file /\ fd'[d] = fd[d]
  BY <1>1, <1>2 DEF FilesOf, Holds, Removing
<1>3. CASE pc[x] = "publish" /\ fd'[d] = fd[d]
  <2>1. pc[d] \notin Starting /\ ~Holds(d)
    BY <1>3 DEF StartsAlone, Starting, NoRival, Committed
  <2>2. QED
    BY <1>1, <1>3, <2>1 DEF FilesOf, Holds, Removing, Starting
<1>4. CASE /\ Removing(x) /\ at[x] # "done"
           /\ file' = [file EXCEPT ![at[x]] = Nobody]
           /\ fd'[d] = IF fd[d] = at[x] THEN Unlinked ELSE fd[d]
  <2>1. CASE at[x] = "meta"
    <3>1. file'["token"] = file["token"] /\ file'["pid"] = file["pid"]
      BY <1>4, <2>1 DEF TypeOK, Files
    <3>2. fd[d] = Nobody => fd'[d] = Nobody
      BY <1>4, <2>1
    <3>3. QED
      BY <1>1, <1>4, <2>1, <3>1, <3>2 DEF FilesOf, Holds, Removing, Unlinked
  <2>2. CASE at[x] # "meta"
    <3>1. Holds(x)
      BY <1>4, <2>2 DEF Holds, TypeOK, Files
    <3>2. ~Holds(d) /\ pc[d] # "publish"
      BY <3>1 DEF NoRival, Committed
    <3>3. fd[d] = Nobody /\ at[x] # Nobody
      BY <1>1, <1>4, <3>2 DEF FilesOf, TypeOK, Files
    <3>4. fd'[d] = Nobody
      BY <1>4, <3>3
    <3>5. QED
      BY <1>1, <3>2, <3>4 DEF FilesOf, Holds, Removing
  <2>3. QED
    BY <2>1, <2>2
<1>5. QED
  BY <1>2, <1>3, <1>4 DEF Writes

\* A move that leaves the files alone.
LEMMA FilesOfMover ==
  ASSUME TypeOK, FilesStay, program' = program, NEW x \in Daemons, Advance(x),
         ~(pc[x] = "publish" /\ pc'[x] = "publish"),
         file' = file, fd'[x] \in {fd[x], Nobody}, pc'[x] = "dead" => fd'[x] = Nobody
  PROVE  FilesOf(x)'
<1>1. FilesOf(x)
  BY DEF FilesStay
<1>2. CASE pc'[x] = "dead"
  BY <1>2 DEF FilesOf, Holds, Removing, Starting
<1>3. CASE pc[x] \in {"off"} \cup (Starting \ {"publish"}) /\ pc'[x] # "dead"
  <2>1. at[x] = "token" /\ fd[x] = Nobody /\ Waits(x)
    BY <1>1, <1>3 DEF FilesOf, Advance, Check, Moves, Starting
  <2>2. pc'[x] \in Starting
    BY <1>3 DEF Advance, Check, Moves, Starting
  <2>3. QED
    BY <2>1, <2>2 DEF FilesOf, Holds, Removing, Waits, Starting
<1>4. CASE Moves(x, "publish", {"run"}) /\ Waits(x) /\ at[x] = "done"
  BY <1>1, <1>4 DEF FilesOf, Moves, Holds, Removing, Starting
<1>5. CASE Moves(x, "run", {"closing"}) \/ Moves(x, "closing", {"cleanup"})
  BY <1>1, <1>5 DEF FilesOf, Moves, Holds, Removing, Starting
<1>6. CASE Moves(x, pc[x], {"cleanup", "remove"}) /\ Removing(x) /\ FileStep(x)
  <2>1. Following["meta"] = "done" /\ Following["pid"] = "meta" /\ Following["token"] = "pid"
    BY DEF Following
  <2>2. Holds(x)' => Holds(x)
    BY <1>6, <2>1 DEF Holds, Removing, FileStep, TypeOK, Files, Moves
  <2>3. QED
    BY <1>1, <1>6, <2>2 DEF FilesOf, Moves, Removing, Starting
<1>7. QED
  BY <1>2, <1>3, <1>4, <1>5, <1>6 DEF Advance, Check, Moves, Removing, Starting

\* The four steps that touch the files.
LEMMA FilesOfWriter ==
  ASSUME TypeOK, FilesStay, NEW x \in Daemons,
         OpenFile(x) \/ FillFile(x) \/ RenameFile(x) \/ RemoveFile(x)
  PROVE  FilesOf(x)' /\ Others(x) /\ Writes(x)
<1> USE EndpointAssumption DEF Structured
<1>1. FilesOf(x) /\ at[x] \in Files
  BY DEF FilesStay, OpenFile, FillFile, RenameFile, RemoveFile, TypeOK
<1>2. Following["meta"] = "done" /\ Following["pid"] = "meta" /\ Following["token"] = "pid"
  BY DEF Following
<1>3. CASE OpenFile(x)
  <2>1. FilesOf(x)'
    BY <1>1, <1>3 DEF OpenFile, FilesOf, TypeOK, Files, Holds, Removing, Starting
  <2>2. QED
    BY <1>3, <2>1 DEF OpenFile, TypeOK, Others, Writes
<1>4. CASE FillFile(x)
  <2>1. fd'[x] = Nobody /\ at'[x] = Following[at[x]] /\ pc' = pc
    BY <1>4 DEF FillFile, TypeOK
  <2>2. \A f \in Files : file'[f] = IF f = at[x] /\ fd[x] # Unlinked THEN x ELSE file[f]
    BY <1>1, <1>4 DEF FillFile, FilesOf, TypeOK, Unlinked, Files
  <2>3. fd[x] = Unlinked => at[x] = "meta"
    BY <1>1, <1>4 DEF FillFile, FilesOf, Files, Unlinked
  <2>4. FilesOf(x)'
    BY <1>1, <1>2, <1>4, <2>1, <2>2, <2>3 DEF FillFile, FilesOf, Files, Holds, Removing, Starting
  <2>5. QED
    BY <1>4, <2>4 DEF FillFile, TypeOK, Others, Writes
<1>5. CASE RenameFile(x)
  <2>1. fd'[x] = fd[x] /\ at'[x] = Following[at[x]] /\ pc' = pc
    BY <1>5 DEF RenameFile, TypeOK
  <2>2. \A f \in Files : file'[f] = IF f = at[x] THEN x ELSE file[f]
    BY <1>1, <1>5 DEF RenameFile, TypeOK
  <2>3. FilesOf(x)'
    BY <1>1, <1>2, <1>5, <2>1, <2>2 DEF RenameFile, FilesOf, Files, Holds, Removing, Starting
  <2>4. QED
    BY <1>5, <2>3 DEF RenameFile, TypeOK, Others, Writes
<1>6. CASE RemoveFile(x)
  <2>1. /\ at'[x] = Following[at[x]] /\ pc'[x] = "cleanup" /\ Removing(x)
        /\ \A f \in Files : f # at[x] => file'[f] = file[f]
        /\ fd'[x] = IF fd[x] = at[x] THEN Unlinked ELSE fd[x]
    BY <1>6 DEF RemoveFile, Goto, TypeOK, Removing
  <2>2. fd'[x] = Nobody
    BY <1>1, <2>1 DEF FilesOf, Removing, Files
  <2>3. FilesOf(x)'
    BY <1>1, <1>2, <2>1, <2>2 DEF FilesOf, Files, Holds, Removing, Starting
  <2>4. QED
    BY <1>6, <2>1, <2>3 DEF RemoveFile, Goto, TypeOK, Others, Writes
<1>7. QED
  BY <1>3, <1>4, <1>5, <1>6

\* Nobody writes or removes what a daemon that publishes, runs or ends has written.
LEMMA FilesStep ==
  ASSUME TypeOK, StartsAlone, NoRival, FilesStay, [Next]_vars
  PROVE  FilesStay'
<1> program' = program
  BY Step
<1>1. ASSUME NEW x \in Daemons, OpenFile(x) \/ FillFile(x) \/ RenameFile(x) \/ RemoveFile(x)
      PROVE  FilesStay'
  BY <1>1, FilesOfWriter, FilesOfOthers DEF FilesStay
<1>2. ASSUME NEW x \in Daemons, Others(x), Advance(x), Writes(x), file' = file,
             ~(pc[x] = "publish" /\ pc'[x] = "publish"),
             fd'[x] \in {fd[x], Nobody}, pc'[x] = "dead" => fd'[x] = Nobody
      PROVE  FilesStay'
  BY <1>2, FilesOfMover, FilesOfOthers DEF FilesStay
<1>3. ASSUME NEW x \in Daemons, Others(x), Advance(x), file' = file, Die(x) \/ fd' = fd,
             pc'[x] = "dead" => Die(x), ~(pc[x] = "publish" /\ pc'[x] = "publish")
      PROVE  FilesStay'
  <2>1. Writes(x) /\ fd'[x] \in {fd[x], Nobody} /\ (pc'[x] = "dead" => fd'[x] = Nobody)
    BY <1>3 DEF Writes, Die, TypeOK
  <2>2. QED
    BY <1>2, <1>3, <2>1
<1>4. CASE UNCHANGED <<pc, at, file, fd>>
  BY <1>4 DEF FilesStay, FilesOf, Holds, Removing, Structured
<1>5. ASSUME NEW x \in Daemons, Launch(x) \/ Prepare(x) PROVE FilesStay'
  <2>1. /\ file' = file /\ (Die(x) \/ fd' = fd) /\ (pc'[x] = "dead" => Die(x))
        /\ pc[x] # "publish"
    <3>1. CASE Refuse(x)
      BY <1>5, <3>1 DEF Refuse, disk, Launch, Prepare, Inspect, CheckAbsent, CheckOwned,
                        Probe, ProbeAgain, UnlinkStale
    <3>2. CASE ~Refuse(x)
      BY <1>5, <3>2 DEF disk, Launch, Prepare, Inspect, CheckAbsent, CheckOwned, Probe,
                        ProbeAgain, UnlinkStale, Proceed, Goto, TypeOK
    <3>3. QED
      BY <3>1, <3>2
  <2>2. QED
    BY <1>3, <1>5, <2>1, StartMoves
<1>6. ASSUME NEW x \in Daemons,
             BindSocket(x) \/ ChmodSocket(x) \/ WatchFirst(x) \/ StartAccepting(x)
      PROVE  FilesStay'
  <2>1. /\ file' = file /\ (Die(x) \/ fd' = fd) /\ (pc'[x] = "dead" => Die(x))
        /\ ~(pc[x] = "publish" /\ pc'[x] = "publish")
    <3>1. CASE Refuse(x)
      BY <1>6, <3>1 DEF Refuse, Die, Goto, TypeOK, disk
    <3>2. CASE ~Refuse(x)
      BY <1>6, <3>2 DEF disk, BindSocket, ChmodSocket, WatchFirst, StartAccepting, Goto, TypeOK
    <3>3. QED
      BY <3>1, <3>2
  <2>2. QED
    BY <1>3, <1>6, <2>1, PublishMoves DEF Publish
<1>7. ASSUME NEW x \in Daemons, Stop(x) \/ RemoveSocket(x) \/ ReadOwned(x) PROVE FilesStay'
  <2>1. file' = file /\ fd' = fd /\ pc'[x] # "dead" /\ pc'[x] # "publish"
    BY <1>7 DEF Stop, RemoveSocket, ReadOwned, Goto, disk, TypeOK
  <2>2. QED
    BY <1>3, <1>7, <2>1, EndMoves DEF Cleanup
<1>8. ASSUME NEW x \in Daemons, Exit(x) \/ Crash(x) PROVE FilesStay'
  <2>1. file' = file /\ Die(x) /\ pc'[x] = "dead"
    BY <1>8 DEF Exit, Crash, Die, Goto, disk, TypeOK
  <2>2. QED
    BY <1>3, <1>8, <2>1, EndMoves DEF Cleanup
<1>9. ASSUME NEW x \in Daemons, Maintain(x) PROVE FilesStay'
  BY <1>4, <1>9 DEF Maintain, WatchSocket, Rebind, Adopt, disk
<1>10. CASE CleanTmp
  BY <1>4, <1>10 DEF CleanTmp
<1>11. CASE UNCHANGED vars
  BY <1>4, <1>11 DEF vars, disk
<1>12. QED
  BY <1>1, <1>5, <1>6, <1>7, <1>8, <1>9, <1>10, <1>11 DEF Next, Publish, Cleanup

-----------------------------------------------------------------------------
(* The socket of a structured daemon, while the cleaner does not strike. *)

\* What a step of x may do to the socket: a committed start makes its own, a
\* probed one removes a dead one, an end removes its own.
Rebinds(x) ==
  /\ \A y \in Daemons : y # x => accept'[y] = accept[y]
  /\ \/ sock' = sock
     \/ pc[x] \in {"bind", "chmod"}
     \/ pc[x] = "unlink" /\ sock # Nobody /\ sock' = Nobody
     \/ pc[x] = "closing" /\ sock' = Nobody

\* The sockets of the others stay theirs.
LEMMA SocketOfOthers ==
  ASSUME TypeOK, Structured, StartsAlone, NoRival, SocketStays, program' = program,
         NEW x \in Daemons, Others(x), Advance(x), Rebinds(x), NEW d \in Daemons, d # x
  PROVE  SocketOf(d)'
<1>1. /\ SocketOf(d) /\ pc'[d] = pc[d] /\ at'[d] = at[d] /\ accept'[d] = accept[d]
      /\ (Holds(d)' <=> Holds(d))
  BY DEF SocketStays, Others, Rebinds, Holds, Removing
<1>2. ASSUME pc[d] = "unlink", sock' = sock, sock # Nobody, NEW e \in Daemons PROVE ~Holds(e)'
  <2>1. ~Holds(e)
    BY <1>1, <1>2 DEF SocketOf
  <2>2. CASE e # x
    BY <2>1, <2>2 DEF Others, Holds, Removing
  <2>3. CASE e = x
    <3>1. pc[x] # "publish"
      BY <1>2 DEF StartsAlone, Starting
    <3>2. QED
      BY <2>1, <2>3, <3>1, Takes
  <2>4. QED
    BY <2>2, <2>3
<1>3. CASE sock' = sock
  BY <1>1, <1>2, <1>3 DEF SocketOf, Removing
<1>4. CASE pc[x] \in {"bind", "chmod"}
  <2>1. pc[d] \notin Starting /\ ~Holds(d)
    BY <1>4 DEF StartsAlone, Starting, NoRival, Committed
  <2>2. QED
    BY <1>1, <2>1 DEF SocketOf, Starting, Holds
<1>5. CASE pc[x] = "unlink" /\ sock # Nobody /\ sock' = Nobody
  <2>1. pc[d] \notin Starting
    BY <1>5 DEF StartsAlone, Starting
  <2>2. ~Holds(d)
    BY <1>5 DEF SocketStays, SocketOf
  <2>3. QED
    BY <1>1, <2>1, <2>2 DEF SocketOf, Starting, Holds
<1>6. CASE pc[x] = "closing" /\ sock' = Nobody
  <2>1. Holds(x)
    BY <1>6 DEF Holds
  <2>2. ~Holds(d) /\ ~Committed(d)
    BY <2>1 DEF NoRival
  <2>3. QED
    BY <1>1, <1>6, <2>2 DEF SocketOf, Committed, Holds
<1>7. QED
  BY <1>3, <1>4, <1>5, <1>6 DEF Rebinds

\* A move that leaves the socket alone, and is not a start's chmod or bind.
LEMMA SocketOfMover ==
  ASSUME TypeOK, Structured, SocketStays, program' = program, NEW x \in Daemons, Others(x),
         Advance(x), sock' = sock, accept'[x] = accept[x] \/ pc'[x] = "dead",
         pc[x] \notin {"bind", "chmod", "watch", "closing"} \/ pc'[x] = "dead"
  PROVE  SocketOf(x)'
<1>1. SocketOf(x)
  BY DEF SocketStays
<1>2. CASE pc'[x] = "dead"
  BY <1>2 DEF SocketOf, Holds, Removing
<1>3. CASE Check(x) /\ Waits(x)
  <2>1. CASE Moves(x, pc[x], {"unlink"}) /\ ~Connects
    <3>1. sock # Nobody => \A y \in Daemons : ~Holds(y)
      BY <2>1, Listened
    <3>2. sock # Nobody => \A y \in Daemons : ~Holds(y)'
      BY <2>1, <3>1 DEF Others, Moves, Holds, Removing
    <3>3. QED
      BY <2>1, <3>2 DEF SocketOf, Moves, Holds, Removing
  <2>2. CASE pc'[x] \in {"absent", "owned", "bind", "probe", "probe again"}
    BY <2>2 DEF SocketOf, Holds, Removing
  <2>3. QED
    BY <1>3, <2>1, <2>2 DEF Check, Moves
<1>4. CASE Moves(x, "off", {"inspect"})
  BY <1>4 DEF SocketOf, Moves, Holds, Removing
<1>5. CASE /\ pc[x] \in {"publish", "run"} /\ pc'[x] \in {"publish", "run", "closing"}
           /\ accept'[x] = accept[x]
  BY <1>1, <1>5 DEF SocketOf, Holds, Removing
<1>6. CASE Removing(x) /\ Removing(x)' /\ FileStep(x)
  <2>1. Following["meta"] = "done" /\ Following["pid"] = "meta" /\ Following["token"] = "pid"
    BY DEF Following
  <2>2. Holds(x)' => Holds(x)
    BY <1>6, <2>1 DEF Holds, Removing, FileStep, TypeOK, Files
  <2>3. QED
    BY <1>1, <1>6, <2>2 DEF SocketOf, Removing
<1>7. QED
  BY <1>2, <1>3, <1>4, <1>5, <1>6 DEF Advance, Moves, Removing

\* The steps that touch the socket, or the listener.
LEMMA SocketOfBinder ==
  ASSUME TypeOK, Structured, SocketStays, NEW x \in Daemons,
         \/ UnlinkStale(x) \/ BindSocket(x) \/ ChmodSocket(x) \/ WatchFirst(x)
         \/ RemoveSocket(x),
         pc'[x] # "dead"
  PROVE  SocketOf(x)' /\ Rebinds(x)
<1>1. SocketOf(x) /\ ~Refuse(x)
  BY DEF SocketStays, Refuse, Die, Goto, TypeOK
<1>2. CASE UnlinkStale(x)
  <2>1. pc[x] = "unlink" /\ sock # Nobody /\ sock' = Nobody /\ pc'[x] = "bind" /\ accept' = accept
    BY <1>1, <1>2 DEF UnlinkStale, Goto, TypeOK
  <2>2. QED
    BY <2>1 DEF SocketOf, Holds, Removing, Rebinds
<1>3. CASE BindSocket(x)
  <2>1. pc[x] = "bind" /\ sock' = Socket(x, "0700") /\ pc'[x] = "chmod" /\ accept' = accept
    BY <1>1, <1>3 DEF BindSocket, Goto, TypeOK
  <2>2. QED
    BY <2>1 DEF SocketOf, Holds, Removing, Rebinds
<1>4. CASE ChmodSocket(x)
  <2>1. /\ pc[x] = "chmod" /\ sock' = [sock EXCEPT !.mode = "0600"] /\ pc'[x] = "watch"
        /\ accept' = accept
    BY <1>1, <1>4 DEF ChmodSocket, Goto, TypeOK
  <2>2. sock' = Socket(x, "0600")
    BY <1>1, <2>1 DEF SocketOf, Socket
  <2>3. QED
    BY <2>1, <2>2 DEF SocketOf, Holds, Removing, Rebinds
<1>5. CASE WatchFirst(x)
  <2>1. /\ pc[x] = "watch" /\ sock' = sock /\ pc'[x] = "publish" /\ accept'[x] = "watch"
        /\ \A y \in Daemons : y # x => accept'[y] = accept[y]
    BY <1>1, <1>5 DEF WatchFirst, Goto, TypeOK, disk
  <2>2. QED
    BY <1>1, <2>1 DEF SocketOf, Holds, Removing, Rebinds
<1>6. CASE RemoveSocket(x)
  <2>1. pc[x] = "closing" /\ sock' = Nobody /\ pc'[x] = "cleanup" /\ accept' = accept
    BY <1>6 DEF RemoveSocket, Goto, TypeOK
  <2>2. QED
    BY <2>1 DEF SocketOf, Holds, Removing, Rebinds
<1>7. QED
  BY <1>2, <1>3, <1>4, <1>5, <1>6

\* The listener of a structured daemon finds nothing to do.
LEMMA NothingToMaintain ==
  ASSUME TypeOK, Structured, SocketStays, NEW x \in Daemons, Maintain(x)
  PROVE  /\ UNCHANGED <<program, sock, pc, at>>
         /\ \A y \in Daemons : pc[y] \in {"publish", "run", "closing"} => accept'[y] = accept[y]
<1>1. SocketOf(x)
  BY DEF SocketStays
<1>2. CASE WatchSocket(x)
  <2>1. pc[x] \notin {"publish", "run", "closing"}
    BY <1>1, <1>2 DEF WatchSocket, SocketOf
  <2>2. QED
    BY <1>2, <2>1 DEF WatchSocket, disk, TypeOK
<1>3. ~Rebind(x)
  <2>1. Socket(x, "0600") # Nobody
    BY EndpointAssumption, Sockets
  <2>2. QED
    BY <1>1, <2>1 DEF Rebind, MayMaintain, SocketOf
<1>4. ~Adopt(x)
  BY <1>1 DEF Adopt, MayMaintain, SocketOf
<1>5. QED
  BY <1>2, <1>3, <1>4 DEF Maintain

LEMMA SocketStep ==
  ASSUME TypeOK, StartsAlone, NoRival, SocketStays, [Next]_vars, ~CleanTmp
  PROVE  SocketStays'
<1> SUFFICES ASSUME Structured PROVE \A d \in Daemons : SocketOf(d)'
  <2>1. Structured' <=> Structured
    BY Step DEF Structured
  <2>2. QED
    BY <2>1 DEF SocketStays
<1>1. ASSUME NEW x \in Daemons, Others(x), Advance(x), program' = program,
             SocketOf(x)', Rebinds(x)
      PROVE  \A d \in Daemons : SocketOf(d)'
  BY <1>1, SocketOfOthers
<1>2. ASSUME NEW x \in Daemons, Others(x), Advance(x), program' = program, sock' = sock,
             accept' = accept \/ Die(x),
             pc[x] \notin {"bind", "chmod", "watch", "closing"} \/ pc'[x] = "dead",
             Die(x) => pc'[x] = "dead"
      PROVE  \A d \in Daemons : SocketOf(d)'
  <2>1. Rebinds(x) /\ (accept'[x] = accept[x] \/ pc'[x] = "dead")
    BY <1>2 DEF Rebinds, Die, TypeOK
  <2>2. QED
    BY <1>1, <1>2, <2>1, SocketOfMover
<1>3. CASE UNCHANGED <<sock, pc, at>> /\ program' = program
           /\ \A y \in Daemons : pc[y] \in {"publish", "run", "closing"} => accept'[y] = accept[y]
  BY <1>3 DEF SocketStays, SocketOf, Holds, Removing
<1>4. ASSUME NEW x \in Daemons, Refuse(x) \/ Exit(x) \/ Crash(x)
      PROVE  \A d \in Daemons : SocketOf(d)'
  <2>1. Die(x) /\ pc'[x] = "dead" /\ sock' = sock /\ program' = program
    BY <1>4 DEF Refuse, Exit, Crash, Die, Goto, disk, TypeOK
  <2>2. QED
    BY <1>2, <2>1, Dies
<1>5. ASSUME NEW x \in Daemons, ~Refuse(x),
             UnlinkStale(x) \/ BindSocket(x) \/ ChmodSocket(x) \/ WatchFirst(x) \/ RemoveSocket(x)
      PROVE  \A d \in Daemons : SocketOf(d)'
  <2>1. pc'[x] # "dead"
    BY <1>5 DEF UnlinkStale, BindSocket, ChmodSocket, WatchFirst, RemoveSocket, Goto, TypeOK
  <2>2. program' = program /\ Others(x) /\ Advance(x)
    BY <1>5, StartMoves, PublishMoves, EndMoves DEF Prepare, Publish, Cleanup
  <2>3. QED
    BY <1>1, <1>5, <2>1, <2>2, SocketOfBinder
<1>6. ASSUME NEW x \in Daemons, ~Refuse(x),
             \/ Launch(x) \/ Inspect(x) \/ CheckAbsent(x) \/ CheckOwned(x)
             \/ Probe(x) \/ ProbeAgain(x)
      PROVE  \A d \in Daemons : SocketOf(d)'
  <2>1. /\ sock' = sock /\ accept' = accept /\ pc'[x] # "dead"
        /\ pc[x] \notin {"bind", "chmod", "watch", "closing"}
    BY <1>6 DEF Launch, Inspect, CheckAbsent, CheckOwned, Probe, ProbeAgain, Proceed, Goto,
                disk, TypeOK
  <2>2. program' = program /\ Others(x) /\ Advance(x)
    BY <1>6, StartMoves DEF Prepare
  <2>3. ~Die(x)
    BY <2>1 DEF Die, Goto, TypeOK
  <2>4. QED
    BY <1>2, <2>1, <2>2, <2>3
<1>7. ASSUME NEW x \in Daemons,
             \/ OpenFile(x) \/ FillFile(x) \/ RenameFile(x) \/ StartAccepting(x)
             \/ Stop(x) \/ ReadOwned(x) \/ RemoveFile(x)
      PROVE  \A d \in Daemons : SocketOf(d)'
  <2>1. /\ sock' = sock /\ pc'[x] # "dead"
        /\ pc[x] \notin {"bind", "chmod", "watch", "closing"}
    BY <1>7 DEF OpenFile, FillFile, RenameFile, StartAccepting, Stop, ReadOwned, RemoveFile,
                Goto, disk, TypeOK
  <2>2. accept' = accept
    BY <1>7 DEF OpenFile, FillFile, RenameFile, StartAccepting, Stop, ReadOwned, RemoveFile, TypeOK
  <2>3. program' = program /\ Others(x) /\ Advance(x)
    BY <1>7, PublishMoves, EndMoves DEF Publish, Cleanup
  <2>4. ~Die(x)
    BY <2>1 DEF Die, Goto, TypeOK
  <2>5. QED
    BY <1>2, <2>1, <2>2, <2>3, <2>4
<1>8. ASSUME NEW x \in Daemons, Maintain(x) PROVE \A d \in Daemons : SocketOf(d)'
  BY <1>3, <1>8, NothingToMaintain
<1>9. CASE UNCHANGED vars
  BY <1>3, <1>9 DEF vars, disk
<1>10. QED
  BY <1>4, <1>5, <1>6, <1>7, <1>8, <1>9 DEF Next, Prepare, Publish, Cleanup

-----------------------------------------------------------------------------
(* The invariant, and what follows from it. *)

\* Who is undisturbed after a step was so before it, and the cleaner did not strike.
LEMMA StaysUndisturbed ==
  ASSUME TypeOK, [Next]_vars, Undisturbed'
  PROVE  Undisturbed /\ (Structured => ~CleanTmp)
<1>1. program' = program
  BY Step
<1>2. cleans' = cleans \/ (CleanTmp /\ cleans' = cleans + 1)
  BY DEF Next, vars, Launch, Prepare, Inspect, CheckAbsent, CheckOwned, Probe, ProbeAgain,
         UnlinkStale, Publish, BindSocket, ChmodSocket, WatchFirst, OpenFile, FillFile,
         RenameFile, StartAccepting, Maintain, WatchSocket, Rebind, Adopt, Stop, Cleanup,
         RemoveSocket, ReadOwned, RemoveFile, Exit, Crash, CleanTmp, Proceed, Refuse
<1>3. CleanTmp => cleans' = cleans + 1
  BY DEF CleanTmp
<1>4. QED
  BY <1>1, <1>2, <1>3, EndpointAssumption DEF Undisturbed, Structured, TypeOK

LEMMA StepIInv == ASSUME IInv, [Next]_vars PROVE IInv'
<1>1. TypeOK'
  BY TypeStep DEF IInv
<1>2. ~Overlap => StartsAlone'
  BY AloneStep DEF IInv
<1>3. ASSUME ~Overlap, Undisturbed' PROVE NoRival' /\ FilesStay' /\ SocketStays'
  <2>1. Undisturbed /\ (Structured => ~CleanTmp)
    BY <1>3, StaysUndisturbed DEF IInv
  <2>2. TypeOK /\ StartsAlone /\ NoRival /\ FilesStay /\ SocketStays
    BY <1>3, <2>1 DEF IInv
  <2>3. NoRival' /\ FilesStay'
    BY <1>3, <2>2, RivalStep, FilesStep
  <2>4. CASE CleanTmp
    BY <2>1, <2>3, <2>4 DEF CleanTmp, SocketStays, Structured
  <2>5. QED
    BY <2>2, <2>3, <2>4, SocketStep
<1>4. QED
  BY <1>1, <1>2, <1>3 DEF IInv

\* The inductive invariant: while starts are made one at a time, and for
\* wand-structured-renderd without strikes of the cleaner, a start commits itself only
\* while nobody holds the endpoint, and whoever holds it finds its files as it
\* wrote them.
THEOREM Invariance == Spec => []IInv
<1>1. Init => IInv
  BY InitIInv
<1>2. IInv /\ [Next]_vars => IInv'
  BY StepIInv
<1>3. QED
  BY <1>1, <1>2, PTL DEF Spec

\* From its bind to the end of its run a daemon has the endpoint to itself: no two
\* processes of a configuration own the socket (prepare_endpoint in both main.rs).
THEOREM EndpointHasOneOwner == Spec => []OneOwner
<1>1. IInv => OneOwner
  BY DEF IInv, OneOwner, Owning, StartsAlone, Starting, NoRival, Committed, Holds
<1>2. QED
  BY <1>1, Invariance, PTL

\* A daemon that runs is announced by its own token and pid, whoever else was
\* started, ended or killed.
THEOREM RunningIsAnnounced == Spec => []CredentialsMatch
<1>1. IInv => CredentialsMatch
  BY DEF IInv, CredentialsMatch, Announced, FilesStay, FilesOf, Holds
<1>2. QED
  BY <1>1, Invariance, PTL

\* One step at the socket of a daemon that runs.
LEMMA KeepsSocket ==
  ASSUME IInv, ~Overlap, [Next]_vars, Undisturbed', NEW d \in Daemons,
         pc[d] = "run", pc'[d] = "run", sock # Nobody, sock' # sock, sock.owner = d
  PROVE  sock' = Socket(d, "0600") \/ cleans' # cleans
<1>1. TypeOK /\ NoRival /\ SocketStays
  BY StaysUndisturbed DEF IInv
<1>2. Holds(d)
  BY DEF Holds
<1>3. ASSUME NEW x \in Daemons, ChmodSocket(x) PROVE FALSE
  BY <1>1, <1>2, <1>3 DEF ChmodSocket, NoRival, Committed
<1>4. ASSUME NEW x \in Daemons, UnlinkStale(x) PROVE FALSE
  <2>1. CASE Structured
    BY <1>1, <1>2, <1>4, <2>1 DEF UnlinkStale, SocketStays, SocketOf
  <2>2. CASE ~Structured
    BY <1>1, <1>2, <1>4, <2>2 DEF UnlinkStale, NoRival, Committed
  <2>3. QED
    BY <2>1, <2>2
<1>5. ASSUME NEW x \in Daemons, RemoveSocket(x) PROVE FALSE
  <2>1. pc[x] = "closing" /\ pc'[x] = "cleanup" /\ Holds(x)
    BY <1>1, <1>5 DEF RemoveSocket, Goto, TypeOK, Holds
  <2>2. QED
    BY <1>1, <1>2, <2>1 DEF NoRival
<1>6. ASSUME NEW x \in Daemons, Adopt(x) PROVE sock' = Socket(d, "0600")
  <2>1. sock' = [sock EXCEPT !.mode = "0600"]
    BY <1>6 DEF Adopt
  <2>2. sock \in [owner : Daemons, mode : {"0600", "0700"}]
    BY <1>1 DEF TypeOK
  <2>3. QED
    BY <2>1, <2>2 DEF Socket
<1>7. CASE CleanTmp
  BY <1>1, <1>7, EndpointAssumption DEF CleanTmp, TypeOK
<1>8. ASSUME NEW x \in Daemons, Refuse(x) PROVE FALSE
  BY <1>8 DEF Refuse, disk
<1>9. QED
  BY <1>3, <1>4, <1>5, <1>6, <1>7, <1>8
     DEF Next, vars, disk, Launch, Prepare, Inspect, CheckAbsent, CheckOwned, Probe, ProbeAgain,
         Publish, BindSocket, WatchFirst, OpenFile, FillFile, RenameFile, StartAccepting,
         Maintain, WatchSocket, Rebind, Stop, Cleanup, ReadOwned, RemoveFile, Exit, Crash,
         Proceed

\* Neither a start nor an end of another process takes the socket of a daemon that
\* runs, while starts are made one at a time.
THEOREM SocketStaysWithItsOwner == ASSUME ~Overlap PROVE Spec => OnlyTheCleanerUnlinks
<1>1. IInv /\ [Next]_vars =>
        [Undisturbed' => \A d \in Daemons :
           pc[d] = "run" /\ pc'[d] = "run" /\ sock # Nobody /\ sock' # sock /\ sock.owner = d
             => sock' = Socket(d, "0600") \/ cleans' # cleans]_vars
  BY KeepsSocket
<1>2. QED
  BY <1>1, Invariance, PTL DEF Spec, OnlyTheCleanerUnlinks
=============================================================================
