----------------------- MODULE StructuredRegistryProofs -----------------------
(* What TLAPS proves about StructuredRegistry, for every value of its constants. *)
EXTENDS StructuredRegistry, FiniteSetTheorems, TLAPS

-----------------------------------------------------------------------------
(* The invariant. *)

\* A thread between spawn's test and its insertion holds the lock, and what it
\* tested still holds.
SpawnInv ==
  \A t \in Threads : pc[t] = "spawn" =>
    /\ t \in Clients /\ lock = t
    /\ target[t] \in Ids /\ runs[target[t]] = Nil
    /\ Cardinality(Admitted) < Capacity

CapacityInv == IsFiniteSet(Admitted) /\ WithinCapacity

\* A run is marked after its child ended.
LifeInv == \A r \in Runs : child[r] \in Alive \cup {"unborn"} => status[r] = "running"

\* The ids of registered runs that nobody killed.
Spared == {i \in Ids : runs[i] # Nil /\ child[runs[i]] \in Alive \ {"killed"}}

\* No spawn is under way and none can begin.
Sealed == draining /\ lock = Free

\* What stop_now has to account for: until it is through, a run it spared so far
\* is still on its list, or in its hand.
NowInv ==
  /\ \A t \in Threads : pc[t] \in {"list", "next"} => request[t] = "now"
  /\ \A t \in Threads : pc[t] = "list" => draining
  /\ \A t \in Threads : request[t] = "now" /\ pc[t] \in {"next", "kill"} =>
       /\ Sealed
       /\ \A i \in Spared : i \in victims[t] \/ (pc[t] = "kill" /\ handle[t] = runs[i])
  /\ stopped => Sealed /\ Spared = {}
  /\ shutdown = 2 => stopped
  /\ pc[Main] = "exited" => Spared = {}

IInv == TypeOK /\ SpawnInv /\ CapacityInv /\ LifeInv /\ NowInv

-----------------------------------------------------------------------------
(* Initially. *)

\* The daemon starts without runs and without a shutdown.
LEMMA InitIInv == ASSUME Init PROVE IInv
<1> USE StructuredAssumption DEF Init, Threads
<1>1. TypeOK
  <2>1. /\ runs \in [Ids -> Runs \cup {Nil}] /\ lock \in Clients \cup {Free}
        /\ draining \in BOOLEAN /\ stopped \in BOOLEAN
        /\ shutdown \in 0 .. 2 /\ pending \in 0 .. 2
    <3>1. draining \in BOOLEAN /\ stopped \in BOOLEAN
      BY Zenon
    <3>2. shutdown \in 0 .. 2 /\ pending \in 0 .. 2
      <4>1. shutdown = 0 /\ pending = 0
        BY Zenon
      <4> HIDE DEF Init
      <4>2. QED
        BY <4>1
    <3>3. QED
      BY <3>1, <3>2
  <2>2. /\ status \in [Runs -> {"running", "exited"}] /\ pipes \in [Runs -> {"open", "closed"}]
        /\ child \in [Runs -> Alive \cup {"unborn", "failed", "reaped"}]
    OBVIOUS
  <2>3. /\ pc \in [Threads -> Steps] /\ request \in [Threads -> Requests]
        /\ target \in [Threads -> Ids \cup {Nil}] /\ handle \in [Threads -> Runs \cup {Nil}]
        /\ victims \in [Threads -> SUBSET Ids]
    BY DEF Steps, Requests
  <2>4. QED
    BY <2>1, <2>2, <2>3 DEF TypeOK
<1>2. Admitted = {} /\ Cardinality({}) = 0 /\ IsFiniteSet({})
  BY FS_EmptySet DEF Admitted
<1>3. SpawnInv /\ LifeInv /\ CapacityInv
  BY <1>2 DEF SpawnInv, LifeInv, CapacityInv, WithinCapacity
<1>4. NowInv
  <2>1. Spared = {}
    BY DEF Spared
  <2>2. QED
    BY <2>1 DEF NowInv
<1>5. QED
  BY <1>1, <1>3, <1>4 DEF IInv

-----------------------------------------------------------------------------
(* Every step. *)

\* Types, and a thread that is about to signal holds a run.
LEMMA NextType ==
  ASSUME TypeOK, [Next]_vars
  PROVE  TypeOK'
<1> USE StructuredAssumption DEF TypeOK, runVars, daemonVars, threadVars, Threads, Alive, Steps, Requests, At, Up
<1>1. ASSUME NEW t \in Threads, NEW i \in Ids, SpawnBegin(t, i) PROVE TypeOK'
  BY <1>1 DEF SpawnBegin, Begin, Admissible
<1>2. ASSUME NEW t \in Threads, NEW r \in Runs, SpawnInsert(t, r) PROVE TypeOK'
  BY <1>2 DEF SpawnInsert, Finish
<1>3. ASSUME NEW t \in Threads, NEW r \in Runs, SpawnFails(t, r) PROVE TypeOK'
  BY <1>3 DEF SpawnFails, Finish
<1>4. ASSUME NEW t \in Threads, SpawnGivesUp(t) PROVE TypeOK'
  BY <1>4 DEF SpawnGivesUp, Finish
<1>5. ASSUME NEW t \in Threads, NEW i \in Ids, NEW what \in {"interrupt", "forget"}, Lookup(t, i, what) PROVE TypeOK'
  BY <1>5 DEF Lookup, Begin
<1>6. ASSUME NEW t \in Threads, Kill(t) PROVE TypeOK'
  BY <1>6 DEF Kill, Continue, Sends, Signalled, Finish, GoTo
<1>7. ASSUME NEW t \in Threads, KillGone(t) PROVE TypeOK'
  BY <1>7 DEF KillGone, Continue, Finish, GoTo
<1>8. ASSUME NEW t \in Threads, KillExited(t) PROVE TypeOK'
  BY <1>8 DEF KillExited, Continue, Finish, GoTo
<1>9. ASSUME NEW t \in Threads, Remove(t) PROVE TypeOK'
  BY <1>9 DEF Remove, Finish
<1>10. ASSUME NEW t \in Threads, NowBegin(t) PROVE TypeOK'
  BY <1>10 DEF NowBegin, Begin, StopsAdmission
<1>11. ASSUME NEW t \in Threads, NowRuns(t) PROVE TypeOK'
  BY <1>11 DEF NowRuns
<1>12. ASSUME NEW t \in Threads, NEW i \in Ids, NowNext(t, i) PROVE TypeOK'
  BY <1>12 DEF NowNext, NowGoesTo
<1>13. ASSUME NEW t \in Threads, NowEnd(t) PROVE TypeOK'
  BY <1>13 DEF NowEnd, Finish
<1>14. ASSUME NEW t \in Threads, DrainBegin(t) PROVE TypeOK'
  BY <1>14 DEF DrainBegin, Begin, StopsAdmission
<1>15. ASSUME NEW t \in Threads, DrainEnd(t) PROVE TypeOK'
  BY <1>15 DEF DrainEnd, Finish
<1>16. ASSUME NEW r \in Runs, PipesEnd(r) PROVE TypeOK'
  BY <1>16 DEF PipesEnd
<1>17. ASSUME NEW r \in Runs, Reap(r) PROVE TypeOK'
  BY <1>17 DEF Reap
<1>18. ASSUME NEW r \in Runs, MarkExited(r) PROVE TypeOK'
  BY <1>18 DEF MarkExited
<1>19. ASSUME Signal PROVE TypeOK'
  BY <1>19 DEF Signal
<1>20. ASSUME MainPoll PROVE TypeOK'
  <2>1. Main \in Threads
    OBVIOUS
  <2>2. CASE pending = 0
    BY <1>20, <2>1, <2>2 DEF MainPoll, GoTo
  <2>3. CASE pending # 0
    <3>1. draining' \in BOOLEAN
      BY <1>20 DEF MainPoll, StopsAdmission
    <3>2. PICK p \in {"list", "drain"}, q \in {"now", "drain"} : Begin(Main, q, p, Nil, Nil)
      BY <1>20, <2>3 DEF MainPoll
    <3>3. UNCHANGED <<runs, lock, status, child, pipes, shutdown, stopped>> /\ pending' = 0
      BY <1>20 DEF MainPoll
    <3>4. QED
      BY <2>1, <3>1, <3>2, <3>3 DEF Begin
  <2>4. QED
    BY <2>2, <2>3
<1>21. ASSUME MainExit PROVE TypeOK'
  BY <1>21 DEF MainExit, GoTo, LoopEnds
<1>22. ASSUME MainLoops PROVE TypeOK'
  BY <1>22 DEF MainLoops, GoTo
<1>23. CASE UNCHANGED vars
  BY <1>23 DEF vars
<1> HIDE DEF TypeOK, runVars, daemonVars, threadVars, Threads, Alive, Steps, Requests, At, Up
<1>24. QED
  BY <1>1, <1>2, <1>3, <1>4, <1>5, <1>6, <1>7, <1>8, <1>9, <1>10, <1>11, <1>12, <1>13, <1>14, <1>15, <1>16, <1>17, <1>18, <1>19, <1>20, <1>21, <1>22, <1>23
  DEF Next, Step, Ask, MainLoop, Run, Threads

\* A run is marked only after its child was waited for.
LEMMA NextLife ==
  ASSUME TypeOK, LifeInv, [Next]_vars
  PROVE  LifeInv'
<1> USE StructuredAssumption DEF TypeOK, LifeInv, runVars, daemonVars, threadVars, Threads, Alive, At, Up
<1>1. ASSUME NEW t \in Threads, NEW i \in Ids, SpawnBegin(t, i) PROVE LifeInv'
  BY <1>1 DEF SpawnBegin, Begin, Admissible
<1>2. ASSUME NEW t \in Threads, NEW r \in Runs, SpawnInsert(t, r) PROVE LifeInv'
  BY <1>2 DEF SpawnInsert, Finish
<1>3. ASSUME NEW t \in Threads, NEW r \in Runs, SpawnFails(t, r) PROVE LifeInv'
  BY <1>3 DEF SpawnFails, Finish
<1>4. ASSUME NEW t \in Threads, SpawnGivesUp(t) PROVE LifeInv'
  BY <1>4 DEF SpawnGivesUp, Finish
<1>5. ASSUME NEW t \in Threads, NEW i \in Ids, NEW what \in {"interrupt", "forget"}, Lookup(t, i, what) PROVE LifeInv'
  BY <1>5 DEF Lookup, Begin
<1>6. ASSUME NEW t \in Threads, Kill(t) PROVE LifeInv'
  BY <1>6 DEF Kill, Continue, Sends, Signalled, Finish, GoTo
<1>7. ASSUME NEW t \in Threads, KillGone(t) PROVE LifeInv'
  BY <1>7 DEF KillGone, Continue, Finish, GoTo
<1>8. ASSUME NEW t \in Threads, KillExited(t) PROVE LifeInv'
  BY <1>8 DEF KillExited, Continue, Finish, GoTo
<1>9. ASSUME NEW t \in Threads, Remove(t) PROVE LifeInv'
  BY <1>9 DEF Remove, Finish
<1>10. ASSUME NEW t \in Threads, NowBegin(t) PROVE LifeInv'
  BY <1>10 DEF NowBegin, Begin, StopsAdmission
<1>11. ASSUME NEW t \in Threads, NowRuns(t) PROVE LifeInv'
  BY <1>11 DEF NowRuns
<1>12. ASSUME NEW t \in Threads, NEW i \in Ids, NowNext(t, i) PROVE LifeInv'
  BY <1>12 DEF NowNext, NowGoesTo
<1>13. ASSUME NEW t \in Threads, NowEnd(t) PROVE LifeInv'
  BY <1>13 DEF NowEnd, Finish
<1>14. ASSUME NEW t \in Threads, DrainBegin(t) PROVE LifeInv'
  BY <1>14 DEF DrainBegin, Begin, StopsAdmission
<1>15. ASSUME NEW t \in Threads, DrainEnd(t) PROVE LifeInv'
  BY <1>15 DEF DrainEnd, Finish
<1>16. ASSUME NEW r \in Runs, PipesEnd(r) PROVE LifeInv'
  BY <1>16 DEF PipesEnd
<1>17. ASSUME NEW r \in Runs, Reap(r) PROVE LifeInv'
  BY <1>17 DEF Reap
<1>18. ASSUME NEW r \in Runs, MarkExited(r) PROVE LifeInv'
  BY <1>18 DEF MarkExited
<1>19. ASSUME Signal PROVE LifeInv'
  BY <1>19 DEF Signal
<1>20. ASSUME MainPoll PROVE LifeInv'
  BY <1>20 DEF MainPoll, Begin, GoTo, StopsAdmission, Escalates
<1>21. ASSUME MainExit PROVE LifeInv'
  BY <1>21 DEF MainExit, GoTo, LoopEnds
<1>22. ASSUME MainLoops PROVE LifeInv'
  BY <1>22 DEF MainLoops, GoTo
<1>23. CASE UNCHANGED vars
  BY <1>23 DEF vars
<1> HIDE DEF TypeOK, LifeInv, runVars, daemonVars, threadVars, Threads, Alive, At, Up
<1>24. QED
  BY <1>1, <1>2, <1>3, <1>4, <1>5, <1>6, <1>7, <1>8, <1>9, <1>10, <1>11, <1>12, <1>13, <1>14, <1>15, <1>16, <1>17, <1>18, <1>19, <1>20, <1>21, <1>22, <1>23
  DEF Next, Step, Ask, MainLoop, Run, Threads

\* The map holds at most Capacity runs after every step.
LEMMA NextCapacity ==
  ASSUME TypeOK, SpawnInv, CapacityInv, [Next]_vars
  PROVE  CapacityInv'
<1> USE StructuredAssumption DEF TypeOK, SpawnInv, Threads, At, Up
<1>1. ASSUME NEW t \in Threads, NEW i \in Ids, SpawnBegin(t, i) PROVE CapacityInv'
  <2>1. Admitted' = Admitted
    BY <1>1 DEF SpawnBegin, Admitted
  <2>2. QED
    BY <2>1 DEF CapacityInv, WithinCapacity
<1>2. ASSUME NEW t \in Threads, NEW r \in Runs, SpawnInsert(t, r) PROVE CapacityInv'
  <2>1. Admitted' = Admitted \cup {target[t]} /\ target[t] \notin Admitted
    BY <1>2 DEF SpawnInsert, Finish, Admitted
  <2>2. Cardinality(Admitted) < Capacity /\ IsFiniteSet(Admitted)
    BY <1>2 DEF SpawnInsert, CapacityInv
  <2>3. Cardinality(Admitted') = Cardinality(Admitted) + 1 /\ IsFiniteSet(Admitted')
    BY <2>1, <2>2, FS_AddElement
  <2>4. Cardinality(Admitted) \in Nat
    BY <2>2, FS_CardinalityType
  <2>5. QED
    BY <2>2, <2>3, <2>4 DEF CapacityInv, WithinCapacity
<1>3. ASSUME NEW t \in Threads, NEW r \in Runs, SpawnFails(t, r) PROVE CapacityInv'
  <2>1. Admitted' = Admitted \cup {target[t]} /\ target[t] \notin Admitted
    BY <1>3 DEF SpawnFails, Finish, Admitted
  <2>2. Cardinality(Admitted) < Capacity /\ IsFiniteSet(Admitted)
    BY <1>3 DEF SpawnFails, CapacityInv
  <2>3. Cardinality(Admitted') = Cardinality(Admitted) + 1 /\ IsFiniteSet(Admitted')
    BY <2>1, <2>2, FS_AddElement
  <2>4. Cardinality(Admitted) \in Nat
    BY <2>2, FS_CardinalityType
  <2>5. QED
    BY <2>2, <2>3, <2>4 DEF CapacityInv, WithinCapacity
<1>4. ASSUME NEW t \in Threads, SpawnGivesUp(t) PROVE CapacityInv'
  <2>1. Admitted' = Admitted
    BY <1>4 DEF SpawnGivesUp, Admitted
  <2>2. QED
    BY <2>1 DEF CapacityInv, WithinCapacity
<1>5. ASSUME NEW t \in Threads, NEW i \in Ids, NEW what \in {"interrupt", "forget"}, Lookup(t, i, what) PROVE CapacityInv'
  <2>1. Admitted' = Admitted
    BY <1>5 DEF Lookup, Admitted
  <2>2. QED
    BY <2>1 DEF CapacityInv, WithinCapacity
<1>6. ASSUME NEW t \in Threads, Kill(t) PROVE CapacityInv'
  <2>1. Admitted' = Admitted
    BY <1>6 DEF Kill, Admitted
  <2>2. QED
    BY <2>1 DEF CapacityInv, WithinCapacity
<1>7. ASSUME NEW t \in Threads, KillGone(t) PROVE CapacityInv'
  <2>1. Admitted' = Admitted
    BY <1>7 DEF KillGone, Admitted
  <2>2. QED
    BY <2>1 DEF CapacityInv, WithinCapacity
<1>8. ASSUME NEW t \in Threads, KillExited(t) PROVE CapacityInv'
  <2>1. Admitted' = Admitted
    BY <1>8 DEF KillExited, Admitted
  <2>2. QED
    BY <2>1 DEF CapacityInv, WithinCapacity
<1>9. ASSUME NEW t \in Threads, Remove(t) PROVE CapacityInv'
  <2>1. Admitted' \subseteq Admitted
    BY <1>9 DEF Remove, Finish, Admitted
  <2>2. IsFiniteSet(Admitted') /\ Cardinality(Admitted') <= Cardinality(Admitted)
    BY <2>1, FS_Subset DEF CapacityInv
  <2>3. Cardinality(Admitted) \in Nat /\ Cardinality(Admitted') \in Nat
    BY <2>2, FS_CardinalityType DEF CapacityInv
  <2>4. QED
    BY <2>2, <2>3 DEF CapacityInv, WithinCapacity
<1>10. ASSUME NEW t \in Threads, NowBegin(t) PROVE CapacityInv'
  <2>1. Admitted' = Admitted
    BY <1>10 DEF NowBegin, Admitted
  <2>2. QED
    BY <2>1 DEF CapacityInv, WithinCapacity
<1>11. ASSUME NEW t \in Threads, NowRuns(t) PROVE CapacityInv'
  <2>1. Admitted' = Admitted
    BY <1>11 DEF NowRuns, Admitted
  <2>2. QED
    BY <2>1 DEF CapacityInv, WithinCapacity
<1>12. ASSUME NEW t \in Threads, NEW i \in Ids, NowNext(t, i) PROVE CapacityInv'
  <2>1. Admitted' = Admitted
    BY <1>12 DEF NowNext, Admitted
  <2>2. QED
    BY <2>1 DEF CapacityInv, WithinCapacity
<1>13. ASSUME NEW t \in Threads, NowEnd(t) PROVE CapacityInv'
  <2>1. Admitted' = Admitted
    BY <1>13 DEF NowEnd, Admitted
  <2>2. QED
    BY <2>1 DEF CapacityInv, WithinCapacity
<1>14. ASSUME NEW t \in Threads, DrainBegin(t) PROVE CapacityInv'
  <2>1. Admitted' = Admitted
    BY <1>14 DEF DrainBegin, Admitted
  <2>2. QED
    BY <2>1 DEF CapacityInv, WithinCapacity
<1>15. ASSUME NEW t \in Threads, DrainEnd(t) PROVE CapacityInv'
  <2>1. Admitted' = Admitted
    BY <1>15 DEF DrainEnd, Admitted
  <2>2. QED
    BY <2>1 DEF CapacityInv, WithinCapacity
<1>16. ASSUME NEW r \in Runs, PipesEnd(r) PROVE CapacityInv'
  <2>1. Admitted' = Admitted
    BY <1>16 DEF PipesEnd, Admitted
  <2>2. QED
    BY <2>1 DEF CapacityInv, WithinCapacity
<1>17. ASSUME NEW r \in Runs, Reap(r) PROVE CapacityInv'
  <2>1. Admitted' = Admitted
    BY <1>17 DEF Reap, Admitted
  <2>2. QED
    BY <2>1 DEF CapacityInv, WithinCapacity
<1>18. ASSUME NEW r \in Runs, MarkExited(r) PROVE CapacityInv'
  <2>1. Admitted' = Admitted
    BY <1>18 DEF MarkExited, Admitted
  <2>2. QED
    BY <2>1 DEF CapacityInv, WithinCapacity
<1>19. ASSUME Signal PROVE CapacityInv'
  <2>1. Admitted' = Admitted
    BY <1>19 DEF Signal, Admitted
  <2>2. QED
    BY <2>1 DEF CapacityInv, WithinCapacity
<1>20. ASSUME MainPoll PROVE CapacityInv'
  <2>1. Admitted' = Admitted
    BY <1>20 DEF MainPoll, Admitted
  <2>2. QED
    BY <2>1 DEF CapacityInv, WithinCapacity
<1>21. ASSUME MainExit PROVE CapacityInv'
  <2>1. Admitted' = Admitted
    BY <1>21 DEF MainExit, Admitted
  <2>2. QED
    BY <2>1 DEF CapacityInv, WithinCapacity
<1>22. ASSUME MainLoops PROVE CapacityInv'
  <2>1. Admitted' = Admitted
    BY <1>22 DEF MainLoops, Admitted
  <2>2. QED
    BY <2>1 DEF CapacityInv, WithinCapacity
<1>23. CASE UNCHANGED vars
  BY <1>23 DEF vars, CapacityInv, WithinCapacity, Admitted
<1> HIDE DEF TypeOK, SpawnInv, Threads, At, Up
<1>24. QED
  BY <1>1, <1>2, <1>3, <1>4, <1>5, <1>6, <1>7, <1>8, <1>9, <1>10, <1>11, <1>12, <1>13, <1>14, <1>15, <1>16, <1>17, <1>18, <1>19, <1>20, <1>21, <1>22, <1>23
  DEF Next, Step, Ask, MainLoop, Run, Threads

\* Nobody takes the room a spawn was granted.
LEMMA NextSpawn ==
  ASSUME TypeOK, SpawnInv, [Next]_vars
  PROVE  SpawnInv'
<1> USE StructuredAssumption DEF TypeOK, SpawnInv, Threads, At, Up
<1>1. ASSUME NEW t \in Threads, NEW i \in Ids, SpawnBegin(t, i) PROVE SpawnInv'
  <2>1. \A u \in Threads : pc[u] # "spawn"
    BY <1>1 DEF SpawnBegin
  <2>2. t \in Clients /\ lock' = t /\ runs' = runs /\ target'[t] = i
    BY <1>1 DEF SpawnBegin, Begin
  <2>3. \A u \in Threads : pc'[u] = "spawn" => u = t
    BY <1>1, <2>1 DEF SpawnBegin, Begin
  <2>4. runs[i] = Nil /\ Cardinality(Admitted) < Capacity /\ Admitted' = Admitted
    BY <1>1, <2>2 DEF SpawnBegin, Admissible, Admitted
  <2>5. QED
    BY <2>2, <2>3, <2>4
<1>2. ASSUME NEW t \in Threads, NEW r \in Runs, SpawnInsert(t, r) PROVE SpawnInv'
  <2>1. \A u \in Threads : u # t => pc[u] # "spawn"
    BY <1>2 DEF SpawnInsert
  <2>2. \A u \in Threads : pc'[u] # "spawn"
    BY <1>2, <2>1 DEF SpawnInsert, Finish
  <2>3. QED
    BY <2>2
<1>3. ASSUME NEW t \in Threads, NEW r \in Runs, SpawnFails(t, r) PROVE SpawnInv'
  <2>1. \A u \in Threads : u # t => pc[u] # "spawn"
    BY <1>3 DEF SpawnFails
  <2>2. \A u \in Threads : pc'[u] # "spawn"
    BY <1>3, <2>1 DEF SpawnFails, Finish
  <2>3. QED
    BY <2>2
<1>4. ASSUME NEW t \in Threads, SpawnGivesUp(t) PROVE SpawnInv'
  <2>1. \A u \in Threads : u # t => pc[u] # "spawn"
    BY <1>4 DEF SpawnGivesUp
  <2>2. \A u \in Threads : pc'[u] # "spawn"
    BY <1>4, <2>1 DEF SpawnGivesUp, Finish
  <2>3. QED
    BY <2>2
<1>5. ASSUME NEW t \in Threads, NEW i \in Ids, NEW what \in {"interrupt", "forget"}, Lookup(t, i, what) PROVE SpawnInv'
  <2>1. UNCHANGED <<runs, lock>>
    BY <1>5 DEF Lookup
  <2>2. Admitted' = Admitted
    BY <2>1 DEF Admitted
  <2>3. QED
    BY <1>5, <2>1, <2>2 DEF Lookup, Begin, threadVars
<1>6. ASSUME NEW t \in Threads, Kill(t) PROVE SpawnInv'
  <2>1. UNCHANGED <<runs, lock>>
    BY <1>6 DEF Kill
  <2>2. Admitted' = Admitted
    BY <2>1 DEF Admitted
  <2>3. QED
    BY <1>6, <2>1, <2>2 DEF Kill, Continue, Sends, Signalled, Finish, GoTo, threadVars
<1>7. ASSUME NEW t \in Threads, KillGone(t) PROVE SpawnInv'
  <2>1. UNCHANGED <<runs, lock>>
    BY <1>7 DEF KillGone
  <2>2. Admitted' = Admitted
    BY <2>1 DEF Admitted
  <2>3. QED
    BY <1>7, <2>1, <2>2 DEF KillGone, Continue, Finish, GoTo, threadVars
<1>8. ASSUME NEW t \in Threads, KillExited(t) PROVE SpawnInv'
  <2>1. UNCHANGED <<runs, lock>>
    BY <1>8 DEF KillExited
  <2>2. Admitted' = Admitted
    BY <2>1 DEF Admitted
  <2>3. QED
    BY <1>8, <2>1, <2>2 DEF KillExited, Continue, Finish, GoTo, threadVars
<1>9. ASSUME NEW t \in Threads, Remove(t) PROVE SpawnInv'
  <2>1. \A u \in Threads : pc[u] # "spawn"
    BY <1>9 DEF Remove
  <2>2. \A u \in Threads : pc'[u] # "spawn"
    BY <1>9, <2>1 DEF Remove, Finish
  <2>3. QED
    BY <2>2
<1>10. ASSUME NEW t \in Threads, NowBegin(t) PROVE SpawnInv'
  <2>1. UNCHANGED <<runs, lock>>
    BY <1>10 DEF NowBegin
  <2>2. Admitted' = Admitted
    BY <2>1 DEF Admitted
  <2>3. QED
    BY <1>10, <2>1, <2>2 DEF NowBegin, Begin, StopsAdmission, threadVars
<1>11. ASSUME NEW t \in Threads, NowRuns(t) PROVE SpawnInv'
  <2>1. UNCHANGED <<runs, lock>>
    BY <1>11 DEF NowRuns
  <2>2. Admitted' = Admitted
    BY <2>1 DEF Admitted
  <2>3. QED
    BY <1>11, <2>1, <2>2 DEF NowRuns, threadVars
<1>12. ASSUME NEW t \in Threads, NEW i \in Ids, NowNext(t, i) PROVE SpawnInv'
  <2>1. UNCHANGED <<runs, lock>>
    BY <1>12 DEF NowNext
  <2>2. Admitted' = Admitted
    BY <2>1 DEF Admitted
  <2>3. QED
    BY <1>12, <2>1, <2>2 DEF NowNext, NowGoesTo, threadVars
<1>13. ASSUME NEW t \in Threads, NowEnd(t) PROVE SpawnInv'
  <2>1. UNCHANGED <<runs, lock>>
    BY <1>13 DEF NowEnd
  <2>2. Admitted' = Admitted
    BY <2>1 DEF Admitted
  <2>3. QED
    BY <1>13, <2>1, <2>2 DEF NowEnd, Finish, threadVars
<1>14. ASSUME NEW t \in Threads, DrainBegin(t) PROVE SpawnInv'
  <2>1. UNCHANGED <<runs, lock>>
    BY <1>14 DEF DrainBegin
  <2>2. Admitted' = Admitted
    BY <2>1 DEF Admitted
  <2>3. QED
    BY <1>14, <2>1, <2>2 DEF DrainBegin, Begin, StopsAdmission, threadVars
<1>15. ASSUME NEW t \in Threads, DrainEnd(t) PROVE SpawnInv'
  <2>1. UNCHANGED <<runs, lock>>
    BY <1>15 DEF DrainEnd
  <2>2. Admitted' = Admitted
    BY <2>1 DEF Admitted
  <2>3. QED
    BY <1>15, <2>1, <2>2 DEF DrainEnd, Finish, threadVars
<1>16. ASSUME NEW r \in Runs, PipesEnd(r) PROVE SpawnInv'
  <2>1. UNCHANGED <<runs, lock>>
    BY <1>16 DEF PipesEnd
  <2>2. Admitted' = Admitted
    BY <2>1 DEF Admitted
  <2>3. QED
    BY <1>16, <2>1, <2>2 DEF PipesEnd, threadVars
<1>17. ASSUME NEW r \in Runs, Reap(r) PROVE SpawnInv'
  <2>1. UNCHANGED <<runs, lock>>
    BY <1>17 DEF Reap
  <2>2. Admitted' = Admitted
    BY <2>1 DEF Admitted
  <2>3. QED
    BY <1>17, <2>1, <2>2 DEF Reap, threadVars
<1>18. ASSUME NEW r \in Runs, MarkExited(r) PROVE SpawnInv'
  <2>1. UNCHANGED <<runs, lock>>
    BY <1>18 DEF MarkExited
  <2>2. Admitted' = Admitted
    BY <2>1 DEF Admitted
  <2>3. QED
    BY <1>18, <2>1, <2>2 DEF MarkExited, threadVars
<1>19. ASSUME Signal PROVE SpawnInv'
  <2>1. UNCHANGED <<runs, lock>>
    BY <1>19 DEF Signal
  <2>2. Admitted' = Admitted
    BY <2>1 DEF Admitted
  <2>3. QED
    BY <1>19, <2>1, <2>2 DEF Signal, threadVars
<1>20. ASSUME MainPoll PROVE SpawnInv'
  <2>1. UNCHANGED <<runs, lock>>
    BY <1>20 DEF MainPoll
  <2>2. Admitted' = Admitted
    BY <2>1 DEF Admitted
  <2>3. QED
    BY <1>20, <2>1, <2>2 DEF MainPoll, Begin, GoTo, StopsAdmission, Escalates, threadVars
<1>21. ASSUME MainExit PROVE SpawnInv'
  <2>1. UNCHANGED <<runs, lock>>
    BY <1>21 DEF MainExit
  <2>2. Admitted' = Admitted
    BY <2>1 DEF Admitted
  <2>3. QED
    BY <1>21, <2>1, <2>2 DEF MainExit, GoTo, LoopEnds, threadVars
<1>22. ASSUME MainLoops PROVE SpawnInv'
  <2>1. UNCHANGED <<runs, lock>>
    BY <1>22 DEF MainLoops
  <2>2. Admitted' = Admitted
    BY <2>1 DEF Admitted
  <2>3. QED
    BY <1>22, <2>1, <2>2 DEF MainLoops, GoTo, threadVars
<1>23. CASE UNCHANGED vars
  BY <1>23 DEF vars, threadVars, Admitted
<1> HIDE DEF TypeOK, SpawnInv, Threads, At, Up
<1>24. QED
  BY <1>1, <1>2, <1>3, <1>4, <1>5, <1>6, <1>7, <1>8, <1>9, <1>10, <1>11, <1>12, <1>13, <1>14, <1>15, <1>16, <1>17, <1>18, <1>19, <1>20, <1>21, <1>22, <1>23
  DEF Next, Step, Ask, MainLoop, Run, Threads

\* stop_now misses nobody.
LEMMA NextNow ==
  ASSUME TypeOK, SpawnInv, LifeInv, NowInv, [Next]_vars
  PROVE  NowInv'
<1> USE StructuredAssumption DEF TypeOK, SpawnInv, LifeInv, NowInv, Sealed, Spared, Alive, runVars, daemonVars, threadVars, Threads, At, Up
<1>1. ASSUME NEW t \in Threads, NEW i \in Ids, SpawnBegin(t, i) PROVE NowInv'
  BY <1>1 DEF SpawnBegin, Begin, Admissible
<1>2. ASSUME NEW t \in Threads, NEW r \in Runs, SpawnInsert(t, r) PROVE NowInv'
  <2>1. lock # Free /\ lock' = Free /\ Main # t /\ pc[Main] # "exited"
    BY <1>2 DEF SpawnInsert
  <2>2. ~ stopped /\ shutdown # 2 /\ \A u \in Threads : ~(request[u] = "now" /\ pc[u] \in {"next", "kill"})
    BY <2>1
  <2>3. /\ UNCHANGED <<draining, shutdown, pending, stopped>>
        /\ pc'[t] \in {"idle", "check"} /\ request'[t] = "none"
        /\ \A u \in Threads : u # t => pc'[u] = pc[u] /\ request'[u] = request[u]
    BY <1>2 DEF SpawnInsert, Finish
  <2>4. pc'[Main] # "exited"
    BY <2>1, <2>3
  <2>5. QED
    BY <2>2, <2>3, <2>4
<1>3. ASSUME NEW t \in Threads, NEW r \in Runs, SpawnFails(t, r) PROVE NowInv'
  BY <1>3 DEF SpawnFails, Finish
<1>4. ASSUME NEW t \in Threads, SpawnGivesUp(t) PROVE NowInv'
  BY <1>4 DEF SpawnGivesUp, Finish
<1>5. ASSUME NEW t \in Threads, NEW i \in Ids, NEW what \in {"interrupt", "forget"}, Lookup(t, i, what) PROVE NowInv'
  BY <1>5 DEF Lookup, Begin
<1>6. ASSUME NEW t \in Threads, Kill(t) PROVE NowInv'
  BY <1>6 DEF Kill, Continue, Sends, Signalled, Finish, GoTo
<1>7. ASSUME NEW t \in Threads, KillGone(t) PROVE NowInv'
  BY <1>7 DEF KillGone, Continue, Finish, GoTo
<1>8. ASSUME NEW t \in Threads, KillExited(t) PROVE NowInv'
  BY <1>8 DEF KillExited, Continue, Finish, GoTo
<1>9. ASSUME NEW t \in Threads, Remove(t) PROVE NowInv'
  BY <1>9 DEF Remove, Finish
<1>10. ASSUME NEW t \in Threads, NowBegin(t) PROVE NowInv'
  BY <1>10 DEF NowBegin, Begin, StopsAdmission
<1>11. ASSUME NEW t \in Threads, NowRuns(t) PROVE NowInv'
  <2>1. Sealed' /\ UNCHANGED <<runs, child, draining, shutdown, stopped, request, handle>>
    BY <1>11 DEF NowRuns
  <2>2. /\ pc'[t] = "next" /\ victims'[t] = {i \in Ids : Running(i)}
        /\ \A u \in Threads : u # t => pc'[u] = pc[u] /\ victims'[u] = victims[u]
    BY <1>11 DEF NowRuns
  <2>3. Spared' = Spared /\ \A i \in Spared : i \in Ids /\ Running(i)
    BY <2>1 DEF Running
  <2>4. request[t] = "now" /\ Sealed
    BY <1>11 DEF NowRuns
  <2> HIDE DEF Spared
  <2>5. QED
    BY <1>11, <2>1, <2>2, <2>3, <2>4 DEF NowRuns
<1>12. ASSUME NEW t \in Threads, NEW i \in Ids, NowNext(t, i) PROVE NowInv'
  BY <1>12 DEF NowNext, NowGoesTo
<1>13. ASSUME NEW t \in Threads, NowEnd(t) PROVE NowInv'
  BY <1>13 DEF NowEnd, Finish
<1>14. ASSUME NEW t \in Threads, DrainBegin(t) PROVE NowInv'
  BY <1>14 DEF DrainBegin, Begin, StopsAdmission
<1>15. ASSUME NEW t \in Threads, DrainEnd(t) PROVE NowInv'
  BY <1>15 DEF DrainEnd, Finish
<1>16. ASSUME NEW r \in Runs, PipesEnd(r) PROVE NowInv'
  BY <1>16 DEF PipesEnd
<1>17. ASSUME NEW r \in Runs, Reap(r) PROVE NowInv'
  BY <1>17 DEF Reap
<1>18. ASSUME NEW r \in Runs, MarkExited(r) PROVE NowInv'
  BY <1>18 DEF MarkExited
<1>19. ASSUME Signal PROVE NowInv'
  BY <1>19 DEF Signal
<1>20. ASSUME MainPoll PROVE NowInv'
  BY <1>20 DEF MainPoll, Begin, GoTo, StopsAdmission, Escalates
<1>21. ASSUME MainExit PROVE NowInv'
  <2>1. Spared = {}
    BY <1>21 DEF MainExit, LoopEnds, Drained, Running
  <2>2. UNCHANGED <<runs, child, lock, daemonVars, stopped, request, handle, victims>>
    BY <1>21 DEF MainExit, GoTo
  <2>3. Spared' = Spared
    BY <2>2
  <2>4. \A u \in Threads : pc'[u] = pc[u] \/ pc'[u] = "exited"
    BY <1>21 DEF MainExit, GoTo
  <2> HIDE DEF Spared
  <2>5. QED
    BY <2>1, <2>2, <2>3, <2>4
<1>22. ASSUME MainLoops PROVE NowInv'
  BY <1>22 DEF MainLoops, GoTo
<1>23. CASE UNCHANGED vars
  BY <1>23 DEF vars
<1> HIDE DEF TypeOK, SpawnInv, LifeInv, NowInv, Sealed, Spared, Alive, runVars, daemonVars, threadVars, Threads, At, Up
<1>24. QED
  BY <1>1, <1>2, <1>3, <1>4, <1>5, <1>6, <1>7, <1>8, <1>9, <1>10, <1>11, <1>12, <1>13, <1>14, <1>15, <1>16, <1>17, <1>18, <1>19, <1>20, <1>21, <1>22, <1>23
  DEF Next, Step, Ask, MainLoop, Run, Threads

-----------------------------------------------------------------------------
(* The theorems. *)

\* Every step keeps all of it.
LEMMA NextIInv == ASSUME IInv, [Next]_vars PROVE IInv'
<1>1. TypeOK /\ SpawnInv /\ CapacityInv /\ LifeInv /\ NowInv
  BY DEF IInv
<1>2. QED
  BY <1>1, NextType, NextSpawn, NextCapacity, NextLife, NextNow DEF IInv

\* Whatever clients, the main thread, reapers and signals do, and however many
\* there are, the parts of IInv hold together.
THEOREM Invariance == Spec => []IInv
<1>1. Init => IInv
  BY InitIInv
<1>2. IInv /\ [Next]_vars => IInv'
  BY NextIInv
<1>3. QED
  BY <1>1, <1>2, PTL DEF Spec

\* Every variable keeps its type, and a thread that is about to signal a run
\* holds one.
THEOREM TypeCorrect == Spec => []TypeOK
<1>1. IInv => TypeOK
  BY DEF IInv
<1>2. QED
  BY <1>1, Invariance, PTL

\* Registry::spawn: the runs retained never exceed MAX_ADMITTED_RUNS.
THEOREM CapacityKept == Spec => []WithinCapacity
<1>1. IInv => WithinCapacity
  BY DEF IInv, CapacityInv
<1>2. QED
  BY <1>1, Invariance, PTL

\* Registry::stop_now: when it is through, no registered run was spared.
THEOREM NowSparesNone == Spec => []NowReachesAll
<1>1. IInv => NowReachesAll
  BY DEF IInv, NowInv, NowReachesAll, Spared, Registered
<1>2. QED
  BY <1>1, Invariance, PTL

\* The main loop of serve ends only when no registered run is left to itself.
THEOREM NobodyLeftBehind == Spec => []ExitLeavesNone
<1>1. IInv => ExitLeavesNone
  BY DEF IInv, NowInv, ExitLeavesNone, Spared, Registered
<1>2. QED
  BY <1>1, Invariance, PTL

\* Registry::spawn: a run is never put in the place of another.
THEOREM NoDisplacement == Spec => NeverDisplaced
<1>1. IInv /\ [Next]_vars => \A i \in Ids : runs[i] # Nil => runs'[i] \in {runs[i], Nil}
  <2>1. SUFFICES ASSUME IInv, [Next]_vars, NEW i \in Ids, runs[i] # Nil
                 PROVE  runs'[i] \in {runs[i], Nil}
    OBVIOUS
  <2> USE <2>1 DEF IInv, TypeOK
  <2>2. ASSUME NEW t \in Threads, NEW r \in Runs, SpawnInsert(t, r) \/ SpawnFails(t, r)
        PROVE  runs'[i] \in {runs[i], Nil}
    BY <2>2 DEF SpawnInsert, SpawnFails, SpawnInv, At
  <2>3. ASSUME NEW t \in Threads, Remove(t)
        PROVE  runs'[i] \in {runs[i], Nil}
    BY <2>3 DEF Remove
  <2>4. CASE UNCHANGED runs
    BY <2>4
  <2>5. QED
    BY <2>2, <2>3, <2>4
    DEF Next, vars, Ask, Step, MainLoop, Run, Threads, SpawnBegin, Lookup, Kill, KillGone,
        SpawnGivesUp, KillExited, NowBegin, NowRuns, NowNext, NowEnd, DrainBegin, DrainEnd, PipesEnd, Reap,
        MarkExited, Signal, MainPoll, MainExit, MainLoops
<1>2. QED
  BY <1>1, Invariance, PTL DEF Spec, NeverDisplaced

=============================================================================
