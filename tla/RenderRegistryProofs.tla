------------------------- MODULE RenderRegistryProofs -------------------------
(* What TLAPS proves about RenderRegistry, for every value of its constants. *)
EXTENDS RenderRegistry, FiniteSetTheorems, SequenceTheorems, TLAPS

\* Every step keeps the types.
LEMMA TypeStep ==
  ASSUME TypeOK, [Next]_vars
  PROVE  TypeOK'
<1> USE DEF lockVars, mainVars, ptyVars, clientVars, TypeOK, ClientPCs, Admitted, MainPCs, MainAdmitted, Modes
<1>1. ASSUME NEW c \in Clients, NEW i \in Ids, CreateLookup(c, i) PROVE TypeOK'
  BY <1>1 DEF CreateLookup, Step
<1>2. ASSUME NEW c \in Clients, NEW i \in Ids, ForgetRemove(c, i) PROVE TypeOK'
  BY <1>2 DEF ForgetRemove, Step
<1>3. ASSUME NEW c \in Clients, NEW i \in Ids, KillCheck(c, i) PROVE TypeOK'
  BY <1>3 DEF KillCheck, Step
<1>4. ASSUME NEW c \in Clients, NEW i \in Ids, WriteCheck(c, i) PROVE TypeOK'
  BY <1>4 DEF WriteCheck, Step
<1>5. ASSUME NEW c \in Clients, NEW mode \in Modes, RequestShutdown(c, mode) PROVE TypeOK'
  <2>1. requests' \in Seq(Modes) /\ Len(requests') = Len(requests) + 1
    BY <1>5, AppendProperties DEF RequestShutdown
  <2>2. QED
    BY <1>5, <2>1, BoundAssumption, LenProperties DEF RequestShutdown, HasRoom
<1>6. ASSUME NEW c \in Clients, CreateRefusedByShutdown(c) PROVE TypeOK'
  BY <1>6 DEF CreateRefusedByShutdown, Answer, Step
<1>7. ASSUME NEW c \in Clients, CreateAdmit(c) PROVE TypeOK'
  BY <1>7 DEF CreateAdmit, Step
<1>8. ASSUME NEW c \in Clients, CreateFoundLate(c) PROVE TypeOK'
  BY <1>8 DEF CreateFoundLate, Answer, Step
<1>9. ASSUME NEW c \in Clients, CreateRelookup(c) PROVE TypeOK'
  BY <1>9 DEF CreateRelookup, NotYetRegistered, Step
<1>10. ASSUME NEW c \in Clients, CreateRefused(c) PROVE TypeOK'
  BY <1>10 DEF CreateRefused, Answer, Step
<1>11. ASSUME NEW c \in Clients, CreateSpawn(c) PROVE TypeOK'
  BY <1>11 DEF CreateSpawn, Step
<1>12. ASSUME NEW c \in Clients, CreateSpawnHalf(c) PROVE TypeOK'
  BY <1>12 DEF CreateSpawnHalf, Answer, Step, SendSignal
<1>13. ASSUME NEW c \in Clients, CreateInsert(c) PROVE TypeOK'
  <2>1. sessions' \in [Ids -> Ptys \cup {Nil}]
    BY <1>13 DEF CreateInsert, Answer, Step
  <2>2. retired' \in [Ptys -> BOOLEAN] /\ writer' \in [Ptys -> Clients \cup {Free, Closed}]
    BY <1>13 DEF CreateInsert, Answer, Step
  <2>3. sent' \in [Ptys -> SUBSET {"HUP", "TERM", "KILL"}]
    BY <1>13 DEF CreateInsert, Answer, Step, SendSignal
  <2>4. QED
    BY <1>13, <2>1, <2>2, <2>3 DEF CreateInsert, Answer, Step
<1>14. ASSUME NEW c \in Clients, ForgetRetire(c) PROVE TypeOK'
  BY <1>14 DEF ForgetRetire, Step
<1>15. ASSUME NEW c \in Clients, ForgetTerminate(c) PROVE TypeOK'
  BY <1>15 DEF ForgetTerminate, Step, SendSignal
<1>16. ASSUME NEW c \in Clients, ForgetClose(c) PROVE TypeOK'
  BY <1>16 DEF ForgetClose, Step
<1>17. ASSUME NEW c \in Clients, ReconcileKeys(c) PROVE TypeOK'
  BY <1>17 DEF ReconcileKeys, Step, Registered
<1>18. ASSUME NEW c \in Clients, ReconcilePublish(c) PROVE TypeOK'
  BY <1>18 DEF ReconcilePublish, Answer, Step
<1>19. ASSUME NEW c \in Clients, KillSend(c) PROVE TypeOK'
  BY <1>19 DEF KillSend, Answer, Step, SendSignal
<1>20. ASSUME NEW c \in Clients, WriteRefused(c) PROVE TypeOK'
  BY <1>20 DEF WriteRefused, Answer, Step
<1>21. ASSUME NEW c \in Clients, WriteBegin(c) PROVE TypeOK'
  BY <1>21 DEF WriteBegin, Step
<1>22. ASSUME NEW c \in Clients, WriteEnd(c) PROVE TypeOK'
  BY <1>22 DEF WriteEnd, Answer, Step
<1>23. ASSUME NEW p \in Ptys, ChildExit(p) PROVE TypeOK'
  BY <1>23 DEF ChildExit
<1>24. ASSUME NEW p \in Ptys, Reap(p) PROVE TypeOK'
  BY <1>24 DEF Reap
<1>25. ASSUME NEW p \in Ptys, RecordExit(p) PROVE TypeOK'
  BY <1>25 DEF RecordExit
<1>26. ASSUME NEW p \in Ptys, DrainReader(p) PROVE TypeOK'
  BY <1>26 DEF DrainReader
<1>27. ASSUME NEW p \in Ptys, PublishExit(p) PROVE TypeOK'
  BY <1>27 DEF PublishExit
<1>28. ASSUME MainReceive PROVE TypeOK'
  <2>1. requests' \in Seq(Modes) /\ Len(requests') <= QueueDepth
    BY <1>28, HeadTailProperties, LenProperties, BoundAssumption DEF MainReceive
  <2>2. main' \in MainPCs
    BY <1>28, HeadTailProperties DEF MainReceive, Effective
  <2>3. QED
    BY <1>28, <2>1, <2>2 DEF MainReceive
<1>29. ASSUME MainTimeout PROVE TypeOK'
  BY <1>29 DEF MainTimeout
<1>30. ASSUME DrainBegin PROVE TypeOK'
  BY <1>30 DEF DrainBegin, DrainCanBegin, Droppable
<1>31. ASSUME DrainDrop PROVE TypeOK'
  BY <1>31 DEF DrainDrop
<1>32. ASSUME DrainEnd PROVE TypeOK'
  BY <1>32 DEF DrainEnd
<1>33. ASSUME NowBegin PROVE TypeOK'
  BY <1>33 DEF NowBegin
<1>34. ASSUME NowKill PROVE TypeOK'
  BY <1>34 DEF NowKill, SendSignal
<1>35. ASSUME NowEnd PROVE TypeOK'
  BY <1>35 DEF NowEnd
<1>36. ASSUME MainCount PROVE TypeOK'
  BY <1>36 DEF MainCount, DrainComplete
<1>37. ASSUME MainExit PROVE TypeOK'
  BY <1>37 DEF MainExit
<1>38. ASSUME Signal PROVE TypeOK'
  <2>1. requests' \in Seq(Modes) /\ Len(requests') = Len(requests) + 1
    BY <1>38, AppendProperties DEF Signal
  <2>2. QED
    BY <1>38, <2>1, BoundAssumption, LenProperties DEF Signal, HasRoom
<1>39. CASE UNCHANGED vars
  BY <1>39 DEF vars
<1> HIDE DEF lockVars, mainVars, ptyVars, clientVars, TypeOK, ClientPCs, Admitted, MainPCs, MainAdmitted, Modes
<1>40. QED
  BY <1>1, <1>2, <1>3, <1>4, <1>5, <1>6, <1>7, <1>8, <1>9, <1>10, <1>11, <1>12, <1>13, <1>14, <1>15, <1>16, <1>17, <1>18, <1>19, <1>20, <1>21, <1>22, <1>23, <1>24, <1>25, <1>26, <1>27, <1>28, <1>29, <1>30, <1>31, <1>32, <1>33, <1>34, <1>35, <1>36, <1>37, <1>38, <1>39 DEF Next, Request, ClientStep, MainStep, ExitThread

\* The admission lock and the flag it protects.
LEMMA LockStep ==
  ASSUME TypeOK, LockInv, [Next]_vars
  PROVE  LockInv'
<1> USE DEF lockVars, mainVars, ptyVars, clientVars, LockInv, TypeOK, ClientPCs, Admitted, MainPCs, MainAdmitted, Modes
<1>1. ASSUME NEW c \in Clients, NEW i \in Ids, CreateLookup(c, i) PROVE LockInv'
  BY <1>1 DEF CreateLookup, Step
<1>2. ASSUME NEW c \in Clients, NEW i \in Ids, ForgetRemove(c, i) PROVE LockInv'
  BY <1>2 DEF ForgetRemove, Step
<1>3. ASSUME NEW c \in Clients, NEW i \in Ids, KillCheck(c, i) PROVE LockInv'
  BY <1>3 DEF KillCheck, Step
<1>4. ASSUME NEW c \in Clients, NEW i \in Ids, WriteCheck(c, i) PROVE LockInv'
  BY <1>4 DEF WriteCheck, Step
<1>5. ASSUME NEW c \in Clients, NEW mode \in Modes, RequestShutdown(c, mode) PROVE LockInv'
  BY <1>5 DEF RequestShutdown, HasRoom
<1>6. ASSUME NEW c \in Clients, CreateRefusedByShutdown(c) PROVE LockInv'
  BY <1>6 DEF CreateRefusedByShutdown, Answer, Step
<1>7. ASSUME NEW c \in Clients, CreateAdmit(c) PROVE LockInv'
  BY <1>7, SentinelAssumption DEF CreateAdmit, Step
<1>8. ASSUME NEW c \in Clients, CreateFoundLate(c) PROVE LockInv'
  BY <1>8, SentinelAssumption DEF CreateFoundLate, Answer, Step
<1>9. ASSUME NEW c \in Clients, CreateRelookup(c) PROVE LockInv'
  BY <1>9, SentinelAssumption DEF CreateRelookup, NotYetRegistered, Step
<1>10. ASSUME NEW c \in Clients, CreateRefused(c) PROVE LockInv'
  BY <1>10, SentinelAssumption DEF CreateRefused, Answer, Step
<1>11. ASSUME NEW c \in Clients, CreateSpawn(c) PROVE LockInv'
  BY <1>11, SentinelAssumption DEF CreateSpawn, Step
<1>12. ASSUME NEW c \in Clients, CreateSpawnHalf(c) PROVE LockInv'
  BY <1>12, SentinelAssumption DEF CreateSpawnHalf, Answer, Step
<1>13. ASSUME NEW c \in Clients, CreateInsert(c) PROVE LockInv'
  BY <1>13, SentinelAssumption DEF CreateInsert, Answer, Step
<1>14. ASSUME NEW c \in Clients, ForgetRetire(c) PROVE LockInv'
  BY <1>14 DEF ForgetRetire, Step
<1>15. ASSUME NEW c \in Clients, ForgetTerminate(c) PROVE LockInv'
  BY <1>15 DEF ForgetTerminate, Step, SendSignal
<1>16. ASSUME NEW c \in Clients, ForgetClose(c) PROVE LockInv'
  BY <1>16 DEF ForgetClose, Step
<1>17. ASSUME NEW c \in Clients, ReconcileKeys(c) PROVE LockInv'
  BY <1>17 DEF ReconcileKeys, Step
<1>18. ASSUME NEW c \in Clients, ReconcilePublish(c) PROVE LockInv'
  BY <1>18 DEF ReconcilePublish, Answer, Step
<1>19. ASSUME NEW c \in Clients, KillSend(c) PROVE LockInv'
  BY <1>19 DEF KillSend, Answer, Step, SendSignal
<1>20. ASSUME NEW c \in Clients, WriteRefused(c) PROVE LockInv'
  BY <1>20 DEF WriteRefused, Answer, Step
<1>21. ASSUME NEW c \in Clients, WriteBegin(c) PROVE LockInv'
  BY <1>21 DEF WriteBegin, Step
<1>22. ASSUME NEW c \in Clients, WriteEnd(c) PROVE LockInv'
  BY <1>22 DEF WriteEnd, Answer, Step
<1>23. ASSUME NEW p \in Ptys, ChildExit(p) PROVE LockInv'
  BY <1>23 DEF ChildExit
<1>24. ASSUME NEW p \in Ptys, Reap(p) PROVE LockInv'
  BY <1>24 DEF Reap
<1>25. ASSUME NEW p \in Ptys, RecordExit(p) PROVE LockInv'
  BY <1>25 DEF RecordExit
<1>26. ASSUME NEW p \in Ptys, DrainReader(p) PROVE LockInv'
  BY <1>26 DEF DrainReader
<1>27. ASSUME NEW p \in Ptys, PublishExit(p) PROVE LockInv'
  BY <1>27 DEF PublishExit
<1>28. ASSUME MainReceive PROVE LockInv'
  BY <1>28 DEF MainReceive, Effective
<1>29. ASSUME MainTimeout PROVE LockInv'
  BY <1>29 DEF MainTimeout
<1>30. ASSUME DrainBegin PROVE LockInv'
  BY <1>30, SentinelAssumption DEF DrainBegin, DrainCanBegin, Droppable
<1>31. ASSUME DrainDrop PROVE LockInv'
  BY <1>31 DEF DrainDrop
<1>32. ASSUME DrainEnd PROVE LockInv'
  BY <1>32, SentinelAssumption DEF DrainEnd
<1>33. ASSUME NowBegin PROVE LockInv'
  BY <1>33, SentinelAssumption DEF NowBegin
<1>34. ASSUME NowKill PROVE LockInv'
  BY <1>34 DEF NowKill, SendSignal
<1>35. ASSUME NowEnd PROVE LockInv'
  BY <1>35, SentinelAssumption DEF NowEnd
<1>36. ASSUME MainCount PROVE LockInv'
  BY <1>36 DEF MainCount, DrainComplete
<1>37. ASSUME MainExit PROVE LockInv'
  BY <1>37 DEF MainExit
<1>38. ASSUME Signal PROVE LockInv'
  BY <1>38 DEF Signal, HasRoom
<1>39. CASE UNCHANGED vars
  BY <1>39 DEF vars
<1> HIDE DEF lockVars, mainVars, ptyVars, clientVars, LockInv, TypeOK, ClientPCs, Admitted, MainPCs, MainAdmitted, Modes
<1>40. QED
  BY <1>1, <1>2, <1>3, <1>4, <1>5, <1>6, <1>7, <1>8, <1>9, <1>10, <1>11, <1>12, <1>13, <1>14, <1>15, <1>16, <1>17, <1>18, <1>19, <1>20, <1>21, <1>22, <1>23, <1>24, <1>25, <1>26, <1>27, <1>28, <1>29, <1>30, <1>31, <1>32, <1>33, <1>34, <1>35, <1>36, <1>37, <1>38, <1>39 DEF Next, Request, ClientStep, MainStep, ExitThread

\* The clients' locals denote what the code expects.
LEMMA LocalStep ==
  ASSUME TypeOK, LockInv, LocalInv, MapInv, [Next]_vars
  PROVE  LocalInv'
<1> USE DEF lockVars, mainVars, ptyVars, clientVars, LockInv, TypeOK, LocalInv, MapInv, InMap, HasHandle, ClientPCs, Admitted, MainPCs, MainAdmitted, Modes
<1>1. ASSUME NEW c \in Clients, NEW i \in Ids, CreateLookup(c, i) PROVE LocalInv'
  BY <1>1 DEF CreateLookup, Step
<1>2. ASSUME NEW c \in Clients, NEW i \in Ids, ForgetRemove(c, i) PROVE LocalInv'
  <2>1. /\ sessions' = [sessions EXCEPT ![i] = Nil]
        /\ sessions[i] \in Ptys /\ owner[sessions[i]] = i /\ exitAt[sessions[i]] # "none"
        /\ pc' = [pc EXCEPT ![c] = "retire"] /\ pc[c] = "idle"
        /\ target' = [target EXCEPT ![c] = i]
        /\ handle' = [handle EXCEPT ![c] = sessions[i]]
        /\ UNCHANGED <<exitAt, owner, retired>>
    BY <1>2 DEF ForgetRemove, Step
  <2>2. \A j \in Ids : sessions'[j] # sessions[i] /\ sessions'[j] \in {sessions[j], Nil}
    BY <2>1, SentinelAssumption
  <2>3. \A d \in Clients : pc[d] = "insert" => handle[d] # sessions[i]
    BY <2>1, SentinelAssumption
  <2>4. TAKE d \in Clients
  <2>5. CASE d = c
    BY <2>5, <2>1, <2>2, <2>3
  <2>6. CASE d # c
    <3>1. pc'[d] = pc[d] /\ target'[d] = target[d] /\ handle'[d] = handle[d]
      BY <2>1, <2>6
    <3>2. pc'[d] \in {"spawn", "insert"} => sessions'[target'[d]] = Nil
      BY <2>1, <2>2, <3>1
    <3>3. pc[d] = "retire" => \A j \in Ids : sessions'[j] # handle[d]
      BY <2>2, SentinelAssumption
    <3>4. pc[d] = "retire" => \A e \in Clients : pc'[e] = "insert" => handle'[e] # handle'[d]
      BY <2>1, <3>1
    <3>5. QED
      BY <2>1, <3>1, <3>2, <3>3, <3>4
  <2>7. QED
    BY <2>5, <2>6
<1>3. ASSUME NEW c \in Clients, NEW i \in Ids, KillCheck(c, i) PROVE LocalInv'
  BY <1>3 DEF KillCheck, Step
<1>4. ASSUME NEW c \in Clients, NEW i \in Ids, WriteCheck(c, i) PROVE LocalInv'
  BY <1>4 DEF WriteCheck, Step
<1>5. ASSUME NEW c \in Clients, NEW mode \in Modes, RequestShutdown(c, mode) PROVE LocalInv'
  BY <1>5 DEF RequestShutdown, HasRoom
<1>6. ASSUME NEW c \in Clients, CreateRefusedByShutdown(c) PROVE LocalInv'
  BY <1>6 DEF CreateRefusedByShutdown, Answer, Step
<1>7. ASSUME NEW c \in Clients, CreateAdmit(c) PROVE LocalInv'
  BY <1>7 DEF CreateAdmit, Step
<1>8. ASSUME NEW c \in Clients, CreateFoundLate(c) PROVE LocalInv'
  BY <1>8 DEF CreateFoundLate, Answer, Step
<1>9. ASSUME NEW c \in Clients, CreateRelookup(c) PROVE LocalInv'
  BY <1>9 DEF CreateRelookup, NotYetRegistered, Step
<1>10. ASSUME NEW c \in Clients, CreateRefused(c) PROVE LocalInv'
  BY <1>10 DEF CreateRefused, Answer, Step
<1>11. ASSUME NEW c \in Clients, CreateSpawn(c) PROVE LocalInv'
  BY <1>11 DEF CreateSpawn, Step
<1>12. ASSUME NEW c \in Clients, CreateSpawnHalf(c) PROVE LocalInv'
  BY <1>12 DEF CreateSpawnHalf, Answer, Step, SendSignal
<1>13. ASSUME NEW c \in Clients, CreateInsert(c) PROVE LocalInv'
  BY <1>13 DEF CreateInsert, Answer, Step, SendSignal
<1>14. ASSUME NEW c \in Clients, ForgetRetire(c) PROVE LocalInv'
  BY <1>14 DEF ForgetRetire, Step
<1>15. ASSUME NEW c \in Clients, ForgetTerminate(c) PROVE LocalInv'
  BY <1>15 DEF ForgetTerminate, Step, SendSignal
<1>16. ASSUME NEW c \in Clients, ForgetClose(c) PROVE LocalInv'
  BY <1>16 DEF ForgetClose, Step
<1>17. ASSUME NEW c \in Clients, ReconcileKeys(c) PROVE LocalInv'
  BY <1>17 DEF ReconcileKeys, Step
<1>18. ASSUME NEW c \in Clients, ReconcilePublish(c) PROVE LocalInv'
  BY <1>18 DEF ReconcilePublish, Answer, Step
<1>19. ASSUME NEW c \in Clients, KillSend(c) PROVE LocalInv'
  BY <1>19 DEF KillSend, Answer, Step, SendSignal
<1>20. ASSUME NEW c \in Clients, WriteRefused(c) PROVE LocalInv'
  BY <1>20 DEF WriteRefused, Answer, Step
<1>21. ASSUME NEW c \in Clients, WriteBegin(c) PROVE LocalInv'
  BY <1>21 DEF WriteBegin, Step
<1>22. ASSUME NEW c \in Clients, WriteEnd(c) PROVE LocalInv'
  BY <1>22 DEF WriteEnd, Answer, Step
<1>23. ASSUME NEW p \in Ptys, ChildExit(p) PROVE LocalInv'
  BY <1>23 DEF ChildExit
<1>24. ASSUME NEW p \in Ptys, Reap(p) PROVE LocalInv'
  BY <1>24 DEF Reap
<1>25. ASSUME NEW p \in Ptys, RecordExit(p) PROVE LocalInv'
  BY <1>25 DEF RecordExit
<1>26. ASSUME NEW p \in Ptys, DrainReader(p) PROVE LocalInv'
  BY <1>26 DEF DrainReader
<1>27. ASSUME NEW p \in Ptys, PublishExit(p) PROVE LocalInv'
  BY <1>27 DEF PublishExit
<1>28. ASSUME MainReceive PROVE LocalInv'
  BY <1>28 DEF MainReceive, Effective
<1>29. ASSUME MainTimeout PROVE LocalInv'
  BY <1>29 DEF MainTimeout
<1>30. ASSUME DrainBegin PROVE LocalInv'
  BY <1>30 DEF DrainBegin, DrainCanBegin, Droppable
<1>31. ASSUME DrainDrop PROVE LocalInv'
  <2>1. \A i \in Ids : sessions'[i] \in {sessions[i], Nil}
    BY <1>31 DEF DrainDrop
  <2>2. UNCHANGED <<pc, target, handle, exitAt, owner, retired>>
    BY <1>31 DEF DrainDrop
  <2>3. QED
    BY <2>1, <2>2, SentinelAssumption
<1>32. ASSUME DrainEnd PROVE LocalInv'
  BY <1>32 DEF DrainEnd
<1>33. ASSUME NowBegin PROVE LocalInv'
  <2>1. \A i \in Ids : sessions'[i] = Nil
    BY <1>33 DEF NowBegin
  <2>2. UNCHANGED <<pc, target, handle, exitAt, owner, retired>>
    BY <1>33 DEF NowBegin
  <2>3. QED
    BY <2>1, <2>2, SentinelAssumption
<1>34. ASSUME NowKill PROVE LocalInv'
  BY <1>34 DEF NowKill, SendSignal
<1>35. ASSUME NowEnd PROVE LocalInv'
  BY <1>35 DEF NowEnd
<1>36. ASSUME MainCount PROVE LocalInv'
  BY <1>36 DEF MainCount, DrainComplete
<1>37. ASSUME MainExit PROVE LocalInv'
  BY <1>37 DEF MainExit
<1>38. ASSUME Signal PROVE LocalInv'
  BY <1>38 DEF Signal, HasRoom
<1>39. CASE UNCHANGED vars
  BY <1>39 DEF vars
<1> HIDE DEF lockVars, mainVars, ptyVars, clientVars, LockInv, TypeOK, LocalInv, MapInv, InMap, HasHandle, ClientPCs, Admitted, MainPCs, MainAdmitted, Modes
<1>40. QED
  BY <1>1, <1>2, <1>3, <1>4, <1>5, <1>6, <1>7, <1>8, <1>9, <1>10, <1>11, <1>12, <1>13, <1>14, <1>15, <1>16, <1>17, <1>18, <1>19, <1>20, <1>21, <1>22, <1>23, <1>24, <1>25, <1>26, <1>27, <1>28, <1>29, <1>30, <1>31, <1>32, <1>33, <1>34, <1>35, <1>36, <1>37, <1>38, <1>39 DEF Next, Request, ClientStep, MainStep, ExitThread

\* The map refers to live, unretired PTYs of the right id.
LEMMA MapStep ==
  ASSUME TypeOK, LockInv, LocalInv, MapInv, ShutdownInv, [Next]_vars
  PROVE  MapInv'
<1> USE DEF lockVars, mainVars, ptyVars, clientVars, LockInv, TypeOK, LocalInv, MapInv, ShutdownInv, InMap, HasHandle, ClientPCs, Admitted, MainPCs, MainAdmitted, Modes
<1>1. ASSUME NEW c \in Clients, NEW i \in Ids, CreateLookup(c, i) PROVE MapInv'
  BY <1>1 DEF CreateLookup, Step
<1>2. ASSUME NEW c \in Clients, NEW i \in Ids, ForgetRemove(c, i) PROVE MapInv'
  BY <1>2 DEF ForgetRemove, Step
<1>3. ASSUME NEW c \in Clients, NEW i \in Ids, KillCheck(c, i) PROVE MapInv'
  BY <1>3 DEF KillCheck, Step
<1>4. ASSUME NEW c \in Clients, NEW i \in Ids, WriteCheck(c, i) PROVE MapInv'
  BY <1>4 DEF WriteCheck, Step
<1>5. ASSUME NEW c \in Clients, NEW mode \in Modes, RequestShutdown(c, mode) PROVE MapInv'
  BY <1>5 DEF RequestShutdown, HasRoom
<1>6. ASSUME NEW c \in Clients, CreateRefusedByShutdown(c) PROVE MapInv'
  BY <1>6 DEF CreateRefusedByShutdown, Answer, Step
<1>7. ASSUME NEW c \in Clients, CreateAdmit(c) PROVE MapInv'
  BY <1>7 DEF CreateAdmit, Step
<1>8. ASSUME NEW c \in Clients, CreateFoundLate(c) PROVE MapInv'
  BY <1>8 DEF CreateFoundLate, Answer, Step
<1>9. ASSUME NEW c \in Clients, CreateRelookup(c) PROVE MapInv'
  BY <1>9 DEF CreateRelookup, NotYetRegistered, Step
<1>10. ASSUME NEW c \in Clients, CreateRefused(c) PROVE MapInv'
  BY <1>10 DEF CreateRefused, Answer, Step
<1>11. ASSUME NEW c \in Clients, CreateSpawn(c) PROVE MapInv'
  BY <1>11 DEF CreateSpawn, Step
<1>12. ASSUME NEW c \in Clients, CreateSpawnHalf(c) PROVE MapInv'
  BY <1>12 DEF CreateSpawnHalf, Answer, Step, SendSignal
<1>13. ASSUME NEW c \in Clients, CreateInsert(c) PROVE MapInv'
  BY <1>13 DEF CreateInsert, Answer, Step, SendSignal
<1>14. ASSUME NEW c \in Clients, ForgetRetire(c) PROVE MapInv'
  BY <1>14 DEF ForgetRetire, Step
<1>15. ASSUME NEW c \in Clients, ForgetTerminate(c) PROVE MapInv'
  BY <1>15 DEF ForgetTerminate, Step, SendSignal
<1>16. ASSUME NEW c \in Clients, ForgetClose(c) PROVE MapInv'
  BY <1>16 DEF ForgetClose, Step
<1>17. ASSUME NEW c \in Clients, ReconcileKeys(c) PROVE MapInv'
  BY <1>17 DEF ReconcileKeys, Step
<1>18. ASSUME NEW c \in Clients, ReconcilePublish(c) PROVE MapInv'
  BY <1>18 DEF ReconcilePublish, Answer, Step
<1>19. ASSUME NEW c \in Clients, KillSend(c) PROVE MapInv'
  BY <1>19 DEF KillSend, Answer, Step, SendSignal
<1>20. ASSUME NEW c \in Clients, WriteRefused(c) PROVE MapInv'
  BY <1>20 DEF WriteRefused, Answer, Step
<1>21. ASSUME NEW c \in Clients, WriteBegin(c) PROVE MapInv'
  BY <1>21 DEF WriteBegin, Step
<1>22. ASSUME NEW c \in Clients, WriteEnd(c) PROVE MapInv'
  BY <1>22 DEF WriteEnd, Answer, Step
<1>23. ASSUME NEW p \in Ptys, ChildExit(p) PROVE MapInv'
  BY <1>23 DEF ChildExit
<1>24. ASSUME NEW p \in Ptys, Reap(p) PROVE MapInv'
  BY <1>24 DEF Reap
<1>25. ASSUME NEW p \in Ptys, RecordExit(p) PROVE MapInv'
  BY <1>25 DEF RecordExit
<1>26. ASSUME NEW p \in Ptys, DrainReader(p) PROVE MapInv'
  BY <1>26 DEF DrainReader
<1>27. ASSUME NEW p \in Ptys, PublishExit(p) PROVE MapInv'
  BY <1>27 DEF PublishExit
<1>28. ASSUME MainReceive PROVE MapInv'
  BY <1>28 DEF MainReceive, Effective
<1>29. ASSUME MainTimeout PROVE MapInv'
  BY <1>29 DEF MainTimeout
<1>30. ASSUME DrainBegin PROVE MapInv'
  BY <1>30 DEF DrainBegin, DrainCanBegin, Droppable
<1>31. ASSUME DrainDrop PROVE MapInv'
  BY <1>31 DEF DrainDrop
<1>32. ASSUME DrainEnd PROVE MapInv'
  BY <1>32 DEF DrainEnd
<1>33. ASSUME NowBegin PROVE MapInv'
  BY <1>33 DEF NowBegin
<1>34. ASSUME NowKill PROVE MapInv'
  BY <1>34 DEF NowKill, SendSignal
<1>35. ASSUME NowEnd PROVE MapInv'
  BY <1>35 DEF NowEnd
<1>36. ASSUME MainCount PROVE MapInv'
  BY <1>36 DEF MainCount, DrainComplete
<1>37. ASSUME MainExit PROVE MapInv'
  BY <1>37 DEF MainExit
<1>38. ASSUME Signal PROVE MapInv'
  BY <1>38 DEF Signal, HasRoom
<1>39. CASE UNCHANGED vars
  BY <1>39 DEF vars
<1> HIDE DEF lockVars, mainVars, ptyVars, clientVars, LockInv, TypeOK, LocalInv, MapInv, ShutdownInv, InMap, HasHandle, ClientPCs, Admitted, MainPCs, MainAdmitted, Modes
<1>40. QED
  BY <1>1, <1>2, <1>3, <1>4, <1>5, <1>6, <1>7, <1>8, <1>9, <1>10, <1>11, <1>12, <1>13, <1>14, <1>15, <1>16, <1>17, <1>18, <1>19, <1>20, <1>21, <1>22, <1>23, <1>24, <1>25, <1>26, <1>27, <1>28, <1>29, <1>30, <1>31, <1>32, <1>33, <1>34, <1>35, <1>36, <1>37, <1>38, <1>39 DEF Next, Request, ClientStep, MainStep, ExitThread

\* What a shutdown carries from step to step.
LEMMA ShutdownStep ==
  ASSUME TypeOK, LockInv, LocalInv, MapInv, ShutdownInv, [Next]_vars
  PROVE  ShutdownInv'
<1> USE DEF lockVars, mainVars, ptyVars, clientVars, LockInv, TypeOK, LocalInv, MapInv, ShutdownInv, InMap, IsRunning, HasHandle, ClientPCs, Admitted, MainPCs, MainAdmitted, Modes
<1>1. ASSUME NEW c \in Clients, NEW i \in Ids, CreateLookup(c, i) PROVE ShutdownInv'
  BY <1>1 DEF CreateLookup, Step
<1>2. ASSUME NEW c \in Clients, NEW i \in Ids, ForgetRemove(c, i) PROVE ShutdownInv'
  BY <1>2 DEF ForgetRemove, Step
<1>3. ASSUME NEW c \in Clients, NEW i \in Ids, KillCheck(c, i) PROVE ShutdownInv'
  BY <1>3 DEF KillCheck, Step
<1>4. ASSUME NEW c \in Clients, NEW i \in Ids, WriteCheck(c, i) PROVE ShutdownInv'
  BY <1>4 DEF WriteCheck, Step
<1>5. ASSUME NEW c \in Clients, NEW mode \in Modes, RequestShutdown(c, mode) PROVE ShutdownInv'
  BY <1>5 DEF RequestShutdown, HasRoom
<1>6. ASSUME NEW c \in Clients, CreateRefusedByShutdown(c) PROVE ShutdownInv'
  BY <1>6 DEF CreateRefusedByShutdown, Answer, Step
<1>7. ASSUME NEW c \in Clients, CreateAdmit(c) PROVE ShutdownInv'
  BY <1>7 DEF CreateAdmit, Step
<1>8. ASSUME NEW c \in Clients, CreateFoundLate(c) PROVE ShutdownInv'
  BY <1>8 DEF CreateFoundLate, Answer, Step
<1>9. ASSUME NEW c \in Clients, CreateRelookup(c) PROVE ShutdownInv'
  BY <1>9 DEF CreateRelookup, NotYetRegistered, Step
<1>10. ASSUME NEW c \in Clients, CreateRefused(c) PROVE ShutdownInv'
  BY <1>10 DEF CreateRefused, Answer, Step
<1>11. ASSUME NEW c \in Clients, CreateSpawn(c) PROVE ShutdownInv'
  BY <1>11 DEF CreateSpawn, Step
<1>12. ASSUME NEW c \in Clients, CreateSpawnHalf(c) PROVE ShutdownInv'
  BY <1>12 DEF CreateSpawnHalf, Answer, Step, SendSignal
<1>13. ASSUME NEW c \in Clients, CreateInsert(c) PROVE ShutdownInv'
  BY <1>13 DEF CreateInsert, Answer, Step, SendSignal
<1>14. ASSUME NEW c \in Clients, ForgetRetire(c) PROVE ShutdownInv'
  BY <1>14 DEF ForgetRetire, Step
<1>15. ASSUME NEW c \in Clients, ForgetTerminate(c) PROVE ShutdownInv'
  BY <1>15 DEF ForgetTerminate, Step, SendSignal
<1>16. ASSUME NEW c \in Clients, ForgetClose(c) PROVE ShutdownInv'
  BY <1>16 DEF ForgetClose, Step
<1>17. ASSUME NEW c \in Clients, ReconcileKeys(c) PROVE ShutdownInv'
  BY <1>17 DEF ReconcileKeys, Step
<1>18. ASSUME NEW c \in Clients, ReconcilePublish(c) PROVE ShutdownInv'
  BY <1>18 DEF ReconcilePublish, Answer, Step
<1>19. ASSUME NEW c \in Clients, KillSend(c) PROVE ShutdownInv'
  BY <1>19 DEF KillSend, Answer, Step, SendSignal
<1>20. ASSUME NEW c \in Clients, WriteRefused(c) PROVE ShutdownInv'
  BY <1>20 DEF WriteRefused, Answer, Step
<1>21. ASSUME NEW c \in Clients, WriteBegin(c) PROVE ShutdownInv'
  BY <1>21 DEF WriteBegin, Step
<1>22. ASSUME NEW c \in Clients, WriteEnd(c) PROVE ShutdownInv'
  BY <1>22 DEF WriteEnd, Answer, Step
<1>23. ASSUME NEW p \in Ptys, ChildExit(p) PROVE ShutdownInv'
  BY <1>23 DEF ChildExit
<1>24. ASSUME NEW p \in Ptys, Reap(p) PROVE ShutdownInv'
  BY <1>24 DEF Reap
<1>25. ASSUME NEW p \in Ptys, RecordExit(p) PROVE ShutdownInv'
  BY <1>25 DEF RecordExit
<1>26. ASSUME NEW p \in Ptys, DrainReader(p) PROVE ShutdownInv'
  BY <1>26 DEF DrainReader
<1>27. ASSUME NEW p \in Ptys, PublishExit(p) PROVE ShutdownInv'
  BY <1>27 DEF PublishExit
<1>28. ASSUME MainReceive PROVE ShutdownInv'
  BY <1>28 DEF MainReceive, Effective
<1>29. ASSUME MainTimeout PROVE ShutdownInv'
  BY <1>29 DEF MainTimeout
<1>30. ASSUME DrainBegin PROVE ShutdownInv'
  BY <1>30 DEF DrainBegin, DrainCanBegin, Droppable
<1>31. ASSUME DrainDrop PROVE ShutdownInv'
  BY <1>31 DEF DrainDrop
<1>32. ASSUME DrainEnd PROVE ShutdownInv'
  BY <1>32 DEF DrainEnd
<1>33. ASSUME NowBegin PROVE ShutdownInv'
  <2>1. /\ main' = "sigkill" /\ main = "now"
        /\ \A i \in Ids : sessions'[i] = Nil
        /\ victims' = {p \in Ptys : \E i \in Ids : sessions[i] = p}
        /\ UNCHANGED <<exitAt, sent, verdict>>
    BY <1>33 DEF NowBegin
  <2>2. \A p \in victims' : exitAt[p] # "none"
    BY <2>1, SentinelAssumption
  <2>3. QED
    BY <2>1, <2>2
<1>34. ASSUME NowKill PROVE ShutdownInv'
  BY <1>34 DEF NowKill, SendSignal
<1>35. ASSUME NowEnd PROVE ShutdownInv'
  BY <1>35 DEF NowEnd
<1>36. ASSUME MainCount PROVE ShutdownInv'
  BY <1>36 DEF MainCount, DrainComplete
<1>37. ASSUME MainExit PROVE ShutdownInv'
  BY <1>37 DEF MainExit
<1>38. ASSUME Signal PROVE ShutdownInv'
  BY <1>38 DEF Signal, HasRoom
<1>39. CASE UNCHANGED vars
  BY <1>39 DEF vars
<1> HIDE DEF lockVars, mainVars, ptyVars, clientVars, LockInv, TypeOK, LocalInv, MapInv, ShutdownInv, InMap, IsRunning, HasHandle, ClientPCs, Admitted, MainPCs, MainAdmitted, Modes
<1>40. QED
  BY <1>1, <1>2, <1>3, <1>4, <1>5, <1>6, <1>7, <1>8, <1>9, <1>10, <1>11, <1>12, <1>13, <1>14, <1>15, <1>16, <1>17, <1>18, <1>19, <1>20, <1>21, <1>22, <1>23, <1>24, <1>25, <1>26, <1>27, <1>28, <1>29, <1>30, <1>31, <1>32, <1>33, <1>34, <1>35, <1>36, <1>37, <1>38, <1>39 DEF Next, Request, ClientStep, MainStep, ExitThread

\* A live PTY is never lost track of.
LEMMA NoOrphanStep ==
  ASSUME TypeOK, LockInv, LocalInv, MapInv, ShutdownInv, NoOrphan, [Next]_vars
  PROVE  NoOrphan'
<1> USE DEF lockVars, mainVars, ptyVars, clientVars, LockInv, TypeOK, LocalInv, MapInv, ShutdownInv, NoOrphan, Live, Forgotten, IsRunning, InMap, HasHandle, ClientPCs, Admitted, MainPCs, MainAdmitted, Modes
<1>1. ASSUME NEW c \in Clients, NEW i \in Ids, CreateLookup(c, i) PROVE NoOrphan'
  BY <1>1 DEF CreateLookup, Step
<1>2. ASSUME NEW c \in Clients, NEW i \in Ids, ForgetRemove(c, i) PROVE NoOrphan'
  BY <1>2 DEF ForgetRemove, Step
<1>3. ASSUME NEW c \in Clients, NEW i \in Ids, KillCheck(c, i) PROVE NoOrphan'
  BY <1>3 DEF KillCheck, Step
<1>4. ASSUME NEW c \in Clients, NEW i \in Ids, WriteCheck(c, i) PROVE NoOrphan'
  BY <1>4 DEF WriteCheck, Step
<1>5. ASSUME NEW c \in Clients, NEW mode \in Modes, RequestShutdown(c, mode) PROVE NoOrphan'
  BY <1>5 DEF RequestShutdown, HasRoom
<1>6. ASSUME NEW c \in Clients, CreateRefusedByShutdown(c) PROVE NoOrphan'
  BY <1>6 DEF CreateRefusedByShutdown, Answer, Step
<1>7. ASSUME NEW c \in Clients, CreateAdmit(c) PROVE NoOrphan'
  BY <1>7 DEF CreateAdmit, Step
<1>8. ASSUME NEW c \in Clients, CreateFoundLate(c) PROVE NoOrphan'
  BY <1>8 DEF CreateFoundLate, Answer, Step
<1>9. ASSUME NEW c \in Clients, CreateRelookup(c) PROVE NoOrphan'
  BY <1>9 DEF CreateRelookup, NotYetRegistered, Step
<1>10. ASSUME NEW c \in Clients, CreateRefused(c) PROVE NoOrphan'
  BY <1>10 DEF CreateRefused, Answer, Step
<1>11. ASSUME NEW c \in Clients, CreateSpawn(c) PROVE NoOrphan'
  BY <1>11 DEF CreateSpawn, Step
<1>12. ASSUME NEW c \in Clients, CreateSpawnHalf(c) PROVE NoOrphan'
  <2>1. /\ pc[c] = "spawn" /\ pc' = [pc EXCEPT ![c] = "idle"] /\ handle' = [handle EXCEPT ![c] = Nil]
        /\ UNCHANGED <<sessions, shuttingDown, mainVars, status, exitAt, retired, writer>>
    BY <1>12 DEF CreateSpawnHalf, Answer, Step
  <2>2. PICK p \in Ptys : /\ child' = [child EXCEPT ![p] = "running"]
                          /\ sent' = [q \in Ptys |-> IF q \in {p} THEN sent[q] \cup {"KILL"} ELSE sent[q]]
    <3> HIDE DEF LockInv, TypeOK, LocalInv, MapInv, ShutdownInv, NoOrphan
    <3> QED
      BY <1>12 DEF CreateSpawnHalf, SendSignal
  <2>3. "KILL" \in sent'[p]
    BY <2>2
  <2>4. \A q \in Ptys \ {p} : (Live(q)' <=> Live(q)) /\ sent'[q] = sent[q]
    BY <2>1, <2>2
  <2>5. \A q \in Ptys : InMap(q)' <=> InMap(q)
    BY <2>1
  <2>6. \A d \in Clients : d # c => pc'[d] = pc[d] /\ handle'[d] = handle[d]
    BY <2>1
  <2>7. \A q \in Ptys \ {p} : Forgotten(q) => Forgotten(q)'
    BY <2>1, <2>4, <2>6
  <2>8. QED
    BY <2>1, <2>3, <2>4, <2>5, <2>6, <2>7
<1>13. ASSUME NEW c \in Clients, CreateInsert(c) PROVE NoOrphan'
  <2>1. /\ pc[c] = "insert" /\ target[c] \in Ids /\ sessions[target[c]] = Nil
        /\ sessions' = [sessions EXCEPT ![target[c]] = handle[c]]
        /\ pc' = [pc EXCEPT ![c] = "idle"]
        /\ handle' = [handle EXCEPT ![c] = Nil]
        /\ UNCHANGED <<retired, sent, victims, exitAt, status>>
    BY <1>13 DEF CreateInsert, Answer, Step
  <2>2. TAKE p \in Ptys
  <2>3. HAVE Live(p)'
  <2>4. exitAt[p] # "none" /\ status[p] = "running"
    BY <2>1, <2>3
  <2>5. CASE p = handle[c]
    BY <2>1, <2>5
  <2>6. ASSUME NEW i \in Ids, sessions[i] = p PROVE sessions'[i] = p
    BY <2>1, <2>6, SentinelAssumption
  <2>7. ASSUME NEW d \in Clients, d # c PROVE pc'[d] = pc[d] /\ handle'[d] = handle[d]
    BY <2>1, <2>7
  <2>8. QED
    BY <2>1, <2>4, <2>5, <2>6, <2>7
<1>14. ASSUME NEW c \in Clients, ForgetRetire(c) PROVE NoOrphan'
  BY <1>14 DEF ForgetRetire, Step
<1>15. ASSUME NEW c \in Clients, ForgetTerminate(c) PROVE NoOrphan'
  BY <1>15 DEF ForgetTerminate, Step, SendSignal
<1>16. ASSUME NEW c \in Clients, ForgetClose(c) PROVE NoOrphan'
  BY <1>16 DEF ForgetClose, Step
<1>17. ASSUME NEW c \in Clients, ReconcileKeys(c) PROVE NoOrphan'
  BY <1>17 DEF ReconcileKeys, Step
<1>18. ASSUME NEW c \in Clients, ReconcilePublish(c) PROVE NoOrphan'
  BY <1>18 DEF ReconcilePublish, Answer, Step
<1>19. ASSUME NEW c \in Clients, KillSend(c) PROVE NoOrphan'
  BY <1>19 DEF KillSend, Answer, Step, SendSignal
<1>20. ASSUME NEW c \in Clients, WriteRefused(c) PROVE NoOrphan'
  BY <1>20 DEF WriteRefused, Answer, Step
<1>21. ASSUME NEW c \in Clients, WriteBegin(c) PROVE NoOrphan'
  BY <1>21 DEF WriteBegin, Step
<1>22. ASSUME NEW c \in Clients, WriteEnd(c) PROVE NoOrphan'
  BY <1>22 DEF WriteEnd, Answer, Step
<1>23. ASSUME NEW p \in Ptys, ChildExit(p) PROVE NoOrphan'
  BY <1>23 DEF ChildExit
<1>24. ASSUME NEW p \in Ptys, Reap(p) PROVE NoOrphan'
  BY <1>24 DEF Reap
<1>25. ASSUME NEW p \in Ptys, RecordExit(p) PROVE NoOrphan'
  BY <1>25 DEF RecordExit
<1>26. ASSUME NEW p \in Ptys, DrainReader(p) PROVE NoOrphan'
  BY <1>26 DEF DrainReader
<1>27. ASSUME NEW p \in Ptys, PublishExit(p) PROVE NoOrphan'
  BY <1>27 DEF PublishExit
<1>28. ASSUME MainReceive PROVE NoOrphan'
  BY <1>28 DEF MainReceive, Effective
<1>29. ASSUME MainTimeout PROVE NoOrphan'
  BY <1>29 DEF MainTimeout
<1>30. ASSUME DrainBegin PROVE NoOrphan'
  BY <1>30 DEF DrainBegin, DrainCanBegin, Droppable
<1>31. ASSUME DrainDrop PROVE NoOrphan'
  BY <1>31 DEF DrainDrop
<1>32. ASSUME DrainEnd PROVE NoOrphan'
  BY <1>32 DEF DrainEnd
<1>33. ASSUME NowBegin PROVE NoOrphan'
  BY <1>33 DEF NowBegin
<1>34. ASSUME NowKill PROVE NoOrphan'
  BY <1>34 DEF NowKill, SendSignal
<1>35. ASSUME NowEnd PROVE NoOrphan'
  BY <1>35 DEF NowEnd
<1>36. ASSUME MainCount PROVE NoOrphan'
  BY <1>36 DEF MainCount, DrainComplete
<1>37. ASSUME MainExit PROVE NoOrphan'
  BY <1>37 DEF MainExit
<1>38. ASSUME Signal PROVE NoOrphan'
  BY <1>38 DEF Signal, HasRoom
<1>39. CASE UNCHANGED vars
  BY <1>39 DEF vars
<1> HIDE DEF lockVars, mainVars, ptyVars, clientVars, LockInv, TypeOK, LocalInv, MapInv, ShutdownInv, NoOrphan, Live, Forgotten, IsRunning, InMap, HasHandle, ClientPCs, Admitted, MainPCs, MainAdmitted, Modes
<1>40. QED
  BY <1>1, <1>2, <1>3, <1>4, <1>5, <1>6, <1>7, <1>8, <1>9, <1>10, <1>11, <1>12, <1>13, <1>14, <1>15, <1>16, <1>17, <1>18, <1>19, <1>20, <1>21, <1>22, <1>23, <1>24, <1>25, <1>26, <1>27, <1>28, <1>29, <1>30, <1>31, <1>32, <1>33, <1>34, <1>35, <1>36, <1>37, <1>38, <1>39 DEF Next, Request, ClientStep, MainStep, ExitThread

\* At most one live PTY per id that nobody forgot.
LEMMA OnePtyStep ==
  ASSUME TypeOK, LockInv, LocalInv, MapInv, ShutdownInv, NoOrphan, OnePtyPerId, [Next]_vars
  PROVE  OnePtyPerId'
<1> USE DEF lockVars, mainVars, ptyVars, clientVars, LockInv, TypeOK, LocalInv, MapInv, ShutdownInv, NoOrphan, Live, Forgotten, IsRunning, InMap, HasHandle, ClientPCs, Admitted, MainPCs, MainAdmitted, Modes, OnePtyPerId
<1>1. ASSUME NEW c \in Clients, NEW i \in Ids, CreateLookup(c, i) PROVE OnePtyPerId'
  BY <1>1 DEF CreateLookup, Step
<1>2. ASSUME NEW c \in Clients, NEW i \in Ids, ForgetRemove(c, i) PROVE OnePtyPerId'
  BY <1>2 DEF ForgetRemove, Step
<1>3. ASSUME NEW c \in Clients, NEW i \in Ids, KillCheck(c, i) PROVE OnePtyPerId'
  BY <1>3 DEF KillCheck, Step
<1>4. ASSUME NEW c \in Clients, NEW i \in Ids, WriteCheck(c, i) PROVE OnePtyPerId'
  BY <1>4 DEF WriteCheck, Step
<1>5. ASSUME NEW c \in Clients, NEW mode \in Modes, RequestShutdown(c, mode) PROVE OnePtyPerId'
  BY <1>5 DEF RequestShutdown, HasRoom
<1>6. ASSUME NEW c \in Clients, CreateRefusedByShutdown(c) PROVE OnePtyPerId'
  BY <1>6 DEF CreateRefusedByShutdown, Answer, Step
<1>7. ASSUME NEW c \in Clients, CreateAdmit(c) PROVE OnePtyPerId'
  BY <1>7 DEF CreateAdmit, Step
<1>8. ASSUME NEW c \in Clients, CreateFoundLate(c) PROVE OnePtyPerId'
  BY <1>8 DEF CreateFoundLate, Answer, Step
<1>9. ASSUME NEW c \in Clients, CreateRelookup(c) PROVE OnePtyPerId'
  BY <1>9 DEF CreateRelookup, NotYetRegistered, Step
<1>10. ASSUME NEW c \in Clients, CreateRefused(c) PROVE OnePtyPerId'
  BY <1>10 DEF CreateRefused, Answer, Step
<1>11. ASSUME NEW c \in Clients, CreateSpawn(c) PROVE OnePtyPerId'
  <2>1. PICK n \in Ptys :
          /\ child[n] = "unborn"
          /\ exitAt' = [exitAt EXCEPT ![n] = "wait"]
          /\ owner' = [owner EXCEPT ![n] = target[c]]
    BY <1>11 DEF CreateSpawn
  <2>2. /\ pc[c] = "spawn" /\ pc' = [pc EXCEPT ![c] = "insert"] /\ admission = c
        /\ target[c] \in Ids /\ sessions[target[c]] = Nil /\ ~shuttingDown
        /\ handle' = [handle EXCEPT ![c] = handle'[c]]
        /\ UNCHANGED <<retired, status>>
    BY <1>11 DEF CreateSpawn, Step
  <2>3. ASSUME NEW q \in Ptys, q # n, owner[q] = target[c], exitAt[q] # "none", status[q] = "running"
        PROVE  Forgotten(q)
    <3>1. \A d \in Clients : pc[d] # "insert"
      BY <2>2
    <3>2. main \notin {"sigkill", "killed"} /\ verdict = "none" /\ victims = {}
      BY <2>2, SentinelAssumption
    <3>3. ~InMap(q)
      BY <2>2, <2>3, SentinelAssumption
    <3>4. QED
      BY <2>3, <3>1, <3>2, <3>3
  <2>4. \A q \in Ptys : Forgotten(q) => Forgotten(q)'
    BY <2>2
  <2>5. QED
    BY <2>1, <2>2, <2>3, <2>4
<1>12. ASSUME NEW c \in Clients, CreateSpawnHalf(c) PROVE OnePtyPerId'
  BY <1>12 DEF CreateSpawnHalf, Answer, Step, SendSignal
<1>13. ASSUME NEW c \in Clients, CreateInsert(c) PROVE OnePtyPerId'
  BY <1>13 DEF CreateInsert, Answer, Step, SendSignal
<1>14. ASSUME NEW c \in Clients, ForgetRetire(c) PROVE OnePtyPerId'
  BY <1>14 DEF ForgetRetire, Step
<1>15. ASSUME NEW c \in Clients, ForgetTerminate(c) PROVE OnePtyPerId'
  BY <1>15 DEF ForgetTerminate, Step, SendSignal
<1>16. ASSUME NEW c \in Clients, ForgetClose(c) PROVE OnePtyPerId'
  BY <1>16 DEF ForgetClose, Step
<1>17. ASSUME NEW c \in Clients, ReconcileKeys(c) PROVE OnePtyPerId'
  BY <1>17 DEF ReconcileKeys, Step
<1>18. ASSUME NEW c \in Clients, ReconcilePublish(c) PROVE OnePtyPerId'
  BY <1>18 DEF ReconcilePublish, Answer, Step
<1>19. ASSUME NEW c \in Clients, KillSend(c) PROVE OnePtyPerId'
  BY <1>19 DEF KillSend, Answer, Step, SendSignal
<1>20. ASSUME NEW c \in Clients, WriteRefused(c) PROVE OnePtyPerId'
  BY <1>20 DEF WriteRefused, Answer, Step
<1>21. ASSUME NEW c \in Clients, WriteBegin(c) PROVE OnePtyPerId'
  BY <1>21 DEF WriteBegin, Step
<1>22. ASSUME NEW c \in Clients, WriteEnd(c) PROVE OnePtyPerId'
  BY <1>22 DEF WriteEnd, Answer, Step
<1>23. ASSUME NEW p \in Ptys, ChildExit(p) PROVE OnePtyPerId'
  BY <1>23 DEF ChildExit
<1>24. ASSUME NEW p \in Ptys, Reap(p) PROVE OnePtyPerId'
  BY <1>24 DEF Reap
<1>25. ASSUME NEW p \in Ptys, RecordExit(p) PROVE OnePtyPerId'
  BY <1>25 DEF RecordExit
<1>26. ASSUME NEW p \in Ptys, DrainReader(p) PROVE OnePtyPerId'
  BY <1>26 DEF DrainReader
<1>27. ASSUME NEW p \in Ptys, PublishExit(p) PROVE OnePtyPerId'
  BY <1>27 DEF PublishExit
<1>28. ASSUME MainReceive PROVE OnePtyPerId'
  BY <1>28 DEF MainReceive, Effective
<1>29. ASSUME MainTimeout PROVE OnePtyPerId'
  BY <1>29 DEF MainTimeout
<1>30. ASSUME DrainBegin PROVE OnePtyPerId'
  BY <1>30 DEF DrainBegin, DrainCanBegin, Droppable
<1>31. ASSUME DrainDrop PROVE OnePtyPerId'
  BY <1>31 DEF DrainDrop
<1>32. ASSUME DrainEnd PROVE OnePtyPerId'
  BY <1>32 DEF DrainEnd
<1>33. ASSUME NowBegin PROVE OnePtyPerId'
  BY <1>33 DEF NowBegin
<1>34. ASSUME NowKill PROVE OnePtyPerId'
  BY <1>34 DEF NowKill, SendSignal
<1>35. ASSUME NowEnd PROVE OnePtyPerId'
  BY <1>35 DEF NowEnd
<1>36. ASSUME MainCount PROVE OnePtyPerId'
  BY <1>36 DEF MainCount, DrainComplete
<1>37. ASSUME MainExit PROVE OnePtyPerId'
  BY <1>37 DEF MainExit
<1>38. ASSUME Signal PROVE OnePtyPerId'
  BY <1>38 DEF Signal, HasRoom
<1>39. CASE UNCHANGED vars
  BY <1>39 DEF vars
<1> HIDE DEF lockVars, mainVars, ptyVars, clientVars, LockInv, TypeOK, LocalInv, MapInv, ShutdownInv, NoOrphan, Live, Forgotten, IsRunning, InMap, HasHandle, ClientPCs, Admitted, MainPCs, MainAdmitted, Modes, OnePtyPerId
<1>40. QED
  BY <1>1, <1>2, <1>3, <1>4, <1>5, <1>6, <1>7, <1>8, <1>9, <1>10, <1>11, <1>12, <1>13, <1>14, <1>15, <1>16, <1>17, <1>18, <1>19, <1>20, <1>21, <1>22, <1>23, <1>24, <1>25, <1>26, <1>27, <1>28, <1>29, <1>30, <1>31, <1>32, <1>33, <1>34, <1>35, <1>36, <1>37, <1>38, <1>39 DEF Next, Request, ClientStep, MainStep, ExitThread

\* The daemon leaves nothing running behind.
LEMMA LeaveStep ==
  ASSUME TypeOK, LockInv, LocalInv, MapInv, ShutdownInv, NoOrphan, LeavesNothingRunning, [Next]_vars
  PROVE  LeavesNothingRunning'
<1> USE DEF lockVars, mainVars, ptyVars, clientVars, LockInv, TypeOK, LocalInv, MapInv, ShutdownInv, NoOrphan, Live, Forgotten, IsRunning, InMap, HasHandle, ClientPCs, Admitted, MainPCs, MainAdmitted, Modes, LeavesNothingRunning
<1>1. ASSUME NEW c \in Clients, NEW i \in Ids, CreateLookup(c, i) PROVE LeavesNothingRunning'
  BY <1>1 DEF CreateLookup, Step
<1>2. ASSUME NEW c \in Clients, NEW i \in Ids, ForgetRemove(c, i) PROVE LeavesNothingRunning'
  BY <1>2 DEF ForgetRemove, Step
<1>3. ASSUME NEW c \in Clients, NEW i \in Ids, KillCheck(c, i) PROVE LeavesNothingRunning'
  BY <1>3 DEF KillCheck, Step
<1>4. ASSUME NEW c \in Clients, NEW i \in Ids, WriteCheck(c, i) PROVE LeavesNothingRunning'
  BY <1>4 DEF WriteCheck, Step
<1>5. ASSUME NEW c \in Clients, NEW mode \in Modes, RequestShutdown(c, mode) PROVE LeavesNothingRunning'
  BY <1>5 DEF RequestShutdown, HasRoom
<1>6. ASSUME NEW c \in Clients, CreateRefusedByShutdown(c) PROVE LeavesNothingRunning'
  BY <1>6 DEF CreateRefusedByShutdown, Answer, Step
<1>7. ASSUME NEW c \in Clients, CreateAdmit(c) PROVE LeavesNothingRunning'
  BY <1>7 DEF CreateAdmit, Step
<1>8. ASSUME NEW c \in Clients, CreateFoundLate(c) PROVE LeavesNothingRunning'
  BY <1>8 DEF CreateFoundLate, Answer, Step
<1>9. ASSUME NEW c \in Clients, CreateRelookup(c) PROVE LeavesNothingRunning'
  BY <1>9 DEF CreateRelookup, NotYetRegistered, Step
<1>10. ASSUME NEW c \in Clients, CreateRefused(c) PROVE LeavesNothingRunning'
  BY <1>10 DEF CreateRefused, Answer, Step
<1>11. ASSUME NEW c \in Clients, CreateSpawn(c) PROVE LeavesNothingRunning'
  BY <1>11 DEF CreateSpawn, Step
<1>12. ASSUME NEW c \in Clients, CreateSpawnHalf(c) PROVE LeavesNothingRunning'
  BY <1>12 DEF CreateSpawnHalf, Answer, Step, SendSignal
<1>13. ASSUME NEW c \in Clients, CreateInsert(c) PROVE LeavesNothingRunning'
  BY <1>13 DEF CreateInsert, Answer, Step, SendSignal
<1>14. ASSUME NEW c \in Clients, ForgetRetire(c) PROVE LeavesNothingRunning'
  BY <1>14 DEF ForgetRetire, Step
<1>15. ASSUME NEW c \in Clients, ForgetTerminate(c) PROVE LeavesNothingRunning'
  BY <1>15 DEF ForgetTerminate, Step, SendSignal
<1>16. ASSUME NEW c \in Clients, ForgetClose(c) PROVE LeavesNothingRunning'
  BY <1>16 DEF ForgetClose, Step
<1>17. ASSUME NEW c \in Clients, ReconcileKeys(c) PROVE LeavesNothingRunning'
  BY <1>17 DEF ReconcileKeys, Step
<1>18. ASSUME NEW c \in Clients, ReconcilePublish(c) PROVE LeavesNothingRunning'
  BY <1>18 DEF ReconcilePublish, Answer, Step
<1>19. ASSUME NEW c \in Clients, KillSend(c) PROVE LeavesNothingRunning'
  BY <1>19 DEF KillSend, Answer, Step, SendSignal
<1>20. ASSUME NEW c \in Clients, WriteRefused(c) PROVE LeavesNothingRunning'
  BY <1>20 DEF WriteRefused, Answer, Step
<1>21. ASSUME NEW c \in Clients, WriteBegin(c) PROVE LeavesNothingRunning'
  BY <1>21 DEF WriteBegin, Step
<1>22. ASSUME NEW c \in Clients, WriteEnd(c) PROVE LeavesNothingRunning'
  BY <1>22 DEF WriteEnd, Answer, Step
<1>23. ASSUME NEW p \in Ptys, ChildExit(p) PROVE LeavesNothingRunning'
  BY <1>23 DEF ChildExit
<1>24. ASSUME NEW p \in Ptys, Reap(p) PROVE LeavesNothingRunning'
  BY <1>24 DEF Reap
<1>25. ASSUME NEW p \in Ptys, RecordExit(p) PROVE LeavesNothingRunning'
  BY <1>25 DEF RecordExit
<1>26. ASSUME NEW p \in Ptys, DrainReader(p) PROVE LeavesNothingRunning'
  BY <1>26 DEF DrainReader
<1>27. ASSUME NEW p \in Ptys, PublishExit(p) PROVE LeavesNothingRunning'
  BY <1>27 DEF PublishExit
<1>28. ASSUME MainReceive PROVE LeavesNothingRunning'
  BY <1>28 DEF MainReceive, Effective
<1>29. ASSUME MainTimeout PROVE LeavesNothingRunning'
  BY <1>29 DEF MainTimeout
<1>30. ASSUME DrainBegin PROVE LeavesNothingRunning'
  BY <1>30 DEF DrainBegin, DrainCanBegin, Droppable
<1>31. ASSUME DrainDrop PROVE LeavesNothingRunning'
  BY <1>31 DEF DrainDrop
<1>32. ASSUME DrainEnd PROVE LeavesNothingRunning'
  BY <1>32 DEF DrainEnd
<1>33. ASSUME NowBegin PROVE LeavesNothingRunning'
  BY <1>33 DEF NowBegin
<1>34. ASSUME NowKill PROVE LeavesNothingRunning'
  BY <1>34 DEF NowKill, SendSignal
<1>35. ASSUME NowEnd PROVE LeavesNothingRunning'
  <2>1. /\ main = "killed" /\ verdict' = "now" /\ victims = {} /\ shuttingDown
        /\ \A i \in Ids : sessions[i] = Nil
        /\ UNCHANGED <<pc, handle, retired, sent, exitAt, status>>
    BY <1>35 DEF NowEnd
  <2>2. \A d \in Clients : pc[d] # "insert"
    BY <2>1, <1>35, SentinelAssumption DEF NowEnd
  <2>3. QED
    BY <2>1, <2>2, SentinelAssumption
<1>36. ASSUME MainCount PROVE LeavesNothingRunning'
  <2>1. /\ main = "count" /\ shuttingDown /\ victims = {} /\ verdict = "none"
        /\ UNCHANGED <<pc, handle, retired, sent, exitAt, status>>
    BY <1>36 DEF MainCount
  <2>2. \A d \in Clients : pc[d] # "insert"
    BY <2>1
  <2>3. CASE verdict' = "none"
    BY <2>3
  <2>4. CASE DrainComplete
    <3>1. \A p \in Ptys : ~(InMap(p) /\ status[p] = "running")
      BY <2>4 DEF DrainComplete, RunningSessions
    <3>2. \A p \in Ptys : exitAt[p] # "none" => "KILL" \notin sent[p]
      BY <2>1
    <3>3. ASSUME NEW p \in Ptys, exitAt[p] # "none", status[p] = "running" PROVE Forgotten(p)
      BY <2>1, <2>2, <3>1, <3>2, <3>3
    <3>4. QED
      BY <2>1, <3>3
  <2>5. QED
    BY <1>36, <2>1, <2>3, <2>4 DEF MainCount
<1>37. ASSUME MainExit PROVE LeavesNothingRunning'
  BY <1>37 DEF MainExit
<1>38. ASSUME Signal PROVE LeavesNothingRunning'
  BY <1>38 DEF Signal, HasRoom
<1>39. CASE UNCHANGED vars
  BY <1>39 DEF vars
<1> HIDE DEF lockVars, mainVars, ptyVars, clientVars, LockInv, TypeOK, LocalInv, MapInv, ShutdownInv, NoOrphan, Live, Forgotten, IsRunning, InMap, HasHandle, ClientPCs, Admitted, MainPCs, MainAdmitted, Modes, LeavesNothingRunning
<1>40. QED
  BY <1>1, <1>2, <1>3, <1>4, <1>5, <1>6, <1>7, <1>8, <1>9, <1>10, <1>11, <1>12, <1>13, <1>14, <1>15, <1>16, <1>17, <1>18, <1>19, <1>20, <1>21, <1>22, <1>23, <1>24, <1>25, <1>26, <1>27, <1>28, <1>29, <1>30, <1>31, <1>32, <1>33, <1>34, <1>35, <1>36, <1>37, <1>38, <1>39 DEF Next, Request, ClientStep, MainStep, ExitThread

\* No entry is added and no exited session runs again.
MapOnlyShrinks ==
  /\ \A i \in Ids : sessions'[i] \in {sessions[i], Nil}
  /\ \A p \in Ptys : status'[p] = "running" => status[p] = "running"

\* A client about to register a PTY was below the limit when it spawned it.
OnlyAdmittedInsert ==
  \A d \in Clients : pc'[d] = "insert" => pc[d] = "insert" \/ BelowLimit

\* Only a registration puts anything into the map.
LEMMA MapShrinks ==
  ASSUME TypeOK, \A c \in Clients : ~CreateInsert(c), [Next]_vars
  PROVE  MapOnlyShrinks
<1> USE DEF lockVars, mainVars, ptyVars, clientVars, TypeOK, MapOnlyShrinks, ClientPCs, Admitted, MainPCs, MainAdmitted, Modes
<1>1. ASSUME NEW c \in Clients, NEW i \in Ids, CreateLookup(c, i) PROVE MapOnlyShrinks
  BY <1>1 DEF CreateLookup, Step
<1>2. ASSUME NEW c \in Clients, NEW i \in Ids, ForgetRemove(c, i) PROVE MapOnlyShrinks
  BY <1>2 DEF ForgetRemove, Step
<1>3. ASSUME NEW c \in Clients, NEW i \in Ids, KillCheck(c, i) PROVE MapOnlyShrinks
  BY <1>3 DEF KillCheck, Step
<1>4. ASSUME NEW c \in Clients, NEW i \in Ids, WriteCheck(c, i) PROVE MapOnlyShrinks
  BY <1>4 DEF WriteCheck, Step
<1>5. ASSUME NEW c \in Clients, NEW mode \in Modes, RequestShutdown(c, mode) PROVE MapOnlyShrinks
  BY <1>5 DEF RequestShutdown, HasRoom
<1>6. ASSUME NEW c \in Clients, CreateRefusedByShutdown(c) PROVE MapOnlyShrinks
  BY <1>6 DEF CreateRefusedByShutdown, Answer, Step
<1>7. ASSUME NEW c \in Clients, CreateAdmit(c) PROVE MapOnlyShrinks
  BY <1>7 DEF CreateAdmit, Step
<1>8. ASSUME NEW c \in Clients, CreateFoundLate(c) PROVE MapOnlyShrinks
  BY <1>8 DEF CreateFoundLate, Answer, Step
<1>9. ASSUME NEW c \in Clients, CreateRelookup(c) PROVE MapOnlyShrinks
  BY <1>9 DEF CreateRelookup, NotYetRegistered, Step
<1>10. ASSUME NEW c \in Clients, CreateRefused(c) PROVE MapOnlyShrinks
  BY <1>10 DEF CreateRefused, Answer, Step
<1>11. ASSUME NEW c \in Clients, CreateSpawn(c) PROVE MapOnlyShrinks
  BY <1>11 DEF CreateSpawn, Step
<1>12. ASSUME NEW c \in Clients, CreateSpawnHalf(c) PROVE MapOnlyShrinks
  BY <1>12 DEF CreateSpawnHalf, Answer, Step, SendSignal
<1>13. ASSUME NEW c \in Clients, CreateInsert(c) PROVE MapOnlyShrinks
  BY <1>13
<1>14. ASSUME NEW c \in Clients, ForgetRetire(c) PROVE MapOnlyShrinks
  BY <1>14 DEF ForgetRetire, Step
<1>15. ASSUME NEW c \in Clients, ForgetTerminate(c) PROVE MapOnlyShrinks
  BY <1>15 DEF ForgetTerminate, Step, SendSignal
<1>16. ASSUME NEW c \in Clients, ForgetClose(c) PROVE MapOnlyShrinks
  BY <1>16 DEF ForgetClose, Step
<1>17. ASSUME NEW c \in Clients, ReconcileKeys(c) PROVE MapOnlyShrinks
  BY <1>17 DEF ReconcileKeys, Step
<1>18. ASSUME NEW c \in Clients, ReconcilePublish(c) PROVE MapOnlyShrinks
  BY <1>18 DEF ReconcilePublish, Answer, Step
<1>19. ASSUME NEW c \in Clients, KillSend(c) PROVE MapOnlyShrinks
  BY <1>19 DEF KillSend, Answer, Step, SendSignal
<1>20. ASSUME NEW c \in Clients, WriteRefused(c) PROVE MapOnlyShrinks
  BY <1>20 DEF WriteRefused, Answer, Step
<1>21. ASSUME NEW c \in Clients, WriteBegin(c) PROVE MapOnlyShrinks
  BY <1>21 DEF WriteBegin, Step
<1>22. ASSUME NEW c \in Clients, WriteEnd(c) PROVE MapOnlyShrinks
  BY <1>22 DEF WriteEnd, Answer, Step
<1>23. ASSUME NEW p \in Ptys, ChildExit(p) PROVE MapOnlyShrinks
  BY <1>23 DEF ChildExit
<1>24. ASSUME NEW p \in Ptys, Reap(p) PROVE MapOnlyShrinks
  BY <1>24 DEF Reap
<1>25. ASSUME NEW p \in Ptys, RecordExit(p) PROVE MapOnlyShrinks
  BY <1>25 DEF RecordExit
<1>26. ASSUME NEW p \in Ptys, DrainReader(p) PROVE MapOnlyShrinks
  BY <1>26 DEF DrainReader
<1>27. ASSUME NEW p \in Ptys, PublishExit(p) PROVE MapOnlyShrinks
  BY <1>27 DEF PublishExit
<1>28. ASSUME MainReceive PROVE MapOnlyShrinks
  BY <1>28 DEF MainReceive, Effective
<1>29. ASSUME MainTimeout PROVE MapOnlyShrinks
  BY <1>29 DEF MainTimeout
<1>30. ASSUME DrainBegin PROVE MapOnlyShrinks
  BY <1>30 DEF DrainBegin, DrainCanBegin, Droppable
<1>31. ASSUME DrainDrop PROVE MapOnlyShrinks
  BY <1>31 DEF DrainDrop
<1>32. ASSUME DrainEnd PROVE MapOnlyShrinks
  BY <1>32 DEF DrainEnd
<1>33. ASSUME NowBegin PROVE MapOnlyShrinks
  BY <1>33 DEF NowBegin
<1>34. ASSUME NowKill PROVE MapOnlyShrinks
  BY <1>34 DEF NowKill, SendSignal
<1>35. ASSUME NowEnd PROVE MapOnlyShrinks
  BY <1>35 DEF NowEnd
<1>36. ASSUME MainCount PROVE MapOnlyShrinks
  BY <1>36 DEF MainCount, DrainComplete
<1>37. ASSUME MainExit PROVE MapOnlyShrinks
  BY <1>37 DEF MainExit
<1>38. ASSUME Signal PROVE MapOnlyShrinks
  BY <1>38 DEF Signal, HasRoom
<1>39. CASE UNCHANGED vars
  BY <1>39 DEF vars
<1> HIDE DEF lockVars, mainVars, ptyVars, clientVars, TypeOK, MapOnlyShrinks, ClientPCs, Admitted, MainPCs, MainAdmitted, Modes
<1>40. QED
  BY <1>1, <1>2, <1>3, <1>4, <1>5, <1>6, <1>7, <1>8, <1>9, <1>10, <1>11, <1>12, <1>13, <1>14, <1>15, <1>16, <1>17, <1>18, <1>19, <1>20, <1>21, <1>22, <1>23, <1>24, <1>25, <1>26, <1>27, <1>28, <1>29, <1>30, <1>31, <1>32, <1>33, <1>34, <1>35, <1>36, <1>37, <1>38, <1>39 DEF Next, Request, ClientStep, MainStep, ExitThread

\* A client registers only what it spawned below the limit.
LEMMA RegistrationWasAdmitted ==
  ASSUME TypeOK, [Next]_vars
  PROVE  OnlyAdmittedInsert
<1> USE DEF lockVars, mainVars, ptyVars, clientVars, TypeOK, OnlyAdmittedInsert, ClientPCs, Admitted, MainPCs, MainAdmitted, Modes
<1>1. ASSUME NEW c \in Clients, NEW i \in Ids, CreateLookup(c, i) PROVE OnlyAdmittedInsert
  BY <1>1 DEF CreateLookup, Step
<1>2. ASSUME NEW c \in Clients, NEW i \in Ids, ForgetRemove(c, i) PROVE OnlyAdmittedInsert
  BY <1>2 DEF ForgetRemove, Step
<1>3. ASSUME NEW c \in Clients, NEW i \in Ids, KillCheck(c, i) PROVE OnlyAdmittedInsert
  BY <1>3 DEF KillCheck, Step
<1>4. ASSUME NEW c \in Clients, NEW i \in Ids, WriteCheck(c, i) PROVE OnlyAdmittedInsert
  BY <1>4 DEF WriteCheck, Step
<1>5. ASSUME NEW c \in Clients, NEW mode \in Modes, RequestShutdown(c, mode) PROVE OnlyAdmittedInsert
  BY <1>5 DEF RequestShutdown, HasRoom
<1>6. ASSUME NEW c \in Clients, CreateRefusedByShutdown(c) PROVE OnlyAdmittedInsert
  BY <1>6 DEF CreateRefusedByShutdown, Answer, Step
<1>7. ASSUME NEW c \in Clients, CreateAdmit(c) PROVE OnlyAdmittedInsert
  BY <1>7 DEF CreateAdmit, Step
<1>8. ASSUME NEW c \in Clients, CreateFoundLate(c) PROVE OnlyAdmittedInsert
  BY <1>8 DEF CreateFoundLate, Answer, Step
<1>9. ASSUME NEW c \in Clients, CreateRelookup(c) PROVE OnlyAdmittedInsert
  BY <1>9 DEF CreateRelookup, NotYetRegistered, Step
<1>10. ASSUME NEW c \in Clients, CreateRefused(c) PROVE OnlyAdmittedInsert
  BY <1>10 DEF CreateRefused, Answer, Step
<1>11. ASSUME NEW c \in Clients, CreateSpawn(c) PROVE OnlyAdmittedInsert
  BY <1>11 DEF CreateSpawn, Step
<1>12. ASSUME NEW c \in Clients, CreateSpawnHalf(c) PROVE OnlyAdmittedInsert
  BY <1>12 DEF CreateSpawnHalf, Answer, Step, SendSignal
<1>13. ASSUME NEW c \in Clients, CreateInsert(c) PROVE OnlyAdmittedInsert
  BY <1>13 DEF CreateInsert, Answer, Step
<1>14. ASSUME NEW c \in Clients, ForgetRetire(c) PROVE OnlyAdmittedInsert
  BY <1>14 DEF ForgetRetire, Step
<1>15. ASSUME NEW c \in Clients, ForgetTerminate(c) PROVE OnlyAdmittedInsert
  BY <1>15 DEF ForgetTerminate, Step, SendSignal
<1>16. ASSUME NEW c \in Clients, ForgetClose(c) PROVE OnlyAdmittedInsert
  BY <1>16 DEF ForgetClose, Step
<1>17. ASSUME NEW c \in Clients, ReconcileKeys(c) PROVE OnlyAdmittedInsert
  BY <1>17 DEF ReconcileKeys, Step
<1>18. ASSUME NEW c \in Clients, ReconcilePublish(c) PROVE OnlyAdmittedInsert
  BY <1>18 DEF ReconcilePublish, Answer, Step
<1>19. ASSUME NEW c \in Clients, KillSend(c) PROVE OnlyAdmittedInsert
  BY <1>19 DEF KillSend, Answer, Step, SendSignal
<1>20. ASSUME NEW c \in Clients, WriteRefused(c) PROVE OnlyAdmittedInsert
  BY <1>20 DEF WriteRefused, Answer, Step
<1>21. ASSUME NEW c \in Clients, WriteBegin(c) PROVE OnlyAdmittedInsert
  BY <1>21 DEF WriteBegin, Step
<1>22. ASSUME NEW c \in Clients, WriteEnd(c) PROVE OnlyAdmittedInsert
  BY <1>22 DEF WriteEnd, Answer, Step
<1>23. ASSUME NEW p \in Ptys, ChildExit(p) PROVE OnlyAdmittedInsert
  BY <1>23 DEF ChildExit
<1>24. ASSUME NEW p \in Ptys, Reap(p) PROVE OnlyAdmittedInsert
  BY <1>24 DEF Reap
<1>25. ASSUME NEW p \in Ptys, RecordExit(p) PROVE OnlyAdmittedInsert
  BY <1>25 DEF RecordExit
<1>26. ASSUME NEW p \in Ptys, DrainReader(p) PROVE OnlyAdmittedInsert
  BY <1>26 DEF DrainReader
<1>27. ASSUME NEW p \in Ptys, PublishExit(p) PROVE OnlyAdmittedInsert
  BY <1>27 DEF PublishExit
<1>28. ASSUME MainReceive PROVE OnlyAdmittedInsert
  BY <1>28 DEF MainReceive, Effective
<1>29. ASSUME MainTimeout PROVE OnlyAdmittedInsert
  BY <1>29 DEF MainTimeout
<1>30. ASSUME DrainBegin PROVE OnlyAdmittedInsert
  BY <1>30 DEF DrainBegin, DrainCanBegin, Droppable
<1>31. ASSUME DrainDrop PROVE OnlyAdmittedInsert
  BY <1>31 DEF DrainDrop
<1>32. ASSUME DrainEnd PROVE OnlyAdmittedInsert
  BY <1>32 DEF DrainEnd
<1>33. ASSUME NowBegin PROVE OnlyAdmittedInsert
  BY <1>33 DEF NowBegin
<1>34. ASSUME NowKill PROVE OnlyAdmittedInsert
  BY <1>34 DEF NowKill, SendSignal
<1>35. ASSUME NowEnd PROVE OnlyAdmittedInsert
  BY <1>35 DEF NowEnd
<1>36. ASSUME MainCount PROVE OnlyAdmittedInsert
  BY <1>36 DEF MainCount, DrainComplete
<1>37. ASSUME MainExit PROVE OnlyAdmittedInsert
  BY <1>37 DEF MainExit
<1>38. ASSUME Signal PROVE OnlyAdmittedInsert
  BY <1>38 DEF Signal, HasRoom
<1>39. CASE UNCHANGED vars
  BY <1>39 DEF vars
<1> HIDE DEF lockVars, mainVars, ptyVars, clientVars, TypeOK, OnlyAdmittedInsert, ClientPCs, Admitted, MainPCs, MainAdmitted, Modes
<1>40. QED
  BY <1>1, <1>2, <1>3, <1>4, <1>5, <1>6, <1>7, <1>8, <1>9, <1>10, <1>11, <1>12, <1>13, <1>14, <1>15, <1>16, <1>17, <1>18, <1>19, <1>20, <1>21, <1>22, <1>23, <1>24, <1>25, <1>26, <1>27, <1>28, <1>29, <1>30, <1>31, <1>32, <1>33, <1>34, <1>35, <1>36, <1>37, <1>38, <1>39 DEF Next, Request, ClientStep, MainStep, ExitThread

\* The set the limit counts is finite, so it can be compared by inclusion.
LEMMA CountMonotone ==
  ASSUME TypeOK, NEW S, S \subseteq RunningSessions
  PROVE  IsFiniteSet(S) /\ Cardinality(S) \in Nat /\ Cardinality(S) <= RunningCount
<1>1. IsFiniteSet(RunningSessions)
  <2>1. RunningSessions \subseteq Ptys
    BY DEF RunningSessions
  <2>2. QED
    BY <2>1, BoundAssumption, FS_Subset
<1>2. QED
  BY <1>1, FS_Subset, FS_CardinalityType DEF RunningCount

\* The admission lock makes the count and the registration one step.
LEMMA LimitStep ==
  ASSUME TypeOK, LockInv, LocalInv, LimitInv, [Next]_vars, LockInv'
  PROVE  LimitInv'
<1>1. RunningCount \in Nat /\ MaxRunning \in Nat
  BY CountMonotone, BoundAssumption DEF RunningCount
<1>2. CASE \A c \in Clients : ~CreateInsert(c)
  <2>1. RunningSessions' \subseteq RunningSessions
    BY <1>2, MapShrinks, SentinelAssumption DEF MapOnlyShrinks, RunningSessions, InMap, IsRunning
  <2>2. RunningCount' \in Nat /\ RunningCount' <= RunningCount
    BY <2>1, CountMonotone DEF RunningCount
  <2>3. BelowLimit => BelowLimit'
    BY <2>2, <1>1 DEF BelowLimit
  <2>4. QED
    BY <2>2, <2>3, <1>1, RegistrationWasAdmitted DEF OnlyAdmittedInsert, LimitInv, RunningLimit
<1>3. CASE \E c \in Clients : CreateInsert(c)
  <2>1. PICK c \in Clients : CreateInsert(c)
    BY <1>3
  <2>2. /\ pc[c] = "insert" /\ target[c] \in Ids /\ handle[c] \in Ptys
        /\ sessions' \in {sessions, [sessions EXCEPT ![target[c]] = handle[c]]}
        /\ UNCHANGED status
        /\ pc' = [pc EXCEPT ![c] = "idle"]
    BY <2>1 DEF CreateInsert, Answer, Step, LocalInv, HasHandle, ClientPCs, Admitted, ptyVars
  <2>3. RunningSessions' \subseteq RunningSessions \cup {handle[c]}
    BY <2>2 DEF RunningSessions, InMap, IsRunning, TypeOK
  <2>4. IsFiniteSet(RunningSessions) /\ BelowLimit
    BY <2>2, CountMonotone DEF LimitInv
  <2>5. /\ IsFiniteSet(RunningSessions \cup {handle[c]})
        /\ Cardinality(RunningSessions \cup {handle[c]}) \in Nat
        /\ Cardinality(RunningSessions \cup {handle[c]}) <= RunningCount + 1
    <3> DEFINE R == RunningSessions
    <3>1. Cardinality(R) = RunningCount /\ IsFiniteSet(R)
      BY <2>4 DEF RunningCount
    <3> HIDE DEF R
    <3>2. /\ IsFiniteSet(R \cup {handle[c]})
          /\ Cardinality(R \cup {handle[c]}) \in {Cardinality(R), Cardinality(R) + 1}
      BY <3>1, FS_AddElement
    <3>3. QED
      BY <3>1, <3>2, <1>1 DEF R
  <2>6. RunningCount' \in Nat /\ RunningCount' <= RunningCount + 1
    BY <2>3, <2>5, <1>1, FS_Subset, FS_CardinalityType DEF RunningCount
  <2>7. RunningLimit'
    BY <2>4, <2>6, <1>1 DEF BelowLimit, RunningLimit
  <2>8. \A d \in Clients : pc'[d] # "insert"
    <3>1. \A d \in Clients : pc[d] = "insert" => d = c
      BY <2>2 DEF LockInv, Admitted
    <3>2. QED
      BY <3>1, <2>2 DEF TypeOK
  <2>9. QED
    BY <2>7, <2>8 DEF LimitInv
<1>4. QED
  BY <1>2, <1>3

-----------------------------------------------------------------------------

\* No session, no lock held, nobody spawned.
LEMMA InitIInv == Init => IInv
<1> SUFFICES ASSUME Init PROVE IInv
  OBVIOUS
<1>1. TypeOK
  <2>1. requests \in Seq(Modes) /\ Len(requests) <= QueueDepth
    BY BoundAssumption, EmptySeq DEF Init
  <2>2. QED
    BY <2>1 DEF Init, TypeOK, ClientPCs, Admitted, MainPCs, MainAdmitted
<1>2. LockInv /\ LocalInv /\ MapInv /\ ShutdownInv
  BY SentinelAssumption
     DEF Init, LockInv, LocalInv, MapInv, ShutdownInv, Admitted, MainAdmitted, HasHandle, ClientPCs
<1>3. NoOrphan /\ OnePtyPerId /\ LeavesNothingRunning
  BY DEF Init, NoOrphan, OnePtyPerId, LeavesNothingRunning, Live
<1>4. LimitInv
  <2>1. RunningSessions = {}
    BY SentinelAssumption DEF Init, RunningSessions, InMap
  <2>2. RunningCount = 0
    BY <2>1, FS_EmptySet DEF RunningCount
  <2>3. QED
    BY <2>2, BoundAssumption DEF Init, LimitInv, RunningLimit
<1>5. QED
  BY <1>1, <1>2, <1>3, <1>4 DEF IInv

\* Every step of the daemon, its clients and its children preserves IInv.
LEMMA NextIInv == IInv /\ [Next]_vars => IInv'
<1> SUFFICES ASSUME IInv, [Next]_vars PROVE IInv'
  OBVIOUS
<1> USE DEF IInv
<1>1. TypeOK' /\ LockInv'
  BY TypeStep, LockStep
<1>2. LocalInv' /\ MapInv' /\ ShutdownInv'
  BY LocalStep, MapStep, ShutdownStep
<1>3. NoOrphan' /\ OnePtyPerId' /\ LeavesNothingRunning'
  BY NoOrphanStep, OnePtyStep, LeaveStep
<1>4. LimitInv'
  BY <1>1, LimitStep
<1>5. QED
  BY <1>1, <1>2, <1>3, <1>4

\* The inductive invariant holds in every state the registry can reach.
THEOREM Invariance == Spec => []IInv
BY InitIInv, NextIInv, PTL DEF Spec

\* Every variable of the registry keeps its type, the shutdown channel its bound.
THEOREM TypeCorrect == Spec => []TypeOK
<1>1. IInv => TypeOK
  BY DEF IInv
<1>2. QED
  BY <1>1, Invariance, PTL

\* However clients race, a session id never has two live PTYs nobody forgot.
THEOREM UniquePty == Spec => []OnePtyPerId
<1>1. IInv => OnePtyPerId
  BY DEF IInv
<1>2. QED
  BY <1>1, Invariance, PTL

\* The branch that retires a freshly spawned PTY is never taken.
THEOREM RaceFree == Spec => []CreateRaceFree
<1>1. IInv => CreateRaceFree
  BY DEF IInv, LockInv, LocalInv, CreateRaceFree, Admitted
<1>2. QED
  BY <1>1, Invariance, PTL

\* No live PTY is ever out of everybody's reach.
THEOREM NothingOrphaned == Spec => []NoOrphan
<1>1. IInv => NoOrphan
  BY DEF IInv
<1>2. QED
  BY <1>1, Invariance, PTL

\* When the shutdown loop returns, nothing that should be kept still runs.
THEOREM SafeExit == Spec => []LeavesNothingRunning
<1>1. IInv => LeavesNothingRunning
  BY DEF IInv
<1>2. QED
  BY <1>1, Invariance, PTL

\* The running limit, for any limit and any number of clients.
THEOREM LimitHolds == Spec => []RunningLimit
<1>1. IInv => RunningLimit
  BY DEF IInv, LimitInv
<1>2. QED
  BY <1>1, Invariance, PTL

\* Once a shutdown has begun the map only loses entries.
THEOREM ShutdownAdmitsNothing == Spec => NothingAdmittedInShutdown
<1>1. IInv /\ [Next]_vars =>
        [shuttingDown => \A i \in Ids : sessions'[i] \in {sessions[i], Nil}]_vars
  <2> SUFFICES ASSUME IInv, Next, shuttingDown
               PROVE  \A i \in Ids : sessions'[i] \in {sessions[i], Nil}
    OBVIOUS
  <2>1. \A c \in Clients : ~CreateInsert(c)
    BY DEF CreateInsert, Answer, Step, IInv, LockInv, Admitted
  <2>2. QED
    BY <2>1, MapShrinks DEF IInv, MapOnlyShrinks
<1>2. QED
  BY <1>1, Invariance, PTL DEF Spec, NothingAdmittedInShutdown

\* The four steps that change the map.
LEMMA MapChanges ==
  ASSUME [Next]_vars
  PROVE  \/ sessions' = sessions
         \/ \E c \in Clients : CreateInsert(c) \/ \E i \in Ids : ForgetRemove(c, i)
         \/ DrainDrop \/ NowBegin
<1>1. ASSUME NEW c \in Clients, Request(c)
      PROVE  sessions' = sessions \/ \E i \in Ids : ForgetRemove(c, i)
  BY <1>1 DEF Request, CreateLookup, KillCheck, WriteCheck, RequestShutdown
<1>2. ASSUME NEW c \in Clients, ClientStep(c)
      PROVE  sessions' = sessions \/ CreateInsert(c)
  <2>1. CASE CreateRefusedByShutdown(c) \/ CreateAdmit(c) \/ CreateFoundLate(c) \/ CreateRelookup(c)
    BY <2>1 DEF CreateRefusedByShutdown, CreateAdmit, CreateFoundLate, CreateRelookup
  <2>2. CASE CreateRefused(c) \/ CreateSpawn(c) \/ CreateSpawnHalf(c)
    BY <2>2 DEF CreateRefused, CreateSpawn, CreateSpawnHalf
  <2>3. CASE ForgetRetire(c) \/ ForgetTerminate(c) \/ ForgetClose(c) \/ ReconcileKeys(c) \/ ReconcilePublish(c)
    BY <2>3 DEF ForgetRetire, ForgetTerminate, ForgetClose, ReconcileKeys, ReconcilePublish
  <2>4. CASE KillSend(c) \/ WriteRefused(c) \/ WriteBegin(c) \/ WriteEnd(c)
    BY <2>4 DEF KillSend, WriteRefused, WriteBegin, WriteEnd
  <2>5. QED
    BY <1>2, <2>1, <2>2, <2>3, <2>4 DEF ClientStep
<1>3. ASSUME NEW p \in Ptys, ChildExit(p) \/ ExitThread(p) PROVE sessions' = sessions
  BY <1>3 DEF ChildExit, ExitThread, Reap, RecordExit, DrainReader, PublishExit
<1>4. ASSUME MainStep PROVE sessions' = sessions \/ DrainDrop \/ NowBegin
  BY <1>4 DEF MainStep, MainReceive, MainTimeout, DrainBegin, NowKill, DrainEnd, NowEnd, MainCount, MainExit
<1>5. Signal => sessions' = sessions
  BY DEF Signal
<1>6. UNCHANGED vars => sessions' = sessions
  BY DEF vars
<1>7. QED
  BY <1>1, <1>2, <1>3, <1>4, <1>5, <1>6 DEF Next

\* begin_shutdown(Drain) lists the exited sessions and removes them by id later: what
\* it removes is still what it listed, so no running session leaves the map.
THEOREM DrainSparesTheRunning == Spec => DrainKeepsRunning
<1> DEFINE Kept ==
      \A i \in Ids :
        sessions[i] # Nil /\ IsRunning(sessions[i]) /\ sessions'[i] # sessions[i]
        => main = "now" \/ \E c \in Clients : pc[c] = "idle" /\ pc'[c] = "retire"
<1>1. IInv /\ [Next]_vars => [Kept]_vars
  <2> SUFFICES ASSUME IInv, [Next]_vars, NEW i \in Ids,
                      sessions[i] # Nil, IsRunning(sessions[i]), sessions'[i] # sessions[i]
               PROVE  main = "now" \/ \E c \in Clients : pc[c] = "idle" /\ pc'[c] = "retire"
    OBVIOUS
  <2>1. TypeOK
    BY DEF IInv
  <2>2. ASSUME NEW c \in Clients, CreateInsert(c) PROVE FALSE
    <3>1. sessions' = sessions \/ (sessions[target[c]] = Nil /\ sessions' = [sessions EXCEPT ![target[c]] = handle[c]])
      BY <2>2 DEF CreateInsert
    <3>2. QED
      BY <2>1, <3>1 DEF TypeOK
  <2>3. ASSUME NEW c \in Clients, NEW j \in Ids, ForgetRemove(c, j)
        PROVE  pc[c] = "idle" /\ pc'[c] = "retire"
    BY <2>1, <2>3 DEF ForgetRemove, Step, TypeOK
  <2>4. ~DrainDrop
    <3>1. DrainDrop => main = "drop" /\ sessions'[i] = IF i \in stale THEN Nil ELSE sessions[i]
      BY DEF DrainDrop
    <3>2. main = "drop" => i \notin stale
      BY DEF IInv, ShutdownInv
    <3>3. QED
      BY <3>1, <3>2
  <2>5. NowBegin => main = "now"
    BY DEF NowBegin
  <2>6. QED
    BY <2>2, <2>3, <2>4, <2>5, MapChanges
<1>2. QED
  BY <1>1, Invariance, PTL DEF Spec, DrainKeepsRunning

=============================================================================
