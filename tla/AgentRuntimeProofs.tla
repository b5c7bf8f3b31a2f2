------------------------- MODULE AgentRuntimeProofs -------------------------
(***************************************************************************)
(* The agent's connections, for any numbers of jobs, workers, queue places *)
(* and connections: AgentInv is inductive.                                 *)
(***************************************************************************)
EXTENDS AgentRuntime, FiniteSetTheorems, TLAPS

USE AgentAssumption

\* Counting a write keeps the counters.
LEMMA WroteType ==
  ASSUME answers \in [Job -> Nat], NEW c, NEW j
  PROVE  Wrote(c, j) \in [Job -> Nat]
<1>1. ASSUME j \in Job PROVE [answers EXCEPT ![j] = @ + 1] \in [Job -> Nat]
  <2>1. answers[j] + 1 \in Nat  BY <1>1
  <2> QED  BY <2>1
<1>2. ASSUME j \notin Job PROVE [answers EXCEPT ![j] = @ + 1] = answers
  BY <1>2
<1> QED  BY <1>1, <1>2 DEF Wrote

\* Every step keeps the types.
LEMMA TypeStep ==
  ASSUME AgentInv, [Next]_vars
  PROVE  TypeOK'
<1>1. ASSUME Signal PROVE TypeOK'
  BY <1>1 DEF Signal, AgentInv, TypeOK, Goroutine, MainStates, Actor
<1>2. ASSUME NEW c \in Conn, GoesMute(c) PROVE TypeOK'
  BY <1>2 DEF GoesMute, SocketBecomes, AgentInv, TypeOK, Goroutine, MainStates, Actor
<1>3. ASSUME NEW c \in Conn, LoseSocket(c) PROVE TypeOK'
  BY <1>3 DEF LoseSocket, SocketBecomes, AgentInv, TypeOK, Goroutine, MainStates, Actor
<1>4. ASSUME StartDial PROVE TypeOK'
  BY <1>4 DEF StartDial, AgentInv, TypeOK, Goroutine, MainStates, Actor
<1>5. ASSUME DialFails PROVE TypeOK'
  BY <1>5 DEF DialFails, MainGoes, AgentInv, TypeOK, Goroutine, MainStates, Actor
<1>6. ASSUME DialSucceeds PROVE TypeOK'
  BY <1>6 DEF DialSucceeds, AgentInv, TypeOK, Goroutine, MainStates, Actor
<1>7. ASSUME BackoffEnds PROVE TypeOK'
  BY <1>7 DEF BackoffEnds, MainGoes, AgentInv, TypeOK, Goroutine, MainStates, Actor
<1>8. ASSUME AgentReturns PROVE TypeOK'
  BY <1>8 DEF AgentReturns, MainGoes, AgentInv, TypeOK, Goroutine, MainStates, Actor
<1>9. ASSUME HelloSent PROVE TypeOK'
  BY <1>9 DEF HelloSent, AgentInv, TypeOK, Goroutine, MainStates, Actor
<1>10. ASSUME HelloFails PROVE TypeOK'
  BY <1>10 DEF HelloFails, MainGoes, AgentInv, TypeOK, Goroutine, MainStates, Actor
<1>11. ASSUME ReaderChecks PROVE TypeOK'
  BY <1>11 DEF ReaderChecks, MainGoes, AgentInv, TypeOK, Goroutine, MainStates, Actor
<1>12. ASSUME NEW j \in Job, ReadJob(j) PROVE TypeOK'
  <2>1. conn \in Conn  BY <1>12 DEF ReadJob, Readable, AgentInv
  <2>2. queue' \in [Conn -> Seq(Job)]
    <3>1. Append(queue[conn], j) \in Seq(Job)  BY <2>1 DEF AgentInv, TypeOK
    <3> QED  BY <1>12, <3>1 DEF ReadJob, AgentInv, TypeOK
  <2>3. carried' \in [Job -> 0..MaxConns]  BY <1>12, <2>1 DEF ReadJob, AgentInv, TypeOK, Conn
  <2>4. main' \in MainStates /\ refusing' \in Job \cup {NoJob}
    BY <1>12 DEF ReadJob, AgentInv, TypeOK, MainStates
  <2> QED  BY <1>12, <2>2, <2>3, <2>4 DEF ReadJob, AgentInv, TypeOK
<1>13. ASSUME ReadPing PROVE TypeOK'
  BY <1>13 DEF ReadPing, Readable, MainGoes, AgentInv, TypeOK, Goroutine, MainStates, Actor
<1>14. ASSUME ReadOther PROVE TypeOK'
  BY <1>14 DEF ReadOther, Readable, MainGoes, AgentInv, TypeOK, Goroutine, MainStates, Actor
<1>15. ASSUME ReadFails PROVE TypeOK'
  BY <1>15 DEF ReadFails, MainGoes, AgentInv, TypeOK, Goroutine, MainStates, Actor
<1>16. ASSUME ReaderLocks PROVE TypeOK'
  BY <1>16 DEF ReaderLocks, Locks, AgentInv, TypeOK, Goroutine, MainStates, Actor
<1>17. ASSUME ReaderRejects PROVE TypeOK'
  <2>1. answers' \in [Job -> Nat]  BY <1>17, WroteType DEF ReaderRejects, AgentInv, TypeOK
  <2>2. holder' \in [Conn -> Actor \cup {NoOne}]
    BY <1>17 DEF ReaderRejects, Unlocked, AgentInv, TypeOK
  <2> QED  BY <1>17, <2>1, <2>2 DEF ReaderRejects, AgentInv, TypeOK, MainStates
<1>18. ASSUME ReaderPongs PROVE TypeOK'
  BY <1>18 DEF ReaderPongs, Unlocked, AgentInv, TypeOK, Goroutine, MainStates, Actor
<1>19. ASSUME Cancel PROVE TypeOK'
  BY <1>19 DEF Cancel, AgentInv, TypeOK, Goroutine, MainStates, Actor
<1>20. ASSUME CloseSocket PROVE TypeOK'
  BY <1>20 DEF CloseSocket, AgentInv, TypeOK, Goroutine, MainStates, Actor
<1>21. ASSUME AwaitGoroutines PROVE TypeOK'
  BY <1>21 DEF AwaitGoroutines, MainGoes, AgentInv, TypeOK, Goroutine, MainStates, Actor
<1>22. ASSUME NEW c \in Conn, CloserCloses(c) PROVE TypeOK'
  BY <1>22 DEF CloserCloses, AgentInv, TypeOK, Goroutine, MainStates, Actor
<1>23. ASSUME NEW c \in Conn, KeeperTicks(c) PROVE TypeOK'
  BY <1>23 DEF KeeperTicks, KeeperGoes, AgentInv, TypeOK, Goroutine, MainStates, Actor
<1>24. ASSUME NEW c \in Conn, KeeperEnds(c) PROVE TypeOK'
  BY <1>24 DEF KeeperEnds, KeeperGoes, AgentInv, TypeOK, Goroutine, MainStates, Actor
<1>25. ASSUME NEW c \in Conn, KeeperLocks(c) PROVE TypeOK'
  BY <1>25 DEF KeeperLocks, Locks, AgentInv, TypeOK, Goroutine, MainStates, Actor
<1>26. ASSUME NEW c \in Conn, KeeperPings(c) PROVE TypeOK'
  BY <1>26 DEF KeeperPings, KeeperGoes, Unlocked, AgentInv, TypeOK, Goroutine, MainStates, Actor
<1>27. ASSUME NEW c \in Conn, NEW s \in Slot, WorkerChecks(c, s) PROVE TypeOK'
  BY <1>27 DEF WorkerChecks, WorkerGoes, AgentInv, TypeOK, Goroutine, MainStates, Actor
<1>28. ASSUME NEW c \in Conn, NEW s \in Slot, WorkerStops(c, s) PROVE TypeOK'
  BY <1>28 DEF WorkerStops, WorkerGoes, AgentInv, TypeOK, Goroutine, MainStates, Actor
<1>29. ASSUME NEW c \in Conn, NEW s \in Slot, WorkerTakes(c, s) PROVE TypeOK'
  <2>1. queue' \in [Conn -> Seq(Job)]  BY <1>29 DEF WorkerTakes, AgentInv, TypeOK
  <2>2. PICK to \in {"checks", "probes"} : worker' = [worker EXCEPT ![c][s] = to]
    BY <1>29 DEF WorkerTakes, WorkerGoes
  <2>3. Head(queue[c]) \in Job
    <3>1. queue[c] \in Seq(Job) /\ queue[c] # <<>>  BY <1>29 DEF WorkerTakes, AgentInv, TypeOK
    <3> QED  BY <3>1
  <2>4. doing' \in [Conn -> [Slot -> Job \cup {NoJob}]]
    <3>1. doing \in [Conn -> [Slot -> Job \cup {NoJob}]]  BY DEF AgentInv, TypeOK
    <3>2. [doing EXCEPT ![c][s] = Head(queue[c])] \in [Conn -> [Slot -> Job \cup {NoJob}]]
      BY <2>3, <3>1
    <3> QED  BY <1>29, <3>1, <3>2 DEF WorkerTakes
  <2>5. worker' \in [Conn -> [Slot -> {"none", "checks", "selects", "probes",
                                     "answers", "done"}]]
    BY <1>29, <2>2 DEF AgentInv, TypeOK
  <2> QED  BY <1>29, <2>1, <2>4, <2>5 DEF WorkerTakes, AgentInv, TypeOK
<1>30. ASSUME NEW c \in Conn, NEW s \in Slot, ProbeEnds(c, s) PROVE TypeOK'
  BY <1>30 DEF ProbeEnds, WorkerGoes, AgentInv, TypeOK, Goroutine, MainStates, Actor
<1>31. ASSUME NEW c \in Conn, NEW s \in Slot, WorkerLocks(c, s) PROVE TypeOK'
  BY <1>31 DEF WorkerLocks, Locks, AgentInv, TypeOK, Goroutine, MainStates, Actor
<1>32. ASSUME NEW c \in Conn, NEW s \in Slot, WorkerWrites(c, s) PROVE TypeOK'
  <2>1. answers' \in [Job -> Nat]  BY <1>32, WroteType DEF WorkerWrites, AgentInv, TypeOK
  <2>2. holder' \in [Conn -> Actor \cup {NoOne}]
    BY <1>32 DEF WorkerWrites, Unlocked, AgentInv, TypeOK
  <2> QED  BY <1>32, <2>1, <2>2 DEF WorkerWrites, WorkerGoes, AgentInv, TypeOK
<1>33. ASSUME UNCHANGED vars PROVE TypeOK'
  BY <1>33 DEF vars, AgentInv, TypeOK, Goroutine, MainStates, Actor
<1> QED
  BY <1>1, <1>2, <1>3, <1>4, <1>5, <1>6, <1>7, <1>8, <1>9, <1>10, <1>11,
     <1>12, <1>13, <1>14, <1>15, <1>16, <1>17, <1>18, <1>19, <1>20, <1>21,
     <1>22, <1>23, <1>24, <1>25, <1>26, <1>27, <1>28, <1>29, <1>30, <1>31,
     <1>32, <1>33 DEF Next, Dialling, Reader, Reading, Teardown, Stopped,
     Keeper, Worker

\* The mutex stays with a goroutine that is about to write.
LEMMA HolderStep ==
  ASSUME AgentInv, [Next]_vars
  PROVE  HolderWrites'
<1>1. ASSUME Signal PROVE HolderWrites'
  BY <1>1 DEF Signal, AgentInv, TypeOK, HolderWrites, Actor
<1>2. ASSUME NEW c \in Conn, GoesMute(c) PROVE HolderWrites'
  BY <1>2 DEF GoesMute, SocketBecomes, AgentInv, TypeOK, HolderWrites, Actor
<1>3. ASSUME NEW c \in Conn, LoseSocket(c) PROVE HolderWrites'
  BY <1>3 DEF LoseSocket, SocketBecomes, AgentInv, TypeOK, HolderWrites, Actor
<1>4. ASSUME StartDial PROVE HolderWrites'
  BY <1>4 DEF StartDial, AgentInv, TypeOK, HolderWrites, Actor
<1>5. ASSUME DialFails PROVE HolderWrites'
  BY <1>5 DEF DialFails, MainGoes, AgentInv, TypeOK, HolderWrites, Actor
<1>6. ASSUME DialSucceeds PROVE HolderWrites'
  BY <1>6 DEF DialSucceeds, AgentInv, TypeOK, HolderWrites, OneGeneration,
          Between, Quiet
<1>7. ASSUME BackoffEnds PROVE HolderWrites'
  BY <1>7 DEF BackoffEnds, MainGoes, AgentInv, TypeOK, HolderWrites, Actor
<1>8. ASSUME AgentReturns PROVE HolderWrites'
  BY <1>8 DEF AgentReturns, MainGoes, AgentInv, TypeOK, HolderWrites, Actor
<1>9. ASSUME HelloSent PROVE HolderWrites'
  BY <1>9 DEF HelloSent, AgentInv, TypeOK, HolderWrites, Actor
<1>10. ASSUME HelloFails PROVE HolderWrites'
  BY <1>10 DEF HelloFails, MainGoes, AgentInv, TypeOK, HolderWrites, Actor
<1>11. ASSUME ReaderChecks PROVE HolderWrites'
  BY <1>11 DEF ReaderChecks, MainGoes, AgentInv, TypeOK, HolderWrites, Actor
<1>12. ASSUME NEW j \in Job, ReadJob(j) PROVE HolderWrites'
  BY <1>12 DEF ReadJob, Readable, AgentInv, TypeOK, HolderWrites, Actor
<1>13. ASSUME ReadPing PROVE HolderWrites'
  BY <1>13 DEF ReadPing, Readable, MainGoes, AgentInv, TypeOK, HolderWrites, Actor
<1>14. ASSUME ReadOther PROVE HolderWrites'
  BY <1>14 DEF ReadOther, Readable, MainGoes, AgentInv, TypeOK, HolderWrites, Actor
<1>15. ASSUME ReadFails PROVE HolderWrites'
  BY <1>15 DEF ReadFails, MainGoes, AgentInv, TypeOK, HolderWrites, Actor
<1>16. ASSUME ReaderLocks PROVE HolderWrites'
  BY <1>16 DEF ReaderLocks, Locks, AgentInv, TypeOK, HolderWrites, Actor
<1>17. ASSUME ReaderRejects PROVE HolderWrites'
  BY <1>17 DEF ReaderRejects, Unlocked, Wrote, AgentInv, TypeOK, HolderWrites, Actor
<1>18. ASSUME ReaderPongs PROVE HolderWrites'
  BY <1>18 DEF ReaderPongs, Unlocked, AgentInv, TypeOK, HolderWrites, Actor
<1>19. ASSUME Cancel PROVE HolderWrites'
  BY <1>19 DEF Cancel, AgentInv, TypeOK, HolderWrites, Actor
<1>20. ASSUME CloseSocket PROVE HolderWrites'
  BY <1>20 DEF CloseSocket, AgentInv, TypeOK, HolderWrites, Actor
<1>21. ASSUME AwaitGoroutines PROVE HolderWrites'
  BY <1>21 DEF AwaitGoroutines, MainGoes, AgentInv, TypeOK, HolderWrites, Actor
<1>22. ASSUME NEW c \in Conn, CloserCloses(c) PROVE HolderWrites'
  BY <1>22 DEF CloserCloses, AgentInv, TypeOK, HolderWrites, Actor
<1>23. ASSUME NEW c \in Conn, KeeperTicks(c) PROVE HolderWrites'
  BY <1>23 DEF KeeperTicks, KeeperGoes, AgentInv, TypeOK, HolderWrites, Actor
<1>24. ASSUME NEW c \in Conn, KeeperEnds(c) PROVE HolderWrites'
  BY <1>24 DEF KeeperEnds, KeeperGoes, AgentInv, TypeOK, HolderWrites, Actor
<1>25. ASSUME NEW c \in Conn, KeeperLocks(c) PROVE HolderWrites'
  BY <1>25 DEF KeeperLocks, Locks, AgentInv, TypeOK, HolderWrites, Actor
<1>26. ASSUME NEW c \in Conn, KeeperPings(c) PROVE HolderWrites'
  BY <1>26 DEF KeeperPings, KeeperGoes, Unlocked, AgentInv, TypeOK, HolderWrites, Actor
<1>27. ASSUME NEW c \in Conn, NEW s \in Slot, WorkerChecks(c, s) PROVE HolderWrites'
  BY <1>27 DEF WorkerChecks, WorkerGoes, AgentInv, TypeOK, HolderWrites, Actor
<1>28. ASSUME NEW c \in Conn, NEW s \in Slot, WorkerStops(c, s) PROVE HolderWrites'
  BY <1>28 DEF WorkerStops, WorkerGoes, AgentInv, TypeOK, HolderWrites, Actor
<1>29. ASSUME NEW c \in Conn, NEW s \in Slot, WorkerTakes(c, s) PROVE HolderWrites'
  <2>1. PICK to \in {"checks", "probes"} : worker' = [worker EXCEPT ![c][s] = to]
    BY <1>29 DEF WorkerTakes, WorkerGoes
  <2> QED  BY <1>29, <2>1 DEF WorkerTakes, AgentInv, TypeOK, HolderWrites, Actor
<1>30. ASSUME NEW c \in Conn, NEW s \in Slot, ProbeEnds(c, s) PROVE HolderWrites'
  BY <1>30 DEF ProbeEnds, WorkerGoes, AgentInv, TypeOK, HolderWrites, Actor
<1>31. ASSUME NEW c \in Conn, NEW s \in Slot, WorkerLocks(c, s) PROVE HolderWrites'
  BY <1>31 DEF WorkerLocks, Locks, AgentInv, TypeOK, HolderWrites, Actor
<1>32. ASSUME NEW c \in Conn, NEW s \in Slot, WorkerWrites(c, s) PROVE HolderWrites'
  BY <1>32 DEF WorkerWrites, WorkerGoes, Unlocked, Wrote, AgentInv, TypeOK, HolderWrites, Actor
<1>33. ASSUME UNCHANGED vars PROVE HolderWrites'
  BY <1>33 DEF vars, AgentInv, TypeOK, HolderWrites, Actor
<1> QED
  BY <1>1, <1>2, <1>3, <1>4, <1>5, <1>6, <1>7, <1>8, <1>9, <1>10, <1>11,
     <1>12, <1>13, <1>14, <1>15, <1>16, <1>17, <1>18, <1>19, <1>20, <1>21,
     <1>22, <1>23, <1>24, <1>25, <1>26, <1>27, <1>28, <1>29, <1>30, <1>31,
     <1>32, <1>33 DEF Next, Dialling, Reader, Reading, Teardown, Stopped,
     Keeper, Worker

\* Goroutines start only on the current connection, and the main goroutine
\* leaves it only when they have ended.
LEMMA GenerationStep ==
  ASSUME AgentInv, [Next]_vars
  PROVE  OneGeneration'
<1>1. ASSUME Signal PROVE OneGeneration'
  BY <1>1 DEF Signal, AgentInv, TypeOK, OneGeneration, Between, Quiet
<1>2. ASSUME NEW c \in Conn, GoesMute(c) PROVE OneGeneration'
  BY <1>2 DEF GoesMute, SocketBecomes, AgentInv, TypeOK, OneGeneration, Between, Quiet
<1>3. ASSUME NEW c \in Conn, LoseSocket(c) PROVE OneGeneration'
  BY <1>3 DEF LoseSocket, SocketBecomes, AgentInv, TypeOK, OneGeneration, Between, Quiet
<1>4. ASSUME StartDial PROVE OneGeneration'
  BY <1>4 DEF StartDial, AgentInv, TypeOK, OneGeneration, Between, Quiet
<1>5. ASSUME DialFails PROVE OneGeneration'
  BY <1>5 DEF DialFails, MainGoes, AgentInv, TypeOK, OneGeneration, Between, Quiet
<1>6. ASSUME DialSucceeds PROVE OneGeneration'
  BY <1>6 DEF DialSucceeds, AgentInv, TypeOK, OneGeneration, Between, Quiet
<1>7. ASSUME BackoffEnds PROVE OneGeneration'
  BY <1>7 DEF BackoffEnds, MainGoes, AgentInv, TypeOK, OneGeneration, Between, Quiet
<1>8. ASSUME AgentReturns PROVE OneGeneration'
  BY <1>8 DEF AgentReturns, MainGoes, AgentInv, TypeOK, OneGeneration, Between, Quiet
<1>9. ASSUME HelloSent PROVE OneGeneration'
  BY <1>9 DEF HelloSent, AgentInv, TypeOK, OneGeneration, Between, Quiet
<1>10. ASSUME HelloFails PROVE OneGeneration'
  BY <1>10 DEF HelloFails, MainGoes, AgentInv, TypeOK, OneGeneration, Between, Quiet
<1>11. ASSUME ReaderChecks PROVE OneGeneration'
  BY <1>11 DEF ReaderChecks, MainGoes, AgentInv, TypeOK, OneGeneration, Between, Quiet
<1>12. ASSUME NEW j \in Job, ReadJob(j) PROVE OneGeneration'
  BY <1>12 DEF ReadJob, Readable, AgentInv, TypeOK, OneGeneration, Between, Quiet
<1>13. ASSUME ReadPing PROVE OneGeneration'
  BY <1>13 DEF ReadPing, Readable, MainGoes, AgentInv, TypeOK, OneGeneration, Between, Quiet
<1>14. ASSUME ReadOther PROVE OneGeneration'
  BY <1>14 DEF ReadOther, Readable, MainGoes, AgentInv, TypeOK, OneGeneration, Between, Quiet
<1>15. ASSUME ReadFails PROVE OneGeneration'
  BY <1>15 DEF ReadFails, MainGoes, AgentInv, TypeOK, OneGeneration, Between, Quiet
<1>16. ASSUME ReaderLocks PROVE OneGeneration'
  BY <1>16 DEF ReaderLocks, Locks, AgentInv, TypeOK, OneGeneration, Between, Quiet
<1>17. ASSUME ReaderRejects PROVE OneGeneration'
  BY <1>17 DEF ReaderRejects, Unlocked, Wrote, AgentInv, TypeOK, OneGeneration, Between, Quiet
<1>18. ASSUME ReaderPongs PROVE OneGeneration'
  BY <1>18 DEF ReaderPongs, Unlocked, AgentInv, TypeOK, OneGeneration, Between, Quiet
<1>19. ASSUME Cancel PROVE OneGeneration'
  BY <1>19 DEF Cancel, AgentInv, TypeOK, OneGeneration, Between, Quiet
<1>20. ASSUME CloseSocket PROVE OneGeneration'
  BY <1>20 DEF CloseSocket, AgentInv, TypeOK, OneGeneration, Between, Quiet
<1>21. ASSUME AwaitGoroutines PROVE OneGeneration'
  BY <1>21 DEF AwaitGoroutines, MainGoes, AgentInv, TypeOK, OneGeneration, Between, Quiet
<1>22. ASSUME NEW c \in Conn, CloserCloses(c) PROVE OneGeneration'
  BY <1>22 DEF CloserCloses, AgentInv, TypeOK, OneGeneration, Between, Quiet
<1>23. ASSUME NEW c \in Conn, KeeperTicks(c) PROVE OneGeneration'
  BY <1>23 DEF KeeperTicks, KeeperGoes, AgentInv, TypeOK, OneGeneration, Between, Quiet
<1>24. ASSUME NEW c \in Conn, KeeperEnds(c) PROVE OneGeneration'
  BY <1>24 DEF KeeperEnds, KeeperGoes, AgentInv, TypeOK, OneGeneration, Between, Quiet
<1>25. ASSUME NEW c \in Conn, KeeperLocks(c) PROVE OneGeneration'
  BY <1>25 DEF KeeperLocks, Locks, AgentInv, TypeOK, OneGeneration, Between, Quiet
<1>26. ASSUME NEW c \in Conn, KeeperPings(c) PROVE OneGeneration'
  BY <1>26 DEF KeeperPings, KeeperGoes, Unlocked, AgentInv, TypeOK, OneGeneration, Between, Quiet
<1>27. ASSUME NEW c \in Conn, NEW s \in Slot, WorkerChecks(c, s) PROVE OneGeneration'
  BY <1>27 DEF WorkerChecks, WorkerGoes, AgentInv, TypeOK, OneGeneration, Between, Quiet
<1>28. ASSUME NEW c \in Conn, NEW s \in Slot, WorkerStops(c, s) PROVE OneGeneration'
  BY <1>28 DEF WorkerStops, WorkerGoes, AgentInv, TypeOK, OneGeneration, Between, Quiet
<1>29. ASSUME NEW c \in Conn, NEW s \in Slot, WorkerTakes(c, s) PROVE OneGeneration'
  <2>1. PICK to \in {"checks", "probes"} : worker' = [worker EXCEPT ![c][s] = to]
    BY <1>29 DEF WorkerTakes, WorkerGoes
  <2> QED  BY <1>29, <2>1 DEF WorkerTakes, AgentInv, TypeOK, OneGeneration, Between, Quiet
<1>30. ASSUME NEW c \in Conn, NEW s \in Slot, ProbeEnds(c, s) PROVE OneGeneration'
  BY <1>30 DEF ProbeEnds, WorkerGoes, AgentInv, TypeOK, OneGeneration, Between, Quiet
<1>31. ASSUME NEW c \in Conn, NEW s \in Slot, WorkerLocks(c, s) PROVE OneGeneration'
  BY <1>31 DEF WorkerLocks, Locks, AgentInv, TypeOK, OneGeneration, Between, Quiet
<1>32. ASSUME NEW c \in Conn, NEW s \in Slot, WorkerWrites(c, s) PROVE OneGeneration'
  BY <1>32 DEF WorkerWrites, WorkerGoes, Unlocked, Wrote, AgentInv, TypeOK, OneGeneration, Between, Quiet
<1>33. ASSUME UNCHANGED vars PROVE OneGeneration'
  BY <1>33 DEF vars, AgentInv, TypeOK, OneGeneration, Between, Quiet
<1> QED
  BY <1>1, <1>2, <1>3, <1>4, <1>5, <1>6, <1>7, <1>8, <1>9, <1>10, <1>11,
     <1>12, <1>13, <1>14, <1>15, <1>16, <1>17, <1>18, <1>19, <1>20, <1>21,
     <1>22, <1>23, <1>24, <1>25, <1>26, <1>27, <1>28, <1>29, <1>30, <1>31,
     <1>32, <1>33 DEF Next, Dialling, Reader, Reading, Teardown, Stopped,
     Keeper, Worker

\* Where the main goroutine stands.
LEMMA MainStep ==
  ASSUME AgentInv, [Next]_vars
  PROVE  /\ (main \notin {"idle", "stopped"} => conn \in Conn)'
         /\ (main = "hello" => keeper[conn] \in {"none", "done"})'
         /\ (main = "awaiting" => socket[conn] = "closed")'
<1> DEFINE Stands == /\ main \notin {"idle", "stopped"} => conn \in Conn
                     /\ main = "hello" => keeper[conn] \in {"none", "done"}
                     /\ main = "awaiting" => socket[conn] = "closed"
<1> SUFFICES Stands'  OBVIOUS
<1>1. ASSUME Signal PROVE Stands'
  BY <1>1 DEF Signal, AgentInv, TypeOK, Conn
<1>2. ASSUME NEW c \in Conn, GoesMute(c) PROVE Stands'
  BY <1>2 DEF GoesMute, SocketBecomes, AgentInv, TypeOK, Conn
<1>3. ASSUME NEW c \in Conn, LoseSocket(c) PROVE Stands'
  BY <1>3 DEF LoseSocket, SocketBecomes, AgentInv, TypeOK, Conn
<1>4. ASSUME StartDial PROVE Stands'
  BY <1>4 DEF StartDial, AgentInv, TypeOK, Conn
<1>5. ASSUME DialFails PROVE Stands'
  BY <1>5 DEF DialFails, MainGoes, AgentInv, TypeOK, Conn
<1>6. ASSUME DialSucceeds PROVE Stands'
  BY <1>6 DEF DialSucceeds, AgentInv, TypeOK, OneGeneration, Between, Quiet
<1>7. ASSUME BackoffEnds PROVE Stands'
  BY <1>7 DEF BackoffEnds, MainGoes, AgentInv, TypeOK, Conn
<1>8. ASSUME AgentReturns PROVE Stands'
  BY <1>8 DEF AgentReturns, MainGoes, AgentInv, TypeOK, Conn
<1>9. ASSUME HelloSent PROVE Stands'
  BY <1>9 DEF HelloSent, AgentInv, TypeOK, Conn
<1>10. ASSUME HelloFails PROVE Stands'
  BY <1>10 DEF HelloFails, MainGoes, AgentInv, TypeOK, Conn
<1>11. ASSUME ReaderChecks PROVE Stands'
  BY <1>11 DEF ReaderChecks, MainGoes, AgentInv, TypeOK, Conn
<1>12. ASSUME NEW j \in Job, ReadJob(j) PROVE Stands'
  BY <1>12 DEF ReadJob, Readable, AgentInv, TypeOK, Conn
<1>13. ASSUME ReadPing PROVE Stands'
  BY <1>13 DEF ReadPing, Readable, MainGoes, AgentInv, TypeOK, Conn
<1>14. ASSUME ReadOther PROVE Stands'
  BY <1>14 DEF ReadOther, Readable, MainGoes, AgentInv, TypeOK, Conn
<1>15. ASSUME ReadFails PROVE Stands'
  BY <1>15 DEF ReadFails, MainGoes, AgentInv, TypeOK, Conn
<1>16. ASSUME ReaderLocks PROVE Stands'
  BY <1>16 DEF ReaderLocks, Locks, AgentInv, TypeOK, Conn
<1>17. ASSUME ReaderRejects PROVE Stands'
  BY <1>17 DEF ReaderRejects, Unlocked, Wrote, AgentInv, TypeOK, Conn
<1>18. ASSUME ReaderPongs PROVE Stands'
  BY <1>18 DEF ReaderPongs, Unlocked, AgentInv, TypeOK, Conn
<1>19. ASSUME Cancel PROVE Stands'
  BY <1>19 DEF Cancel, AgentInv, TypeOK, Conn
<1>20. ASSUME CloseSocket PROVE Stands'
  BY <1>20 DEF CloseSocket, AgentInv, TypeOK, Conn
<1>21. ASSUME AwaitGoroutines PROVE Stands'
  BY <1>21 DEF AwaitGoroutines, MainGoes, AgentInv, TypeOK, Conn
<1>22. ASSUME NEW c \in Conn, CloserCloses(c) PROVE Stands'
  BY <1>22 DEF CloserCloses, AgentInv, TypeOK, Conn
<1>23. ASSUME NEW c \in Conn, KeeperTicks(c) PROVE Stands'
  BY <1>23 DEF KeeperTicks, KeeperGoes, AgentInv, TypeOK, Conn
<1>24. ASSUME NEW c \in Conn, KeeperEnds(c) PROVE Stands'
  BY <1>24 DEF KeeperEnds, KeeperGoes, AgentInv, TypeOK, Conn
<1>25. ASSUME NEW c \in Conn, KeeperLocks(c) PROVE Stands'
  BY <1>25 DEF KeeperLocks, Locks, AgentInv, TypeOK, Conn
<1>26. ASSUME NEW c \in Conn, KeeperPings(c) PROVE Stands'
  BY <1>26 DEF KeeperPings, KeeperGoes, Unlocked, AgentInv, TypeOK, Conn
<1>27. ASSUME NEW c \in Conn, NEW s \in Slot, WorkerChecks(c, s) PROVE Stands'
  BY <1>27 DEF WorkerChecks, WorkerGoes, AgentInv, TypeOK, Conn
<1>28. ASSUME NEW c \in Conn, NEW s \in Slot, WorkerStops(c, s) PROVE Stands'
  BY <1>28 DEF WorkerStops, WorkerGoes, AgentInv, TypeOK, Conn
<1>29. ASSUME NEW c \in Conn, NEW s \in Slot, WorkerTakes(c, s) PROVE Stands'
  BY <1>29 DEF WorkerTakes, WorkerGoes, AgentInv, TypeOK, Conn
<1>30. ASSUME NEW c \in Conn, NEW s \in Slot, ProbeEnds(c, s) PROVE Stands'
  BY <1>30 DEF ProbeEnds, WorkerGoes, AgentInv, TypeOK, Conn
<1>31. ASSUME NEW c \in Conn, NEW s \in Slot, WorkerLocks(c, s) PROVE Stands'
  BY <1>31 DEF WorkerLocks, Locks, AgentInv, TypeOK, Conn
<1>32. ASSUME NEW c \in Conn, NEW s \in Slot, WorkerWrites(c, s) PROVE Stands'
  BY <1>32 DEF WorkerWrites, WorkerGoes, Unlocked, Wrote, AgentInv, TypeOK, Conn
<1>33. ASSUME UNCHANGED vars PROVE Stands'
  BY <1>33 DEF vars, AgentInv, TypeOK, Conn
<1> QED
  BY <1>1, <1>2, <1>3, <1>4, <1>5, <1>6, <1>7, <1>8, <1>9, <1>10, <1>11,
     <1>12, <1>13, <1>14, <1>15, <1>16, <1>17, <1>18, <1>19, <1>20, <1>21,
     <1>22, <1>23, <1>24, <1>25, <1>26, <1>27, <1>28, <1>29, <1>30, <1>31,
     <1>32, <1>33 DEF Next, Dialling, Reader, Reading, Teardown, Stopped,
     Keeper, Worker

THEOREM AgentInvariant == Spec => []AgentInv
<1>1. Init => AgentInv
  <2> SUFFICES ASSUME Init PROVE AgentInv  OBVIOUS
  <2>1. TypeOK
    <3>1. <<>> \in Seq(Job)  OBVIOUS
    <3>2. 0 \in 0..MaxConns  OBVIOUS
    <3> QED  BY <3>1, <3>2 DEF Init, TypeOK, MainStates, Goroutine
  <2>2. OneGeneration  BY DEF Init, OneGeneration, Quiet
  <2>3. HolderWrites  BY DEF Init, HolderWrites, Actor
  <2> QED  BY <2>1, <2>2, <2>3 DEF Init, AgentInv
<1>2. AgentInv /\ [Next]_vars => AgentInv'
  BY TypeStep, HolderStep, GenerationStep, MainStep DEF AgentInv
<1> QED  BY <1>1, <1>2, PTL DEF Spec

\* No goroutine and no socket of an old connection is left when the next one
\* is dialled or the process ends.
THEOREM GenerationCorrect == Spec => []OneGeneration
<1>1. AgentInv => OneGeneration  BY DEF AgentInv
<1> QED  BY <1>1, AgentInvariant, PTL

----------------------------------------------------------------------------
(* Jobs: a job is in one place at most, on the connection that brought it. *)

InQueue(c, j) == \E k \in 1..Len(queue[c]) : queue[c][k] = j
InHand(c, j)  == \E s \in Slot : doing[c][s] = j

\* Where a job is, it is once, and nowhere else.
OnePlace ==
    /\ \A c \in Conn : \A k, l \in 1..Len(queue[c]) :
          queue[c][k] = queue[c][l] => k = l
    /\ \A c \in Conn : \A s, t \in Slot :
          doing[c][s] = doing[c][t] => s = t \/ doing[c][s] = NoJob
    /\ \A c \in Conn : \A j \in Job :
          /\ InQueue(c, j) => carried[j] = c /\ ~InHand(c, j) /\ refusing # j /\ answers[j] = 0
          /\ InHand(c, j) => carried[j] = c /\ refusing # j /\ answers[j] = 0
    /\ \A j \in Job :
          /\ refusing = j => carried[j] = conn /\ answers[j] = 0
          /\ answers[j] > 0 => answers[j] = 1 /\ carried[j] # 0

\* While its connection can write, it is somewhere.
SomePlace ==
    \A j \in Job \ Garbled : \A c \in Conn :
        carried[j] = c /\ socket[c] = "open" =>
            InQueue(c, j) \/ InHand(c, j) \/ refusing = j \/ answers[j] = 1

\* Only the goroutines that have a job hold one, and none is brought before
\* its connection.
Holding ==
    /\ refusing \in Job <=> main = "refusing"
    /\ \A c \in Conn : \A s \in Slot :
          doing[c][s] \in Job <=> worker[c][s] \in {"probes", "answers"}
    /\ \A j \in Job : carried[j] <= conn /\ (main = "dialing" => carried[j] # conn)

JobsPlaced == OnePlace /\ SomePlace /\ Holding

\* Steps that touch no job, open no socket and keep goroutines in their places.
LEMMA PlacedAsBefore ==
  ASSUME AgentInv, JobsPlaced,
         UNCHANGED <<queue, doing, refusing, carried, answers>>,
         conn' = conn \/ (main # "refusing" /\ conn < conn'),
         \A c \in Conn : socket'[c] = "open" => socket[c] = "open" \/ (main = "dialing" /\ c = conn),
         \A c \in Conn : \A s \in Slot :
            worker'[c][s] \in {"probes", "answers"} <=> worker[c][s] \in {"probes", "answers"},
         main' = "refusing" <=> main = "refusing",
         main' = "dialing" => (main = "dialing" /\ conn' = conn) \/ conn < conn',
         conn \in Nat, conn' \in Nat
  PROVE  JobsPlaced'
<1>1. \A c \in Conn : \A j \in Job : InQueue(c, j)' = InQueue(c, j) /\ InHand(c, j)' = InHand(c, j)
  BY DEF InQueue, InHand
<1>2. OnePlace'
  BY <1>1 DEF JobsPlaced, OnePlace, Holding
<1>3. SomePlace'
  BY <1>1 DEF JobsPlaced, SomePlace, Holding
<1>4. Holding'
  <2>1. \A j \in Job : carried[j] \in Nat
    BY DEF AgentInv, TypeOK
  <2> QED  BY <2>1 DEF JobsPlaced, Holding
<1> QED  BY <1>2, <1>3, <1>4 DEF JobsPlaced

\* Appending to a queue that lacks the job.
LEMMA Enqueued ==
  ASSUME AgentInv, NEW c \in Conn, NEW j \in Job, ~InQueue(c, j),
         queue' = [queue EXCEPT ![c] = Append(@, j)]
  PROVE  /\ \A d \in Conn : \A i \in Job : InQueue(d, i)' <=> InQueue(d, i) \/ (d = c /\ i = j)
         /\ (\A d \in Conn : \A k, l \in 1..Len(queue[d]) : queue[d][k] = queue[d][l] => k = l)
            => (\A d \in Conn : \A k, l \in 1..Len(queue[d]) : queue[d][k] = queue[d][l] => k = l)'
<1> DEFINE q == queue[c]
<1>1. q \in Seq(Job) /\ queue \in [Conn -> Seq(Job)]
  BY DEF AgentInv, TypeOK
<1>2. \A d \in Conn : queue'[d] = IF d = c THEN Append(q, j) ELSE queue[d]
  BY <1>1
<1>3. /\ Len(Append(q, j)) = Len(q) + 1 /\ Len(q) \in Nat
      /\ \A k \in 1..Len(q) : Append(q, j)[k] = q[k]
      /\ Append(q, j)[Len(q) + 1] = j
  BY <1>1
<1>4. \A k \in 1..Len(q) : q[k] # j
  BY DEF InQueue
<1>5. \A d \in Conn : \A i \in Job : InQueue(d, i)' <=> InQueue(d, i) \/ (d = c /\ i = j)
  <2> SUFFICES ASSUME NEW d \in Conn, NEW i \in Job
               PROVE  InQueue(d, i)' <=> InQueue(d, i) \/ (d = c /\ i = j)
    OBVIOUS
  <2>1. CASE d # c
    BY <1>2, <2>1 DEF InQueue
  <2>2. CASE d = c
    <3> DEFINE r == Append(q, j)
    <3>1. queue'[d] = r /\ queue[d] = q
      BY <1>2, <2>2
    <3>2. 1..Len(r) = 1..Len(q) \cup {Len(q) + 1}
      BY <1>3
    <3> HIDE DEF r, q
    <3>3. (\E k \in 1..Len(r) : r[k] = i) <=> (\E k \in 1..Len(q) : q[k] = i) \/ i = j
      BY <1>3, <3>2 DEF r
    <3> QED  BY <2>2, <3>1, <3>3 DEF InQueue
  <2> QED  BY <2>1, <2>2
<1>6. ASSUME \A d \in Conn : \A k, l \in 1..Len(queue[d]) : queue[d][k] = queue[d][l] => k = l
      PROVE  \A d \in Conn : \A k, l \in 1..Len(queue'[d]) : queue'[d][k] = queue'[d][l] => k = l
  <2> SUFFICES ASSUME NEW d \in Conn, NEW k \in 1..Len(queue'[d]), NEW l \in 1..Len(queue'[d]),
                      queue'[d][k] = queue'[d][l]
               PROVE  k = l
    OBVIOUS
  <2>1. CASE d # c
    BY <1>2, <1>6, <2>1
  <2>2. CASE d = c
    <3>1. queue'[d] = Append(q, j)
      BY <1>2, <2>2
    <3>2. \A m, n \in 1..Len(q) : q[m] = q[n] => m = n
      BY <1>6
    <3> DEFINE r == Append(q, j)
    <3>3. k \in 1..Len(q) \cup {Len(q) + 1} /\ l \in 1..Len(q) \cup {Len(q) + 1} /\ r[k] = r[l]
      BY <1>3, <2>2, <3>1
    <3>4. /\ \A m \in 1..Len(q) : r[m] = q[m] /\ q[m] # j /\ m # Len(q) + 1
          /\ r[Len(q) + 1] = j
      BY <1>3, <1>4
    <3> HIDE DEF q, r
    <3> QED  BY <3>2, <3>3, <3>4
  <2> QED  BY <2>1, <2>2
<1> QED  BY <1>5, <1>6

\* Taking the head of a queue that has every job once.
LEMMA Dequeued ==
  ASSUME AgentInv, NEW c \in Conn, queue[c] # <<>>,
         queue' = [queue EXCEPT ![c] = Tail(@)],
         \A d \in Conn : \A k, l \in 1..Len(queue[d]) : queue[d][k] = queue[d][l] => k = l
  PROVE  /\ Head(queue[c]) \in Job /\ InQueue(c, Head(queue[c]))
         /\ \A d \in Conn : \A i \in Job :
               InQueue(d, i)' <=> InQueue(d, i) /\ ~(d = c /\ i = Head(queue[c]))
         /\ (\A d \in Conn : \A k, l \in 1..Len(queue[d]) : queue[d][k] = queue[d][l] => k = l)'
<1> DEFINE q == queue[c]
           r == Tail(q)
<1>1. q \in Seq(Job) /\ q # <<>> /\ queue \in [Conn -> Seq(Job)]
  BY DEF AgentInv, TypeOK
<1>2. \A d \in Conn : queue'[d] = IF d = c THEN r ELSE queue[d]
  BY <1>1
<1>3. /\ Len(q) \in Nat \ {0} /\ Len(r) = Len(q) - 1
      /\ \A k \in 1..Len(r) : r[k] = q[k + 1]
      /\ Head(q) = q[1] /\ Head(q) \in Job
  BY <1>1
<1>4. \A k, l \in 1..Len(q) : q[k] = q[l] => k = l
  OBVIOUS
<1>5. InQueue(c, Head(q))
  BY <1>3 DEF InQueue
<1> HIDE DEF r
<1>6. \A d \in Conn : \A i \in Job :
         InQueue(d, i)' <=> InQueue(d, i) /\ ~(d = c /\ i = Head(q))
  <2> SUFFICES ASSUME NEW d \in Conn, NEW i \in Job
               PROVE  InQueue(d, i)' <=> InQueue(d, i) /\ ~(d = c /\ i = Head(q))
    OBVIOUS
  <2>1. CASE d # c
    BY <1>2, <2>1 DEF InQueue
  <2>2. CASE d = c
    <3>1. queue'[d] = r /\ queue[d] = q
      BY <1>2, <2>2
    <3> HIDE DEF q
    <3>2. ASSUME NEW k \in 1..Len(r), r[k] = i
          PROVE  (\E l \in 1..Len(q) : q[l] = i) /\ i # Head(q)
      <4>1. r[k] = q[k + 1]
        BY <1>3
      <4>2. k + 1 \in 1..Len(q) /\ 1 \in 1..Len(q) /\ k + 1 # 1
        BY <1>3
      <4>3. q[k + 1] = i
        BY <3>2, <4>1
      <4> QED  BY <1>3, <1>4, <4>2, <4>3
    <3>3. ASSUME NEW l \in 1..Len(q), q[l] = i, i # Head(q)
          PROVE  \E k \in 1..Len(r) : r[k] = i
      <4>1. l - 1 \in 1..Len(r) /\ (l - 1) + 1 = l
        BY <1>3, <3>3
      <4> QED  BY <1>3, <3>3, <4>1
    <3> QED  BY <2>2, <3>1, <3>2, <3>3 DEF InQueue
  <2> QED  BY <2>1, <2>2
<1>7. \A d \in Conn : \A k, l \in 1..Len(queue'[d]) : queue'[d][k] = queue'[d][l] => k = l
  <2> SUFFICES ASSUME NEW d \in Conn, NEW k \in 1..Len(queue'[d]), NEW l \in 1..Len(queue'[d]),
                      queue'[d][k] = queue'[d][l]
               PROVE  k = l
    OBVIOUS
  <2>1. CASE d # c
    BY <1>2, <2>1
  <2>2. CASE d = c
    <3>1. queue'[d] = r
      BY <1>2, <2>2
    <3> HIDE DEF q
    <3>2. k + 1 \in 1..Len(q) /\ l + 1 \in 1..Len(q) /\ q[k + 1] = q[l + 1]
      BY <1>3, <3>1
    <3>3. k + 1 = l + 1
      BY <1>4, <3>2
    <3> QED  BY <1>3, <3>1, <3>3
  <2> QED  BY <2>1, <2>2
<1> QED  BY <1>3, <1>5, <1>6, <1>7

\* A job that comes is new; it is put at the end of the queue or refused.
LEMMA ReadJobPlaced ==
  ASSUME AgentInv, JobsPlaced, NEW j \in Job, ReadJob(j)
  PROVE  JobsPlaced'
<1>1. /\ conn \in Conn /\ conn' = conn /\ main = "reading" /\ carried[j] = 0
      /\ carried' = [carried EXCEPT ![j] = conn]
      /\ \A i \in Job : carried'[i] = IF i = j THEN conn ELSE carried[i]
      /\ UNCHANGED <<socket, worker, doing, answers>>
  BY DEF ReadJob, Readable, AgentInv, TypeOK
<1>2. 0 \notin Conn /\ \A i \in Job : carried[i] \in Nat /\ answers[i] \in Nat
  BY DEF Conn, AgentInv, TypeOK
<1>3. /\ \A c \in Conn : ~InQueue(c, j) /\ ~InHand(c, j)
      /\ refusing \notin Job /\ answers[j] = 0
  BY <1>1, <1>2 DEF JobsPlaced, OnePlace, Holding
<1>4. \A c \in Conn : \A i \in Job : InHand(c, i)' = InHand(c, i)
  BY <1>1 DEF InHand
<1>5. CASE /\ queue' = [queue EXCEPT ![conn] = Append(@, j)]
           /\ main' = "top" /\ refusing' = refusing
  <2>1. \A c \in Conn : \A i \in Job : InQueue(c, i)' <=> InQueue(c, i) \/ (c = conn /\ i = j)
    BY <1>1, <1>3, <1>5, Enqueued
  <2>2. \A c \in Conn : \A k, l \in 1..Len(queue'[c]) : queue'[c][k] = queue'[c][l] => k = l
    BY <1>1, <1>3, <1>5, Enqueued DEF JobsPlaced, OnePlace
  <2>3. OnePlace'
    BY <1>1, <1>2, <1>3, <1>4, <1>5, <2>1, <2>2 DEF JobsPlaced, OnePlace
  <2>4. SomePlace'
    BY <1>1, <1>2, <1>4, <1>5, <2>1 DEF JobsPlaced, SomePlace
  <2>5. Holding'
    BY <1>1, <1>2, <1>3, <1>5 DEF JobsPlaced, Holding, Conn
  <2> QED  BY <2>3, <2>4, <2>5 DEF JobsPlaced
<1>6. CASE /\ queue' = queue
           /\ refusing' = IF j \in Garbled THEN NoJob ELSE j
           /\ main' = IF j \in Garbled THEN "top" ELSE "refusing"
  <2>1. \A c \in Conn : \A i \in Job : InQueue(c, i)' = InQueue(c, i)
    BY <1>6 DEF InQueue
  <2>3. OnePlace'
    BY <1>1, <1>2, <1>3, <1>4, <1>6, <2>1 DEF JobsPlaced, OnePlace
  <2>4. SomePlace'
    BY <1>1, <1>2, <1>3, <1>4, <1>6, <2>1 DEF JobsPlaced, SomePlace
  <2>5. Holding'
    BY <1>1, <1>2, <1>3, <1>6 DEF JobsPlaced, Holding, Conn
  <2> QED  BY <2>3, <2>4, <2>5 DEF JobsPlaced
<1> QED  BY <1>5, <1>6 DEF ReadJob

\* A worker takes the head of the queue; only one that does not decode is gone.
LEMMA WorkerTakesPlaced ==
  ASSUME AgentInv, JobsPlaced, NEW c \in Conn, NEW s \in Slot, WorkerTakes(c, s)
  PROVE  JobsPlaced'
<1> DEFINE j == Head(queue[c])
<1>1. /\ worker[c][s] = "selects" /\ queue[c] # <<>>
      /\ queue' = [queue EXCEPT ![c] = Tail(@)]
      /\ UNCHANGED <<main, conn, socket, refusing, carried, answers>>
  BY DEF WorkerTakes
<1>2. /\ j \in Job /\ InQueue(c, j)
      /\ \A d \in Conn : \A i \in Job : InQueue(d, i)' <=> InQueue(d, i) /\ ~(d = c /\ i = j)
      /\ \A d \in Conn : \A k, l \in 1..Len(queue'[d]) : queue'[d][k] = queue'[d][l] => k = l
  BY <1>1, Dequeued DEF JobsPlaced, OnePlace
<1>3. doing[c][s] = NoJob
  <2>1. doing[c][s] \in Job \cup {NoJob}
    BY DEF AgentInv, TypeOK
  <2>2. doing[c][s] \notin Job
    BY <1>1 DEF JobsPlaced, Holding
  <2> QED  BY <2>1, <2>2
<1>4. /\ doing \in [Conn -> [Slot -> Job \cup {NoJob}]]
      /\ \A i \in Job : carried[i] \in Nat /\ answers[i] \in Nat
  BY DEF AgentInv, TypeOK
<1>5. CASE j \in Garbled
  <2>1. doing' = doing /\ worker' = [worker EXCEPT ![c][s] = "checks"]
    BY <1>5 DEF WorkerTakes, WorkerGoes
  <2>2. \A d \in Conn : \A i \in Job : InHand(d, i)' = InHand(d, i)
    BY <2>1 DEF InHand
  <2> HIDE DEF j
  <2>3. OnePlace'
    BY <1>1, <1>2, <1>4, <2>1, <2>2 DEF JobsPlaced, OnePlace
  <2>4. SomePlace'
    BY <1>1, <1>2, <1>5, <2>2 DEF JobsPlaced, SomePlace
  <2>5. Holding'
    BY <1>1, <1>3, <2>1 DEF JobsPlaced, Holding, AgentInv, TypeOK
  <2> QED  BY <2>3, <2>4, <2>5 DEF JobsPlaced
<1>6. CASE j \notin Garbled
  <2>1. doing' = [doing EXCEPT ![c][s] = j] /\ worker' = [worker EXCEPT ![c][s] = "probes"]
    BY <1>6 DEF WorkerTakes, WorkerGoes
  <2> HIDE DEF j
  <2>2. \A d \in Conn : \A t \in Slot : doing'[d][t] = IF d = c /\ t = s THEN j ELSE doing[d][t]
    BY <1>4, <2>1
  <2>3. \A d \in Conn : \A i \in Job : InHand(d, i)' <=> InHand(d, i) \/ (d = c /\ i = j)
    BY <1>3, <2>2 DEF InHand
  <2>4. ~InHand(c, j) /\ carried[j] = c /\ refusing # j /\ answers[j] = 0
    BY <1>2 DEF JobsPlaced, OnePlace
  <2>5. OnePlace'
    <3>1. \A d \in Conn : \A r, t \in Slot :
             doing'[d][r] = doing'[d][t] => r = t \/ doing'[d][r] = NoJob
      BY <2>2, <2>4 DEF InHand, JobsPlaced, OnePlace
    <3> QED  BY <1>1, <1>2, <1>4, <2>3, <2>4, <3>1 DEF JobsPlaced, OnePlace
  <2>6. SomePlace'
    BY <1>1, <1>2, <2>3 DEF JobsPlaced, SomePlace
  <2>7. Holding'
    <3>1. \A d \in Conn : \A t \in Slot :
             worker'[d][t] = IF d = c /\ t = s THEN "probes" ELSE worker[d][t]
      BY <2>1 DEF AgentInv, TypeOK
    <3> QED  BY <1>1, <1>2, <2>2, <3>1 DEF JobsPlaced, Holding
  <2> QED  BY <2>5, <2>6, <2>7 DEF JobsPlaced
<1> QED  BY <1>5, <1>6

\* The answer is written for the job in the worker's hand.
LEMMA WorkerWritesPlaced ==
  ASSUME AgentInv, JobsPlaced, NEW c \in Conn, NEW s \in Slot, WorkerWrites(c, s)
  PROVE  JobsPlaced'
<1> DEFINE j == doing[c][s]
<1>1. /\ worker[c][s] = "answers" /\ answers' = Wrote(c, j)
      /\ doing' = [doing EXCEPT ![c][s] = NoJob] /\ worker' = [worker EXCEPT ![c][s] = "checks"]
      /\ UNCHANGED <<queue, main, conn, socket, refusing, carried>>
  BY DEF WorkerWrites, WorkerGoes
<1>2. /\ doing \in [Conn -> [Slot -> Job \cup {NoJob}]]
      /\ \A i \in Job : carried[i] \in Nat /\ answers[i] \in Nat
      /\ answers \in [Job -> Nat] /\ 0 \notin Conn
  BY DEF AgentInv, TypeOK, Conn
<1>3. j \in Job /\ InHand(c, j)
  BY <1>1 DEF JobsPlaced, Holding, InHand
<1>4. carried[j] = c /\ refusing # j /\ answers[j] = 0 /\ ~InQueue(c, j)
  BY <1>3 DEF JobsPlaced, OnePlace
<1>5. \A i \in Job : answers'[i] = IF i = j /\ socket[c] = "open" THEN 1 ELSE answers[i]
  BY <1>1, <1>2, <1>3, <1>4 DEF Wrote
<1> HIDE DEF j
<1>6. \A d \in Conn : \A t \in Slot : doing'[d][t] = IF d = c /\ t = s THEN NoJob ELSE doing[d][t]
  BY <1>1, <1>2
<1>7. \A d \in Conn : \A i \in Job :
         /\ InHand(d, i)' <=> InHand(d, i) /\ ~(d = c /\ i = j)
         /\ InQueue(d, i)' = InQueue(d, i)
  <2>1. \A t \in Slot : doing[c][t] = j => t = s
    BY <1>2, <1>3 DEF JobsPlaced, OnePlace, j
  <2>2. doing[c][s] = j
    BY DEF j
  <2> QED  BY <1>1, <1>6, <2>1, <2>2 DEF InHand, InQueue
<1>8. OnePlace'
  BY <1>1, <1>2, <1>3, <1>4, <1>5, <1>6, <1>7 DEF JobsPlaced, OnePlace
<1>9. SomePlace'
  BY <1>1, <1>4, <1>5, <1>7 DEF JobsPlaced, SomePlace
<1>10. Holding'
  <2>1. \A d \in Conn : \A t \in Slot :
           worker'[d][t] = IF d = c /\ t = s THEN "checks" ELSE worker[d][t]
    BY <1>1 DEF AgentInv, TypeOK
  <2> QED  BY <1>1, <1>6, <2>1 DEF JobsPlaced, Holding
<1> QED  BY <1>8, <1>9, <1>10 DEF JobsPlaced

\* The reader answers the job it refuses.
LEMMA ReaderRejectsPlaced ==
  ASSUME AgentInv, JobsPlaced, ReaderRejects
  PROVE  JobsPlaced'
<1>1. /\ main = "refusing" /\ main' = "top" /\ refusing' = NoJob
      /\ answers' = Wrote(conn, refusing)
      /\ UNCHANGED <<queue, doing, worker, conn, socket, carried>>
  BY DEF ReaderRejects
<1>2. /\ \A i \in Job : carried[i] \in Nat /\ answers[i] \in Nat
      /\ answers \in [Job -> Nat] /\ conn \in Conn /\ 0 \notin Conn
  BY <1>1 DEF AgentInv, TypeOK, Conn
<1>3. refusing \in Job /\ carried[refusing] = conn /\ answers[refusing] = 0
  BY <1>1 DEF JobsPlaced, Holding, OnePlace
<1>4. \A i \in Job : answers'[i] = IF i = refusing /\ socket[conn] = "open" THEN 1 ELSE answers[i]
  BY <1>1, <1>2, <1>3 DEF Wrote
<1>5. \A d \in Conn : \A i \in Job : InHand(d, i)' = InHand(d, i) /\ InQueue(d, i)' = InQueue(d, i)
  BY <1>1 DEF InHand, InQueue
<1>6. OnePlace'
  BY <1>1, <1>2, <1>3, <1>4, <1>5 DEF JobsPlaced, OnePlace
<1>7. SomePlace'
  BY <1>1, <1>3, <1>4, <1>5 DEF JobsPlaced, SomePlace
<1>8. Holding'
  BY <1>1 DEF JobsPlaced, Holding
<1> QED  BY <1>6, <1>7, <1>8 DEF JobsPlaced

LEMMA PlacedStep ==
  ASSUME AgentInv, JobsPlaced, [Next]_vars
  PROVE  JobsPlaced'
<1>0. conn \in Nat /\ (main \notin {"idle", "stopped"} => conn \in Conn)
      /\ worker \in [Conn -> [Slot -> {"none", "checks", "selects", "probes",
                                       "answers", "done"}]]
      /\ socket \in [Conn -> {"none", "open", "mute", "lost", "closed"}]
  BY DEF AgentInv, TypeOK
<1>1. ASSUME Signal PROVE JobsPlaced'
  BY <1>0, <1>1, PlacedAsBefore DEF Signal
<1>2. ASSUME NEW c \in Conn, GoesMute(c) PROVE JobsPlaced'
  BY <1>0, <1>2, PlacedAsBefore DEF GoesMute, SocketBecomes
<1>3. ASSUME NEW c \in Conn, LoseSocket(c) PROVE JobsPlaced'
  BY <1>0, <1>3, PlacedAsBefore DEF LoseSocket, SocketBecomes
<1>4. ASSUME StartDial PROVE JobsPlaced'
  BY <1>0, <1>4, PlacedAsBefore DEF StartDial
<1>5. ASSUME DialFails PROVE JobsPlaced'
  BY <1>0, <1>5, PlacedAsBefore DEF DialFails, MainGoes
<1>6. ASSUME DialSucceeds PROVE JobsPlaced'
  BY <1>0, <1>6, PlacedAsBefore DEF DialSucceeds, OneGeneration, Between, Quiet, AgentInv
<1>7. ASSUME BackoffEnds PROVE JobsPlaced'
  BY <1>0, <1>7, PlacedAsBefore DEF BackoffEnds, MainGoes
<1>8. ASSUME AgentReturns PROVE JobsPlaced'
  BY <1>0, <1>8, PlacedAsBefore DEF AgentReturns, MainGoes
<1>9. ASSUME HelloSent PROVE JobsPlaced'
  BY <1>0, <1>9, PlacedAsBefore DEF HelloSent
<1>10. ASSUME HelloFails PROVE JobsPlaced'
  BY <1>0, <1>10, PlacedAsBefore DEF HelloFails, MainGoes
<1>11. ASSUME ReaderChecks PROVE JobsPlaced'
  BY <1>0, <1>11, PlacedAsBefore DEF ReaderChecks, MainGoes
<1>12. ASSUME ReadPing PROVE JobsPlaced'
  BY <1>0, <1>12, PlacedAsBefore DEF ReadPing, Readable, MainGoes
<1>13. ASSUME ReadOther PROVE JobsPlaced'
  BY <1>0, <1>13, PlacedAsBefore DEF ReadOther, Readable, MainGoes
<1>14. ASSUME ReadFails PROVE JobsPlaced'
  BY <1>0, <1>14, PlacedAsBefore DEF ReadFails, MainGoes
<1>15. ASSUME ReaderLocks PROVE JobsPlaced'
  BY <1>0, <1>15, PlacedAsBefore DEF ReaderLocks, Locks
<1>16. ASSUME ReaderPongs PROVE JobsPlaced'
  BY <1>0, <1>16, PlacedAsBefore DEF ReaderPongs
<1>17. ASSUME Cancel PROVE JobsPlaced'
  BY <1>0, <1>17, PlacedAsBefore DEF Cancel
<1>18. ASSUME CloseSocket PROVE JobsPlaced'
  BY <1>0, <1>18, PlacedAsBefore DEF CloseSocket
<1>19. ASSUME AwaitGoroutines PROVE JobsPlaced'
  BY <1>0, <1>19, PlacedAsBefore DEF AwaitGoroutines, MainGoes
<1>20. ASSUME NEW c \in Conn, CloserCloses(c) PROVE JobsPlaced'
  BY <1>0, <1>20, PlacedAsBefore DEF CloserCloses
<1>21. ASSUME NEW c \in Conn, KeeperTicks(c) PROVE JobsPlaced'
  BY <1>0, <1>21, PlacedAsBefore DEF KeeperTicks, KeeperGoes
<1>22. ASSUME NEW c \in Conn, KeeperEnds(c) PROVE JobsPlaced'
  BY <1>0, <1>22, PlacedAsBefore DEF KeeperEnds, KeeperGoes
<1>23. ASSUME NEW c \in Conn, KeeperLocks(c) PROVE JobsPlaced'
  BY <1>0, <1>23, PlacedAsBefore DEF KeeperLocks, Locks
<1>24. ASSUME NEW c \in Conn, KeeperPings(c) PROVE JobsPlaced'
  BY <1>0, <1>24, PlacedAsBefore DEF KeeperPings, KeeperGoes
<1>25. ASSUME NEW c \in Conn, NEW s \in Slot, WorkerChecks(c, s) PROVE JobsPlaced'
  BY <1>0, <1>25, PlacedAsBefore DEF WorkerChecks, WorkerGoes
<1>26. ASSUME NEW c \in Conn, NEW s \in Slot, WorkerStops(c, s) PROVE JobsPlaced'
  BY <1>0, <1>26, PlacedAsBefore DEF WorkerStops, WorkerGoes
<1>27. ASSUME NEW c \in Conn, NEW s \in Slot, ProbeEnds(c, s) PROVE JobsPlaced'
  BY <1>0, <1>27, PlacedAsBefore DEF ProbeEnds, WorkerGoes
<1>28. ASSUME NEW c \in Conn, NEW s \in Slot, WorkerLocks(c, s) PROVE JobsPlaced'
  BY <1>0, <1>28, PlacedAsBefore DEF WorkerLocks, Locks
<1>29. ASSUME UNCHANGED vars PROVE JobsPlaced'
  BY <1>0, <1>29, PlacedAsBefore DEF vars
<1>30. ASSUME NEW j \in Job, ReadJob(j) PROVE JobsPlaced'
  BY <1>30, ReadJobPlaced
<1>31. ASSUME NEW c \in Conn, NEW s \in Slot, WorkerTakes(c, s) PROVE JobsPlaced'
  BY <1>31, WorkerTakesPlaced
<1>32. ASSUME NEW c \in Conn, NEW s \in Slot, WorkerWrites(c, s) PROVE JobsPlaced'
  BY <1>32, WorkerWritesPlaced
<1>33. ASSUME ReaderRejects PROVE JobsPlaced'
  BY <1>33, ReaderRejectsPlaced
<1> QED
  BY <1>1, <1>2, <1>3, <1>4, <1>5, <1>6, <1>7, <1>8, <1>9, <1>10, <1>11,
     <1>12, <1>13, <1>14, <1>15, <1>16, <1>17, <1>18, <1>19, <1>20, <1>21,
     <1>22, <1>23, <1>24, <1>25, <1>26, <1>27, <1>28, <1>29, <1>30, <1>31,
     <1>32, <1>33 DEF Next, Dialling, Reader, Reading, Teardown, Stopped,
     Keeper, Worker

\* Counting the places of a job that has one at most.
LEMMA PlacesCount ==
  ASSUME AgentInv, OnePlace, NEW j \in Job, NEW c \in Conn
  PROVE  /\ Occurrences(j, c) \in {0, 1}
         /\ Occurrences(j, c) = 1 <=>
               InQueue(c, j) \/ InHand(c, j) \/ refusing = j \/ answers[j] = 1
<1> DEFINE inQueue == {k \in 1..Len(queue[c]) : queue[c][k] = j}
           inHand  == {s \in Slot : doing[c][s] = j}
<1>1. Cardinality(inQueue) = IF InQueue(c, j) THEN 1 ELSE 0
  <2>1. CASE InQueue(c, j)
    <3>1. PICK k \in 1..Len(queue[c]) : queue[c][k] = j
      BY <2>1 DEF InQueue
    <3>2. inQueue = {k}
      BY <3>1 DEF OnePlace
    <3> QED  BY <2>1, <3>2, FS_Singleton
  <2>2. CASE ~InQueue(c, j)
    <3>1. inQueue = {}
      BY <2>2 DEF InQueue
    <3> QED  BY <2>2, <3>1, FS_EmptySet
  <2> QED  BY <2>1, <2>2
<1>2. Cardinality(inHand) = IF InHand(c, j) THEN 1 ELSE 0
  <2>1. CASE InHand(c, j)
    <3>1. PICK s \in Slot : doing[c][s] = j
      BY <2>1 DEF InHand
    <3>2. inHand = {s}
      BY <3>1 DEF OnePlace
    <3> QED  BY <2>1, <3>2, FS_Singleton
  <2>2. CASE ~InHand(c, j)
    <3>1. inHand = {}
      BY <2>2 DEF InHand
    <3> QED  BY <2>2, <3>1, FS_EmptySet
  <2> QED  BY <2>1, <2>2
<1>3. answers[j] \in Nat
  BY DEF AgentInv, TypeOK
<1>4. /\ InQueue(c, j) => ~InHand(c, j) /\ refusing # j /\ answers[j] = 0
      /\ InHand(c, j) => refusing # j /\ answers[j] = 0
      /\ refusing = j => answers[j] = 0
      /\ answers[j] > 0 => answers[j] = 1
  BY DEF OnePlace
<1>5. Occurrences(j, c) = Cardinality(inQueue) + Cardinality(inHand)
                          + (IF refusing = j THEN 1 ELSE 0) + answers[j]
  BY DEF Occurrences
<1> HIDE DEF inQueue, inHand
<1> QED  BY <1>1, <1>2, <1>3, <1>4, <1>5

\* Wherever a job is in the agent, it is there once.
THEOREM JobsPlacedCorrect == Spec => []JobsPlaced
<1>1. Init => JobsPlaced
  <2> SUFFICES ASSUME Init PROVE JobsPlaced  OBVIOUS
  <2>1. \A c \in Conn : \A j \in Job : ~InQueue(c, j) /\ ~InHand(c, j)
    BY DEF Init, InQueue, InHand
  <2>2. OnePlace
    BY <2>1 DEF Init, OnePlace
  <2>3. SomePlace
    BY DEF Init, SomePlace
  <2>4. Holding
    BY DEF Init, Holding
  <2> QED  BY <2>2, <2>3, <2>4 DEF JobsPlaced
<1>2. AgentInv /\ JobsPlaced /\ [Next]_vars => JobsPlaced'
  BY PlacedStep
<1> QED  BY <1>1, <1>2, AgentInvariant, PTL DEF Spec

\* Every job that arrives is answered at most once; while its connection can
\* write, it waits in one place or has its answer.
THEOREM JobsAccountedCorrect == Spec => []JobsAccounted
<1>1. AgentInv /\ JobsPlaced => JobsAccounted
  <2> SUFFICES ASSUME AgentInv, JobsPlaced, NEW j \in Job, NEW c \in Conn, carried[j] = c
               PROVE  /\ Occurrences(j, c) <= 1
                      /\ socket[c] = "open" /\ j \notin Garbled => Occurrences(j, c) = 1
    BY DEF JobsAccounted
  <2> QED  BY PlacesCount DEF JobsPlaced, SomePlace
<1> QED  BY <1>1, AgentInvariant, JobsPlacedCorrect, PTL
=============================================================================
