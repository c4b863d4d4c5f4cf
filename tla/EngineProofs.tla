---------------------------- MODULE EngineProofs ----------------------------
(***************************************************************************)
(* Proofs about Engine, for any number of threads, ports, instances and    *)
(* blocks.                                                                 *)
(***************************************************************************)
EXTENDS Engine, TLAPS

(* The cap start() hands to walletd is a number, whatever the budget. *)
LEMMA ResidentCapType ==
  ASSUME NEW budget \in Nat
  PROVE  ResidentCap(budget) \in Nat
BY DEF ResidentCap

(* What the end of a serve task leaves behind is well typed, whether its   *)
(* runtime is kept for stop() or gone already.                             *)
ServeTypeOK ==
  /\ portOf \in [Engines -> Ports \cup {NoPort}]
  /\ capOf \in [Engines -> Nat]
  /\ phase \in [Engines -> Phases]
  /\ scanned \in [Engines -> 0..Tip]
  /\ leaked \in [Engines -> BOOLEAN]

LEMMA TaskEndsType ==
  ASSUME TypeOK, NEW e \in Engines, NEW end \in Ended, TaskEnds(e, end)
  PROVE  ServeTypeOK'
<1>1. 0 \in 0..Tip
  BY EngineAssumption DEF EngineAssumption
<1>2. CASE leaked[e]
  <2>1. "unused" \in Phases
    BY DEF Phases
  <2>2. Forget(e)
    BY <1>2 DEF TaskEnds
  <2>3. QED
    BY <1>1, <2>1, <2>2 DEF TypeOK, ServeTypeOK, Forget
<1>3. CASE ~leaked[e]
  BY <1>3 DEF TypeOK, ServeTypeOK, TaskEnds, Phases
<1>4. QED
  BY <1>2, <1>3

LEMMA PortFreedType ==
  ASSUME TypeOK, NEW e \in Engines
  PROVE  PortFreed(e) \in [Ports -> Engines \cup {Free, Probe, Other}]
BY DEF TypeOK, PortFreed

(* Every variable keeps its type. *)
THEOREM Typing == Spec => []TypeOK
<1> USE EngineAssumption DEF EngineAssumption
<1>0. 0 \in 0..Tip
  OBVIOUS
<1> USE <1>0
<1> USE DEF LogTypeOK, Levels, Off, Error, Info, Debug, logVars, callVars, localVars,
        lockVars, serveVars, budgetVars, restVars, PCs, InStart, InStop, Ops, Phases, Live, Ended
<1>1. Init => TypeOK
  <2> SUFFICES ASSUME Init PROVE TypeOK
    OBVIOUS
  <2>1. LogTypeOK
    BY DEF Init, LogInit
  <2>2. /\ pc \in [Callers -> PCs] /\ op \in [Callers -> Ops]
        /\ phase \in [Engines -> Phases]
    BY DEF Init
  <2>3. /\ answer \in [Callers -> Ports \cup {NoPort, Panic}]
        /\ probe \in [Callers -> Ports \cup {NoPort}]
        /\ target \in [Callers -> Engines \cup {NoEngine}]
        /\ owner \in [Ports -> Engines \cup {Free, Probe, Other}]
    BY DEF Init
  <2>4. /\ portOf \in [Engines -> Ports \cup {NoPort}]
        /\ capOf \in [Engines -> Nat] /\ scanned \in [Engines -> 0..Tip]
        /\ leaked \in [Engines -> BOOLEAN]
    BY DEF Init
  <2>5. QED
    BY <2>1, <2>2, <2>3, <2>4 DEF Init, TypeOK
<1>2. TypeOK /\ [Next]_vars => TypeOK'
  <2> SUFFICES ASSUME TypeOK, [Next]_vars PROVE TypeOK'
    OBVIOUS
  <2> USE DEF TypeOK
  <2>1. ASSUME NEW c \in Callers, NEW o \in Ops \ {"none"}, Call(c, o)
        PROVE  TypeOK'
    BY <2>1 DEF Call, Goto
  <2>2. ASSUME NEW c \in Callers, StartInstall(c)
        PROVE  TypeOK'
    BY <2>2, ZenonT(60) DEF StartInstall, ClaimLogger, LoggerClaimed, Goto
  <2>3. ASSUME NEW c \in Callers, StartLevel(c)
        PROVE  TypeOK'
    BY <2>3 DEF StartLevel, FinishLogger, Goto
  <2>4. ASSUME NEW c \in Callers, StartReuse(c)
        PROVE  TypeOK'
    BY <2>4 DEF StartReuse, Answer, Goto
  <2>5. ASSUME NEW c \in Callers, StartEnter(c)
        PROVE  TypeOK'
    BY <2>5 DEF StartEnter, ProceedToBind, Goto
  <2>6. ASSUME NEW c \in Callers, StartBind(c)
        PROVE  TypeOK'
    BY <2>6 DEF StartBind, Goto
  <2>7. ASSUME NEW c \in Callers, StartBindFails(c)
        PROVE  TypeOK'
    BY <2>7 DEF StartBindFails, Answer, Goto, Unlock
  <2>8. ASSUME NEW c \in Callers, StartDrop(c)
        PROVE  TypeOK'
    BY <2>8, ZenonT(60) DEF StartDrop, Goto
  <2>9. ASSUME NEW c \in Callers, StartBuild(c)
        PROVE  TypeOK'
    BY <2>9 DEF StartBuild, Goto
  <2>10. ASSUME NEW c \in Callers, StartBuildFails(c)
        PROVE  TypeOK'
    BY <2>10 DEF StartBuildFails, Answer, Goto, Unlock
  <2>11. ASSUME NEW c \in Callers, StartBuildPanics(c)
        PROVE  TypeOK'
    BY <2>11 DEF StartBuildPanics, Answer, Goto
  <2>12. ASSUME NEW c \in Callers, StartSpawn(c)
        PROVE  TypeOK'
    BY <2>12, ResidentCapType DEF StartSpawn, Answer, Goto, Unlock
  <2>13. ASSUME NEW c \in Callers, StopIdle(c)
        PROVE  TypeOK'
    BY <2>13 DEF StopIdle, Answer, Goto
  <2>14. ASSUME NEW c \in Callers, StopTake(c)
        PROVE  TypeOK'
    BY <2>14 DEF StopTake, TakeEngine, Goto
  <2>15. ASSUME NEW c \in Callers, StopClose(c)
        PROVE  TypeOK'
    BY <2>15 DEF StopClose, Goto
  <2>16. ASSUME NEW c \in Callers, StopDone(c)
        PROVE  TypeOK'
    BY <2>16, ZenonT(60) DEF StopDone, Answer, Goto, Unlock, Forget
  <2>17. ASSUME NEW c \in Callers, StopTimesOut(c)
        PROVE  TypeOK'
    BY <2>17 DEF StopTimesOut, Answer, Goto, Unlock
  <2>18. ASSUME NEW c \in Callers, PortRead(c)
        PROVE  TypeOK'
    BY <2>18 DEF PortRead, Answer, Goto
  <2>19. ASSUME NEW c \in Callers, Return(c)
        PROVE  TypeOK'
    BY <2>19 DEF Return, Goto
  <2>20. ASSUME NEW e \in Engines, ServeBind(e)
        PROVE  TypeOK'
    BY <2>20, ZenonT(60) DEF ServeBind, serveUnchanged
  <2>21. ASSUME NEW e \in Engines, ServeFails(e)
        PROVE  TypeOK'
    <3>1. ServeTypeOK'
      BY <2>21, TaskEndsType DEF ServeFails
    <3>2. owner' \in [Ports -> Engines \cup {Free, Probe, Other}]
      BY <2>21, PortFreedType DEF ServeFails
    <3>3. QED
      BY <2>21, <3>1, <3>2 DEF ServeFails, serveUnchanged, ServeTypeOK
  <2>22. ASSUME NEW e \in Engines, Scan(e)
        PROVE  TypeOK'
    BY <2>22 DEF Scan, serveUnchanged
  <2>23. ASSUME NEW e \in Engines, ServeDrain(e)
        PROVE  TypeOK'
    BY <2>23 DEF ServeDrain, serveUnchanged
  <2>24. ASSUME NEW e \in Engines, ServeDrained(e)
        PROVE  TypeOK'
    BY <2>24 DEF ServeDrained, serveUnchanged, PortFreed
  <2>25. ASSUME NEW e \in Engines, ServeFlush(e)
        PROVE  TypeOK'
    <3>1. ServeTypeOK'
      BY <2>25, TaskEndsType DEF ServeFlush
    <3>2. owner' \in [Ports -> Engines \cup {Free, Probe, Other}]
      BY <2>25, PortFreedType DEF ServeFlush
    <3>3. QED
      BY <2>25, <3>1, <3>2 DEF ServeFlush, serveUnchanged, ServeTypeOK
  <2>26. ASSUME NEW e \in Engines, TaskDropped(e)
        PROVE  TypeOK'
    <3>1. ServeTypeOK'
      BY <2>26, TaskEndsType DEF TaskDropped
    <3>2. owner' \in [Ports -> Engines \cup {Free, Probe, Other}]
      BY <2>26, PortFreedType DEF TaskDropped
    <3>3. QED
      BY <2>26, <3>1, <3>2 DEF TaskDropped, serveUnchanged, ServeTypeOK
  <2>27. ASSUME NEW p \in Ports, OtherBinds(p)
        PROVE  TypeOK'
    BY <2>27 DEF OtherBinds, envUnchanged
  <2>28. ASSUME NEW p \in Ports, OtherLeaves(p)
        PROVE  TypeOK'
    BY <2>28 DEF OtherLeaves, envUnchanged
  <2>29. ASSUME NEW mb \in Budgets, SetMemoryBudget(mb)
        PROVE  TypeOK'
    BY <2>29 DEF SetMemoryBudget
  <2>30. ASSUME NEW on \in BOOLEAN, SetDebugLogs(on)
        PROVE  TypeOK'
    BY <2>30 DEF SetDebugLogs, set_debug_logs
  <2>31. ASSUME ReleaseMemory
        PROVE  TypeOK'
    <3>1. leafCache' \in BOOLEAN
      BY <2>31 DEF ReleaseMemory
    <3>2. QED
      BY <2>31, <3>1 DEF ReleaseMemory
  <2>32. ASSUME Kill
        PROVE  TypeOK'
    BY <2>32 DEF Kill, LogReset
  <2>33. CASE UNCHANGED vars
    BY <2>33 DEF vars
  <2>34. QED
    BY <2>1, <2>2, <2>3, <2>4, <2>5, <2>6, <2>7, <2>8, <2>9, <2>10, <2>11, <2>12, <2>13, <2>14, <2>15, <2>16, <2>17, <2>18, <2>19, <2>20, <2>21, <2>22, <2>23, <2>24, <2>25, <2>26, <2>27, <2>28, <2>29, <2>30, <2>31, <2>32, <2>33
    DEF Next, start, stop, serve
<1>3. QED
  BY <1>1, <1>2, PTL DEF Spec

(* The critical section is exclusive, and the slot empty while it is held. *)
THEOREM LockCorrect == Spec => []LockInv
<1> USE EngineAssumption DEF EngineAssumption
<1> USE DEF InStart, InStop, callVars, localVars, lockVars, restVars
<1>1. Init => LockInv
  BY DEF Init, LockInv
<1>2. TypeOK /\ LockInv /\ [Next]_vars => LockInv'
  <2> SUFFICES ASSUME TypeOK, LockInv, [Next]_vars PROVE LockInv'
    OBVIOUS
  <2>0. pc \in [Callers -> PCs] /\ lock \in Callers \cup {NoCaller}
    BY DEF TypeOK
  <2> USE <2>0 DEF LockInv, CanLock
  <2>1. ASSUME NEW c \in Callers, NEW o \in Ops \ {"none"}, Call(c, o)
        PROVE  LockInv'
    BY <2>1 DEF Call, Goto
  <2>2. ASSUME NEW c \in Callers, StartInstall(c)
        PROVE  LockInv'
    BY <2>2 DEF StartInstall, Goto
  <2>3. ASSUME NEW c \in Callers, StartLevel(c)
        PROVE  LockInv'
    BY <2>3 DEF StartLevel, Goto
  <2>4. ASSUME NEW c \in Callers, StartReuse(c)
        PROVE  LockInv'
    BY <2>4 DEF StartReuse, Answer, Goto
  <2>5. ASSUME NEW c \in Callers, StartEnter(c)
        PROVE  LockInv'
    BY <2>5 DEF StartEnter, ProceedToBind, Goto
  <2>6. ASSUME NEW c \in Callers, StartBind(c)
        PROVE  LockInv'
    BY <2>6 DEF StartBind, Goto
  <2>7. ASSUME NEW c \in Callers, StartBindFails(c)
        PROVE  LockInv'
    BY <2>7 DEF StartBindFails, Answer, Goto, Unlock
  <2>8. ASSUME NEW c \in Callers, StartDrop(c)
        PROVE  LockInv'
    BY <2>8 DEF StartDrop, Goto
  <2>9. ASSUME NEW c \in Callers, StartBuild(c)
        PROVE  LockInv'
    BY <2>9 DEF StartBuild, Goto
  <2>10. ASSUME NEW c \in Callers, StartBuildFails(c)
        PROVE  LockInv'
    BY <2>10 DEF StartBuildFails, Answer, Goto, Unlock
  <2>11. ASSUME NEW c \in Callers, StartBuildPanics(c)
        PROVE  LockInv'
    BY <2>11 DEF StartBuildPanics, Answer, Goto
  <2>12. ASSUME NEW c \in Callers, StartSpawn(c)
        PROVE  LockInv'
    BY <2>12 DEF StartSpawn, Answer, Goto, Unlock
  <2>13. ASSUME NEW c \in Callers, StopIdle(c)
        PROVE  LockInv'
    BY <2>13 DEF StopIdle, Answer, Goto
  <2>14. ASSUME NEW c \in Callers, StopTake(c)
        PROVE  LockInv'
    BY <2>14 DEF StopTake, TakeEngine, Goto
  <2>15. ASSUME NEW c \in Callers, StopClose(c)
        PROVE  LockInv'
    BY <2>15 DEF StopClose, Goto
  <2>16. ASSUME NEW c \in Callers, StopDone(c)
        PROVE  LockInv'
    BY <2>16 DEF StopDone, Answer, Goto, Unlock
  <2>17. ASSUME NEW c \in Callers, StopTimesOut(c)
        PROVE  LockInv'
    BY <2>17 DEF StopTimesOut, Answer, Goto, Unlock
  <2>18. ASSUME NEW c \in Callers, PortRead(c)
        PROVE  LockInv'
    BY <2>18 DEF PortRead, Answer, Goto
  <2>19. ASSUME NEW c \in Callers, Return(c)
        PROVE  LockInv'
    BY <2>19 DEF Return, Goto
  <2>20. ASSUME NEW e \in Engines, ServeBind(e)
        PROVE  LockInv'
    BY <2>20 DEF ServeBind, serveUnchanged
  <2>21. ASSUME NEW e \in Engines, ServeFails(e)
        PROVE  LockInv'
    BY <2>21 DEF ServeFails, serveUnchanged
  <2>22. ASSUME NEW e \in Engines, Scan(e)
        PROVE  LockInv'
    BY <2>22 DEF Scan, serveUnchanged
  <2>23. ASSUME NEW e \in Engines, ServeDrain(e)
        PROVE  LockInv'
    BY <2>23 DEF ServeDrain, serveUnchanged
  <2>24. ASSUME NEW e \in Engines, ServeDrained(e)
        PROVE  LockInv'
    BY <2>24 DEF ServeDrained, serveUnchanged
  <2>25. ASSUME NEW e \in Engines, ServeFlush(e)
        PROVE  LockInv'
    BY <2>25 DEF ServeFlush, serveUnchanged
  <2>26. ASSUME NEW e \in Engines, TaskDropped(e)
        PROVE  LockInv'
    BY <2>26 DEF TaskDropped, serveUnchanged
  <2>27. ASSUME NEW p \in Ports, OtherBinds(p)
        PROVE  LockInv'
    BY <2>27 DEF OtherBinds, envUnchanged
  <2>28. ASSUME NEW p \in Ports, OtherLeaves(p)
        PROVE  LockInv'
    BY <2>28 DEF OtherLeaves, envUnchanged
  <2>29. ASSUME NEW mb \in Budgets, SetMemoryBudget(mb)
        PROVE  LockInv'
    BY <2>29 DEF SetMemoryBudget
  <2>30. ASSUME NEW on \in BOOLEAN, SetDebugLogs(on)
        PROVE  LockInv'
    BY <2>30 DEF SetDebugLogs
  <2>31. ASSUME ReleaseMemory
        PROVE  LockInv'
    BY <2>31 DEF ReleaseMemory
  <2>32. ASSUME Kill
        PROVE  LockInv'
    BY <2>32 DEF Kill
  <2>33. CASE UNCHANGED vars
    BY <2>33 DEF vars
  <2>34. QED
    BY <2>1, <2>2, <2>3, <2>4, <2>5, <2>6, <2>7, <2>8, <2>9, <2>10, <2>11, <2>12, <2>13, <2>14, <2>15, <2>16, <2>17, <2>18, <2>19, <2>20, <2>21, <2>22, <2>23, <2>24, <2>25, <2>26, <2>27, <2>28, <2>29, <2>30, <2>31, <2>32, <2>33
    DEF Next, start, stop, serve
<1>3. QED
  BY <1>1, <1>2, Typing, PTL DEF Spec

(* No engine is orphaned. *)
THEOREM EnginesAccounted == Spec => []NoOrphan
<1> USE DEF InStop, Live, callVars, localVars, lockVars, serveVars, restVars
<1>1. Init => NoOrphan
  BY DEF Init, NoOrphan
<1>2. TypeOK /\ LockInv /\ NoOrphan /\ [Next]_vars => NoOrphan'
  <2> SUFFICES ASSUME TypeOK, LockInv, NoOrphan, [Next]_vars PROVE NoOrphan'
    OBVIOUS
  <2>0. /\ pc \in [Callers -> PCs] /\ target \in [Callers -> Engines \cup {NoEngine}]
        /\ phase \in [Engines -> Phases] /\ leaked \in [Engines -> BOOLEAN]
        /\ ENGINE \in Engines \cup {NoEngine}
        /\ NoCaller \notin Callers /\ NoEngine \notin Engines
    BY EngineAssumption DEF TypeOK, EngineAssumption
  <2> USE <2>0 DEF NoOrphan, LockInv, CanLock, InStart
  <2>1. ASSUME NEW c \in Callers, NEW o \in Ops \ {"none"}, Call(c, o)
        PROVE  NoOrphan'
    BY <2>1 DEF Call, Goto
  <2>2. ASSUME NEW c \in Callers, StartInstall(c)
        PROVE  NoOrphan'
    BY <2>2 DEF StartInstall, ClaimLogger, LoggerClaimed, Goto
  <2>3. ASSUME NEW c \in Callers, StartLevel(c)
        PROVE  NoOrphan'
    BY <2>3 DEF StartLevel, FinishLogger, Goto
  <2>4. ASSUME NEW c \in Callers, StartReuse(c)
        PROVE  NoOrphan'
    BY <2>4 DEF StartReuse, Answer, Goto
  <2>5. ASSUME NEW c \in Callers, StartEnter(c)
        PROVE  NoOrphan'
    BY <2>5 DEF StartEnter, ProceedToBind, Goto
  <2>6. ASSUME NEW c \in Callers, StartBind(c)
        PROVE  NoOrphan'
    BY <2>6 DEF StartBind, Goto
  <2>7. ASSUME NEW c \in Callers, StartBindFails(c)
        PROVE  NoOrphan'
    BY <2>7 DEF StartBindFails, Answer, Goto, Unlock
  <2>8. ASSUME NEW c \in Callers, StartDrop(c)
        PROVE  NoOrphan'
    BY <2>8 DEF StartDrop, Goto
  <2>9. ASSUME NEW c \in Callers, StartBuild(c)
        PROVE  NoOrphan'
    BY <2>9 DEF StartBuild, Goto
  <2>10. ASSUME NEW c \in Callers, StartBuildFails(c)
        PROVE  NoOrphan'
    BY <2>10 DEF StartBuildFails, Answer, Goto, Unlock
  <2>11. ASSUME NEW c \in Callers, StartBuildPanics(c)
        PROVE  NoOrphan'
    BY <2>11 DEF StartBuildPanics, Answer, Goto
  <2>12. ASSUME NEW c \in Callers, StartSpawn(c)
        PROVE  NoOrphan'
    BY <2>12 DEF StartSpawn, Answer, Goto, Unlock
  <2>13. ASSUME NEW c \in Callers, StopIdle(c)
        PROVE  NoOrphan'
    BY <2>13 DEF StopIdle, Answer, Goto
  <2>14. ASSUME NEW c \in Callers, StopTake(c)
        PROVE  NoOrphan'
    BY <2>14 DEF StopTake, TakeEngine, Goto
  <2>15. ASSUME NEW c \in Callers, StopClose(c)
        PROVE  NoOrphan'
    BY <2>15 DEF StopClose, Goto
  <2>16. ASSUME NEW c \in Callers, StopDone(c)
        PROVE  NoOrphan'
    BY <2>16 DEF StopDone, Answer, Goto, Unlock, Forget
  <2>17. ASSUME NEW c \in Callers, StopTimesOut(c)
        PROVE  NoOrphan'
    BY <2>17 DEF StopTimesOut, Answer, Goto, Unlock
  <2>18. ASSUME NEW c \in Callers, PortRead(c)
        PROVE  NoOrphan'
    BY <2>18 DEF PortRead, Answer, Goto
  <2>19. ASSUME NEW c \in Callers, Return(c)
        PROVE  NoOrphan'
    BY <2>19 DEF Return, Goto
  <2>20. ASSUME NEW e \in Engines, ServeBind(e)
        PROVE  NoOrphan'
    BY <2>20 DEF ServeBind, serveUnchanged
  <2>21. ASSUME NEW e \in Engines, ServeFails(e)
        PROVE  NoOrphan'
    BY <2>21 DEF ServeFails, serveUnchanged, TaskEnds, Forget, PortFreed
  <2>22. ASSUME NEW e \in Engines, Scan(e)
        PROVE  NoOrphan'
    BY <2>22 DEF Scan, serveUnchanged
  <2>23. ASSUME NEW e \in Engines, ServeDrain(e)
        PROVE  NoOrphan'
    BY <2>23 DEF ServeDrain, serveUnchanged
  <2>24. ASSUME NEW e \in Engines, ServeDrained(e)
        PROVE  NoOrphan'
    BY <2>24 DEF ServeDrained, serveUnchanged, PortFreed
  <2>25. ASSUME NEW e \in Engines, ServeFlush(e)
        PROVE  NoOrphan'
    BY <2>25 DEF ServeFlush, serveUnchanged, TaskEnds, Forget
  <2>26. ASSUME NEW e \in Engines, TaskDropped(e)
        PROVE  NoOrphan'
    BY <2>26 DEF TaskDropped, serveUnchanged, TaskEnds, Forget, PortFreed
  <2>27. ASSUME NEW p \in Ports, OtherBinds(p)
        PROVE  NoOrphan'
    BY <2>27 DEF OtherBinds, envUnchanged
  <2>28. ASSUME NEW p \in Ports, OtherLeaves(p)
        PROVE  NoOrphan'
    BY <2>28 DEF OtherLeaves, envUnchanged
  <2>29. ASSUME NEW mb \in Budgets, SetMemoryBudget(mb)
        PROVE  NoOrphan'
    BY <2>29 DEF SetMemoryBudget
  <2>30. ASSUME NEW on \in BOOLEAN, SetDebugLogs(on)
        PROVE  NoOrphan'
    BY <2>30 DEF SetDebugLogs, set_debug_logs
  <2>31. ASSUME ReleaseMemory
        PROVE  NoOrphan'
    BY <2>31 DEF ReleaseMemory
  <2>32. ASSUME Kill
        PROVE  NoOrphan'
    BY <2>32 DEF Kill, LogReset
  <2>33. CASE UNCHANGED vars
    BY <2>33 DEF vars
  <2>34. QED
    BY <2>1, <2>2, <2>3, <2>4, <2>5, <2>6, <2>7, <2>8, <2>9, <2>10, <2>11, <2>12, <2>13, <2>14, <2>15, <2>16, <2>17, <2>18, <2>19, <2>20, <2>21, <2>22, <2>23, <2>24, <2>25, <2>26, <2>27, <2>28, <2>29, <2>30, <2>31, <2>32, <2>33
    DEF Next, start, stop, serve
<1>3. QED
  BY <1>1, <1>2, Typing, LockCorrect, PTL DEF Spec

(* Two engines never work on the wallet directory at once, unless a stop() *)
(* timed out.                                                              *)
THEOREM OneEngineAtATime == Spec => []SingleEngine
<1>1. TypeOK /\ LockInv /\ NoOrphan => SingleEngine
  <2> SUFFICES ASSUME TypeOK, LockInv, NoOrphan,
                      NEW d \in Engines, NEW e \in Engines, d # e,
                      phase[d] \in Live, phase[e] \in Live,
                      ~leaked[d], ~leaked[e]
               PROVE  FALSE
    BY DEF SingleEngine
  <2>1. \/ ENGINE = d
        \/ \E c \in Callers : target[c] = d /\ lock = c
    BY DEF NoOrphan, LockInv
  <2>2. \/ ENGINE = e
        \/ \E c \in Callers : target[c] = e /\ lock = c
    BY DEF NoOrphan, LockInv
  <2>3. NoEngine \notin Engines
    BY EngineAssumption DEF EngineAssumption
  <2>4. QED
    BY <2>1, <2>2, <2>3 DEF LockInv
<1>2. QED
  BY <1>1, Typing, LockCorrect, EnginesAccounted, PTL

(* No start() replaces an engine that is in the slot. *)
THEOREM SlotKept == Spec => SlotNeverOverwritten
<1>1. TypeOK /\ LockInv /\ [Next]_vars
        => [ENGINE # NoEngine => ENGINE' \in {ENGINE, NoEngine}]_vars
  <2> SUFFICES ASSUME TypeOK, LockInv, [Next]_vars, ENGINE # NoEngine
               PROVE  ENGINE' \in {ENGINE, NoEngine}
    OBVIOUS
  <2>1. ASSUME NEW c \in Callers, StartSpawn(c)
        PROVE  FALSE
    BY <2>1 DEF StartSpawn, LockInv, InStart
  <2>2. ASSUME NEW c \in Callers, StopTake(c)
        PROVE  ENGINE' = NoEngine
    BY <2>2 DEF StopTake, TakeEngine
  <2>3. CASE Kill
    BY <2>3 DEF Kill
  <2>4. CASE UNCHANGED ENGINE
    BY <2>4
  <2>5. QED
    BY <2>1, <2>2, <2>3, <2>4
    DEF Next, start, stop, serve, vars, Call, StartInstall, StartLevel, StartReuse,
        StartEnter, ProceedToBind, StartBind, StartBindFails, StartDrop, StartBuild,
        StartBuildFails, StartBuildPanics, StopIdle, StopClose, StopDone,
        StopTimesOut, PortRead, Return, ServeBind, ServeFails, Scan, ServeDrain,
        ServeDrained, ServeFlush, TaskDropped, serveUnchanged, OtherBinds,
        OtherLeaves, envUnchanged, SetMemoryBudget, SetDebugLogs, ReleaseMemory
<1>2. QED
  BY <1>1, Typing, LockCorrect, PTL DEF Spec, SlotNeverOverwritten

(* The cap computed from a budget fits that budget. *)
LEMMA CapFitsBudget ==
  ASSUME NEW budget \in Nat
  PROVE  CapFits(ResidentCap(budget), budget)
<1> DEFINE half == budget \div 2
           cap == half \div 192
<1>1. half \in Nat /\ 2 * half <= budget
  OBVIOUS
<1>2. cap \in Nat /\ 192 * cap <= half
  BY <1>1
<1>3. 2 * 192 * cap <= budget
  BY <1>1, <1>2
<1>4. ResidentCap(budget) = IF budget = 0 THEN 2 ELSE IF cap = 0 THEN 1 ELSE cap
  BY DEF ResidentCap
<1>5. QED
  BY <1>2, <1>3, <1>4 DEF CapFits

(* Every engine runs under a cap that fits a budget the app has announced, *)
(* though the budget may have changed since.                               *)
BudgetInv == MEM_BUDGET_MB \in announced /\ CapWithinBudget

THEOREM CapsFit == Spec => []CapWithinBudget
<1> USE DEF Live, Ended, callVars, localVars, lockVars, serveVars, budgetVars, restVars
<1>1. Init => BudgetInv
  BY DEF Init, BudgetInv, CapWithinBudget
<1>2. TypeOK /\ BudgetInv /\ [Next]_vars => BudgetInv'
  <2> SUFFICES ASSUME TypeOK, BudgetInv, [Next]_vars PROVE BudgetInv'
    OBVIOUS
  <2>0. /\ phase \in [Engines -> Phases] /\ capOf \in [Engines -> Nat]
        /\ MEM_BUDGET_MB \in Nat
    BY EngineAssumption DEF TypeOK, EngineAssumption
  <2> USE <2>0 DEF BudgetInv, CapWithinBudget
  <2>1. ASSUME NEW c \in Callers, NEW o \in Ops \ {"none"}, Call(c, o)
        PROVE  BudgetInv'
    BY <2>1 DEF Call, Goto
  <2>2. ASSUME NEW c \in Callers, StartInstall(c)
        PROVE  BudgetInv'
    BY <2>2 DEF StartInstall, ClaimLogger, LoggerClaimed, Goto
  <2>3. ASSUME NEW c \in Callers, StartLevel(c)
        PROVE  BudgetInv'
    BY <2>3 DEF StartLevel, FinishLogger, Goto
  <2>4. ASSUME NEW c \in Callers, StartReuse(c)
        PROVE  BudgetInv'
    BY <2>4 DEF StartReuse, Answer, Goto
  <2>5. ASSUME NEW c \in Callers, StartEnter(c)
        PROVE  BudgetInv'
    BY <2>5 DEF StartEnter, ProceedToBind, Goto
  <2>6. ASSUME NEW c \in Callers, StartBind(c)
        PROVE  BudgetInv'
    BY <2>6 DEF StartBind, Goto
  <2>7. ASSUME NEW c \in Callers, StartBindFails(c)
        PROVE  BudgetInv'
    BY <2>7 DEF StartBindFails, Answer, Goto, Unlock
  <2>8. ASSUME NEW c \in Callers, StartDrop(c)
        PROVE  BudgetInv'
    BY <2>8 DEF StartDrop, Goto
  <2>9. ASSUME NEW c \in Callers, StartBuild(c)
        PROVE  BudgetInv'
    BY <2>9 DEF StartBuild, Goto
  <2>10. ASSUME NEW c \in Callers, StartBuildFails(c)
        PROVE  BudgetInv'
    BY <2>10 DEF StartBuildFails, Answer, Goto, Unlock
  <2>11. ASSUME NEW c \in Callers, StartBuildPanics(c)
        PROVE  BudgetInv'
    BY <2>11 DEF StartBuildPanics, Answer, Goto
  <2>12. ASSUME NEW c \in Callers, StartSpawn(c)
        PROVE  BudgetInv'
    BY <2>12, CapFitsBudget DEF StartSpawn, Answer, Goto, Unlock
  <2>13. ASSUME NEW c \in Callers, StopIdle(c)
        PROVE  BudgetInv'
    BY <2>13 DEF StopIdle, Answer, Goto
  <2>14. ASSUME NEW c \in Callers, StopTake(c)
        PROVE  BudgetInv'
    BY <2>14 DEF StopTake, TakeEngine, Goto
  <2>15. ASSUME NEW c \in Callers, StopClose(c)
        PROVE  BudgetInv'
    BY <2>15 DEF StopClose, Goto
  <2>16. ASSUME NEW c \in Callers, StopDone(c)
        PROVE  BudgetInv'
    BY <2>16 DEF StopDone, Answer, Goto, Unlock, Forget
  <2>17. ASSUME NEW c \in Callers, StopTimesOut(c)
        PROVE  BudgetInv'
    BY <2>17 DEF StopTimesOut, Answer, Goto, Unlock
  <2>18. ASSUME NEW c \in Callers, PortRead(c)
        PROVE  BudgetInv'
    BY <2>18 DEF PortRead, Answer, Goto
  <2>19. ASSUME NEW c \in Callers, Return(c)
        PROVE  BudgetInv'
    BY <2>19 DEF Return, Goto
  <2>20. ASSUME NEW e \in Engines, ServeBind(e)
        PROVE  BudgetInv'
    BY <2>20 DEF ServeBind, serveUnchanged
  <2>21. ASSUME NEW e \in Engines, ServeFails(e)
        PROVE  BudgetInv'
    BY <2>21 DEF ServeFails, serveUnchanged, TaskEnds, Forget, PortFreed
  <2>22. ASSUME NEW e \in Engines, Scan(e)
        PROVE  BudgetInv'
    BY <2>22 DEF Scan, serveUnchanged
  <2>23. ASSUME NEW e \in Engines, ServeDrain(e)
        PROVE  BudgetInv'
    BY <2>23 DEF ServeDrain, serveUnchanged
  <2>24. ASSUME NEW e \in Engines, ServeDrained(e)
        PROVE  BudgetInv'
    BY <2>24 DEF ServeDrained, serveUnchanged, PortFreed
  <2>25. ASSUME NEW e \in Engines, ServeFlush(e)
        PROVE  BudgetInv'
    BY <2>25 DEF ServeFlush, serveUnchanged, TaskEnds, Forget
  <2>26. ASSUME NEW e \in Engines, TaskDropped(e)
        PROVE  BudgetInv'
    BY <2>26 DEF TaskDropped, serveUnchanged, TaskEnds, Forget, PortFreed
  <2>27. ASSUME NEW p \in Ports, OtherBinds(p)
        PROVE  BudgetInv'
    BY <2>27 DEF OtherBinds, envUnchanged
  <2>28. ASSUME NEW p \in Ports, OtherLeaves(p)
        PROVE  BudgetInv'
    BY <2>28 DEF OtherLeaves, envUnchanged
  <2>29. ASSUME NEW mb \in Budgets, SetMemoryBudget(mb)
        PROVE  BudgetInv'
    BY <2>29 DEF SetMemoryBudget
  <2>30. ASSUME NEW on \in BOOLEAN, SetDebugLogs(on)
        PROVE  BudgetInv'
    BY <2>30 DEF SetDebugLogs, set_debug_logs
  <2>31. ASSUME ReleaseMemory
        PROVE  BudgetInv'
    BY <2>31 DEF ReleaseMemory
  <2>32. ASSUME Kill
        PROVE  BudgetInv'
    BY <2>32 DEF Kill, LogReset
  <2>33. CASE UNCHANGED vars
    BY <2>33 DEF vars
  <2>34. QED
    BY <2>1, <2>2, <2>3, <2>4, <2>5, <2>6, <2>7, <2>8, <2>9, <2>10, <2>11, <2>12, <2>13, <2>14, <2>15, <2>16, <2>17, <2>18, <2>19, <2>20, <2>21, <2>22, <2>23, <2>24, <2>25, <2>26, <2>27, <2>28, <2>29, <2>30, <2>31, <2>32, <2>33
    DEF Next, start, stop, serve
<1>3. BudgetInv => CapWithinBudget
  BY DEF BudgetInv
<1>4. QED
  BY <1>1, <1>2, <1>3, Typing, PTL DEF Spec

(* An instance holds a port only while it serves or drains, and the probe  *)
(* of start() only between its bind and its drop: with NoOrphan, every port *)
(* this app holds is accounted for.                                        *)
PortInv ==
  \A p \in Ports :
    /\ owner[p] = Probe => \E c \in Callers : pc[c] = "drop" /\ probe[c] = p
    /\ owner[p] \in Engines => phase[owner[p]] \in {"serving", "draining"}

THEOREM PortsAccounted == Spec => []PortAccounted
<1> USE DEF callVars, localVars, lockVars, serveVars, restVars
<1>1. Init => PortInv
  BY EngineAssumption DEF Init, PortInv, EngineAssumption
<1>2. TypeOK /\ LockInv /\ PortInv /\ [Next]_vars => PortInv'
  <2> SUFFICES ASSUME TypeOK, LockInv, PortInv, [Next]_vars PROVE PortInv'
    OBVIOUS
  <2>0. /\ pc \in [Callers -> PCs] /\ probe \in [Callers -> Ports \cup {NoPort}]
        /\ phase \in [Engines -> Phases] /\ portOf \in [Engines -> Ports \cup {NoPort}]
        /\ target \in [Callers -> Engines \cup {NoEngine}]
        /\ owner \in [Ports -> Engines \cup {Free, Probe, Other}]
        /\ NoCaller \notin Callers /\ NoPort \notin Ports
        /\ Free \notin Engines /\ Probe \notin Engines /\ Other \notin Engines
        /\ Free # Probe /\ Free # Other /\ Probe # Other
    BY EngineAssumption DEF TypeOK, EngineAssumption
  <2> USE <2>0 DEF PortInv, LockInv, CanLock, InStart, InStop, Live, Ended
  <2>1. ASSUME NEW c \in Callers, NEW o \in Ops \ {"none"}, Call(c, o)
        PROVE  PortInv'
    BY <2>1 DEF Call, Goto
  <2>2. ASSUME NEW c \in Callers, StartInstall(c)
        PROVE  PortInv'
    BY <2>2 DEF StartInstall, ClaimLogger, LoggerClaimed, Goto
  <2>3. ASSUME NEW c \in Callers, StartLevel(c)
        PROVE  PortInv'
    BY <2>3 DEF StartLevel, FinishLogger, Goto
  <2>4. ASSUME NEW c \in Callers, StartReuse(c)
        PROVE  PortInv'
    BY <2>4 DEF StartReuse, Answer, Goto
  <2>5. ASSUME NEW c \in Callers, StartEnter(c)
        PROVE  PortInv'
    BY <2>5 DEF StartEnter, ProceedToBind, Goto
  <2>6. ASSUME NEW c \in Callers, StartBind(c)
        PROVE  PortInv'
    BY <2>6 DEF StartBind, Goto
  <2>7. ASSUME NEW c \in Callers, StartBindFails(c)
        PROVE  PortInv'
    BY <2>7 DEF StartBindFails, Answer, Goto, Unlock
  <2>8. ASSUME NEW c \in Callers, StartDrop(c)
        PROVE  PortInv'
    BY <2>8 DEF StartDrop, Goto
  <2>9. ASSUME NEW c \in Callers, StartBuild(c)
        PROVE  PortInv'
    BY <2>9 DEF StartBuild, Goto
  <2>10. ASSUME NEW c \in Callers, StartBuildFails(c)
        PROVE  PortInv'
    BY <2>10 DEF StartBuildFails, Answer, Goto, Unlock
  <2>11. ASSUME NEW c \in Callers, StartBuildPanics(c)
        PROVE  PortInv'
    BY <2>11 DEF StartBuildPanics, Answer, Goto
  <2>12. ASSUME NEW c \in Callers, StartSpawn(c)
        PROVE  PortInv'
    BY <2>12 DEF StartSpawn, Answer, Goto, Unlock
  <2>13. ASSUME NEW c \in Callers, StopIdle(c)
        PROVE  PortInv'
    BY <2>13 DEF StopIdle, Answer, Goto
  <2>14. ASSUME NEW c \in Callers, StopTake(c)
        PROVE  PortInv'
    BY <2>14 DEF StopTake, TakeEngine, Goto
  <2>15. ASSUME NEW c \in Callers, StopClose(c)
        PROVE  PortInv'
    BY <2>15 DEF StopClose, Goto
  <2>16. ASSUME NEW c \in Callers, StopDone(c)
        PROVE  PortInv'
    BY <2>16 DEF StopDone, Answer, Goto, Unlock, Forget
  <2>17. ASSUME NEW c \in Callers, StopTimesOut(c)
        PROVE  PortInv'
    BY <2>17 DEF StopTimesOut, Answer, Goto, Unlock
  <2>18. ASSUME NEW c \in Callers, PortRead(c)
        PROVE  PortInv'
    BY <2>18 DEF PortRead, Answer, Goto
  <2>19. ASSUME NEW c \in Callers, Return(c)
        PROVE  PortInv'
    BY <2>19 DEF Return, Goto
  <2>20. ASSUME NEW e \in Engines, ServeBind(e)
        PROVE  PortInv'
    BY <2>20 DEF ServeBind, serveUnchanged
  <2>21. ASSUME NEW e \in Engines, ServeFails(e)
        PROVE  PortInv'
    BY <2>21 DEF ServeFails, serveUnchanged, TaskEnds, Forget, PortFreed
  <2>22. ASSUME NEW e \in Engines, Scan(e)
        PROVE  PortInv'
    BY <2>22 DEF Scan, serveUnchanged
  <2>23. ASSUME NEW e \in Engines, ServeDrain(e)
        PROVE  PortInv'
    BY <2>23 DEF ServeDrain, serveUnchanged
  <2>24. ASSUME NEW e \in Engines, ServeDrained(e)
        PROVE  PortInv'
    BY <2>24 DEF ServeDrained, serveUnchanged, PortFreed
  <2>25. ASSUME NEW e \in Engines, ServeFlush(e)
        PROVE  PortInv'
    BY <2>25 DEF ServeFlush, serveUnchanged, TaskEnds, Forget
  <2>26. ASSUME NEW e \in Engines, TaskDropped(e)
        PROVE  PortInv'
    BY <2>26 DEF TaskDropped, serveUnchanged, TaskEnds, Forget, PortFreed
  <2>27. ASSUME NEW p \in Ports, OtherBinds(p)
        PROVE  PortInv'
    BY <2>27 DEF OtherBinds, envUnchanged
  <2>28. ASSUME NEW p \in Ports, OtherLeaves(p)
        PROVE  PortInv'
    BY <2>28 DEF OtherLeaves, envUnchanged
  <2>29. ASSUME NEW mb \in Budgets, SetMemoryBudget(mb)
        PROVE  PortInv'
    BY <2>29 DEF SetMemoryBudget
  <2>30. ASSUME NEW on \in BOOLEAN, SetDebugLogs(on)
        PROVE  PortInv'
    BY <2>30 DEF SetDebugLogs, set_debug_logs
  <2>31. ASSUME ReleaseMemory
        PROVE  PortInv'
    BY <2>31 DEF ReleaseMemory
  <2>32. ASSUME Kill
        PROVE  PortInv'
    BY <2>32 DEF Kill, LogReset
  <2>33. CASE UNCHANGED vars
    BY <2>33 DEF vars
  <2>34. QED
    BY <2>1, <2>2, <2>3, <2>4, <2>5, <2>6, <2>7, <2>8, <2>9, <2>10, <2>11, <2>12, <2>13, <2>14, <2>15, <2>16, <2>17, <2>18, <2>19, <2>20, <2>21, <2>22, <2>23, <2>24, <2>25, <2>26, <2>27, <2>28, <2>29, <2>30, <2>31, <2>32, <2>33
    DEF Next, start, stop, serve
<1>3. PortInv /\ NoOrphan => PortAccounted
  BY DEF PortInv, NoOrphan, PortAccounted, Live
<1>4. QED
  BY <1>1, <1>2, <1>3, Typing, LockCorrect, EnginesAccounted, PTL DEF Spec

(* How far into the current stretch of n blocks x is, and one block on. *)
LEMMA ModRange ==
  ASSUME NEW n \in Nat \ {0}, NEW x \in Nat
  PROVE  x % n \in 0..(n - 1)
BY SMT

LEMMA ModUnique ==
  ASSUME NEW n \in Nat \ {0}, NEW q \in Nat, NEW r \in 0..(n - 1)
  PROVE  (n * q + r) % n = r
BY Z3T(60)

LEMMA ModNext ==
  ASSUME NEW n \in Nat \ {0}, NEW x \in Nat, (x + 1) % n # 0
  PROVE  (x + 1) % n = (x % n) + 1
<1> DEFINE q == x \div n
           r == x % n
<1>1. x = n * q + r /\ q \in Nat /\ r \in 0..(n - 1)
  BY Z3
<1>2. CASE r + 1 = n
  <2>1. x + 1 = n * (q + 1) + 0
    BY <1>1, <1>2, Z3
  <2>2. (n * (q + 1) + 0) % n = 0
    <3>1. q + 1 \in Nat /\ 0 \in 0..(n - 1)
      BY <1>1
    <3>2. QED
      BY <3>1, ModUnique
  <2>3. QED
    BY <2>1, <2>2
<1>3. CASE r + 1 # n
  <2>1. x + 1 = n * q + (r + 1) /\ r + 1 \in 0..(n - 1)
    BY <1>1, <1>3
  <2>2. QED
    BY <1>1, <2>1, ModUnique
<1>4. QED
  BY <1>2, <1>3

(* While no stop() has timed out, no instance is left behind, and an       *)
(* engine is ahead of the checkpoint by no more than the blocks it has     *)
(* scanned since it last wrote one.                                        *)
ProgressInv ==
  ~timedOut =>
    /\ \A e \in Engines : ~leaked[e]
    /\ \A e \in Engines : phase[e] \in Working =>
         /\ checkpoint <= scanned[e]
         /\ scanned[e] - checkpoint <= scanned[e] % CHECKPOINT_EVERY

LEMMA ProgressKept == Spec => []ProgressInv
<1> USE DEF Working, callVars, localVars, lockVars, serveVars, restVars
<1>1. Init => ProgressInv
  BY DEF Init, ProgressInv
<1>2. TypeOK /\ SingleEngine /\ ProgressInv /\ [Next]_vars => ProgressInv'
  <2> SUFFICES ASSUME TypeOK, SingleEngine, ProgressInv, [Next]_vars
               PROVE  ProgressInv'
    OBVIOUS
  <2>0. /\ phase \in [Engines -> Phases] /\ leaked \in [Engines -> BOOLEAN]
        /\ scanned \in [Engines -> 0..Tip] /\ checkpoint \in 0..Tip
        /\ timedOut \in BOOLEAN
        /\ Tip \in Nat /\ CHECKPOINT_EVERY \in Nat \ {0}
    BY EngineAssumption DEF TypeOK, EngineAssumption
  <2> USE <2>0 DEF ProgressInv, Live, Ended
  <2>1. ASSUME NEW c \in Callers, NEW o \in Ops \ {"none"}, Call(c, o)
        PROVE  ProgressInv'
    BY <2>1 DEF Call, Goto
  <2>2. ASSUME NEW c \in Callers, StartInstall(c)
        PROVE  ProgressInv'
    BY <2>2 DEF StartInstall, ClaimLogger, LoggerClaimed, Goto
  <2>3. ASSUME NEW c \in Callers, StartLevel(c)
        PROVE  ProgressInv'
    BY <2>3 DEF StartLevel, FinishLogger, Goto
  <2>4. ASSUME NEW c \in Callers, StartReuse(c)
        PROVE  ProgressInv'
    BY <2>4 DEF StartReuse, Answer, Goto
  <2>5. ASSUME NEW c \in Callers, StartEnter(c)
        PROVE  ProgressInv'
    BY <2>5 DEF StartEnter, ProceedToBind, Goto
  <2>6. ASSUME NEW c \in Callers, StartBind(c)
        PROVE  ProgressInv'
    BY <2>6 DEF StartBind, Goto
  <2>7. ASSUME NEW c \in Callers, StartBindFails(c)
        PROVE  ProgressInv'
    BY <2>7 DEF StartBindFails, Answer, Goto, Unlock
  <2>8. ASSUME NEW c \in Callers, StartDrop(c)
        PROVE  ProgressInv'
    BY <2>8 DEF StartDrop, Goto
  <2>9. ASSUME NEW c \in Callers, StartBuild(c)
        PROVE  ProgressInv'
    BY <2>9 DEF StartBuild, Goto
  <2>10. ASSUME NEW c \in Callers, StartBuildFails(c)
        PROVE  ProgressInv'
    BY <2>10 DEF StartBuildFails, Answer, Goto, Unlock
  <2>11. ASSUME NEW c \in Callers, StartBuildPanics(c)
        PROVE  ProgressInv'
    BY <2>11 DEF StartBuildPanics, Answer, Goto
  <2>12. ASSUME NEW c \in Callers, StartSpawn(c)
        PROVE  ProgressInv'
    BY <2>12 DEF StartSpawn, Answer, Goto, Unlock
  <2>13. ASSUME NEW c \in Callers, StopIdle(c)
        PROVE  ProgressInv'
    BY <2>13 DEF StopIdle, Answer, Goto
  <2>14. ASSUME NEW c \in Callers, StopTake(c)
        PROVE  ProgressInv'
    BY <2>14 DEF StopTake, TakeEngine, Goto
  <2>15. ASSUME NEW c \in Callers, StopClose(c)
        PROVE  ProgressInv'
    BY <2>15 DEF StopClose, Goto
  <2>16. ASSUME NEW c \in Callers, StopDone(c)
        PROVE  ProgressInv'
    BY <2>16 DEF StopDone, Answer, Goto, Unlock, Forget
  <2>17. ASSUME NEW c \in Callers, StopTimesOut(c)
        PROVE  ProgressInv'
    BY <2>17 DEF StopTimesOut, Answer, Goto, Unlock
  <2>18. ASSUME NEW c \in Callers, PortRead(c)
        PROVE  ProgressInv'
    BY <2>18 DEF PortRead, Answer, Goto
  <2>19. ASSUME NEW c \in Callers, Return(c)
        PROVE  ProgressInv'
    BY <2>19 DEF Return, Goto
  <2>20. ASSUME NEW e \in Engines, ServeBind(e)
        PROVE  ProgressInv'
    <3>1. UNCHANGED <<timedOut, leaked, checkpoint>>
      BY <2>20 DEF ServeBind, serveUnchanged
    <3>2. /\ phase' = [phase EXCEPT ![e] = "serving"]
          /\ scanned' = [scanned EXCEPT ![e] = checkpoint]
      BY <2>20 DEF ServeBind
    <3>3. checkpoint % CHECKPOINT_EVERY \in 0..(CHECKPOINT_EVERY - 1)
      BY ModRange
    <3>4. QED
      BY <3>1, <3>2, <3>3
  <2>21. ASSUME NEW e \in Engines, ServeFails(e)
        PROVE  ProgressInv'
    <3>1. UNCHANGED <<timedOut, checkpoint>>
      BY <2>21 DEF ServeFails, serveUnchanged
    <3>2. ~timedOut => /\ phase' = [phase EXCEPT ![e] = "failed"]
                       /\ UNCHANGED <<scanned, leaked>>
      BY <2>21 DEF ServeFails, TaskEnds
    <3>3. QED
      BY <3>1, <3>2
  <2>22. ASSUME NEW e \in Engines, Scan(e)
        PROVE  ProgressInv'
    <3>1. /\ UNCHANGED <<timedOut, phase, leaked>>
          /\ phase[e] = "serving"
          /\ scanned' = [scanned EXCEPT ![e] = @ + 1]
          /\ checkpoint' = IF (scanned[e] + 1) % CHECKPOINT_EVERY = 0
                           THEN scanned[e] + 1 ELSE checkpoint
      BY <2>22 DEF Scan, serveUnchanged
    <3>2. ~timedOut => \A d \in Engines : phase[d] \in Working => d = e
      BY <3>1 DEF SingleEngine
    <3>3. /\ scanned[e] \in Nat /\ scanned'[e] = scanned[e] + 1
          /\ \A d \in Engines : phase'[d] = phase[d] /\ leaked'[d] = leaked[d]
      BY <3>1
    <3>4. ~timedOut => /\ checkpoint' <= scanned'[e]
                       /\ scanned'[e] - checkpoint' <= scanned'[e] % CHECKPOINT_EVERY
      <4> SUFFICES ASSUME ~timedOut
                   PROVE  /\ checkpoint' <= scanned'[e]
                          /\ scanned'[e] - checkpoint' <= scanned'[e] % CHECKPOINT_EVERY
        OBVIOUS
      <4>1. /\ checkpoint <= scanned[e]
            /\ scanned[e] - checkpoint <= scanned[e] % CHECKPOINT_EVERY
        BY <3>1
      <4>2. CASE (scanned[e] + 1) % CHECKPOINT_EVERY = 0
        BY <3>1, <3>3, <4>2
      <4>3. CASE (scanned[e] + 1) % CHECKPOINT_EVERY # 0
        <5> DEFINE r == scanned[e] % CHECKPOINT_EVERY
        <5>1. scanned'[e] % CHECKPOINT_EVERY = r + 1 /\ r \in Nat
          <6>1. r \in 0..(CHECKPOINT_EVERY - 1)
            BY <3>3, ModRange
          <6>2. (scanned[e] + 1) % CHECKPOINT_EVERY = r + 1
            BY <3>3, <4>3, ModNext
          <6>3. QED
            BY <3>3, <6>1, <6>2
        <5>2. checkpoint' = checkpoint /\ scanned[e] - checkpoint <= r
          BY <3>1, <4>1, <4>3
        <5> HIDE DEF r
        <5>3. QED
          BY <3>3, <4>1, <5>1, <5>2
      <4>4. QED
        BY <4>2, <4>3
    <3>5. QED
      BY <3>1, <3>2, <3>3, <3>4
  <2>23. ASSUME NEW e \in Engines, ServeDrain(e)
        PROVE  ProgressInv'
    BY <2>23 DEF ServeDrain, serveUnchanged
  <2>24. ASSUME NEW e \in Engines, ServeDrained(e)
        PROVE  ProgressInv'
    BY <2>24 DEF ServeDrained, serveUnchanged, PortFreed
  <2>25. ASSUME NEW e \in Engines, ServeFlush(e)
        PROVE  ProgressInv'
    <3>1. UNCHANGED timedOut /\ phase[e] = "flushing"
      BY <2>25 DEF ServeFlush, serveUnchanged
    <3>2. ~timedOut => /\ phase' = [phase EXCEPT ![e] = "done"]
                       /\ UNCHANGED <<scanned, leaked>>
      BY <2>25 DEF ServeFlush, TaskEnds
    <3>3. ~timedOut => \A d \in Engines : phase[d] \in Working => d = e
      BY <3>1 DEF SingleEngine
    <3>4. QED
      BY <3>1, <3>2, <3>3
  <2>26. ASSUME NEW e \in Engines, TaskDropped(e)
        PROVE  ProgressInv'
    <3>1. UNCHANGED <<timedOut, checkpoint>>
      BY <2>26 DEF TaskDropped, serveUnchanged
    <3>2. ~timedOut => /\ phase' = [phase EXCEPT ![e] = "cut"]
                       /\ UNCHANGED <<scanned, leaked>>
      BY <2>26 DEF TaskDropped, TaskEnds
    <3>3. QED
      BY <3>1, <3>2
  <2>27. ASSUME NEW p \in Ports, OtherBinds(p)
        PROVE  ProgressInv'
    BY <2>27 DEF OtherBinds, envUnchanged
  <2>28. ASSUME NEW p \in Ports, OtherLeaves(p)
        PROVE  ProgressInv'
    BY <2>28 DEF OtherLeaves, envUnchanged
  <2>29. ASSUME NEW mb \in Budgets, SetMemoryBudget(mb)
        PROVE  ProgressInv'
    BY <2>29 DEF SetMemoryBudget
  <2>30. ASSUME NEW on \in BOOLEAN, SetDebugLogs(on)
        PROVE  ProgressInv'
    BY <2>30 DEF SetDebugLogs, set_debug_logs
  <2>31. ASSUME ReleaseMemory
        PROVE  ProgressInv'
    BY <2>31 DEF ReleaseMemory
  <2>32. ASSUME Kill
        PROVE  ProgressInv'
    BY <2>32 DEF Kill, LogReset
  <2>33. CASE UNCHANGED vars
    BY <2>33 DEF vars
  <2>34. QED
    BY <2>1, <2>2, <2>3, <2>4, <2>5, <2>6, <2>7, <2>8, <2>9, <2>10, <2>11, <2>12, <2>13, <2>14, <2>15, <2>16, <2>17, <2>18, <2>19, <2>20, <2>21, <2>22, <2>23, <2>24, <2>25, <2>26, <2>27, <2>28, <2>29, <2>30, <2>31, <2>32, <2>33
    DEF Next, start, stop, serve
<1>3. QED
  BY <1>1, <1>2, Typing, OneEngineAtATime, PTL DEF Spec

(* What a kill or a cut shutdown can cost, while no stop() has timed out. *)
THEOREM LossIsBounded == Spec => []LossBounded
<1>1. TypeOK /\ ProgressInv => LossBounded
  <2> SUFFICES ASSUME TypeOK, ProgressInv, ~timedOut,
                      NEW e \in Engines, phase[e] \in Working
               PROVE  scanned[e] < checkpoint + CHECKPOINT_EVERY
    BY DEF LossBounded
  <2>1. scanned[e] \in Nat /\ checkpoint \in Nat /\ CHECKPOINT_EVERY \in Nat \ {0}
    BY EngineAssumption DEF TypeOK, EngineAssumption
  <2>2. scanned[e] % CHECKPOINT_EVERY \in 0..(CHECKPOINT_EVERY - 1)
    BY <2>1, ModRange
  <2>3. scanned[e] - checkpoint <= scanned[e] % CHECKPOINT_EVERY
    BY Zenon DEF ProgressInv
  <2>4. QED
    BY <2>1, <2>2, <2>3
<1>2. QED
  BY <1>1, Typing, ProgressKept, PTL

(* The checkpoint on disk never goes back while no stop() has timed out:   *)
(* the only writers are a scan and a flush, each ahead of it.              *)
THEOREM CheckpointKept == Spec => CheckpointForward
<1>1. TypeOK /\ ProgressInv /\ [Next]_vars => [~timedOut => checkpoint' >= checkpoint]_vars
  <2> SUFFICES ASSUME TypeOK, ProgressInv, [Next]_vars, ~timedOut
               PROVE  checkpoint' >= checkpoint
    OBVIOUS
  <2>0. checkpoint \in Nat /\ \A e \in Engines : scanned[e] \in Nat
    BY EngineAssumption DEF TypeOK, EngineAssumption
  <2>1. ASSUME NEW e \in Engines, Scan(e)
        PROVE  checkpoint' >= checkpoint
    <3>1. checkpoint' \in {checkpoint, scanned[e] + 1}
      BY <2>1, Zenon DEF Scan
    <3>2. checkpoint <= scanned[e]
      BY <2>1, Zenon DEF Scan, ProgressInv, Working
    <3>3. QED
      BY <2>0, <3>1, <3>2
  <2>2. ASSUME NEW e \in Engines, ServeFlush(e)
        PROVE  checkpoint' >= checkpoint
    <3>1. checkpoint' = scanned[e]
      BY <2>2 DEF ServeFlush
    <3>2. checkpoint <= scanned[e]
      BY <2>2, Zenon DEF ServeFlush, ProgressInv, Working
    <3>3. QED
      BY <2>0, <3>1, <3>2
  <2>3. CASE UNCHANGED checkpoint
    BY <2>0, <2>3
  <2>4. QED
    BY <2>1, <2>2, <2>3
    DEF Next, start, stop, serve, vars, restVars, Call, StartInstall, StartLevel,
        StartReuse, StartEnter, ProceedToBind, StartBind, StartBindFails, StartDrop,
        StartBuild, StartBuildFails, StartBuildPanics, StartSpawn, StopIdle,
        StopTake, TakeEngine, StopClose, StopDone, StopTimesOut, PortRead, Return,
        ServeBind, ServeFails, ServeDrain, ServeDrained, TaskDropped, OtherBinds,
        OtherLeaves, envUnchanged, SetMemoryBudget, SetDebugLogs, ReleaseMemory, Kill
<1>2. QED
  BY <1>1, Typing, ProgressKept, PTL DEF Spec, CheckpointForward

-----------------------------------------------------------------------------
(* Engine implements EngineApi.                                            *)

(* What a thread has in hand at each point of its call, and what the slot  *)
(* holds: the port of an engine is one that a start() had probed, and an   *)
(* engine that a stop() gave up on is not in the slot again.               *)
CallInv ==
  /\ \A c \in Callers :
       /\ pc[c] = "idle" <=> op[c] = "none"
       /\ pc[c] \in InStart \cup {"install", "level"} => op[c] = "start"
       /\ pc[c] \in {"drop", "build", "spawn"} => probe[c] \in Ports
  /\ \A e \in Engines : leaked[e] => ENGINE # e /\ phase[e] \in Live
  /\ ENGINE # NoEngine => portOf[ENGINE] \in Ports

(* ... and it stays so.                                                    *)
LEMMA CallsKept == Spec => []CallInv
<1> USE EngineAssumption DEF EngineAssumption
<1> USE DEF InStart, InStop, Live, callVars, localVars, lockVars, serveVars, restVars
<1>1. Init => CallInv
  BY DEF Init, CallInv
<1>2. TypeOK /\ LockInv /\ CallInv /\ [Next]_vars => CallInv'
  <2> SUFFICES ASSUME TypeOK, LockInv, CallInv, [Next]_vars PROVE CallInv'
    OBVIOUS
  <2>0. /\ pc \in [Callers -> PCs] /\ op \in [Callers -> Ops]
        /\ probe \in [Callers -> Ports \cup {NoPort}]
        /\ target \in [Callers -> Engines \cup {NoEngine}]
        /\ phase \in [Engines -> Phases] /\ leaked \in [Engines -> BOOLEAN]
        /\ portOf \in [Engines -> Ports \cup {NoPort}]
        /\ ENGINE \in Engines \cup {NoEngine} /\ lock \in Callers \cup {NoCaller}
    BY DEF TypeOK
  <2> USE <2>0 DEF CallInv, LockInv, CanLock
  <2>1. ASSUME NEW c \in Callers, NEW o \in Ops \ {"none"}, Call(c, o)
        PROVE  CallInv'
    BY <2>1 DEF Call, Goto
  <2>2. ASSUME NEW c \in Callers, StartInstall(c)
        PROVE  CallInv'
    BY <2>2 DEF StartInstall, ClaimLogger, LoggerClaimed, Goto
  <2>3. ASSUME NEW c \in Callers, StartLevel(c)
        PROVE  CallInv'
    BY <2>3 DEF StartLevel, FinishLogger, Goto
  <2>4. ASSUME NEW c \in Callers, StartReuse(c)
        PROVE  CallInv'
    BY <2>4 DEF StartReuse, Answer, Goto
  <2>5. ASSUME NEW c \in Callers, StartEnter(c)
        PROVE  CallInv'
    BY <2>5 DEF StartEnter, ProceedToBind, Goto
  <2>6. ASSUME NEW c \in Callers, StartBind(c)
        PROVE  CallInv'
    BY <2>6 DEF StartBind, Goto
  <2>7. ASSUME NEW c \in Callers, StartBindFails(c)
        PROVE  CallInv'
    BY <2>7 DEF StartBindFails, Answer, Goto, Unlock
  <2>8. ASSUME NEW c \in Callers, StartDrop(c)
        PROVE  CallInv'
    BY <2>8 DEF StartDrop, Goto
  <2>9. ASSUME NEW c \in Callers, StartBuild(c)
        PROVE  CallInv'
    BY <2>9 DEF StartBuild, Goto
  <2>10. ASSUME NEW c \in Callers, StartBuildFails(c)
        PROVE  CallInv'
    BY <2>10 DEF StartBuildFails, Answer, Goto, Unlock
  <2>11. ASSUME NEW c \in Callers, StartBuildPanics(c)
        PROVE  CallInv'
    BY <2>11 DEF StartBuildPanics, Answer, Goto
  <2>12. ASSUME NEW c \in Callers, StartSpawn(c)
        PROVE  CallInv'
    BY <2>12 DEF StartSpawn, Answer, Goto, Unlock
  <2>13. ASSUME NEW c \in Callers, StopIdle(c)
        PROVE  CallInv'
    BY <2>13 DEF StopIdle, Answer, Goto
  <2>14. ASSUME NEW c \in Callers, StopTake(c)
        PROVE  CallInv'
    BY <2>14 DEF StopTake, TakeEngine, Goto
  <2>15. ASSUME NEW c \in Callers, StopClose(c)
        PROVE  CallInv'
    BY <2>15 DEF StopClose, Goto
  <2>16. ASSUME NEW c \in Callers, StopDone(c)
        PROVE  CallInv'
    BY <2>16 DEF StopDone, Answer, Goto, Unlock, Forget
  <2>17. ASSUME NEW c \in Callers, StopTimesOut(c)
        PROVE  CallInv'
    BY <2>17 DEF StopTimesOut, Answer, Goto, Unlock
  <2>18. ASSUME NEW c \in Callers, PortRead(c)
        PROVE  CallInv'
    BY <2>18 DEF PortRead, Answer, Goto
  <2>19. ASSUME NEW c \in Callers, Return(c)
        PROVE  CallInv'
    BY <2>19 DEF Return, Goto
  <2>20. ASSUME NEW e \in Engines, ServeBind(e)
        PROVE  CallInv'
    BY <2>20 DEF ServeBind, serveUnchanged
  <2>21. ASSUME NEW e \in Engines, ServeFails(e)
        PROVE  CallInv'
    BY <2>21 DEF ServeFails, serveUnchanged, TaskEnds, Forget, PortFreed
  <2>22. ASSUME NEW e \in Engines, Scan(e)
        PROVE  CallInv'
    BY <2>22 DEF Scan, serveUnchanged
  <2>23. ASSUME NEW e \in Engines, ServeDrain(e)
        PROVE  CallInv'
    BY <2>23 DEF ServeDrain, serveUnchanged
  <2>24. ASSUME NEW e \in Engines, ServeDrained(e)
        PROVE  CallInv'
    BY <2>24 DEF ServeDrained, serveUnchanged, PortFreed
  <2>25. ASSUME NEW e \in Engines, ServeFlush(e)
        PROVE  CallInv'
    BY <2>25 DEF ServeFlush, serveUnchanged, TaskEnds, Forget
  <2>26. ASSUME NEW e \in Engines, TaskDropped(e)
        PROVE  CallInv'
    BY <2>26 DEF TaskDropped, serveUnchanged, TaskEnds, Forget, PortFreed
  <2>27. ASSUME NEW p \in Ports, OtherBinds(p)
        PROVE  CallInv'
    BY <2>27 DEF OtherBinds, envUnchanged
  <2>28. ASSUME NEW p \in Ports, OtherLeaves(p)
        PROVE  CallInv'
    BY <2>28 DEF OtherLeaves, envUnchanged
  <2>29. ASSUME NEW mb \in Budgets, SetMemoryBudget(mb)
        PROVE  CallInv'
    BY <2>29 DEF SetMemoryBudget
  <2>30. ASSUME NEW on \in BOOLEAN, SetDebugLogs(on)
        PROVE  CallInv'
    BY <2>30 DEF SetDebugLogs, set_debug_logs
  <2>31. ASSUME ReleaseMemory
        PROVE  CallInv'
    BY <2>31 DEF ReleaseMemory
  <2>32. ASSUME Kill
        PROVE  CallInv'
    BY <2>32 DEF Kill, LogReset
  <2>33. CASE UNCHANGED vars
    BY <2>33 DEF vars
  <2>34. QED
    BY <2>1, <2>2, <2>3, <2>4, <2>5, <2>6, <2>7, <2>8, <2>9, <2>10, <2>11, <2>12, <2>13, <2>14, <2>15, <2>16, <2>17, <2>18, <2>19, <2>20, <2>21, <2>22, <2>23, <2>24, <2>25, <2>26, <2>27, <2>28, <2>29, <2>30, <2>31, <2>32, <2>33
    DEF Next, start, stop, serve
<1>3. QED
  BY <1>1, <1>2, Typing, LockCorrect, PTL DEF Spec

(* The state of EngineApi as Engine has it.                                *)
Running == IF ENGINE = NoEngine THEN NoPort ELSE portOf[ENGINE]
Done == [c \in Callers |-> pc[c] = "return"]

(* The thread whose stop() is under way holds the mutex: there is one.     *)
LEMMA StopperIs ==
  ASSUME TypeOK, LockInv
  PROVE  /\ \A c \in Callers : pc[c] \in InStop => Stopper = c
         /\ (\A c \in Callers : pc[c] \notin InStop) => Stopper = NoCaller
<1>1. ASSUME NEW c \in Callers, pc[c] \in InStop PROVE Stopper = c
  <2>1. \A d \in Callers : pc[d] \in InStop => d = c
    BY <1>1 DEF LockInv
  <2> QED
    BY <1>1, <2>1 DEF Stopper
<1>2. ASSUME \A c \in Callers : pc[c] \notin InStop PROVE Stopper = NoCaller
  BY <1>2 DEF Stopper
<1> QED
  BY <1>1, <1>2

(* Only the take of a stop() and its return change who it is.              *)
LEMMA StopperNext ==
  ASSUME TypeOK, LockInv
  PROVE  /\ (\A c \in Callers : pc'[c] \in InStop <=> pc[c] \in InStop) => Stopper' = Stopper
         /\ \A c \in Callers :
              /\ pc' = [pc EXCEPT ![c] = "close"] /\ CanLock => Stopper' = c
              /\ pc' = [pc EXCEPT ![c] = "return"] =>
                   Stopper' = IF pc[c] \in InStop THEN NoCaller ELSE Stopper
<1>0. pc \in [Callers -> PCs] /\ \A c, d \in Callers : pc[c] \in InStop /\ pc[d] \in InStop => c = d
  BY DEF TypeOK, LockInv
<1>1. ASSUME NEW c \in Callers, pc'[c] \in InStop,
             \A d \in Callers : pc'[d] \in InStop => d = c
      PROVE  Stopper' = c
  BY <1>1 DEF Stopper
<1>2. ASSUME \A c \in Callers : pc'[c] \notin InStop PROVE Stopper' = NoCaller
  BY <1>2 DEF Stopper
<1>3. ASSUME \A c \in Callers : pc'[c] \in InStop <=> pc[c] \in InStop
      PROVE  Stopper' = Stopper
  BY <1>0, <1>1, <1>2, <1>3, StopperIs
<1>4. ASSUME NEW c \in Callers, pc' = [pc EXCEPT ![c] = "close"], CanLock
      PROVE  Stopper' = c
  <2>1. \A d \in Callers : pc[d] \notin InStop
    BY <1>4, EngineAssumption DEF LockInv, CanLock, EngineAssumption
  <2> QED
    BY <1>0, <1>1, <1>4, <2>1 DEF InStop
<1>5. ASSUME NEW c \in Callers, pc' = [pc EXCEPT ![c] = "return"], pc[c] \in InStop
      PROVE  Stopper' = NoCaller
  BY <1>0, <1>2, <1>5 DEF InStop
<1>6. ASSUME NEW c \in Callers, pc' = [pc EXCEPT ![c] = "return"], pc[c] \notin InStop
      PROVE  Stopper' = Stopper
  BY <1>0, <1>3, <1>6 DEF InStop
<1> QED
  BY <1>3, <1>4, <1>5, <1>6

(* Whoever finds the mutex free finds no stop() under way.                 *)
LEMMA FreeLock ==
  ASSUME TypeOK, LockInv, CanLock
  PROVE  Stopper = NoCaller
BY StopperIs, EngineAssumption DEF LockInv, CanLock, EngineAssumption

(* A call that has its answer.                                             *)
LEMMA Answered ==
  ASSUME TypeOK, NEW c \in Callers, NEW a, Answer(c, a)
  PROVE  /\ Done' = [Done EXCEPT ![c] = TRUE]
         /\ answer' = [answer EXCEPT ![c] = a]
         /\ op' = op
BY DEF TypeOK, Answer, Goto, Done

(* A call that goes on without an answer.                                  *)
LEMMA Unanswered ==
  ASSUME TypeOK, NEW c \in Callers, NEW l, Goto(c, l), pc[c] # "return", l # "return"
  PROVE  Done' = Done
BY DEF TypeOK, Goto, Done


(* A step that changes none of it is a stutter.                            *)
LEMMA ApiStutters ==
  UNCHANGED <<Running, op, Done, answer, Stopper>> => UNCHANGED Api!vars
BY DEF Api!vars, Running, Done

(* start() finds an engine, stop() finds none, port() looks.               *)
LEMMA ApiLook ==
  ASSUME TypeOK, LockInv, CallInv, NEW c \in Callers,
         \/ StartReuse(c) \/ StopIdle(c) \/ PortRead(c)
  PROVE  Api!Next
<1>1. Stopper = NoCaller /\ Stopper' = Stopper
  <2>1. CanLock /\ pc[c] = "lock" /\ pc' = [pc EXCEPT ![c] = "return"]
    BY DEF StartReuse, StopIdle, PortRead, Answer, Goto
  <2> QED
    BY <2>1, FreeLock, StopperNext DEF InStop
<1>2. Running' = Running
  BY DEF StartReuse, StopIdle, PortRead, serveVars, Running
<1>3. op[c] \in {"start", "stop", "port"} /\ ~Done[c]
  BY DEF StartReuse, StopIdle, PortRead, Done, TypeOK
<1>4. CASE StartReuse(c)
  <2>1. Answer(c, Running) /\ op[c] = "start" /\ Running # NoPort
    BY <1>4, EngineAssumption DEF StartReuse, Running, CallInv, EngineAssumption
  <2>2. Api!StartLive(c)
    BY <1>1, <1>2, <1>3, <2>1, Answered
    DEF Api!StartLive, Api!Pending, Api!Answer, Running, Done
  <2> QED
    BY <2>2 DEF Api!Next
<1>5. CASE StopIdle(c)
  <2>1. Answer(c, NoPort) /\ op[c] = "stop" /\ Running = NoPort
    BY <1>5 DEF StopIdle, Running
  <2>2. Api!StopNothing(c)
    BY <1>1, <1>2, <1>3, <2>1, Answered
    DEF Api!StopNothing, Api!Pending, Api!Answer, Running, Done
  <2> QED
    BY <2>2 DEF Api!Next
<1>6. CASE PortRead(c)
  <2>1. Answer(c, Running) /\ op[c] = "port"
    BY <1>6 DEF PortRead, Running
  <2>2. Api!PortIs(c)
    BY <1>1, <1>2, <1>3, <2>1, Answered
    DEF Api!PortIs, Api!Pending, Api!Answer, Running, Done
  <2> QED
    BY <2>2 DEF Api!Next
<1> QED
  BY <1>4, <1>5, <1>6

(* start() has failed, or fills the slot: it holds the mutex meanwhile.    *)
LEMMA ApiStart ==
  ASSUME TypeOK, LockInv, CallInv, NEW c \in Callers,
         \/ StartBindFails(c) \/ StartBuildFails(c) \/ StartBuildPanics(c) \/ StartSpawn(c)
  PROVE  Api!Next
<1> USE DEF InStart, InStop
<1>1. pc[c] \in InStart /\ pc' = [pc EXCEPT ![c] = "return"]
  BY DEF StartBindFails, StartBuildFails, StartBuildPanics, StartSpawn, Answer, Goto
<1>2. lock = c /\ ENGINE = NoEngine /\ op[c] = "start" /\ ~Done[c]
  BY <1>1 DEF LockInv, CallInv, Done
<1>3. Stopper = NoCaller /\ Stopper' = Stopper
  <2>1. \A d \in Callers : pc[d] \notin InStop
    BY <1>1, <1>2 DEF LockInv
  <2> QED
    BY <1>1, <2>1, StopperIs, StopperNext
<1>4. Running = NoPort
  BY <1>2 DEF Running
<1>5. CASE StartBindFails(c) \/ StartBuildFails(c) \/ StartBuildPanics(c)
  <2>1. Answer(c, NoPort) \/ Answer(c, Panic)
    BY <1>5 DEF StartBindFails, StartBuildFails, StartBuildPanics
  <2>2. Running' = Running
    BY <1>5 DEF StartBindFails, StartBuildFails, StartBuildPanics, serveVars, Running
  <2>3. Api!StartFails(c)
    BY <1>2, <1>3, <1>4, <2>1, <2>2, Answered
    DEF Api!StartFails, Api!Pending, Api!Answer, Running, Done
  <2> QED
    BY <2>3 DEF Api!Next
<1>6. CASE StartSpawn(c)
  <2>1. Answer(c, probe[c]) /\ probe[c] \in Ports
    BY <1>6 DEF StartSpawn, CallInv
  <2>2. Running' = probe[c]
    BY <1>6, EngineAssumption DEF StartSpawn, Running, TypeOK, EngineAssumption
  <2>3. Api!StartFresh(c)
    BY <1>2, <1>3, <1>4, <2>1, <2>2, Answered
    DEF Api!StartFresh, Api!Pending, Api!Answer, Running, Done
  <2> QED
    BY <2>3 DEF Api!Next
<1> QED
  BY <1>5, <1>6

(* stop() takes the engine away, and ends.                                 *)
LEMMA ApiStop ==
  ASSUME TypeOK, LockInv, CallInv, NEW c \in Callers,
         StopTake(c) \/ StopDone(c) \/ StopTimesOut(c)
  PROVE  Api!Next
<1> USE DEF InStart, InStop
<1>1. CASE StopTake(c)
  <2>1. /\ CanLock /\ ENGINE # NoEngine /\ ENGINE' = NoEngine
        /\ pc[c] = "lock" /\ op[c] = "stop" /\ Goto(c, "close")
        /\ UNCHANGED <<op, answer>>
    BY <1>1 DEF StopTake, TakeEngine
  <2>2. Stopper = NoCaller /\ Stopper' = c
    BY <2>1, FreeLock, StopperNext DEF Goto
  <2>3. Running # NoPort /\ Running' = NoPort
    BY <2>1, EngineAssumption DEF Running, CallInv, EngineAssumption
  <2>4. ~Done[c] /\ Done' = Done
    BY <2>1, Unanswered DEF Done
  <2>5. Api!StopBegins(c)
    BY <2>1, <2>2, <2>3, <2>4 DEF Api!StopBegins, Api!Pending, Running, Done
  <2> QED
    BY <2>5 DEF Api!Next
<1>2. CASE StopDone(c) \/ StopTimesOut(c)
  <2>1. /\ pc[c] = "wait" /\ Answer(c, NoPort) /\ ENGINE' = ENGINE
        /\ pc' = [pc EXCEPT ![c] = "return"]
    BY <1>2 DEF StopDone, StopTimesOut, Answer, Goto
  <2>2. Stopper = c /\ Stopper' = NoCaller
    BY <2>1, StopperIs, StopperNext
  <2>3. ENGINE = NoEngine
    BY <2>1 DEF LockInv
  <2>4. Running' = Running
    BY <2>1, <2>3 DEF Running
  <2>5. Api!StopEnds(c)
    BY <2>1, <2>2, <2>4, Answered DEF Api!StopEnds, Api!Answer, Running, Done
  <2> QED
    BY <2>5 DEF Api!Next
<1> QED
  BY <1>1, <1>2

(* A call is made, and comes back.                                         *)
LEMMA ApiCall ==
  ASSUME TypeOK, LockInv, CallInv, NEW c \in Callers,
         Return(c) \/ \E o \in Ops \ {"none"} : Call(c, o)
  PROVE  Api!Next
<1> USE DEF InStart, InStop, Ops
<1>1. Running' = Running
  BY DEF Return, Call, serveVars, Running
<1>2. Stopper' = Stopper
  <2>1. PICK l \in {"idle", "install", "lock"} : pc' = [pc EXCEPT ![c] = l]
    BY DEF Return, Call, Goto
  <2>2. pc[c] \in {"idle", "return"}
    BY DEF Return, Call
  <2>3. \A d \in Callers : pc'[d] \in InStop <=> pc[d] \in InStop
    BY <2>1, <2>2 DEF TypeOK
  <2> QED
    BY <2>3, StopperNext
<1>3. CASE Return(c)
  <2>1. Done[c] /\ Done' = [Done EXCEPT ![c] = FALSE]
    BY <1>3 DEF Return, Goto, Done, TypeOK
  <2>2. Api!Return(c)
    BY <1>1, <1>2, <1>3, <2>1 DEF Return, Api!Return, Running, Done
  <2> QED
    BY <2>2 DEF Api!Next
<1>4. ASSUME NEW o \in Ops \ {"none"}, Call(c, o) PROVE Api!Next
  <2>1. op[c] = "none"
    BY <1>4 DEF Call, CallInv
  <2>2. Done' = Done
    <3>1. PICK l \in {"install", "lock"} : Goto(c, l)
      BY <1>4 DEF Call
    <3> QED
      BY <1>4, <3>1, Unanswered DEF Call
  <2>3. Api!Call(c, o)
    BY <1>1, <1>2, <1>4, <2>1, <2>2 DEF Call, Api!Call, Running, Done
  <2> QED
    BY <2>3 DEF Api!Next, Api!Calls
<1> QED
  BY <1>3, <1>4

(* What no app can see: a call on its way, and the engine at work.         *)
LEMMA ApiHidden ==
  ASSUME TypeOK, LockInv, CallInv, NEW c \in Callers,
         \/ StartInstall(c) \/ StartLevel(c) \/ StartEnter(c) \/ StartBind(c)
         \/ StartDrop(c) \/ StartBuild(c) \/ StopClose(c)
  PROVE  UNCHANGED Api!vars
<1> USE DEF InStart, InStop
<1>1. PICK l \in PCs \ {"return"} : Goto(c, l) /\ (l \in InStop <=> pc[c] \in InStop)
  BY DEF StartInstall, StartLevel, StartEnter, ProceedToBind, StartBind, StartDrop,
         StartBuild, StopClose, PCs
<1>2. /\ UNCHANGED <<op, answer, ENGINE, portOf>> /\ pc[c] # "return"
  BY DEF StartInstall, StartLevel, StartEnter, ProceedToBind, StartBind, StartDrop,
         StartBuild, StopClose, localVars, serveVars
<1>3. Done' = Done
  BY <1>1, <1>2, Unanswered
<1>4. Stopper' = Stopper
  <2>1. \A d \in Callers : pc'[d] \in InStop <=> pc[d] \in InStop
    BY <1>1 DEF Goto, TypeOK
  <2> QED
    BY <2>1, StopperNext
<1>5. Running' = Running
  BY <1>2 DEF Running
<1> QED
  BY <1>2, <1>3, <1>4, <1>5, ApiStutters

LEMMA ApiServe ==
  ASSUME TypeOK, LockInv, CallInv, NEW e \in Engines, serve(e)
  PROVE  UNCHANGED Api!vars
<1>1. UNCHANGED <<op, answer, ENGINE, pc>>
  BY DEF serve, ServeBind, ServeFails, Scan, ServeDrain, ServeDrained, ServeFlush,
         TaskDropped, serveUnchanged, callVars, localVars
<1>2. ENGINE # NoEngine => portOf'[ENGINE] = portOf[ENGINE]
  <2>1. portOf' = portOf \/ \E end \in Ended : TaskEnds(e, end)
    BY DEF serve, ServeBind, ServeFails, Scan, ServeDrain, ServeDrained, ServeFlush,
           TaskDropped, Ended
  <2> QED
    BY <2>1 DEF TaskEnds, Forget, CallInv, TypeOK
<1>3. Running' = Running
  BY <1>1, <1>2 DEF Running
<1>4. Stopper' = Stopper
  BY <1>1, StopperNext
<1> QED
  BY <1>1, <1>3, <1>4, ApiStutters DEF Done

(* A kill is a restart of the library.                                     *)
LEMMA ApiKill ==
  ASSUME Kill
  PROVE  Api!Next
<1>1. Running' = NoPort /\ Done' = [c \in Callers |-> FALSE] /\ Stopper' = NoCaller
  BY DEF Kill, Running, Done, Stopper, InStop
<1>2. Api!Restart
  BY <1>1 DEF Kill, Api!Restart, Running, Done
<1> QED
  BY <1>2 DEF Api!Next

(* The budget, the log level, the cache and other processes.               *)
LEMMA ApiUnseen ==
  ASSUME TypeOK, LockInv,
         UNCHANGED <<pc, op, answer, ENGINE, portOf>>
  PROVE  UNCHANGED Api!vars
<1>1. Running' = Running /\ Done' = Done
  BY DEF Running, Done
<1>2. Stopper' = Stopper
  BY StopperNext
<1> QED
  BY <1>1, <1>2, ApiStutters

(* Engine implements EngineApi: whatever the threads, the engine and the   *)
(* system do, an app sees calls that each take effect at one moment.       *)
THEOREM ApiImplemented == Spec => ApiRefined
<1>1. Init => Api!Init
  BY DEF Init, Api!Init, Stopper, InStop
<1>2. TypeOK /\ LockInv /\ CallInv /\ [Next]_vars => [Api!Next]_Api!vars
  <2> SUFFICES ASSUME TypeOK, LockInv, CallInv, [Next]_vars
               PROVE  Api!Next \/ UNCHANGED Api!vars
    OBVIOUS
  <2>1. ASSUME NEW c \in Callers,
               (\E o \in Ops \ {"none"} : Call(c, o)) \/ start(c) \/ stop(c) \/ PortRead(c) \/ Return(c)
        PROVE  Api!Next \/ UNCHANGED Api!vars
    BY <2>1, ApiLook, ApiStart, ApiStop, ApiCall, ApiHidden DEF start, stop
  <2>2. ASSUME NEW e \in Engines, serve(e)
        PROVE  UNCHANGED Api!vars
    BY <2>2, ApiServe
  <2>3. ASSUME \/ \E p \in Ports : OtherBinds(p) \/ OtherLeaves(p)
               \/ \E mb \in Budgets : SetMemoryBudget(mb)
               \/ \E on \in BOOLEAN : SetDebugLogs(on)
               \/ ReleaseMemory \/ UNCHANGED vars
        PROVE  UNCHANGED Api!vars
    <3>1. UNCHANGED <<pc, op, answer, ENGINE, portOf>>
      BY <2>3 DEF OtherBinds, OtherLeaves, envUnchanged, SetMemoryBudget, SetDebugLogs,
                  ReleaseMemory, vars, callVars, localVars, serveVars
    <3> QED
      BY <3>1, ApiUnseen
  <2>4. CASE Kill
    BY <2>4, ApiKill
  <2> QED
    BY <2>1, <2>2, <2>3, <2>4 DEF Next
<1> QED
  BY <1>1, <1>2, Typing, LockCorrect, CallsKept, PTL DEF Spec, ApiRefined, Api!Spec
=============================================================================
