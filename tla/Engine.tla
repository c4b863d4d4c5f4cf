------------------------------- MODULE Engine -------------------------------
(***************************************************************************)
(* The embedded wallet engine of walletd-mobile: the process-wide slot     *)
(* ENGINE, the mutex around it, and the exported calls start, stop, port,  *)
(* set_memory_budget_mb, set_debug_logs and release_memory, made by any    *)
(* number of app threads at once.                                          *)
(*                                                                         *)
(* Outside this crate, and modelled from how it uses them: the serve task  *)
(* of zkas_walletd (binds the port, scans blocks, drains and flushes when  *)
(* it is told to shut down), the tokio runtime that runs it, the other     *)
(* processes of the device that bind loopback ports, and the system that   *)
(* may kill the app at any moment.                                         *)
(*                                                                         *)
(* Every call uses the same wallet_dir, the case in which two engines at   *)
(* once would write the same checkpoint.                                   *)
(***************************************************************************)
EXTENDS Logging, FiniteSets

CONSTANTS
  Callers,          \* the app threads that call into the library
  Ports,            \* the loopback ports the system can hand out
  Engines,          \* identities for the engine instances
  Budgets,          \* the values the app reports for its memory ceiling, in MB
  Tip,              \* blocks there are to scan (bound of the model)
  CHECKPOINT_EVERY, \* blocks between two periodic checkpoints of walletd
  NoCaller, NoPort, NoEngine,   \* the lock is free, port 0, ENGINE is None
  Panic,                        \* a call that ended in a panic, not an answer
  Free, Probe, Other            \* who holds a port when no engine does

ASSUME EngineAssumption ==
  /\ Tip \in Nat
  /\ CHECKPOINT_EVERY \in Nat \ {0}
  /\ Budgets \subseteq Nat
  /\ NoCaller \notin Callers
  /\ NoPort \notin Ports /\ Panic \notin Ports /\ Panic # NoPort
  /\ NoEngine \notin Engines
  /\ {Free, Probe, Other} \cap Engines = {}
  /\ Free # Probe /\ Free # Other /\ Probe # Other

VARIABLES
  pc, op, answer,    \* per thread: where it is, in which call, what it returns
  probe, target,     \* per thread: the port start found, the engine stop took
  lock, poisoned,    \* the mutex: its holder, and its poison flag
  ENGINE,            \* the guarded Option<Running>
  portOf, capOf,     \* per engine: its port, its max_resident_wallets
  phase, scanned,    \* per engine: the serve task and its in-memory progress
  leaked,            \* per engine: its threads outlived shutdown_timeout
  timedOut,          \* some stop() of this process gave up after its 15 s
  owner,             \* per port: who holds it
  MEM_BUDGET_MB, announced, \* the budget, and every budget set so far
  leafCache,         \* decoded leaves are resident
  checkpoint         \* blocks covered by the checkpoint on disk

localVars  == <<op, answer, probe, target>>
callVars   == <<pc, localVars>>
lockVars   == <<lock, poisoned>>
serveVars  == <<phase, scanned, leaked, timedOut, portOf, capOf>>
budgetVars == <<MEM_BUDGET_MB, announced>>
restVars   == <<budgetVars, leafCache, checkpoint, logVars>>
vars == <<callVars, lockVars, ENGINE, serveVars, owner, restVars>>

Ops == {"none", "start", "stop", "port"}

(* Program points.  A thread is inside the critical section at InStart and *)
(* InStop: start() holds the guard while it binds, builds and spawns; the  *)
(* guard of stop() is a temporary of `if let`, alive to the end of its body.*)
InStart == {"bind", "drop", "build", "spawn"}
InStop  == {"close", "wait"}
PCs == {"idle", "install", "level", "lock", "return"} \cup InStart \cup InStop

(* Phases of an instance.  Live ones have a serve task; Working ones have  *)
(* loaded a wallet.                                                        *)
Live  == {"spawned", "serving", "draining", "flushing"}
Working == {"serving", "draining", "flushing"}
Ended == {"failed", "done", "cut"}
Phases == {"unused"} \cup Live \cup Ended

TypeOK ==
  /\ LogTypeOK
  /\ pc \in [Callers -> PCs]
  /\ op \in [Callers -> Ops]
  /\ answer \in [Callers -> Ports \cup {NoPort, Panic}]
  /\ probe \in [Callers -> Ports \cup {NoPort}]
  /\ target \in [Callers -> Engines \cup {NoEngine}]
  /\ lock \in Callers \cup {NoCaller}
  /\ poisoned \in BOOLEAN
  /\ ENGINE \in Engines \cup {NoEngine}
  /\ portOf \in [Engines -> Ports \cup {NoPort}]
  /\ capOf \in [Engines -> Nat]
  /\ phase \in [Engines -> Phases]
  /\ scanned \in [Engines -> 0..Tip]
  /\ leaked \in [Engines -> BOOLEAN]
  /\ timedOut \in BOOLEAN
  /\ owner \in [Ports -> Engines \cup {Free, Probe, Other}]
  /\ MEM_BUDGET_MB \in Budgets \cup {0}
  /\ announced \subseteq Budgets \cup {0}
  /\ leafCache \in BOOLEAN
  /\ checkpoint \in 0..Tip

Init ==
  /\ LogInit
  /\ pc = [c \in Callers |-> "idle"]
  /\ op = [c \in Callers |-> "none"]
  /\ answer = [c \in Callers |-> NoPort]
  /\ probe = [c \in Callers |-> NoPort]
  /\ target = [c \in Callers |-> NoEngine]
  /\ lock = NoCaller
  /\ poisoned = FALSE
  /\ ENGINE = NoEngine
  /\ portOf = [e \in Engines |-> NoPort]
  /\ capOf = [e \in Engines |-> 0]
  /\ phase = [e \in Engines |-> "unused"]
  /\ scanned = [e \in Engines |-> 0]
  /\ leaked = [e \in Engines |-> FALSE]
  /\ timedOut = FALSE
  /\ owner = [p \in Ports |-> Free]
  /\ MEM_BUDGET_MB = 0
  /\ announced = {0}
  /\ leafCache = FALSE
  /\ checkpoint = 0

-----------------------------------------------------------------------------
(* Helpers *)

ResidentCapNoFloor(budget) == \* mutant: without .max(1)
  IF budget = 0 THEN 2 ELSE (budget \div 2) \div 192

(* max_resident_wallets from the budget: half the ceiling at ~192 MB per   *)
(* wallet, at least one; 2 when the app reported nothing.                  *)
ResidentCap(budget) ==
  IF budget = 0 THEN 2
  ELSE IF (budget \div 2) \div 192 = 0 THEN 1 ELSE (budget \div 2) \div 192

Goto(c, l) == pc' = [pc EXCEPT ![c] = l]

(* The call of c ends with this answer; its locals go with its frame. *)
Answer(c, a) ==
  /\ Goto(c, "return")
  /\ answer' = [answer EXCEPT ![c] = a]
  /\ probe' = [probe EXCEPT ![c] = NoPort]
  /\ target' = [target EXCEPT ![c] = NoEngine]
  /\ UNCHANGED op

(* engine_lock(): wait for the mutex, and take it whether it is poisoned   *)
(* or not.                                                                 *)
CanLock == lock = NoCaller

Unlock == lock' = NoCaller /\ UNCHANGED poisoned

(* The port of e is given back, if e holds it. *)
PortFreed(e) == [p \in Ports |-> IF owner[p] = e THEN Free ELSE owner[p]]

(* The shutdown signal of e was sent: stop() sends it as it empties ENGINE. *)
Signalled(e) == phase[e] # "unused" /\ ENGINE # e

(* The runtime of e has begun to shut down and drops tasks as they yield.  *)
Closed(e) == Signalled(e) /\ \A c \in Callers : ~(pc[c] = "close" /\ target[c] = e)

(* The instance is gone with its runtime; its identity may be used again. *)
Forget(e) ==
  /\ phase' = [phase EXCEPT ![e] = "unused"]
  /\ scanned' = [scanned EXCEPT ![e] = 0]
  /\ leaked' = [leaked EXCEPT ![e] = FALSE]
  /\ portOf' = [portOf EXCEPT ![e] = NoPort]
  /\ capOf' = [capOf EXCEPT ![e] = 0]

(* The task of e ends.  The runtime stays, for stop() to take down, unless *)
(* a stop() has already given up on it.                                    *)
TaskEnds(e, end) ==
  IF leaked[e] THEN Forget(e)
  ELSE /\ phase' = [phase EXCEPT ![e] = end]
       /\ UNCHANGED <<scanned, leaked, portOf, capOf>>

-----------------------------------------------------------------------------
(* Calls and returns.  A start may only be called while an instance is left *)
(* for every start under way: |Engines| bounds the instances alive at once, *)
(* not how many are ever started.                                          *)
InstanceToSpare ==
  Cardinality({c \in Callers : op[c] = "start" /\ pc[c] # "return"})
    < Cardinality({e \in Engines : phase[e] = "unused"})

Call(c, o) ==
  /\ pc[c] = "idle"
  /\ o = "start" => InstanceToSpare
  /\ Goto(c, IF o = "start" THEN "install" ELSE "lock")
  /\ op' = [op EXCEPT ![c] = o]
  /\ UNCHANGED <<answer, probe, target, lockVars, ENGINE, serveVars, owner,
                 restVars>>

Return(c) ==
  /\ pc[c] = "return"
  /\ Goto(c, "idle")
  /\ op' = [op EXCEPT ![c] = "none"]
  /\ answer' = [answer EXCEPT ![c] = NoPort]
  /\ UNCHANGED <<probe, target, lockVars, ENGINE, serveVars, owner, restVars>>

-----------------------------------------------------------------------------
(* start(): install_logger and install_panic_hook, outside the lock. *)

StartInstall(c) ==
  /\ pc[c] = "install"
  /\ \/ ClaimLogger   /\ Goto(c, "level")
     \/ LoggerClaimed /\ Goto(c, "lock")
  /\ UNCHANGED <<localVars, lockVars, ENGINE, serveVars, owner, budgetVars,
                 leafCache, checkpoint>>

StartLevel(c) ==
  /\ pc[c] = "level"
  /\ FinishLogger
  /\ Goto(c, "lock")
  /\ UNCHANGED <<localVars, lockVars, ENGINE, serveVars, owner, budgetVars,
                 leafCache, checkpoint>>

(* start(): under the lock.  An engine in the slot ends the call early with *)
(* its port ...                                                            *)
StartReuse(c) ==
  /\ pc[c] = "lock" /\ op[c] = "start"
  /\ CanLock
  /\ ENGINE # NoEngine
  /\ Answer(c, portOf[ENGINE])
  /\ UNCHANGED <<lockVars, ENGINE, serveVars, owner, restVars>>

(* ... and otherwise the guard is kept to the end of the call. *)
ProceedToBind(c) ==
  /\ pc[c] = "lock" /\ op[c] = "start"
  /\ CanLock
  /\ Goto(c, "bind")
  /\ UNCHANGED <<localVars, poisoned, ENGINE, serveVars, owner, restVars>>

StartEnterUnlocked(c) == ProceedToBind(c) /\ ENGINE = NoEngine /\ lock' = lock \* mutant
StartEnterAlways(c) == ProceedToBind(c) /\ lock' = c \* mutant
StartEnter(c) == ProceedToBind(c) /\ ENGINE = NoEngine /\ lock' = c

(* Bind 127.0.0.1:0 to learn a free port. *)
StartBind(c) ==
  /\ pc[c] = "bind"
  /\ \E p \in Ports :
       /\ owner[p] = Free
       /\ owner' = [owner EXCEPT ![p] = Probe]
       /\ probe' = [probe EXCEPT ![c] = p]
  /\ Goto(c, "drop")
  /\ UNCHANGED <<op, answer, target, lockVars, ENGINE, serveVars, restVars>>

(* bind or local_addr failed: return 0. *)
StartBindFails(c) ==
  /\ pc[c] = "bind"
  /\ Answer(c, NoPort)
  /\ Unlock
  /\ UNCHANGED <<ENGINE, serveVars, owner, restVars>>

StartDropForgotten(c) == \* mutant: the probe's listener stays open
  /\ pc[c] = "drop"
  /\ Goto(c, "build")
  /\ UNCHANGED <<localVars, lockVars, ENGINE, serveVars, owner, restVars>>

(* drop(listener): from here to ServeBind nobody holds the port. *)
StartDrop(c) ==
  /\ pc[c] = "drop"
  /\ owner' = [owner EXCEPT ![probe[c]] = Free]
  /\ Goto(c, "build")
  /\ UNCHANGED <<localVars, lockVars, ENGINE, serveVars, restVars>>

StartBuild(c) ==
  /\ pc[c] = "build"
  /\ Goto(c, "spawn")
  /\ UNCHANGED <<localVars, lockVars, ENGINE, serveVars, owner, restVars>>

(* The runtime could not be built: return 0. *)
StartBuildFails(c) ==
  /\ pc[c] = "build"
  /\ Answer(c, NoPort)
  /\ Unlock
  /\ UNCHANGED <<ENGINE, serveVars, owner, restVars>>

(* The builder panics when the system refuses it a worker thread: the call *)
(* unwinds, and dropping its guard poisons the mutex.                      *)
StartBuildPanics(c) ==
  /\ pc[c] = "build"
  /\ Answer(c, Panic)
  /\ lock' = NoCaller
  /\ poisoned' = TRUE
  /\ UNCHANGED <<ENGINE, serveVars, owner, restVars>>

(* Read the budget into the Config, spawn serve() and fill the slot.  The  *)
(* answer is the probed port: what serve() makes of it is not awaited.     *)
StartSpawn(c) ==
  /\ pc[c] = "spawn"
  /\ \E e \in Engines :
       /\ phase[e] = "unused"
       /\ phase' = [phase EXCEPT ![e] = "spawned"]
       /\ portOf' = [portOf EXCEPT ![e] = probe[c]]
       /\ capOf' = [capOf EXCEPT ![e] = ResidentCap(MEM_BUDGET_MB)]
       /\ ENGINE' = e
  /\ Answer(c, probe[c])
  /\ Unlock
  /\ UNCHANGED <<scanned, leaked, timedOut, owner, restVars>>

-----------------------------------------------------------------------------
(* stop(): nothing to do when the slot is empty. *)
StopIdle(c) ==
  /\ pc[c] = "lock" /\ op[c] = "stop"
  /\ CanLock
  /\ ENGINE = NoEngine
  /\ Answer(c, NoPort)
  /\ UNCHANGED <<lockVars, ENGINE, serveVars, owner, restVars>>

(* take() empties the slot and the shutdown signal is sent. *)
TakeEngine(c) ==
  /\ pc[c] = "lock" /\ op[c] = "stop"
  /\ CanLock
  /\ ENGINE # NoEngine
  /\ target' = [target EXCEPT ![c] = ENGINE]
  /\ ENGINE' = NoEngine
  /\ Goto(c, "close")
  /\ UNCHANGED <<op, answer, probe, poisoned, serveVars, owner, restVars>>

StopTakeUnlocked(c) == TakeEngine(c) /\ lock' = lock \* mutant: the guard ends at take()
StopTake(c) == TakeEngine(c) /\ lock' = c

StopCloseBackground(c) == \* mutant: shutdown_background
  /\ pc[c] = "close"
  /\ Answer(c, NoPort)
  /\ Unlock
  /\ UNCHANGED <<serveVars, ENGINE, owner, restVars>>

(* shutdown_timeout(15 s) begins by closing the scheduler: from here on a  *)
(* task is dropped at its next await.                                      *)
StopClose(c) ==
  /\ pc[c] = "close"
  /\ Goto(c, "wait")
  /\ UNCHANGED <<localVars, lockVars, ENGINE, serveVars, owner, restVars>>

(* It returns once every thread of the runtime has ended ... *)
StopDone(c) ==
  /\ pc[c] = "wait"
  /\ phase[target[c]] \in Ended
  /\ Forget(target[c])
  /\ Answer(c, NoPort)
  /\ Unlock
  /\ UNCHANGED <<timedOut, ENGINE, owner, restVars>>

StopNeverTimesOut(c) == FALSE \* mutant: wait for the threads without a timeout

(* ... or after 15 s, leaving the threads that are still busy behind. *)
StopTimesOut(c) ==
  /\ pc[c] = "wait"
  /\ phase[target[c]] \in Live
  /\ leaked' = [leaked EXCEPT ![target[c]] = TRUE]
  /\ timedOut' = TRUE
  /\ Answer(c, NoPort)
  /\ Unlock
  /\ UNCHANGED <<phase, scanned, portOf, capOf, ENGINE, owner, restVars>>

-----------------------------------------------------------------------------
(* port(), and the calls that take no lock. *)

PortReadUnwrap(c) == \* mutant: lock().unwrap()
  /\ pc[c] = "lock" /\ op[c] = "port"
  /\ CanLock
  /\ Answer(c, IF poisoned THEN Panic
               ELSE IF ENGINE = NoEngine THEN NoPort ELSE portOf[ENGINE])
  /\ UNCHANGED <<lockVars, ENGINE, serveVars, owner, restVars>>

PortRead(c) ==
  /\ pc[c] = "lock" /\ op[c] = "port"
  /\ CanLock
  /\ Answer(c, IF ENGINE = NoEngine THEN NoPort ELSE portOf[ENGINE])
  /\ UNCHANGED <<lockVars, ENGINE, serveVars, owner, restVars>>

SetMemoryBudget(mb) ==
  /\ MEM_BUDGET_MB' = mb
  /\ announced' = announced \cup {mb}
  /\ UNCHANGED <<callVars, lockVars, ENGINE, serveVars, owner, leafCache,
                 checkpoint, logVars>>

SetDebugLogs(on) ==
  /\ set_debug_logs(on)
  /\ UNCHANGED <<callVars, lockVars, ENGINE, serveVars, owner, budgetVars,
                 leafCache, checkpoint>>

(* The decoded leaves go; a wallet in the middle of a scan is skipped. *)
ReleaseMemory ==
  /\ leafCache' \in {FALSE} \cup
       (IF \E e \in Engines : phase[e] = "serving" THEN {leafCache} ELSE {})
  /\ UNCHANGED <<callVars, lockVars, ENGINE, serveVars, owner, budgetVars,
                 checkpoint, logVars>>

-----------------------------------------------------------------------------
(* The serve task of instance e (zkas_walletd, outside this crate). *)

serveUnchanged == UNCHANGED <<callVars, lockVars, ENGINE, timedOut, budgetVars,
                              logVars>>

(* It binds the port start() probed, if that is still free, and resumes    *)
(* from the checkpoint on disk.                                            *)
ServeBind(e) ==
  /\ phase[e] = "spawned"
  /\ owner[portOf[e]] = Free
  /\ owner' = [owner EXCEPT ![portOf[e]] = e]
  /\ phase' = [phase EXCEPT ![e] = "serving"]
  /\ scanned' = [scanned EXCEPT ![e] = checkpoint]
  /\ UNCHANGED <<leaked, portOf, capOf, leafCache, checkpoint>> /\ serveUnchanged

(* It ends by itself, with an error (the port is taken, the wallet store   *)
(* cannot be opened) or a panic; start() ignores the Result.               *)
ServeFails(e) ==
  /\ phase[e] \in {"spawned", "serving"}
  /\ TaskEnds(e, "failed")
  /\ owner' = PortFreed(e)
  /\ UNCHANGED <<leafCache, checkpoint>> /\ serveUnchanged

(* One more block is scanned; every CHECKPOINT_EVERY blocks the checkpoint *)
(* is written.                                                             *)
Scan(e) ==
  /\ phase[e] = "serving"
  /\ scanned[e] < Tip
  /\ scanned' = [scanned EXCEPT ![e] = @ + 1]
  /\ checkpoint' = IF (scanned[e] + 1) % CHECKPOINT_EVERY = 0
                   THEN scanned[e] + 1 ELSE checkpoint
  /\ leafCache' = TRUE
  /\ UNCHANGED <<phase, leaked, portOf, capOf, owner>> /\ serveUnchanged

(* The shutdown signal is seen: connections drain, for at most 5 s, then   *)
(* the port is given back, then flush_checkpoints_on_exit runs.            *)
ServeDrain(e) ==
  /\ phase[e] = "serving" /\ Signalled(e)
  /\ phase' = [phase EXCEPT ![e] = "draining"]
  /\ UNCHANGED <<scanned, leaked, portOf, capOf, owner, leafCache, checkpoint>>
  /\ serveUnchanged

ServeDrained(e) ==
  /\ phase[e] = "draining"
  /\ phase' = [phase EXCEPT ![e] = "flushing"]
  /\ owner' = PortFreed(e)
  /\ UNCHANGED <<scanned, leaked, portOf, capOf, leafCache, checkpoint>>
  /\ serveUnchanged

ServeFlush(e) ==
  /\ phase[e] = "flushing"
  /\ checkpoint' = scanned[e]
  /\ TaskEnds(e, "done")
  /\ UNCHANGED <<owner, leafCache>> /\ serveUnchanged

(* tokio: once its runtime is shutting down the task is dropped at its next *)
(* await, whichever phase that is in.                                      *)
TaskDropped(e) ==
  /\ phase[e] \in Live /\ Closed(e)
  /\ TaskEnds(e, "cut")
  /\ owner' = PortFreed(e)
  /\ UNCHANGED <<leafCache, checkpoint>> /\ serveUnchanged

-----------------------------------------------------------------------------
(* The device: other processes and their ports, and a kill of the app, which *)
(* leaves the checkpoint and nothing else.                                  *)

envUnchanged == UNCHANGED <<callVars, lockVars, ENGINE, serveVars, restVars>>

OtherBinds(p) ==
  /\ owner[p] = Free
  /\ owner' = [owner EXCEPT ![p] = Other]
  /\ envUnchanged

OtherLeaves(p) ==
  /\ owner[p] = Other
  /\ owner' = [owner EXCEPT ![p] = Free]
  /\ envUnchanged

Kill ==
  /\ LogReset
  /\ pc' = [c \in Callers |-> "idle"]
  /\ op' = [c \in Callers |-> "none"]
  /\ answer' = [c \in Callers |-> NoPort]
  /\ probe' = [c \in Callers |-> NoPort]
  /\ target' = [c \in Callers |-> NoEngine]
  /\ lock' = NoCaller
  /\ poisoned' = FALSE
  /\ ENGINE' = NoEngine
  /\ portOf' = [e \in Engines |-> NoPort]
  /\ capOf' = [e \in Engines |-> 0]
  /\ phase' = [e \in Engines |-> "unused"]
  /\ scanned' = [e \in Engines |-> 0]
  /\ leaked' = [e \in Engines |-> FALSE]
  /\ timedOut' = FALSE
  /\ owner' = [p \in Ports |-> IF owner[p] = Other THEN Other ELSE Free]
  /\ MEM_BUDGET_MB' = 0
  /\ announced' = {0}
  /\ leafCache' = FALSE
  /\ UNCHANGED checkpoint

-----------------------------------------------------------------------------
start(c) ==
  \/ StartInstall(c) \/ StartLevel(c) \/ StartReuse(c) \/ StartEnter(c)
  \/ StartBind(c) \/ StartBindFails(c) \/ StartDrop(c)
  \/ StartBuild(c) \/ StartBuildFails(c) \/ StartBuildPanics(c) \/ StartSpawn(c)

stop(c) == StopIdle(c) \/ StopTake(c) \/ StopClose(c) \/ StopDone(c) \/ StopTimesOut(c)

serve(e) ==
  \/ ServeBind(e) \/ ServeFails(e) \/ Scan(e) \/ ServeDrain(e) \/ ServeDrained(e)
  \/ ServeFlush(e) \/ TaskDropped(e)

Next ==
  \/ \E c \in Callers :
       (\E o \in Ops \ {"none"} : Call(c, o)) \/ start(c) \/ stop(c) \/ PortRead(c) \/ Return(c)
  \/ \E e \in Engines : serve(e)
  \/ \E p \in Ports : OtherBinds(p) \/ OtherLeaves(p)
  \/ \E mb \in Budgets : SetMemoryBudget(mb)
  \/ \E on \in BOOLEAN : SetDebugLogs(on)
  \/ ReleaseMemory
  \/ Kill

Spec == Init /\ [][Next]_vars

(* What the code's scheduling justifies: a thread that can take its next   *)
(* step does, the 15 s timer of shutdown_timeout fires, and a thread that  *)
(* waits for a mutex which is again and again free gets it (the app polls  *)
(* port() about once a second, so the mutex is free most of the time).     *)
(* Nothing is assumed of the serve task: it may hang in any phase.         *)
Fairness ==
  \A c \in Callers :
    /\ WF_vars(StartInstall(c) \/ StartLevel(c) \/ StartDrop(c) \/ StartSpawn(c))
    /\ WF_vars(StartBind(c) \/ StartBindFails(c))
    /\ WF_vars(StartBuild(c) \/ StartBuildFails(c) \/ StartBuildPanics(c))
    /\ WF_vars(StopClose(c))
    /\ WF_vars(StopDone(c) \/ StopTimesOut(c))
    /\ WF_vars(Return(c))
    /\ SF_vars(StartReuse(c) \/ StartEnter(c) \/ StopIdle(c) \/ StopTake(c) \/ PortRead(c))

FairSpec == Spec /\ Fairness

-----------------------------------------------------------------------------
(* Safety *)

(* Whoever is inside the critical section of start() or stop() holds the   *)
(* mutex, and nobody holds it outside: a call that returns, fails or       *)
(* panics leaves it free.  As long as it is held the slot is empty: a      *)
(* start() has not filled it, a stop() has emptied it, and no other call   *)
(* can have come in between.                                               *)
LockInv ==
  \A c \in Callers :
    /\ pc[c] \in InStart \cup InStop <=> lock = c
    /\ lock = c => ENGINE = NoEngine

(* No instance is orphaned: a live serve task belongs to the slot, to the  *)
(* stop() that is shutting it down, or to a stop() that gave up on it.     *)
NoOrphan ==
  \A e \in Engines : phase[e] \in Live =>
    \/ ENGINE = e
    \/ leaked[e]
    \/ \E c \in Callers : target[c] = e /\ pc[c] \in InStop

(* At most one engine works on the wallet directory, unless an earlier     *)
(* stop() timed out: stop() keeps the mutex until its engine has ended, so *)
(* that the next start() cannot run beside it.                             *)
SingleEngine ==
  \A d, e \in Engines :
    d # e /\ phase[d] \in Live /\ phase[e] \in Live => leaked[d] \/ leaked[e]

(* "Stop the engine and release its port": a port is held for this app     *)
(* only by the probe of a start() under way, by the engine in the slot, by *)
(* the one a stop() is still shutting down, or by one it gave up on.       *)
PortAccounted ==
  \A p \in Ports :
    /\ owner[p] = Probe => \E c \in Callers : pc[c] = "drop" /\ probe[c] = p
    /\ owner[p] \in Engines =>
         \/ ENGINE = owner[p]
         \/ leaked[owner[p]]
         \/ \E c \in Callers : target[c] = owner[p] /\ pc[c] \in InStop

(* While no stop() has timed out, a kill or a cut shutdown costs less than *)
(* CHECKPOINT_EVERY blocks of scan progress.                               *)
LossBounded ==
  ~timedOut =>
    \A e \in Engines : phase[e] \in Working
                       => scanned[e] < checkpoint + CHECKPOINT_EVERY

(* Half the app's ceiling is left to the rest of the process: the cap of a *)
(* running engine comes from a budget the app has set, is at least one     *)
(* wallet, and beyond one wallet fits the half.                            *)
CapFits(cap, budget) ==
  IF budget = 0 THEN cap = 2
  ELSE cap >= 1 /\ (cap > 1 => 2 * 192 * cap <= budget)

CapWithinBudget ==
  \A e \in Engines : phase[e] \in Live => \E b \in announced : CapFits(capOf[e], b)

-----------------------------------------------------------------------------
(* Action properties *)

(* The slot is filled only when it is empty and emptied only by stop() (or *)
(* a kill): no start() ever replaces a running engine.                     *)
SlotNeverOverwritten == [][ENGINE # NoEngine => ENGINE' \in {ENGINE, NoEngine}]_vars

(* The checkpoint on disk never goes back, unless a stop() of this process *)
(* timed out: then two engines may hold different progress, and whichever  *)
(* flushes last wins.                                                      *)
CheckpointForward == [][~timedOut => checkpoint' >= checkpoint]_vars

(* The calls keep the promises of EngineApi: each takes effect at one      *)
(* moment, a start() while an engine runs returns its port, nothing takes  *)
(* effect while a stop() waits, and a poisoned mutex is no obstacle.       *)
Stopper ==
  IF \E c \in Callers : pc[c] \in InStop
  THEN CHOOSE c \in Callers : pc[c] \in InStop ELSE NoCaller

Api == INSTANCE EngineApi WITH
  running  <- IF ENGINE = NoEngine THEN NoPort ELSE portOf[ENGINE],
  call     <- op,
  done     <- [c \in Callers |-> pc[c] = "return"],
  stopping <- Stopper

ApiRefined == Api!Spec

-----------------------------------------------------------------------------
(* Refuted: what the comments promise and the code does not keep. *)

(* "Give the graceful path (a bounded <=5 s connection drain, then the     *)
(* checkpoint flush) time to finish before tearing the runtime down": when *)
(* stop() returns before its timeout, what a healthy engine had scanned is *)
(* in the checkpoint.  shutdown_timeout closes the scheduler first, so the *)
(* task may be dropped before its flush.                                   *)
StopFlushes ==
  [][\A c \in Callers :
       pc[c] = "wait" /\ pc'[c] = "return" /\ phase[target[c]] \in {"done", "cut"}
         => scanned[target[c]] <= checkpoint]_vars

(* "a second call while running returns the live port": a start() that     *)
(* finds an engine in the slot returns a port some engine serves, or is    *)
(* about to.  The Result of serve() is ignored, so the slot may name a     *)
(* port nothing listens on.                                                *)
ReusedPortIsLive ==
  [][\A c \in Callers :
       pc[c] = "lock" /\ op[c] = "start" /\ pc'[c] = "return"
         => phase[ENGINE] \in Live]_vars

-----------------------------------------------------------------------------
(* Liveness: every call comes back, whatever the serve task does, except   *)
(* when the app is killed under it.                                        *)
EveryCallReturns ==
  \A c \in Callers : pc[c] # "idle" ~> pc[c] = "idle"
=============================================================================
