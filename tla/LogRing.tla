------------------------------ MODULE LogRing -------------------------------
(***************************************************************************)
(* The in-memory ring of log lines of walletd-mobile: threads that install *)
(* the logger (the opening of start()), log, panic, and change the level.  *)
(*                                                                         *)
(* A line is [by, n]: its thread, and how many lines that thread logged    *)
(* before it.  The timestamp and the text are read by nothing.             *)
(***************************************************************************)
EXTENDS Logging, Sequences

CONSTANTS
  Threads,        \* threads that log: callers of the API, engine workers
  LOG_RING_CAP,   \* lines the ring holds
  MaxLines        \* bound of the model: lines per thread

ASSUME RingAssumption ==
  LOG_RING_CAP \in Nat \ {0} /\ MaxLines \in Nat

VARIABLES
  at,        \* per thread: "out", inside install_logger, or about to push
  line,      \* per thread: the line it has formatted and not yet pushed
  count,     \* per thread: lines it has logged
  LOG_RING,  \* the ring, oldest line first
  pushed     \* every line ever pushed, in the order of the ring's lock

vars == <<at, line, count, LOG_RING, pushed, logVars>>

Lines == [by : Threads, n : 0..MaxLines]
NoLine == [by |-> CHOOSE t \in Threads : TRUE, n |-> MaxLines]

RingTypeOK ==
  /\ LogTypeOK
  /\ at \in [Threads -> {"out", "install", "level", "push"}]
  /\ line \in [Threads -> Lines]
  /\ count \in [Threads -> 0..MaxLines]
  /\ LOG_RING \in Seq(Lines) /\ pushed \in Seq(Lines)

Init ==
  /\ LogInit
  /\ at = [t \in Threads |-> "out"]
  /\ line = [t \in Threads |-> NoLine]
  /\ count = [t \in Threads |-> 0]
  /\ LOG_RING = <<>>
  /\ pushed = <<>>

Move(t, from, to) == at[t] = from /\ at' = [at EXCEPT ![t] = to]

(* start() is called: install_logger and install_panic_hook. *)
Start(t) ==
  /\ Move(t, "out", "install")
  /\ UNCHANGED <<line, count, LOG_RING, pushed, logVars>>

Install(t) ==
  /\ \/ ClaimLogger   /\ Move(t, "install", "level")
     \/ LoggerClaimed /\ Move(t, "install", "out")
  /\ UNCHANGED <<line, count, LOG_RING, pushed>>

InstallLevel(t) ==
  /\ Move(t, "level", "out")
  /\ FinishLogger
  /\ UNCHANGED <<line, count, LOG_RING, pushed>>

SetDebugLogs(on) ==
  /\ set_debug_logs(on)
  /\ UNCHANGED <<at, line, count, LOG_RING, pushed>>

(* RingLogger::log up to the lock: a record that passes enabled() is       *)
(* given the time and formatted, outside the lock.                         *)
Stamp(t, level) ==
  /\ Enabled(level)
  /\ count[t] < MaxLines
  /\ Move(t, "out", "push")
  /\ line' = [line EXCEPT ![t] = [by |-> t, n |-> count[t]]]
  /\ count' = [count EXCEPT ![t] = @ + 1]
  /\ UNCHANGED <<LOG_RING, pushed, logVars>>

(* A panic is reported through the hook as an error line. *)
PanicStamp(t) == hook /\ Stamp(t, Error)

PushedLate(ring, l) == \* mutant: while len > cap
  Append(IF Len(ring) > LOG_RING_CAP
         THEN SubSeq(ring, Len(ring) - LOG_RING_CAP + 1, Len(ring)) ELSE ring, l)

(* while len >= cap, pop_front; push_back *)
Pushed(ring, l) ==
  Append(IF Len(ring) >= LOG_RING_CAP
         THEN SubSeq(ring, Len(ring) - LOG_RING_CAP + 2, Len(ring)) ELSE ring, l)

(* RingLogger::log under the lock. *)
Push(t) ==
  /\ Move(t, "push", "out")
  /\ LOG_RING' = Pushed(LOG_RING, line[t])
  /\ pushed' = Append(pushed, line[t])
  /\ line' = [line EXCEPT ![t] = NoLine]
  /\ UNCHANGED <<count, logVars>>

Next ==
  \/ \E t \in Threads :
       \/ Start(t) \/ Install(t) \/ InstallLevel(t)
       \/ \E level \in {Info, Debug} : Stamp(t, level)
       \/ PanicStamp(t) \/ Push(t)
  \/ \E on \in BOOLEAN : SetDebugLogs(on)

Spec == Init /\ [][Next]_vars

-----------------------------------------------------------------------------
(* logs() shows exactly the newest lines: whatever the threads interleave, *)
(* the ring is the tail of everything pushed, LOG_RING_CAP lines of it.    *)
Oldest == IF Len(pushed) > LOG_RING_CAP THEN Len(pushed) - LOG_RING_CAP + 1 ELSE 1

RingIsRecent == LOG_RING = SubSeq(pushed, Oldest, Len(pushed))

(* Two threads that start at once do not both install the logger (the      *)
(* second set_boxed_logger would fail, and its set_max_level undo a level  *)
(* the app has set meanwhile).                                             *)
OneInstaller ==
  \A s, t \in Threads : at[s] = "level" /\ at[t] = "level" => s = t
=============================================================================
