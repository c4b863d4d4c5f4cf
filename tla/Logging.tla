------------------------------ MODULE Logging ------------------------------
(***************************************************************************)
(* The process-wide logging statics of walletd-mobile: who installs the    *)
(* ring logger, and what level the `log` facade lets through.  The module  *)
(* has no behaviour of its own: the ring of lines (LogRing) and the engine *)
(* life cycle (Engine), whose start() opens with install_logger() and      *)
(* install_panic_hook(), take their steps from here.                       *)
(***************************************************************************)
EXTENDS Naturals

(* log::LevelFilter, in the order the facade compares levels. *)
Off   == 0
Error == 1
Info  == 3
Debug == 4
Levels == {Off, Error, Info, Debug}

VARIABLES
  LOGGER_SET,   \* the AtomicBool that elects the one installing thread
  logger,       \* has set_boxed_logger put the RingLogger in place
  max_level,    \* log::max_level()
  hook          \* has install_panic_hook's Once run

logVars == <<LOGGER_SET, logger, max_level, hook>>

LogTypeOK ==
  /\ LOGGER_SET \in BOOLEAN
  /\ logger \in BOOLEAN
  /\ max_level \in Levels
  /\ hook \in BOOLEAN

(* A fresh process: no logger, and the facade's level is Off. *)
LogInit ==
  /\ LOGGER_SET = FALSE
  /\ logger = FALSE
  /\ max_level = Off
  /\ hook = FALSE

LogReset ==
  /\ LOGGER_SET' = FALSE
  /\ logger' = FALSE
  /\ max_level' = Off
  /\ hook' = FALSE

ClaimWithoutSwap == \* mutant: the flag is loaded, not swapped
  /\ ~LOGGER_SET
  /\ UNCHANGED logVars

(* install_logger, the swap: the first caller goes on to install ... *)
ClaimLogger ==
  /\ ~LOGGER_SET
  /\ LOGGER_SET' = TRUE
  /\ UNCHANGED <<logger, max_level, hook>>

(* ... and every later caller returns at once (install_panic_hook follows). *)
LoggerClaimed ==
  /\ LOGGER_SET
  /\ hook' = TRUE
  /\ UNCHANGED <<LOGGER_SET, logger, max_level>>

FinishLoggerAtWarn == \* mutant: a level the app cannot ask for
  /\ logger' = TRUE
  /\ max_level' = 2
  /\ hook' = TRUE
  /\ UNCHANGED LOGGER_SET

(* The winner registers the RingLogger and sets the level to Info, then    *)
(* runs install_panic_hook.                                                *)
FinishLogger ==
  /\ logger' = TRUE
  /\ max_level' = Info
  /\ hook' = TRUE
  /\ UNCHANGED LOGGER_SET

set_debug_logs(on) ==
  /\ max_level' = IF on THEN Debug ELSE Info
  /\ UNCHANGED <<LOGGER_SET, logger, hook>>

(* Does a record of this level reach RingLogger::log and pass enabled(). *)
Enabled(level) == logger /\ level <= max_level
=============================================================================
