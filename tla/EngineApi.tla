----------------------------- MODULE EngineApi ------------------------------
(***************************************************************************)
(* What the exported calls start, stop and port of walletd-mobile promise  *)
(* an app, whatever goes on behind them: the library has one port at a     *)
(* time, or none; a call takes effect at one moment between its being made *)
(* and its return; and from the moment a stop() has taken the engine away  *)
(* until it returns, no other call takes effect.                           *)
(*                                                                         *)
(* start() answers the live port, or a fresh one, or 0, and may panic; the *)
(* other calls never panic, and nothing a panicking start() leaves behind  *)
(* stops the next call from being answered.                                *)
(***************************************************************************)
CONSTANTS Callers, Ports, NoPort, NoCaller, Panic

VARIABLES
  running,    \* the port of the engine, or NoPort
  call,       \* per thread: the call it is in, or "none"
  done,       \* per thread: the call has its answer
  answer,     \* per thread: that answer
  stopping    \* the thread whose stop() is under way, or NoCaller

vars == <<running, call, done, answer, stopping>>

Calls == {"start", "stop", "port"}

Init ==
  /\ running = NoPort
  /\ call = [c \in Callers |-> "none"]
  /\ done = [c \in Callers |-> FALSE]
  /\ answer = [c \in Callers |-> NoPort]
  /\ stopping = NoCaller

Pending(c, o) == call[c] = o /\ ~done[c] /\ stopping = NoCaller

Answer(c, a) ==
  /\ done' = [done EXCEPT ![c] = TRUE]
  /\ answer' = [answer EXCEPT ![c] = a]
  /\ UNCHANGED call

Call(c, o) ==
  /\ call[c] = "none"
  /\ call' = [call EXCEPT ![c] = o]
  /\ UNCHANGED <<running, done, answer, stopping>>

StartLive(c) ==
  /\ Pending(c, "start") /\ running # NoPort
  /\ Answer(c, running)
  /\ UNCHANGED <<running, stopping>>

StartFresh(c) ==
  /\ Pending(c, "start") /\ running = NoPort
  /\ running' \in Ports
  /\ Answer(c, running')
  /\ UNCHANGED stopping

StartFails(c) ==
  /\ Pending(c, "start") /\ running = NoPort
  /\ \E a \in {NoPort, Panic} : Answer(c, a)
  /\ UNCHANGED <<running, stopping>>

StopNothing(c) ==
  /\ Pending(c, "stop") /\ running = NoPort
  /\ Answer(c, NoPort)
  /\ UNCHANGED <<running, stopping>>

StopBegins(c) ==
  /\ Pending(c, "stop") /\ running # NoPort
  /\ running' = NoPort
  /\ stopping' = c
  /\ UNCHANGED <<call, done, answer>>

StopEnds(c) ==
  /\ stopping = c
  /\ stopping' = NoCaller
  /\ Answer(c, NoPort)
  /\ UNCHANGED running

PortIs(c) ==
  /\ Pending(c, "port")
  /\ Answer(c, running)
  /\ UNCHANGED <<running, stopping>>

Return(c) ==
  /\ done[c]
  /\ call' = [call EXCEPT ![c] = "none"]
  /\ done' = [done EXCEPT ![c] = FALSE]
  /\ answer' = [answer EXCEPT ![c] = NoPort]
  /\ UNCHANGED <<running, stopping>>

(* The app is killed, with every call in it. *)
Restart ==
  /\ running' = NoPort
  /\ call' = [c \in Callers |-> "none"]
  /\ done' = [c \in Callers |-> FALSE]
  /\ answer' = [c \in Callers |-> NoPort]
  /\ stopping' = NoCaller

Next ==
  \/ \E c \in Callers :
       \/ \E o \in Calls : Call(c, o)
       \/ StartLive(c) \/ StartFresh(c) \/ StartFails(c)
       \/ StopNothing(c) \/ StopBegins(c) \/ StopEnds(c)
       \/ PortIs(c) \/ Return(c)
  \/ Restart

Spec == Init /\ [][Next]_vars
=============================================================================
