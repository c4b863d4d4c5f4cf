------------------------------- MODULE Mining -------------------------------
(***************************************************************************)
(* NIP-13 proof of work in chat-identity: mine() hashes one nonce after    *)
(* another until the id has `difficulty` leading zero bits, and looks at   *)
(* the clock only at every CHECK_EVERY-th nonce.  The clock, now_ms(), is  *)
(* the wall clock (Date.now, SystemTime): it may be set while mine() runs. *)
(*                                                                         *)
(* An id is IdLen bytes of BYTE bits; SHA-256 may return any of them.  The *)
(* nonce is kept modulo CHECK_EVERY, which is all the loop asks of it.     *)
(***************************************************************************)
EXTENDS Integers, FiniteSets

CONSTANTS
  CHECK_EVERY,    \* nonces between two looks at the clock (8192)
  BYTE, IdLen,    \* bits of a byte (8) and bytes of an id (32)
  Difficulties,   \* the targets a caller asks for; 0 does not mine
  MaxMs,          \* the max_ms a caller passes
  ClockTimes,     \* what the clock may show at a call, or be set to
  MaxBack         \* the bound on how far it is set back during a call

ASSUME MiningAssumption ==
  /\ CHECK_EVERY \in Nat \ {0}
  /\ BYTE \in Nat \ {0} /\ IdLen \in Nat
  /\ Difficulties \subseteq Nat \ {0}
  /\ MaxMs \subseteq Nat
  /\ ClockTimes \subseteq Nat
  /\ MaxBack \in Nat

VARIABLES
  pc,           \* "idle", "mining", "mined" or "gave_up"
  difficulty, max_ms,   \* the arguments of the call
  started,      \* now_ms() when the call began
  nonce,        \* the next nonce, modulo CHECK_EVERY
  id,           \* the id returned, <<>> when there is none
  now,          \* what now_ms() returns
  elapsed,      \* history: the time that has really passed since the call
  ahead, behind,   \* history: how far the clock was set on and back since
  overrun       \* history: nonces tried in vain, one after another, after
                \* the deadline, up to CHECK_EVERY

call == <<difficulty, max_ms, started>>
clock == <<now, elapsed, ahead, behind>>
vars == <<pc, call, nonce, id, clock, overrun>>

(* The powers of 2 that an id of IdLen bytes needs: the prover knows them  *)
(* by this recursion only.                                                 *)
Pow2[n \in 0..(BYTE * IdLen)] == IF n = 0 THEN 1 ELSE 2 * Pow2[n - 1]

Ids == [1..IdLen -> 0..(Pow2[BYTE] - 1)]

CountsOn(i) == \* mutant: goes on past the first byte that is not zero
  Cardinality({p \in (1..IdLen) \X (0..(BYTE - 1)) : i[p[1]] < Pow2[p[2]]})

(* The bits of the bytes before the first that is not 0, and the zero bits *)
(* that one starts with (u8::leading_zeros).                               *)
leading_zero_bits(i) ==
  IF \A k \in 1..IdLen : i[k] = 0
  THEN BYTE * IdLen
  ELSE LET first == CHOOSE k \in 1..IdLen :
                      i[k] # 0 /\ \A j \in 1..(k - 1) : i[j] = 0
       IN  BYTE * (first - 1)
           + Cardinality({z \in 0..(BYTE - 1) : i[first] < Pow2[z]})

(* The types: the nonce is kept modulo the interval of looks at the clock. *)
TypeOK ==
  /\ pc \in {"idle", "mining", "mined", "gave_up"}
  /\ difficulty \in Nat /\ max_ms \in Nat /\ started \in Nat
  /\ nonce \in 0..(CHECK_EVERY - 1)
  /\ id \in Ids \cup {<<>>}
  /\ now \in Nat /\ elapsed \in Nat /\ ahead \in Nat /\ behind \in Nat
  /\ overrun \in Nat

Init ==
  /\ pc = "idle"
  /\ difficulty = 0 /\ max_ms = 0 /\ started = 0
  /\ nonce = 0
  /\ id = <<>>
  /\ now = 0 /\ elapsed = 0 /\ ahead = 0 /\ behind = 0
  /\ overrun = 0

(* The call reads the clock once, at its start.                            *)
Call ==
  /\ pc = "idle"
  /\ difficulty' \in Difficulties
  /\ max_ms' \in MaxMs
  /\ now' \in ClockTimes
  /\ started' = now'
  /\ pc' = "mining"
  /\ nonce' = 0
  /\ elapsed' = 0 /\ ahead' = 0 /\ behind' = 0
  /\ overrun' = 0
  /\ UNCHANGED id

(* The first id that meets the target ends the loop, however late it is:   *)
(* the target is tested before the clock.                                  *)
Mined(i) ==
  /\ pc = "mining"
  /\ leading_zero_bits(i) >= difficulty
  /\ pc' = "mined"
  /\ id' = i
  /\ UNCHANGED <<call, nonce, clock, overrun>>

SinceStartEitherWay == \* mutant: abs_diff in place of saturating_sub
  IF now >= started THEN now - started ELSE started - now

(* now_ms().saturating_sub(started): 0 on a clock set back past the start. *)
SinceStart == IF now >= started THEN now - started ELSE 0

NeverLooks == \* mutant: the remainder is compared with the divisor
  nonce = CHECK_EVERY /\ SinceStart > max_ms

(* nonce % 8192 == 0 && now_ms().saturating_sub(started) > max_ms.         *)
DeadlineSeen == nonce = 0 /\ SinceStart > max_ms

GiveUp(i) ==
  /\ pc = "mining"
  /\ leading_zero_bits(i) < difficulty
  /\ DeadlineSeen
  /\ pc' = "gave_up"
  /\ UNCHANGED <<call, nonce, id, clock, overrun>>

(* The true time after which the caller may expect an end: a clock that is *)
(* set back puts it off.                                                   *)
Deadline == max_ms + behind

(* One more nonce has been tried in vain; no more are counted than matter. *)
Overrun ==
  IF elapsed <= Deadline THEN 0
  ELSE IF overrun < CHECK_EVERY THEN overrun + 1 ELSE overrun

NonceRunsOn(i) == \* mutant: the remainder is not taken
  /\ pc = "mining"
  /\ leading_zero_bits(i) < difficulty
  /\ ~DeadlineSeen
  /\ nonce' = nonce + 1
  /\ overrun' = Overrun
  /\ UNCHANGED <<pc, call, id, clock>>

NextNonce(i) ==
  /\ pc = "mining"
  /\ leading_zero_bits(i) < difficulty
  /\ ~DeadlineSeen
  /\ nonce' = IF nonce + 1 = CHECK_EVERY THEN 0 ELSE nonce + 1
  /\ overrun' = Overrun
  /\ UNCHANGED <<pc, call, id, clock>>

mine == \E i \in Ids : Mined(i) \/ GiveUp(i) \/ NextNonce(i)

(* The caller has its answer.                                              *)
Return ==
  /\ pc \in {"mined", "gave_up"}
  /\ pc' = "idle"
  /\ id' = <<>>
  /\ UNCHANGED <<call, nonce, clock, overrun>>

(* A millisecond passes.  The bound: time is followed until one past the   *)
(* deadline, and the clock shows it by then.                               *)
Tick ==
  /\ pc = "mining"
  /\ elapsed <= Deadline
  /\ now' = now + 1
  /\ elapsed' = elapsed + 1
  /\ UNCHANGED <<pc, call, nonce, id, ahead, behind, overrun>>

(* The user, or a time server, sets the clock on or back.                  *)
SetOn ==
  /\ pc = "mining"
  /\ now' \in ClockTimes
  /\ now' > now
  /\ ahead' = ahead + (now' - now)
  /\ UNCHANGED <<pc, call, nonce, id, elapsed, behind, overrun>>

SetBack ==
  /\ pc = "mining"
  /\ now' \in ClockTimes
  /\ now' < now
  /\ behind' = behind + (now - now')
  /\ behind' <= MaxBack
  /\ UNCHANGED <<pc, call, nonce, id, elapsed, ahead, overrun>>

Next == Call \/ mine \/ Return \/ Tick \/ SetOn \/ SetBack

(* The thread that mines is scheduled, and time passes.                    *)
Fairness == WF_vars(mine) /\ WF_vars(Tick)

Spec == Init /\ [][Next]_vars
FairSpec == Spec /\ Fairness

-----------------------------------------------------------------------------
(* A mined id lies below the target as a number: what other clients test.  *)
(* IdValue reads the bytes as one big-endian integer.                      *)
IdValue[k \in 0..IdLen] ==
  IF k = 0 THEN 0 ELSE IdValue[k - 1] * Pow2[BYTE] + id[k]

MinedBelowTarget ==
  pc = "mined" =>
    IdValue[IdLen] < Pow2[BYTE * IdLen - difficulty]

(* mine() overruns its deadline by fewer nonces than lie between two looks *)
(* at the clock, however the clock is set meanwhile: the bound on how long *)
(* a UI thread waits.  A clock that is set back puts the deadline off by   *)
(* as much as that, and by no more.                                        *)
OverrunBounded == overrun < CHECK_EVERY

(* mine() gives up before max_ms has really passed by no more than the     *)
(* clock was set on during the call: a clock set back, even to before the  *)
(* call, does not end it early.                                            *)
GivesUpLate == pc = "gave_up" => elapsed + ahead > max_ms

(* A call ends, whatever the hashes are: sign_event does not block a UI    *)
(* thread forever, on a clock that is not set back without end (MaxBack).  *)
MiningEnds == pc = "mining" ~> pc # "mining"
=============================================================================
