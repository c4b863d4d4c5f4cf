---------------------------- MODULE MiningProofs ----------------------------
(***************************************************************************)
(* Theorems about Mining, for every divisor, target, deadline and clock.   *)
(* The deadline does not depend on how many zero bits an id has; that a    *)
(* mined id lies below its target does, and is shown by induction over the *)
(* exponents of 2 and over the bytes of the id.                            *)
(***************************************************************************)
EXTENDS Mining, FiniteSetTheorems, WellFoundedInduction, TLAPS

(* Every variable keeps its type.                                          *)
THEOREM MiningTyping == Spec => []TypeOK
<1> USE MiningAssumption DEF MiningAssumption
<1>1. Init => TypeOK
  BY DEF Init, TypeOK
<1>2. TypeOK /\ [Next]_vars => TypeOK'
  <2> SUFFICES ASSUME TypeOK, [Next]_vars PROVE TypeOK'
    OBVIOUS
  <2> USE DEF TypeOK, vars, call, clock
  <2>1. CASE Call
    BY <2>1 DEF Call
  <2>2. ASSUME NEW i \in Ids, Mined(i) PROVE TypeOK'
    BY <2>2 DEF Mined
  <2>3. ASSUME NEW i \in Ids, GiveUp(i) PROVE TypeOK'
    BY <2>3 DEF GiveUp
  <2>4. ASSUME NEW i \in Ids, NextNonce(i) PROVE TypeOK'
    BY <2>4 DEF NextNonce, Overrun
  <2>5. CASE Return
    BY <2>5 DEF Return
  <2>6. CASE Tick
    BY <2>6 DEF Tick
  <2>7. CASE SetOn
    <3>1. PICK t \in Nat : now' = t /\ t > now /\ ahead' = ahead + (t - now)
      BY <2>7 DEF SetOn
    <3> QED
      BY <2>7, <3>1 DEF SetOn
  <2>8. CASE SetBack
    <3>1. PICK t \in Nat : now' = t /\ t < now /\ behind' = behind + (now - t)
      BY <2>8 DEF SetBack
    <3> QED
      BY <2>8, <3>1 DEF SetBack
  <2>9. CASE UNCHANGED vars
    BY <2>9
  <2>10. QED
    BY <2>1, <2>2, <2>3, <2>4, <2>5, <2>6, <2>7, <2>8, <2>9 DEF Next, mine
<1>3. QED
  BY <1>1, <1>2, PTL DEF Spec

(* Until the call has ended, the clock shows the time that has passed and  *)
(* what it was set on and back.                                            *)
ClockInv ==
  pc \in {"mining", "gave_up"} => now + behind = started + elapsed + ahead

(* The nonces tried in vain since the deadline all came after the last     *)
(* look at the clock: that look would have ended the call.                 *)
DeadlineInv ==
  /\ overrun < CHECK_EVERY
  /\ pc = "mining" /\ nonce > 0 => overrun < nonce

(* Setting the clock and letting it run keep it as ClockInv says.          *)
LEMMA ClockKept == TypeOK /\ ClockInv /\ [Next]_vars => ClockInv'
<1> USE MiningAssumption DEF MiningAssumption, TypeOK
<1> SUFFICES ASSUME TypeOK, ClockInv, [Next]_vars PROVE ClockInv'
  OBVIOUS
<1> USE DEF ClockInv, vars, call, clock
<1>1. CASE Call
  <2>1. PICK t \in Nat : now' = t /\ started' = t
    BY <1>1 DEF Call
  <2>2. elapsed' = 0 /\ ahead' = 0 /\ behind' = 0
    BY <1>1 DEF Call
  <2> QED
    BY <2>1, <2>2
<1>2. CASE mine
  BY <1>2 DEF mine, Mined, GiveUp, NextNonce
<1>3. CASE Return
  BY <1>3 DEF Return
<1>4. CASE Tick
  BY <1>4 DEF Tick
<1>5. CASE SetOn
  <2>1. PICK t \in Nat : now' = t /\ ahead' = ahead + (t - now)
    BY <1>5 DEF SetOn
  <2>2. t + behind = started + elapsed + (ahead + (t - now))
    BY <2>1, <1>5 DEF SetOn
  <2> QED
    BY <1>5, <2>1, <2>2 DEF SetOn
<1>6. CASE SetBack
  <2>1. PICK t \in Nat : now' = t /\ behind' = behind + (now - t)
    BY <1>6 DEF SetBack
  <2>2. t + (behind + (now - t)) = started + elapsed + ahead
    BY <2>1, <1>6 DEF SetBack
  <2> QED
    BY <1>6, <2>1, <2>2 DEF SetBack
<1>7. CASE UNCHANGED vars
  BY <1>7
<1> QED
  BY <1>1, <1>2, <1>3, <1>4, <1>5, <1>6, <1>7 DEF Next

(* mine() overruns its deadline by fewer than CHECK_EVERY nonces, however  *)
(* the clock is set on and back while it runs.                             *)
THEOREM OverrunIsBounded == Spec => []OverrunBounded
<1> USE MiningAssumption DEF MiningAssumption, TypeOK
<1>1. Init => ClockInv /\ DeadlineInv
  BY DEF Init, ClockInv, DeadlineInv
<1>2. TypeOK /\ ClockInv /\ DeadlineInv /\ [Next]_vars => DeadlineInv'
  <2> SUFFICES ASSUME TypeOK, ClockInv, DeadlineInv, [Next]_vars
               PROVE  DeadlineInv'
    OBVIOUS
  <2> USE DEF DeadlineInv, vars, call, clock
  <2>1. CASE Call
    BY <2>1 DEF Call
  <2>2. ASSUME NEW i \in Ids, Mined(i) PROVE DeadlineInv'
    BY <2>2 DEF Mined
  <2>3. ASSUME NEW i \in Ids, GiveUp(i) PROVE DeadlineInv'
    BY <2>3 DEF GiveUp
  <2>4. ASSUME NEW i \in Ids, NextNonce(i) PROVE DeadlineInv'
    <3>1. CASE elapsed > Deadline
      <4>1. now + behind = started + elapsed + ahead
        BY <2>4 DEF NextNonce, ClockInv
      <4>2. SinceStart > max_ms
        BY <4>1, <3>1 DEF SinceStart, Deadline
      <4>3. nonce > 0
        BY <2>4, <4>2 DEF NextNonce, DeadlineSeen
      <4>4. overrun' = overrun + 1 \/ overrun' = overrun
        BY <2>4, <3>1 DEF NextNonce, Overrun, Deadline
      <4>5. QED
        BY <2>4, <4>3, <4>4 DEF NextNonce
    <3>2. CASE ~(elapsed > Deadline)
      <4>1. overrun' = 0
        BY <2>4, <3>2 DEF NextNonce, Overrun, Deadline
      <4>2. QED
        BY <2>4, <4>1 DEF NextNonce
    <3>3. QED
      BY <3>1, <3>2
  <2>5. CASE Return
    BY <2>5 DEF Return
  <2>6. CASE Tick \/ SetOn \/ SetBack
    BY <2>6 DEF Tick, SetOn, SetBack
  <2>7. CASE UNCHANGED vars
    BY <2>7
  <2>8. QED
    BY <2>1, <2>2, <2>3, <2>4, <2>5, <2>6, <2>7 DEF Next, mine
<1>3. DeadlineInv => OverrunBounded
  BY DEF DeadlineInv, OverrunBounded
<1>4. QED
  BY <1>1, <1>2, <1>3, ClockKept, MiningTyping, PTL DEF Spec

(* Given up while the clock showed a start that lies too far back.         *)
GaveUpInv == pc = "gave_up" => now > started + max_ms

(* mine() gives up before max_ms by no more than the clock was set on.     *)
THEOREM GivesUpNoSooner == Spec => []GivesUpLate
<1> USE MiningAssumption DEF MiningAssumption, TypeOK
<1>1. Init => ClockInv /\ GaveUpInv
  BY DEF Init, ClockInv, GaveUpInv
<1>2. TypeOK /\ GaveUpInv /\ [Next]_vars => GaveUpInv'
  <2> SUFFICES ASSUME TypeOK, GaveUpInv, [Next]_vars, pc' = "gave_up"
               PROVE  now' > started' + max_ms'
    BY DEF GaveUpInv
  <2>1. ASSUME NEW i \in Ids, GiveUp(i) PROVE now' > started' + max_ms'
    <3>1. SinceStart > max_ms /\ UNCHANGED <<call, clock>>
      BY <2>1 DEF GiveUp, DeadlineSeen
    <3>2. now > started + max_ms
      BY <3>1 DEF SinceStart
    <3> QED
      BY <3>1, <3>2 DEF call, clock
  <2>2. CASE UNCHANGED vars
    BY <2>2 DEF GaveUpInv, vars, call, clock
  <2> QED
    BY <2>1, <2>2 DEF Next, Call, mine, Mined, NextNonce, Return, Tick, SetOn, SetBack
<1>3. TypeOK /\ ClockInv /\ GaveUpInv => GivesUpLate
  BY DEF ClockInv, GaveUpInv, GivesUpLate
<1>4. QED
  BY <1>1, <1>2, <1>3, ClockKept, MiningTyping, PTL DEF Spec

-----------------------------------------------------------------------------
(* The number an id is.                                                    *)

(* < as a relation.                                                        *)
LessThan == {p \in Nat \X Nat : p[1] < p[2]}

(* Complete induction: a set that has every number whose predecessors it   *)
(* has, has every number.                                                  *)
LEMMA Induction ==
  ASSUME NEW T,
         \A n \in Nat : (\A m \in 0..(n - 1) : m \in T) => n \in T
  PROVE  Nat \subseteq T
<1> SUFFICES ASSUME ~(Nat \subseteq T) PROVE FALSE
  OBVIOUS
<1> DEFINE U == Nat \ T
<1>0. IsWellFoundedOn(LessThan, Nat)
  <2>1. LessThan = OpToRel(<, Nat)
    BY Zenon DEF OpToRel, LessThan
  <2> QED
    BY <2>1, NatLessThanWellFounded
<1>1. PICK n \in U : \A m \in U : <<m, n>> \notin LessThan
  <2>1. U \subseteq Nat /\ U # {}
    OBVIOUS
  <2> HIDE DEF U
  <2> QED
    BY <2>1, <1>0, WFMin
<1>2. ASSUME NEW m \in 0..(n - 1) PROVE m \in T
  <2>1. <<m, n>> \in LessThan
    BY DEF LessThan
  <2> QED
    BY <2>1, <1>1
<1> QED
  BY <1>1, <1>2

(* Induction by steps of one.                                              *)
LEMMA StepInduction ==
  ASSUME NEW T, 0 \in T, \A n \in Nat : n \in T => n + 1 \in T
  PROVE  Nat \subseteq T
<1>1. ASSUME NEW n \in Nat, \A m \in 0..(n - 1) : m \in T
      PROVE  n \in T
  <2>1. CASE n = 0
    BY <2>1
  <2>2. CASE n # 0
    <3>1. n - 1 \in 0..(n - 1) /\ n - 1 \in Nat
      BY <2>2
    <3>2. (n - 1) + 1 \in T
      BY <3>1, <1>1
    <3>3. (n - 1) + 1 = n
      OBVIOUS
    <3> QED
      BY <3>2, <3>3
  <2> QED
    BY <2>1, <2>2
<1> QED
  BY <1>1, Induction, Zenon

(* f is defined over 0..N by recursion from base with step.                *)
Recursive(f, N, S, base, step) ==
  /\ f \in [0..N -> S]
  /\ \A n \in 0..N : f[n] = IF n = 0 THEN base ELSE step[<<n, f[n - 1]>>]

(* What is defined by recursion over an interval exists.                   *)
LEMMA Recursion ==
  ASSUME NEW N \in Nat, NEW S, NEW base \in S, NEW step \in [Nat \X S -> S]
  PROVE  \E f : Recursive(f, N, S, base, step)
<1> DEFINE Good(f, n) == Recursive(f, n, S, base, step)
           T == {n \in Nat : \E f : Good(f, n)}
<1>1. 0 \in T
  <2>1. Good([k \in 0..0 |-> base], 0)
    BY DEF Recursive
  <2> QED
    BY <2>1
<1>2. ASSUME NEW n \in Nat, n \in T PROVE n + 1 \in T
  <2>1. PICK g : Good(g, n)
    BY <1>2
  <2> DEFINE f == [k \in 0..(n + 1) |->
                     IF k = n + 1 THEN step[<<n + 1, g[n]>>] ELSE g[k]]
  <2>2. f \in [0..(n + 1) -> S]
    BY <2>1 DEF Recursive
  <2>3. ASSUME NEW k \in 0..(n + 1)
        PROVE  f[k] = IF k = 0 THEN base ELSE step[<<k, f[k - 1]>>]
    <3>1. CASE k = n + 1
      <4>1. k - 1 = n /\ n \in 0..(n + 1) /\ n # n + 1 /\ k # 0
        BY <3>1
      <4>2. f[k - 1] = g[n]
        BY <4>1
      <4> QED
        BY <3>1, <4>1, <4>2
    <3>2. CASE k # n + 1
      <4>1. k \in 0..n /\ (k # 0 => k - 1 \in 0..n)
        BY <3>2
      <4>2. g[k] = IF k = 0 THEN base ELSE step[<<k, g[k - 1]>>]
        BY <4>1, <2>1 DEF Recursive
      <4>3. f[k] = g[k] /\ (k # 0 => f[k - 1] = g[k - 1])
        BY <4>1
      <4> QED
        BY <4>2, <4>3
    <3> QED
      BY <3>1, <3>2
  <2>4. Good(f, n + 1)
    BY <2>2, <2>3 DEF Recursive
  <2>5. n + 1 \in Nat
    OBVIOUS
  <2> HIDE DEF Good
  <2> QED
    BY <2>4, <2>5
<1> HIDE DEF T
<1>3. Nat \subseteq T
  BY <1>1, <1>2, StepInduction
<1> QED
  BY <1>3 DEF T

(* Pow2 is what its definition says: the recursion has a solution.         *)
LEMMA Pow2Def ==
  /\ Pow2 \in [0..(BYTE * IdLen) -> Nat]
  /\ \A n \in 0..(BYTE * IdLen) :
       Pow2[n] = IF n = 0 THEN 1 ELSE 2 * Pow2[n - 1]
<1> DEFINE N == BYTE * IdLen
           step == [p \in Nat \X Nat |-> 2 * p[2]]
           Holds(f) == f = [n \in 0..N |-> IF n = 0 THEN 1 ELSE 2 * f[n - 1]]
<1>1. N \in Nat
  BY MiningAssumption DEF MiningAssumption
<1>2. step \in [Nat \X Nat -> Nat]
  OBVIOUS
<1>3. PICK f : Recursive(f, N, Nat, 1, step)
  <2> HIDE DEF N, step
  <2> QED
    BY <1>1, <1>2, 1 \in Nat, Recursion
<1>4. Holds(f)
  <2> HIDE DEF N
  <2>1. ASSUME NEW n \in 0..N PROVE f[n] = IF n = 0 THEN 1 ELSE 2 * f[n - 1]
    <3>1. CASE n = 0
      BY <1>3, <3>1 DEF Recursive
    <3>2. CASE n # 0
      <4>1. n - 1 \in 0..N /\ n \in Nat
        BY <1>1, <3>2
      <4>2. f[n - 1] \in Nat /\ f[n] = step[<<n, f[n - 1]>>]
        BY <1>3, <4>1, <3>2 DEF Recursive
      <4> QED
        BY <4>1, <4>2, <3>2
    <3> QED
      BY <3>1, <3>2
  <2> QED
    BY <2>1, <1>3 DEF Recursive
<1>5. Holds(CHOOSE g : Holds(g))
  <2> HIDE DEF Holds
  <2> QED
    BY <1>4, Zenon
<1>6. Pow2 = CHOOSE g : Holds(g)
  BY Zenon DEF Pow2
<1>7. Holds(Pow2)
  BY <1>5, <1>6, Zenon
<1> HIDE DEF N
<1>8. ASSUME NEW n \in 0..N PROVE Pow2[n] = IF n = 0 THEN 1 ELSE 2 * Pow2[n - 1]
  <2>1. [m \in 0..N |-> IF m = 0 THEN 1 ELSE 2 * Pow2[m - 1]][n] =
         IF n = 0 THEN 1 ELSE 2 * Pow2[n - 1]
    OBVIOUS
  <2> QED
    BY <1>7, <2>1, Zenon
<1>9. Pow2 \in [0..N -> Nat]
  <2> DEFINE T == {n \in Nat : n \in 0..N => Pow2[n] \in Nat}
  <2>1. 0 \in T
    BY <1>8, <1>1
  <2>2. ASSUME NEW n \in Nat, n \in T PROVE n + 1 \in T
    <3> SUFFICES ASSUME n + 1 \in 0..N PROVE Pow2[n + 1] \in Nat
      OBVIOUS
    <3>1. n \in 0..N
      BY <1>1
    <3>2. Pow2[n + 1] = 2 * Pow2[n]
      BY <1>8
    <3> QED
      BY <3>1, <3>2, <2>2
  <2> HIDE DEF T
  <2>3. Nat \subseteq T
    BY <2>1, <2>2, StepInduction
  <2>4. \A n \in 0..N : Pow2[n] \in Nat
    BY <2>3, <1>1 DEF T
  <2>5. DOMAIN Pow2 = 0..N /\ Pow2 = [m \in DOMAIN Pow2 |-> Pow2[m]]
    BY <1>7
  <2> QED
    BY <2>4, <2>5
<1> QED
  BY <1>8, <1>9 DEF N

(* Powers of 2 are positive and grow with the exponent.                    *)
LEMMA Pow2Grows ==
  ASSUME NEW a \in 0..(BYTE * IdLen), NEW b \in 0..(BYTE * IdLen), a <= b
  PROVE  0 < Pow2[a] /\ Pow2[a] <= Pow2[b]
<1> DEFINE N == BYTE * IdLen
           T == {n \in Nat : n \in 0..N => 0 < Pow2[n]}
           U == {n \in Nat : a + n \in 0..N => Pow2[a] <= Pow2[a + n]}
<1>0. N \in Nat
  BY MiningAssumption DEF MiningAssumption
<1>1. /\ Pow2 \in [0..N -> Nat]
      /\ \A n \in 0..N : Pow2[n] = IF n = 0 THEN 1 ELSE 2 * Pow2[n - 1]
  BY Pow2Def
<1> HIDE DEF N
<1>2. Nat \subseteq T
  <2>1. 0 \in T
    BY <1>1
  <2>2. ASSUME NEW n \in Nat, n \in T PROVE n + 1 \in T
    <3> SUFFICES ASSUME n + 1 \in 0..N PROVE 0 < Pow2[n + 1]
      OBVIOUS
    <3>1. n \in 0..N
      BY <1>0
    <3>2. Pow2[n + 1] = 2 * Pow2[n]
      BY <1>1
    <3>3. Pow2[n] \in Nat
      BY <3>1, <1>1
    <3> QED
      BY <3>1, <3>2, <3>3, <2>2
  <2> HIDE DEF T
  <2> QED
    BY <2>1, <2>2, StepInduction
<1>3. Nat \subseteq U
  <2>1. 0 \in U
    BY <1>1
  <2>2. ASSUME NEW n \in Nat, n \in U PROVE n + 1 \in U
    <3> SUFFICES ASSUME a + (n + 1) \in 0..N PROVE Pow2[a] <= Pow2[a + (n + 1)]
      OBVIOUS
    <3>1. a + n \in 0..N /\ (a + (n + 1)) - 1 = a + n /\ a + (n + 1) # 0
      BY <1>0
    <3>2. Pow2[a + (n + 1)] = 2 * Pow2[a + n]
      BY <1>1, <3>1
    <3>3. Pow2[a + n] \in Nat /\ Pow2[a] \in Nat
      BY <3>1, <1>1, a \in 0..N DEF N
    <3>4. Pow2[a] <= Pow2[a + n]
      BY <3>1, <2>2
    <3> QED
      BY <3>2, <3>3, <3>4
  <2> HIDE DEF U
  <2> QED
    BY <2>1, <2>2, StepInduction
<1>4. 0 < Pow2[a]
  BY <1>2, a \in 0..N DEF N
<1>5. Pow2[a] <= Pow2[b]
  <2>1. b - a \in Nat /\ a + (b - a) = b /\ b \in 0..N
    BY DEF N
  <2>2. b - a \in U
    BY <2>1, <1>3
  <2> QED
    BY <2>1, <2>2
<1> QED
  BY <1>4, <1>5

(* Exponents add up.                                                       *)
LEMMA Pow2Sum ==
  ASSUME NEW a \in Nat, NEW b \in Nat, a + b <= BYTE * IdLen
  PROVE  Pow2[a + b] = Pow2[a] * Pow2[b]
<1> DEFINE N == BYTE * IdLen
           U == {n \in Nat : a + n \in 0..N => Pow2[a + n] = Pow2[a] * Pow2[n]}
<1>0. N \in Nat
  BY MiningAssumption DEF MiningAssumption
<1>1. /\ Pow2 \in [0..N -> Nat]
      /\ \A n \in 0..N : Pow2[n] = IF n = 0 THEN 1 ELSE 2 * Pow2[n - 1]
  BY Pow2Def
<1> HIDE DEF N
<1>2. 0 \in U
  <2> SUFFICES ASSUME a + 0 \in 0..N PROVE Pow2[a + 0] = Pow2[a] * Pow2[0]
    OBVIOUS
  <2>1. a + 0 = a /\ 0 \in 0..N /\ a \in 0..N
    BY <1>0
  <2>2. Pow2[0] = 1 /\ Pow2[a] \in Nat
    BY <2>1, <1>1
  <2> QED
    BY <2>1, <2>2
<1>3. ASSUME NEW n \in Nat, n \in U PROVE n + 1 \in U
  <2> SUFFICES ASSUME a + (n + 1) \in 0..N
               PROVE  Pow2[a + (n + 1)] = Pow2[a] * Pow2[n + 1]
    OBVIOUS
  <2>1. /\ a + n \in 0..N /\ (a + (n + 1)) - 1 = a + n /\ a + (n + 1) # 0
        /\ n \in 0..N /\ n + 1 \in 0..N /\ (n + 1) - 1 = n /\ n + 1 # 0 /\ a \in 0..N
    BY <1>0
  <2>2. Pow2[a + (n + 1)] = 2 * Pow2[a + n]
    BY <1>1, <2>1
  <2>3. Pow2[n + 1] = 2 * Pow2[n]
    BY <1>1, <2>1
  <2>4. Pow2[a] \in Nat /\ Pow2[n] \in Nat
    BY <2>1, <1>1
  <2>5. Pow2[a + n] = Pow2[a] * Pow2[n]
    BY <2>1, <1>3
  <2>6. \A x, y \in Nat : 2 * (x * y) = x * (2 * y)
    OBVIOUS
  <2> QED
    BY <2>2, <2>3, <2>4, <2>5, <2>6
<1> HIDE DEF U
<1>4. Nat \subseteq U
  BY <1>2, <1>3, StepInduction
<1> QED
  BY <1>0, <1>4 DEF U, N

(* A byte of which z bits in front are 0 is below 2^(BYTE - z).            *)
LEMMA ByteBelow ==
  ASSUME NEW b \in Nat, b < Pow2[BYTE], IdLen # 0
  PROVE  LET z == Cardinality({n \in 0..(BYTE - 1) : b < Pow2[n]})
         IN  z \in 0..BYTE /\ b < Pow2[BYTE - z]
<1> DEFINE N == BYTE * IdLen
           T == {n \in Nat : ~(n <= BYTE /\ b < Pow2[n])}
           zeros == {n \in 0..(BYTE - 1) : b < Pow2[n]}
<1>0. N \in Nat /\ BYTE \in Nat /\ BYTE <= N
  BY MiningAssumption DEF MiningAssumption
<1>1. PICK m \in 0..BYTE : b < Pow2[m] /\ \A n \in 0..(m - 1) : ~(b < Pow2[n])
  <2>1. BYTE \notin T
    BY <1>0
  <2>2. ~(Nat \subseteq T)
    BY <2>1, <1>0
  <2>3. PICK m \in Nat : m \notin T /\ \A n \in 0..(m - 1) : n \in T
    <3> HIDE DEF T
    <3> QED
      BY <2>2, Induction
  <2>4. m \in 0..BYTE /\ b < Pow2[m]
    BY <2>3
  <2>5. ASSUME NEW n \in 0..(m - 1) PROVE ~(b < Pow2[n])
    <3>1. n \in T /\ n <= BYTE
      BY <2>3, <2>4, <1>0
    <3> QED
      BY <3>1
  <2> QED
    BY <2>4, <2>5
<1>2. zeros = m..(BYTE - 1)
  <2>1. ASSUME NEW n \in m..(BYTE - 1) PROVE b < Pow2[n]
    <3>1. m \in 0..N /\ n \in 0..N /\ m <= n
      BY <1>0
    <3>2. Pow2[m] <= Pow2[n]
      BY <3>1, Pow2Grows
    <3>3. Pow2[m] \in Nat /\ Pow2[n] \in Nat
      BY <3>1, Pow2Def
    <3> QED
      BY <1>1, <3>2, <3>3
  <2>2. ASSUME NEW n \in 0..(BYTE - 1), b < Pow2[n] PROVE n \in m..(BYTE - 1)
    <3>1. n \notin 0..(m - 1)
      BY <1>1, <2>2
    <3> QED
      BY <3>1, <1>0
  <2>3. m..(BYTE - 1) \subseteq 0..(BYTE - 1)
    OBVIOUS
  <2> QED
    BY <2>1, <2>2, <2>3
<1>3. Cardinality(zeros) = BYTE - m
  <2>1. m \in Int /\ BYTE - 1 \in Int
    BY <1>0
  <2>2. Cardinality(m..(BYTE - 1)) =
          IF m > BYTE - 1 THEN 0 ELSE (BYTE - 1) - m + 1
    BY <2>1, FS_Interval
  <2> HIDE DEF zeros
  <2> QED
    BY <1>0, <1>2, <2>2
<1>4. BYTE - (BYTE - m) = m /\ BYTE - m \in 0..BYTE
  BY <1>0
<1> HIDE DEF zeros
<1>5. Cardinality(zeros) \in 0..BYTE /\ b < Pow2[BYTE - Cardinality(zeros)]
  BY <1>1, <1>3, <1>4
<1> QED
  BY <1>5 DEF zeros

(* The bytes of an id are numbers below 2^BYTE.                            *)
LEMMA IdBytes ==
  ASSUME NEW i \in Ids, NEW k \in 1..IdLen
  PROVE  i[k] \in Nat /\ i[k] < Pow2[BYTE] /\ Pow2[BYTE] \in Nat
<1>1. BYTE \in 0..(BYTE * IdLen)
  BY MiningAssumption DEF MiningAssumption
<1>2. Pow2[BYTE] \in Nat
  BY <1>1, Pow2Def
<1> QED
  BY <1>2 DEF Ids

(* IdValue is what its definition says: the recursion has a solution.      *)
LEMMA IdValueDef ==
  ASSUME id \in Ids
  PROVE  /\ IdValue \in [0..IdLen -> Nat]
         /\ IdValue[0] = 0
         /\ \A k \in 1..IdLen : IdValue[k] = IdValue[k - 1] * Pow2[BYTE] + id[k]
<1> DEFINE step == [p \in Nat \X Nat |->
                      IF p[1] \in 1..IdLen THEN p[2] * Pow2[BYTE] + id[p[1]] ELSE 0]
           Holds(f) == f = [k \in 0..IdLen |->
                              IF k = 0 THEN 0 ELSE f[k - 1] * Pow2[BYTE] + id[k]]
<1>0. IdLen \in Nat
  BY MiningAssumption DEF MiningAssumption
<1>1. step \in [Nat \X Nat -> Nat]
  <2>1. ASSUME NEW k \in 1..IdLen, NEW x \in Nat
        PROVE  x * Pow2[BYTE] + id[k] \in Nat
    <3>1. id[k] \in Nat /\ Pow2[BYTE] \in Nat
      BY IdBytes
    <3> QED
      BY <3>1
  <2> QED
    BY <2>1
<1>2. PICK f : Recursive(f, IdLen, Nat, 0, step)
  <2> HIDE DEF step
  <2> QED
    BY <1>0, <1>1, 0 \in Nat, Recursion
<1>3. Holds(f)
  <2>1. ASSUME NEW k \in 0..IdLen
        PROVE  f[k] = IF k = 0 THEN 0 ELSE f[k - 1] * Pow2[BYTE] + id[k]
    <3>1. CASE k = 0
      BY <1>2, <3>1 DEF Recursive
    <3>2. CASE k # 0
      <4>1. k - 1 \in 0..IdLen /\ k \in Nat /\ k \in 1..IdLen
        BY <1>0, <3>2
      <4>2. f[k - 1] \in Nat /\ f[k] = step[<<k, f[k - 1]>>]
        BY <1>2, <4>1, <3>2 DEF Recursive
      <4> QED
        BY <4>1, <4>2, <3>2
    <3> QED
      BY <3>1, <3>2
  <2> QED
    BY <2>1, <1>2 DEF Recursive
<1>4. Holds(CHOOSE g : Holds(g))
  <2> HIDE DEF Holds
  <2> QED
    BY <1>3, Zenon
<1>5. IdValue = CHOOSE g : Holds(g)
  BY Zenon DEF IdValue
<1>6. Holds(IdValue)
  BY <1>4, <1>5, Zenon
<1>7. ASSUME NEW k \in 0..IdLen
      PROVE  IdValue[k] = IF k = 0 THEN 0 ELSE IdValue[k - 1] * Pow2[BYTE] + id[k]
  <2>1. [n \in 0..IdLen |->
           IF n = 0 THEN 0 ELSE IdValue[n - 1] * Pow2[BYTE] + id[n]][k] =
         IF k = 0 THEN 0 ELSE IdValue[k - 1] * Pow2[BYTE] + id[k]
    OBVIOUS
  <2> QED
    BY <1>6, <2>1, Zenon
<1>8. IdValue \in [0..IdLen -> Nat]
  <2> DEFINE T == {n \in Nat : n \in 0..IdLen => IdValue[n] \in Nat}
  <2>1. 0 \in T
    BY <1>7, <1>0
  <2>2. ASSUME NEW n \in Nat, n \in T PROVE n + 1 \in T
    <3> SUFFICES ASSUME n + 1 \in 0..IdLen PROVE IdValue[n + 1] \in Nat
      OBVIOUS
    <3>1. n \in 0..IdLen /\ n + 1 \in 1..IdLen /\ n + 1 # 0 /\ (n + 1) - 1 = n
      BY <1>0
    <3>2. IdValue[n + 1] = IdValue[n] * Pow2[BYTE] + id[n + 1]
      BY <1>7, <3>1
    <3>3. id[n + 1] \in Nat /\ Pow2[BYTE] \in Nat
      BY <3>1, IdBytes
    <3>4. IdValue[n] \in Nat
      BY <3>1, <2>2
    <3> QED
      BY <3>2, <3>3, <3>4
  <2> HIDE DEF T
  <2>3. Nat \subseteq T
    BY <2>1, <2>2, StepInduction
  <2>4. \A n \in 0..IdLen : IdValue[n] \in Nat
    BY <2>3, <1>0 DEF T
  <2>5. DOMAIN IdValue = 0..IdLen /\ IdValue = [m \in DOMAIN IdValue |-> IdValue[m]]
    BY <1>6
  <2> QED
    BY <2>4, <2>5
<1> QED
  BY <1>0, <1>7, <1>8

(* While the bytes read are 0, so is their value.                          *)
LEMMA ZeroPrefix ==
  ASSUME id \in Ids, NEW n \in 0..IdLen, \A k \in 1..n : id[k] = 0
  PROVE  IdValue[n] = 0
<1> DEFINE T == {k \in Nat : k \in 0..n => IdValue[k] = 0}
<1>0. IdLen \in Nat
  BY MiningAssumption DEF MiningAssumption
<1>1. 0 \in T
  BY IdValueDef
<1>2. ASSUME NEW k \in Nat, k \in T PROVE k + 1 \in T
  <2> SUFFICES ASSUME k + 1 \in 0..n PROVE IdValue[k + 1] = 0
    OBVIOUS
  <2>1. k \in 0..n /\ k + 1 \in 1..n /\ k + 1 \in 1..IdLen /\ (k + 1) - 1 = k
    BY <1>0
  <2>2. IdValue[k + 1] = IdValue[k] * Pow2[BYTE] + id[k + 1]
    BY <2>1, IdValueDef
  <2>3. IdValue[k] = 0 /\ id[k + 1] = 0 /\ Pow2[BYTE] \in Nat
    BY <1>2, <2>1, IdBytes
  <2> QED
    BY <2>2, <2>3
<1> HIDE DEF T
<1>3. Nat \subseteq T
  BY <1>1, <1>2, StepInduction
<1> QED
  BY <1>3 DEF T

(* Each further byte raises the power of 2 the value lies below by BYTE.   *)
LEMMA ValueBelow ==
  ASSUME id \in Ids, NEW n \in 0..IdLen, NEW m \in Nat,
         NEW j \in Nat, n + j <= IdLen,
         m + BYTE * (IdLen - n) <= BYTE * IdLen, IdValue[n] < Pow2[m]
  PROVE  IdValue[n + j] < Pow2[m + BYTE * j]
<1> DEFINE N == BYTE * IdLen
           T == {k \in Nat : n + k <= IdLen => IdValue[n + k] < Pow2[m + BYTE * k]}
<1>0. IdLen \in Nat /\ BYTE \in Nat /\ N \in Nat
  BY MiningAssumption DEF MiningAssumption
<1>1. 0 \in T
  BY <1>0
<1>2. ASSUME NEW k \in Nat, k \in T PROVE k + 1 \in T
  <2> SUFFICES ASSUME n + (k + 1) <= IdLen
               PROVE  IdValue[n + (k + 1)] < Pow2[m + BYTE * (k + 1)]
    OBVIOUS
  <2> DEFINE x == m + BYTE * k
             v == IdValue[n + k]
             b == id[n + (k + 1)]
  <2>1. /\ n + k \in 0..IdLen /\ n + (k + 1) \in 1..IdLen
        /\ (n + (k + 1)) - 1 = n + k
    BY <1>0
  <2>2. IdValue[n + (k + 1)] = v * Pow2[BYTE] + b
    BY <2>1, IdValueDef
  <2>3. v \in Nat /\ v < Pow2[x]
    BY <2>1, <1>2, IdValueDef
  <2>4. b \in Nat /\ b < Pow2[BYTE] /\ Pow2[BYTE] \in Nat
    BY <2>1, IdBytes
  <2>5. x \in Nat /\ m + BYTE * (k + 1) = x + BYTE /\ x + BYTE <= N
    <3>1. \A c, d, e \in Nat : d <= e => c * d \in Nat /\ c * d <= c * e
      OBVIOUS
    <3>2. k + 1 \in Nat /\ IdLen - n \in Nat /\ k + 1 <= IdLen - n
      BY <1>0
    <3>3. BYTE * (k + 1) \in Nat /\ BYTE * (k + 1) <= BYTE * (IdLen - n) /\ BYTE * k \in Nat
      BY <1>0, <3>1, <3>2
    <3>4. BYTE * (k + 1) = BYTE * k + BYTE
      BY <1>0
    <3>5. BYTE * (IdLen - n) \in Nat
      BY <1>0, <3>1, <3>2
    <3> QED
      BY <1>0, <3>3, <3>4, <3>5
  <2>6. Pow2[x + BYTE] = Pow2[x] * Pow2[BYTE]
    BY <2>5, <1>0, Pow2Sum
  <2>7. Pow2[x] \in Nat
    <3>1. x \in 0..N
      BY <2>5, <1>0
    <3> QED
      BY <3>1, Pow2Def
  <2>8. \A p, q, c, d \in Nat : c < p /\ d < q => c * q + d < p * q
    <3> SUFFICES ASSUME NEW p \in Nat, NEW q \in Nat, NEW c \in Nat, NEW d \in Nat,
                        c < p, d < q
                 PROVE  c * q + d < p * q
      OBVIOUS
    <3>1. PICK r \in Nat : p = (c + 1) + r
      <4>1. p - (c + 1) \in Nat /\ p = (c + 1) + (p - (c + 1))
        OBVIOUS
      <4> QED
        BY <4>1
    <3>2. p * q = c * q + q + r * q
      BY <3>1
    <3>3. r * q \in Nat /\ c * q \in Nat
      OBVIOUS
    <3> QED
      BY <3>2, <3>3
  <2> HIDE DEF x, v, b
  <2> QED
    BY <2>2, <2>3, <2>4, <2>5, <2>6, <2>7, <2>8
<1> HIDE DEF T
<1>3. Nat \subseteq T
  BY <1>1, <1>2, StepInduction
<1> QED
  BY <1>3 DEF T

(* What leading_zero_bits() counts is what the value of the id lies below. *)
LEMMA LeadingZeros ==
  ASSUME id \in Ids
  PROVE  /\ leading_zero_bits(id) \in 0..(BYTE * IdLen)
         /\ IdValue[IdLen] < Pow2[BYTE * IdLen - leading_zero_bits(id)]
<1> DEFINE N == BYTE * IdLen
           First(k) == id[k] # 0 /\ \A j \in 1..(k - 1) : id[j] = 0
<1>0. IdLen \in Nat /\ BYTE \in Nat /\ N \in Nat
  BY MiningAssumption DEF MiningAssumption
<1>1. CASE \A k \in 1..IdLen : id[k] = 0
  <2>1. leading_zero_bits(id) = N
    BY <1>1 DEF leading_zero_bits
  <2>2. IdValue[IdLen] = 0
    BY <1>0, <1>1, ZeroPrefix
  <2>3. N - N = 0 /\ 0 \in 0..N /\ Pow2[0] = 1
    BY <1>0, Pow2Def
  <2> QED
    BY <1>0, <2>1, <2>2, <2>3
<1>2. CASE ~ \A k \in 1..IdLen : id[k] = 0
  <2> DEFINE T == {k \in Nat : ~(k \in 1..IdLen /\ id[k] # 0)}
             first == CHOOSE k \in 1..IdLen : First(k)
  <2>1. \E k \in 1..IdLen : First(k)
    <3>1. ~(Nat \subseteq T)
      BY <1>0, <1>2
    <3>2. PICK k \in Nat : k \notin T /\ \A j \in 0..(k - 1) : j \in T
      <4> HIDE DEF T
      <4> QED
        BY <3>1, Induction
    <3>3. k \in 1..IdLen /\ id[k] # 0
      BY <3>2
    <3>4. ASSUME NEW j \in 1..(k - 1) PROVE id[j] = 0
      <4>1. j \in 0..(k - 1) /\ j \in 1..IdLen
        BY <3>3, <1>0
      <4>2. j \in T
        BY <4>1, <3>2
      <4> QED
        BY <4>1, <4>2
    <3> QED
      BY <3>3, <3>4
  <2>2. first \in 1..IdLen /\ First(first)
    <3> HIDE DEF First
    <3> QED
      BY <2>1
  <2> DEFINE z == Cardinality({n \in 0..(BYTE - 1) : id[first] < Pow2[n]})
             m == BYTE - z
  <2>3. leading_zero_bits(id) = BYTE * (first - 1) + z
    BY <1>2, Zenon DEF leading_zero_bits
  <2> HIDE DEF first
  <2>4. z \in 0..BYTE /\ id[first] < Pow2[m]
    <3>1. id[first] \in Nat /\ id[first] < Pow2[BYTE]
      BY <2>2, IdBytes
    <3>2. IdLen # 0
      BY <2>2
    <3> QED
      BY <3>1, <3>2, ByteBelow
  <2> HIDE DEF z
  <2>5. IdValue[first - 1] = 0
    <3>1. first - 1 \in 0..IdLen /\ \A k \in 1..(first - 1) : id[k] = 0
      BY <2>2, <1>0
    <3> QED
      BY <3>1, ZeroPrefix
  <2>6. IdValue[first] = id[first]
    <3>1. IdValue[first] = IdValue[first - 1] * Pow2[BYTE] + id[first]
      BY <2>2, IdValueDef
    <3>2. id[first] \in Nat /\ Pow2[BYTE] \in Nat
      BY <2>2, IdBytes
    <3> QED
      BY <3>1, <3>2, <2>5
  <2>7. /\ first \in 0..IdLen /\ IdLen - first \in Nat
        /\ first + (IdLen - first) = IdLen /\ m \in Nat /\ m <= BYTE
    BY <1>0, <2>2, <2>4
  <2>8. /\ N = BYTE * (first - 1) + BYTE + BYTE * (IdLen - first)
        /\ BYTE * (first - 1) \in Nat /\ BYTE * (IdLen - first) \in Nat
    <3>1. \A x, a, b \in Nat : x * (a + 1 + b) = x * a + x + x * b /\ x * a \in Nat
      OBVIOUS
    <3>2. first - 1 \in Nat /\ (first - 1) + 1 + (IdLen - first) = IdLen
      BY <1>0, <2>2
    <3>3. /\ BYTE * ((first - 1) + 1 + (IdLen - first))
             = BYTE * (first - 1) + BYTE + BYTE * (IdLen - first)
          /\ BYTE * (first - 1) \in Nat /\ BYTE * (IdLen - first) \in Nat
      BY <1>0, <2>7, <3>1, <3>2
    <3> QED
      BY <3>2, <3>3
  <2> HIDE DEF N
  <2>9. IdValue[first + (IdLen - first)] < Pow2[m + BYTE * (IdLen - first)]
    <3>1. IdValue[first] < Pow2[m]
      BY <2>4, <2>6
    <3>2. m + BYTE * (IdLen - first) <= BYTE * IdLen
      BY <1>0, <2>7, <2>8 DEF N
    <3>3. first + (IdLen - first) <= IdLen
      BY <2>7, <1>0
    <3> HIDE DEF m
    <3> QED
      BY <3>1, <3>2, <3>3, <2>7, ValueBelow
  <2>10. N - leading_zero_bits(id) = m + BYTE * (IdLen - first)
    BY <1>0, <2>3, <2>4, <2>8
  <2>11. leading_zero_bits(id) \in 0..N
    BY <1>0, <2>3, <2>4, <2>8
  <2> QED
    BY <2>7, <2>9, <2>10, <2>11 DEF N
<1> QED
  BY <1>1, <1>2

(* The id that mine() returns meets its target: no step after the test     *)
(* changes the one or the other.                                           *)
MinedInv == pc = "mined" => id \in Ids /\ leading_zero_bits(id) >= difficulty

(* A mined id lies below 2^(bits - difficulty), whatever the width of a    *)
(* byte, the length of an id and the target.                               *)
THEOREM MinedIsBelowTarget == Spec => []MinedBelowTarget
<1>1. Init => MinedInv
  BY DEF Init, MinedInv
<1>2. MinedInv /\ [Next]_vars => MinedInv'
  <2> SUFFICES ASSUME MinedInv, [Next]_vars, pc' = "mined"
               PROVE  (id \in Ids)' /\ leading_zero_bits(id') >= difficulty'
    BY DEF MinedInv
  <2>1. ASSUME NEW i \in Ids, Mined(i)
        PROVE  (id \in Ids)' /\ leading_zero_bits(id') >= difficulty'
    BY <2>1 DEF Mined, call, Ids
  <2>2. CASE UNCHANGED vars
    BY <2>2 DEF MinedInv, vars, call, Ids
  <2> QED
    BY <2>1, <2>2 DEF Next, Call, mine, GiveUp, NextNonce, Return, Tick, SetOn, SetBack
<1>3. TypeOK /\ MinedInv => MinedBelowTarget
  <2> SUFFICES ASSUME TypeOK, MinedInv, pc = "mined"
               PROVE  IdValue[IdLen] < Pow2[BYTE * IdLen - difficulty]
    BY DEF MinedBelowTarget
  <2> DEFINE N == BYTE * IdLen
             bits == leading_zero_bits(id)
  <2>1. id \in Ids /\ bits >= difficulty /\ difficulty \in Nat
    BY DEF MinedInv, TypeOK
  <2>2. bits \in 0..N /\ IdValue[IdLen] < Pow2[N - bits]
    BY <2>1, LeadingZeros
  <2>3. N \in Nat /\ IdLen \in Nat
    BY MiningAssumption DEF MiningAssumption
  <2> HIDE DEF bits
  <2>4. N - bits \in 0..N /\ N - difficulty \in 0..N /\ N - bits <= N - difficulty
    <3> HIDE DEF N
    <3> QED
      BY <2>1, <2>2, <2>3
  <2>5. /\ Pow2[N - bits] <= Pow2[N - difficulty]
        /\ Pow2[N - bits] \in Nat /\ Pow2[N - difficulty] \in Nat
    BY <2>4, Pow2Grows, Pow2Def
  <2>6. IdValue[IdLen] \in Nat
    BY <2>1, <2>3, IdValueDef
  <2> HIDE DEF N
  <2>7. IdValue[IdLen] < Pow2[N - difficulty]
    BY <2>2, <2>5, <2>6
  <2> QED
    BY <2>7 DEF N
<1>4. QED
  BY <1>1, <1>2, <1>3, MiningTyping, PTL DEF Spec
=============================================================================
