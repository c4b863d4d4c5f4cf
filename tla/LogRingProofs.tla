--------------------------- MODULE LogRingProofs ----------------------------
(***************************************************************************)
(* Theorems about LogRing, for any threads, capacity and number of lines:  *)
(* the ring is the tail of what was pushed, and one thread installs it.    *)
(***************************************************************************)
EXTENDS LogRing, TLAPS

(* Every variable keeps its type.                                          *)
LEMMA RingTyped ==
  ASSUME RingTypeOK, [Next]_vars
  PROVE  RingTypeOK'
<1> USE RingAssumption DEF RingAssumption, RingTypeOK, LogTypeOK, Lines, Levels
<1>0. \A t \in Threads : NoLine \in Lines
  BY DEF NoLine
<1>1. ASSUME NEW t \in Threads, Start(t)
      PROVE  RingTypeOK'
  BY <1>1 DEF Start, Move, logVars
<1>2. ASSUME NEW t \in Threads, Install(t)
      PROVE  RingTypeOK'
  BY <1>2 DEF Install, Move, ClaimLogger, LoggerClaimed
<1>3. ASSUME NEW t \in Threads, InstallLevel(t)
      PROVE  RingTypeOK'
  BY <1>3 DEF InstallLevel, Move, FinishLogger
<1>4. ASSUME NEW t \in Threads, NEW level, Stamp(t, level)
      PROVE  RingTypeOK'
  <2>1. [by |-> t, n |-> count[t]] \in Lines
    OBVIOUS
  <2>2. count[t] + 1 \in 0..MaxLines
    BY <1>4 DEF Stamp
  <2> QED
    BY <1>4, <2>1, <2>2 DEF Stamp, Move, logVars
<1>5. ASSUME NEW t \in Threads, Push(t)
      PROVE  RingTypeOK'
  <2>1. line[t] \in Lines
    OBVIOUS
  <2>2. pushed' \in Seq(Lines)
    BY <1>5, <2>1 DEF Push
  <2>3. LOG_RING' \in Seq(Lines)
    <3> HIDE DEF Lines
    <3>1. CASE Len(LOG_RING) >= LOG_RING_CAP
      <4> DEFINE k == Len(LOG_RING) - LOG_RING_CAP + 2
                 rest == SubSeq(LOG_RING, k, Len(LOG_RING))
      <4>1. Len(LOG_RING) \in Nat /\ k \in Nat \ {0}
        BY <3>1
      <4>2. rest \in Seq(Lines)
        BY <4>1
      <4>3. LOG_RING' = Append(rest, line[t])
        BY <1>5, <3>1 DEF Push, Pushed
      <4> HIDE DEF rest
      <4> QED
        BY <2>1, <4>2, <4>3
    <3>2. CASE ~(Len(LOG_RING) >= LOG_RING_CAP)
      BY <1>5, <2>1, <3>2 DEF Push, Pushed
    <3> QED
      BY <3>1, <3>2
  <2>4. at' \in [Threads -> {"out", "install", "level", "push"}]
        /\ line' \in [Threads -> Lines]
    BY <1>5, <1>0 DEF Push, Move
  <2> QED
    BY <1>5, <2>2, <2>3, <2>4 DEF Push, logVars
<1>6. ASSUME NEW on \in BOOLEAN, SetDebugLogs(on)
      PROVE  RingTypeOK'
  BY <1>6 DEF SetDebugLogs, set_debug_logs
<1>7. CASE UNCHANGED vars
  BY <1>7 DEF vars, logVars
<1> QED
  BY <1>1, <1>2, <1>3, <1>4, <1>5, <1>6, <1>7 DEF Next, PanicStamp

LEMMA RingTypedInit == Init => RingTypeOK
<1> SUFFICES ASSUME Init PROVE RingTypeOK
  OBVIOUS
<1>1. \A t \in Threads : NoLine \in Lines
  BY RingAssumption DEF RingAssumption, NoLine, Lines
<1>2. LogTypeOK
  BY DEF Init, LogInit, LogTypeOK, Levels
<1> QED
  BY <1>1, <1>2, RingAssumption DEF RingAssumption, Init, RingTypeOK

(* The ring and the log keep their types, for any threads and capacity.    *)
THEOREM RingTyping == Spec => []RingTypeOK
<1>1. RingTypeOK /\ [Next]_vars => RingTypeOK'
  BY RingTyped
<1> QED
  BY RingTypedInit, <1>1, PTL DEF Spec

-----------------------------------------------------------------------------
(* The tail of a sequence from an index on.                                *)
LEMMA TailFacts ==
  ASSUME NEW S, NEW s \in Seq(S), NEW m \in 1..(Len(s) + 1)
  PROVE  /\ SubSeq(s, m, Len(s)) \in Seq(S)
         /\ Len(SubSeq(s, m, Len(s))) = Len(s) - m + 1
         /\ \A i \in 1..Len(SubSeq(s, m, Len(s))) : SubSeq(s, m, Len(s))[i] = s[m + i - 1]
<1>1. Len(s) \in Nat /\ m \in Nat \ {0} /\ m <= Len(s) + 1
  OBVIOUS
<1> QED
  BY <1>1

(* A push drops the oldest line of a full ring and keeps the tail.         *)
LEMMA PushKeepsTail ==
  ASSUME RingTypeOK, RingIsRecent, NEW l \in Lines,
         LOG_RING' = Pushed(LOG_RING, l), pushed' = Append(pushed, l)
  PROVE  RingIsRecent'
<1> DEFINE N == Len(pushed)
           C == LOG_RING_CAP
<1>1. N \in Nat /\ C \in Nat \ {0} /\ pushed \in Seq(Lines)
  BY RingAssumption DEF RingAssumption, RingTypeOK
<1>2. /\ pushed' \in Seq(Lines) /\ Len(pushed') = N + 1
      /\ \A i \in 1..N : pushed'[i] = pushed[i]
      /\ pushed'[N + 1] = l
  BY <1>1
<1>3. Oldest \in 1..(N + 1) /\ Oldest' \in 1..(N + 1)
  BY <1>1, <1>2 DEF Oldest
<1>4. /\ LOG_RING \in Seq(Lines) /\ Len(LOG_RING) = N - Oldest + 1
      /\ \A i \in 1..Len(LOG_RING) : LOG_RING[i] = pushed[Oldest + i - 1]
  BY <1>1, <1>3, TailFacts DEF RingIsRecent
<1> DEFINE new == SubSeq(pushed', Oldest', N + 1)
<1>5. /\ new \in Seq(Lines) /\ Len(new) = N + 2 - Oldest'
      /\ \A i \in 1..Len(new) : new[i] = pushed'[Oldest' + i - 1]
  <2>1. Oldest' \in 1..(Len(pushed') + 1) /\ N + 1 = Len(pushed')
    BY <1>1, <1>2, <1>3
  <2>2. Len(pushed') - Oldest' + 1 = N + 2 - Oldest'
    BY <1>1, <2>1
  <2> DEFINE p == pushed'
             m == Oldest'
  <2>3. new = SubSeq(p, m, Len(p))
    BY <2>1
  <2>4. p \in Seq(Lines) /\ m \in 1..(Len(p) + 1)
    BY <1>2, <2>1
  <2> HIDE DEF new, p, m
  <2>5. /\ new \in Seq(Lines) /\ Len(new) = Len(p) - m + 1
        /\ \A i \in 1..Len(new) : new[i] = p[m + i - 1]
    BY <2>3, <2>4, TailFacts
  <2> QED
    BY <2>2, <2>5 DEF p, m
<1>6. CASE N >= C
  <2>1. Len(LOG_RING) = C /\ Oldest' = Oldest + 1 /\ Oldest' = N - C + 2
    BY <1>1, <1>2, <1>4, <1>6 DEF Oldest
  <2> DEFINE rest == SubSeq(LOG_RING, 2, C)
  <2>2. /\ rest \in Seq(Lines) /\ Len(rest) = C - 1
        /\ \A i \in 1..(C - 1) : rest[i] = LOG_RING[i + 1]
    BY <1>1, <1>4, <2>1
  <2>3. LOG_RING' = Append(rest, l)
    <3>1. Len(LOG_RING) >= C /\ Len(LOG_RING) - C + 2 = 2
      BY <1>1, <2>1
    <3> QED
      BY <2>1, <3>1 DEF Pushed
  <2> HIDE DEF rest, new
  <2>4. /\ LOG_RING' \in Seq(Lines) /\ Len(LOG_RING') = C
        /\ \A i \in 1..(C - 1) : LOG_RING'[i] = rest[i]
        /\ LOG_RING'[C] = l
    BY <1>1, <2>2, <2>3
  <2>5. Len(new) = C
    BY <1>1, <1>5, <2>1
  <2>6. ASSUME NEW i \in 1..C
        PROVE  LOG_RING'[i] = new[i]
    <3>1. new[i] = pushed'[N - C + 1 + i]
      <4>1. new[i] = pushed'[Oldest' + i - 1]
        BY <1>5, <2>5
      <4>2. Oldest' + i - 1 = N - C + 1 + i
        BY <1>1, <2>1
      <4> QED
        BY <4>1, <4>2
    <3>2. CASE i = C
      <4>1. N - C + 1 + i = N + 1
        BY <1>1, <3>2
      <4> QED
        BY <1>2, <2>4, <3>1, <3>2, <4>1
    <3>3. CASE i # C
      <4>1. i \in 1..(C - 1) /\ i + 1 \in 1..C /\ N - C + 1 + i \in 1..N
        BY <1>1, <1>6, <3>3
      <4>2. LOG_RING'[i] = LOG_RING[i + 1]
        BY <2>2, <2>4, <4>1
      <4>3. LOG_RING[i + 1] = pushed[Oldest + (i + 1) - 1]
        BY <1>4, <2>1, <4>1
      <4>4. Oldest + (i + 1) - 1 = N - C + 1 + i
        BY <1>1, <1>3, <2>1
      <4> QED
        BY <1>2, <3>1, <4>1, <4>2, <4>3, <4>4
    <3> QED
      BY <3>2, <3>3
  <2>7. LOG_RING' = new
    BY <1>5, <2>4, <2>5, <2>6
  <2> QED
    BY <1>2, <2>7 DEF RingIsRecent, new
<1>7. CASE ~(N >= C)
  <2>1. Oldest = 1 /\ Oldest' = 1 /\ Len(LOG_RING) = N
    BY <1>1, <1>2, <1>4, <1>7 DEF Oldest
  <2>2. LOG_RING' = Append(LOG_RING, l)
    BY <1>1, <1>7, <2>1 DEF Pushed
  <2> HIDE DEF new
  <2>3. /\ LOG_RING' \in Seq(Lines) /\ Len(LOG_RING') = N + 1
        /\ \A i \in 1..N : LOG_RING'[i] = LOG_RING[i]
        /\ LOG_RING'[N + 1] = l
    BY <1>1, <1>4, <2>1, <2>2
  <2>4. ASSUME NEW i \in 1..(N + 1)
        PROVE  LOG_RING'[i] = new[i]
    <3>1. new[i] = pushed'[i]
      BY <1>1, <1>5, <2>1
    <3>2. CASE i = N + 1
      BY <1>2, <2>3, <3>1, <3>2
    <3>3. CASE i # N + 1
      <4>1. i \in 1..N
        BY <1>1, <3>3
      <4> QED
        BY <1>2, <1>4, <2>1, <2>3, <3>1, <4>1
    <3> QED
      BY <3>2, <3>3
  <2>5. LOG_RING' = new
    BY <1>1, <1>5, <2>1, <2>3, <2>4
  <2> QED
    BY <1>2, <2>5 DEF RingIsRecent, new
<1> QED
  BY <1>6, <1>7

LEMMA RingInit == Init => RingIsRecent
<1> SUFFICES ASSUME Init PROVE RingIsRecent
  OBVIOUS
<1>1. pushed = <<>> /\ LOG_RING = <<>> /\ Len(pushed) = 0
  BY DEF Init
<1>2. Oldest = 1
  BY <1>1, RingAssumption DEF Oldest, RingAssumption
<1>3. SubSeq(<<>>, 1, 0) = <<>>
  OBVIOUS
<1> QED
  BY <1>1, <1>2, <1>3 DEF RingIsRecent

LEMMA RingStep ==
  ASSUME RingTypeOK, RingIsRecent, [Next]_vars
  PROVE  RingIsRecent'
<1>1. CASE UNCHANGED <<LOG_RING, pushed>>
  BY <1>1 DEF RingIsRecent, Oldest
<1>2. ASSUME NEW t \in Threads, Push(t)
      PROVE  RingIsRecent'
  <2>1. line[t] \in Lines
    BY DEF RingTypeOK
  <2> QED
    BY <1>2, <2>1, PushKeepsTail DEF Push
<1> QED
  BY <1>1, <1>2 DEF Next, vars, Start, Install, InstallLevel, Stamp, PanicStamp,
     SetDebugLogs

(* The ring is the newest lines, in the order of its lock, for any threads *)
(* and any capacity.                                                       *)
THEOREM RingIsTail == Spec => []RingIsRecent
<1>1. RingTypeOK /\ RingIsRecent /\ [Next]_vars => RingIsRecent'
  BY RingStep
<1> QED
  BY RingInit, RingTyping, <1>1, PTL DEF Spec

-----------------------------------------------------------------------------
(* Whoever is about to set the level has claimed the logger.               *)
InstallerInv == OneInstaller /\ \A t \in Threads : at[t] = "level" => LOGGER_SET

LEMMA InstallerStep ==
  ASSUME RingTypeOK, InstallerInv, [Next]_vars
  PROVE  InstallerInv'
<1> USE DEF InstallerInv, OneInstaller
<1>0. at \in [Threads -> {"out", "install", "level", "push"}]
  BY DEF RingTypeOK
<1>1. ASSUME NEW t \in Threads, Install(t)
      PROVE  InstallerInv'
  BY <1>0, <1>1 DEF Install, Move, ClaimLogger, LoggerClaimed
<1>2. ASSUME NEW t \in Threads, NEW to \in {"out", "install", "push"}, NEW from,
             Move(t, from, to), UNCHANGED LOGGER_SET
      PROVE  InstallerInv'
  BY <1>0, <1>2 DEF Move
<1>3. CASE UNCHANGED <<at, LOGGER_SET>>
  BY <1>3
<1>4. ASSUME NEW t \in Threads, Start(t) \/ InstallLevel(t) \/ Push(t)
      PROVE  InstallerInv'
  BY <1>2, <1>4 DEF Start, InstallLevel, Push, FinishLogger, logVars
<1>5. ASSUME NEW t \in Threads, NEW level, Stamp(t, level)
      PROVE  InstallerInv'
  BY <1>2, <1>5 DEF Stamp, logVars
<1> QED
  BY <1>1, <1>3, <1>4, <1>5
  DEF Next, PanicStamp, SetDebugLogs, set_debug_logs, vars, logVars

(* One thread at most installs the logger, for any number of threads.      *)
THEOREM InstallerIsOne == Spec => []OneInstaller
<1>1. Init => InstallerInv
  BY DEF Init, InstallerInv, OneInstaller
<1>2. RingTypeOK /\ InstallerInv /\ [Next]_vars => InstallerInv'
  BY InstallerStep
<1>3. InstallerInv => OneInstaller
  BY DEF InstallerInv
<1> QED
  BY <1>1, <1>2, <1>3, RingTyping, PTL DEF Spec
=============================================================================
