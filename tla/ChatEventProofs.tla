-------------------------- MODULE ChatEventProofs ---------------------------
(***************************************************************************)
(* Theorems about ChatEvent, for every key, text, tag, number and nonce:   *)
(* what verifies was signed, what was signed verifies, and two events have *)
(* no canonical form in common.                                            *)
(*                                                                         *)
(* The way of writing a value is a function, here a code.  A code can be   *)
(* read back (Delimited) when no text starts with the codes of two values. *)
(* That property passes from the characters that escape() writes to quoted *)
(* strings, to the tags and to the list of them, by induction over lengths;*)
(* numbers end at a comma because they have none, and the key, which is    *)
(* not escaped, at a quote because hex has none.  Induction is that of the *)
(* well-founded order on numbers, over a set; a recursive function is shown*)
(* to exist before its defining equation is used.                          *)
(***************************************************************************)
EXTENDS ChatEvent, SequenceTheorems, WellFoundedInduction, TLAPS

-----------------------------------------------------------------------------
(* Induction and recursion over the numbers.                               *)

(* The order by which the numbers are induced over.                        *)
LessThan == {p \in Nat \X Nat : p[1] < p[2]}

(* Every number starts finitely many descents.                             *)
LEMMA LessThanIsWellFounded == IsWellFoundedOn(LessThan, Nat)
<1>1. LessThan = OpToRel(<, Nat)
  BY Zenon DEF OpToRel, LessThan
<1> QED
  BY <1>1, NatLessThanWellFounded

(* Strong induction, over a set of numbers.                                *)
LEMMA Induction ==
  ASSUME NEW T,
         \A n \in Nat : (\A m \in 0..(n - 1) : m \in T) => n \in T
  PROVE  Nat \subseteq T
<1> SUFFICES ASSUME ~(Nat \subseteq T) PROVE FALSE
  OBVIOUS
<1> DEFINE U == Nat \ T
<1>1. PICK n \in U : \A m \in U : <<m, n>> \notin LessThan
  <2>1. U \subseteq Nat /\ U # {}
    OBVIOUS
  <2> HIDE DEF U
  <2> QED
    BY <2>1, WFMin, LessThanIsWellFounded
<1>2. ASSUME NEW m \in 0..(n - 1) PROVE m \in T
  <2>1. <<m, n>> \in LessThan
    BY DEF LessThan
  <2> QED
    BY <2>1, <1>1
<1> QED
  BY <1>1, <1>2

(* f is the recursive function that is base[n] on B and is computed from   *)
(* its value at pre[n] elsewhere.                                          *)
Recursive(f, S, B, base, step, pre) ==
  /\ f \in [Nat -> S]
  /\ \A n \in Nat : f[n] = IF n \in B THEN base[n] ELSE step[<<n, f[pre[n]]>>]

(* Such a function exists when pre[n] is below n: the CHOOSE by which TLA+ *)
(* defines a recursive function has something to choose.                   *)
LEMMA Recursion ==
  ASSUME NEW S, NEW B, NEW base \in [Nat -> S], NEW step \in [Nat \X S -> S],
         NEW pre \in [Nat -> Nat], \A n \in Nat \ B : pre[n] < n
  PROVE  \E f : Recursive(f, S, B, base, step, pre)
<1> DEFINE Right(f, k) == f[k] = IF k \in B THEN base[k] ELSE step[<<k, f[pre[k]]>>]
           Good(f, n) == f \in [0..n -> S] /\ \A k \in 0..n : Right(f, k)
<1>1. ASSUME NEW n \in Nat, NEW m \in Nat, NEW f, NEW g, Good(f, n), Good(g, m)
      PROVE  \A k \in 0..n : k <= m => f[k] = g[k]
  <2> DEFINE T == {k \in Nat : k <= n /\ k <= m => f[k] = g[k]}
  <2>1. ASSUME NEW k \in Nat, \A j \in 0..(k - 1) : j \in T
        PROVE  k \in T
    <3> SUFFICES ASSUME k <= n, k <= m PROVE f[k] = g[k]
      OBVIOUS
    <3>1. Right(f, k) /\ Right(g, k)
      <4>1. k \in 0..n /\ k \in 0..m
        OBVIOUS
      <4> QED
        BY <4>1, <1>1
    <3>2. CASE k \in B
      BY <3>1, <3>2
    <3>3. CASE k \notin B
      <4>1. pre[k] \in 0..(k - 1)
        BY <3>3
      <4>2. f[pre[k]] = g[pre[k]]
        BY <4>1, <2>1
      <4> QED
        BY <4>2, <3>1, <3>3
    <3> QED
      BY <3>2, <3>3
  <2> HIDE DEF T
  <2>2. Nat \subseteq T
    BY <2>1, Induction, Zenon
  <2> QED
    BY <2>2 DEF T
<1>2. \A n \in Nat : \E f : Good(f, n)
  <2> DEFINE T == {n \in Nat : \E f : Good(f, n)}
  <2>1. ASSUME NEW n \in Nat, \A m \in 0..(n - 1) : m \in T
        PROVE  n \in T
    <3>1. PICK g : n > 0 => Good(g, n - 1)
      <4>1. CASE n = 0
        BY <4>1
      <4>2. CASE n # 0
        <5>1. n - 1 \in 0..(n - 1)
          BY <4>2
        <5> QED
          BY <5>1, <2>1
      <4> QED
        BY <4>1, <4>2
    <3> DEFINE last == IF n \in B THEN base[n] ELSE step[<<n, g[pre[n]]>>]
               f == [k \in 0..n |-> IF k = n THEN last ELSE g[k]]
    <3>2. last \in S
      <4>1. CASE n \in B
        BY <4>1
      <4>2. CASE n \notin B
        <5>1. pre[n] \in 0..(n - 1)
          BY <4>2
        <5>2. g[pre[n]] \in S
          BY <5>1, <3>1
        <5> QED
          BY <4>2, <5>2
      <4> QED
        BY <4>1, <4>2
    <3>3. f \in [0..n -> S]
      BY <3>1, <3>2
    <3>4. ASSUME NEW k \in 0..n PROVE Right(f, k)
      <4>0. ASSUME k # n PROVE Right(g, k)
        <5>1. k \in 0..(n - 1) /\ n > 0
          BY <4>0
        <5> HIDE DEF Right
        <5> QED
          BY <5>1, <3>1
      <4>1. CASE k \in B
        <5>1. CASE k = n
          BY <4>1, <5>1
        <5>2. CASE k # n
          <6>1. Right(g, k)
            BY <4>0, <5>2
          <6> QED
            BY <4>1, <5>2, <6>1
        <5> QED
          BY <5>1, <5>2
      <4>2. CASE k \notin B
        <5>1. pre[k] \in 0..(k - 1)
          BY <4>2
        <5>2. f[pre[k]] = g[pre[k]]
          BY <5>1
        <5>3. CASE k = n
          BY <4>2, <5>2, <5>3
        <5>4. CASE k # n
          <6>1. Right(g, k)
            BY <4>0, <5>4
          <6> QED
            BY <4>2, <5>2, <5>4, <6>1
        <5> QED
          BY <5>3, <5>4
      <4> QED
        BY <4>1, <4>2
    <3>5. Good(f, n)
      BY <3>3, <3>4
    <3> QED
      BY <3>5
  <2> HIDE DEF T
  <2>2. Nat \subseteq T
    BY <2>1, Induction, Zenon
  <2> QED
    BY <2>2 DEF T
<1> DEFINE part(n) == CHOOSE f : Good(f, n)
           h == [n \in Nat |-> part(n)[n]]
<1>3. ASSUME NEW n \in Nat PROVE Good(part(n), n)
  BY <1>2
<1> HIDE DEF part
<1>4. ASSUME NEW n \in Nat PROVE h[n] \in S /\ h[n] = part(n)[n] /\ Right(part(n), n)
  <2>1. n \in 0..n
    OBVIOUS
  <2> QED
    BY <2>1, <1>3
<1>5. h \in [Nat -> S]
  BY <1>4
<1>6. ASSUME NEW n \in Nat
      PROVE  h[n] = IF n \in B THEN base[n] ELSE step[<<n, h[pre[n]]>>]
  <2>1. CASE n \in B
    BY <1>4, <2>1
  <2>2. CASE n \notin B
    <3>1. pre[n] \in 0..n /\ pre[n] \in Nat
      BY <2>2
    <3>2. part(n)[pre[n]] = part(pre[n])[pre[n]]
      <4>1. Good(part(n), n) /\ Good(part(pre[n]), pre[n])
        BY <1>3, <3>1
      <4>2. pre[n] <= pre[n]
        BY <3>1
      <4> HIDE DEF Good
      <4> QED
        BY <4>1, <4>2, <1>1, <3>1
    <3>3. h[pre[n]] = part(n)[pre[n]]
      BY <3>1, <3>2, <1>4
    <3> HIDE DEF h
    <3> QED
      BY <1>4, <2>2, <3>3
  <2> QED
    BY <2>1, <2>2
<1> HIDE DEF h
<1>7. Recursive(h, S, B, base, step, pre)
  BY <1>5, <1>6 DEF Recursive
<1> QED
  BY <1>7

(* Text: a sequence of code points.                                        *)
Str == Seq(Nat)

(* Induction by steps of one.                                              *)
LEMMA StepInduction ==
  ASSUME NEW T, 0 \in T, \A n \in Nat : n \in T => n + 1 \in T
  PROVE  Nat \subseteq T
<1>1. ASSUME NEW n \in Nat, \A m \in 0..(n - 1) : m \in T
      PROVE  n \in T
  <2>1. CASE n = 0
    BY <2>1
  <2>2. CASE n # 0
    <3>1. n - 1 \in 0..(n - 1) /\ n - 1 \in Nat /\ (n - 1) + 1 = n
      BY <2>2
    <3>2. (n - 1) + 1 \in T
      BY <3>1, <1>1
    <3> QED
      BY <3>1, <3>2
  <2> QED
    BY <2>1, <2>2
<1> QED
  BY <1>1, Induction, Zenon

-----------------------------------------------------------------------------
(* Sequences.                                                              *)

(* Strings under concatenation.                                            *)
LEMMA ConcatType == \A x, y \in Str : x \o y \in Str
  BY ConcatProperties DEF Str

(* The empty string is neutral.                                            *)
LEMMA ConcatNone == <<>> \in Str /\ \A x \in Str : x \o <<>> = x /\ <<>> \o x = x
  BY ConcatEmptySeq DEF Str

(* Concatenation is associative.                                           *)
LEMMA ConcatRight == \A x, y, z \in Str : (x \o y) \o z = x \o (y \o z)
  BY ConcatAssociative, SMTT(30) DEF Str

(* Of two concatenations that are equal, equally long fronts are equal.    *)
LEMMA Cancel ==
  ASSUME NEW S, NEW x \in Seq(S), NEW y \in Seq(S), NEW u \in Seq(S), NEW v \in Seq(S),
         x \o u = y \o v, Len(x) = Len(y)
  PROVE  x = y /\ u = v
<1>1. x = y
  <2>1. ASSUME NEW i \in 1..Len(x) PROVE x[i] = y[i]
    <3>1. (x \o u)[i] = x[i]
      BY <2>1
    <3>2. (y \o v)[i] = y[i]
      BY <2>1
    <3> QED
      BY <3>1, <3>2
  <2> QED
    BY <2>1, SeqEqual
<1>2. Len(u) = Len(v)
  <2>1. Len(x \o u) = Len(x) + Len(u) /\ Len(y \o v) = Len(y) + Len(v)
    BY ConcatProperties
  <2> QED
    BY <2>1
<1>3. ASSUME NEW i \in 1..Len(u) PROVE u[i] = v[i]
  <2>1. Len(x) + i \in 1..(Len(x) + Len(u)) /\ ~(Len(x) + i <= Len(x)) /\ (Len(x) + i) - Len(x) = i
    BY <1>2
  <2>2. (x \o u)[Len(x) + i] = u[i]
    <3>1. \A j \in 1..(Len(x) + Len(u)) :
            (x \o u)[j] = IF j <= Len(x) THEN x[j] ELSE u[j - Len(x)]
      BY ConcatProperties
    <3> QED
      BY <2>1, <3>1
  <2>3. (y \o v)[Len(x) + i] = v[i]
    <3>1. \A j \in 1..(Len(y) + Len(v)) :
            (y \o v)[j] = IF j <= Len(y) THEN y[j] ELSE v[j - Len(y)]
      BY ConcatProperties
    <3> QED
      BY <2>1, <1>2, <3>1
  <2> QED
    BY <2>2, <2>3
<1> QED
  BY <1>1, <1>2, <1>3, SeqEqual

(* A sequence that is not empty is its head followed by its tail.          *)
LEMMA HeadTail ==
  ASSUME NEW S, NEW s \in Seq(S), s # <<>>
  PROVE  /\ Head(s) \in S /\ Tail(s) \in Seq(S)
         /\ Len(s) = Len(Tail(s)) + 1
<1>1. Len(s) \in Nat
  BY LenProperties
<1>2. Len(Tail(s)) = Len(s) - 1
  BY HeadTailProperties
<1> QED
  BY <1>1, <1>2, HeadTailProperties

(* ... and it is put together from them.                                   *)
LEMMA Uncons ==
  ASSUME NEW S, NEW s \in Seq(S), s # <<>>
  PROVE  s = <<Head(s)>> \o Tail(s)
<1> DEFINE a == Head(s)
           r == Tail(s)
<1>1. /\ Len(s) \in Nat /\ Len(s) > 0 /\ s[1] = a /\ a \in S /\ r \in Seq(S)
      /\ Len(s) = Len(r) + 1 /\ Len(r) \in Nat
      /\ \A i \in 1..Len(r) : r[i] = s[i + 1]
  <2>1. a \in S /\ r \in Seq(S) /\ Len(s) = Len(r) + 1
    BY HeadTail
  <2>2. Len(s) \in Nat /\ Len(r) \in Nat
    BY <2>1, LenProperties
  <2>3. s[1] = a
    BY <2>1, <2>2
  <2>4. \A i \in 1..Len(r) : r[i] = s[i + 1]
    BY HeadTailProperties
  <2> QED
    BY <2>1, <2>2, <2>3, <2>4
<1> HIDE DEF a, r
<1>2. <<a>> \in Seq(S) /\ Len(<<a>>) = 1 /\ <<a>>[1] = a
  BY <1>1
<1>3. /\ <<a>> \o r \in Seq(S) /\ Len(<<a>> \o r) = 1 + Len(r)
      /\ \A i \in 1..(1 + Len(r)) : (<<a>> \o r)[i] = IF i <= 1 THEN <<a>>[i] ELSE r[i - 1]
  BY <1>1, <1>2, ConcatProperties
<1> DEFINE t == <<a>> \o r
<1> HIDE DEF t
<1>4. /\ t \in Seq(S) /\ Len(t) = Len(s)
      /\ \A i \in 1..Len(s) : t[i] = IF i <= 1 THEN a ELSE r[i - 1]
  <2>1. 1 + Len(r) = Len(s) /\ \A i \in 1..Len(s) : i <= 1 => i = 1
    BY <1>1
  <2> QED
    BY <1>2, <1>3, <2>1 DEF t
<1>5. ASSUME NEW i \in 1..Len(s) PROVE s[i] = t[i]
  <2>1. CASE i = 1
    BY <1>1, <1>4, <2>1
  <2>2. CASE i # 1
    <3>1. ~(i <= 1) /\ i - 1 \in 1..Len(r) /\ (i - 1) + 1 = i
      BY <1>1, <2>2
    <3> QED
      BY <1>1, <1>4, <3>1
  <2> QED
    BY <2>1, <2>2
<1>6. s = t
  BY <1>4, <1>5, SeqEqual
<1> QED
  BY <1>6 DEF t, a, r

-----------------------------------------------------------------------------
(* FlattenSeq.                                                             *)

(* f[i] is the concatenation of the first i elements of s.                 *)
Joins(f, s) ==
  /\ f \in [0..Len(s) -> Str]
  /\ f[0] = <<>>
  /\ \A i \in 1..Len(s) : f[i] = f[i - 1] \o s[i]

(* Two functions that concatenate the elements one by one agree.           *)
LEMMA PrefixesUnique ==
  ASSUME NEW s \in Seq(Str), NEW f, NEW g, Joins(f, s),
         NEW n \in Nat, \A i \in 1..n : g[i] = IF i = 1 THEN s[1] ELSE g[i - 1] \o s[i],
         n <= Len(s)
  PROVE  \A i \in 1..n : f[i] = g[i]
<1> DEFINE T == {i \in Nat : i \in 1..n => f[i] = g[i]}
<1>0. Len(s) \in Nat
  BY LenProperties
<1>1. 0 \in T
  OBVIOUS
<1>2. ASSUME NEW i \in Nat, i \in T PROVE i + 1 \in T
  <2> SUFFICES ASSUME i + 1 \in 1..n PROVE f[i + 1] = g[i + 1]
    OBVIOUS
  <2>1. i + 1 \in 1..Len(s) /\ (i + 1) - 1 = i
    BY <1>0
  <2>2. f[i + 1] = f[i] \o s[i + 1]
    BY <2>1 DEF Joins
  <2>3. CASE i = 0
    <3>1. s[1] \in Str
      BY <2>1, <2>3, ElementOfSeq
    <3>2. f[1] = <<>> \o s[1] /\ g[1] = s[1]
      <4>1. 1 \in 1..n /\ 1 \in 1..Len(s) /\ 1 - 1 = 0
        BY <2>1, <2>3
      <4>2. f[1] = f[1 - 1] \o s[1]
        BY <4>1 DEF Joins
      <4> QED
        BY <4>1, <4>2 DEF Joins
    <3> QED
      BY <3>1, <3>2, <2>3, ConcatNone
  <2>4. CASE i # 0
    <3>1. i \in 1..n /\ i + 1 # 1
      BY <2>4
    <3>2. f[i] = g[i]
      BY <3>1, <1>2
    <3>3. g[i + 1] = g[i] \o s[i + 1]
      BY <2>1, <3>1
    <3> QED
      BY <3>2, <3>3, <2>2
  <2> QED
    BY <2>3, <2>4
<1> HIDE DEF T
<1>3. Nat \subseteq T
  BY <1>1, <1>2, StepInduction
<1> QED
  BY <1>3 DEF T

(* Every sequence has its prefixes concatenated by some function.          *)
LEMMA PrefixesExist ==
  ASSUME NEW s \in Seq(Str)
  PROVE  \E f : Joins(f, s)
<1> DEFINE base == [n \in Nat |-> <<>>]
           pre == [n \in Nat |-> IF n = 0 THEN 0 ELSE n - 1]
           step == [p \in Nat \X Str |->
                      IF p[1] \in 1..Len(s) THEN p[2] \o s[p[1]] ELSE <<>>]
<1>0. Len(s) \in Nat
  BY LenProperties
<1>1. base \in [Nat -> Str] /\ pre \in [Nat -> Nat] /\ \A n \in Nat \ {0} : pre[n] < n
  BY DEF Str
<1>2. step \in [Nat \X Str -> Str]
  <2>1. ASSUME NEW x \in Str, NEW i \in 1..Len(s) PROVE x \o s[i] \in Str
    BY ElementOfSeq, ConcatType
  <2>2. <<>> \in Str
    BY DEF Str
  <2> QED
    BY <2>1, <2>2
<1>3. PICK f : Recursive(f, Str, {0}, base, step, pre)
  <2> HIDE DEF base, pre, step
  <2> QED
    BY <1>1, <1>2, Recursion
<1> USE DEF Recursive
<1> DEFINE g == [n \in 0..Len(s) |-> f[n]]
<1>4. g \in [0..Len(s) -> Str]
  BY <1>0, <1>3
<1>5. g[0] = <<>>
  <2>1. 0 \in 0..Len(s) /\ 0 \in Nat /\ 0 \in {0}
    BY <1>0
  <2>2. f[0] = base[0]
    BY <2>1, <1>3
  <2> QED
    BY <2>1, <2>2
<1>6. ASSUME NEW i \in 1..Len(s) PROVE g[i] = g[i - 1] \o s[i]
  <2>1. i \in Nat /\ i - 1 \in Nat /\ i \notin {0} /\ i \in 0..Len(s) /\ i - 1 \in 0..Len(s)
    BY <1>0
  <2>2. pre[i] = i - 1
    BY <2>1
  <2>3. f[i] = step[<<i, f[i - 1]>>]
    <3>1. f[i] = step[<<i, f[pre[i]]>>]
      <4> HIDE DEF pre, step, base
      <4> QED
        BY <2>1, <1>3
    <3> QED
      BY <2>2, <3>1
  <2>4. f[i - 1] \in Str
    BY <2>1, <1>3
  <2>5. step[<<i, f[i - 1]>>] = f[i - 1] \o s[i]
    BY <2>1, <2>4
  <2> QED
    BY <2>1, <2>3, <2>5
<1> QED
  BY <1>4, <1>5, <1>6 DEF Joins

(* FlattenSeq concatenates all the elements.                               *)
LEMMA FlattenIs ==
  ASSUME NEW s \in Seq(Str), NEW f, Joins(f, s)
  PROVE  FlattenSeq(s) = f[Len(s)]
<1> DEFINE Holds(g) == g = [i \in 1..Len(s) |->
                              IF i = 1 THEN s[i] ELSE g[i - 1] \o s[i]]
<1>0. Len(s) \in Nat
  BY LenProperties
<1>1. CASE Len(s) = 0
  <2>1. s = <<>>
    BY <1>1, EmptySeq
  <2>2. FlattenSeq(s) = s
    BY <1>1 DEF FlattenSeq
  <2> QED
    BY <1>1, <2>1, <2>2 DEF Joins
<1>2. CASE Len(s) # 0
  <2>1. FlattenSeq(s) = (CHOOSE g : Holds(g))[Len(s)]
    BY <1>2, Zenon DEF FlattenSeq
  <2>2. Holds([i \in 1..Len(s) |-> f[i]])
    <3> DEFINE g == [i \in 1..Len(s) |-> f[i]]
    <3>1. ASSUME NEW i \in 1..Len(s)
          PROVE  g[i] = IF i = 1 THEN s[i] ELSE g[i - 1] \o s[i]
      <4>1. f[i] = f[i - 1] \o s[i]
        BY DEF Joins
      <4>2. CASE i = 1
        <5>1. i - 1 = 0 /\ f[0] = <<>>
          BY <4>2 DEF Joins
        <5>2. s[i] \in Str
          BY ElementOfSeq
        <5>3. <<>> \o s[i] = s[i]
          BY <5>2, ConcatNone
        <5> QED
          BY <4>1, <4>2, <5>1, <5>3
      <4>3. CASE i # 1
        <5>1. i - 1 \in 1..Len(s)
          BY <4>3, <1>0
        <5> QED
          BY <4>1, <4>3, <5>1
      <4> QED
        BY <4>2, <4>3
    <3> HIDE DEF g
    <3>2. g = [i \in 1..Len(s) |-> g[i]]
      BY DEF g
    <3>3. g = [i \in 1..Len(s) |-> IF i = 1 THEN s[i] ELSE g[i - 1] \o s[i]]
      BY <3>1, <3>2
    <3> QED
      BY <3>3 DEF g
  <2>3. PICK g : g = (CHOOSE h : Holds(h)) /\ Holds(g)
    <3> HIDE DEF Holds
    <3> QED
      BY <2>2, Zenon
  <2>4. ASSUME NEW i \in 1..Len(s)
        PROVE  g[i] = IF i = 1 THEN s[1] ELSE g[i - 1] \o s[i]
    <3>1. [j \in 1..Len(s) |-> IF j = 1 THEN s[j] ELSE g[j - 1] \o s[j]][i] =
           IF i = 1 THEN s[i] ELSE g[i - 1] \o s[i]
      OBVIOUS
    <3>2. g[i] = IF i = 1 THEN s[i] ELSE g[i - 1] \o s[i]
      BY <2>3, <3>1, Zenon
    <3> QED
      BY <3>2
  <2>5. f[Len(s)] = g[Len(s)]
    <3>1. \A i \in 1..Len(s) : f[i] = g[i]
      BY <2>4, <1>0, PrefixesUnique
    <3>2. Len(s) \in 1..Len(s)
      BY <1>0, <1>2
    <3> QED
      BY <3>1, <3>2
  <2> QED
    BY <2>1, <2>3, <2>5
<1> QED
  BY <1>1, <1>2

(* FlattenSeq of nothing, of one string, and its type.                     *)
LEMMA FlattenBase ==
  /\ FlattenSeq(<<>>) = <<>>
  /\ \A x \in Str : FlattenSeq(<<x>>) = x
  /\ \A s \in Seq(Str) : FlattenSeq(s) \in Str
<1>1. FlattenSeq(<<>>) = <<>>
  <2>1. Len(<<>>) = 0
    OBVIOUS
  <2> QED
    BY <2>1 DEF FlattenSeq
<1>2. ASSUME NEW x \in Str PROVE FlattenSeq(<<x>>) = x
  <2> DEFINE f == [i \in 0..1 |-> IF i = 0 THEN <<>> ELSE x]
  <2>1. <<x>> \in Seq(Str) /\ Len(<<x>>) = 1 /\ <<x>>[1] = x
    OBVIOUS
  <2>2. <<>> \in Str /\ <<>> \o x = x
    BY ConcatNone
  <2>3. Joins(f, <<x>>)
    <3>1. f \in [0..1 -> Str] /\ f[0] = <<>> /\ f[1] = x
      BY <2>2
    <3>2. \A i \in 1..1 : i = 1 /\ i - 1 = 0
      OBVIOUS
    <3> HIDE DEF f
    <3> QED
      BY <2>1, <2>2, <3>1, <3>2 DEF Joins
  <2> QED
    BY <2>1, <2>3, FlattenIs
<1>3. ASSUME NEW s \in Seq(Str) PROVE FlattenSeq(s) \in Str
  <2>1. PICK f : Joins(f, s)
    BY PrefixesExist
  <2>2. Len(s) \in 0..Len(s)
    BY LenProperties
  <2>3. f[Len(s)] \in Str
    BY <2>1, <2>2 DEF Joins
  <2> QED
    BY <2>1, <2>3, FlattenIs
<1> QED
  BY <1>1, <1>2, <1>3

(* FlattenSeq of two sequences, one after the other.                       *)
LEMMA FlattenConcat ==
  ASSUME NEW s \in Seq(Str), NEW t \in Seq(Str)
  PROVE  FlattenSeq(s \o t) = FlattenSeq(s) \o FlattenSeq(t)
<1>1. PICK f : Joins(f, s)
  BY PrefixesExist
<1>2. PICK g : Joins(g, t)
  BY PrefixesExist
<1> DEFINE m == Len(s)
           n == Len(t)
           h == [i \in 0..(m + n) |-> IF i <= m THEN f[i] ELSE f[m] \o g[i - m]]
<1>3. /\ m \in Nat /\ n \in Nat /\ s \o t \in Seq(Str) /\ Len(s \o t) = m + n
      /\ \A i \in 1..(m + n) : (s \o t)[i] = IF i <= m THEN s[i] ELSE t[i - m]
  BY LenProperties, ConcatProperties
<1>4. /\ f \in [0..m -> Str] /\ f[0] = <<>> /\ \A i \in 1..m : f[i] = f[i - 1] \o s[i]
      /\ g \in [0..n -> Str] /\ g[0] = <<>> /\ \A i \in 1..n : g[i] = g[i - 1] \o t[i]
  BY <1>1, <1>2 DEF Joins
<1>5. /\ FlattenSeq(s) = f[m] /\ FlattenSeq(t) = g[n]
      /\ \A i \in 1..n : t[i] \in Str
  BY <1>1, <1>2, FlattenIs, ElementOfSeq
<1> HIDE DEF m, n
<1>6. m \in 0..m /\ f[m] \in Str
  BY <1>3, <1>4
<1>7. h \in [0..(m + n) -> Str]
  <2>1. ASSUME NEW i \in 0..(m + n) PROVE h[i] \in Str
    <3>1. CASE i <= m
      BY <3>1, <1>3, <1>4
    <3>2. CASE ~(i <= m)
      <4>1. i - m \in 0..n
        BY <1>3, <3>2
      <4>2. f[m] \o g[i - m] \in Str
        BY <1>4, <1>6, <4>1, ConcatType
      <4> QED
        BY <4>2, <3>2
    <3> QED
      BY <3>1, <3>2
  <2> QED
    BY <2>1
<1>8. ASSUME NEW i \in 1..(m + n) PROVE h[i] = h[i - 1] \o (s \o t)[i]
  <2>0. i \in 0..(m + n) /\ i - 1 \in 0..(m + n) /\ i \in Int
    BY <1>3
  <2>1. CASE i <= m
    <3>1. i \in 1..m /\ i - 1 <= m
      BY <1>3, <2>1
    <3>2. h[i] = f[i] /\ h[i - 1] = f[i - 1] /\ (s \o t)[i] = s[i]
      BY <1>3, <2>0, <3>1
    <3> QED
      BY <1>4, <3>1, <3>2
  <2>2. CASE ~(i <= m)
    <3>1. i - m \in 1..n /\ (i - m) - 1 = (i - 1) - m /\ (i - m) - 1 \in 0..n
      BY <1>3, <2>2
    <3>2. g[i - m] = g[(i - m) - 1] \o t[i - m]
      BY <1>4, <3>1
    <3>3. g[(i - m) - 1] \in Str /\ t[i - m] \in Str
      BY <1>4, <1>5, <3>1
    <3>4. f[m] \o g[i - m] = (f[m] \o g[(i - m) - 1]) \o t[i - m]
      <4>1. (f[m] \o g[(i - m) - 1]) \o t[i - m] = f[m] \o (g[(i - m) - 1] \o t[i - m])
        BY <3>3, <1>6, ConcatRight
      <4> QED
        BY <3>2, <4>1
    <3>5. h[i] = f[m] \o g[i - m] /\ (s \o t)[i] = t[i - m]
      BY <1>3, <2>0, <2>2
    <3>6. h[i - 1] = f[m] \o g[(i - m) - 1]
      <4>1. CASE i - 1 = m
        <5>1. h[i - 1] = f[m]
          BY <4>1, <2>0, <1>3
        <5>2. (i - m) - 1 = 0
          BY <4>1, <1>3
        <5>3. f[m] \o <<>> = f[m]
          BY <1>6, ConcatNone
        <5> QED
          BY <5>1, <5>2, <5>3, <1>4
      <4>2. CASE i - 1 # m
        <5>1. ~(i - 1 <= m)
          BY <4>2, <2>0, <2>2, <1>3
        <5>2. h[i - 1] = f[m] \o g[(i - 1) - m]
          BY <5>1, <2>0
        <5> QED
          BY <5>2, <3>1
      <4> QED
        BY <4>1, <4>2
    <3> QED
      BY <3>4, <3>5, <3>6
  <2> QED
    BY <2>1, <2>2
<1>9. h[0] = <<>> /\ h[m + n] = f[m] \o g[n]
  <2>1. h[0] = <<>>
    BY <1>3, <1>4
  <2>2. CASE n = 0
    <3>1. h[m + n] = f[m] /\ g[n] = <<>>
      BY <1>3, <1>4, <2>2
    <3>2. f[m] \o <<>> = f[m]
      BY <1>6, ConcatNone
    <3> QED
      BY <2>1, <3>1, <3>2
  <2>3. CASE n # 0
    <3>1. ~(m + n <= m) /\ (m + n) - m = n /\ m + n \in 0..(m + n)
      BY <1>3, <2>3
    <3> QED
      BY <2>1, <3>1
  <2> QED
    BY <2>2, <2>3
<1> HIDE DEF h
<1>10. Joins(h, s \o t)
  BY <1>3, <1>7, <1>8, <1>9 DEF Joins
<1>11. FlattenSeq(s \o t) = h[m + n]
  BY <1>3, <1>10, FlattenIs
<1> QED
  BY <1>5, <1>9, <1>11

-----------------------------------------------------------------------------
(* Strings as a monoid.  The names hide the indices from the provers.      *)

(* Two texts, one after the other.                                         *)
Cat(x, y) == x \o y

(* One character as a text.                                                *)
Chr(c) == <<c>>

(* Cat makes a text of two.                                                *)
LEMMA CatType == \A x, y \in Str : Cat(x, y) \in Str
  BY ConcatType DEF Cat

(* Cat is associative.                                                     *)
LEMMA CatRight == \A x, y, z \in Str : Cat(Cat(x, y), z) = Cat(x, Cat(y, z))
  BY ConcatRight DEF Cat

(* A character is a text.                                                  *)
LEMMA ChrType == \A c \in Nat : Chr(c) \in Str
  BY DEF Chr, Str

(* Equally long fronts of one text are equal, and so are the rests.        *)
LEMMA CatCancel ==
  ASSUME NEW x \in Str, NEW y \in Str, NEW u \in Str, NEW v \in Str,
         Cat(x, u) = Cat(y, v), Len(x) = Len(y)
  PROVE  x = y /\ u = v
  BY Cancel DEF Cat, Str

(* A sequence that is not empty is a Cons.                                 *)
LEMMA ConsIs ==
  ASSUME NEW S, NEW s \in Seq(S), s # <<>>
  PROVE  s = Cons(Head(s), Tail(s))
  BY Uncons DEF Cons

-----------------------------------------------------------------------------
(* Codes that can be read back.                                            *)

(* Q writes each member of D as a member of S.                             *)
Writes(Q, D, S) == Q \in [D -> S]

(* No text starts with the codes of two values: what follows a code does   *)
(* not matter to its reader.                                               *)
Delimited(D, Q) ==
  /\ Writes(Q, D, Str)
  /\ \A x, y \in D, u, v \in Str : Cat(Q[x], u) = Cat(Q[y], v) => x = y /\ u = v

(* The codes of D are not empty and do not start with z.                   *)
StartsWithout(D, Q, z) == \A x \in D : Q[x] # <<>> /\ Q[x][1] # z

(* The codes of the values in s.                                           *)
Mapped(Q, s) == [i \in DOMAIN s |-> Q[s[i]]]

(* The codes of the values in s without anything between them, then z.     *)
Terminated(Q, z, s) == FlattenSeq(Mapped(Q, s)) \o <<z>>

(* The first character of a concatenation is that of its front.            *)
LEMMA First ==
  /\ \A c \in Nat, u \in Str : Cat(Chr(c), u)[1] = c
  /\ \A x, u \in Str : x # <<>> => Cat(x, u)[1] = x[1]
<1>1. ASSUME NEW x \in Str, NEW u \in Str, x # <<>> PROVE (x \o u)[1] = x[1]
  <2>1. Len(x) \in Nat /\ Len(x) > 0 /\ Len(u) \in Nat
    BY <1>1, EmptySeq, LenProperties DEF Str
  <2>2. \A i \in 1..(Len(x) + Len(u)) :
          (x \o u)[i] = IF i <= Len(x) THEN x[i] ELSE u[i - Len(x)]
    BY ConcatProperties DEF Str
  <2> QED
    BY <2>1, <2>2
<1>2. ASSUME NEW c \in Nat, NEW u \in Str PROVE Cat(Chr(c), u)[1] = c
  <2> DEFINE e == Chr(c)
  <2>1. e \in Str /\ e # <<>> /\ e[1] = c
    BY DEF Chr, Str
  <2> HIDE DEF e
  <2>2. (e \o u)[1] = e[1]
    BY <1>1, <2>1
  <2> QED
    BY <2>1, <2>2 DEF Cat, e
<1> QED
  BY <1>1, <1>2 DEF Cat

(* Mapped gives codes.                                                     *)
LEMMA MappedType ==
  ASSUME NEW D, NEW S, NEW Q, Writes(Q, D, S), NEW s \in Seq(D)
  PROVE  Mapped(Q, s) \in Seq(S)
<1>1. Len(s) \in Nat /\ DOMAIN s = 1..Len(s) /\ \A i \in 1..Len(s) : s[i] \in D
  BY LenProperties, ElementOfSeq
<1>2. Mapped(Q, s) \in [1..Len(s) -> S]
  BY <1>1 DEF Mapped, Writes
<1> QED
  BY <1>1, <1>2

(* Mapped, position by position.                                           *)
LEMMA MappedIs ==
  ASSUME NEW D, NEW s \in Seq(D), NEW Q
  PROVE  Len(Mapped(Q, s)) = Len(s) /\ \A i \in 1..Len(s) : Mapped(Q, s)[i] = Q[s[i]]
<1>1. Len(s) \in Nat /\ DOMAIN s = 1..Len(s)
  BY LenProperties
<1> QED
  BY <1>1 DEF Mapped

(* Mapped distributes over concatenation.                                  *)
LEMMA MappedConcat ==
  ASSUME NEW D, NEW S, NEW Q, Writes(Q, D, S), NEW s \in Seq(D), NEW t \in Seq(D)
  PROVE  Mapped(Q, s \o t) = Mapped(Q, s) \o Mapped(Q, t)
<1> DEFINE r == s \o t
           l == Mapped(Q, r)
           a == Mapped(Q, s)
           b == Mapped(Q, t)
           c == a \o b
<1>1. /\ r \in Seq(D) /\ Len(r) = Len(s) + Len(t)
      /\ Len(s) \in Nat /\ Len(t) \in Nat
      /\ \A i \in 1..(Len(s) + Len(t)) :
           r[i] = IF i <= Len(s) THEN s[i] ELSE t[i - Len(s)]
  BY ConcatProperties, LenProperties
<1> HIDE DEF r
<1>2. l \in Seq(S)
  BY <1>1, MappedType
<1>3. Len(l) = Len(s) + Len(t) /\ \A i \in 1..(Len(s) + Len(t)) : l[i] = Q[r[i]]
  BY <1>1, MappedIs
<1>4. a \in Seq(S) /\ b \in Seq(S)
  BY MappedType
<1>5. Len(a) = Len(s) /\ \A i \in 1..Len(s) : a[i] = Q[s[i]]
  BY MappedIs
<1>6. Len(b) = Len(t) /\ \A i \in 1..Len(t) : b[i] = Q[t[i]]
  BY MappedIs
<1> HIDE DEF l, a, b
<1>7. c \in Seq(S) /\ Len(c) = Len(a) + Len(b)
  BY <1>4, ConcatProperties
<1>8. \A i \in 1..(Len(a) + Len(b)) : c[i] = IF i <= Len(a) THEN a[i] ELSE b[i - Len(a)]
  BY <1>4, ConcatProperties
<1> HIDE DEF c
<1>9. ASSUME NEW i \in 1..(Len(s) + Len(t)) PROVE l[i] = c[i]
  <2>1. CASE i <= Len(s)
    <3>1. i \in 1..Len(s)
      BY <2>1, <1>1
    <3> QED
      BY <1>1, <1>3, <1>5, <1>6, <1>8, <2>1, <3>1
  <2>2. CASE ~(i <= Len(s))
    <3>1. i - Len(s) \in 1..Len(t)
      BY <2>2, <1>1
    <3> QED
      BY <1>1, <1>3, <1>5, <1>6, <1>8, <2>2, <3>1, ZenonT(60)
  <2> QED
    BY <2>1, <2>2
<1>10. l = c
  <2>1. Len(l) = Len(c) /\ \A i \in 1..Len(l) : l[i] = c[i]
    BY <1>3, <1>5, <1>6, <1>7, <1>9
  <2> QED
    BY <1>2, <1>7, <2>1, SeqEqual
<1> QED
  BY <1>10 DEF l, c, a, b, r

(* Mapped of no value and of one.                                          *)
LEMMA MappedBase ==
  ASSUME NEW D, NEW S, NEW Q, Writes(Q, D, S)
  PROVE  Mapped(Q, <<>>) = <<>> /\ \A x \in D : Mapped(Q, <<x>>) = <<Q[x]>>
<1>1. Mapped(Q, <<>>) = <<>>
  <2>1. <<>> \in Seq(D) /\ Len(<<>>) = 0
    BY EmptySeq
  <2> DEFINE m == Mapped(Q, <<>>)
  <2>2. m \in Seq(S)
    BY <2>1, MappedType
  <2>3. Len(m) = 0
    BY <2>1, MappedIs
  <2> HIDE DEF m
  <2>4. m = <<>>
    BY <2>2, <2>3, EmptySeq
  <2> QED
    BY <2>4 DEF m
<1>2. ASSUME NEW x \in D PROVE Mapped(Q, <<x>>) = <<Q[x]>>
  <2> DEFINE s == <<x>>
             m == Mapped(Q, s)
  <2>1. s \in Seq(D) /\ Len(s) = 1 /\ s[1] = x
    OBVIOUS
  <2> HIDE DEF s
  <2>2. m \in Seq(S)
    BY <2>1, MappedType
  <2>3. Len(m) = 1 /\ m[1] = Q[x]
    BY <2>1, MappedIs
  <2>4. Q[x] \in S
    BY DEF Writes
  <2> HIDE DEF m
  <2>5. m = <<Q[x]>>
    BY <2>2, <2>3, <2>4
  <2> QED
    BY <2>5 DEF m, s
<1> QED
  BY <1>1, <1>2

(* A terminated list of codes is a text.                                   *)
LEMMA TerminatedType ==
  ASSUME NEW D, NEW Q, Writes(Q, D, Str), NEW z \in Nat, NEW s \in Seq(D)
  PROVE  Terminated(Q, z, s) \in Str
<1> DEFINE m == Mapped(Q, s)
           f == FlattenSeq(m)
<1>1. m \in Seq(Str)
  BY MappedType
<1> HIDE DEF m
<1>2. f \in Str
  BY <1>1, FlattenBase
<1> HIDE DEF f
<1>3. <<z>> \in Str
  BY DEF Str
<1> DEFINE e == <<z>>
<1> HIDE DEF e
<1>4. f \o e \in Str
  BY <1>2, <1>3, ConcatType DEF e
<1> QED
  BY <1>4 DEF f, m, e, Terminated

(* With no values, the terminator is all there is.                         *)
LEMMA TerminatedNone ==
  ASSUME NEW D, NEW Q, Writes(Q, D, Str), NEW z \in Nat
  PROVE  Terminated(Q, z, <<>>) = Chr(z)
<1>1. Mapped(Q, <<>>) = <<>>
  BY MappedBase
<1>2. <<>> \o <<z>> = <<z>>
  BY ConcatNone, ChrType DEF Chr
<1> QED
  BY <1>1, <1>2, FlattenBase DEF Terminated, Chr

(* The code of the first value, then the rest of the list.                 *)
LEMMA TerminatedCons ==
  ASSUME NEW D, NEW Q, Writes(Q, D, Str), NEW z \in Nat, NEW x \in D, NEW s \in Seq(D)
  PROVE  Terminated(Q, z, Cons(x, s)) = Cat(Q[x], Terminated(Q, z, s))
<1> DEFINE h == <<x>>
           hm == Mapped(Q, h)
           m == Mapped(Q, s)
           f == FlattenSeq(m)
           q == Q[x]
           e == <<z>>
<1>1. h \in Seq(D)
  OBVIOUS
<1>2. hm = <<q>>
  BY MappedBase
<1>3. q \in Str
  BY DEF Writes
<1>4. e \in Str
  BY DEF Str
<1> HIDE DEF h
<1>5. hm \in Seq(Str)
  BY <1>1, MappedType
<1>6. m \in Seq(Str)
  BY MappedType
<1>7. Mapped(Q, h \o s) = hm \o m
  BY <1>1, MappedConcat
<1> HIDE DEF hm, m, q, e
<1>8. FlattenSeq(hm \o m) = FlattenSeq(hm) \o f
  BY <1>5, <1>6, FlattenConcat
<1>9. FlattenSeq(hm) = q
  BY <1>2, <1>3, FlattenBase
<1>10. f \in Str
  BY <1>6, FlattenBase
<1> HIDE DEF f
<1>11. (q \o f) \o e = q \o (f \o e)
  BY <1>3, <1>4, <1>10, ConcatRight
<1> QED
  BY <1>7, <1>8, <1>9, <1>11 DEF Terminated, Cons, Cat, h, m, q, e, f

(* A list of codes, ended by a character none of them starts with, can be  *)
(* read back.                                                              *)
LEMMA TerminatedDelimits ==
  ASSUME NEW D, NEW Q, Delimited(D, Q), NEW z \in Nat, StartsWithout(D, Q, z),
         NEW s \in Seq(D), NEW t \in Seq(D), NEW u \in Str, NEW v \in Str,
         Cat(Terminated(Q, z, s), u) = Cat(Terminated(Q, z, t), v)
  PROVE  s = t /\ u = v
<1> DEFINE Enc(w) == Terminated(Q, z, w)
           Same(a, b, c, d) == Cat(Enc(a), c) = Cat(Enc(b), d) => a = b /\ c = d
           ReadBack(n) == \A a, b \in Seq(D), c, d \in Str :
                        Len(a) = n => Same(a, b, c, d)
           T == {n \in Nat : ReadBack(n)}
<1>a. Writes(Q, D, Str)
  BY DEF Delimited
<1>0. \A x \in D : Q[x] \in Str
  BY <1>a DEF Writes
<1>1. Enc(<<>>) = Chr(z) /\ Chr(z) \in Str
  BY <1>a, TerminatedNone, ChrType
<1>2. \A w \in Seq(D) : Enc(w) \in Str
  BY <1>a, TerminatedType
<1>3. ASSUME NEW x \in D, NEW w \in Seq(D) PROVE Enc(Cons(x, w)) = Cat(Q[x], Enc(w))
  BY <1>a, TerminatedCons
<1> HIDE DEF Enc
<1>4. ASSUME NEW b \in Seq(D), b # <<>>, NEW d \in Str
      PROVE  /\ Head(b) \in D /\ Tail(b) \in Seq(D) /\ Cat(Enc(Tail(b)), d) \in Str
             /\ Cat(Enc(b), d) = Cat(Q[Head(b)], Cat(Enc(Tail(b)), d))
  <2> DEFINE x == Head(b)
             r == Tail(b)
             e == Enc(r)
             q == Q[x]
  <2>1. x \in D /\ r \in Seq(D)
    BY <1>4, HeadTail
  <2>2. b = Cons(x, r)
    BY <1>4, ConsIs
  <2> HIDE DEF x, r
  <2>3. Enc(b) = Cat(q, e)
    BY <2>1, <2>2, <1>3
  <2>4. q \in Str /\ e \in Str
    BY <1>0, <1>2, <2>1
  <2> HIDE DEF q, e
  <2>5. Cat(e, d) \in Str
    BY <2>4, CatType
  <2>6. Cat(Cat(q, e), d) = Cat(q, Cat(e, d))
    BY <2>4, CatRight
  <2> QED
    BY <2>1, <2>3, <2>5, <2>6 DEF x, r, q, e
<1>5. ASSUME NEW b \in Seq(D), b # <<>>, NEW c \in Str, NEW d \in Str
      PROVE  Cat(Enc(<<>>), c) # Cat(Enc(b), d)
  <2> DEFINE q == Q[Head(b)]
             r == Cat(Enc(Tail(b)), d)
  <2>1. Head(b) \in D /\ r \in Str /\ Cat(Enc(b), d) = Cat(q, r)
    BY <1>4, <1>5
  <2>2. q \in Str /\ q # <<>> /\ q[1] # z
    BY <1>0, <2>1 DEF StartsWithout
  <2> HIDE DEF q, r
  <2>3. Cat(q, r)[1] = q[1]
    BY <2>1, <2>2, First
  <2>4. Cat(Chr(z), c)[1] = z
    BY First
  <2> QED
    BY <1>1, <2>1, <2>2, <2>3, <2>4
<1>6. 0 \in T
  <2> SUFFICES ASSUME NEW a \in Seq(D), NEW b \in Seq(D), NEW c \in Str, NEW d \in Str,
                      Len(a) = 0, Cat(Enc(a), c) = Cat(Enc(b), d)
               PROVE  a = b /\ c = d
    OBVIOUS
  <2>1. a = <<>>
    BY EmptySeq
  <2>2. b = <<>>
    BY <2>1, <1>5
  <2>3. Chr(z) \in Str /\ Cat(Chr(z), c) = Cat(Chr(z), d)
    BY <2>1, <2>2, <1>1
  <2>4. c = d
    BY <2>3, CatCancel
  <2> QED
    BY <2>1, <2>2, <2>4
<1>7. ASSUME NEW n \in Nat, n \in T PROVE n + 1 \in T
  <2> SUFFICES ASSUME NEW a \in Seq(D), NEW b \in Seq(D), NEW c \in Str, NEW d \in Str,
                      Len(a) = n + 1, Cat(Enc(a), c) = Cat(Enc(b), d)
               PROVE  a = b /\ c = d
    <3>1. n + 1 \in Nat
      OBVIOUS
    <3>2. ReadBack(n + 1)
      OBVIOUS
    <3> HIDE DEF ReadBack
    <3> QED
      BY <3>1, <3>2
  <2>1. a # <<>>
    BY EmptySeq
  <2>2. b # <<>>
    BY <2>1, <1>5
  <2> DEFINE x == Head(a)
             p == Tail(a)
             y == Head(b)
             q == Tail(b)
  <2>3. a = Cons(x, p) /\ b = Cons(y, q)
    BY <2>1, <2>2, ConsIs
  <2>4. x \in D /\ p \in Seq(D) /\ Len(a) = Len(p) + 1 /\ y \in D /\ q \in Seq(D)
    BY <2>1, <2>2, HeadTail
  <2> DEFINE pc == Cat(Enc(p), c)
             qd == Cat(Enc(q), d)
  <2>5. pc \in Str /\ qd \in Str /\ Cat(Q[x], pc) = Cat(Q[y], qd)
    <3>1. pc \in Str /\ Cat(Enc(a), c) = Cat(Q[x], pc)
      BY <1>4, <2>1
    <3>2. qd \in Str /\ Cat(Enc(b), d) = Cat(Q[y], qd)
      BY <1>4, <2>2
    <3> QED
      BY <3>1, <3>2
  <2> HIDE DEF x, y, p, q
  <2>6. x = y /\ pc = qd
    <3> HIDE DEF pc, qd
    <3>1. \A g, h \in D, k, l \in Str : Cat(Q[g], k) = Cat(Q[h], l) => g = h /\ k = l
      BY DEF Delimited
    <3> QED
      <4>1. x = y
        BY <2>4, <2>5, <3>1
      <4>2. pc = qd
        BY <2>4, <2>5, <3>1
      <4> QED
        BY <4>1, <4>2
  <2>7. Len(p) = n
    BY <2>4, LenProperties
  <2>8. Same(p, q, c, d)
    <3> HIDE DEF Same
    <3> QED
      BY <2>4, <2>7, <1>7
  <2>9. p = q /\ c = d
    BY <2>6, <2>8
  <2> QED
    BY <2>3, <2>6, <2>9
<1> HIDE DEF T
<1>8. Nat \subseteq T
  BY <1>6, <1>7, StepInduction
<1>9. Len(s) \in T
  BY <1>8, LenProperties
<1>10. Same(s, t, u, v)
  <2> HIDE DEF Same
  <2> QED
    BY <1>9 DEF T, ReadBack
<1> QED
  BY <1>10 DEF Enc

-----------------------------------------------------------------------------
(* Strings and lists as the canonical form writes them.                    *)

(* escape() as a code of characters.                                       *)
EscapedCode == [c \in Nat |-> Escaped(c)]

(* Quoted() as a code of texts.                                            *)
QuotedCode == [s \in Str |-> Quoted(s)]

(* The seven characters that are escaped have seven different letters.     *)
LEMMA EscapeLetters ==
  /\ DOMAIN EscapeLetter = {LF, QUOTE, BSLASH, 13, 9, 8, 12}
  /\ \A c \in DOMAIN EscapeLetter : c \in Nat /\ EscapeLetter[c] \in Nat
  /\ \A c, d \in DOMAIN EscapeLetter : EscapeLetter[c] = EscapeLetter[d] => c = d
<1>1. DOMAIN EscapeLetter = {LF, QUOTE, BSLASH, 13, 9, 8, 12}
  BY DEF EscapeLetter
<1>2. /\ EscapeLetter[10] = 110 /\ EscapeLetter[34] = 34 /\ EscapeLetter[92] = 92
      /\ EscapeLetter[13] = 114 /\ EscapeLetter[9] = 116
      /\ EscapeLetter[8] = 98 /\ EscapeLetter[12] = 102
  BY DEF EscapeLetter, LF, QUOTE, BSLASH
<1> QED
  BY <1>1, <1>2 DEF LF, QUOTE, BSLASH

(* A character not escaped stands for itself, and is not a backslash; the  *)
(* others become a backslash and a letter.                                 *)
LEMMA EscapedIs ==
  ASSUME NEW c \in Nat
  PROVE  /\ c \notin DOMAIN EscapeLetter => Escaped(c) = Chr(c) /\ c # BSLASH /\ c # QUOTE
         /\ c \in DOMAIN EscapeLetter =>
              /\ Escaped(c) \in Str /\ Len(Escaped(c)) = 2
              /\ Escaped(c)[1] = BSLASH /\ Escaped(c)[2] = EscapeLetter[c]
         /\ Escaped(c) \in Str /\ Escaped(c) # <<>> /\ Escaped(c)[1] # QUOTE
<1>1. CASE c \notin DOMAIN EscapeLetter
  <2>1. Escaped(c) = Chr(c) /\ c # BSLASH /\ c # QUOTE
    BY <1>1, EscapeLetters DEF Escaped, Chr
  <2>2. Chr(c) \in Str /\ Chr(c) # <<>> /\ Chr(c)[1] = c
    BY DEF Chr, Str
  <2> QED
    BY <1>1, <2>1, <2>2
<1>2. CASE c \in DOMAIN EscapeLetter
  <2>1. EscapeLetter[c] \in Nat /\ BSLASH \in Nat /\ BSLASH # QUOTE
    BY <1>2, EscapeLetters DEF BSLASH, QUOTE
  <2> DEFINE l == EscapeLetter[c]
             e == <<BSLASH, l>>
  <2>2. Escaped(c) = e
    BY <1>2 DEF Escaped
  <2> HIDE DEF l
  <2>3. e \in Str /\ Len(e) = 2 /\ e[1] = BSLASH /\ e[2] = l /\ e # <<>>
    BY <2>1 DEF Str, l
  <2> QED
    BY <1>2, <2>1, <2>2, <2>3 DEF l
<1> QED
  BY <1>1, <1>2

(* What escape() writes for a character can be read back, and never starts *)
(* with a quote.                                                           *)
LEMMA EscapedDelimited ==
  Delimited(Nat, EscapedCode) /\ StartsWithout(Nat, EscapedCode, QUOTE)
<1>1. \A c \in Nat : EscapedCode[c] = Escaped(c)
  BY DEF EscapedCode
<1>2. Writes(EscapedCode, Nat, Str)
  BY EscapedIs DEF EscapedCode, Writes
<1>3. ASSUME NEW x \in Nat, NEW y \in Nat, NEW u \in Str, NEW v \in Str,
             Cat(Escaped(x), u) = Cat(Escaped(y), v)
      PROVE  x = y /\ u = v
  <2> DEFINE a == Escaped(x)
             b == Escaped(y)
  <2>1. a \in Str /\ a # <<>> /\ b \in Str /\ b # <<>>
    BY EscapedIs
  <2>2. a[1] = b[1]
    <3>1. Cat(a, u)[1] = a[1]
      BY <2>1, First
    <3>2. Cat(b, v)[1] = b[1]
      BY <2>1, First
    <3> QED
      BY <3>1, <3>2, <1>3
  <2>3. \A c \in Nat : Chr(c)[1] = c /\ Len(Chr(c)) = 1
    BY DEF Chr
  <2>4. Len(a) = Len(b)
    <3>1. CASE x \notin DOMAIN EscapeLetter /\ y \notin DOMAIN EscapeLetter
      BY <3>1, <2>3, EscapedIs
    <3>2. CASE x \in DOMAIN EscapeLetter /\ y \in DOMAIN EscapeLetter
      BY <3>2, EscapedIs
    <3>3. CASE x \notin DOMAIN EscapeLetter /\ y \in DOMAIN EscapeLetter
      BY <3>3, <2>2, <2>3, EscapedIs
    <3>4. CASE x \in DOMAIN EscapeLetter /\ y \notin DOMAIN EscapeLetter
      BY <3>4, <2>2, <2>3, EscapedIs
    <3> QED
      BY <3>1, <3>2, <3>3, <3>4
  <2>5. a = b /\ u = v
    <3> HIDE DEF a, b
    <3> QED
      BY <2>1, <2>4, <1>3, CatCancel DEF a, b
  <2>6. x = y
    <3>1. CASE x \notin DOMAIN EscapeLetter /\ y \notin DOMAIN EscapeLetter
      BY <3>1, <2>3, <2>5, EscapedIs
    <3>2. CASE x \in DOMAIN EscapeLetter /\ y \in DOMAIN EscapeLetter
      BY <3>2, <2>5, EscapedIs, EscapeLetters, SMTT(30)
    <3>3. CASE x \notin DOMAIN EscapeLetter /\ y \in DOMAIN EscapeLetter
      BY <3>3, <2>2, <2>3, EscapedIs
    <3>4. CASE x \in DOMAIN EscapeLetter /\ y \notin DOMAIN EscapeLetter
      BY <3>4, <2>2, <2>3, EscapedIs
    <3> QED
      BY <3>1, <3>2, <3>3, <3>4
  <2> QED
    BY <2>5, <2>6
<1>4. StartsWithout(Nat, EscapedCode, QUOTE)
  BY <1>1, EscapedIs DEF StartsWithout
<1> QED
  BY <1>1, <1>2, <1>3, <1>4 DEF Delimited

(* A quoted string is a quote and the terminated list of its characters.   *)
LEMMA QuotedIs ==
  ASSUME NEW s \in Str
  PROVE  /\ Quoted(s) = Cat(Chr(QUOTE), Terminated(EscapedCode, QUOTE, s))
         /\ Terminated(EscapedCode, QUOTE, s) = Cat(escape(s), Chr(QUOTE))
         /\ escape(s) \in Str
         /\ Terminated(EscapedCode, QUOTE, s) \in Str
         /\ escape(s) = FlattenSeq(Mapped(EscapedCode, s))
<1>0. Writes(EscapedCode, Nat, Str) /\ QUOTE \in Nat
  BY EscapedDelimited DEF Delimited, QUOTE
<1>1. [i \in DOMAIN s |-> Escaped(s[i])] = Mapped(EscapedCode, s)
  <2>1. \A i \in DOMAIN s : s[i] \in Nat
    BY ElementOfSeq, LenProperties DEF Str
  <2> QED
    BY <2>1 DEF Mapped, EscapedCode
<1>2. escape(s) = FlattenSeq(Mapped(EscapedCode, s))
  BY <1>1 DEF escape
<1>3. Mapped(EscapedCode, s) \in Seq(Str)
  BY <1>0, MappedType DEF Str
<1>4. escape(s) \in Str
  BY <1>2, <1>3, FlattenBase
<1>5. Terminated(EscapedCode, QUOTE, s) = Cat(escape(s), Chr(QUOTE))
  BY <1>2 DEF Terminated, Cat, Chr
<1>6. Terminated(EscapedCode, QUOTE, s) \in Str
  BY <1>0, <1>4, <1>5, ChrType, CatType
<1>7. Cat(Cat(Chr(QUOTE), escape(s)), Chr(QUOTE)) = Cat(Chr(QUOTE), Cat(escape(s), Chr(QUOTE)))
  BY <1>0, <1>4, ChrType, CatRight
<1>8. Quoted(s) = Cat(Cat(Chr(QUOTE), escape(s)), Chr(QUOTE))
  BY DEF Quoted, Cat, Chr
<1> QED
  BY <1>2, <1>4, <1>5, <1>6, <1>7, <1>8

(* A quoted string ends at its closing quote: escaping hides no other.     *)
LEMMA QuotedDelimited ==
  Delimited(Str, QuotedCode) /\ StartsWithout(Str, QuotedCode, CLOSE)
<1> DEFINE e(s) == Terminated(EscapedCode, QUOTE, s)
           q == Chr(QUOTE)
<1>0. q \in Str /\ QUOTE \in Nat /\ QUOTE # CLOSE /\ q # <<>> /\ q[1] = QUOTE
  BY ChrType DEF QUOTE, CLOSE, Chr
<1>1. \A s \in Str : e(s) \in Str
  BY QuotedIs
<1>2. \A s \in Str : QuotedCode[s] = Cat(q, e(s))
  BY QuotedIs DEF QuotedCode
<1>3. Writes(QuotedCode, Str, Str)
  <2>1. \A s \in Str : Cat(q, e(s)) \in Str
    <3> HIDE DEF q, e
    <3> QED
      BY <1>0, <1>1, CatType
  <2> QED
    BY <2>1, QuotedIs DEF QuotedCode, Writes
<1>4. ASSUME NEW s \in Str, NEW t \in Str, NEW u \in Str, NEW v \in Str,
             e(s) \in Str, e(t) \in Str, Cat(Cat(q, e(s)), u) = Cat(Cat(q, e(t)), v)
      PROVE  s = t /\ u = v
  <2>1. Cat(e(s), u) = Cat(e(t), v)
    <3> DEFINE a == Cat(e(s), u)
               b == Cat(e(t), v)
    <3> HIDE DEF q, e
    <3>1. a \in Str /\ b \in Str
      BY <1>4, CatType
    <3>2. Cat(q, a) = Cat(q, b)
      <4>1. Cat(Cat(q, e(s)), u) = Cat(q, a)
        BY <1>0, <1>4, CatRight
      <4>2. Cat(Cat(q, e(t)), v) = Cat(q, b)
        BY <1>0, <1>4, CatRight
      <4> QED
        BY <4>1, <4>2, <1>4
    <3> HIDE DEF a, b
    <3>3. a = b
      BY <1>0, <3>1, <3>2, CatCancel
    <3> QED
      BY <3>3 DEF a, b
  <2>2. s \in Seq(Nat) /\ t \in Seq(Nat)
    BY DEF Str
  <2> QED
    BY <2>1, <2>2, <1>0, EscapedDelimited, TerminatedDelimits
<1>5. ASSUME NEW s \in Str PROVE QuotedCode[s] # <<>> /\ QuotedCode[s][1] # CLOSE
  <2> DEFINE w == e(s)
             r == Cat(q, w)
  <2>1. w \in Str
    BY <1>1
  <2> HIDE DEF w
  <2>2. r[1] = QUOTE
    BY <1>0, <2>1, First
  <2>3. r # <<>>
    <3>1. Len(q) = 1
      BY DEF Chr
    <3> HIDE DEF q
    <3>2. Len(Cat(q, w)) = Len(q) + Len(w) /\ Len(w) \in Nat
      BY <1>0, <2>1, ConcatProperties, LenProperties DEF Cat, Str
    <3>3. Len(Cat(q, w)) # 0
      BY <3>1, <3>2
    <3> QED
      BY <3>3
  <2> QED
    BY <1>0, <1>2, <2>2, <2>3 DEF w
<1>6. StartsWithout(Str, QuotedCode, CLOSE)
  BY <1>5 DEF StartsWithout
<1> HIDE DEF e, q
<1> QED
  BY <1>1, <1>2, <1>3, <1>4, <1>6 DEF Delimited

-----------------------------------------------------------------------------
(* Lists between brackets.                                                 *)

(* A comma before a text.                                                  *)
Comma == [x \in Str |-> Cat(Chr(COMMA), x)]

(* The parts as Bracketed() joins them.                                    *)
Separated(parts) ==
  [i \in DOMAIN parts |-> IF i = 1 THEN parts[i] ELSE <<COMMA>> \o parts[i]]

(* Q with a comma before every code.                                       *)
CommaOf(Q) == [x \in DOMAIN Q |-> Cat(Chr(COMMA), Q[x])]

(* What follows the opening bracket.                                       *)
Opened(Q, s) ==
  IF s = <<>> THEN Chr(CLOSE)
  ELSE Cat(Q[Head(s)], Terminated(CommaOf(Q), CLOSE, Tail(s)))

(* The lists that Bracketed() writes of the codes Q, as a code.            *)
BracketsCode(D, Q) == [s \in Seq(D) |-> Bracketed(Mapped(Q, s))]

(* Comma makes texts of texts.                                             *)
LEMMA CommaWrites == Writes(Comma, Str, Str)
<1>1. Chr(COMMA) \in Str
  BY ChrType DEF COMMA
<1> QED
  BY <1>1, CatType DEF Comma, Writes

(* The length and the elements of a Cons.                                  *)
LEMMA ConsProperties ==
  ASSUME NEW S, NEW x \in S, NEW s \in Seq(S)
  PROVE  /\ Cons(x, s) \in Seq(S) /\ Len(Cons(x, s)) = Len(s) + 1 /\ Len(s) \in Nat
         /\ Cons(x, s)[1] = x
         /\ \A i \in 1..Len(s) : Cons(x, s)[i + 1] = s[i]
<1> DEFINE h == <<x>>
           c == h \o s
<1>1. h \in Seq(S) /\ Len(h) = 1 /\ h[1] = x
  OBVIOUS
<1>2. Len(s) \in Nat
  BY LenProperties
<1> HIDE DEF h
<1>3. /\ c \in Seq(S) /\ Len(c) = 1 + Len(s)
      /\ \A i \in 1..(1 + Len(s)) : c[i] = IF i <= 1 THEN h[i] ELSE s[i - 1]
  <2>1. /\ c \in Seq(S) /\ Len(c) = Len(h) + Len(s)
        /\ \A i \in 1..(Len(h) + Len(s)) : c[i] = IF i <= Len(h) THEN h[i] ELSE s[i - Len(h)]
    BY <1>1, ConcatProperties
  <2> HIDE DEF c
  <2> QED
    BY <1>1, <2>1
<1> HIDE DEF c
<1>4. Len(c) = Len(s) + 1 /\ c[1] = x
  BY <1>1, <1>2, <1>3
<1>5. ASSUME NEW i \in 1..Len(s) PROVE c[i + 1] = s[i]
  <2>1. i + 1 \in 1..(1 + Len(s)) /\ ~(i + 1 <= 1) /\ (i + 1) - 1 = i
    BY <1>2
  <2>2. c[i + 1] = IF i + 1 <= 1 THEN h[i + 1] ELSE s[(i + 1) - 1]
    BY <1>3, <2>1
  <2> QED
    BY <2>1, <2>2
<1> QED
  BY <1>2, <1>3, <1>4, <1>5 DEF Cons, c, h

(* A sequence with those elements is that Cons.                            *)
LEMMA ConsEqual ==
  ASSUME NEW S, NEW r \in Seq(S), NEW x \in S, NEW s \in Seq(S),
         Len(r) = Len(s) + 1, r[1] = x, \A i \in 1..Len(s) : r[i + 1] = s[i]
  PROVE  r = Cons(x, s)
<1> DEFINE c == Cons(x, s)
<1>1. /\ c \in Seq(S) /\ Len(c) = Len(s) + 1 /\ Len(s) \in Nat /\ c[1] = x
      /\ \A i \in 1..Len(s) : c[i + 1] = s[i]
  BY ConsProperties
<1> HIDE DEF c
<1>2. ASSUME NEW i \in 1..Len(r) PROVE r[i] = c[i]
  <2>1. CASE i = 1
    BY <1>1, <2>1
  <2>2. CASE i # 1
    <3>1. i - 1 \in 1..Len(s) /\ (i - 1) + 1 = i
      BY <1>1, <2>2
    <3>2. r[(i - 1) + 1] = s[i - 1] /\ c[(i - 1) + 1] = s[i - 1]
      BY <1>1, <3>1
    <3> QED
      BY <3>1, <3>2
  <2> QED
    BY <2>1, <2>2
<1>3. r = c
  BY <1>1, <1>2, SeqEqual
<1> QED
  BY <1>3 DEF c

(* The first part stands alone, the others follow a comma.                 *)
LEMMA SeparatedIs ==
  ASSUME NEW x \in Str, NEW s \in Seq(Str)
  PROVE  Separated(Cons(x, s)) = Cons(x, Mapped(Comma, s))
<1> DEFINE c == Cons(x, s)
           m == Mapped(Comma, s)
           r == Separated(c)
<1>1. /\ c \in Seq(Str) /\ Len(c) = Len(s) + 1 /\ Len(s) \in Nat /\ c[1] = x
      /\ \A i \in 1..Len(s) : c[i + 1] = s[i]
  BY ConsProperties
<1>2. m \in Seq(Str)
  BY CommaWrites, MappedType
<1>3. Len(m) = Len(s) /\ \A i \in 1..Len(s) : m[i] = Comma[s[i]]
  BY MappedIs
<1> HIDE DEF c, m
<1>4. \A i \in 1..Len(s) : s[i] \in Str
  BY ElementOfSeq
<1>5. DOMAIN c = 1..Len(c) /\ \A i \in 1..Len(c) : c[i] \in Str
  BY <1>1, LenProperties, ElementOfSeq
<1>6. ASSUME NEW i \in 1..Len(c), i # 1 PROVE <<COMMA>> \o c[i] \in Str
  <2>1. <<COMMA>> \in Str
    BY ChrType DEF Chr, COMMA
  <2> QED
    BY <2>1, <1>5, ConcatType
<1>7. r \in [1..Len(c) -> Str]
  BY <1>1, <1>5, <1>6 DEF Separated
<1>8. r \in Seq(Str) /\ Len(r) = Len(c)
  <2> HIDE DEF r
  <2> QED
    BY <1>1, <1>7
<1>9. r[1] = x
  BY <1>1, <1>5 DEF Separated
<1>10. ASSUME NEW i \in 1..Len(s) PROVE r[i + 1] = m[i]
  <2>1. i + 1 \in 1..Len(c) /\ i + 1 # 1
    BY <1>1
  <2>2. r[i + 1] = <<COMMA>> \o c[i + 1]
    BY <1>5, <2>1 DEF Separated
  <2>3. Comma[s[i]] = <<COMMA>> \o s[i]
    BY <1>4 DEF Comma, Cat, Chr
  <2> QED
    BY <2>2, <2>3, <1>1, <1>3
<1> HIDE DEF r
<1>11. r = Cons(x, m)
  <2>1. Len(r) = Len(m) + 1 /\ \A i \in 1..Len(m) : r[i + 1] = m[i]
    BY <1>1, <1>3, <1>8, <1>10
  <2> QED
    BY <2>1, <1>2, <1>8, <1>9, ConsEqual
<1> QED
  BY <1>11 DEF r, c, m

(* The join of a list that is not empty: its first part, then each of the  *)
(* others after a comma.                                                   *)
LEMMA BracketedCons ==
  ASSUME NEW x \in Str, NEW s \in Seq(Str)
  PROVE  Bracketed(Cons(x, s)) = Cat(Chr(OPEN), Cat(x, Terminated(Comma, CLOSE, s)))
<1> DEFINE m == Mapped(Comma, s)
           f == FlattenSeq(m)
           g == FlattenSeq(Separated(Cons(x, s)))
           h == <<x>>
           o == Chr(OPEN)
           e == Chr(CLOSE)
<1>1. m \in Seq(Str)
  BY CommaWrites, MappedType
<1>2. Separated(Cons(x, s)) = h \o m
  BY SeparatedIs DEF Cons
<1>3. h \in Seq(Str) /\ FlattenSeq(h) = x
  BY FlattenBase
<1> HIDE DEF h, m
<1>4. FlattenSeq(h \o m) = FlattenSeq(h) \o f
  BY <1>1, <1>3, FlattenConcat
<1>5. g = Cat(x, f)
  BY <1>2, <1>3, <1>4 DEF Cat
<1>6. f \in Str
  BY <1>1, FlattenBase
<1>7. o \in Str /\ e \in Str
  BY ChrType DEF OPEN, CLOSE
<1>8. Bracketed(Cons(x, s)) = Cat(Cat(o, g), e)
  BY DEF Bracketed, Separated, Cat, Chr
<1>9. Terminated(Comma, CLOSE, s) = Cat(f, e)
  BY DEF Terminated, Cat, Chr, m
<1> HIDE DEF f, g, o, e
<1>10. Cat(Cat(o, Cat(x, f)), e) = Cat(o, Cat(Cat(x, f), e)) /\ Cat(Cat(x, f), e) = Cat(x, Cat(f, e))
  <2>1. Cat(x, f) \in Str
    BY <1>6, CatType
  <2> QED
    BY <2>1, <1>6, <1>7, CatRight
<1>11. Bracketed(Cons(x, s)) = Cat(o, Cat(x, Cat(f, e)))
  BY <1>5, <1>8, <1>10
<1> QED
  BY <1>9, <1>11 DEF o

(* The empty list is two brackets.                                         *)
LEMMA BracketedNone == Bracketed(<<>>) = Cat(Chr(OPEN), Chr(CLOSE))
<1>1. [i \in DOMAIN <<>> |-> IF i = 1 THEN <<>>[i] ELSE <<COMMA>> \o <<>>[i]] = <<>>
  OBVIOUS
<1>2. <<OPEN>> \o <<>> = <<OPEN>>
  BY ConcatNone, ChrType DEF Chr, OPEN
<1> QED
  BY <1>1, <1>2, FlattenBase DEF Bracketed, Cat, Chr

(* CommaOf writes texts.                                                   *)
LEMMA CommaOfIs ==
  ASSUME NEW D, NEW Q, Writes(Q, D, Str)
  PROVE  /\ Writes(CommaOf(Q), D, Str)
         /\ \A x \in D : CommaOf(Q)[x] = Cat(Chr(COMMA), Q[x])
<1>1. DOMAIN Q = D /\ \A x \in D : Q[x] \in Str
  BY DEF Writes
<1>2. Chr(COMMA) \in Str
  BY ChrType DEF COMMA
<1>3. \A x \in D : Cat(Chr(COMMA), Q[x]) \in Str
  BY <1>1, <1>2, CatType
<1> QED
  BY <1>1, <1>3 DEF CommaOf, Writes

(* Commas before the codes, or codes with a comma: the same.               *)
LEMMA CommaOfMapped ==
  ASSUME NEW D, NEW Q, Writes(Q, D, Str), NEW s \in Seq(D)
  PROVE  Mapped(Comma, Mapped(Q, s)) = Mapped(CommaOf(Q), s)
<1> DEFINE m == Mapped(Q, s)
           a == Mapped(Comma, m)
           b == Mapped(CommaOf(Q), s)
<1>1. m \in Seq(Str) /\ Len(m) = Len(s) /\ \A i \in 1..Len(s) : m[i] = Q[s[i]]
  BY MappedType, MappedIs
<1> HIDE DEF m
<1>2. a \in Seq(Str) /\ Len(a) = Len(m) /\ \A i \in 1..Len(m) : a[i] = Comma[m[i]]
  BY <1>1, CommaWrites, MappedType, MappedIs
<1>3. b \in Seq(Str) /\ Len(b) = Len(s) /\ \A i \in 1..Len(s) : b[i] = CommaOf(Q)[s[i]]
  BY CommaOfIs, MappedType, MappedIs
<1> HIDE DEF a, b
<1>4. ASSUME NEW i \in 1..Len(s) PROVE a[i] = b[i]
  <2>1. s[i] \in D /\ Q[s[i]] \in Str
    BY ElementOfSeq DEF Writes
  <2>2. Comma[Q[s[i]]] = Cat(Chr(COMMA), Q[s[i]])
    BY <2>1 DEF Comma
  <2>3. CommaOf(Q)[s[i]] = Cat(Chr(COMMA), Q[s[i]])
    BY <2>1, CommaOfIs
  <2> QED
    BY <2>2, <2>3, <1>1, <1>2, <1>3
<1>5. a = b
  BY <1>1, <1>2, <1>3, <1>4, SeqEqual
<1> QED
  BY <1>5 DEF a, b, m

(* A code with a comma in front can be read back, and does not start with  *)
(* the closing bracket.                                                    *)
LEMMA CommaOfDelimited ==
  ASSUME NEW D, NEW Q, Delimited(D, Q)
  PROVE  Delimited(D, CommaOf(Q)) /\ StartsWithout(D, CommaOf(Q), CLOSE)
<1> DEFINE R == CommaOf(Q)
           k == Chr(COMMA)
<1>1. /\ Writes(R, D, Str) /\ \A x \in D : R[x] = Cat(k, Q[x])
  BY CommaOfIs DEF Delimited
<1>2. \A x \in D : Q[x] \in Str
  BY DEF Delimited, Writes
<1>3. k \in Str /\ Len(k) = 1
  BY ChrType DEF COMMA, Chr
<1>4. \A w \in Str : Cat(k, w)[1] = COMMA /\ Cat(k, w) # <<>>
  <2>1. ASSUME NEW w \in Str PROVE Cat(k, w)[1] = COMMA
    BY First DEF COMMA
  <2>2. ASSUME NEW w \in Str PROVE Cat(k, w) # <<>>
    <3> HIDE DEF k
    <3>1. Len(Cat(k, w)) = Len(k) + Len(w) /\ Len(w) \in Nat
      BY <1>3, ConcatProperties, LenProperties DEF Cat, Str
    <3>2. Len(Cat(k, w)) # 0
      BY <3>1, <1>3
    <3> QED
      BY <3>2
  <2> QED
    BY <2>1, <2>2
<1> HIDE DEF R, k
<1>5. StartsWithout(D, R, CLOSE)
  BY <1>1, <1>2, <1>4 DEF StartsWithout, COMMA, CLOSE
<1>6. ASSUME NEW x \in D, NEW y \in D, NEW u \in Str, NEW v \in Str,
             Cat(R[x], u) = Cat(R[y], v)
      PROVE  x = y /\ u = v
  <2> DEFINE p == Q[x]
             q == Q[y]
             a == Cat(p, u)
             b == Cat(q, v)
  <2>1. p \in Str /\ q \in Str /\ R[x] = Cat(k, p) /\ R[y] = Cat(k, q)
    BY <1>1, <1>2
  <2> HIDE DEF p, q
  <2>2. a \in Str /\ b \in Str
    BY <2>1, CatType
  <2>3. Cat(R[x], u) = Cat(k, a) /\ Cat(R[y], v) = Cat(k, b)
    BY <1>3, <2>1, CatRight
  <2> HIDE DEF a, b
  <2>4. a = b
    <3>1. Cat(k, a) = Cat(k, b)
      BY <1>6, <2>3
    <3> QED
      BY <3>1, <1>3, <2>2, CatCancel
  <2>5. Cat(Q[x], u) = Cat(Q[y], v)
    BY <2>4 DEF a, b, p, q
  <2>6. x = y
    BY <2>5 DEF Delimited
  <2>7. u = v
    BY <2>5 DEF Delimited
  <2> QED
    BY <2>6, <2>7
<1>7. Delimited(D, R)
  BY <1>1, <1>6 DEF Delimited
<1> QED
  BY <1>5, <1>7 DEF R

(* A list as Bracketed() writes it: the bracket, and what follows it.      *)
LEMMA OpenedIs ==
  ASSUME NEW D, NEW Q, Writes(Q, D, Str), NEW s \in Seq(D)
  PROVE  /\ Bracketed(Mapped(Q, s)) = Cat(Chr(OPEN), Opened(Q, s))
         /\ Opened(Q, s) \in Str
<1>0. CLOSE \in Nat
  BY DEF CLOSE
<1>1. CASE s = <<>>
  <2>1. Mapped(Q, s) = <<>>
    BY <1>1, MappedBase
  <2> QED
    BY <1>0, <1>1, <2>1, BracketedNone, ChrType DEF Opened
<1>2. CASE s # <<>>
  <2> DEFINE x == Head(s)
             r == Tail(s)
             m == Mapped(Q, r)
             h == <<x>>
             q == Q[x]
             e == Terminated(CommaOf(Q), CLOSE, r)
  <2>1. x \in D /\ r \in Seq(D) /\ s = Cons(x, r)
    BY <1>2, HeadTail, ConsIs
  <2>2. Opened(Q, s) = Cat(q, e)
    BY <1>2 DEF Opened
  <2> HIDE DEF x, r
  <2>3. q \in Str
    BY <2>1 DEF Writes
  <2>4. e \in Str
    BY <1>0, <2>1, CommaOfIs, TerminatedType
  <2>5. m \in Seq(Str)
    BY <2>1, MappedType
  <2>6. Mapped(Q, s) = Cons(q, m)
    <3>1. h \in Seq(D)
      BY <2>1
    <3>2. Mapped(Q, h) = <<q>>
      BY <2>1, MappedBase
    <3> HIDE DEF h
    <3>3. Mapped(Q, h \o r) = Mapped(Q, h) \o m
      BY <2>1, <3>1, MappedConcat
    <3>4. s = h \o r
      BY <2>1 DEF Cons, h
    <3> HIDE DEF q, m
    <3> QED
      BY <3>2, <3>3, <3>4 DEF Cons
  <2>7. Mapped(Comma, m) = Mapped(CommaOf(Q), r)
    BY <2>1, CommaOfMapped
  <2>8. Terminated(Comma, CLOSE, m) = e
    BY <2>7 DEF Terminated
  <2> HIDE DEF q, m, e
  <2>9. Bracketed(Cons(q, m)) = Cat(Chr(OPEN), Cat(q, e))
    BY <2>3, <2>5, <2>8, BracketedCons
  <2> QED
    BY <2>2, <2>3, <2>4, <2>6, <2>9, CatType
<1> QED
  BY <1>1, <1>2

(* Lists of codes that can be read back can be read back.                  *)
LEMMA OpenedReads ==
  ASSUME NEW D, NEW Q, Delimited(D, Q), StartsWithout(D, Q, CLOSE),
         NEW s \in Seq(D), NEW t \in Seq(D), NEW u \in Str, NEW v \in Str,
         Cat(Opened(Q, s), u) = Cat(Opened(Q, t), v)
  PROVE  s = t /\ u = v
<1> DEFINE E(r) == Terminated(CommaOf(Q), CLOSE, r)
           Rest(r, w) == Cat(E(Tail(r)), w)
<1>0. CLOSE \in Nat /\ Chr(CLOSE) \in Str /\ Writes(Q, D, Str) /\ \A x \in D : Q[x] \in Str
  BY ChrType DEF CLOSE, Delimited, Writes
<1>1. \A r \in Seq(D) : E(r) \in Str
  BY <1>0, CommaOfIs, TerminatedType
<1> HIDE DEF E
<1>2. ASSUME NEW r \in Seq(D), r # <<>>, NEW w \in Str
      PROVE  /\ Head(r) \in D /\ Tail(r) \in Seq(D) /\ Rest(r, w) \in Str
             /\ Cat(Opened(Q, r), w) = Cat(Q[Head(r)], Rest(r, w))
  <2> DEFINE x == Head(r)
             p == Tail(r)
             q == Q[x]
             e == E(p)
  <2>1. x \in D /\ p \in Seq(D)
    BY <1>2, HeadTail
  <2>2. Opened(Q, r) = Cat(q, e)
    BY <1>2 DEF Opened, E
  <2> HIDE DEF x, p
  <2>3. q \in Str /\ e \in Str
    BY <1>0, <1>1, <2>1
  <2> HIDE DEF q, e
  <2>4. Cat(e, w) \in Str /\ Cat(Cat(q, e), w) = Cat(q, Cat(e, w))
    BY <2>3, CatType, CatRight
  <2> QED
    BY <2>1, <2>2, <2>4 DEF x, p, q, e
<1>3. ASSUME NEW r \in Seq(D), r # <<>>, NEW w \in Str, NEW z \in Str
      PROVE  Cat(Opened(Q, <<>>), z) # Cat(Opened(Q, r), w)
  <2> DEFINE q == Q[Head(r)]
             b == Rest(r, w)
  <2>1. Head(r) \in D /\ b \in Str /\ Cat(Opened(Q, r), w) = Cat(q, b)
    BY <1>2, <1>3
  <2>2. q \in Str /\ q # <<>> /\ q[1] # CLOSE
    BY <1>0, <2>1 DEF StartsWithout
  <2> HIDE DEF q, b
  <2>3. Cat(q, b)[1] = q[1]
    BY <2>1, <2>2, First
  <2>4. Cat(Chr(CLOSE), z)[1] = CLOSE
    BY <1>0, First
  <2>5. Opened(Q, <<>>) = Chr(CLOSE)
    BY DEF Opened
  <2> QED
    BY <2>1, <2>2, <2>3, <2>4, <2>5
<1>4. CASE s = <<>>
  <2>1. t = <<>>
    BY <1>3, <1>4
  <2>2. Cat(Chr(CLOSE), u) = Cat(Chr(CLOSE), v)
    BY <1>4, <2>1 DEF Opened
  <2>3. u = v
    BY <1>0, <2>2, CatCancel
  <2> QED
    BY <1>4, <2>1, <2>3
<1>5. CASE s # <<>>
  <2>1. t # <<>>
    BY <1>3, <1>5
  <2> DEFINE x == Head(s)
             y == Head(t)
             a == Rest(s, u)
             b == Rest(t, v)
  <2>2. x \in D /\ Tail(s) \in Seq(D) /\ a \in Str /\ Cat(Opened(Q, s), u) = Cat(Q[x], a)
    BY <1>2, <1>5
  <2>3. y \in D /\ Tail(t) \in Seq(D) /\ b \in Str /\ Cat(Opened(Q, t), v) = Cat(Q[y], b)
    BY <1>2, <2>1
  <2>4. Cat(Q[x], a) = Cat(Q[y], b)
    BY <2>2, <2>3
  <2>5. x = y /\ a = b
    <3> HIDE DEF x, y, a, b
    <3>1. \A g, h \in D, k, l \in Str : Cat(Q[g], k) = Cat(Q[h], l) => g = h /\ k = l
      BY DEF Delimited
    <3>2. x = y
      BY <2>2, <2>3, <2>4, <3>1
    <3>3. a = b
      BY <2>2, <2>3, <2>4, <3>1
    <3> QED
      BY <3>2, <3>3
  <2>6. Cat(E(Tail(s)), u) = Cat(E(Tail(t)), v)
    BY <2>5
  <2>7. Tail(s) = Tail(t) /\ u = v
    <3> DEFINE R == CommaOf(Q)
               p == Tail(s)
               q == Tail(t)
    <3>1. Delimited(D, R) /\ StartsWithout(D, R, CLOSE)
      BY CommaOfDelimited
    <3>2. Cat(Terminated(R, CLOSE, p), u) = Cat(Terminated(R, CLOSE, q), v)
      BY <2>6 DEF E
    <3>3. p \in Seq(D) /\ q \in Seq(D)
      BY <2>2, <2>3
    <3> HIDE DEF R, p, q
    <3>4. p = q /\ u = v
      BY <1>0, <3>1, <3>2, <3>3, TerminatedDelimits
    <3> QED
      BY <3>4 DEF p, q
  <2>8. s = Cons(Head(s), Tail(s)) /\ t = Cons(Head(t), Tail(t))
    BY <1>5, <2>1, ConsIs
  <2> QED
    BY <2>5, <2>7, <2>8
<1> QED
  BY <1>4, <1>5

(* Bracketed lists of codes can be read back, whatever follows them.       *)
LEMMA BracketsDelimited ==
  ASSUME NEW D, NEW Q, Delimited(D, Q), StartsWithout(D, Q, CLOSE)
  PROVE  Delimited(Seq(D), BracketsCode(D, Q)) /\ StartsWithout(Seq(D), BracketsCode(D, Q), CLOSE)
<1> DEFINE B == BracketsCode(D, Q)
           o == Chr(OPEN)
           P(s) == Opened(Q, s)
<1>0. o \in Str /\ Len(o) = 1 /\ Writes(Q, D, Str) /\ OPEN \in Nat /\ OPEN # CLOSE
  BY ChrType DEF OPEN, CLOSE, Delimited, Chr
<1>1. \A s \in Seq(D) : P(s) \in Str /\ B[s] = Cat(o, P(s))
  BY <1>0, OpenedIs DEF BracketsCode
<1>2. B = [s \in Seq(D) |-> B[s]]
  BY DEF BracketsCode
<1>3. \A w \in Str : Cat(o, w)[1] = OPEN
  BY <1>0, First
<1>a. ASSUME NEW s \in Seq(D), NEW t \in Seq(D), NEW u \in Str, NEW v \in Str,
             Cat(P(s), u) = Cat(P(t), v)
      PROVE  s = t /\ u = v
  BY <1>a, OpenedReads
<1> HIDE DEF B, o, P
<1>4. \A w \in Str : Cat(o, w) \in Str /\ Cat(o, w) # <<>>
  <2>1. ASSUME NEW w \in Str PROVE Cat(o, w) # <<>>
    <3>1. Len(Cat(o, w)) = Len(o) + Len(w) /\ Len(w) \in Nat
      BY <1>0, ConcatProperties, LenProperties DEF Cat, Str
    <3>2. Len(Cat(o, w)) # 0
      BY <3>1, <1>0
    <3> QED
      BY <3>2
  <2> QED
    BY <2>1, <1>0, CatType
<1>5. Writes(B, Seq(D), Str)
  <2>1. \A s \in Seq(D) : B[s] \in Str
    BY <1>1, <1>4
  <2> QED
    BY <1>2, <2>1 DEF Writes
<1>6. StartsWithout(Seq(D), B, CLOSE)
  BY <1>0, <1>1, <1>3, <1>4 DEF StartsWithout
<1>7. ASSUME NEW s \in Seq(D), NEW t \in Seq(D), NEW u \in Str, NEW v \in Str,
             Cat(B[s], u) = Cat(B[t], v)
      PROVE  s = t /\ u = v
  <2> DEFINE p == P(s)
             q == P(t)
             a == Cat(p, u)
             b == Cat(q, v)
  <2>1. p \in Str /\ q \in Str /\ B[s] = Cat(o, p) /\ B[t] = Cat(o, q)
    BY <1>1
  <2>2. a \in Str /\ b \in Str
    BY <2>1, CatType
  <2>3. Cat(B[s], u) = Cat(o, a) /\ Cat(B[t], v) = Cat(o, b)
    BY <1>0, <2>1, CatRight
  <2>4. a = b
    <3>1. Cat(o, a) = Cat(o, b)
      BY <1>7, <2>3
    <3> HIDE DEF a, b
    <3> QED
      BY <3>1, <1>0, <2>2, CatCancel
  <2> QED
    BY <2>4, <1>a
<1>8. Delimited(Seq(D), B)
  BY <1>5, <1>7 DEF Delimited
<1> QED
  BY <1>6, <1>8 DEF B

(* One tag: a list of quoted strings.                                      *)
TagCode == BracketsCode(Str, QuotedCode)

(* The tags: a list of those.                                              *)
TagsCode == BracketsCode(Seq(Str), TagCode)

(* Tags can be read back: no string in one reaches over its quotes, and no *)
(* tag over its brackets.                                                  *)
LEMMA TagsDelimited ==
  /\ Delimited(Seq(Str), TagCode) /\ StartsWithout(Seq(Str), TagCode, CLOSE)
  /\ Delimited(Seq(Seq(Str)), TagsCode)
<1>1. Delimited(Str, QuotedCode) /\ StartsWithout(Str, QuotedCode, CLOSE)
  BY QuotedDelimited
<1>2. Delimited(Seq(Str), TagCode) /\ StartsWithout(Seq(Str), TagCode, CLOSE)
  BY <1>1, BracketsDelimited DEF TagCode
<1>3. Delimited(Seq(Seq(Str)), TagsCode)
  BY <1>2, BracketsDelimited DEF TagsCode
<1> QED
  BY <1>2, <1>3

(* serialize_tags() writes a tag as a list of strings, and the tags as a   *)
(* list of those.                                                          *)
LEMMA TagsAre ==
  ASSUME NEW tags \in Seq(Seq(Str))
  PROVE  serialize_tags(tags) = Bracketed(Mapped(TagCode, tags)) /\ TagsCode[tags] = serialize_tags(tags)
<1>1. ASSUME NEW i \in DOMAIN tags
      PROVE  Bracketed([j \in DOMAIN tags[i] |-> Quoted(tags[i][j])]) = TagCode[tags[i]]
  <2> DEFINE t == tags[i]
  <2>1. t \in Seq(Str)
    BY LenProperties, ElementOfSeq
  <2> HIDE DEF t
  <2>2. \A j \in DOMAIN t : t[j] \in Str
    BY <2>1, LenProperties, ElementOfSeq
  <2>3. [j \in DOMAIN t |-> Quoted(t[j])] = Mapped(QuotedCode, t)
    BY <2>2 DEF Mapped, QuotedCode
  <2>4. TagCode[t] = Bracketed(Mapped(QuotedCode, t))
    BY <2>1 DEF TagCode, BracketsCode
  <2> QED
    BY <2>3, <2>4 DEF t
<1>2. [i \in DOMAIN tags |-> Bracketed([j \in DOMAIN tags[i] |-> Quoted(tags[i][j])])]
      = Mapped(TagCode, tags)
  BY <1>1, Zenon DEF Mapped
<1>3. serialize_tags(tags) = Bracketed(Mapped(TagCode, tags))
  BY <1>2 DEF serialize_tags
<1>4. TagsCode[tags] = Bracketed(Mapped(TagCode, tags))
  BY DEF TagsCode, BracketsCode
<1> QED
  BY <1>3, <1>4

-----------------------------------------------------------------------------
(* Numbers.                                                                *)

(* The characters 0 to 9.                                                  *)
Digit == 48..57

(* What is left of a number without its last digit.                        *)
Tenth == [n \in Nat |-> n \div 10]

(* The character of the last digit.                                        *)
LastDigit(n) == ZERO + (n % 10)

(* What div and mod by 10 do.                                              *)
LEMMA Tenths ==
  ASSUME NEW n \in Nat
  PROVE  /\ n \div 10 \in Nat /\ n % 10 \in 0..9 /\ n = 10 * (n \div 10) + (n % 10)
         /\ n \div 10 = 0 <=> n \in 0..9
         /\ n \notin 0..9 => n \div 10 < n
         /\ n \in 0..9 => n % 10 = n
         /\ LastDigit(n) \in Digit
  BY DEF LastDigit, ZERO, Digit

(* Digits are characters.                                                  *)
LEMMA DigitsAreText == Seq(Digit) \subseteq Str /\ Digit \subseteq Nat
  BY DEF Str, Digit

(* Decimal is the function its definition says, and writes digits only.    *)
LEMMA DecimalIs ==
  /\ Decimal \in [Nat -> Seq(Digit)]
  /\ \A n \in Nat : Decimal[n] = IF n \in 0..9 THEN <<LastDigit(n)>>
                                 ELSE Append(Decimal[n \div 10], LastDigit(n))
<1> DEFINE base == [n \in Nat |-> <<LastDigit(n)>>]
           step == [p \in Nat \X Seq(Digit) |-> Append(p[2], LastDigit(p[1]))]
           B == 0..9
           Holds(g) == g = [n \in Nat |-> IF n < 10 THEN <<ZERO + n>>
                                          ELSE Append(g[n \div 10], ZERO + (n % 10))]
<1>1. base \in [Nat -> Seq(Digit)] /\ Tenth \in [Nat -> Nat] /\ \A n \in Nat \ B : Tenth[n] < n
  BY Tenths DEF Tenth
<1>2. step \in [Nat \X Seq(Digit) -> Seq(Digit)]
  BY Tenths
<1>3. PICK f : Recursive(f, Seq(Digit), B, base, step, Tenth)
  <2> HIDE DEF base, step, B
  <2> QED
    BY <1>1, <1>2, Recursion
<1>4. f \in [Nat -> Seq(Digit)]
  BY <1>3 DEF Recursive
<1>5. ASSUME NEW n \in Nat
      PROVE  f[n] = IF n \in 0..9 THEN <<LastDigit(n)>> ELSE Append(f[n \div 10], LastDigit(n))
  <2>1. f[n] = IF n \in B THEN base[n] ELSE step[<<n, f[n \div 10]>>]
    <3> HIDE DEF base, step, B
    <3> QED
      BY <1>3 DEF Recursive, Tenth
  <2>2. f[n \div 10] \in Seq(Digit)
    BY <1>4, Tenths
  <2>3. step[<<n, f[n \div 10]>>] = Append(f[n \div 10], LastDigit(n))
    BY <2>2
  <2> QED
    BY <2>1, <2>3
<1>6. Holds(f)
  <2>1. ASSUME NEW n \in Nat
        PROVE  f[n] = IF n < 10 THEN <<ZERO + n>> ELSE Append(f[n \div 10], ZERO + (n % 10))
    <3>1. n < 10 <=> n \in 0..9
      OBVIOUS
    <3>2. CASE n < 10
      BY <3>1, <3>2, <1>5, Tenths DEF LastDigit
    <3>3. CASE ~(n < 10)
      BY <3>1, <3>3, <1>5 DEF LastDigit
    <3> QED
      BY <3>2, <3>3
  <2>2. f = [n \in Nat |-> f[n]]
    BY <1>4
  <2> QED
    BY <2>1, <2>2
<1>7. Holds(CHOOSE g : Holds(g))
  <2> HIDE DEF Holds
  <2> QED
    BY <1>6, Zenon
<1>8. Decimal = CHOOSE g : Holds(g)
  BY Zenon DEF Decimal
<1>9. Holds(Decimal)
  <2> HIDE DEF Holds
  <2> QED
    BY <1>7, <1>8, Zenon
<1> DEFINE T == {n \in Nat : Decimal[n] = f[n]}
<1>10. ASSUME NEW n \in Nat, \A m \in 0..(n - 1) : m \in T
       PROVE  n \in T
  <2>1. Decimal[n] = IF n < 10 THEN <<ZERO + n>> ELSE Append(Decimal[n \div 10], ZERO + (n % 10))
    <3>1. [m \in Nat |-> IF m < 10 THEN <<ZERO + m>>
                         ELSE Append(Decimal[m \div 10], ZERO + (m % 10))][n]
          = IF n < 10 THEN <<ZERO + n>> ELSE Append(Decimal[n \div 10], ZERO + (n % 10))
      OBVIOUS
    <3> QED
      BY <1>9, <3>1, Zenon
  <2>2. CASE n < 10
    <3>1. n \in 0..9
      BY <2>2
    <3> QED
      BY <2>1, <2>2, <3>1, <1>5, Tenths DEF LastDigit
  <2>3. CASE ~(n < 10)
    <3>1. n \notin 0..9 /\ n \div 10 \in 0..(n - 1)
      BY <2>3
    <3>2. Decimal[n \div 10] = f[n \div 10]
      BY <3>1, <1>10
    <3> QED
      BY <2>1, <2>3, <3>1, <3>2, <1>5 DEF LastDigit
  <2> QED
    BY <2>2, <2>3
<1> HIDE DEF T
<1>11. Nat \subseteq T
  BY <1>10, Induction, Zenon
<1>12. \A n \in Nat : Decimal[n] = f[n]
  BY <1>11 DEF T
<1>13. Decimal = [n \in Nat |-> Decimal[n]]
  <2> DEFINE h == [n \in Nat |-> IF n < 10 THEN <<ZERO + n>>
                                 ELSE Append(Decimal[n \div 10], ZERO + (n % 10))]
  <2>1. Decimal = h
    BY <1>9, Zenon
  <2>2. h = [n \in Nat |-> h[n]]
    OBVIOUS
  <2> QED
    BY <2>1, <2>2, Zenon
<1>14. Decimal = f
  BY <1>12, <1>13, <1>4
<1> QED
  BY <1>14, <1>4, <1>5

(* The digits as the mining loop writes them.                             *)
LEMMA WrittenIs ==
  /\ Written \in [Nat -> Seq(Digit)]
  /\ \A n \in Nat : Written[n] = IF n \in 0..9 THEN <<LastDigit(n)>>
                                 ELSE Cons(LastDigit(n), Written[n \div 10])
<1> DEFINE base == [n \in Nat |-> <<LastDigit(n)>>]
           step == [p \in Nat \X Seq(Digit) |-> Cons(LastDigit(p[1]), p[2])]
           B == 0..9
           Holds(g) == g = [n \in Nat |-> IF n \div 10 = 0 THEN <<ZERO + (n % 10)>>
                                          ELSE <<ZERO + (n % 10)>> \o g[n \div 10]]
<1>1. base \in [Nat -> Seq(Digit)] /\ Tenth \in [Nat -> Nat] /\ \A n \in Nat \ B : Tenth[n] < n
  BY Tenths DEF Tenth
<1>2. step \in [Nat \X Seq(Digit) -> Seq(Digit)]
  BY Tenths, ConsProperties
<1>3. PICK f : Recursive(f, Seq(Digit), B, base, step, Tenth)
  <2> HIDE DEF base, step, B
  <2> QED
    BY <1>1, <1>2, Recursion
<1>4. f \in [Nat -> Seq(Digit)]
  BY <1>3 DEF Recursive
<1>5. ASSUME NEW n \in Nat
      PROVE  f[n] = IF n \in 0..9 THEN <<LastDigit(n)>> ELSE Cons(LastDigit(n), f[n \div 10])
  <2>1. f[n] = IF n \in B THEN base[n] ELSE step[<<n, f[n \div 10]>>]
    <3> HIDE DEF base, step, B
    <3> QED
      BY <1>3 DEF Recursive, Tenth
  <2>2. f[n \div 10] \in Seq(Digit)
    BY <1>4, Tenths
  <2>3. step[<<n, f[n \div 10]>>] = Cons(LastDigit(n), f[n \div 10])
    BY <2>2
  <2> QED
    BY <2>1, <2>3
<1>6. Holds(f)
  <2>1. ASSUME NEW n \in Nat
        PROVE  f[n] = IF n \div 10 = 0 THEN <<ZERO + (n % 10)>> ELSE <<ZERO + (n % 10)>> \o f[n \div 10]
    <3>1. n \div 10 = 0 <=> n \in 0..9
      OBVIOUS
    <3>2. CASE n \div 10 = 0
      BY <3>1, <3>2, <1>5, Tenths DEF LastDigit, Cons
    <3>3. CASE ~(n \div 10 = 0)
      BY <3>1, <3>3, <1>5 DEF LastDigit, Cons
    <3> QED
      BY <3>2, <3>3
  <2>2. f = [n \in Nat |-> f[n]]
    BY <1>4
  <2> QED
    BY <2>1, <2>2
<1>7. Holds(CHOOSE g : Holds(g))
  <2> HIDE DEF Holds
  <2> QED
    BY <1>6, Zenon
<1>8. Written = CHOOSE g : Holds(g)
  BY Zenon DEF Written
<1>9. Holds(Written)
  <2> HIDE DEF Holds
  <2> QED
    BY <1>7, <1>8, Zenon
<1> DEFINE T == {n \in Nat : Written[n] = f[n]}
<1>10. ASSUME NEW n \in Nat, \A m \in 0..(n - 1) : m \in T
       PROVE  n \in T
  <2>1. Written[n] = IF n \div 10 = 0 THEN <<ZERO + (n % 10)>> ELSE <<ZERO + (n % 10)>> \o Written[n \div 10]
    <3>1. [m \in Nat |-> IF m \div 10 = 0 THEN <<ZERO + (m % 10)>>
                         ELSE <<ZERO + (m % 10)>> \o Written[m \div 10]][n]
          = IF n \div 10 = 0 THEN <<ZERO + (n % 10)>> ELSE <<ZERO + (n % 10)>> \o Written[n \div 10]
      OBVIOUS
    <3> QED
      BY <1>9, <3>1, Zenon
  <2>2. CASE n \div 10 = 0
    <3>1. n \in 0..9
      BY <2>2
    <3> QED
      BY <2>1, <2>2, <3>1, <1>5, Tenths DEF LastDigit, Cons
  <2>3. CASE ~(n \div 10 = 0)
    <3>1. n \notin 0..9 /\ n \div 10 \in 0..(n - 1)
      BY <2>3
    <3>2. Written[n \div 10] = f[n \div 10]
      BY <3>1, <1>10
    <3> QED
      BY <2>1, <2>3, <3>1, <3>2, <1>5 DEF LastDigit, Cons
  <2> QED
    BY <2>2, <2>3
<1> HIDE DEF T
<1>11. Nat \subseteq T
  BY <1>10, Induction, Zenon
<1>12. \A n \in Nat : Written[n] = f[n]
  BY <1>11 DEF T
<1>13. Written = [n \in Nat |-> Written[n]]
  <2> DEFINE h == [n \in Nat |-> IF n \div 10 = 0 THEN <<ZERO + (n % 10)>>
                                 ELSE <<ZERO + (n % 10)>> \o Written[n \div 10]]
  <2>1. Written = h
    BY <1>9, Zenon
  <2>2. h = [n \in Nat |-> h[n]]
    OBVIOUS
  <2> QED
    BY <2>1, <2>2, Zenon
<1>14. Written = f
  BY <1>12, <1>13, <1>4
<1> QED
  BY <1>14, <1>4, <1>5

(* The reverse of a sequence put after a value.                            *)
LEMMA ReverseCons ==
  ASSUME NEW S, NEW x \in S, NEW s \in Seq(S)
  PROVE  Reverse(Cons(x, s)) = Append(Reverse(s), x)
<1> DEFINE c == Cons(x, s)
           n == Len(s)
           r == Reverse(s)
<1>1. /\ c \in Seq(S) /\ Len(c) = n + 1 /\ n \in Nat /\ c[1] = x
      /\ \A i \in 1..n : c[i + 1] = s[i]
  BY ConsProperties
<1> HIDE DEF c, n
<1>2. Reverse(c) = [i \in 1..Len(c) |-> c[(Len(c) - i) + 1]]
  BY DEF Reverse
<1>3. r = [i \in 1..n |-> s[(n - i) + 1]]
  BY DEF Reverse, n
<1>4. r \in Seq(S) /\ Len(r) = n /\ \A i \in 1..n : r[i] = s[(n - i) + 1]
  <2>1. \A i \in 1..n : s[i] \in S
    BY ElementOfSeq DEF n
  <2>2. \A i \in 1..n : (n - i) + 1 \in 1..n
    BY <1>1
  <2>3. r \in [1..n -> S]
    BY <1>3, <2>1, <2>2
  <2> HIDE DEF r
  <2> QED
    BY <1>1, <1>3, <2>3
<1> HIDE DEF r
<1> DEFINE a == Append(r, x)
<1>5. a \in Seq(S) /\ Len(a) = n + 1 /\ a[n + 1] = x /\ \A i \in 1..n : a[i] = r[i]
  BY <1>4, AppendProperties
<1> HIDE DEF a
<1>6. ASSUME NEW i \in 1..(n + 1)
      PROVE  c[((n + 1) - i) + 1] = a[i] /\ c[((n + 1) - i) + 1] \in S
  <2>1. CASE i = n + 1
    BY <1>1, <1>5, <2>1
  <2>2. CASE i # n + 1
    <3>1. i \in 1..n /\ (n - i) + 1 \in 1..n /\ ((n + 1) - i) + 1 = ((n - i) + 1) + 1
      BY <1>1, <2>2
    <3>2. c[((n - i) + 1) + 1] = s[(n - i) + 1]
      BY <1>1, <3>1
    <3>3. a[i] = s[(n - i) + 1]
      BY <1>4, <1>5, <3>1
    <3>4. s[(n - i) + 1] \in S
      BY <3>1, ElementOfSeq DEF n
    <3> QED
      BY <3>1, <3>2, <3>3, <3>4
  <2> QED
    BY <2>1, <2>2
<1> DEFINE b == Reverse(c)
<1>7. b \in [1..(n + 1) -> S] /\ \A i \in 1..(n + 1) : b[i] = a[i]
  BY <1>1, <1>2, <1>6
<1> HIDE DEF b
<1>8. b \in Seq(S) /\ Len(b) = n + 1
  BY <1>1, <1>7
<1>9. b = a
  BY <1>5, <1>7, <1>8, SeqEqual
<1> QED
  BY <1>9 DEF a, b, c, r

(* The nonce in the fast path reads as the nonce of its tag.               *)
LEMMA NonceIsDecimal == \A n \in Nat : NonceDigits(n) = Decimal[n]
<1> DEFINE T == {n \in Nat : Reverse(Written[n]) = Decimal[n]}
<1>1. ASSUME NEW n \in Nat, \A m \in 0..(n - 1) : m \in T
      PROVE  n \in T
  <2> DEFINE x == LastDigit(n)
  <2>1. x \in Digit
    BY Tenths
  <2> HIDE DEF x
  <2>2. CASE n \in 0..9
    <3>1. Written[n] = <<x>> /\ Decimal[n] = <<x>>
      BY <2>2, WrittenIs, DecimalIs DEF x
    <3>2. Reverse(<<x>>) = <<x>>
      BY DEF Reverse
    <3> QED
      BY <3>1, <3>2
  <2>3. CASE n \notin 0..9
    <3> DEFINE m == n \div 10
               w == Written[m]
    <3>1. m \in 0..(n - 1) /\ m \in Nat
      BY <2>3
    <3>2. Reverse(w) = Decimal[m]
      BY <3>1, <1>1
    <3>3. w \in Seq(Digit) /\ Written[n] = Cons(x, w) /\ Decimal[n] = Append(Decimal[m], x)
      BY <2>3, <3>1, WrittenIs, DecimalIs DEF x
    <3> HIDE DEF w, m
    <3>4. Reverse(Cons(x, w)) = Append(Reverse(w), x)
      BY <2>1, <3>3, ReverseCons
    <3> QED
      BY <3>2, <3>3, <3>4
  <2> QED
    BY <2>2, <2>3
<1> HIDE DEF T
<1>2. Nat \subseteq T
  BY <1>1, Induction, Zenon
<1> QED
  BY <1>2 DEF T, NonceDigits

(* Different numbers have different digits.                                *)
LEMMA DecimalInjective ==
  ASSUME NEW n \in Nat, NEW m \in Nat, Decimal[n] = Decimal[m]
  PROVE  n = m
<1> DEFINE T == {k \in Nat : \A l \in Nat : Decimal[k] = Decimal[l] => k = l}
<1>0. \A k \in Nat : Decimal[k] \in Seq(Digit) /\ LastDigit(k) \in Digit
  BY DecimalIs, Tenths
<1>1. ASSUME NEW k \in Nat, k \in 0..9
      PROVE  Len(Decimal[k]) = 1 /\ Decimal[k][1] = LastDigit(k)
  BY <1>1, DecimalIs
<1>2. ASSUME NEW s \in Seq(Digit), NEW d \in Digit
      PROVE  Len(Append(s, d)) = Len(s) + 1 /\ Append(s, d)[Len(s) + 1] = d
  OBVIOUS
<1>3. ASSUME NEW k \in Nat, k \notin 0..9
      PROVE  Len(Decimal[k]) # 1
  <2> DEFINE s == Decimal[k \div 10]
             d == LastDigit(k)
  <2>1. Decimal[k] = Append(s, d) /\ s \in Seq(Digit) /\ d \in Digit /\ k \div 10 \in Nat
    BY <1>0, <1>3, DecimalIs, Tenths
  <2>2. Len(s) >= 1
    <3>1. CASE k \div 10 \in 0..9
      BY <3>1, <2>1, <1>1
    <3>2. CASE k \div 10 \notin 0..9
      <4> DEFINE p == Decimal[(k \div 10) \div 10]
                 e == LastDigit(k \div 10)
      <4>1. s = Append(p, e) /\ p \in Seq(Digit) /\ e \in Digit
        <5>1. (k \div 10) \div 10 \in Nat
          BY <2>1, Tenths
        <5> QED
          BY <5>1, <1>0, <2>1, <3>2, DecimalIs
      <4> HIDE DEF p, e, s
      <4>2. Len(s) = Len(p) + 1 /\ Len(p) \in Nat
        BY <4>1, <1>2, LenProperties
      <4> QED
        BY <4>2
    <3> QED
      BY <3>1, <3>2
  <2> HIDE DEF s, d
  <2>3. Len(Decimal[k]) = Len(s) + 1 /\ Len(s) \in Nat
    BY <2>1, <1>2, LenProperties
  <2> QED
    BY <2>2, <2>3 DEF s
<1>4. ASSUME NEW k \in Nat, \A j \in 0..(k - 1) : j \in T
      PROVE  k \in T
  <2> SUFFICES ASSUME NEW l \in Nat, Decimal[k] = Decimal[l] PROVE k = l
    OBVIOUS
  <2>1. CASE k \in 0..9
    <3>1. l \in 0..9
      <4>1. Len(Decimal[l]) = 1
        BY <2>1, <1>1
      <4> QED
        BY <4>1, <1>3
    <3> QED
      BY <2>1, <3>1, <1>1, Tenths DEF LastDigit, ZERO
  <2>2. CASE k \notin 0..9
    <3>1. l \notin 0..9
      BY <2>2, <1>1, <1>3
    <3> DEFINE s == Decimal[k \div 10]
               t == Decimal[l \div 10]
               d == LastDigit(k)
               e == LastDigit(l)
    <3>2. /\ s \in Seq(Digit) /\ t \in Seq(Digit) /\ d \in Digit /\ e \in Digit
          /\ Decimal[k] = Append(s, d) /\ Decimal[l] = Append(t, e)
      BY <2>2, <3>1, <1>0, DecimalIs, Tenths
    <3> HIDE DEF s, t, d, e
    <3>3. s = t /\ d = e
      <4>1. Append(s, d) = Append(t, e)
        BY <3>2
      <4> QED
        BY <4>1, <3>2, AppendInjective
    <3>4. k \div 10 \in 0..(k - 1)
      BY <2>2
    <3>5. k \div 10 = l \div 10
      <4>1. k \div 10 \in T /\ l \div 10 \in Nat
        BY <3>4, <1>4, Tenths
      <4>2. Decimal[k \div 10] = Decimal[l \div 10]
        BY <3>3 DEF s, t
      <4> QED
        BY <4>1, <4>2
    <3>6. k % 10 = l % 10
      BY <3>3, Tenths DEF d, e, LastDigit, ZERO
    <3> QED
      BY <3>5, <3>6, Tenths
  <2> QED
    BY <2>1, <2>2
<1> HIDE DEF T
<1>5. Nat \subseteq T
  BY <1>4, Induction, Zenon
<1> QED
  BY <1>5 DEF T

-----------------------------------------------------------------------------
(* The canonical form.                                                     *)

(* Sequences over a smaller set are sequences over a larger one.           *)
LEMMA SeqSubset ==
  ASSUME NEW S, NEW R, S \subseteq R
  PROVE  Seq(S) \subseteq Seq(R)
<1> SUFFICES ASSUME NEW s \in Seq(S) PROVE s \in Seq(R)
  OBVIOUS
<1>1. Len(s) \in Nat /\ s \in [1..Len(s) -> S]
  BY LenProperties
<1>2. s \in [1..Len(s) -> R]
  BY <1>1
<1> QED
  BY <1>1, <1>2

(* s has no character z.                                                   *)
Free(s, z) == \A i \in 1..Len(s) : s[i] # z

(* Text without the character z, up to the first z, can be read back.      *)
LEMMA FreeOf ==
  ASSUME NEW S, S \subseteq Nat, NEW s \in Seq(S), NEW z, z \notin S
  PROVE  s \in Str /\ Free(s, z)
<1>1. s \in Str
  BY SeqSubset DEF Str
<1>2. Free(s, z)
  BY ElementOfSeq DEF Free
<1> QED
  BY <1>1, <1>2

(* The text before the first z is not shorter than another such text.      *)
LEMMA SplitLengths ==
  ASSUME NEW z \in Nat, NEW x \in Str, NEW y \in Str, NEW u \in Str, NEW v \in Str,
         Free(x, z), Free(y, z), Cat(x, Cat(Chr(z), u)) = Cat(y, Cat(Chr(z), v))
  PROVE  ~(Len(x) < Len(y))
<1> SUFFICES ASSUME Len(x) < Len(y) PROVE FALSE
  OBVIOUS
<1> DEFINE a == Cat(Chr(z), u)
           b == Cat(Chr(z), v)
           n == Len(x) + 1
<1>1. a \in Str /\ b \in Str
  BY ChrType, CatType
<1>2. a[1] = z /\ Len(a) \in Nat /\ Len(a) >= 1
  <2>1. a[1] = z
    BY First
  <2>2. Len(Chr(z)) = 1 /\ Chr(z) \in Str
    BY ChrType DEF Chr
  <2> DEFINE k == Chr(z)
  <2> HIDE DEF k
  <2>3. Len(Cat(k, u)) = Len(k) + Len(u) /\ Len(u) \in Nat
    BY <2>2, ConcatProperties, LenProperties DEF Cat, Str, k
  <2>4. Len(Cat(k, u)) \in Nat /\ Len(Cat(k, u)) >= 1
    BY <2>2, <2>3 DEF k
  <2> QED
    BY <2>1, <2>4 DEF k
<1> HIDE DEF a, b
<1>3. Len(x) \in Nat /\ Len(y) \in Nat /\ Len(b) \in Nat
  BY <1>1, LenProperties DEF Str
<1>4. \A i \in 1..(Len(x) + Len(a)) : Cat(x, a)[i] = IF i <= Len(x) THEN x[i] ELSE a[i - Len(x)]
  BY <1>1, <1>3, ConcatProperties DEF Cat, Str
<1>5. \A i \in 1..(Len(y) + Len(b)) : Cat(y, b)[i] = IF i <= Len(y) THEN y[i] ELSE b[i - Len(y)]
  BY <1>1, <1>3, ConcatProperties DEF Cat, Str
<1>6. Cat(x, a)[n] = z
  <2>1. n \in 1..(Len(x) + Len(a)) /\ ~(n <= Len(x)) /\ n - Len(x) = 1
    BY <1>2, <1>3
  <2> HIDE DEF n
  <2> QED
    BY <2>1, <1>2, <1>4
<1>7. Cat(y, b)[n] = y[n] /\ y[n] # z
  <2>1. n \in 1..(Len(y) + Len(b)) /\ n <= Len(y) /\ n \in 1..Len(y)
    BY <1>2, <1>3
  <2> HIDE DEF n
  <2>2. y[n] # z
    BY <2>1 DEF Free
  <2> QED
    BY <2>1, <2>2, <1>5
<1>8. Cat(x, a) = Cat(y, b)
  BY DEF a, b
<1> QED
  BY <1>6, <1>7, <1>8

(* Neither is longer, so both are the same.                                *)
LEMMA Split ==
  ASSUME NEW z \in Nat, NEW x \in Str, NEW y \in Str, NEW u \in Str, NEW v \in Str,
         Free(x, z), Free(y, z), Cat(x, Cat(Chr(z), u)) = Cat(y, Cat(Chr(z), v))
  PROVE  x = y /\ u = v
<1> DEFINE a == Cat(Chr(z), u)
           b == Cat(Chr(z), v)
<1>1. a \in Str /\ b \in Str /\ Chr(z) \in Str
  BY ChrType, CatType
<1>2. ~(Len(x) < Len(y)) /\ ~(Len(y) < Len(x))
  BY SplitLengths
<1>3. Len(x) = Len(y)
  <2>1. Len(x) \in Nat /\ Len(y) \in Nat
    BY LenProperties DEF Str
  <2> QED
    BY <2>1, <1>2
<1>4. x = y /\ a = b
  <2>1. Cat(x, a) = Cat(y, b)
    OBVIOUS
  <2> HIDE DEF a, b
  <2> QED
    BY <2>1, <1>1, <1>3, CatCancel
<1>5. u = v
  BY <1>1, <1>4, CatCancel
<1> QED
  BY <1>4, <1>5

(* A part after a comma, and the rest.                                     *)
Part(x, r) == Cat(Chr(COMMA), Cat(x, r))

(* A part with its rest is a text.                                         *)
LEMMA PartType == \A x, r \in Str : Part(x, r) \in Str
<1>1. Chr(COMMA) \in Str
  BY ChrType DEF COMMA
<1> QED
  BY <1>1, CatType DEF Part

(* The comma before a part is one character.                               *)
LEMMA PartCancel ==
  ASSUME NEW x \in Str, NEW r \in Str, NEW y \in Str, NEW q \in Str, Part(x, r) = Part(y, q)
  PROVE  Cat(x, r) = Cat(y, q)
<1>1. Chr(COMMA) \in Str /\ Cat(x, r) \in Str /\ Cat(y, q) \in Str
  BY ChrType, CatType DEF COMMA
<1>2. Cat(Chr(COMMA), Cat(x, r)) = Cat(Chr(COMMA), Cat(y, q))
  BY DEF Part
<1> QED
  BY <1>1, <1>2, CatCancel

(* The parts after the first, one at a time.                               *)
LEMMA TerminatedPart ==
  ASSUME NEW x \in Str, NEW s \in Seq(Str)
  PROVE  Terminated(Comma, CLOSE, Cons(x, s)) = Part(x, Terminated(Comma, CLOSE, s))
<1> DEFINE r == Terminated(Comma, CLOSE, s)
<1>1. CLOSE \in Nat /\ Chr(COMMA) \in Str
  BY ChrType DEF COMMA, CLOSE
<1>2. r \in Str
  BY <1>1, CommaWrites, TerminatedType
<1>3. Terminated(Comma, CLOSE, Cons(x, s)) = Cat(Comma[x], r)
  BY <1>1, CommaWrites, TerminatedCons
<1>4. Comma[x] = Cat(Chr(COMMA), x)
  BY DEF Comma
<1> HIDE DEF r
<1>5. Cat(Cat(Chr(COMMA), x), r) = Cat(Chr(COMMA), Cat(x, r))
  BY <1>1, <1>2, CatRight
<1> QED
  BY <1>3, <1>4, <1>5 DEF Part, r

(* A tuple is its first component before the others.                       *)
LEMMA SingleIs ==
  ASSUME NEW f
  PROVE  <<f>> = Cons(f, <<>>)
<1>1. <<f>> \in Seq({f})
  OBVIOUS
<1> QED
  BY <1>1, ConcatEmptySeq DEF Cons

(* ... of two components,                                                  *)
LEMMA PairIs ==
  ASSUME NEW e, NEW f
  PROVE  <<e, f>> = Cons(e, <<f>>)
<1> DEFINE S == {e, f}
           s == <<e, f>>
           t == <<f>>
<1>1. s \in Seq(S) /\ t \in Seq(S) /\ e \in S
  OBVIOUS
<1>2. Len(t) = 1 /\ Len(s) = 2 /\ s[1] = e
  OBVIOUS
<1>3. s[2] = t[1]
  OBVIOUS
<1>4. \A i \in 1..1 : s[i + 1] = t[i]
  <2>1. \A i \in 1..1 : i = 1
    OBVIOUS
  <2> QED
    BY <1>3, <2>1
<1> HIDE DEF S, s, t
<1>5. Len(s) = Len(t) + 1 /\ \A i \in 1..Len(t) : s[i + 1] = t[i]
  BY <1>2, <1>4
<1>6. s = Cons(e, t)
  BY <1>1, <1>2, <1>5, ConsEqual
<1> QED
  BY <1>6 DEF s, t

(* ... of three,                                                           *)
LEMMA TripleIs ==
  ASSUME NEW d, NEW e, NEW f
  PROVE  <<d, e, f>> = Cons(d, <<e, f>>)
<1> DEFINE S == {d, e, f}
           s == <<d, e, f>>
           t == <<e, f>>
<1>1. s \in Seq(S) /\ t \in Seq(S) /\ d \in S
  OBVIOUS
<1>2. Len(t) = 2 /\ Len(s) = 3 /\ s[1] = d
  OBVIOUS
<1>3. s[2] = t[1] /\ s[3] = t[2]
  OBVIOUS
<1>4. \A i \in 1..2 : s[i + 1] = t[i]
  <2>1. \A i \in 1..2 : i = 1 \/ i = 2
    OBVIOUS
  <2> QED
    BY <1>3, <2>1
<1> HIDE DEF S, s, t
<1>5. Len(s) = Len(t) + 1 /\ \A i \in 1..Len(t) : s[i + 1] = t[i]
  BY <1>2, <1>4
<1>6. s = Cons(d, t)
  BY <1>1, <1>2, <1>5, ConsEqual
<1> QED
  BY <1>6 DEF s, t

(* ... of four,                                                            *)
LEMMA QuadrupleIs ==
  ASSUME NEW c, NEW d, NEW e, NEW f
  PROVE  <<c, d, e, f>> = Cons(c, <<d, e, f>>)
<1> DEFINE S == {c, d, e, f}
           s == <<c, d, e, f>>
           t == <<d, e, f>>
<1>1. s \in Seq(S) /\ t \in Seq(S) /\ c \in S
  OBVIOUS
<1>2. Len(t) = 3 /\ Len(s) = 4 /\ s[1] = c
  OBVIOUS
<1>3. s[2] = t[1] /\ s[3] = t[2] /\ s[4] = t[3]
  OBVIOUS
<1>4. \A i \in 1..3 : s[i + 1] = t[i]
  <2>1. \A i \in 1..3 : i = 1 \/ i = 2 \/ i = 3
    OBVIOUS
  <2> QED
    BY <1>3, <2>1
<1> HIDE DEF S, s, t
<1>5. Len(s) = Len(t) + 1 /\ \A i \in 1..Len(t) : s[i + 1] = t[i]
  BY <1>2, <1>4
<1>6. s = Cons(c, t)
  BY <1>1, <1>2, <1>5, ConsEqual
<1> QED
  BY <1>6 DEF s, t

(* ... of five,                                                            *)
LEMMA QuintupleIs ==
  ASSUME NEW b, NEW c, NEW d, NEW e, NEW f
  PROVE  <<b, c, d, e, f>> = Cons(b, <<c, d, e, f>>)
<1> DEFINE S == {b, c, d, e, f}
           s == <<b, c, d, e, f>>
           t == <<c, d, e, f>>
<1>1. s \in Seq(S) /\ t \in Seq(S) /\ b \in S
  OBVIOUS
<1>2. Len(t) = 4 /\ Len(s) = 5 /\ s[1] = b
  OBVIOUS
<1>3. s[2] = t[1] /\ s[3] = t[2] /\ s[4] = t[3] /\ s[5] = t[4]
  OBVIOUS
<1>4. \A i \in 1..4 : s[i + 1] = t[i]
  <2>1. \A i \in 1..4 : i = 1 \/ i = 2 \/ i = 3 \/ i = 4
    OBVIOUS
  <2> QED
    BY <1>3, <2>1
<1> HIDE DEF S, s, t
<1>5. Len(s) = Len(t) + 1 /\ \A i \in 1..Len(t) : s[i + 1] = t[i]
  BY <1>2, <1>4
<1>6. s = Cons(b, t)
  BY <1>1, <1>2, <1>5, ConsEqual
<1> QED
  BY <1>6 DEF s, t

(* ... and of six, the parts of a canonical form.                          *)
LEMMA SextupleIs ==
  ASSUME NEW a, NEW b, NEW c, NEW d, NEW e, NEW f
  PROVE  <<a, b, c, d, e, f>> = Cons(a, <<b, c, d, e, f>>)
<1> DEFINE S == {a, b, c, d, e, f}
           s == <<a, b, c, d, e, f>>
           t == <<b, c, d, e, f>>
<1>1. s \in Seq(S) /\ t \in Seq(S) /\ a \in S
  OBVIOUS
<1>2. Len(t) = 5 /\ Len(s) = 6 /\ s[1] = a
  OBVIOUS
<1>3. s[2] = t[1] /\ s[3] = t[2] /\ s[4] = t[3] /\ s[5] = t[4] /\ s[6] = t[5]
  OBVIOUS
<1>4. \A i \in 1..5 : s[i + 1] = t[i]
  <2>1. \A i \in 1..5 : i = 1 \/ i = 2 \/ i = 3 \/ i = 4 \/ i = 5
    OBVIOUS
  <2> QED
    BY <1>3, <2>1
<1> HIDE DEF S, s, t
<1>5. Len(s) = Len(t) + 1 /\ \A i \in 1..Len(t) : s[i + 1] = t[i]
  BY <1>2, <1>4
<1>6. s = Cons(a, t)
  BY <1>1, <1>2, <1>5, ConsEqual
<1> QED
  BY <1>6 DEF s, t

(* Six parts between brackets.                                             *)
LEMMA BracketedSix ==
  ASSUME NEW a \in Str, NEW b \in Str, NEW c \in Str, NEW d \in Str, NEW e \in Str, NEW f \in Str
  PROVE  Bracketed(<<a, b, c, d, e, f>>) =
           Cat(Chr(OPEN), Cat(a, Part(b, Part(c, Part(d, Part(e, Part(f, Chr(CLOSE))))))))
<1> DEFINE s1 == <<f>>
           s2 == <<e, f>>
           s3 == <<d, e, f>>
           s4 == <<c, d, e, f>>
           s5 == <<b, c, d, e, f>>
           s6 == <<a, b, c, d, e, f>>
           E(s) == Terminated(Comma, CLOSE, s)
<1>1. /\ s1 \in Seq(Str) /\ s2 \in Seq(Str) /\ s3 \in Seq(Str)
      /\ s4 \in Seq(Str) /\ s5 \in Seq(Str) /\ s6 \in Seq(Str)
  OBVIOUS
<1>2. s1 = Cons(f, <<>>)
  BY SingleIs
<1>3. s2 = Cons(e, s1)
  BY PairIs
<1>4. s3 = Cons(d, s2)
  BY TripleIs
<1>5. s4 = Cons(c, s3)
  BY QuadrupleIs
<1>6. s5 = Cons(b, s4)
  BY QuintupleIs
<1>7. s6 = Cons(a, s5)
  BY SextupleIs
<1>8. E(<<>>) = Chr(CLOSE)
  BY CommaWrites, TerminatedNone DEF CLOSE
<1> HIDE DEF s1, s2, s3, s4, s5, s6
<1>9. /\ E(s1) = Part(f, Chr(CLOSE)) /\ E(s2) = Part(e, E(s1)) /\ E(s3) = Part(d, E(s2))
      /\ E(s4) = Part(c, E(s3)) /\ E(s5) = Part(b, E(s4))
  <2>1. <<>> \in Seq(Str)
    OBVIOUS
  <2>2. E(s1) = Part(f, E(<<>>))
    BY <2>1, <1>2, TerminatedPart
  <2>3. E(s2) = Part(e, E(s1)) /\ E(s3) = Part(d, E(s2)) /\ E(s4) = Part(c, E(s3)) /\ E(s5) = Part(b, E(s4))
    BY <1>1, <1>3, <1>4, <1>5, <1>6, TerminatedPart
  <2> QED
    BY <2>2, <2>3, <1>8
<1>10. Bracketed(s6) = Cat(Chr(OPEN), Cat(a, E(s5)))
  BY <1>1, <1>7, BracketedCons
<1> HIDE DEF E
<1> QED
  BY <1>9, <1>10 DEF s6

(* A text between quotes, not escaped.                                     *)
InQuotes(x) == Cat(Chr(QUOTE), Cat(x, Chr(QUOTE)))

(* A text between quotes, and what follows.                                *)
LEMMA InQuotesCat ==
  ASSUME NEW x \in Str, NEW r \in Str
  PROVE  /\ InQuotes(x) \in Str
         /\ Cat(InQuotes(x), r) = Cat(Chr(QUOTE), Cat(x, Cat(Chr(QUOTE), r)))
<1> DEFINE q == Chr(QUOTE)
<1>1. q \in Str
  BY ChrType DEF QUOTE
<1> HIDE DEF q
<1>2. Cat(x, q) \in Str
  BY <1>1, CatType
<1>3. Cat(q, Cat(x, q)) \in Str
  BY <1>1, <1>2, CatType
<1>4. Cat(Cat(q, Cat(x, q)), r) = Cat(q, Cat(Cat(x, q), r))
  BY <1>1, <1>2, CatRight
<1>5. Cat(Cat(x, q), r) = Cat(x, Cat(q, r))
  BY <1>1, CatRight
<1> QED
  BY <1>3, <1>4, <1>5 DEF InQuotes, q

(* Quoted() escapes and puts between quotes.                               *)
LEMMA QuotedInQuotes ==
  ASSUME NEW s \in Str
  PROVE  Quoted(s) = InQuotes(escape(s)) /\ Quoted(s) \in Str /\ escape(s) \in Str
<1>1. escape(s) \in Str /\ Quoted(s) = InQuotes(escape(s))
  BY QuotedIs DEF InQuotes
<1> QED
  BY <1>1, InQuotesCat, ConcatNone

(* The parts of an event, as they are joined.                              *)
Canon(key, time, kind, tags, content) ==
  Cat(Chr(OPEN), Cat(Chr(ZERO), Part(InQuotes(key), Part(time, Part(kind,
    Part(tags, Part(content, Chr(CLOSE))))))))

(* canonical() is those parts joined.                                      *)
LEMMA CanonicalIs ==
  ASSUME NEW p \in Str, NEW t \in Nat, NEW k \in Nat, NEW tags \in Seq(Seq(Str)), NEW c \in Str
  PROVE  canonical(p, t, k, tags, c)
         = Canon(p, Decimal[t], Decimal[k], serialize_tags(tags), Quoted(c))
<1> DEFINE z == <<ZERO>>
           y == <<QUOTE>> \o p \o <<QUOTE>>
           d == Decimal[t]
           e == Decimal[k]
           g == serialize_tags(tags)
           q == Quoted(c)
<1>1. y = InQuotes(p) /\ z = Chr(ZERO)
  <2>1. Chr(QUOTE) \in Str
    BY ChrType DEF QUOTE
  <2>2. Cat(Cat(Chr(QUOTE), p), Chr(QUOTE)) = Cat(Chr(QUOTE), Cat(p, Chr(QUOTE)))
    BY <2>1, CatRight
  <2> QED
    BY <2>2 DEF Cat, Chr, InQuotes
<1>2. z \in Str
  BY <1>1, ChrType DEF ZERO
<1>3. y \in Str
  BY <1>1, InQuotesCat, ConcatNone
<1>4. d \in Str /\ e \in Str
  BY DecimalIs, DigitsAreText
<1>5. g \in Str
  BY TagsAre, TagsDelimited DEF Delimited, Writes
<1>6. q \in Str
  BY QuotedInQuotes
<1>7. canonical(p, t, k, tags, c) = Bracketed(<<z, y, d, e, g, q>>)
  BY DEF canonical
<1> HIDE DEF z, y, d, e, g, q
<1>8. Bracketed(<<z, y, d, e, g, q>>)
      = Cat(Chr(OPEN), Cat(z, Part(y, Part(d, Part(e, Part(g, Part(q, Chr(CLOSE))))))))
  BY <1>2, <1>3, <1>4, <1>5, <1>6, BracketedSix, SMTT(30)
<1> QED
  BY <1>1, <1>7, <1>8 DEF Canon, d, e, g, q

(* Each part can be read back.                                             *)
LEMMA KeyReads ==
  ASSUME NEW x \in Str, NEW y \in Str, NEW u \in Str, NEW v \in Str,
         Free(x, QUOTE), Free(y, QUOTE), Part(InQuotes(x), u) = Part(InQuotes(y), v)
  PROVE  x = y /\ u = v
<1> DEFINE q == Chr(QUOTE)
           a == Cat(x, Cat(q, u))
           b == Cat(y, Cat(q, v))
<1>1. QUOTE \in Nat
  BY DEF QUOTE
<1>2. q \in Str /\ a \in Str /\ b \in Str
  BY <1>1, ChrType, CatType
<1>3. Cat(InQuotes(x), u) = Cat(q, a) /\ Cat(InQuotes(y), v) = Cat(q, b)
  BY <1>1, InQuotesCat
<1>4. Cat(InQuotes(x), u) = Cat(InQuotes(y), v)
  <2>1. InQuotes(x) \in Str /\ InQuotes(y) \in Str
    BY <1>1, InQuotesCat
  <2> QED
    BY <2>1, PartCancel
<1>5. a = b
  <2>1. Cat(q, a) = Cat(q, b)
    BY <1>3, <1>4, Zenon
  <2> HIDE DEF a, b, q
  <2> QED
    BY <1>2, <2>1, CatCancel
<1> QED
  BY <1>1, <1>5, Split

(* A number ends at the comma after it.                                    *)
LEMMA NumberReads ==
  ASSUME NEW n \in Nat, NEW m \in Nat, NEW x \in Str, NEW u \in Str, NEW y \in Str, NEW v \in Str,
         Part(Decimal[n], Part(x, u)) = Part(Decimal[m], Part(y, v))
  PROVE  n = m /\ Part(x, u) = Part(y, v)
<1> DEFINE d == Decimal[n]
           e == Decimal[m]
           a == Cat(x, u)
           b == Cat(y, v)
<1>1. d \in Seq(Digit) /\ e \in Seq(Digit) /\ d \in Str /\ e \in Str
  BY DecimalIs, DigitsAreText
<1>7. Free(d, COMMA) /\ Free(e, COMMA)
  <2>1. COMMA \notin Digit /\ Digit \subseteq Nat
    BY DEF COMMA, Digit
  <2> HIDE DEF d, e
  <2> QED
    BY <1>1, <2>1, FreeOf
<1>2. a \in Str /\ b \in Str /\ Part(x, u) \in Str /\ Part(y, v) \in Str
  BY CatType, PartType
<1>3. Cat(d, Part(x, u)) = Cat(e, Part(y, v))
  BY <1>1, <1>2, PartCancel
<1>4. Cat(d, Cat(Chr(COMMA), a)) = Cat(e, Cat(Chr(COMMA), b))
  BY <1>3 DEF Part
<1>5. COMMA \in Nat
  BY DEF COMMA
<1>6. d = e /\ a = b
  <2> HIDE DEF d, e, a, b
  <2> QED
    BY <1>1, <1>2, <1>4, <1>5, <1>7, Split
<1>8. n = m
  BY <1>6, DecimalInjective
<1> QED
  BY <1>6, <1>8 DEF Part

(* The tags end at their closing bracket.                                  *)
LEMMA TagsRead ==
  ASSUME NEW s \in Seq(Seq(Str)), NEW t \in Seq(Seq(Str)), NEW u \in Str, NEW v \in Str,
         Part(serialize_tags(s), u) = Part(serialize_tags(t), v)
  PROVE  s = t /\ u = v
<1> DEFINE a == TagsCode[s]
           b == TagsCode[t]
<1>1. a = serialize_tags(s) /\ b = serialize_tags(t)
  BY TagsAre
<1>2. a \in Str /\ b \in Str
  BY TagsDelimited DEF Delimited, Writes
<1> HIDE DEF a, b
<1>3. Cat(a, u) = Cat(b, v)
  BY <1>1, <1>2, PartCancel
<1>4. \A x, y \in Seq(Seq(Str)), k, l \in Str :
        Cat(TagsCode[x], k) = Cat(TagsCode[y], l) => x = y /\ k = l
  BY TagsDelimited DEF Delimited
<1>5. s = t
  BY <1>3, <1>4 DEF a, b
<1>6. u = v
  BY <1>3, <1>4 DEF a, b
<1> QED
  BY <1>5, <1>6

(* The content ends at its closing quote.                                  *)
LEMMA ContentReads ==
  ASSUME NEW s \in Str, NEW t \in Str, NEW u \in Str, NEW v \in Str,
         Part(Quoted(s), u) = Part(Quoted(t), v)
  PROVE  s = t /\ u = v
<1> DEFINE a == QuotedCode[s]
           b == QuotedCode[t]
<1>1. a = Quoted(s) /\ b = Quoted(t)
  BY DEF QuotedCode
<1>2. a \in Str /\ b \in Str
  BY QuotedDelimited DEF Delimited, Writes
<1> HIDE DEF a, b
<1>3. Cat(a, u) = Cat(b, v)
  BY <1>1, <1>2, PartCancel
<1>4. \A x, y \in Str, k, l \in Str :
        Cat(QuotedCode[x], k) = Cat(QuotedCode[y], l) => x = y /\ k = l
  BY QuotedDelimited DEF Delimited
<1>5. s = t
  BY <1>3, <1>4 DEF a, b
<1>6. u = v
  BY <1>3, <1>4 DEF a, b
<1> QED
  BY <1>5, <1>6

(* A canonical form is a text.                                             *)
LEMMA CanonicalType ==
  ASSUME NEW p \in Str, NEW t \in Nat, NEW k \in Nat, NEW g \in Seq(Seq(Str)), NEW c \in Str
  PROVE  canonical(p, t, k, g, c) \in Str
<1> DEFINE r1 == Part(Quoted(c), Chr(CLOSE))
           r2 == Part(serialize_tags(g), r1)
           r3 == Part(Decimal[k], r2)
           r4 == Part(Decimal[t], r3)
           r5 == Part(InQuotes(p), r4)
<1>1. Chr(CLOSE) \in Str /\ Chr(OPEN) \in Str /\ Chr(ZERO) \in Str
  BY ChrType DEF CLOSE, OPEN, ZERO
<1>2. r1 \in Str
  BY <1>1, QuotedInQuotes, PartType
<1> HIDE DEF r1
<1>3. r2 \in Str
  <2>1. serialize_tags(g) \in Str
    BY TagsAre, TagsDelimited DEF Delimited, Writes
  <2> QED
    BY <2>1, <1>2, PartType
<1> HIDE DEF r2
<1>4. Decimal[k] \in Str /\ Decimal[t] \in Str
  BY DecimalIs, DigitsAreText
<1>5. r3 \in Str
  BY <1>3, <1>4, PartType
<1> HIDE DEF r3
<1>6. r4 \in Str
  BY <1>4, <1>5, PartType
<1> HIDE DEF r4
<1>7. InQuotes(p) \in Str
  BY InQuotesCat, ConcatNone
<1>8. r5 \in Str
  BY <1>6, <1>7, PartType
<1>9. canonical(p, t, k, g, c) = Cat(Chr(OPEN), Cat(Chr(ZERO), r5))
  BY CanonicalIs DEF Canon, r1, r2, r3, r4
<1> HIDE DEF r5
<1>10. Cat(Chr(ZERO), r5) \in Str
  BY <1>1, <1>8, CatType
<1> QED
  BY <1>1, <1>9, <1>10, CatType

(* Two events agree in all that is hashed.                                 *)
SameParts(p, t, k, g, c, q, u, l, h, d) ==
  p = q /\ t = u /\ k = l /\ g = h /\ c = d

(* Two events with one canonical form are one event.                       *)
THEOREM CanonicalInjective ==
  ASSUME NEW p \in Str, NEW t \in Nat, NEW k \in Nat, NEW g \in Seq(Seq(Str)), NEW c \in Str,
         NEW q \in Str, NEW u \in Nat, NEW l \in Nat, NEW h \in Seq(Seq(Str)), NEW d \in Str,
         Free(p, QUOTE), Free(q, QUOTE), canonical(p, t, k, g, c) = canonical(q, u, l, h, d)
  PROVE  SameParts(p, t, k, g, c, q, u, l, h, d)
<1> DEFINE e == Chr(CLOSE)
           C(s) == Part(Quoted(s), e)
           G(s, r) == Part(serialize_tags(s), r)
           N(n, r) == Part(Decimal[n], r)
           P(x, r) == Part(InQuotes(x), r)
           z == Chr(ZERO)
           o == Chr(OPEN)
<1>1. e \in Str /\ z \in Str /\ o \in Str
  BY ChrType DEF CLOSE, ZERO, OPEN
<1>2. ASSUME NEW s \in Str PROVE Quoted(s) \in Str
  BY QuotedInQuotes
<1>3. ASSUME NEW s \in Seq(Seq(Str)) PROVE serialize_tags(s) \in Str
  BY TagsAre, TagsDelimited DEF Delimited, Writes
<1>4. ASSUME NEW n \in Nat PROVE Decimal[n] \in Str
  BY DecimalIs, DigitsAreText
<1>5. ASSUME NEW x \in Str PROVE InQuotes(x) \in Str
  BY InQuotesCat, ConcatNone
<1>6. C(c) \in Str /\ C(d) \in Str
  BY <1>1, <1>2, PartType
<1>7. G(g, C(c)) \in Str /\ G(h, C(d)) \in Str
  BY <1>3, <1>6, PartType
<1>8. N(k, G(g, C(c))) \in Str /\ N(l, G(h, C(d))) \in Str
  BY <1>4, <1>7, PartType
<1>9. N(t, N(k, G(g, C(c)))) \in Str /\ N(u, N(l, G(h, C(d)))) \in Str
  BY <1>4, <1>8, PartType
<1>10. P(p, N(t, N(k, G(g, C(c))))) = P(q, N(u, N(l, G(h, C(d)))))
  <2> DEFINE a == P(p, N(t, N(k, G(g, C(c)))))
             b == P(q, N(u, N(l, G(h, C(d)))))
  <2>1. a \in Str /\ b \in Str
    BY <1>1, <1>5, <1>9, PartType
  <2>2. Cat(o, Cat(z, a)) = Cat(o, Cat(z, b))
    BY <1>1, CanonicalIs DEF Canon
  <2> HIDE DEF a, b, o, z
  <2>3. Cat(z, a) \in Str /\ Cat(z, b) \in Str
    BY <1>1, <2>1, CatType
  <2>4. Cat(z, a) = Cat(z, b)
    BY <1>1, <2>2, <2>3, CatCancel
  <2>5. a = b
    BY <1>1, <2>1, <2>4, CatCancel
  <2> QED
    BY <2>5 DEF a, b
<1>11. p = q /\ N(t, N(k, G(g, C(c)))) = N(u, N(l, G(h, C(d))))
  <2> HIDE DEF N
  <2> QED
    BY <1>9, <1>10, KeyReads
<1>12. t = u /\ N(k, G(g, C(c))) = N(l, G(h, C(d)))
  <2> DEFINE a == G(g, C(c))
             b == G(h, C(d))
             i == Decimal[k]
             j == Decimal[l]
  <2>1. Part(Decimal[t], Part(i, a)) = Part(Decimal[u], Part(j, b))
    BY <1>11
  <2>2. a \in Str /\ b \in Str /\ i \in Str /\ j \in Str
    BY <1>4, <1>7
  <2> HIDE DEF a, b, i, j
  <2>3. t = u /\ Part(i, a) = Part(j, b)
    BY <2>1, <2>2, NumberReads
  <2> QED
    BY <2>3 DEF a, b, i, j
<1>13. k = l /\ G(g, C(c)) = G(h, C(d))
  <2> HIDE DEF C
  <2> QED
    BY <1>3, <1>6, <1>12, NumberReads
<1>14. g = h /\ C(c) = C(d)
  <2> HIDE DEF C
  <2> QED
    BY <1>6, <1>13, TagsRead
<1>15. c = d
  BY <1>1, <1>14, ContentReads
<1> QED
  BY <1>11, <1>12, <1>13, <1>14, <1>15 DEF SameParts

-----------------------------------------------------------------------------
(* The fast path of mining.                                                *)

(* Text with none of the seven characters is written as it is.             *)
LEMMA PlainText ==
  ASSUME NEW S, S \subseteq Nat, S \cap DOMAIN EscapeLetter = {}, NEW t \in Seq(S)
  PROVE  escape(t) = t /\ t \in Str
<1> DEFINE F(s) == FlattenSeq(Mapped(EscapedCode, s))
           T == {n \in Nat : \A s \in Seq(S) : Len(s) = n => F(s) = s}
<1>1. Seq(S) \subseteq Str
  BY SeqSubset DEF Str
<1>2. Writes(EscapedCode, Nat, Str)
  BY EscapedDelimited DEF Delimited
<1>3. ASSUME NEW s \in Seq(S), Len(s) = 0 PROVE F(s) = s
  <2>1. s = <<>>
    BY <1>3, EmptySeq
  <2> QED
    BY <2>1, <1>2, MappedBase, FlattenBase
<1>4. ASSUME NEW n \in Nat, n \in T PROVE n + 1 \in T
  <2> SUFFICES ASSUME NEW s \in Seq(S), Len(s) = n + 1 PROVE F(s) = s
    OBVIOUS
  <2> DEFINE x == Head(s)
             r == Tail(s)
             h == <<x>>
             m == Mapped(EscapedCode, r)
             g == Mapped(EscapedCode, h)
  <2>1. s # <<>>
    BY EmptySeq
  <2>2. x \in S /\ r \in Seq(S) /\ Len(s) = Len(r) + 1 /\ s = h \o r
    BY <2>1, HeadTail, Uncons
  <2>3. Len(r) = n
    BY <2>2, LenProperties
  <2> HIDE DEF x, r
  <2>4. F(r) = r
    <3> HIDE DEF F
    <3> QED
      BY <2>2, <2>3, <1>4
  <2>5. x \in Nat /\ h \in Seq(Nat) /\ r \in Seq(Nat)
    BY <2>2, <1>1 DEF Str
  <2>6. g = <<Escaped(x)>> /\ Escaped(x) = h
    <3>1. g = <<EscapedCode[x]>>
      BY <2>5, <1>2, MappedBase
    <3>2. x \notin DOMAIN EscapeLetter
      BY <2>2
    <3> QED
      BY <2>5, <3>1, <3>2, EscapedIs DEF EscapedCode, Chr
  <2>7. Mapped(EscapedCode, h \o r) = g \o m
    <3> HIDE DEF h
    <3> QED
      BY <2>5, <1>2, MappedConcat
  <2>8. m \in Seq(Str) /\ g \in Seq(Str)
    BY <2>5, <1>2, MappedType
  <2>9. FlattenSeq(g) = h
    <3>1. h \in Str
      BY <2>5 DEF Str
    <3> QED
      BY <2>6, <3>1, FlattenBase
  <2> HIDE DEF h, m, g
  <2>10. FlattenSeq(g \o m) = FlattenSeq(g) \o FlattenSeq(m)
    BY <2>8, FlattenConcat
  <2> QED
    BY <2>2, <2>4, <2>7, <2>9, <2>10 DEF m
<1>5. 0 \in T
  BY <1>3
<1> HIDE DEF T
<1>6. Nat \subseteq T
  BY <1>4, <1>5, StepInduction
<1>7. F(t) = t
  BY <1>6, LenProperties DEF T
<1>8. t \in Str
  BY <1>1
<1>9. escape(t) = F(t)
  BY <1>8, QuotedIs
<1> QED
  BY <1>7, <1>8, <1>9

(* The last character cut off again.                                       *)
LEMMA FrontCat ==
  ASSUME NEW x \in Str, NEW z \in Nat
  PROVE  Front(Cat(x, Chr(z))) = x
<1> DEFINE e == Chr(z)
           t == Cat(x, e)
<1>1. e \in Str /\ Len(e) = 1 /\ e[1] = z
  BY ChrType DEF Chr
<1>2. Len(x) \in Nat
  BY LenProperties DEF Str
<1> HIDE DEF e
<1>3. /\ t \in Str /\ Len(t) = Len(x) + Len(e)
      /\ \A i \in 1..(Len(x) + Len(e)) : t[i] = IF i <= Len(x) THEN x[i] ELSE e[i - Len(x)]
  BY <1>1, ConcatProperties DEF Cat, Str
<1> HIDE DEF t
<1>4. Len(t) = Len(x) + 1 /\ \A i \in 1..Len(x) : t[i] = x[i]
  BY <1>1, <1>2, <1>3
<1> DEFINE f == Front(t)
<1>5. f = SubSeq(t, 1, Len(x))
  <2>1. Len(t) - 1 = Len(x)
    BY <1>2, <1>4
  <2> QED
    BY <2>1 DEF Front
<1>6. f \in Seq(Nat) /\ Len(f) = Len(x) /\ \A i \in 1..Len(x) : f[i] = t[i]
  <2> DEFINE n == Len(x)
  <2>0. \A i \in 1..n : t[i] \in Nat
    BY <1>4, ElementOfSeq DEF Str
  <2> HIDE DEF f, n
  <2>1. f = [i \in 1..n |-> t[i]]
    BY <1>2, <1>5 DEF n
  <2>2. f \in [1..n -> Nat] /\ n \in Nat
    BY <1>2, <2>0, <2>1 DEF n
  <2>3. f \in Seq(Nat) /\ Len(f) = n
    BY <2>2
  <2> QED
    BY <2>1, <2>3 DEF n
<1> HIDE DEF f
<1>7. f = x
  <2>1. x \in Seq(Nat)
    BY DEF Str
  <2> QED
    BY <1>4, <1>6, <2>1, SeqEqual
<1> QED
  BY <1>7 DEF f, t, e

(* One tag appended: the array left open, the tag, and the bracket.        *)
LEMMA TagAppended ==
  ASSUME NEW tags \in Seq(Seq(Str)), NEW t \in Seq(Str)
  PROVE  /\ Append(tags, t) \in Seq(Seq(Str))
         /\ OpenTags(tags) \in Str
         /\ serialize_tags(Append(tags, t)) = Cat(OpenTags(tags), Cat(TagCode[t], Chr(CLOSE)))
<1> DEFINE D == Seq(Str)
           p == TagCode[t]
           o == Chr(OPEN)
           e == Chr(CLOSE)
           k == Chr(COMMA)
           h == <<t>>
           all == Append(tags, t)
<1>1. all \in Seq(D) /\ h \in Seq(D) /\ all = tags \o h
  BY AppendProperties, AppendIsConcat
<1>2. Writes(TagCode, D, Str) /\ p \in Str
  BY TagsDelimited DEF Delimited, Writes
<1>3. o \in Str /\ e \in Str /\ k \in Str
  BY ChrType DEF OPEN, CLOSE, COMMA
<1>4. serialize_tags(all) = Bracketed(Mapped(TagCode, all))
  BY <1>1, TagsAre
<1>5. Mapped(TagCode, h) = <<p>>
  BY <1>2, MappedBase
<1>6. <<>> \in Seq(Str) /\ <<p>> \in Seq(Str) /\ <<p>> = Cons(p, <<>>)
  BY <1>2, ConcatEmptySeq DEF Cons
<1>7. CASE tags = <<>>
  <2>1. OpenTags(tags) = o
    BY <1>7 DEF OpenTags, Chr
  <2>2. all = h
    BY <1>7
  <2> HIDE DEF all, h, p
  <2>3. Bracketed(Cons(p, <<>>)) = Cat(Chr(OPEN), Cat(p, Terminated(Comma, CLOSE, <<>>)))
    BY <1>2, <1>6, BracketedCons
  <2>4. Terminated(Comma, CLOSE, <<>>) = e
    BY CommaWrites, TerminatedNone DEF CLOSE
  <2>5. serialize_tags(all) = Cat(o, Cat(p, e))
    BY <1>4, <1>5, <1>6, <2>2, <2>3, <2>4
  <2> QED
    BY <1>1, <1>3, <2>1, <2>5 DEF all, p
<1>8. CASE tags # <<>>
  <2> DEFINE x == Head(tags)
             r == Tail(tags)
             y == TagCode[x]
             m == Mapped(TagCode, r)
             mm == Mapped(Comma, m)
             f == FlattenSeq(mm)
             c == <<Cat(k, p)>>
             front == Cat(o, Cat(y, f))
  <2>1. x \in D /\ r \in Seq(D) /\ tags = <<x>> \o r
    BY <1>8, HeadTail, Uncons
  <2> HIDE DEF x, r
  <2>2. y \in Str
    BY <1>2, <2>1 DEF Writes
  <2>3. m \in Seq(Str)
    BY <1>2, <2>1, MappedType
  <2>4. ASSUME NEW s \in Seq(D) PROVE Mapped(TagCode, <<x>> \o s) = Cons(y, Mapped(TagCode, s))
    <3> DEFINE g == <<x>>
    <3>1. g \in Seq(D)
      BY <2>1
    <3>2. Mapped(TagCode, g) = <<y>>
      BY <1>2, <2>1, MappedBase
    <3> HIDE DEF g
    <3>3. Mapped(TagCode, g \o s) = Mapped(TagCode, g) \o Mapped(TagCode, s)
      BY <1>2, <3>1, MappedConcat
    <3> QED
      BY <3>2, <3>3 DEF Cons, g
  <2>5. Mapped(TagCode, r \o h) = m \o <<p>>
    <3> HIDE DEF h, p
    <3>1. Mapped(TagCode, r \o h) = Mapped(TagCode, r) \o Mapped(TagCode, h)
      BY <1>1, <1>2, <2>1, MappedConcat
    <3> QED
      BY <3>1, <1>5
  <2>6. all = <<x>> \o (r \o h) /\ r \o h \in Seq(D)
    <3> DEFINE g == <<x>>
    <3>1. g \in Seq(D)
      BY <2>1
    <3> HIDE DEF g, h
    <3>2. (g \o r) \o h = g \o (r \o h) /\ r \o h \in Seq(D)
      BY <1>1, <2>1, <3>1, ConcatAssociative, ConcatProperties, SMTT(30)
    <3> QED
      BY <3>2, <1>1, <2>1 DEF g
  <2>7. Mapped(TagCode, tags) = Cons(y, m)
    BY <2>1, <2>4
  <2>8. Mapped(TagCode, all) = Cons(y, m \o <<p>>)
    BY <2>4, <2>5, <2>6
  <2>9. m \o <<p>> \in Seq(Str)
    BY <1>6, <2>3, ConcatProperties
  <2>10. mm \in Seq(Str)
    BY <2>3, CommaWrites, MappedType
  <2>11. Mapped(Comma, m \o <<p>>) = mm \o c
    <3> DEFINE g == <<p>>
    <3>1. g \in Seq(Str)
      BY <1>6
    <3>2. Mapped(Comma, g) = <<Comma[p]>>
      BY <1>2, CommaWrites, MappedBase
    <3>3. Comma[p] = Cat(k, p)
      BY <1>2 DEF Comma
    <3> HIDE DEF g
    <3>4. Mapped(Comma, m \o g) = Mapped(Comma, m) \o Mapped(Comma, g)
      BY <2>3, <3>1, CommaWrites, MappedConcat
    <3> QED
      BY <3>2, <3>3, <3>4 DEF g
  <2>12. Cat(k, p) \in Str
    BY <1>2, <1>3, CatType
  <2>13. FlattenSeq(c) = Cat(k, p) /\ c \in Seq(Str)
    BY <2>12, FlattenBase
  <2>14. FlattenSeq(mm \o c) = Cat(f, Cat(k, p))
    <3> HIDE DEF mm, c
    <3>1. FlattenSeq(mm \o c) = FlattenSeq(mm) \o FlattenSeq(c)
      BY <2>10, <2>13, FlattenConcat
    <3> QED
      BY <3>1, <2>13 DEF Cat
  <2>15. f \in Str
    BY <2>10, FlattenBase
  <2>16. Terminated(Comma, CLOSE, m \o <<p>>) = Cat(Cat(f, Cat(k, p)), e)
    BY <2>11, <2>14 DEF Terminated, Cat, Chr
  <2>17. Terminated(Comma, CLOSE, m) = Cat(f, e)
    BY DEF Terminated, Cat, Chr
  <2>18. serialize_tags(tags) = Cat(o, Cat(y, Cat(f, e)))
    <3>1. Bracketed(Cons(y, m)) = Cat(Chr(OPEN), Cat(y, Terminated(Comma, CLOSE, m)))
      <4> HIDE DEF y, m
      <4> QED
        BY <2>2, <2>3, BracketedCons
    <3> QED
      BY <3>1, <2>7, <2>17, TagsAre
  <2>19. serialize_tags(all) = Cat(o, Cat(y, Cat(Cat(f, Cat(k, p)), e)))
    <3> DEFINE n == m \o <<p>>
    <3>1. n \in Seq(Str)
      BY <2>9
    <3>2. Bracketed(Cons(y, n)) = Cat(Chr(OPEN), Cat(y, Terminated(Comma, CLOSE, n)))
      <4> HIDE DEF y, n
      <4> QED
        BY <2>2, <3>1, BracketedCons
    <3> QED
      BY <3>2, <2>8, <2>16, <1>4
  <2> HIDE DEF f, o, e, k, p, y
  <2>20. front \in Str
    BY <1>3, <2>2, <2>15, CatType
  <2>21. Cat(o, Cat(y, Cat(f, e))) = Cat(front, e)
    <3>1. Cat(y, f) \in Str
      BY <2>2, <2>15, CatType
    <3>2. Cat(front, e) = Cat(o, Cat(Cat(y, f), e))
      BY <1>3, <3>1, CatRight
    <3>3. Cat(Cat(y, f), e) = Cat(y, Cat(f, e))
      BY <1>3, <2>2, <2>15, CatRight
    <3> QED
      BY <3>2, <3>3
  <2> HIDE DEF front
  <2>22. Front(serialize_tags(tags)) = front
    BY <2>18, <2>20, <2>21, FrontCat DEF e, CLOSE
  <2>23. OpenTags(tags) = Cat(front, k)
    BY <1>8, <2>22 DEF OpenTags, Cat, Chr, k
  <2>24. Cat(o, Cat(y, Cat(Cat(f, Cat(k, p)), e))) = Cat(Cat(front, k), Cat(p, e))
    <3> DEFINE kp == Cat(k, p)
               pe == Cat(p, e)
    <3>1. kp \in Str /\ pe \in Str /\ Cat(kp, e) = Cat(k, pe) /\ Cat(k, pe) \in Str
      BY <1>2, <1>3, CatType, CatRight
    <3> HIDE DEF kp, pe
    <3>2. Cat(Cat(f, kp), e) = Cat(f, Cat(k, pe))
      BY <1>3, <2>15, <3>1, CatRight
    <3>3. Cat(y, f) \in Str
      BY <2>2, <2>15, CatType
    <3>4. Cat(front, Cat(k, pe)) = Cat(o, Cat(Cat(y, f), Cat(k, pe)))
      BY <1>3, <3>1, <3>3, CatRight DEF front
    <3>5. Cat(Cat(y, f), Cat(k, pe)) = Cat(y, Cat(f, Cat(k, pe)))
      BY <2>2, <2>15, <3>1, CatRight
    <3>6. Cat(Cat(front, k), pe) = Cat(front, Cat(k, pe))
      BY <1>3, <2>20, <3>1, CatRight
    <3> QED
      BY <3>2, <3>4, <3>5, <3>6 DEF kp, pe
  <2>25. Cat(front, k) \in Str
    BY <1>3, <2>20, CatType
  <2> HIDE DEF all
  <2>26. serialize_tags(all) = Cat(OpenTags(tags), Cat(p, e))
    BY <2>19, <2>23, <2>24
  <2> QED
    BY <1>1, <2>23, <2>25, <2>26 DEF all, p, e
<1> QED
  BY <1>7, <1>8

(* Concatenations written from the left, read from the left.               *)
Five(a, b, c, d, e) == a \o b \o c \o d \o e

(* The same five, read from the left.                                      *)
LEMMA FiveParts ==
  ASSUME NEW a \in Str, NEW b \in Str, NEW c \in Str, NEW d \in Str, NEW e \in Str
  PROVE  /\ Five(a, b, c, d, e) = Cat(a, Cat(b, Cat(c, Cat(d, e))))
         /\ Five(a, b, c, d, e) \in Str
<1>1. Cat(a, b) \in Str /\ Cat(Cat(a, b), c) \in Str /\ Cat(d, e) \in Str /\ Cat(c, Cat(d, e)) \in Str
  BY CatType
<1>2. Cat(Cat(Cat(Cat(a, b), c), d), e) = Cat(Cat(Cat(a, b), c), Cat(d, e))
  BY <1>1, CatRight
<1>3. Cat(Cat(Cat(a, b), c), Cat(d, e)) = Cat(Cat(a, b), Cat(c, Cat(d, e)))
  BY <1>1, CatRight
<1>4. Cat(Cat(a, b), Cat(c, Cat(d, e))) = Cat(a, Cat(b, Cat(c, Cat(d, e))))
  BY <1>1, CatRight
<1>5. Cat(a, Cat(b, Cat(c, Cat(d, e)))) \in Str
  BY <1>1, CatType
<1>6. Five(a, b, c, d, e) = Cat(Cat(Cat(Cat(a, b), c), d), e)
  BY DEF Cat, Five
<1> QED
  BY <1>2, <1>3, <1>4, <1>5, <1>6

(* Five texts before a sixth, read from the left.                          *)
Peeled(a, b, c, d, e, r) ==
  Cat(Five(a, b, c, d, e), r) = Cat(a, Cat(b, Cat(c, Cat(d, Cat(e, r)))))

(* ... which any five texts are.                                           *)
LEMMA FiveBefore ==
  ASSUME NEW a \in Str, NEW b \in Str, NEW c \in Str, NEW d \in Str, NEW e \in Str, NEW r \in Str
  PROVE  Peeled(a, b, c, d, e, r)
<1> DEFINE de == Cat(d, e)
           cde == Cat(c, de)
           bcde == Cat(b, cde)
<1>1. Five(a, b, c, d, e) = Cat(a, bcde)
  BY FiveParts
<1>2. de \in Str
  BY CatType
<1> HIDE DEF de
<1>3. cde \in Str
  BY <1>2, CatType
<1> HIDE DEF cde
<1>4. bcde \in Str
  BY <1>3, CatType
<1> HIDE DEF bcde
<1>5. Cat(Cat(a, bcde), r) = Cat(a, Cat(bcde, r))
  BY <1>4, CatRight
<1>6. Cat(bcde, r) = Cat(b, Cat(cde, r))
  BY <1>3, CatRight DEF bcde
<1>7. Cat(cde, r) = Cat(c, Cat(de, r))
  BY <1>2, CatRight DEF cde
<1>8. Cat(de, r) = Cat(d, Cat(e, r))
  BY CatRight DEF de
<1> QED
  BY <1>1, <1>5, <1>6, <1>7, <1>8 DEF Peeled

(* A literal of the fast path before the rest of the text.                 *)
LEMMA Literals ==
  /\ \A x, y \in Nat, r \in Str : Cat(<<x, y>>, r) = Cat(Chr(x), Cat(Chr(y), r))
  /\ \A x, y, z \in Nat, r \in Str :
       Cat(<<x, y, z>>, r) = Cat(Chr(x), Cat(Chr(y), Cat(Chr(z), r)))
  /\ \A b, c, d, e \in Nat, r \in Str :
       Cat(<<b, c, d, e>>, r) = Cat(Chr(b), Cat(Chr(c), Cat(Chr(d), Cat(Chr(e), r))))
  /\ \A a, b, c, d, e \in Nat, r \in Str :
       Cat(<<a, b, c, d, e>>, r)
       = Cat(Chr(a), Cat(Chr(b), Cat(Chr(c), Cat(Chr(d), Cat(Chr(e), r)))))
<1>1. \A x, y \in Nat, s \in Str : <<x, y>> \in Str /\ Cat(<<x, y>>, s) = Cat(Chr(x), Cat(Chr(y), s))
  <2> SUFFICES ASSUME NEW x \in Nat, NEW y \in Nat, NEW s \in Str
               PROVE  <<x, y>> \in Str /\ Cat(<<x, y>>, s) = Cat(Chr(x), Cat(Chr(y), s))
    OBVIOUS
  <2> DEFINE p == Chr(x)
             q == Chr(y)
  <2>1. <<x, y>> = Cat(p, q)
    BY PairIs DEF Cons, Cat, Chr
  <2>2. p \in Str /\ q \in Str
    BY ChrType
  <2> HIDE DEF p, q
  <2>3. Cat(p, q) \in Str
    BY <2>2, CatType
  <2>4. Cat(Cat(p, q), s) = Cat(p, Cat(q, s))
    BY <2>2, CatRight
  <2> QED
    BY <2>1, <2>3, <2>4 DEF p, q
<1>2. \A x, y, z \in Nat, s \in Str :
        <<x, y, z>> \in Str /\ Cat(<<x, y, z>>, s) = Cat(Chr(x), Cat(<<y, z>>, s))
  <2> SUFFICES ASSUME NEW x \in Nat, NEW y \in Nat, NEW z \in Nat, NEW s \in Str
               PROVE  <<x, y, z>> \in Str /\ Cat(<<x, y, z>>, s) = Cat(Chr(x), Cat(<<y, z>>, s))
    OBVIOUS
  <2> DEFINE t == <<y, z>>
             p == Chr(x)
  <2>1. <<x, y, z>> = Cat(p, t)
    BY TripleIs DEF Cons, Cat, Chr
  <2>2. t \in Str /\ p \in Str
    BY <1>1, ChrType, ConcatNone
  <2> HIDE DEF t, p
  <2>3. Cat(p, t) \in Str
    BY <2>2, CatType
  <2>4. Cat(Cat(p, t), s) = Cat(p, Cat(t, s))
    BY <2>2, CatRight
  <2> QED
    BY <2>1, <2>3, <2>4 DEF t, p
<1>3. \A b, c, d, e \in Nat, s \in Str :
        <<b, c, d, e>> \in Str /\ Cat(<<b, c, d, e>>, s) = Cat(Chr(b), Cat(<<c, d, e>>, s))
  <2> SUFFICES ASSUME NEW b \in Nat, NEW c \in Nat, NEW d \in Nat, NEW e \in Nat, NEW s \in Str
               PROVE  <<b, c, d, e>> \in Str /\ Cat(<<b, c, d, e>>, s) = Cat(Chr(b), Cat(<<c, d, e>>, s))
    OBVIOUS
  <2> DEFINE t == <<c, d, e>>
             p == Chr(b)
  <2>1. <<b, c, d, e>> = Cat(p, t)
    BY QuadrupleIs DEF Cons, Cat, Chr
  <2>2. t \in Str /\ p \in Str
    BY <1>2, ChrType, ConcatNone
  <2> HIDE DEF t, p
  <2>3. Cat(p, t) \in Str
    BY <2>2, CatType
  <2>4. Cat(Cat(p, t), s) = Cat(p, Cat(t, s))
    BY <2>2, CatRight
  <2> QED
    BY <2>1, <2>3, <2>4 DEF t, p
<1>4. \A x, y \in Nat, r \in Str : Cat(<<x, y>>, r) = Cat(Chr(x), Cat(Chr(y), r))
  BY <1>1
<1>5. ASSUME NEW x \in Nat, NEW y \in Nat, NEW z \in Nat, NEW r \in Str
      PROVE  Cat(<<x, y, z>>, r) = Cat(Chr(x), Cat(Chr(y), Cat(Chr(z), r)))
  <2>1. Cat(<<y, z>>, r) = Cat(Chr(y), Cat(Chr(z), r))
    BY <1>4
  <2>2. Cat(<<x, y, z>>, r) = Cat(Chr(x), Cat(<<y, z>>, r))
    BY <1>2
  <2> QED
    BY <2>1, <2>2
<1>6. ASSUME NEW b \in Nat, NEW c \in Nat, NEW d \in Nat, NEW e \in Nat, NEW r \in Str
      PROVE  Cat(<<b, c, d, e>>, r) = Cat(Chr(b), Cat(Chr(c), Cat(Chr(d), Cat(Chr(e), r))))
  <2>1. Cat(<<c, d, e>>, r) = Cat(Chr(c), Cat(Chr(d), Cat(Chr(e), r)))
    BY <1>5
  <2>2. Cat(<<b, c, d, e>>, r) = Cat(Chr(b), Cat(<<c, d, e>>, r))
    BY <1>3
  <2> QED
    BY <2>1, <2>2
<1>7. ASSUME NEW a \in Nat, NEW b \in Nat, NEW c \in Nat, NEW d \in Nat, NEW e \in Nat, NEW r \in Str
      PROVE  Cat(<<a, b, c, d, e>>, r)
             = Cat(Chr(a), Cat(Chr(b), Cat(Chr(c), Cat(Chr(d), Cat(Chr(e), r)))))
  <2> DEFINE ca == Chr(a)
             cb == Chr(b)
             cc == Chr(c)
             cd == Chr(d)
             ce == Chr(e)
  <2>1. ca \in Str /\ cb \in Str /\ cc \in Str /\ cd \in Str /\ ce \in Str
    BY ChrType
  <2>5. Cat(<<a, b, c, d, e>>, r) = Cat(ca, Cat(<<b, c, d, e>>, r))
    <3> DEFINE t == <<b, c, d, e>>
    <3>1. <<a, b, c, d, e>> = Cat(ca, t)
      BY QuintupleIs DEF Cons, Cat, Chr
    <3>2. t \in Str
      BY <1>3
    <3> HIDE DEF t, ca
    <3>3. Cat(Cat(ca, t), r) = Cat(ca, Cat(t, r))
      BY <2>1, <3>2, CatRight
    <3> QED
      BY <3>1, <3>3 DEF t
  <2>6. Cat(<<b, c, d, e>>, r) = Cat(cb, Cat(cc, Cat(cd, Cat(ce, r))))
    BY <1>6
  <2> QED
    BY <2>5, <2>6
<1> QED
  BY <1>4, <1>5, <1>6, <1>7, Zenon

(* The nonce tag as serialize_tags() writes it.                            *)
LEMMA NonceTagIs ==
  ASSUME NEW n \in Nat, NEW m \in Nat
  PROVE  /\ NonceTag(n, m) \in Seq(Str)
         /\ TagCode[NonceTag(n, m)] =
              Cat(Chr(OPEN), Cat(InQuotes(NONCE), Part(InQuotes(Decimal[n]),
                Part(InQuotes(Decimal[m]), Chr(CLOSE)))))
<1> DEFINE t == NonceTag(n, m)
           d == Decimal[n]
           e == Decimal[m]
           x == InQuotes(NONCE)
           y == InQuotes(d)
           z == InQuotes(e)
           q == Mapped(QuotedCode, t)
<1>1. NONCE \in Str /\ escape(NONCE) = NONCE
  <2> DEFINE S == {110}
  <2>1. S \subseteq Nat /\ S \cap DOMAIN EscapeLetter = {} /\ NONCE \in Seq(S)
    BY EscapeLetters DEF LF, QUOTE, BSLASH, NONCE
  <2> HIDE DEF S
  <2> QED
    BY <2>1, PlainText
<1>2. \A k \in Nat : Decimal[k] \in Str /\ escape(Decimal[k]) = Decimal[k]
  <2>1. Digit \subseteq Nat /\ Digit \cap DOMAIN EscapeLetter = {}
    BY EscapeLetters DEF LF, QUOTE, BSLASH, Digit
  <2> QED
    BY <2>1, PlainText, DecimalIs
<1>3. /\ QuotedCode[NONCE] = x /\ QuotedCode[d] = y /\ QuotedCode[e] = z
      /\ x \in Str /\ y \in Str /\ z \in Str
  BY <1>1, <1>2, QuotedInQuotes DEF QuotedCode
<1>4. t \in Seq(Str) /\ t = <<NONCE, d, e>>
  BY <1>1, <1>2 DEF NonceTag
<1>5. q = <<x, y, z>>
  <2>1. q \in Seq(Str) /\ Len(q) = Len(t) /\ \A i \in 1..Len(t) : q[i] = QuotedCode[t[i]]
    BY <1>4, MappedType, MappedIs, QuotedDelimited DEF Delimited
  <2>2. Len(t) = 3 /\ t[1] = NONCE /\ t[2] = d /\ t[3] = e
    BY <1>4
  <2> HIDE DEF q, t, x, y, z
  <2>3. q[1] = x /\ q[2] = y /\ q[3] = z /\ Len(q) = 3
    BY <1>3, <2>1, <2>2
  <2> QED
    BY <2>1, <2>3
<1>6. TagCode[t] = Bracketed(q)
  BY <1>4 DEF TagCode, BracketsCode
<1> HIDE DEF x, y, z, q
<1>7. Bracketed(<<x, y, z>>) = Cat(Chr(OPEN), Cat(x, Part(y, Part(z, Chr(CLOSE)))))
  <2> DEFINE s1 == <<z>>
             s2 == <<y, z>>
             E(s) == Terminated(Comma, CLOSE, s)
  <2>1. s1 \in Seq(Str) /\ s2 \in Seq(Str) /\ <<>> \in Seq(Str)
    BY <1>3
  <2>2. s1 = Cons(z, <<>>)
    BY SingleIs
  <2>3. s2 = Cons(y, s1)
    BY PairIs
  <2>4. <<x, y, z>> = Cons(x, s2)
    BY TripleIs
  <2> HIDE DEF s1, s2
  <2>5. E(<<>>) = Chr(CLOSE)
    BY CommaWrites, TerminatedNone DEF CLOSE
  <2>6. E(s1) = Part(z, E(<<>>))
    BY <1>3, <2>1, <2>2, TerminatedPart
  <2>7. E(s2) = Part(y, E(s1))
    BY <1>3, <2>1, <2>3, TerminatedPart
  <2>8. Bracketed(Cons(x, s2)) = Cat(Chr(OPEN), Cat(x, E(s2)))
    BY <1>3, <2>1, BracketedCons
  <2> QED
    BY <2>4, <2>5, <2>6, <2>7, <2>8
<1> QED
  BY <1>4, <1>5, <1>6, <1>7 DEF x, y, z

(* A part, and what follows its rest.                                      *)
LEMMA PartCat ==
  ASSUME NEW x \in Str, NEW r \in Str, NEW s \in Str
  PROVE  Cat(Part(x, r), s) = Part(x, Cat(r, s))
<1> DEFINE k == Chr(COMMA)
           a == Cat(x, r)
<1>1. k \in Str /\ a \in Str
  BY ChrType, CatType DEF COMMA
<1>2. Cat(a, s) = Cat(x, Cat(r, s))
  BY CatRight
<1> HIDE DEF k, a
<1>3. Cat(Cat(k, a), s) = Cat(k, Cat(a, s))
  BY <1>1, CatRight
<1> QED
  BY <1>2, <1>3 DEF Part, k, a

(* A part between quotes, character by character.                          *)
LEMMA QuotedPart ==
  ASSUME NEW x \in Str, NEW r \in Str
  PROVE  Part(InQuotes(x), r) = Cat(Chr(COMMA), Cat(Chr(QUOTE), Cat(x, Cat(Chr(QUOTE), r))))
  BY InQuotesCat DEF Part

(* The same bytes from the nonce tag on: the fast path's literals, and the *)
(* tag, the brackets and the content that event_id() writes.               *)
SameFromTag(word, dn, dm, es) ==
  Cat(<<OPEN, QUOTE>>, Cat(word, Cat(<<QUOTE, COMMA, QUOTE>>, Cat(dn,
      Cat(<<QUOTE, COMMA, QUOTE>>, Cat(dm, Cat(<<QUOTE, CLOSE, CLOSE, COMMA, QUOTE>>,
        Cat(es, <<QUOTE, CLOSE>>))))))))
    = Cat(Cat(Chr(OPEN), Cat(InQuotes(word), Part(InQuotes(dn),
        Part(InQuotes(dm), Chr(CLOSE))))),
        Cat(Chr(CLOSE), Part(InQuotes(es), Chr(CLOSE))))

(* From the nonce tag on, both write the same bytes.                       *)
LEMMA FromTag ==
  ASSUME NEW word \in Str, NEW dn \in Str, NEW dm \in Str, NEW es \in Str
  PROVE  SameFromTag(word, dn, dm, es)
<1> DEFINE O == Chr(OPEN)
           K == Chr(COMMA)
           Q == Chr(QUOTE)
           C == Chr(CLOSE)
           oq == <<OPEN, QUOTE>>
           qkq == <<QUOTE, COMMA, QUOTE>>
           mid == <<QUOTE, CLOSE, CLOSE, COMMA, QUOTE>>
           w1 == Cat(es, <<QUOTE, CLOSE>>)
           w2 == Cat(mid, w1)
           w3 == Cat(dm, w2)
           w4 == Cat(qkq, w3)
           w5 == Cat(dn, w4)
           w6 == Cat(qkq, w5)
           w7 == Cat(word, w6)
           w8 == Cat(oq, w7)
           x == Cat(C, Part(InQuotes(es), C))
           y1 == Part(InQuotes(dm), Cat(C, x))
           y2 == Part(InQuotes(dn), y1)
           iw == InQuotes(word)
           id == InQuotes(dn)
           im == InQuotes(dm)
<1>1. OPEN \in Nat /\ COMMA \in Nat /\ QUOTE \in Nat /\ CLOSE \in Nat
  BY DEF OPEN, COMMA, QUOTE, CLOSE
<1>2. O \in Str /\ K \in Str /\ Q \in Str /\ C \in Str
  BY <1>1, ChrType
<1>3. <<QUOTE, CLOSE>> = Cat(Q, C)
  BY PairIs DEF Cons, Cat, Chr
<1>4. Cat(Q, C) \in Str /\ w1 \in Str /\ w1 = Cat(es, Cat(Q, C))
  <2>1. Cat(Q, C) \in Str
    BY <1>2, CatType
  <2>2. Cat(es, Cat(Q, C)) \in Str
    BY <2>1, CatType
  <2> QED
    BY <2>1, <2>2, <1>3
<1>5. x = Cat(C, Cat(K, Cat(Q, w1)))
  BY <1>2, <1>4, QuotedPart
<1> HIDE DEF w1
<1>6. w2 = Cat(Q, Cat(C, Cat(C, Cat(K, Cat(Q, w1)))))
  BY <1>1, <1>4, Literals
<1>7. Cat(Q, w1) \in Str
  BY <1>2, <1>4, CatType
<1>8. Cat(K, Cat(Q, w1)) \in Str
  BY <1>2, <1>7, CatType
<1>9. x \in Str
  BY <1>2, <1>5, <1>8, CatType
<1>10. Cat(C, x) \in Str /\ Part(InQuotes(es), C) \in Str
  BY <1>2, <1>9, CatType, PartType, InQuotesCat
<1>11. w2 \in Str /\ w2 = Cat(Q, Cat(C, x))
  <2>1. w2 = Cat(Q, Cat(C, x))
    BY <1>5, <1>6
  <2>2. Cat(Q, Cat(C, x)) \in Str
    BY <1>2, <1>10, CatType
  <2> QED
    BY <2>1, <2>2
<1> HIDE DEF w2, x
<1>12. w3 \in Str
  BY <1>11, CatType
<1>13. y1 = Cat(K, Cat(Q, w3))
  BY <1>10, <1>11, QuotedPart
<1> HIDE DEF w3
<1>14. w4 = Cat(Q, Cat(K, Cat(Q, w3)))
  BY <1>1, <1>12, Literals
<1>15. y1 \in Str /\ w4 \in Str /\ w4 = Cat(Q, y1)
  <2>1. Cat(Q, w3) \in Str
    BY <1>2, <1>12, CatType
  <2>2. Cat(K, Cat(Q, w3)) \in Str
    BY <1>2, <2>1, CatType
  <2>3. Cat(Q, Cat(K, Cat(Q, w3))) \in Str
    BY <1>2, <2>2, CatType
  <2> QED
    BY <1>13, <1>14, <2>2, <2>3
<1> HIDE DEF w4
<1>16. w5 \in Str
  BY <1>15, CatType
<1>17. y2 = Cat(K, Cat(Q, w5))
  <2> HIDE DEF y1
  <2> QED
    BY <1>15, QuotedPart
<1> HIDE DEF w5
<1>18. w6 = Cat(Q, Cat(K, Cat(Q, w5)))
  BY <1>1, <1>16, Literals
<1>19. y2 \in Str /\ w6 \in Str /\ w6 = Cat(Q, y2)
  <2>1. Cat(Q, w5) \in Str
    BY <1>2, <1>16, CatType
  <2>2. Cat(K, Cat(Q, w5)) \in Str
    BY <1>2, <2>1, CatType
  <2>3. Cat(Q, Cat(K, Cat(Q, w5))) \in Str
    BY <1>2, <2>2, CatType
  <2> QED
    BY <1>17, <1>18, <2>2, <2>3
<1> HIDE DEF w6
<1>20. w7 \in Str
  BY <1>19, CatType
<1>21. Cat(iw, y2) = Cat(Q, w7)
  <2> HIDE DEF y2
  <2>1. Cat(InQuotes(word), y2) = Cat(Q, Cat(word, Cat(Q, y2)))
    BY <1>19, InQuotesCat
  <2> QED
    BY <2>1, <1>19
<1> HIDE DEF w7
<1>22. w8 = Cat(O, Cat(Q, w7))
  BY <1>1, <1>20, Literals
<1>23. iw \in Str /\ id \in Str /\ im \in Str
  BY <1>2, InQuotesCat
<1> HIDE DEF iw, id, im, w8, O, C
<1>24. Cat(Cat(O, Cat(iw, Part(id, Part(im, C)))), x) = Cat(O, Cat(iw, Part(id, Part(im, Cat(C, x)))))
  <2> DEFINE p1 == Part(im, C)
             p2 == Part(id, p1)
             p3 == Cat(iw, p2)
  <2>1. p1 \in Str
    BY <1>2, <1>23, PartType
  <2>2. Cat(p1, x) = Part(im, Cat(C, x))
    BY <1>2, <1>9, <1>23, PartCat
  <2> HIDE DEF p1
  <2>3. p2 \in Str
    BY <2>1, <1>23, PartType
  <2>4. Cat(p2, x) = Part(id, Cat(p1, x))
    BY <2>1, <1>9, <1>23, PartCat
  <2> HIDE DEF p2
  <2>5. p3 \in Str
    BY <2>3, <1>23, CatType
  <2>6. Cat(p3, x) = Cat(iw, Cat(p2, x))
    BY <2>3, <1>9, <1>23, CatRight
  <2> HIDE DEF p3
  <2>7. Cat(Cat(O, p3), x) = Cat(O, Cat(p3, x))
    BY <2>5, <1>2, <1>9, CatRight
  <2>8. Cat(Cat(O, p3), x) = Cat(O, Cat(iw, Part(id, Part(im, Cat(C, x)))))
    BY <2>2, <2>4, <2>6, <2>7
  <2> QED
    BY <2>8 DEF p1, p2, p3
<1>25. Cat(iw, Part(id, Part(im, Cat(C, x)))) = Cat(Q, w7)
  BY <1>21 DEF id, im
<1>26. Cat(Cat(O, Cat(iw, Part(id, Part(im, C)))), x) = w8
  BY <1>22, <1>24, <1>25
<1> QED
  BY <1>26 DEF SameFromTag, w1, w2, w3, w4, w5, w6, w7, w8, x, iw, id, im, O, C

(* The same bytes up to the tags.                                          *)
SameUpToTags(p, dt, dk, r) ==
  Cat(<<OPEN, ZERO, COMMA, QUOTE>>, Cat(p, Cat(<<QUOTE, COMMA>>, Cat(dt,
      Cat(Chr(COMMA), Cat(dk, Cat(Chr(COMMA), r)))))))
    = Cat(Chr(OPEN), Cat(Chr(ZERO), Part(InQuotes(p), Part(dt, Part(dk, Cat(Chr(COMMA), r))))))

(* Up to the tags, both write the same bytes.                              *)
LEMMA UpToTags ==
  ASSUME NEW p \in Str, NEW dt \in Str, NEW dk \in Str, NEW r \in Str
  PROVE  SameUpToTags(p, dt, dk, r)
<1> DEFINE K == Chr(COMMA)
           Q == Chr(QUOTE)
           v1 == Cat(K, r)
           v2 == Cat(K, Cat(dk, v1))
           v3 == Cat(dt, v2)
           v4 == Cat(<<QUOTE, COMMA>>, v3)
           v5 == Cat(p, v4)
<1>1. OPEN \in Nat /\ ZERO \in Nat /\ COMMA \in Nat /\ QUOTE \in Nat
  BY DEF OPEN, ZERO, COMMA, QUOTE
<1>2. K \in Str /\ Q \in Str
  BY <1>1, ChrType
<1>3. v1 \in Str
  BY <1>2, CatType
<1> HIDE DEF v1
<1>4. v2 \in Str
  <2>1. Cat(dk, v1) \in Str
    BY <1>3, CatType
  <2> QED
    BY <1>2, <2>1, CatType
<1>5. v2 = Part(dk, v1)
  BY DEF Part
<1> HIDE DEF v2
<1>6. v3 \in Str /\ Cat(K, v3) = Part(dt, v2)
  BY <1>4, CatType DEF Part
<1> HIDE DEF v3
<1>7. v4 = Cat(Q, Cat(K, v3))
  BY <1>1, <1>6, Literals
<1>8. Cat(K, v3) \in Str
  BY <1>2, <1>6, CatType
<1>9. v4 \in Str
  BY <1>2, <1>7, <1>8, CatType
<1> HIDE DEF v4
<1>10. v5 \in Str
  BY <1>9, CatType
<1>11. Cat(K, Cat(Q, v5)) = Part(InQuotes(p), Cat(K, v3))
  <2>1. Part(InQuotes(p), Cat(K, v3)) = Cat(K, Cat(Q, Cat(p, Cat(Q, Cat(K, v3)))))
    BY <1>8, QuotedPart
  <2> QED
    BY <2>1, <1>7
<1> HIDE DEF v5
<1>12. Cat(<<OPEN, ZERO, COMMA, QUOTE>>, v5) = Cat(Chr(OPEN), Cat(Chr(ZERO), Cat(K, Cat(Q, v5))))
  BY <1>1, <1>10, Literals
<1>13. Cat(<<OPEN, ZERO, COMMA, QUOTE>>, v5)
       = Cat(Chr(OPEN), Cat(Chr(ZERO), Part(InQuotes(p), Part(dt, Part(dk, v1)))))
  BY <1>5, <1>6, <1>11, <1>12
<1> QED
  BY <1>13 DEF SameUpToTags, v1, v2, v3, v4, v5

(* mine() hashes the bytes that event_id() recomputes with the nonce tag.  *)
THEOREM FastPathIsEventId ==
  ASSUME NEW p \in Str, NEW t \in Nat, NEW k \in Nat, NEW tags \in Seq(Seq(Str)), NEW c \in Str,
         NEW m \in Nat, NEW n \in Nat
  PROVE  FastPathId(p, t, k, tags, c, m, n) = event_id(p, t, k, Append(tags, NonceTag(n, m)), c)
<1> DEFINE O == Chr(OPEN)
           Z == Chr(ZERO)
           K == Chr(COMMA)
           Q == Chr(QUOTE)
           C == Chr(CLOSE)
           dt == Decimal[t]
           dk == Decimal[k]
           dn == Decimal[n]
           dm == Decimal[m]
           ot == OpenTags(tags)
           es == escape(c)
           nt == NonceTag(n, m)
           word == NONCE
           all == Append(tags, nt)
           qc == <<QUOTE, CLOSE>>
           qkq == <<QUOTE, COMMA, QUOTE>>
           oq == <<OPEN, QUOTE>>
           qk == <<QUOTE, COMMA>>
           start == <<OPEN, ZERO, COMMA, QUOTE>>
           mid == <<QUOTE, CLOSE, CLOSE, COMMA, QUOTE>>
           prefix == start \o p \o qk \o dt \o <<COMMA>> \o dk \o <<COMMA>>
                     \o ot \o oq \o word \o qkq
           suffix == qkq \o dm \o mid \o es \o qc
<1>1. OPEN \in Nat /\ ZERO \in Nat /\ COMMA \in Nat /\ QUOTE \in Nat /\ CLOSE \in Nat
  BY DEF OPEN, ZERO, COMMA, QUOTE, CLOSE
<1>2. O \in Str /\ Z \in Str /\ K \in Str /\ Q \in Str /\ C \in Str
  BY <1>1, ChrType
<1>3. dt \in Str /\ dk \in Str /\ dn \in Str /\ dm \in Str
  BY DecimalIs, DigitsAreText
<1>4. es \in Str /\ Quoted(c) = InQuotes(es)
  BY QuotedInQuotes
<1>5. nt \in Seq(Str)
  BY NonceTagIs
<1>6. all \in Seq(Seq(Str)) /\ ot \in Str /\ serialize_tags(all) = Cat(ot, Cat(TagCode[nt], C))
  BY <1>5, TagAppended
<1>7. word \in Str
  BY DEF NONCE, Str
<1>8. /\ qc \in Str /\ qkq \in Str /\ oq \in Str /\ qk \in Str /\ start \in Str /\ mid \in Str
  BY <1>1 DEF Str
<1>9. FastPathId(p, t, k, tags, c, m, n) = Sha256(prefix \o dn \o suffix)
  <2>1. NonceDigits(n) = dn
    BY NonceIsDecimal
  <2> QED
    BY <2>1 DEF FastPathId
<1> HIDE DEF dt, dk, dn, dm, ot, es, word, all
(* The bytes of the fast path.                                             *)
<1> DEFINE afterSuffix == Cat(qkq, Cat(dm, Cat(mid, Cat(es, qc))))
           R == Cat(dn, suffix)
           fromTag == Cat(oq, Cat(word, Cat(qkq, R)))
<1>10. suffix = afterSuffix /\ suffix \in Str
  <2>1. suffix = Five(qkq, dm, mid, es, qc)
    BY DEF Five
  <2> HIDE DEF qkq, mid, qc
  <2>2. Five(qkq, dm, mid, es, qc) = afterSuffix /\ Five(qkq, dm, mid, es, qc) \in Str
    BY <1>3, <1>4, <1>8, FiveParts
  <2> QED
    BY <2>1, <2>2
<1>11. R \in Str
  <2> HIDE DEF suffix
  <2> QED
    BY <1>3, <1>10, CatType
<1>12. prefix \o dn \o suffix
       = Cat(start, Cat(p, Cat(qk, Cat(dt, Cat(K, Cat(dk, Cat(K, Cat(ot, fromTag))))))))
  <2> DEFINE p5 == Five(start, p, qk, dt, K)
             p9 == Five(p5, dk, K, ot, oq)
             r == Cat(word, Cat(qkq, R))
             s == Cat(dk, Cat(K, Cat(ot, Cat(oq, r))))
  <2>1. prefix = Cat(Cat(p9, word), qkq)
    BY DEF Cat, Chr, Five
  <2> HIDE DEF R, start, qk, K, oq, qkq, prefix, suffix
  <2>2. p5 \in Str
    BY <1>2, <1>3, <1>8, FiveParts
  <2> HIDE DEF p5
  <2>3. p9 \in Str
    BY <1>2, <1>3, <1>6, <1>8, <2>2, FiveParts
  <2> HIDE DEF p9
  <2>4. Cat(p9, word) \in Str /\ prefix \in Str
    <3>1. Cat(p9, word) \in Str
      BY <1>7, <2>3, CatType
    <3> QED
      BY <3>1, <1>8, <2>1, CatType
  <2>5. prefix \o dn \o suffix = Cat(prefix, R)
    <3>1. Cat(Cat(prefix, dn), suffix) = Cat(prefix, Cat(dn, suffix))
      BY <1>3, <1>10, <2>4, CatRight
    <3> QED
      BY <3>1, Zenon DEF Cat, R
  <2>6. Cat(qkq, R) \in Str
    BY <1>8, <1>11, CatType
  <2>7. Cat(prefix, R) = Cat(p9, r)
    <3>1. Cat(Cat(Cat(p9, word), qkq), R) = Cat(Cat(p9, word), Cat(qkq, R))
      BY <1>8, <1>11, <2>4, CatRight
    <3>2. Cat(Cat(p9, word), Cat(qkq, R)) = Cat(p9, r)
      BY <1>7, <2>3, <2>6, CatRight
    <3> QED
      BY <2>1, <3>1, <3>2
  <2>8. r \in Str
    BY <1>7, <2>6, CatType
  <2>9. fromTag = Cat(oq, r)
    OBVIOUS
  <2> HIDE DEF r
  <2>10. Cat(p9, r) = Cat(p5, s)
    <3>1. Peeled(p5, dk, K, ot, oq, r)
      <4>1. p5 \in Str /\ dk \in Str /\ K \in Str /\ ot \in Str /\ oq \in Str /\ r \in Str
        BY <1>2, <1>3, <1>6, <1>8, <2>2, <2>8
      <4> QED
        BY <4>1, FiveBefore, Zenon
    <3> QED
      BY <3>1 DEF p9, Peeled
  <2>11. s \in Str
    <3>1. Cat(oq, r) \in Str
      BY <1>8, <2>8, CatType
    <3>2. Cat(ot, Cat(oq, r)) \in Str
      BY <1>6, <3>1, CatType
    <3>3. Cat(K, Cat(ot, Cat(oq, r))) \in Str
      BY <1>2, <3>2, CatType
    <3> QED
      BY <1>3, <3>3, CatType
  <2>12. s = Cat(dk, Cat(K, Cat(ot, fromTag)))
    BY <2>9
  <2> HIDE DEF s
  <2>13. Cat(p5, s) = Cat(start, Cat(p, Cat(qk, Cat(dt, Cat(K, s)))))
    <3>1. Peeled(start, p, qk, dt, K, s)
      <4>1. start \in Str /\ qk \in Str /\ dt \in Str /\ K \in Str /\ s \in Str
        BY <1>2, <1>3, <1>8, <2>11
      <4> QED
        BY <4>1, FiveBefore, Zenon
    <3> QED
      BY <3>1 DEF p5, Peeled
  <2> QED
    BY <2>5, <2>7, <2>10, <2>12, <2>13
(* The bytes event_id() hashes.                                            *)
<1> DEFINE tt == TagCode[nt]
           end == Part(Quoted(c), C)
           tags2 == serialize_tags(all)
<1>13. tt \in Str
  BY <1>5, TagsDelimited DEF Delimited, Writes
<1>14. end \in Str
  BY <1>2, QuotedInQuotes, PartType
<1>15. fromTag = Cat(tt, Cat(C, end))
  <2>1. tt = Cat(O, Cat(InQuotes(word), Part(InQuotes(dn), Part(InQuotes(dm), C))))
    BY NonceTagIs DEF word, dn, dm
  <2>2. fromTag = Cat(Cat(O, Cat(InQuotes(word), Part(InQuotes(dn), Part(InQuotes(dm), C)))),
                      Cat(C, Part(InQuotes(es), C)))
    <3>1. /\ word \in Str /\ dn \in Str /\ dm \in Str /\ es \in Str
      BY <1>3, <1>4, <1>7
    <3>2. Cat(oq, Cat(word, Cat(qkq, Cat(dn, Cat(qkq, Cat(dm, Cat(mid, Cat(es, qc))))))))
          = Cat(Cat(O, Cat(InQuotes(word), Part(InQuotes(dn), Part(InQuotes(dm), C)))),
                Cat(C, Part(InQuotes(es), C)))
      <4>1. SameFromTag(word, dn, dm, es)
        BY <3>1, FromTag, Zenon
      <4> QED
        BY <4>1 DEF SameFromTag
    <3> QED
      BY <3>2, <1>10
  <2> QED
    BY <2>1, <2>2, <1>4
<1> HIDE DEF tt, end, fromTag
<1>16. Part(tags2, end) = Cat(K, Cat(ot, fromTag))
  <2>1. Cat(tt, C) \in Str
    BY <1>2, <1>13, CatType
  <2>2. tags2 = Cat(ot, Cat(tt, C))
    BY <1>6 DEF tt
  <2>3. Cat(Cat(ot, Cat(tt, C)), end) = Cat(ot, Cat(Cat(tt, C), end))
    BY <1>6, <1>14, <2>1, CatRight
  <2>4. Cat(Cat(tt, C), end) = Cat(tt, Cat(C, end))
    BY <1>2, <1>13, <1>14, CatRight
  <2> QED
    BY <1>15, <2>2, <2>3, <2>4 DEF Part
<1>17. Cat(ot, fromTag) \in Str
  <2>1. Cat(C, end) \in Str
    BY <1>2, <1>14, CatType
  <2>2. fromTag \in Str
    BY <1>13, <1>15, <2>1, CatType
  <2> QED
    BY <1>6, <2>2, CatType
<1> DEFINE rest == Cat(ot, fromTag)
<1>18. canonical(p, t, k, all, c) = Canon(p, dt, dk, tags2, Quoted(c))
  BY <1>6, CanonicalIs DEF dt, dk
<1>19. Canon(p, dt, dk, tags2, Quoted(c))
       = Cat(O, Cat(Z, Part(InQuotes(p), Part(dt, Part(dk, Cat(K, rest))))))
  BY <1>16 DEF Canon, end
<1> HIDE DEF rest
<1>20. Cat(start, Cat(p, Cat(qk, Cat(dt, Cat(K, Cat(dk, Cat(K, rest)))))))
       = Cat(O, Cat(Z, Part(InQuotes(p), Part(dt, Part(dk, Cat(K, rest))))))
  <2>1. dt \in Str /\ dk \in Str /\ rest \in Str
    BY <1>3, <1>17 DEF rest
  <2>2. SameUpToTags(p, dt, dk, rest)
    BY <2>1, UpToTags, Zenon
  <2> QED
    BY <2>2 DEF SameUpToTags
<1>21. canonical(p, t, k, all, c) = prefix \o dn \o suffix
  <2> HIDE DEF prefix, suffix
  <2> QED
    BY <1>12, <1>18, <1>19, <1>20 DEF rest
<1> HIDE DEF prefix, suffix
<1>22. Sha256(canonical(p, t, k, all, c)) = FastPathId(p, t, k, tags, c, m, n)
  BY <1>9, <1>21
<1> QED
  BY <1>22 DEF event_id, all

-----------------------------------------------------------------------------
(* The events signed, and those on the wire.                               *)

(* Ids: hashes of texts.                                                   *)
Ids == [sha256 : Str]

(* What a relay can make of an event.                                      *)
Carried ==
  [parses : BOOLEAN, pubkey : Str, created_at : Nat, kind : Nat,
   tags : Seq(Seq(Str)), content : Str, id : Ids, sig : [key : Authors, over : Ids]]

(* What sign_event_with_key() returns, mined or not.                       *)
SignedOf(a, t, k, tags, c) == Event(a, t, k, tags, c, event_id(<<a>>, t, k, tags, c))

(* An event as its author got it back.                                     *)
IsSigned(s) ==
  \E a \in Authors, t \in Nat, k \in Nat, tags \in Seq(Seq(Str)), c \in Str :
    k < U32 /\ s = SignedOf(a, t, k, tags, c)

(* An author's key in hex decodes to itself.                               *)
LEMMA KeyText ==
  ASSUME NEW a \in Authors
  PROVE  <<a>> \in Str /\ IsHex(<<a>>) /\ DecodeKey(<<a>>) = a
<1>1. a \in 97..102
  BY ChatAssumption
<1> QED
  BY <1>1 DEF Str, IsHex, DecodeKey

(* A kind below 2^32 is kept when it is cut to 32 bits.                    *)
LEMMA Kept32 == \A k \in Nat : k % U32 \in Nat /\ (k < U32 => k % U32 = k)
  BY ChatAssumption

(* A signed event can be carried, verifies, and was signed.                *)
LEMMA SignedProperties ==
  ASSUME NEW a \in Authors, NEW t \in Nat, NEW k \in Nat, NEW tags \in Seq(Seq(Str)), NEW c \in Str,
         k < U32
  PROVE  /\ SignedOf(a, t, k, tags, c) \in Carried
         /\ verify_event_json(SignedOf(a, t, k, tags, c)) = "yes"
         /\ IsSigned(SignedOf(a, t, k, tags, c))
<1> DEFINE p == <<a>>
           id == event_id(p, t, k, tags, c)
           e == SignedOf(a, t, k, tags, c)
<1>1. p \in Str /\ IsHex(p) /\ DecodeKey(p) = a
  BY KeyText
<1>2. id \in Ids
  BY <1>1, CanonicalType DEF event_id, Sha256, Ids
<1>3. e = [parses |-> TRUE, pubkey |-> p, created_at |-> t, kind |-> k, tags |-> tags,
           content |-> c, id |-> id, sig |-> [key |-> a, over |-> id]]
  BY DEF SignedOf, Event
<1>4. IsSigned(e)
  BY DEF IsSigned
<1> HIDE DEF p, id, e
<1>5. /\ e.parses = TRUE /\ e.pubkey = p /\ e.created_at = t /\ e.kind = k /\ e.tags = tags
      /\ e.content = c /\ e.id = id /\ e.sig = [key |-> a, over |-> id]
  BY <1>3
<1>6. e \in Carried
  BY <1>1, <1>2, <1>3 DEF Carried
<1>7. event_id(e.pubkey, e.created_at, e.kind % U32, e.tags, e.content) = e.id
  <2>1. k % U32 = k
    BY Kept32
  <2> QED
    BY <1>5, <2>1 DEF id, p
<1>8. verify_event_json(e) = "yes"
  BY <1>1, <1>5, <1>7 DEF verify_event_json
<1> QED
  BY <1>4, <1>6, <1>8 DEF e

(* The same of an event that is known to be signed.                        *)
LEMMA IsSignedVerifies == \A s : IsSigned(s) => s \in Carried /\ verify_event_json(s) = "yes"
<1> SUFFICES ASSUME NEW s, IsSigned(s) PROVE s \in Carried /\ verify_event_json(s) = "yes"
  OBVIOUS
<1>1. PICK a \in Authors, t \in Nat, k \in Nat, tags \in Seq(Seq(Str)), c \in Str :
        k < U32 /\ s = SignedOf(a, t, k, tags, c)
  BY DEF IsSigned
<1> QED
  BY <1>1, SignedProperties

(* An event that verifies carries the fields its signature was made for.   *)
LEMMA VerifiedFields ==
  ASSUME NEW e \in Carried, NEW s, IsSigned(s), e.sig = s.sig, verify_event_json(e) = "yes"
  PROVE  Fields([e EXCEPT !.kind = e.kind % U32]) = Fields(s)
<1>1. PICK a \in Authors, t \in Nat, k \in Nat, tags \in Seq(Seq(Str)), c \in Str :
        k < U32 /\ s = SignedOf(a, t, k, tags, c)
  BY DEF IsSigned
<1> DEFINE p == <<a>>
           q == e.pubkey
           u == e.created_at
           l == e.kind % U32
           h == e.tags
           d == e.content
           id == event_id(p, t, k, tags, c)
           re == event_id(q, u, l, h, d)
<1>2. p \in Str /\ IsHex(p)
  BY KeyText
<1>3. q \in Str /\ u \in Nat /\ l \in Nat /\ h \in Seq(Seq(Str)) /\ d \in Str
  BY Kept32 DEF Carried
<1>4. s = [parses |-> TRUE, pubkey |-> p, created_at |-> t, kind |-> k, tags |-> tags,
           content |-> c, id |-> id, sig |-> [key |-> a, over |-> id]]
  BY <1>1 DEF SignedOf, Event
<1>5. IsHex(q) /\ e.sig = [key |-> DecodeKey(q), over |-> re]
  BY DEF verify_event_json
<1> HIDE DEF p, q, u, l, h, d, id, re
<1>6. s.sig.over = id /\ s.sig.over = re
  BY <1>4, <1>5
<1>7. ASSUME NEW x \in Str, IsHex(x)
      PROVE  Free(x, QUOTE)
  <2> SUFFICES ASSUME NEW i \in 1..Len(x) PROVE x[i] # QUOTE
    BY DEF Free
  <2>1. i \in DOMAIN x
    BY LenProperties DEF Str
  <2>2. x[i] \in (97..102) \cup (65..70)
    BY <1>7, <2>1 DEF IsHex
  <2> QED
    BY <2>2 DEF QUOTE
<1>8. canonical(p, t, k, tags, c) = canonical(q, u, l, h, d)
  <2>1. Sha256(canonical(p, t, k, tags, c)) = Sha256(canonical(q, u, l, h, d))
    BY <1>6 DEF event_id, id, re
  <2> DEFINE x == canonical(p, t, k, tags, c)
             y == canonical(q, u, l, h, d)
  <2> HIDE DEF x, y
  <2>2. Sha256(x) = Sha256(y) => x = y
    BY DEF Sha256
  <2> QED
    BY <2>1, <2>2 DEF x, y
<1>9. SameParts(p, t, k, tags, c, q, u, l, h, d)
  <2>1. /\ p \in Str /\ t \in Nat /\ k \in Nat /\ tags \in Seq(Seq(Str)) /\ c \in Str
        /\ q \in Str /\ u \in Nat /\ l \in Nat /\ h \in Seq(Seq(Str)) /\ d \in Str
        /\ Free(p, QUOTE) /\ Free(q, QUOTE)
    BY <1>1, <1>2, <1>3, <1>5, <1>7
  <2> QED
    BY <2>1, <1>8, CanonicalInjective, Zenon
<1> DEFINE f == [e EXCEPT !.kind = l]
<1>10. /\ f.pubkey = q /\ f.created_at = u /\ f.kind = l /\ f.tags = h /\ f.content = d
  BY DEF Carried, q, u, h, d
<1> HIDE DEF f
<1>11. Fields(f) = <<q, u, l, h, d>>
  BY <1>10 DEF Fields
<1>12. Fields(s) = <<p, t, k, tags, c>>
  BY <1>4 DEF Fields
<1>13. Fields(f) = Fields(s)
  BY <1>9, <1>11, <1>12 DEF SameParts
<1> QED
  BY <1>13 DEF f, l

-----------------------------------------------------------------------------
(* The inductive invariant.                                                *)

(* Every event kept was signed with its id.                                *)
SignedInv == \A s \in signed : IsSigned(s)

(* One event is in transit, and its signature was made.                    *)
WireInv ==
  /\ \A e, f \in wire : e = f
  /\ \A e \in wire : e \in Carried /\ \E s \in signed : e.sig = s.sig

(* Nothing changed, nothing lost.                                          *)
UnalteredInv == alterations \in Nat /\ (alterations = 0 => wire \subseteq signed)

(* The verdict is that of the event in transit.                            *)
VerdictInv ==
  verdict # "none" => wire # {} /\ \A e \in wire : verdict = verify_event_json(e)

(* The inductive invariant of the specification.                           *)
ChatInv == SignedInv /\ WireInv /\ UnalteredInv /\ VerdictInv

(* It holds at first.                                                      *)
LEMMA ChatInit == Init => ChatInv
  BY ChatAssumption DEF Init, ChatInv, SignedInv, WireInv, UnalteredInv, VerdictInv

(* Publishing a signed event preserves it: a verdict given before was that *)
(* of an event that arrived unaltered.                                     *)
LEMMA PublishStep ==
  ASSUME ChatInv, alterations = 0, NEW s, IsSigned(s), Publish(s)
  PROVE  ChatInv'
<1>1. s \in Carried /\ verify_event_json(s) = "yes"
  BY IsSignedVerifies
<1>2. SignedInv'
  BY DEF ChatInv, SignedInv, Publish
<1>3. WireInv'
  BY <1>1 DEF WireInv, Publish
<1>4. UnalteredInv'
  BY DEF ChatInv, UnalteredInv, Publish
<1>5. VerdictInv'
  <2> SUFFICES ASSUME verdict # "none" PROVE verdict = "yes"
    BY <1>1 DEF VerdictInv, Publish
  <2>1. PICK e \in wire : verdict = verify_event_json(e)
    BY DEF ChatInv, VerdictInv
  <2>2. IsSigned(e)
    BY DEF ChatInv, UnalteredInv, SignedInv
  <2> QED
    BY <2>1, <2>2, IsSignedVerifies
<1> QED
  BY <1>2, <1>3, <1>4, <1>5 DEF ChatInv

(* What authors and relays can put in a field has the type of the field.   *)
LEMMA Inputs ==
  /\ \A k \in Kinds : k \in Nat
  /\ \A t \in Times : t \in Nat
  /\ \A c \in Contents : c \in Str
  /\ \A g \in TagLists : g \in Seq(Seq(Str))
  /\ \A n \in Nonces : n \in Nat
  /\ \A p \in PubkeyTexts : p \in Str
<1>1. \A a \in Authors : a \in 97..102
  BY ChatAssumption
<1>2. \A p \in PubkeyTexts : p \in Str
  <2>1. \A a \in 97..102 : <<a>> \in Seq(Nat) /\ a - 32 \in Nat
    OBVIOUS
  <2>2. \A a \in 97..102 : <<a - 32>> \in Seq(Nat)
    BY <2>1
  <2>3. <<QUOTE>> \in Seq(Nat)
    BY DEF QUOTE
  <2> QED
    BY <1>1, <2>1, <2>2, <2>3 DEF PubkeyTexts, Str
<1> QED
  BY <1>2, ChatAssumption DEF Str

(* Every step preserves it. A relay that alters a field leaves a signature *)
(* that was made, for whatever fields it was made for.                     *)
LEMMA ChatStep == ChatInv /\ [Next]_vars => ChatInv'
<1> SUFFICES ASSUME ChatInv, [Next]_vars PROVE ChatInv'
  OBVIOUS
<1> USE DEF ChatInv
<1>1. ASSUME NEW a \in Authors, NEW t \in Times, NEW k \in Kinds, NEW g \in TagLists,
             NEW c \in Contents, Sign(a, t, k, g, c)
      PROVE  ChatInv'
  <2> DEFINE s == SignedOf(a, t, k, g, c)
  <2>1. IsSigned(s)
    BY <1>1, Inputs, SignedProperties DEF Sign
  <2>2. alterations = 0 /\ Publish(s)
    BY <1>1 DEF Sign, SignedOf
  <2> QED
    BY <2>1, <2>2, PublishStep
<1>2. ASSUME NEW a \in Authors, NEW t \in Times, NEW k \in Kinds, NEW g \in TagLists,
             NEW c \in Contents, NEW n \in Nonces, SignMined(a, t, k, g, c, 1, n)
      PROVE  ChatInv'
  <2> DEFINE h == Append(g, NonceTag(n, 1))
             s == SignedOf(a, t, k, h, c)
  <2>1. h \in Seq(Seq(Str))
    BY Inputs, NonceTagIs, TagAppended
  <2>2. FastPathId(<<a>>, t, k, g, c, 1, n) = event_id(<<a>>, t, k, h, c)
    BY KeyText, Inputs, FastPathIsEventId
  <2>3. alterations = 0 /\ k < U32 /\ Publish(s)
    BY <1>2, <2>2 DEF SignMined, SignedOf
  <2> HIDE DEF h
  <2>4. IsSigned(s)
    BY <2>1, <2>3, Inputs, SignedProperties
  <2> QED
    BY <2>3, <2>4, PublishStep
<1>3. CASE Alter
  <2>1. PICK e \in wire :
          \/ \E k \in Kinds : wire' = {[e EXCEPT !.kind = k]}
          \/ \E t \in Times : wire' = {[e EXCEPT !.created_at = t]}
          \/ \E s \in TagLists : wire' = {[e EXCEPT !.tags = s]}
          \/ \E c \in Contents : wire' = {[e EXCEPT !.content = c]}
          \/ \E p \in PubkeyTexts : wire' = {[e EXCEPT !.pubkey = p]}
          \/ wire' = {[e EXCEPT !.id = event_id(e.pubkey, e.created_at,
                                                e.kind % U32, e.tags, e.content)]}
          \/ \E s \in signed : wire' = {[e EXCEPT !.sig = s.sig]}
          \/ wire' = {[e EXCEPT !.parses = FALSE]}
    BY <1>3 DEF Alter
  <2>2. signed' = signed /\ alterations' = alterations + 1 /\ verdict = "none" /\ verdict' = verdict
    BY <1>3 DEF Alter
  <2>3. e \in Carried
    BY DEF WireInv
  <2>4. PICK s \in signed : e.sig = s.sig
    BY DEF WireInv
  <2>5. event_id(e.pubkey, e.created_at, e.kind % U32, e.tags, e.content) \in Ids
    <3> DEFINE l == e.kind % U32
    <3>1. e.pubkey \in Str /\ e.created_at \in Nat /\ l \in Nat /\ e.tags \in Seq(Seq(Str)) /\ e.content \in Str
      BY <2>3, Kept32 DEF Carried
    <3> HIDE DEF l
    <3>2. canonical(e.pubkey, e.created_at, l, e.tags, e.content) \in Str
      BY <3>1, CanonicalType
    <3> QED
      BY <3>2 DEF event_id, Sha256, Ids, l
  <2>6. \A r \in signed : r.sig \in [key : Authors, over : Ids]
    <3>1. \A r \in signed : r \in Carried
      BY IsSignedVerifies DEF SignedInv
    <3> QED
      BY <3>1 DEF Carried
  <2>7. \E f \in Carried : wire' = {f} /\ \E r \in signed : f.sig = r.sig
    <3>1. ASSUME NEW k \in Kinds, wire' = {[e EXCEPT !.kind = k]}
          PROVE  \E f \in Carried : wire' = {f} /\ \E r \in signed : f.sig = r.sig
      <4> DEFINE f == [e EXCEPT !.kind = k]
      <4>1. f \in Carried /\ f.sig = s.sig
        BY <2>3, <2>4, Inputs DEF Carried
      <4> QED
        BY <3>1, <4>1
    <3>2. ASSUME NEW t \in Times, wire' = {[e EXCEPT !.created_at = t]}
          PROVE  \E f \in Carried : wire' = {f} /\ \E r \in signed : f.sig = r.sig
      <4> DEFINE f == [e EXCEPT !.created_at = t]
      <4>1. f \in Carried /\ f.sig = s.sig
        BY <2>3, <2>4, Inputs DEF Carried
      <4> QED
        BY <3>2, <4>1
    <3>3. ASSUME NEW g \in TagLists, wire' = {[e EXCEPT !.tags = g]}
          PROVE  \E f \in Carried : wire' = {f} /\ \E r \in signed : f.sig = r.sig
      <4> DEFINE f == [e EXCEPT !.tags = g]
      <4>1. f \in Carried /\ f.sig = s.sig
        BY <2>3, <2>4, Inputs DEF Carried
      <4> QED
        BY <3>3, <4>1
    <3>4. ASSUME NEW c \in Contents, wire' = {[e EXCEPT !.content = c]}
          PROVE  \E f \in Carried : wire' = {f} /\ \E r \in signed : f.sig = r.sig
      <4> DEFINE f == [e EXCEPT !.content = c]
      <4>1. f \in Carried /\ f.sig = s.sig
        BY <2>3, <2>4, Inputs DEF Carried
      <4> QED
        BY <3>4, <4>1
    <3>5. ASSUME NEW p \in PubkeyTexts, wire' = {[e EXCEPT !.pubkey = p]}
          PROVE  \E f \in Carried : wire' = {f} /\ \E r \in signed : f.sig = r.sig
      <4> DEFINE f == [e EXCEPT !.pubkey = p]
      <4>1. f \in Carried /\ f.sig = s.sig
        BY <2>3, <2>4, Inputs DEF Carried
      <4> QED
        BY <3>5, <4>1
    <3>6. ASSUME wire' = {[e EXCEPT !.id = event_id(e.pubkey, e.created_at, e.kind % U32,
                                                    e.tags, e.content)]}
          PROVE  \E f \in Carried : wire' = {f} /\ \E r \in signed : f.sig = r.sig
      <4> DEFINE id == event_id(e.pubkey, e.created_at, e.kind % U32, e.tags, e.content)
                 f == [e EXCEPT !.id = id]
      <4> HIDE DEF id
      <4>1. f \in Carried /\ f.sig = s.sig
        BY <2>3, <2>4, <2>5 DEF Carried, id
      <4> QED
        BY <3>6, <4>1 DEF id
    <3>7. ASSUME NEW o \in signed, wire' = {[e EXCEPT !.sig = o.sig]}
          PROVE  \E f \in Carried : wire' = {f} /\ \E r \in signed : f.sig = r.sig
      <4> DEFINE f == [e EXCEPT !.sig = o.sig]
      <4>1. f \in Carried /\ f.sig = o.sig
        BY <2>3, <2>6 DEF Carried
      <4> QED
        BY <3>7, <4>1
    <3>8. ASSUME wire' = {[e EXCEPT !.parses = FALSE]}
          PROVE  \E f \in Carried : wire' = {f} /\ \E r \in signed : f.sig = r.sig
      <4> DEFINE f == [e EXCEPT !.parses = FALSE]
      <4>1. f \in Carried /\ f.sig = s.sig
        BY <2>3, <2>4 DEF Carried
      <4> QED
        BY <3>8, <4>1
    <3> QED
      BY <2>1, <3>1, <3>2, <3>3, <3>4, <3>5, <3>6, <3>7, <3>8
  <2>8. SignedInv'
    BY <2>2 DEF SignedInv
  <2>9. WireInv'
    BY <2>2, <2>7 DEF WireInv
  <2>10. UnalteredInv' /\ VerdictInv'
    BY <2>2 DEF UnalteredInv, VerdictInv
  <2> QED
    BY <2>8, <2>9, <2>10
<1>4. CASE Verify
  <2>1. PICK e \in wire : verdict' = verify_event_json(e)
    BY <1>4 DEF Verify
  <2>2. UNCHANGED <<signed, wire, alterations>>
    BY <1>4 DEF Verify
  <2>3. \A f \in wire : f = e
    BY DEF WireInv
  <2>4. VerdictInv'
    BY <2>1, <2>2, <2>3 DEF VerdictInv
  <2>5. SignedInv' /\ WireInv' /\ UnalteredInv'
    BY <2>2 DEF SignedInv, WireInv, UnalteredInv
  <2> QED
    BY <2>4, <2>5
<1>5. CASE Read
  BY <1>5 DEF Read, SignedInv, WireInv, UnalteredInv, VerdictInv
<1>6. CASE UNCHANGED vars
  BY <1>6 DEF vars, SignedInv, WireInv, UnalteredInv, VerdictInv
<1> QED
  BY <1>1, <1>2, <1>3, <1>4, <1>5, <1>6 DEF Next

(* The wire holds one event, its signature made for some event signed, and *)
(* the verdict is that of verify_event_json() on it.                       *)
THEOREM ChatInvariant == Spec => []ChatInv
<1>1. Init => ChatInv
  BY ChatInit
<1>2. ChatInv /\ [Next]_vars => ChatInv'
  BY ChatStep
<1> QED
  BY <1>1, <1>2, PTL DEF Spec

(* What verify_event_json() accepts was signed by its author, field by     *)
(* field, with the kind cut to 32 bits: the id is recomputed, a signature  *)
(* is over one id, and two events have no canonical form in common.        *)
THEOREM VerifiedEventsWereSigned == Spec => []VerifiedIsSigned
<1>1. ChatInv => VerifiedIsSigned
  <2> SUFFICES ASSUME ChatInv, verdict = "yes", NEW e \in wire
               PROVE  \E s \in signed : Fields([e EXCEPT !.kind = e.kind % U32]) = Fields(s)
    BY DEF VerifiedIsSigned
  <2>1. verify_event_json(e) = "yes"
    BY DEF ChatInv, VerdictInv
  <2>2. PICK s \in signed : e.sig = s.sig
    BY DEF ChatInv, WireInv
  <2>3. e \in Carried /\ IsSigned(s)
    BY DEF ChatInv, WireInv, SignedInv
  <2>4. Fields([e EXCEPT !.kind = e.kind % U32]) = Fields(s)
    BY <2>1, <2>2, <2>3, VerifiedFields
  <2> QED
    BY <2>4
<1> QED
  BY <1>1, ChatInvariant, PTL

(* verify_event_json() accepts every event that arrives as it was signed,  *)
(* with or without proof of work: the fast path hashed the bytes that are  *)
(* recomputed.                                                             *)
THEOREM SignedEventsVerify == Spec => []HonestVerifies
<1>1. ChatInv => HonestVerifies
  <2> SUFFICES ASSUME ChatInv, verdict \in {"no", "err"}, NEW e \in wire, e \in signed
               PROVE  FALSE
    BY DEF HonestVerifies
  <2>1. verdict = verify_event_json(e) /\ IsSigned(e)
    BY DEF ChatInv, VerdictInv, SignedInv
  <2> QED
    BY <2>1, IsSignedVerifies
<1> QED
  BY <1>1, ChatInvariant, PTL
=============================================================================
