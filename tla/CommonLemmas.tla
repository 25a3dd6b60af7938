---------------------------- MODULE CommonLemmas ----------------------------
(***************************************************************************)
(* What the proofs of several components use: induction over the natural   *)
(* numbers, functions and sums defined by recursion, remainders, and the   *)
(* clock edge of a FIFO.                                                   *)
(*                                                                         *)
(* The induction theorems of the library are stated for an operator that   *)
(* is a parameter.  Here induction is about a set of numbers: it follows   *)
(* from the least member of the complement.                                *)
(***************************************************************************)
EXTENDS FwftFifo, Sums, WellFoundedInduction, TLAPS

-----------------------------------------------------------------------------
(* Induction and recursion *)

\* If the pairs of smaller and greater numbers are in R, a member of T with no member
\* below it in R is the least one.
LEMMA LeastIn ==
    ASSUME NEW R, NEW T \in SUBSET Nat,
           \A x, y \in Nat : x < y => <<x, y>> \in R,
           \E x \in T : \A y \in T : ~(<<y, x>> \in R)
    PROVE  \E x \in T : \A y \in T : x <= y
<1>1. PICK x \in T : \A y \in T : ~(<<y, x>> \in R)
  OBVIOUS
<1>2. \A y \in T : ~(y < x)
  BY <1>1
<1> QED BY <1>2

\* A set of numbers that is not empty has a least member.
LEMMA Least ==
    ASSUME NEW T \in SUBSET Nat, T # {}
    PROVE  \E x \in T : \A y \in T : x <= y
<1>1. IsWellFoundedOn(OpToRel(<, Nat), Nat)
  BY NatLessThanWellFounded
<1>2. \E x \in T : \A y \in T : ~(<<y, x>> \in OpToRel(<, Nat))
  BY <1>1, WFMin
<1>3. \A x, y \in Nat : x < y => <<x, y>> \in OpToRel(<, Nat)
  BY DEF OpToRel
<1> QED BY <1>2, <1>3, LeastIn, Zenon

\* Induction: the set of numbers with a property is all of them if it has zero and the
\* successor of each of its members.
LEMMA Induction ==
    ASSUME NEW T \in SUBSET Nat, 0 \in T, \A n \in T : n + 1 \in T
    PROVE  T = Nat
<1> SUFFICES ASSUME T # Nat PROVE FALSE
  OBVIOUS
<1>1. PICK x \in Nat \ T : \A y \in Nat \ T : x <= y
  BY Least
<1>2. x - 1 \in T /\ x = (x - 1) + 1
  BY <1>1
<1> QED BY <1>1, <1>2

\* f begins with a and goes on with step.
Follows(f, S, a, step, n) ==
    /\ f \in [0 .. n -> S]
    /\ f[0] = a
    /\ \A i \in 1 .. n : f[i] = step[i][f[i - 1]]

\* Recursion: a function is defined by its first value and by the step that leads to
\* each of the others.
LEMMA Recursion ==
    ASSUME NEW S, NEW a \in S, NEW n \in Nat, NEW step \in [1 .. n -> [S -> S]]
    PROVE  \E f : Follows(f, S, a, step, n)
<1> DEFINE Upto(f, m) == f \in [0 .. m -> S] /\ f[0] = a
                         /\ \A i \in 1 .. m : f[i] = step[i][f[i - 1]]
           T == {m \in Nat : m <= n => \E f : Upto(f, m)}
<1>1. 0 \in T
  <2>1. Upto([i \in 0 .. 0 |-> a], 0)
    OBVIOUS
  <2> QED BY <2>1
<1>2. ASSUME NEW m \in T PROVE m + 1 \in T
  <2>1. CASE m + 1 <= n
    <3>1. PICK f : Upto(f, m)
      BY <2>1
    <3> DEFINE g == [i \in 0 .. (m + 1) |-> IF i <= m THEN f[i] ELSE step[i][f[m]]]
    <3>2. step[m + 1][f[m]] \in S
      BY <2>1, <3>1
    <3>3. g \in [0 .. (m + 1) -> S]
      <4>1. \A i \in 0 .. (m + 1) : ~(i <= m) => i = m + 1
        OBVIOUS
      <4> QED BY <3>1, <3>2, <4>1
    <3>4. g[0] = a
      BY <3>1
    <3>5. ASSUME NEW i \in 1 .. (m + 1) PROVE g[i] = step[i][g[i - 1]]
      <4>1. CASE i <= m
        BY <3>1, <4>1
      <4>2. CASE i = m + 1
        BY <4>2
      <4> QED BY <4>1, <4>2
    <3>6. Upto(g, m + 1)
      BY <3>3, <3>4, <3>5
    <3> HIDE DEF g, Upto
    <3> QED BY <3>6
  <2>2. CASE ~(m + 1 <= n)
    BY <2>2
  <2> QED BY <2>1, <2>2
<1>3. T = Nat
  <2> HIDE DEF T
  <2> QED BY <1>1, <1>2, Induction DEF T
<1> QED BY <1>3 DEF Follows

\* The recursive function of SumOf satisfies its defining equation, and has no other value.
LEMMA SumUnique ==
    ASSUME NEW s \in Seq(Int), NEW f \in [0 .. Len(s) -> Int],
           f[0] = 0, \A i \in 1 .. Len(s) : f[i] = f[i - 1] + s[i]
    PROVE  SumOf(s) = f[Len(s)]
<1> DEFINE n == Len(s)
           Solves(g) == g = [i \in 0 .. n |-> IF i = 0 THEN 0 ELSE g[i - 1] + s[i]]
           h == CHOOSE g : Solves(g)
<1>1. n \in Nat /\ \A i \in 1 .. n : s[i] \in Int
  OBVIOUS
<1>2. Solves(f)
  BY <1>1
<1>3. Solves(h)
  BY <1>2
<1> HIDE DEF h
<1>a. h[0] = 0 /\ \A i \in 1 .. n : h[i] = h[i - 1] + s[i]
  BY <1>1, <1>3
<1> HIDE DEF n, Solves
<1> DEFINE T == {m \in Nat : m <= n => h[m] = f[m]}
<1>4. 0 \in T
  BY <1>a
<1>5. ASSUME NEW m \in T PROVE m + 1 \in T
  <2>1. CASE m + 1 <= n
    <3>1. h[m + 1] = h[m] + s[m + 1]
      BY <1>1, <1>a, <2>1
    <3>2. f[m + 1] = f[m] + s[m + 1]
      BY <1>1, <2>1 DEF n
    <3>3. h[m] = f[m] /\ m + 1 \in Nat
      BY <1>1, <2>1
    <3> QED BY <3>1, <3>2, <3>3
  <2>2. CASE ~(m + 1 <= n)
    BY <2>2
  <2> QED BY <2>1, <2>2
<1>6. T = Nat
  <2> HIDE DEF T
  <2> QED BY <1>4, <1>5, Induction DEF T
<1>7. h[n] = f[n]
  BY <1>1, <1>6
<1> QED BY <1>7 DEF SumOf, n, h, Solves

\* A sum is the last of its partial sums.
LEMMA PartialSums ==
    ASSUME NEW s \in Seq(Int)
    PROVE  \E f \in [0 .. Len(s) -> Int] :
               /\ f[0] = 0 /\ \A i \in 1 .. Len(s) : f[i] = f[i - 1] + s[i]
               /\ SumOf(s) = f[Len(s)]
<1> DEFINE n == Len(s)
           step == [i \in 1 .. n |-> [x \in Int |-> x + s[i]]]
<1>1. n \in Nat /\ \A i \in 1 .. n : s[i] \in Int
  OBVIOUS
<1>2. step \in [1 .. n -> [Int -> Int]]
  BY <1>1
<1>3. 0 \in Int
  OBVIOUS
<1>4. \A i \in 1 .. n, x \in Int : step[i][x] = x + s[i]
  OBVIOUS
<1> HIDE DEF step, n
<1>a. PICK f : Follows(f, Int, 0, step, n)
  BY <1>1, <1>2, <1>3, Recursion
<1>5. f \in [0 .. n -> Int] /\ f[0] = 0 /\ \A i \in 1 .. n : f[i] = step[i][f[i - 1]]
  BY <1>a DEF Follows
<1>6. ASSUME NEW i \in 1 .. n PROVE f[i] = f[i - 1] + s[i]
  <2>1. i - 1 \in 0 .. n
    BY <1>1
  <2> QED BY <1>4, <1>5, <2>1
<1>7. SumOf(s) = f[n]
  BY <1>5, <1>6, SumUnique DEF n
<1> QED BY <1>5, <1>6, <1>7 DEF n

\* The sum of integers is one.
LEMMA SumType == ASSUME NEW s \in Seq(Int) PROVE SumOf(s) \in Int
BY PartialSums

\* Nothing adds up to zero.
LEMMA SumEmpty == SumOf(<< >>) = 0
<1>1. << >> \in Seq(Int) /\ Len(<< >>) = 0
  OBVIOUS
<1> QED BY <1>1, PartialSums

\* A word that enters a queue adds what it weighs.
LEMMA SumAppend ==
    ASSUME NEW s \in Seq(Int), NEW x \in Int
    PROVE  SumOf(Append(s, x)) = SumOf(s) + x
<1> DEFINE n == Len(s)
           t == Append(s, x)
<1>1. n \in Nat /\ t \in Seq(Int) /\ Len(t) = n + 1 /\ t[n + 1] = x /\ \A i \in 1 .. n : t[i] = s[i]
  OBVIOUS
<1>2. PICK f \in [0 .. n -> Int] : f[0] = 0 /\ (\A i \in 1 .. n : f[i] = f[i - 1] + s[i])
                                   /\ SumOf(s) = f[n]
  BY PartialSums
<1> DEFINE g == [i \in 0 .. (n + 1) |-> IF i <= n THEN f[i] ELSE f[n] + x]
<1> HIDE DEF n, t
<1>3. g \in [0 .. (n + 1) -> Int] /\ g[0] = 0
  BY <1>1, <1>2
<1>4. ASSUME NEW i \in 1 .. (n + 1) PROVE g[i] = g[i - 1] + t[i]
  <2>1. CASE i <= n
    BY <1>1, <1>2, <2>1
  <2>2. CASE i = n + 1
    BY <1>1, <1>2, <2>2
  <2> QED BY <1>1, <2>1, <2>2
<1>5. g[n + 1] = f[n] + x
  BY <1>1
<1> HIDE DEF g
<1>6. SumOf(t) = g[n + 1]
  BY <1>1, <1>3, <1>4, SumUnique
<1> QED BY <1>2, <1>5, <1>6 DEF t

\* A word that leaves a queue takes away what it weighs.
LEMMA SumTail ==
    ASSUME NEW s \in Seq(Int), s # << >>
    PROVE  SumOf(Tail(s)) = SumOf(s) - Head(s)
<1> DEFINE n == Len(s)
           t == Tail(s)
<1>1. n \in Nat \ {0} /\ t \in Seq(Int) /\ Len(t) = n - 1 /\ \A i \in 1 .. (n - 1) : t[i] = s[i + 1]
  OBVIOUS
<1>2. Head(s) = s[1] /\ \A i \in 1 .. n : s[i] \in Int
  OBVIOUS
<1>3. PICK f \in [0 .. n -> Int] : f[0] = 0 /\ (\A i \in 1 .. n : f[i] = f[i - 1] + s[i])
                                   /\ SumOf(s) = f[n]
  BY PartialSums
<1> DEFINE g == [i \in 0 .. (n - 1) |-> f[i + 1] - s[1]]
<1> HIDE DEF n, t
<1>4. f[1] = s[1]
  BY <1>1, <1>2, <1>3
<1>5. g \in [0 .. (n - 1) -> Int] /\ g[0] = 0
  <2>1. \A i \in 0 .. (n - 1) : i + 1 \in 0 .. n /\ f[i + 1] \in Int
    BY <1>1
  <2>2. 1 \in 1 .. n /\ s[1] \in Int
    BY <1>1, <1>2
  <2> QED BY <1>1, <1>4, <2>1, <2>2
<1>6. ASSUME NEW i \in 1 .. (n - 1) PROVE g[i] = g[i - 1] + t[i]
  <2>1. i + 1 \in 1 .. n /\ (i + 1) - 1 = i /\ (i - 1) + 1 = i /\ i \in 0 .. (n - 1)
        /\ i - 1 \in 0 .. (n - 1) /\ 1 \in 1 .. n
    BY <1>1
  <2>2. f[i + 1] = f[i] + s[i + 1] /\ t[i] = s[i + 1]
    BY <1>1, <1>3, <2>1
  <2>3. f[i] \in Int /\ s[i + 1] \in Int /\ s[1] \in Int
    BY <1>1, <1>2, <2>1
  <2>4. g[i] = f[i + 1] - s[1] /\ g[i - 1] = f[i] - s[1]
    BY <2>1
  <2> QED BY <2>2, <2>3, <2>4
<1>7. g[n - 1] = f[n] - s[1]
  BY <1>1
<1> HIDE DEF g
<1>8. SumOf(t) = g[n - 1]
  BY <1>1, <1>5, <1>6, SumUnique
<1> QED BY <1>2, <1>3, <1>7, <1>8 DEF t
-----------------------------------------------------------------------------
(* Traces *)

\* The steps p lead from h to k: one after the other, each as N has it.
Trace(N, S, p, h, k) ==
    \E f \in [0 .. Len(p) -> S] :
        /\ f[0] = h /\ f[Len(p)] = k
        /\ \A i \in 1 .. Len(p) : <<p[i], f[i - 1], f[i]>> \in N

LEMMA TraceNothing ==
    ASSUME NEW N, NEW S, NEW h \in S
    PROVE  Trace(N, S, <<>>, h, h)
<1> DEFINE f == [i \in 0 .. Len(<<>>) |-> h]
<1>1. f \in [0 .. Len(<<>>) -> S] /\ f[0] = h /\ f[Len(<<>>)] = h
  OBVIOUS
<1>2. 1 .. Len(<<>>) = {}
  OBVIOUS
<1> QED BY <1>1, <1>2 DEF Trace

LEMMA TraceOne ==
    ASSUME NEW N, NEW S, NEW h \in S, NEW k \in S, NEW e, <<e, h, k>> \in N
    PROVE  Trace(N, S, <<e>>, h, k)
<1> DEFINE p == <<e>>
           f == [i \in 0 .. 1 |-> IF i = 0 THEN h ELSE k]
<1>1. Len(p) = 1 /\ p[1] = e
  OBVIOUS
<1>2. f \in [0 .. 1 -> S] /\ f[0] = h /\ f[1] = k
  OBVIOUS
<1> HIDE DEF f, p
<1>3. \A i \in 1 .. Len(p) : <<p[i], f[i - 1], f[i]>> \in N
  BY <1>1, <1>2
<1>4. Trace(N, S, p, h, k)
  BY <1>1, <1>2, <1>3 DEF Trace
<1> QED BY <1>4 DEF p

LEMMA TraceJoin ==
    ASSUME NEW N, NEW S, NEW T, NEW p \in Seq(T), NEW q \in Seq(T), NEW h, NEW j, NEW k,
           Trace(N, S, p, h, j), Trace(N, S, q, j, k)
    PROVE  Trace(N, S, p \o q, h, k)
<1>1. PICK f \in [0 .. Len(p) -> S] :
          /\ f[0] = h /\ f[Len(p)] = j
          /\ \A i \in 1 .. Len(p) : <<p[i], f[i - 1], f[i]>> \in N
  BY DEF Trace
<1>2. PICK g \in [0 .. Len(q) -> S] :
          /\ g[0] = j /\ g[Len(q)] = k
          /\ \A i \in 1 .. Len(q) : <<q[i], g[i - 1], g[i]>> \in N
  BY DEF Trace
<1> DEFINE m == Len(p)
           n == Len(q)
           r == p \o q
           e == [i \in 0 .. m + n |-> IF i <= m THEN f[i] ELSE g[i - m]]
<1>3. m \in Nat /\ n \in Nat /\ Len(r) = m + n
      /\ \A i \in 1 .. m + n : r[i] = IF i <= m THEN p[i] ELSE q[i - m]
  OBVIOUS
<1>4. e \in [0 .. m + n -> S]
  <2>1. ASSUME NEW i \in 0 .. m + n PROVE (IF i <= m THEN f[i] ELSE g[i - m]) \in S
    <3>1. CASE i <= m
      <4>1. i \in 0 .. m
        BY <1>3, <3>1
      <4> QED BY <3>1, <4>1
    <3>2. CASE ~(i <= m)
      <4>1. i - m \in 0 .. n
        BY <1>3, <3>2
      <4> QED BY <3>2, <4>1
    <3> QED BY <3>1, <3>2
  <2> QED BY <2>1
<1>5. \A i \in 0 .. m + n : e[i] = IF i <= m THEN f[i] ELSE g[i - m]
  OBVIOUS
<1> HIDE DEF m, n, r, e
<1>6. e[0] = h
  BY <1>1, <1>3, <1>5
<1>7. e[m + n] = k
  BY <1>1, <1>2, <1>3, <1>5, SMTT(60) DEF m, n
<1>8. ASSUME NEW i \in 1 .. m + n PROVE <<r[i], e[i - 1], e[i]>> \in N
  <2>0. i \in 0 .. m + n /\ i - 1 \in 0 .. m + n
    BY <1>3
  <2>1. CASE i <= m
    <3>1. i \in 1 .. m /\ i - 1 <= m
      BY <1>3, <2>1
    <3>2. r[i] = p[i] /\ e[i] = f[i] /\ e[i - 1] = f[i - 1]
      BY <1>3, <1>5, <2>0, <2>1, <3>1
    <3> QED BY <1>1, <3>1, <3>2 DEF m
  <2>2. CASE i > m
    <3>1. i - m \in 1 .. n /\ r[i] = q[i - m] /\ e[i] = g[i - m]
      BY <1>3, <1>5, <2>2
    <3>2. e[i - 1] = g[(i - m) - 1]
      <4>1. CASE i = m + 1
        <5>1. i - 1 = m /\ (i - m) - 1 = 0 /\ i - 1 <= m
          BY <1>3, <4>1
        <5>2. e[i - 1] = f[m]
          BY <1>5, <2>0, <5>1
        <5> QED BY <1>1, <1>2, <5>1, <5>2 DEF m
      <4>2. CASE i # m + 1
        <5>1. ~(i - 1 <= m) /\ (i - 1) - m = (i - m) - 1
          BY <1>3, <2>2, <4>2
        <5> QED BY <1>5, <2>0, <5>1
      <4> QED BY <4>1, <4>2
    <3> QED BY <1>2, <3>1, <3>2 DEF n
  <2> QED BY <1>3, <2>1, <2>2
<1>9. Trace(N, S, r, h, k)
  BY <1>3, <1>4, <1>6, <1>7, <1>8 DEF Trace
<1> QED BY <1>9 DEF r

\* The first step of a path, and what is left of it.
LEMMA TraceStep ==
    ASSUME NEW N, NEW S, NEW T, NEW p \in Seq(T), p # <<>>, NEW h, NEW k, Trace(N, S, p, h, k)
    PROVE  /\ Head(p) \in T /\ Tail(p) \in Seq(T)
           /\ \E j \in S : <<Head(p), h, j>> \in N /\ Trace(N, S, Tail(p), j, k)
<1>1. PICK f \in [0 .. Len(p) -> S] :
          /\ f[0] = h /\ f[Len(p)] = k
          /\ \A i \in 1 .. Len(p) : <<p[i], f[i - 1], f[i]>> \in N
  BY DEF Trace
<1> DEFINE n == Len(p)
           q == Tail(p)
           g == [i \in 0 .. n - 1 |-> f[i + 1]]
<1>2. n \in Nat /\ n > 0 /\ Len(q) = n - 1 /\ \A i \in 1 .. n - 1 : q[i] = p[i + 1]
  OBVIOUS
<1>3. Head(p) = p[1] /\ Head(p) \in T /\ q \in Seq(T)
  OBVIOUS
<1>4. g \in [0 .. n - 1 -> S]
  <2>1. \A i \in 0 .. n - 1 : f[i + 1] \in S
    BY <1>2
  <2> QED BY <2>1
<1>5. \A i \in 0 .. n - 1 : g[i] = f[i + 1]
  OBVIOUS
<1> HIDE DEF n, q, g
<1>6. g[0] = f[1] /\ g[n - 1] = k
  BY <1>1, <1>2, <1>5 DEF n
<1>7. ASSUME NEW i \in 1 .. n - 1 PROVE <<q[i], g[i - 1], g[i]>> \in N
  <2>1. i + 1 \in 1 .. n /\ q[i] = p[i + 1] /\ g[i] = f[i + 1] /\ g[i - 1] = f[(i + 1) - 1]
    BY <1>2, <1>5, SMTT(60)
  <2> QED BY <1>1, <2>1, SMTT(60) DEF n
<1>8. Trace(N, S, q, f[1], k)
  BY <1>2, <1>4, <1>6, <1>7 DEF Trace
<1>9. <<p[1], h, f[1]>> \in N /\ f[1] \in S
  <2>1. 1 \in 1 .. n /\ 1 \in 0 .. n
    BY <1>2
  <2> QED BY <1>1, <2>1 DEF n
<1> QED BY <1>3, <1>8, <1>9 DEF q

LEMMA TraceEnd ==
    ASSUME NEW N, NEW S, NEW h, NEW k, Trace(N, S, <<>>, h, k)
    PROVE  h = k
  BY DEF Trace

-----------------------------------------------------------------------------
(* Remainders *)

\* Whole rounds do not show in a remainder.
LEMMA RoundsHidden ==
    ASSUME NEW r \in Nat \ {0}, NEW n \in Int, NEW k \in Int
    PROVE  (r * k + n) % r = n % r
<1> DEFINE a == n \div r
           b == n % r
<1>1. a \in Int /\ b \in 0 .. r - 1 /\ n = r * a + b
  <2>1. a \in Int
    OBVIOUS
  <2>2. b \in 0 .. r - 1
    OBVIOUS
  <2>3. n = r * a + b
    OBVIOUS
  <2> QED BY <2>1, <2>2, <2>3
<1> HIDE DEF a, b
<1>2. r * a + r * k = r * (a + k) /\ a + k \in Int /\ r * a \in Int /\ r * k \in Int
  BY <1>1
<1>3. r * k + n = r * (a + k) + b
  BY <1>1, <1>2
<1>4. (r * (a + k) + b) % r = b
  <2>1. \A c \in Int : (r * c + b) % r = b
    BY <1>1
  <2> QED BY <1>2, <2>1
<1> QED BY <1>3, <1>4 DEF b

\* A counter that goes round adds to what it counted.
LEMMA RemainderPlus ==
    ASSUME NEW r \in Nat \ {0}, NEW n \in Int, NEW d \in Int
    PROVE  ((n % r) + d) % r = (n + d) % r
<1> DEFINE a == n \div r
           b == n % r
<1>1. a \in Int /\ b \in Int /\ n = r * a + b
  OBVIOUS
<1> HIDE DEF a, b
<1>2. n + d = r * a + (b + d) /\ b + d \in Int
  <2>1. r * a \in Int
    BY <1>1
  <2> QED BY <1>1, <2>1
<1> DEFINE m == b + d
<1> HIDE DEF m
<1>3. (r * a + m) % r = m % r
  BY <1>1, <1>2, RoundsHidden DEF m
<1>4. (n + d) % r = (b + d) % r
  BY <1>2, <1>3 DEF m
<1> QED BY <1>4 DEF b

\* Two numbers that differ by whole rounds do so after an addition.
LEMMA SameRemainder ==
    ASSUME NEW r \in Nat \ {0}, NEW m \in Int, NEW n \in Int, NEW d \in Int, m % r = n % r
    PROVE  (m + d) % r = (n + d) % r
<1>1. ((m % r) + d) % r = (m + d) % r /\ ((n % r) + d) % r = (n + d) % r
  BY RemainderPlus
<1> QED BY <1>1

\* The two numbers have the same remainder.
SameRest(r, m, n) == m % r = n % r

\* They keep having it when the same is added to both.
LEMMA SameRestPlus ==
    ASSUME NEW r \in Nat \ {0}, NEW m \in Int, NEW n \in Int, NEW d \in Int, SameRest(r, m, n)
    PROVE  SameRest(r, m + d, n + d)
  BY SameRemainder DEF SameRest

\* Two counter registers of which the sum follows a number: m and n count up by a and
\* b, c is on its way to them and e will be after the step.
LEMMA SumFollows ==
    ASSUME NEW r \in Nat \ {0}, NEW m \in Int, NEW n \in Int, NEW a \in Int, NEW b \in Int,
           NEW c \in Int, NEW e \in Int, NEW h \in Int,
           (m + n + c) % r = h % r
    PROVE  (((m + a) % r) + ((n + b) % r) + e) % r = (h + (a + b + e - c)) % r
<1> DEFINE x == (m + a) % r
           y == (n + b) % r
<1>1. x \in Int /\ y \in Int
  OBVIOUS
<1>2. (x + (y + e)) % r = ((m + a) + (y + e)) % r
  <2>1. y + e \in Int /\ m + a \in Int
    BY <1>1
  <2> HIDE DEF y
  <2> QED BY <2>1, RemainderPlus
<1>3. (y + (m + a + e)) % r = ((n + b) + (m + a + e)) % r
  <2>1. m + a + e \in Int /\ n + b \in Int
    OBVIOUS
  <2> QED BY <2>1, RemainderPlus
<1>4. ((m + n + c) + (a + b + e - c)) % r = (h + (a + b + e - c)) % r
  <2> DEFINE k == m + n + c
             d == a + b + e - c
  <2>1. k \in Int /\ d \in Int
    OBVIOUS
  <2>2. SameRest(r, k, h)
    BY DEF SameRest
  <2> HIDE DEF k, d
  <2>3. SameRest(r, k + d, h + d)
    BY <2>1, <2>2, SameRestPlus, Zenon
  <2> QED BY <2>3 DEF k, d, SameRest
<1> HIDE DEF x, y
<1>5. /\ x + (y + e) = x + y + e /\ (m + a) + (y + e) = y + (m + a + e)
      /\ (n + b) + (m + a + e) = (m + n + c) + (a + b + e - c)
  BY <1>1
<1>6. (x + y + e) % r = (h + (a + b + e - c)) % r
  BY <1>2, <1>3, <1>4, <1>5
<1> QED BY <1>6 DEF x, y

\* The same for the difference of two counter registers.
LEMMA DifferenceFollows ==
    ASSUME NEW r \in Nat \ {0}, NEW m \in Int, NEW n \in Int, NEW a \in Int, NEW b \in Int,
           NEW c \in Int, NEW e \in Int, NEW h \in Int,
           (m + c - n) % r = h % r
    PROVE  (((m + a) % r) + e - ((n + b) % r)) % r = (h + (a + e - c - b)) % r
<1> DEFINE x == (m + a) % r
           y == (n + b) % r
           q == (n + b) \div r
<1>1. x \in Int /\ y \in Int /\ q \in Int /\ n + b = r * q + y
  <2>1. n + b \in Int
    OBVIOUS
  <2> QED BY <2>1
<1>2. (x + (e - y)) % r = ((m + a) + (e - y)) % r
  <2>1. e - y \in Int /\ m + a \in Int
    BY <1>1
  <2> HIDE DEF y
  <2> QED BY <2>1, RemainderPlus
<1> HIDE DEF x, y, q
<1>3. (r * q + (m + a + e - (n + b))) % r = (m + a + e - (n + b)) % r
  <2> DEFINE k == m + a + e - (n + b)
  <2>1. k \in Int
    OBVIOUS
  <2> HIDE DEF k
  <2>2. (r * q + k) % r = k % r
    BY <1>1, <2>1, RoundsHidden
  <2> QED BY <2>2 DEF k
<1>4. ((m + c - n) + (a + e - c - b)) % r = (h + (a + e - c - b)) % r
  <2> DEFINE k == m + c - n
             d == a + e - c - b
  <2>1. k \in Int /\ d \in Int
    OBVIOUS
  <2>2. SameRest(r, k, h)
    BY DEF SameRest
  <2> HIDE DEF k, d
  <2>3. SameRest(r, k + d, h + d)
    BY <2>1, <2>2, SameRestPlus, Zenon
  <2> QED BY <2>3 DEF k, d, SameRest
<1>5. r * q \in Int
  BY <1>1
<1>6. /\ x + (e - y) = x + e - y /\ (m + a) + (e - y) = r * q + (m + a + e - (n + b))
      /\ m + a + e - (n + b) = (m + c - n) + (a + e - c - b)
  <2> DEFINE z == r * q
  <2>1. z \in Int /\ n + b = z + y
    BY <1>1, <1>5
  <2> HIDE DEF z
  <2>2. (m + a) + (e - y) = z + (m + a + e - (n + b))
    BY <1>1, <2>1
  <2> QED BY <1>1, <2>2 DEF z
<1>7. (x + e - y) % r = (h + (a + e - c - b)) % r
  BY <1>2, <1>3, <1>4, <1>6
<1> QED BY <1>7 DEF x, y
\* The same sums for registers that count what the clock before them announced: one
\* that counts up and down, two of which the sum follows a number, and one that holds
\* what came in and has not gone out.
LEMMA UpDownCounted ==
    ASSUME NEW r \in Nat \ {0}, NEW m \in Int, NEW a \in Int, NEW b \in Int, NEW c \in Int,
           NEW h \in Int, (m + a) % r = h % r
    PROVE  (((m + (a - b)) % r) + c) % r = (h + c - b) % r
<1>1. m + a \in Int /\ c - b \in Int /\ m + (a - b) \in Int
  OBVIOUS
<1>2. (((m + (a - b)) % r) + c) % r = ((m + (a - b)) + c) % r
  BY <1>1, RemainderPlus
<1>3. ((m + a) + (c - b)) % r = (h + (c - b)) % r
  <2> DEFINE k == m + a  d == c - b
  <2>1. k \in Int /\ d \in Int /\ k % r = h % r
    BY <1>1
  <2> HIDE DEF k, d
  <2>2. SameRest(r, k, h)
    BY <2>1 DEF SameRest
  <2>3. SameRest(r, k + d, h + d)
    BY <2>1, <2>2, SameRestPlus, Zenon
  <2> QED BY <2>3 DEF k, d, SameRest
<1>4. (m + (a - b)) + c = (m + a) + (c - b) /\ h + (c - b) = h + c - b
  OBVIOUS
<1> QED BY <1>2, <1>3, <1>4

\* Two registers of which the sum follows a number.
LEMMA TwoCounted ==
    ASSUME NEW r \in Nat \ {0}, NEW u \in Int, NEW v \in Int,
           NEW c \in Int, NEW d \in Int, NEW h \in Int, (u + v) % r = h % r
    PROVE  ((u % r) + c + (v % r) + d) % r = (h + c + d) % r
<1> DEFINE x == u % r  y == v % r
           i == y + c + d  j == u + c + d  e == c + d
<1>1. x \in Int /\ y \in Int /\ i \in Int /\ j \in Int /\ e \in Int /\ u + v \in Int
  OBVIOUS
<1>2. (x + i) % r = (u + i) % r
  <2> HIDE DEF i
  <2> QED BY <1>1, RemainderPlus
<1>3. (y + j) % r = (v + j) % r
  <2> HIDE DEF j
  <2> QED BY <1>1, RemainderPlus
<1>4. ((u + v) + e) % r = (h + e) % r
  <2>1. SameRest(r, u + v, h)
    BY DEF SameRest
  <2> HIDE DEF e
  <2>2. SameRest(r, (u + v) + e, h + e)
    BY <1>1, <2>1, SameRestPlus, Zenon
  <2> QED BY <2>2 DEF SameRest
<1>5. x + i = x + c + y + d /\ u + i = y + j /\ v + j = (u + v) + e /\ h + e = h + c + d
  <2> HIDE DEF x, y
  <2> QED BY <1>1
<1> HIDE DEF x, y, i, j, e
<1> QED BY <1>2, <1>3, <1>4, <1>5 DEF x, y

\* A register of what came in and has not gone out holds their difference.
LEMMA HeldCounted ==
    ASSUME NEW r \in Nat \ {0}, NEW m \in Int, NEW n \in Int, NEW a \in Int, NEW b \in Int,
           NEW e \in Int, NEW h \in Int, (m + a - n) % r = h % r
    PROVE  (((m + a) % r) + e - ((n + b) % r)) % r = (h + e - b) % r
<1>1. (((m + a) % r) + e - ((n + b) % r)) % r = (h + (a + e - a - b)) % r
  <2>1. \A c \in Int : (m + c - n) % r = h % r =>
            (((m + a) % r) + e - ((n + b) % r)) % r = (h + (a + e - c - b)) % r
    BY DifferenceFollows
  <2> QED BY <2>1, Zenon
<1>2. h + (a + e - a - b) = h + e - b
  OBVIOUS
<1> QED BY <1>1, <1>2

\* Two counter registers that are as far apart as a number stay so.
LEMMA ApartCounted ==
    ASSUME NEW r \in Nat \ {0}, NEW m \in Int, NEW n \in Int, NEW a \in Int, NEW b \in Int,
           NEW h \in Int, SameRest(r, m - n, h)
    PROVE  SameRest(r, ((m + a) % r) - ((n + b) % r), h + a - b)
<1>1. (m + 0 - n) % r = h % r
  <2>1. m + 0 - n = m - n
    OBVIOUS
  <2> QED BY <2>1 DEF SameRest
<1>2. (((m + a) % r) + 0 - ((n + b) % r)) % r = (h + (a + 0 - 0 - b)) % r
  <2>1. \A c, e \in Int : (m + c - n) % r = h % r =>
            (((m + a) % r) + e - ((n + b) % r)) % r = (h + (a + e - c - b)) % r
    BY DifferenceFollows, SMTT(60)
  <2>2. 0 \in Int
    OBVIOUS
  <2> QED BY <1>1, <2>1, <2>2, Zenon
<1> DEFINE x == (m + a) % r  y == (n + b) % r
<1>3. x \in Int /\ y \in Int
  OBVIOUS
<1>4. x + 0 - y = x - y /\ h + (a + 0 - 0 - b) = h + a - b
  <2> HIDE DEF x, y
  <2> QED BY <1>3
<1> QED BY <1>2, <1>4 DEF SameRest

-----------------------------------------------------------------------------
(* A clock edge of FwftFifo *)

FifoOf(Word) == [items : Seq(Word), fv : BOOLEAN, mv : BOOLEAN, dv : BOOLEAN, dout : Word]

\* A FIFO of words whose flags promise no more words than there are.
Sound(f, Word) == f \in FifoOf(Word) /\ FifoDepth(f) >= 0

\* The FIFO after reset is sound and empty.
LEMMA EmptySound ==
    ASSUME NEW Word, NEW w \in Word
    PROVE  Sound(EmptyFifo(w), Word)
  BY DEF Sound, FifoOf, EmptyFifo, FifoDepth, Count

\* An output that is empty after a clock edge still shows the word it showed
\* before; if that word was there to be read, it was read.
LEMMA OutputHeld ==
    ASSUME NEW Word, NEW f, Sound(f, Word),
           NEW wr_en \in BOOLEAN, NEW din \in Word, NEW rd_en \in BOOLEAN
    PROVE  ~Step(f, wr_en, din, rd_en).dv =>
               Step(f, wr_en, din, rd_en).dout = f.dout /\ (f.dv => rd_en)
  BY DEF Sound, FifoOf, Step, SetClear, will_update_dout, will_update_middle

\* A clock edge keeps a FIFO sound: the flags never run ahead of the words, so
\* that the output register is never loaded from an empty queue; and the depth of
\* the memory follows the writes and the reads of the memory.
LEMMA StepSound ==
    ASSUME NEW Word, NEW f, Sound(f, Word),
           NEW wr_en \in BOOLEAN, NEW din \in Word, NEW rd_en \in BOOLEAN
    PROVE  LET g == Step(f, wr_en, din, rd_en)
           IN  /\ Sound(g, Word)
               /\ FifoDepth(g) = FifoDepth(f) + Count(wr_en) - Count(fifo_rd_en(f))
<1> DEFINE wud == will_update_dout(f, rd_en)
           wum == will_update_middle(f, rd_en)
           left == IF rd_en /\ f.dv THEN Tail(f.items) ELSE f.items
           g == Step(f, wr_en, din, rd_en)
           load == fifo_rd_en(f)
           out == IF rd_en /\ f.dv THEN 1 ELSE 0
<1>1. /\ f.items \in Seq(Word) /\ f.dout \in Word
      /\ f.fv \in BOOLEAN /\ f.mv \in BOOLEAN /\ f.dv \in BOOLEAN
      /\ Len(f.items) \in Nat
  BY DEF Sound, FifoOf
<1>2. FifoDepth(f) \in Nat
  BY <1>1 DEF Sound, FifoDepth, Count
<1>3. wud \in BOOLEAN /\ wum \in BOOLEAN /\ load \in BOOLEAN
  BY DEF will_update_dout, will_update_middle, fifo_rd_en
<1>4. f.dv => Len(f.items) >= 1
  BY <1>1, <1>2 DEF FifoDepth, Count
<1>5. left \in Seq(Word) /\ Len(left) = Len(f.items) - out
  <2>1. CASE rd_en /\ f.dv
    <3>1. f.items # << >>
      BY <1>4, <2>1
    <3>2. Tail(f.items) \in Seq(Word) /\ Len(Tail(f.items)) = Len(f.items) - 1
      BY <1>1, <3>1
    <3> QED BY <2>1, <3>2 DEF Count
  <2>2. CASE ~(rd_en /\ f.dv)
    BY <1>1, <2>2 DEF Count
  <2> QED BY <2>1, <2>2
<1>6. wud => Len(left) >= 1
  BY <1>1, <1>2, <1>5 DEF will_update_dout, FifoDepth, Count
<1>7. g.dout \in Word
  <2>1. CASE wud
    <3>1. Head(left) \in Word
      BY <1>5, <1>6, <2>1
    <3> QED BY <2>1, <3>1 DEF Step
  <2>2. CASE ~wud
    BY <1>1, <2>2 DEF Step
  <2> QED BY <2>1, <2>2
<1>8. g.items \in Seq(Word) /\ Len(g.items) = Len(left) + Count(wr_en)
  <2>1. g.items = IF wr_en THEN Append(left, din) ELSE left
    BY DEF Step
  <2>2. Append(left, din) \in Seq(Word) /\ Len(Append(left, din)) = Len(left) + 1
    BY <1>5
  <2>3. Len(left) \in Nat
    BY <1>5
  <2> HIDE DEF g, left
  <2>4. CASE wr_en
    BY <2>1, <2>2, <2>4 DEF Count
  <2>5. CASE ~wr_en
    BY <1>5, <2>1, <2>3, <2>5 DEF Count
  <2> QED BY <2>4, <2>5
<1>9. g.fv \in BOOLEAN /\ g.mv \in BOOLEAN /\ g.dv \in BOOLEAN
  BY DEF Step, SetClear
<1>10. g \in FifoOf(Word)
  BY <1>7, <1>8, <1>9 DEF FifoOf, Step
\* The words move on from register to register; none is dropped or doubled.
<1>11. Count(g.fv) + Count(g.mv) + Count(g.dv)
         = Count(f.fv) + Count(f.mv) + Count(f.dv) + Count(load) - out
  <2>1. /\ g.fv = (load \/ (f.fv /\ ~(wum \/ wud)))
        /\ g.mv = (wum \/ (f.mv /\ ~wud))
        /\ g.dv = (wud \/ (f.dv /\ ~rd_en))
    BY DEF Step, SetClear
  <2>2. /\ wud <=> (f.mv \/ f.fv) /\ (rd_en \/ ~f.dv)
        /\ wum <=> f.fv /\ (f.mv <=> wud)
        /\ load => ~(f.mv /\ f.dv /\ f.fv)
    BY <1>1 DEF will_update_dout, will_update_middle, fifo_rd_en
  <2> HIDE DEF g, wud, wum, load
  <2> QED BY <1>1, <1>3, <2>1, <2>2 DEF Count
<1>12. FifoDepth(g) = FifoDepth(f) + Count(wr_en) - Count(load)
  <2> DEFINE nf == Count(f.fv) + Count(f.mv) + Count(f.dv)
             ng == Count(g.fv) + Count(g.mv) + Count(g.dv)
             in == Count(wr_en)
             loaded == Count(load)
             lf == Len(f.items)
             lg == Len(g.items)
  <2>1. nf \in Nat /\ ng \in Nat /\ in \in Nat /\ loaded \in Nat /\ out \in Nat /\ lf \in Nat
    BY <1>1 DEF Count
  <2>2. lg = lf - out + in
    BY <1>5, <1>8
  <2>3. FifoDepth(f) = lf - nf
    BY <1>1 DEF FifoDepth, Count
  <2>4. lg \in Nat
    BY <1>8
  <2>5. FifoDepth(g) = lg - ng
    <3> DEFINE x == Count(g.fv)  y == Count(g.mv)  z == Count(g.dv)
    <3>1. x \in Nat /\ y \in Nat /\ z \in Nat
      BY DEF Count
    <3>2. FifoDepth(g) = lg - x - y - z /\ ng = x + y + z
      BY Zenon DEF FifoDepth
    <3> HIDE DEF x, y, z, lg, ng, g
    <3> QED BY <2>4, <3>1, <3>2
  <2>6. ng = nf + loaded - out
    BY <1>11
  <2> HIDE DEF nf, ng, in, loaded, lf, lg, out
  <2>7. lg - ng = (lf - nf) + in - loaded
    BY <2>1, <2>2, <2>6
  <2>8. FifoDepth(g) = FifoDepth(f) + in - loaded
    BY <2>3, <2>5, <2>7
  <2> QED BY <2>8, Zenon DEF in, loaded
<1>13. load => FifoDepth(f) > 0
  BY DEF fifo_rd_en
<1> QED BY <1>2, <1>3, <1>10, <1>12, <1>13 DEF Sound, Count
-----------------------------------------------------------------------------
(* The words in the registers *)

\* The words that have left the memory of a FIFO: those in its registers.
OutOf(f) == Len(f.items) - FifoDepth(f)

\* The output shows the oldest word, and the middle register fills after it.
Shown(f) == /\ f.mv => f.dv
            /\ f.dv => f.items # << >> /\ f.dout = f.items[1]

\* There are as many words in the registers as flags that hold.
LEMMA OutOfFlags ==
    ASSUME NEW Word, NEW f, Sound(f, Word)
    PROVE  /\ OutOf(f) = Count(f.fv) + Count(f.mv) + Count(f.dv)
           /\ OutOf(f) \in 0 .. 3 /\ OutOf(f) <= Len(f.items)
           /\ FifoDepth(f) = Len(f.items) - OutOf(f) /\ Len(f.items) \in Nat
           /\ FifoDepth(f) \in Nat
<1> DEFINE l == Len(f.items)  x == Count(f.fv)  y == Count(f.mv)  z == Count(f.dv)
<1>1. l \in Nat /\ x \in 0 .. 1 /\ y \in 0 .. 1 /\ z \in 0 .. 1
  BY DEF Sound, FifoOf, Count
<1>2. FifoDepth(f) = l - x - y - z /\ FifoDepth(f) >= 0
  BY DEF Sound, FifoDepth
<1>3. OutOf(f) = l - FifoDepth(f)
  BY DEF OutOf
<1> HIDE DEF l, x, y, z
<1>4. /\ OutOf(f) = x + y + z /\ OutOf(f) \in 0 .. 3 /\ OutOf(f) <= l
      /\ FifoDepth(f) = l - OutOf(f) /\ FifoDepth(f) \in Nat
  BY <1>1, <1>2, <1>3
<1> QED BY <1>1, <1>4 DEF l, x, y, z

\* A word moves to the registers when there is one and a register for it.
LEMMA LoadCondition ==
    ASSUME NEW Word, NEW f, Sound(f, Word)
    PROVE  fifo_rd_en(f) <=> OutOf(f) < 3 /\ OutOf(f) < Len(f.items)
<1> DEFINE x == Count(f.fv)  y == Count(f.mv)  z == Count(f.dv)  o == OutOf(f)
<1>1. f.fv \in BOOLEAN /\ f.mv \in BOOLEAN /\ f.dv \in BOOLEAN
  BY DEF Sound, FifoOf
<1>2. /\ o = x + y + z /\ FifoDepth(f) = Len(f.items) - o /\ o \in 0 .. 3
      /\ Len(f.items) \in Nat
  BY OutOfFlags
<1>3. FifoDepth(f) > 0 <=> o < Len(f.items)
  <2> HIDE DEF o
  <2> QED BY <1>2
<1>4. o < 3 <=> ~(f.mv /\ f.dv /\ f.fv)
  <2>1. x + y + z < 3 <=> ~(f.mv /\ f.dv /\ f.fv)
    BY <1>1 DEF Count
  <2> QED BY <1>2, <2>1
<1> QED BY <1>3, <1>4 DEF fifo_rd_en

\* What a clock edge does to f, whose read finds a word: the word leaves, the others
\* move up, and the output shows the oldest one that was out of the memory.
Moved(f, wr_en, din, rd_en, g, left) ==
    /\ g.items = IF wr_en THEN Append(left, din) ELSE left
    /\ Len(left) = Len(f.items) - Count(rd_en)
    /\ OutOf(g) = OutOf(f) + Count(fifo_rd_en(f)) - Count(rd_en)
    /\ g.dv <=> OutOf(f) - Count(rd_en) >= 1
    /\ Shown(g)

LEMMA StepMoves ==
    ASSUME NEW Word, NEW f, Sound(f, Word), Shown(f),
           NEW wr_en \in BOOLEAN, NEW din \in Word, NEW rd_en \in BOOLEAN, rd_en => f.dv
    PROVE  LET left == IF rd_en THEN Tail(f.items) ELSE f.items
           IN  /\ left \in Seq(Word)
               /\ Moved(f, wr_en, din, rd_en, Step(f, wr_en, din, rd_en), left)
<1> DEFINE g == Step(f, wr_en, din, rd_en)
           left == IF rd_en THEN Tail(f.items) ELSE f.items
<1>1. /\ f.items \in Seq(Word) /\ f.fv \in BOOLEAN /\ f.mv \in BOOLEAN /\ f.dv \in BOOLEAN
      /\ Len(f.items) \in Nat /\ f.mv => f.dv
  BY DEF Sound, FifoOf, Shown
<1>2. rd_en => f.items # << >>
  BY DEF Shown
<1>3. left \in Seq(Word) /\ Len(left) = Len(f.items) - Count(rd_en)
  <2>1. CASE rd_en
    <3>1. Tail(f.items) \in Seq(Word) /\ Len(Tail(f.items)) = Len(f.items) - 1
      BY <1>1, <1>2, <2>1
    <3> QED BY <2>1, <3>1 DEF Count
  <2>2. CASE ~rd_en
    BY <1>1, <2>2 DEF Count
  <2> QED BY <2>1, <2>2
<1>4. g.items = IF wr_en THEN Append(left, din) ELSE left
  BY DEF Step
<1> DEFINE wud == will_update_dout(f, rd_en)
           wum == will_update_middle(f, rd_en)
           load == fifo_rd_en(f)
<1>5. /\ g.fv = (load \/ (f.fv /\ ~(wum \/ wud)))
      /\ g.mv = (wum \/ (f.mv /\ ~wud))
      /\ g.dv = (wud \/ (f.dv /\ ~rd_en))
  BY DEF Step, SetClear
<1>6. /\ wud <=> (f.mv \/ f.fv) /\ (rd_en \/ ~f.dv)
      /\ wum <=> f.fv /\ (f.mv <=> wud)
      /\ wud \in BOOLEAN /\ wum \in BOOLEAN /\ load \in BOOLEAN
  BY <1>1 DEF will_update_dout, will_update_middle, fifo_rd_en
<1>7. OutOf(f) = Count(f.fv) + Count(f.mv) + Count(f.dv)
  BY OutOfFlags
<1>8. g.dv <=> OutOf(f) - Count(rd_en) >= 1
  <2> HIDE DEF wud, wum, load
  <2> QED BY <1>1, <1>5, <1>6, <1>7 DEF Count
<1>9. OutOf(g) = OutOf(f) + Count(load) - Count(rd_en)
  <2>1. Sound(g, Word) /\ FifoDepth(g) = FifoDepth(f) + Count(wr_en) - Count(load)
    BY StepSound
  <2>2. Len(g.items) = Len(left) + Count(wr_en)
    <3>1. Len(Append(left, din)) = Len(left) + 1 /\ Len(left) \in Nat
      BY <1>3
    <3>2. CASE wr_en
      BY <1>4, <3>1, <3>2 DEF Count
    <3>3. CASE ~wr_en
      <4>1. g.items = left /\ Count(wr_en) = 0
        BY <1>4, <3>3 DEF Count
      <4> QED BY <3>1, <4>1
    <3> QED BY <3>2, <3>3
  <2> DEFINE lf == Len(f.items)  lg == Len(g.items)  df == FifoDepth(f)  dg == FifoDepth(g)
             w == Count(wr_en)  r == Count(rd_en)  c == Count(load)  ll == Len(left)
  <2>3. lf \in Nat /\ df \in Nat /\ w \in Nat /\ r \in Nat /\ c \in Nat
    BY OutOfFlags DEF Count
  <2>4. lg = ll + w /\ ll = lf - r /\ dg = df + w - c
    BY <1>3, <2>1, <2>2
  <2>5. OutOf(f) = lf - df /\ OutOf(g) = lg - dg
    BY DEF OutOf
  <2> HIDE DEF lf, lg, df, dg, w, r, c, ll
  <2>6. OutOf(g) = OutOf(f) + c - r
    BY <2>3, <2>4, <2>5
  <2> QED BY <2>6 DEF c, r
<1>10. Shown(g)
  <2>1. g.mv => g.dv
    <3> HIDE DEF wud, wum, load
    <3> QED BY <1>1, <1>5, <1>6
  <2>2. ASSUME g.dv PROVE g.items # << >> /\ g.dout = g.items[1]
    <3>1. Len(left) >= 1
      <4>1. OutOf(f) - Count(rd_en) >= 1 /\ OutOf(f) <= Len(f.items) /\ OutOf(f) \in Int
            /\ Count(rd_en) \in Int
        BY <1>8, <2>2, OutOfFlags DEF Count
      <4> QED BY <1>1, <1>3, <4>1
    <3>2. g.items # << >> /\ g.items[1] = left[1]
      <4>1. left # << >> /\ Append(left, din) # << >> /\ Append(left, din)[1] = left[1]
        <5> HIDE DEF left
        <5> QED BY <1>3, <3>1
      <4> QED BY <1>4, <4>1
    <3>3. g.dout = IF wud THEN Head(left) ELSE f.dout
      BY DEF Step
    <3>4. CASE wud
      BY <1>3, <3>1, <3>2, <3>3, <3>4
    <3>5. CASE ~wud
      <4>1. f.dv /\ ~rd_en
        BY <1>5, <2>2, <3>5
      <4>2. left = f.items /\ f.dout = f.items[1]
        BY <4>1 DEF Shown
      <4> QED BY <3>2, <3>3, <3>5, <4>2
    <3> QED BY <3>4, <3>5
  <2> QED BY <2>1, <2>2 DEF Shown
<1> HIDE DEF g, left
<1>11. left \in Seq(Word) /\ Moved(f, wr_en, din, rd_en, g, left)
  BY <1>3, <1>4, <1>8, <1>9, <1>10, Zenon DEF Moved
<1> QED BY <1>11 DEF g, left
\* What the words of a queue weigh together, for a weight of each word.
Weight(wt, s) == SumOf([i \in DOMAIN s |-> wt[s[i]]])

\* A word that is added adds its weight.
LEMMA WeightAppend ==
    ASSUME NEW Word, NEW wt \in [Word -> Int], NEW s \in Seq(Word), NEW w \in Word
    PROVE  /\ Weight(wt, Append(s, w)) = Weight(wt, s) + wt[w]
           /\ Weight(wt, s) \in Int
<1> DEFINE n == [i \in DOMAIN s |-> wt[s[i]]]
           m == [i \in DOMAIN Append(s, w) |-> wt[Append(s, w)[i]]]
<1>1. n \in Seq(Int) /\ wt[w] \in Int
  OBVIOUS
<1>2. m = Append(n, wt[w])
  OBVIOUS
<1> HIDE DEF n, m
<1>3. SumOf(m) = SumOf(n) + wt[w] /\ SumOf(n) \in Int
  BY <1>1, <1>2, SumAppend, SumType
<1> QED BY <1>3 DEF Weight, n, m

\* The oldest word takes its weight with it.
LEMMA WeightTail ==
    ASSUME NEW Word, NEW wt \in [Word -> Int], NEW s \in Seq(Word), s # << >>
    PROVE  Weight(wt, Tail(s)) = Weight(wt, s) - wt[Head(s)]
<1> DEFINE n == [i \in DOMAIN s |-> wt[s[i]]]
           m == [i \in DOMAIN Tail(s) |-> wt[Tail(s)[i]]]
<1>1. n \in Seq(Int) /\ n # << >> /\ Head(n) = wt[Head(s)]
  OBVIOUS
<1>2. m = Tail(n)
  OBVIOUS
<1> HIDE DEF n, m
<1>3. SumOf(m) = SumOf(n) - Head(n)
  BY <1>1, <1>2, SumTail
<1> QED BY <1>1, <1>3 DEF Weight, n, m

\* After a clock edge a FIFO weighs what it did, with the word that was written and
\* without the one that was read.
LEMMA StepWeight ==
    ASSUME NEW Word, NEW wt \in [Word -> Int], NEW f, Sound(f, Word), Shown(f),
           NEW wr_en \in BOOLEAN, NEW din \in Word, NEW rd_en \in BOOLEAN
    PROVE  /\ Weight(wt, Step(f, wr_en, din, rd_en).items)
                  = Weight(wt, f.items) + (IF wr_en THEN wt[din] ELSE 0)
                                        - (IF rd_en /\ f.dv THEN wt[f.dout] ELSE 0)
           /\ Weight(wt, f.items) \in Int
<1> DEFINE left == IF rd_en /\ f.dv THEN Tail(f.items) ELSE f.items
           out == IF rd_en /\ f.dv THEN wt[f.dout] ELSE 0
<1>1. /\ f.items \in Seq(Word) /\ f.dv \in BOOLEAN /\ f.dout \in Word
      /\ f.dv => f.items # << >> /\ f.dout = Head(f.items)
  BY DEF Sound, FifoOf, Shown
<1>2. left \in Seq(Word) /\ out \in Int
  BY <1>1
<1>3. Weight(wt, left) = Weight(wt, f.items) - out /\ Weight(wt, f.items) \in Int
  <2>1. Weight(wt, f.items) \in Int
    BY <1>1, WeightAppend
  <2>2. CASE rd_en /\ f.dv
    <3>1. Weight(wt, Tail(f.items)) = Weight(wt, f.items) - wt[Head(f.items)]
      BY <1>1, <2>2, WeightTail
    <3> QED BY <1>1, <2>1, <2>2, <3>1
  <2>3. CASE ~(rd_en /\ f.dv)
    BY <2>1, <2>3
  <2> QED BY <2>1, <2>2, <2>3
<1>4. Step(f, wr_en, din, rd_en).items = IF wr_en THEN Append(left, din) ELSE left
  BY DEF Step
<1> HIDE DEF left, out
<1>5. Weight(wt, Append(left, din)) = Weight(wt, left) + wt[din] /\ wt[din] \in Int
  BY <1>2, WeightAppend
<1> QED BY <1>2, <1>3, <1>4, <1>5 DEF out

\* An empty FIFO weighs nothing.
LEMMA EmptyWeight ==
    ASSUME NEW wt, NEW w
    PROVE  Weight(wt, EmptyFifo(w).items) = 0
<1>1. [i \in DOMAIN << >> |-> wt[<< >>[i]]] = << >>
  OBVIOUS
<1> QED BY <1>1, SumEmpty DEF Weight, EmptyFifo
=============================================================================
