------------------------------ MODULE BasicFacts ------------------------------
(***************************************************************************)
(* Facts about numbers and sequences that the proofs need: least elements, *)
(* induction and recursion, for sets and functions, from the fact that <   *)
(* is well founded, remainders of division, what RemoveFirst returns, and  *)
(* concatenation.                                                          *)
(***************************************************************************)
EXTENDS Integers, SequencesExt, SequenceTheorems, WellFoundedInduction, TLAPS

(* A set of natural numbers that is not empty has a least element.         *)
LEMMA LeastNumber ==
  ASSUME NEW T \in SUBSET Nat, T # {}
  PROVE  \E x \in T : \A y \in T : x <= y
<1>1. PICK x \in T : \A y \in T : <<y, x>> \notin OpToRel(<, Nat)
  BY NatLessThanWellFounded, WFMin
<1>2. \A y \in T : ~(y < x)
  BY <1>1 DEF OpToRel
<1>3. QED BY <1>2

(* A set of pairs of numbers has a first one in lexicographic order.       *)
LEMMA LeastPair ==
  ASSUME NEW T \in SUBSET (Nat \X Nat), T # {}
  PROVE  \E x \in T : \A y \in T : x[1] < y[1] \/ (x[1] = y[1] /\ x[2] <= y[2])
<1>1. \A x \in T : x[1] \in Nat /\ x[2] \in Nat
  OBVIOUS
<1>2. PICK a \in {x[1] : x \in T} : \A b \in {x[1] : x \in T} : a <= b
  <2>1. {x[1] : x \in T} \in SUBSET Nat /\ {x[1] : x \in T} # {}
    BY <1>1
  <2>2. QED BY <2>1, LeastNumber
<1> DEFINE Second == {x[2] : x \in {y \in T : y[1] = a}}
<1>3. PICK c \in Second : \A b \in Second : c <= b
  <2>1. Second \in SUBSET Nat /\ Second # {}
    BY <1>1, <1>2
  <2> HIDE DEF Second
  <2>2. QED BY <2>1, LeastNumber
<1>4. PICK x \in T : x[1] = a /\ x[2] = c
  BY <1>3
<1>5. ASSUME NEW y \in T PROVE x[1] < y[1] \/ (x[1] = y[1] /\ x[2] <= y[2])
  <2>1. a <= y[1] /\ a \in Nat /\ y[1] \in Nat
    BY <1>1, <1>2
  <2>2. CASE y[1] = a
    BY <1>3, <1>4, <2>2
  <2>3. QED BY <1>4, <2>1, <2>2
<1>6. QED BY <1>5

(* Induction up to N, for the set of numbers that have a property.         *)
LEMMA Induction ==
  ASSUME NEW N \in Nat, NEW T \in SUBSET Nat,
         0 \in T,
         \A n \in 0 .. N - 1 : n \in T => n + 1 \in T
  PROVE  0 .. N \subseteq T
<1> SUFFICES ASSUME (0 .. N) \ T # {} PROVE FALSE
  OBVIOUS
<1> DEFINE Rest == (0 .. N) \ T
<1>1. PICK x \in Rest : \A y \in Rest : x <= y
  <2>1. Rest \in SUBSET Nat /\ Rest # {}
    OBVIOUS
  <2> HIDE DEF Rest
  <2>2. QED BY <2>1, LeastNumber
<1>2. x - 1 \in 0 .. N - 1
  BY <1>1
<1>3. x - 1 \in T
  BY <1>1, <1>2
<1>4. x - 1 + 1 \in T
  BY <1>2, <1>3
<1>5. QED BY <1>1, <1>4

(* A first element and a step define a sequence.                           *)
Recurs(f, first, step, N) ==
  f[0] = first /\ \A n \in 1 .. N : f[n] = step[n][f[n - 1]]

(* A recursion over 0 .. N with a given step has a solution: by the first  *)
(* n for which it has none.                                                *)
LEMMA RecursionExists ==
  ASSUME NEW S, NEW N \in Nat, NEW first \in S, NEW step \in [1 .. N -> [S -> S]]
  PROVE  \E f \in [0 .. N -> S] : Recurs(f, first, step, N)
<1> DEFINE Begins(f, k) ==
             f[0] = first /\ \A n \in 1 .. k : f[n] = step[n][f[n - 1]]
           T == {k \in 0 .. N : \E f \in [0 .. k -> S] : Begins(f, k)}
<1>1. 0 \in T
  <2> DEFINE f == [i \in 0 .. 0 |-> first]
  <2>1. f \in [0 .. 0 -> S] /\ Begins(f, 0)
    OBVIOUS
  <2> HIDE DEF f
  <2>2. QED BY <2>1
<1>2. ASSUME NEW k \in 0 .. N - 1, k \in T PROVE k + 1 \in T
  <2>1. PICK f \in [0 .. k -> S] : Begins(f, k)
    BY <1>2
  <2> DEFINE g == [i \in 0 .. k + 1 |-> IF i = k + 1 THEN step[k + 1][f[k]] ELSE f[i]]
  <2>2. k + 1 \in 1 .. N /\ f[k] \in S
    OBVIOUS
  <2>3. step[k + 1][f[k]] \in S
    BY <2>2
  <2>4. g \in [0 .. k + 1 -> S]
    BY <2>3
  <2>5. g[0] = first
    BY <2>1
  <2>6. ASSUME NEW n \in 1 .. k + 1 PROVE g[n] = step[n][g[n - 1]]
    <3>1. CASE n = k + 1
      BY <3>1
    <3>2. CASE n \in 1 .. k
      <4>1. g[n] = f[n] /\ g[n - 1] = f[n - 1]
        BY <3>2
      <4>2. QED BY <2>1, <3>2, <4>1
    <3>3. QED BY <3>1, <3>2
  <2>7. Begins(g, k + 1)
    BY <2>5, <2>6
  <2> HIDE DEF g
  <2>8. QED BY <2>2, <2>4, <2>7
<1>3. 0 .. N \subseteq T
  <2>1. T \in SUBSET Nat
    OBVIOUS
  <2> HIDE DEF T
  <2>2. QED BY <1>1, <1>2, <2>1, Induction
<1>4. QED BY <1>3 DEF Recurs

-----------------------------------------------------------------------------
(* A multiple that is smaller than the number is zero.                     *)
LEMMA SmallMultiple ==
  ASSUME NEW m \in Nat \ {0}, NEW k \in Int, k * m < m, -m < k * m
  PROVE  k = 0
<1>1. CASE k >= 1
  <2>1. k * m >= m
    BY <1>1
  <2>2. QED BY <2>1
<1>2. CASE k <= -1
  <2>1. k * m <= -m
    BY <1>2
  <2>2. QED BY <2>1
<1>3. QED BY <1>1, <1>2

(* Division with remainder.                                                *)
LEMMA ModDiv ==
  ASSUME NEW m \in Nat \ {0}, NEW a \in Int
  PROVE  a \div m \in Int /\ a % m \in 0 .. m - 1 /\ a = m * (a \div m) + (a % m)
OBVIOUS

(* The remainder is unique.                                                *)
LEMMA ModUnique ==
  ASSUME NEW m \in Nat \ {0}, NEW q \in Int, NEW r \in 0 .. m - 1
  PROVE  (q * m + r) % m = r
<1> DEFINE a == q * m + r
           d == a \div m
           s == a % m
           k == q - d
<1>1. a \in Int
  OBVIOUS
<1> HIDE DEF a
<1>2. d \in Int /\ s \in 0 .. m - 1 /\ a = m * d + s
  BY <1>1
<1> HIDE DEF d, s
<1>3. q * m + r = m * d + s
  BY <1>2 DEF a
<1>4. k \in Int /\ k * m = s - r
  BY <1>2, <1>3
<1> HIDE DEF k
<1>5. k = 0
  BY <1>2, <1>4, SmallMultiple
<1>6. s = r
  BY <1>2, <1>4, <1>5
<1>7. QED BY <1>6 DEF s, a

(* So is the quotient.                                                     *)
LEMMA DivUnique ==
  ASSUME NEW m \in Nat \ {0}, NEW q \in Int, NEW r \in 0 .. m - 1
  PROVE  (q * m + r) \div m = q
<1> DEFINE a == q * m + r
           d == a \div m
           s == a % m
           k == q - d
<1>1. a \in Int
  OBVIOUS
<1> HIDE DEF a
<1>2. d \in Int /\ s \in 0 .. m - 1 /\ a = m * d + s
  BY <1>1
<1> HIDE DEF d, s
<1>3. q * m + r = m * d + s
  BY <1>2 DEF a
<1>4. k \in Int /\ k * m = s - r
  BY <1>2, <1>3
<1> HIDE DEF k
<1>5. k = 0
  BY <1>2, <1>4, SmallMultiple
<1>6. q = d
  BY <1>2, <1>5 DEF k
<1>7. QED BY <1>6 DEF d, a

(* Two numbers less than m apart have that difference modulo m.            *)
LEMMA ModDifference ==
  ASSUME NEW m \in Nat \ {0}, NEW a \in Nat, NEW b \in Nat, b <= a, a - b < m
  PROVE  ((a % m) - (b % m)) % m = a - b
<1> DEFINE p == a \div m
           q == b \div m
           s == a % m
           t == b % m
<1>1. p \in Int /\ q \in Int /\ s \in 0 .. m - 1 /\ t \in 0 .. m - 1
      /\ a = m * p + s /\ b = m * q + t
  OBVIOUS
<1> HIDE DEF p, q, s, t
<1>2. s - t = (q - p) * m + (a - b)
  BY <1>1
<1>3. q - p \in Int /\ a - b \in 0 .. m - 1
  BY <1>1
<1>4. ((q - p) * m + (a - b)) % m = a - b
  BY <1>3, ModUnique
<1>5. QED BY <1>2, <1>4 DEF s, t

-----------------------------------------------------------------------------
(* RemoveFirst, with which remove_hw_watchpoint is modelled, removes.      *)
LEMMA RemoveFirstType ==
  ASSUME NEW S, NEW s \in Seq(S), NEW e
  PROVE  RemoveFirst(s, e) \in Seq(S)
<1>1. CASE \E i \in 1 .. Len(s) : s[i] = e
  <2> DEFINE I == {i \in 1 .. Len(s) : s[i] = e}
  <2>1. PICK m \in I : \A n \in I : m <= n
    <3>1. I \in SUBSET Nat /\ I # {}
      BY <1>1
    <3>2. QED BY <3>1, LeastNumber
  <2>2. Min(I) \in I
    BY <2>1 DEF Min
  <2>3. RemoveFirst(s, e) = RemoveAt(s, Min(I))
    <3>1. SelectInSeq(s, LAMBDA v : v = e) = Min(I)
      BY <1>1, Zenon DEF SelectInSeq
    <3>2. QED BY <1>1, <3>1, Zenon DEF RemoveFirst
  <2>4. Min(I) \in 1 .. Len(s)
    BY <2>2
  <2> HIDE DEF I
  <2>5. RemoveAt(s, Min(I)) \in Seq(S)
    BY <2>4 DEF RemoveAt
  <2>6. QED BY <2>3, <2>5
<1>2. CASE ~ \E i \in 1 .. Len(s) : s[i] = e
  BY <1>2 DEF RemoveFirst
<1>3. QED BY <1>1, <1>2

-----------------------------------------------------------------------------
(* A function on 1 .. n is a sequence.                                     *)
LEMMA FunctionIsSequence ==
  ASSUME NEW S, NEW n \in Nat, NEW f \in [1 .. n -> S]
  PROVE  f \in Seq(S) /\ Len(f) = n
<1>1. f \in Seq(S)
  BY SeqDef
<1>2. QED BY <1>1, LenProperties

(* One sequence behind another.                                            *)
InTwo(t, u, v) ==
  /\ Len(t) = Len(u) + Len(v)
  /\ \A i \in 1 .. Len(u) : t[i] = u[i]
  /\ \A i \in 1 .. Len(v) : t[Len(u) + i] = v[i]

(* Where the elements of a concatenation come from.                        *)
LEMMA TwoParts ==
  ASSUME NEW S, NEW u \in Seq(S), NEW v \in Seq(S)
  PROVE  u \o v \in Seq(S) /\ InTwo(u \o v, u, v)
BY DEF InTwo
=============================================================================
