-------------------------- MODULE SerializerProofs --------------------------
(***************************************************************************)
(* Proofs about the serializer: to_vec is defined for every value, and the *)
(* words of a value tell which value of its type it is and where it ends.  *)
(***************************************************************************)
EXTENDS Serializer, BasicFacts

Words == Seq(Word)

Result == [outcome : {"Ok", "NotSupported", "panic"}, words : Words]

-----------------------------------------------------------------------------
(* Numbers, lengths and bytes.                                             *)

(* What is left of a number above its bytes, byte by byte.                 *)
LEMMA HighFacts ==
  ASSUME NEW n \in Int, NEW size \in Nat
  PROVE  LET high == High(n, size)
         IN  /\ high \in [0 .. size -> Int] /\ high[0] = n
             /\ \A i \in 1 .. size : high[i] = high[i - 1] \div ByteBase
<1> DEFINE Body(f) == [i \in 0 .. size |-> IF i = 0 THEN n ELSE f[i - 1] \div ByteBase]
           high == CHOOSE f : f = Body(f)
           step == [i \in 1 .. size |-> [x \in Int |-> x \div ByteBase]]
<1>1. High(n, size) = high
  BY DEF High
<1>2. ByteBase \in Nat \ {0}
  BY BoundsAssumption
<1>3. step \in [1 .. size -> [Int -> Int]]
  BY <1>2
<1>4. PICK f \in [0 .. size -> Int] : Recurs(f, n, step, size)
  <2> HIDE DEF step
  <2>1. QED BY <1>3, RecursionExists, Zenon
<1>5. f = Body(f)
  <2>1. ASSUME NEW i \in 1 .. size PROVE f[i] = f[i - 1] \div ByteBase
    <3>1. i - 1 \in 0 .. size /\ f[i - 1] \in Int
      OBVIOUS
    <3>2. QED BY <1>4, <3>1 DEF Recurs
  <2>2. QED BY <1>4, <2>1 DEF Recurs
<1>6. high = Body(high)
  <2> HIDE DEF Body
  <2>1. QED BY <1>5
<1> HIDE DEF high
<1>7. high[0] = n /\ \A i \in 1 .. size : high[i] = high[i - 1] \div ByteBase
  <2>1. high[0] = Body(high)[0]
    BY <1>6
  <2>2. ASSUME NEW i \in 1 .. size PROVE high[i] = high[i - 1] \div ByteBase
    <3>1. Body(high)[i] = high[i - 1] \div ByteBase
      OBVIOUS
    <3> HIDE DEF Body
    <3>2. QED BY <1>6, <3>1
  <2>3. QED BY <2>1, <2>2
<1> DEFINE T == {i \in 0 .. size : high[i] \in Int}
<1>8. 0 .. size \subseteq T
  <2>1. T \in SUBSET Nat /\ 0 \in T
    BY <1>7
  <2>2. ASSUME NEW i \in 0 .. size - 1, i \in T PROVE i + 1 \in T
    <3>1. i + 1 \in 1 .. size /\ (i + 1) - 1 = i
      OBVIOUS
    <3>2. high[i + 1] = high[i] \div ByteBase
      BY <1>7, <3>1
    <3>3. QED BY <1>2, <2>2, <3>1, <3>2
  <2> HIDE DEF T
  <2>3. QED BY <2>1, <2>2, Induction
<1>9. high = [i \in 0 .. size |-> high[i]]
  <2>1. Body(high) = [i \in 0 .. size |-> Body(high)[i]]
    OBVIOUS
  <2> HIDE DEF Body
  <2>2. QED BY <1>6, <2>1
<1>10. high \in [0 .. size -> Int]
  BY <1>8, <1>9
<1>11. QED BY <1>1, <1>7, <1>10

(* The bytes of a number are as many as its type has.                      *)
LEMMA DigitsFacts ==
  ASSUME NEW n \in Int, NEW size \in Nat
  PROVE  /\ Digits(n, size) \in Seq(Byte) /\ Len(Digits(n, size)) = size
         /\ \A i \in 1 .. size : Digits(n, size)[i] = High(n, size)[i - 1] % ByteBase
<1> DEFINE high == High(n, size)
           digits == [i \in 1 .. size |-> high[i - 1] % ByteBase]
<1>1. high \in [0 .. size -> Int]
  BY HighFacts
<1>2. Digits(n, size) = digits
  BY DEF Digits
<1>3. ByteBase \in Nat \ {0}
  BY BoundsAssumption
<1> HIDE DEF high
<1>4. ASSUME NEW i \in 1 .. size PROVE high[i - 1] % ByteBase \in Byte
  <2>1. high[i - 1] \in Int
    BY <1>1
  <2>2. QED BY <1>3, <2>1 DEF Byte
<1>5. digits \in [1 .. size -> Byte] /\ \A i \in 1 .. size : digits[i] = high[i - 1] % ByteBase
  BY <1>4
<1> HIDE DEF digits
<1>6. digits \in Seq(Byte) /\ Len(digits) = size
  BY <1>5, FunctionIsSequence
<1>7. QED BY <1>2, <1>5, <1>6 DEF high

(* The last bit above the bytes of twice a number is known from its bytes. *)
LEMMA TwiceFacts ==
  ASSUME NEW a \in Int, NEW b \in Int, NEW x \in {0, 1}, a % ByteBase = b % ByteBase
  PROVE  LET c == 2 * a + x
             d == 2 * b + x
         IN  /\ (c \div ByteBase) - 2 * (a \div ByteBase) \in {0, 1}
             /\ (c \div ByteBase) - 2 * (a \div ByteBase)
                  = (d \div ByteBase) - 2 * (b \div ByteBase)
<1> DEFINE p == a \div ByteBase
           q == b \div ByteBase
           r == a % ByteBase
<1>1. ByteBase \in Nat \ {0}
  BY BoundsAssumption
<1>2. /\ p \in Int /\ q \in Int /\ r \in 0 .. ByteBase - 1
      /\ a = ByteBase * p + r /\ b = ByteBase * q + r
  BY <1>1, ModDiv
<1> HIDE DEF p, q, r
<1>3. CASE 2 * r + x < ByteBase
  <2>1. 2 * r + x \in 0 .. ByteBase - 1 /\ 2 * p \in Int /\ 2 * q \in Int
    BY <1>1, <1>2, <1>3
  <2>2. 2 * a + x = (2 * p) * ByteBase + (2 * r + x)
    BY <1>1, <1>2
  <2>3. 2 * b + x = (2 * q) * ByteBase + (2 * r + x)
    BY <1>1, <1>2
  <2>4. (2 * a + x) \div ByteBase = 2 * p
    BY <1>1, <2>1, <2>2, DivUnique
  <2>5. (2 * b + x) \div ByteBase = 2 * q
    BY <1>1, <2>1, <2>3, DivUnique
  <2>6. QED BY <1>2, <2>4, <2>5 DEF p, q
<1>4. CASE 2 * r + x >= ByteBase
  <2>1. (2 * r + x) - ByteBase \in 0 .. ByteBase - 1 /\ 2 * p + 1 \in Int /\ 2 * q + 1 \in Int
    BY <1>1, <1>2, <1>4
  <2>2. 2 * a + x = (2 * p + 1) * ByteBase + ((2 * r + x) - ByteBase)
    BY <1>1, <1>2
  <2>3. 2 * b + x = (2 * q + 1) * ByteBase + ((2 * r + x) - ByteBase)
    BY <1>1, <1>2
  <2>4. (2 * a + x) \div ByteBase = 2 * p + 1
    BY <1>1, <2>1, <2>2, DivUnique
  <2>5. (2 * b + x) \div ByteBase = 2 * q + 1
    BY <1>1, <2>1, <2>3, DivUnique
  <2>6. QED BY <1>2, <2>4, <2>5 DEF p, q
<1>5. QED BY <1>1, <1>2, <1>3, <1>4

(* Two numbers of a signed type whose bytes agree have the same sign.      *)
LEMMA SignsAgree ==
  ASSUME NEW n \in Int, NEW m \in Int, NEW size \in Nat,
         \A i \in 0 .. size - 1 : High(n, size)[i] % ByteBase = High(m, size)[i] % ByteBase,
         Signed(n, size), Signed(m, size)
  PROVE  High(n, size)[size] = High(m, size)[size]
<1> DEFINE a == High(n, size)
           b == High(m, size)
           c == High(2 * n, size)
           d == High(2 * m, size)
           T == {i \in 0 .. size : c[i] - 2 * a[i] \in {0, 1} /\ c[i] - 2 * a[i] = d[i] - 2 * b[i]}
<1>1. 2 * n \in Int /\ 2 * m \in Int
  OBVIOUS
<1>2. /\ a \in [0 .. size -> Int] /\ a[0] = n
      /\ \A i \in 1 .. size : a[i] = a[i - 1] \div ByteBase
  BY HighFacts
<1>3. /\ b \in [0 .. size -> Int] /\ b[0] = m
      /\ \A i \in 1 .. size : b[i] = b[i - 1] \div ByteBase
  BY HighFacts
<1>4. /\ c \in [0 .. size -> Int] /\ c[0] = 2 * n
      /\ \A i \in 1 .. size : c[i] = c[i - 1] \div ByteBase
  BY <1>1, HighFacts
<1>5. /\ d \in [0 .. size -> Int] /\ d[0] = 2 * m
      /\ \A i \in 1 .. size : d[i] = d[i - 1] \div ByteBase
  BY <1>1, HighFacts
<1>6. \A i \in 0 .. size - 1 : a[i] % ByteBase = b[i] % ByteBase
  OBVIOUS
<1>7. c[size] \in {-1, 0} /\ d[size] \in {-1, 0}
  BY DEF Signed
<1> HIDE DEF a, b, c, d
<1>8. 0 \in T
  BY <1>2, <1>3, <1>4, <1>5
<1>9. ASSUME NEW i \in 0 .. size - 1, i \in T PROVE i + 1 \in T
  <2> DEFINE x == c[i] - 2 * a[i]
  <2>1. i \in 0 .. size /\ i + 1 \in 1 .. size /\ (i + 1) - 1 = i
    OBVIOUS
  <2>2. /\ a[i] \in Int /\ b[i] \in Int /\ c[i] \in Int /\ d[i] \in Int
        /\ x \in {0, 1} /\ c[i] = 2 * a[i] + x /\ d[i] = 2 * b[i] + x
    <3>1. a[i] \in Int /\ b[i] \in Int /\ c[i] \in Int /\ d[i] \in Int
      BY <1>2, <1>3, <1>4, <1>5, <2>1
    <3>2. x \in {0, 1} /\ x = d[i] - 2 * b[i]
      BY <1>9
    <3>3. QED BY <3>1, <3>2
  <2>3. a[i] % ByteBase = b[i] % ByteBase
    BY <1>6
  <2> HIDE DEF x
  <2>4. /\ (c[i] \div ByteBase) - 2 * (a[i] \div ByteBase) \in {0, 1}
        /\ (c[i] \div ByteBase) - 2 * (a[i] \div ByteBase)
             = (d[i] \div ByteBase) - 2 * (b[i] \div ByteBase)
    BY <2>2, <2>3, TwiceFacts
  <2>5. /\ a[i + 1] = a[i] \div ByteBase /\ b[i + 1] = b[i] \div ByteBase
        /\ c[i + 1] = c[i] \div ByteBase /\ d[i + 1] = d[i] \div ByteBase
    BY <1>2, <1>3, <1>4, <1>5, <2>1
  <2>6. i + 1 \in 0 .. size
    BY <2>1
  <2>7. QED BY <2>4, <2>5, <2>6
<1>10. size \in T
  <2>1. T \in SUBSET Nat
    OBVIOUS
  <2> HIDE DEF T
  <2>2. 0 .. size \subseteq T
    BY <1>8, <1>9, <2>1, Induction
  <2>3. QED BY <2>2
<1>11. a[size] \in Int /\ b[size] \in Int
  BY <1>2, <1>3
<1>12. a[size] = b[size]
  <2>1. c[size] - 2 * a[size] = d[size] - 2 * b[size]
    BY <1>10
  <2>2. QED BY <1>7, <1>11, <2>1
<1>13. QED BY <1>12 DEF a, b

(* The bytes of a number tell which number of its type it is.              *)
LEMMA DigitsTell ==
  ASSUME NEW n \in Int, NEW m \in Int, NEW size \in Nat,
         Digits(n, size) = Digits(m, size),
         \/ Unsigned(n, size) /\ Unsigned(m, size)
         \/ Signed(n, size) /\ Signed(m, size)
  PROVE  n = m
<1> DEFINE a == High(n, size)
           b == High(m, size)
           T == {k \in 0 .. size : a[size - k] = b[size - k]}
<1>1. /\ a \in [0 .. size -> Int] /\ a[0] = n
      /\ \A i \in 1 .. size : a[i] = a[i - 1] \div ByteBase
  BY HighFacts
<1>2. /\ b \in [0 .. size -> Int] /\ b[0] = m
      /\ \A i \in 1 .. size : b[i] = b[i - 1] \div ByteBase
  BY HighFacts
<1>3. ASSUME NEW i \in 0 .. size - 1 PROVE a[i] % ByteBase = b[i] % ByteBase
  <2>1. i + 1 \in 1 .. size /\ (i + 1) - 1 = i
    OBVIOUS
  <2>2. /\ Digits(n, size)[i + 1] = a[(i + 1) - 1] % ByteBase
        /\ Digits(m, size)[i + 1] = b[(i + 1) - 1] % ByteBase
    BY <2>1, DigitsFacts
  <2>3. QED BY <2>1, <2>2
<1>4. a[size] = b[size]
  <2>1. CASE Unsigned(n, size) /\ Unsigned(m, size)
    BY <2>1 DEF Unsigned
  <2>2. CASE Signed(n, size) /\ Signed(m, size)
    BY <1>3, <2>2, SignsAgree
  <2>3. QED BY <2>1, <2>2
<1>5. ByteBase \in Nat \ {0}
  BY BoundsAssumption
<1> HIDE DEF a, b
<1>6. 0 \in T
  BY <1>4
<1>7. ASSUME NEW k \in 0 .. size - 1, k \in T PROVE k + 1 \in T
  <2> DEFINE i == size - (k + 1)
  <2>1. /\ i \in 0 .. size - 1 /\ i \in 0 .. size /\ i + 1 \in 1 .. size
        /\ (i + 1) - 1 = i /\ i + 1 = size - k
    OBVIOUS
  <2> HIDE DEF i
  <2>2. a[i] \in Int /\ b[i] \in Int /\ a[i + 1] = b[i + 1]
    BY <1>1, <1>2, <1>7, <2>1
  <2>3. a[i + 1] = a[i] \div ByteBase /\ b[i + 1] = b[i] \div ByteBase
    BY <1>1, <1>2, <2>1
  <2>4. /\ a[i] = ByteBase * (a[i] \div ByteBase) + (a[i] % ByteBase)
        /\ b[i] = ByteBase * (b[i] \div ByteBase) + (b[i] % ByteBase)
    BY <1>5, <2>2, ModDiv
  <2>5. a[i] = b[i]
    BY <1>3, <2>1, <2>2, <2>3, <2>4
  <2>6. QED BY <2>5 DEF i
<1>8. size \in T
  <2>1. T \in SUBSET Nat
    OBVIOUS
  <2> HIDE DEF T
  <2>2. 0 .. size \subseteq T
    BY <1>6, <1>7, <2>1, Induction
  <2>3. QED BY <2>2
<1>9. size - size = 0
  OBVIOUS
<1>10. QED BY <1>1, <1>2, <1>8, <1>9

(* Padding keeps the bytes in order.                                       *)
LEMMA PaddedFacts ==
  ASSUME NEW S, NEW s \in Seq(S)
  PROVE  /\ PaddedBytes(s) \in Seq([1 .. 4 -> S \cup {0}])
         /\ Len(PaddedBytes(s)) = (Len(s) + 3) \div 4
         /\ \A j \in 1 .. Len(s) :
              /\ (j - 1) \div 4 + 1 \in 1 .. (Len(s) + 3) \div 4
              /\ PaddedBytes(s)[(j - 1) \div 4 + 1][((j - 1) % 4) + 1] = s[j]
<1> DEFINE n == (Len(s) + 3) \div 4
           byte(w, i) == IF 4 * (w - 1) + i \in DOMAIN s THEN s[4 * (w - 1) + i] ELSE 0
           padded == PaddedBytes(s)
<1>1. Len(s) \in Nat /\ n \in Nat /\ DOMAIN s = 1 .. Len(s)
  OBVIOUS
<1>2. padded = [w \in 1 .. n |-> [i \in 1 .. 4 |-> byte(w, i)]]
  BY DEF PaddedBytes
<1>3. \A w, i : byte(w, i) \in S \cup {0}
  OBVIOUS
<1> HIDE DEF padded
<1>4. ASSUME NEW j \in 1 .. Len(s)
      PROVE  /\ (j - 1) \div 4 + 1 \in 1 .. n
             /\ padded[(j - 1) \div 4 + 1][((j - 1) % 4) + 1] = s[j]
  <2> DEFINE w == (j - 1) \div 4 + 1
             i == ((j - 1) % 4) + 1
  <2>1. w \in 1 .. n /\ i \in 1 .. 4 /\ 4 * (w - 1) + i = j
    BY <1>1
  <2>2. j \in DOMAIN s
    BY <1>1
  <2> HIDE DEF w, i, n
  <2>3. padded[w][i] = byte(w, i)
    BY <1>2, <2>1
  <2>4. byte(w, i) = s[j]
    BY <2>1, <2>2
  <2>5. QED BY <2>1, <2>3, <2>4 DEF w, i
<1> HIDE DEF n, byte
<1>5. padded \in [1 .. n -> [1 .. 4 -> S \cup {0}]]
  BY <1>2, <1>3
<1>6. padded \in Seq([1 .. 4 -> S \cup {0}]) /\ Len(padded) = n
  BY <1>1, <1>5, FunctionIsSequence
<1>7. QED BY <1>4, <1>6 DEF n, padded

(* Padded bytes are words.                                                 *)
LEMMA PaddedWords ==
  ASSUME NEW s \in Seq(Byte)
  PROVE  PaddedBytes(s) \in Words /\ Len(PaddedBytes(s)) = (Len(s) + 3) \div 4
<1>1. Byte \cup {0} = Byte
  BY BoundsAssumption DEF Byte
<1>2. /\ PaddedBytes(s) \in Seq([1 .. 4 -> Byte \cup {0}])
      /\ Len(PaddedBytes(s)) = (Len(s) + 3) \div 4
  BY PaddedFacts, Zenon
<1>3. QED BY <1>1, <1>2, Zenon DEF Words, Word

(* Of bytes whose number is known, padding loses none.                     *)
LEMMA PaddedTells ==
  ASSUME NEW s \in Seq(Byte), NEW t \in Seq(Byte), Len(s) = Len(t),
         PaddedBytes(s) = PaddedBytes(t)
  PROVE  s = t
<1>1. ASSUME NEW j \in 1 .. Len(s) PROVE s[j] = t[j]
  <2>1. j \in 1 .. Len(t)
    OBVIOUS
  <2>2. PaddedBytes(s)[(j - 1) \div 4 + 1][((j - 1) % 4) + 1] = s[j]
    BY PaddedFacts
  <2>3. PaddedBytes(t)[(j - 1) \div 4 + 1][((j - 1) % 4) + 1] = t[j]
    BY <2>1, PaddedFacts
  <2>4. QED BY <2>2, <2>3
<1>2. QED BY <1>1, SeqEqual, Zenon

(* A number is as many words as its type has.                              *)
LEMMA NumberFacts ==
  ASSUME NEW size \in Nat, NEW n \in Int
  PROVE  /\ Width(size) \in Nat
         /\ Number(size, n) \in Words /\ Len(Number(size, n)) = (Width(size) + 3) \div 4
<1>1. Width(size) \in Nat
  BY DEF Width
<1>2. Digits(n, Width(size)) \in Seq(Byte) /\ Len(Digits(n, Width(size))) = Width(size)
  BY <1>1, DigitsFacts
<1>3. QED BY <1>1, <1>2, PaddedWords DEF Number

(* The words of a number tell which number of its type it is.              *)
LEMMA NumberTells ==
  ASSUME NEW size \in Nat, NEW n \in Int, NEW m \in Int,
         Number(size, n) = Number(size, m),
         \/ Unsigned(n, Width(size)) /\ Unsigned(m, Width(size))
         \/ Signed(n, Width(size)) /\ Signed(m, Width(size))
  PROVE  n = m
<1>1. Width(size) \in Nat
  BY DEF Width
<1>2. /\ Digits(n, Width(size)) \in Seq(Byte) /\ Len(Digits(n, Width(size))) = Width(size)
      /\ Digits(m, Width(size)) \in Seq(Byte) /\ Len(Digits(m, Width(size))) = Width(size)
  BY <1>1, DigitsFacts
<1>3. PaddedBytes(Digits(n, Width(size))) = PaddedBytes(Digits(m, Width(size)))
  BY DEF Number
<1>4. Digits(n, Width(size)) = Digits(m, Width(size))
  BY <1>2, <1>3, PaddedTells
<1>5. QED BY <1>1, <1>4, DigitsTell

(* A length is one word.                                                   *)
LEMMA LengthFacts ==
  ASSUME NEW n \in Int
  PROVE  Length(n) \in Words /\ Len(Length(n)) = 1
<1>1. Number(4, n) \in Words /\ Len(Number(4, n)) = (Width(4) + 3) \div 4
  BY NumberFacts
<1>2. (Width(4) + 3) \div 4 = 1
  BY DEF Width
<1>3. QED BY <1>1, <1>2 DEF Length

-----------------------------------------------------------------------------
(* Of two sequences of words neither begins the other, unless they are the *)
(* same.                                                                   *)
Separate(x, y) == \A s, t \in Words : x \o s = y \o t => x = y

(* Sequences of one length are separate.                                   *)
LEMMA SameLengthSeparate ==
  ASSUME NEW x \in Words, NEW y \in Words, Len(x) = Len(y)
  PROVE  Separate(x, y)
<1> SUFFICES ASSUME NEW s \in Words, NEW t \in Words, x \o s = y \o t
             PROVE  x = y
  BY DEF Separate
<1>1. InTwo(x \o s, x, s) /\ InTwo(y \o t, y, t)
  BY TwoParts DEF Words
<1>2. ASSUME NEW i \in 1 .. Len(x) PROVE x[i] = y[i]
  BY <1>1 DEF InTwo
<1>3. QED BY <1>2, SeqEqual, Zenon DEF Words

(* Three sequences of words, put together in either order.                 *)
LEMMA WordsAssociate ==
  ASSUME NEW x \in Words, NEW u \in Words, NEW s \in Words
  PROVE  (x \o u) \o s = x \o (u \o s)
<1>1. x \in Seq(Word) /\ u \in Seq(Word) /\ s \in Seq(Word)
  BY DEF Words
<1>2. QED BY <1>1, ConcatAssociative

JoinTells(x, y, u, v) ==
  \A s, t \in Words : (x \o u) \o s = (y \o v) \o t => x = y /\ u \o s = v \o t

(* What follows sequences that are separate is compared alone.             *)
LEMMA SeparateJoin ==
  ASSUME NEW x \in Words, NEW y \in Words, NEW u \in Words, NEW v \in Words,
         Separate(x, y)
  PROVE  JoinTells(x, y, u, v)
<1> SUFFICES ASSUME NEW s \in Words, NEW t \in Words, (x \o u) \o s = (y \o v) \o t
             PROVE  x = y /\ u \o s = v \o t
  BY DEF JoinTells
<1>1. u \o s \in Words /\ v \o t \in Words
  BY ConcatProperties DEF Words
<1>2. x \o (u \o s) = y \o (v \o t)
  <2>1. (x \o u) \o s = x \o (u \o s)
    BY WordsAssociate, Zenon
  <2>2. (y \o v) \o t = y \o (v \o t)
    BY WordsAssociate, Zenon
  <2>3. QED BY <2>1, <2>2
<1>3. x = y
  BY <1>1, <1>2, Zenon DEF Separate
<1>4. u \o s = v \o t
  <2>1. x \o (u \o s) = x \o (v \o t)
    BY <1>2, <1>3
  <2>2. QED BY <1>1, <2>1, ConcatSimplifications DEF Words
<1>5. QED BY <1>3, <1>4

-----------------------------------------------------------------------------
(* One result after the other.                                             *)

BothThere(both, first, second) ==
  /\ both \in Result
  /\ both.words = first.words \o second.words
  /\ both.outcome = "Ok" <=> first.outcome = "Ok" /\ second.outcome = "Ok"

(* Both are there, and the outcome is Ok only if both are.                 *)
LEMMA ThenFacts ==
  ASSUME NEW first \in Result, NEW second \in Result
  PROVE  BothThere(Then(first, second), first, second)
<1>1. first.words \o second.words \in Words
  BY ConcatProperties DEF Words, Result
<1>2. QED BY <1>1 DEF Then, Result, BothThere

(* Words that are written are a result.                                    *)
LEMMA WrittenFacts ==
  ASSUME NEW words \in Words
  PROVE  /\ Written(words) \in Result
         /\ Written(words).outcome = "Ok" /\ Written(words).words = words
BY DEF Written, Result

Adds(upto, results) ==
  /\ upto \in [0 .. Len(results) -> Result]
  /\ upto[0] = Written(<<>>)
  /\ \A n \in 1 .. Len(results) : upto[n] = Then(upto[n - 1], results[n])

(* InOrder adds one result at a time.                                      *)
LEMMA InOrderFacts ==
  ASSUME NEW results \in Seq(Result)
  PROVE  \E upto : Adds(upto, results) /\ InOrder(results) = upto[Len(results)]
<1> DEFINE N == Len(results)
           Body(f) == [n \in 0 .. Len(results) |-> IF n = 0 THEN Written(<<>>)
                                                   ELSE Then(f[n - 1], results[n])]
           upto == CHOOSE f : f = Body(f)
           step == [n \in 1 .. N |-> [x \in Result |-> Then(x, results[n])]]
<1>1. N \in Nat
  OBVIOUS
<1>2. InOrder(results) = upto[N]
  BY DEF InOrder
<1>3. Written(<<>>) \in Result
  <2>1. <<>> \in Words
    BY DEF Words
  <2>2. QED BY <2>1, WrittenFacts, Zenon
<1>4. \A n \in 1 .. N : results[n] \in Result
  OBVIOUS
<1>5. \A n \in 1 .. N : \A x \in Result : Then(x, results[n]) \in Result
  BY <1>4, ThenFacts DEF BothThere
<1>6. step \in [1 .. N -> [Result -> Result]]
  BY <1>5
<1>7. PICK f \in [0 .. N -> Result] : Recurs(f, Written(<<>>), step, N)
  <2> HIDE DEF step, N
  <2>1. QED BY <1>1, <1>3, <1>6, RecursionExists, Zenon
<1>8. ASSUME NEW n \in 1 .. N PROVE f[n] = Then(f[n - 1], results[n])
  <2>1. n - 1 \in 0 .. N /\ f[n - 1] \in Result
    BY <1>1, <1>7
  <2>2. step[n][f[n - 1]] = Then(f[n - 1], results[n])
    BY <2>1
  <2>3. QED BY <1>7, <2>2 DEF Recurs
<1>9. f = Body(f)
  BY <1>1, <1>7, <1>8 DEF Recurs
<1>10. upto = Body(upto)
  <2> HIDE DEF Body
  <2>1. QED BY <1>9
<1> HIDE DEF upto
<1>11. upto[0] = Written(<<>>) /\ \A n \in 1 .. N : upto[n] = Then(upto[n - 1], results[n])
  <2>1. upto[0] = Written(<<>>)
    BY <1>1, <1>10
  <2>2. ASSUME NEW n \in 1 .. N PROVE upto[n] = Then(upto[n - 1], results[n])
    <3>1. Body(upto)[n] = Then(upto[n - 1], results[n])
      BY <1>1
    <3> HIDE DEF Body
    <3>2. QED BY <1>10, <3>1
  <2>3. QED BY <2>1, <2>2
<1> DEFINE T == {n \in 0 .. N : upto[n] \in Result}
<1>12. 0 .. N \subseteq T
  <2>1. T \in SUBSET Nat /\ 0 \in T
    BY <1>1, <1>3, <1>11
  <2>2. ASSUME NEW n \in 0 .. N - 1, n \in T PROVE n + 1 \in T
    <3>1. n + 1 \in 1 .. N /\ (n + 1) - 1 = n
      BY <1>1
    <3>2. upto[n + 1] = Then(upto[n], results[n + 1])
      BY <1>11, <3>1
    <3>3. Then(upto[n], results[n + 1]) \in Result
      BY <1>5, <2>2, <3>1
    <3>4. QED BY <1>1, <3>1, <3>2, <3>3
  <2> HIDE DEF T, N
  <2>3. QED BY <1>1, <2>1, <2>2, Induction
<1>13. upto = [n \in 0 .. N |-> upto[n]]
  <2>1. Body(upto) = [n \in 0 .. N |-> Body(upto)[n]]
    OBVIOUS
  <2> HIDE DEF Body
  <2>2. QED BY <1>10, <2>1
<1>14. upto \in [0 .. N -> Result]
  BY <1>12, <1>13
<1>15. QED BY <1>2, <1>11, <1>14 DEF Adds

(* All of them are there, and the outcome is Ok only if each one's is.     *)
LEMMA InOrderOk ==
  ASSUME NEW results \in Seq(Result)
  PROVE  /\ InOrder(results) \in Result
         /\ InOrder(results).outcome = "Ok" =>
              \A i \in 1 .. Len(results) : results[i].outcome = "Ok"
<1>1. PICK upto : Adds(upto, results) /\ InOrder(results) = upto[Len(results)]
  BY InOrderFacts
<1> DEFINE N == Len(results)
           T == {n \in 0 .. N : upto[n].outcome = "Ok" =>
                                  \A i \in 1 .. n : results[i].outcome = "Ok"}
<1>2. N \in Nat /\ \A n \in 1 .. N : results[n] \in Result
  OBVIOUS
<1>3. 0 \in T
  BY <1>2
<1>4. ASSUME NEW n \in 0 .. N - 1, n \in T PROVE n + 1 \in T
  <2>1. n + 1 \in 1 .. N /\ (n + 1) - 1 = n /\ n \in 0 .. N
    BY <1>2
  <2>2. upto[n + 1] = Then(upto[n], results[n + 1])
    BY <1>1, <2>1 DEF Adds
  <2>3. upto[n] \in Result /\ results[n + 1] \in Result
    BY <1>1, <1>2, <2>1 DEF Adds
  <2>4. upto[n + 1].outcome = "Ok" => upto[n].outcome = "Ok" /\ results[n + 1].outcome = "Ok"
    <3>1. BothThere(upto[n + 1], upto[n], results[n + 1])
      BY <2>2, <2>3, ThenFacts
    <3>2. QED BY <3>1 DEF BothThere
  <2>5. \A i \in 1 .. n + 1 : i = n + 1 \/ i \in 1 .. n
    BY <2>1
  <2>6. QED BY <1>4, <2>1, <2>4, <2>5
<1>5. N \in T
  <2>1. T \in SUBSET Nat
    BY <1>2
  <2> HIDE DEF T, N
  <2>2. 0 .. N \subseteq T
    BY <1>2, <1>3, <1>4, <2>1, Induction
  <2>3. QED BY <1>2, <2>2
<1>6. InOrder(results) \in Result
  BY <1>1, <1>2 DEF Adds
<1>7. QED BY <1>1, <1>5, <1>6

(* Of results that are separate place by place, those in order are, and    *)
(* tell each of them.                                                      *)
LEMMA InOrderTells ==
  ASSUME NEW r \in Seq(Result), NEW q \in Seq(Result), Len(r) = Len(q),
         \A i \in 1 .. Len(r) : Separate(r[i].words, q[i].words),
         NEW s \in Words, NEW t \in Words,
         InOrder(r).words \o s = InOrder(q).words \o t
  PROVE  \A i \in 1 .. Len(r) : r[i].words = q[i].words
<1>1. PICK u : Adds(u, r) /\ InOrder(r) = u[Len(r)]
  BY InOrderFacts
<1>2. PICK v : Adds(v, q) /\ InOrder(q) = v[Len(q)]
  BY InOrderFacts
<1> DEFINE N == Len(r)
           Tells(n) == u[n].words = v[n].words => \A i \in 1 .. n : r[i].words = q[i].words
           T == {n \in 0 .. N : Separate(u[n].words, v[n].words) /\ Tells(n)}
<1>3. N \in Nat /\ Len(q) = N
      /\ \A n \in 1 .. N : r[n] \in Result /\ q[n] \in Result
                           /\ r[n].words \in Words /\ q[n].words \in Words
  <2>1. N \in Nat /\ Len(q) = N /\ \A n \in 1 .. N : r[n] \in Result /\ q[n] \in Result
    OBVIOUS
  <2>2. QED BY <2>1 DEF Result
<1>4. \A n \in 0 .. N : u[n] \in Result /\ v[n] \in Result
                         /\ u[n].words \in Words /\ v[n].words \in Words
  BY <1>1, <1>2, <1>3 DEF Adds, Result
<1>5. <<>> \in Words
  BY DEF Words
<1>6. 0 \in T
  <2>1. u[0].words = v[0].words
    BY <1>1, <1>2 DEF Adds
  <2>2. Separate(u[0].words, v[0].words)
    BY <2>1 DEF Separate
  <2>3. QED BY <1>3, <2>2
<1>7. ASSUME NEW n \in 0 .. N - 1, n \in T PROVE n + 1 \in T
  <2> DEFINE x == u[n].words
             y == v[n].words
             z == r[n + 1].words
             w == q[n + 1].words
  <2>1. n + 1 \in 1 .. N /\ (n + 1) - 1 = n /\ n \in 0 .. N /\ n + 1 \in 0 .. N
    BY <1>3
  <2>2. u[n + 1] = Then(u[n], r[n + 1]) /\ v[n + 1] = Then(v[n], q[n + 1])
    BY <1>1, <1>2, <1>3, <2>1 DEF Adds
  <2>3. u[n + 1].words = x \o z /\ v[n + 1].words = y \o w
    <3>1. u[n] \in Result /\ v[n] \in Result /\ r[n + 1] \in Result /\ q[n + 1] \in Result
      BY <1>3, <1>4, <2>1
    <3>2. BothThere(u[n + 1], u[n], r[n + 1]) /\ BothThere(v[n + 1], v[n], q[n + 1])
      BY <2>2, <3>1, ThenFacts
    <3>3. QED BY <3>2 DEF BothThere
  <2>4. x \in Words /\ y \in Words /\ z \in Words /\ w \in Words
    BY <1>3, <1>4, <2>1
  <2>5. Separate(x, y) /\ Separate(z, w)
    BY <1>7, <2>1
  <2> HIDE DEF x, y, z, w
  <2>6. ASSUME NEW a \in Words, NEW b \in Words, (x \o z) \o a = (y \o w) \o b
        PROVE  x = y /\ z = w
    <3>1. x = y /\ z \o a = w \o b
      <4>1. JoinTells(x, y, z, w)
        BY <2>4, <2>5, SeparateJoin
      <4>2. QED BY <2>6, <4>1 DEF JoinTells
    <3>2. QED BY <2>5, <3>1, Zenon DEF Separate
  <2>7. Separate(x \o z, y \o w)
    BY <2>6 DEF Separate
  <2>8. x \o z = y \o w => x = y /\ z = w
    BY <1>5, <2>6
  <2>9. Tells(n + 1)
    <3> SUFFICES ASSUME u[n + 1].words = v[n + 1].words, NEW i \in 1 .. n + 1
                 PROVE  r[i].words = q[i].words
      OBVIOUS
    <3>1. x = y /\ z = w
      BY <2>3, <2>8
    <3>2. CASE i = n + 1
      BY <3>1, <3>2 DEF z, w
    <3>3. CASE i \in 1 .. n
      BY <1>7, <3>1, <3>3 DEF x, y
    <3>4. QED BY <2>1, <3>2, <3>3
  <2>10. QED BY <2>1, <2>3, <2>7, <2>9
<1>8. N \in T
  <2>1. T \in SUBSET Nat
    BY <1>3
  <2> HIDE DEF T, N
  <2>2. 0 .. N \subseteq T
    BY <1>3, <1>6, <1>7, <2>1, Induction
  <2>3. QED BY <1>3, <2>2
<1>9. u[N].words \o s = v[N].words \o t
  BY <1>1, <1>2, <1>3
<1>10. u[N].words = v[N].words
  BY <1>8, <1>9 DEF Separate
<1>11. QED BY <1>8, <1>10

-----------------------------------------------------------------------------
(* Values and their parts.                                                 *)

(* The parts of a value are values.                                        *)
LEMMA BelowFacts ==
  ASSUME NEW v
  PROVE  /\ Below(v) \subseteq Values
         /\ Seq(Below(v)) \subseteq Seq(Values)
         /\ Seq([1 .. 2 -> Below(v)]) \subseteq Seq([1 .. 2 -> Values])
<1>1. Below(v) \subseteq Values
  BY DEF Below
<1>2. [1 .. 2 -> Below(v)] \subseteq [1 .. 2 -> Values]
  BY <1>1
<1>3. QED BY <1>1, <1>2

(* A pair is a sequence.                                                   *)
LEMMA PairFacts ==
  ASSUME NEW S, NEW pair \in [1 .. 2 -> S]
  PROVE  pair \in Seq(S) /\ Len(pair) = 2
<1>1. 2 \in Nat
  OBVIOUS
<1>2. QED BY <1>1, FunctionIsSequence

ResultsOf(to_vec, values) == [i \in 1 .. Len(values) |-> to_vec[values[i]]]

(* What is written for several values.                                     *)
LEMMA SerializeAllFacts ==
  ASSUME NEW f \in [Values -> Result], NEW values \in Seq(Values)
  PROVE  /\ ResultsOf(f, values) \in Seq(Result)
         /\ Len(ResultsOf(f, values)) = Len(values)
         /\ \A i \in 1 .. Len(values) : ResultsOf(f, values)[i] = f[values[i]]
         /\ SerializeAll(f, values) = InOrder(ResultsOf(f, values))
         /\ SerializeAll(f, values) \in Result
<1>1. Len(values) \in Nat /\ \A i \in 1 .. Len(values) : values[i] \in Values
  OBVIOUS
<1>2. ResultsOf(f, values) \in [1 .. Len(values) -> Result]
  BY <1>1 DEF ResultsOf
<1>3. ResultsOf(f, values) \in Seq(Result) /\ Len(ResultsOf(f, values)) = Len(values)
  BY <1>1, <1>2, FunctionIsSequence
<1>4. SerializeAll(f, values) = InOrder(ResultsOf(f, values))
  BY DEF SerializeAll, ResultsOf
<1>5. SerializeAll(f, values) \in Result
  BY <1>3, <1>4, InOrderOk
<1>6. QED BY <1>3, <1>4, <1>5 DEF ResultsOf

ResultsOfPairs(to_vec, pairs) == [i \in 1 .. Len(pairs) |-> SerializeAll(to_vec, pairs[i])]

(* What is written for the pairs of a map.                                 *)
LEMMA SerializePairsFacts ==
  ASSUME NEW f \in [Values -> Result], NEW pairs \in Seq([1 .. 2 -> Values])
  PROVE  /\ ResultsOfPairs(f, pairs) \in Seq(Result)
         /\ Len(ResultsOfPairs(f, pairs)) = Len(pairs)
         /\ \A i \in 1 .. Len(pairs) : ResultsOfPairs(f, pairs)[i] = SerializeAll(f, pairs[i])
         /\ InOrder(ResultsOfPairs(f, pairs)) \in Result
<1>1. Len(pairs) \in Nat /\ \A i \in 1 .. Len(pairs) : pairs[i] \in [1 .. 2 -> Values]
  OBVIOUS
<1>2. ASSUME NEW i \in 1 .. Len(pairs) PROVE SerializeAll(f, pairs[i]) \in Result
  <2>1. pairs[i] \in Seq(Values)
    BY <1>1, PairFacts
  <2>2. QED BY <2>1, SerializeAllFacts
<1>3. ResultsOfPairs(f, pairs) \in [1 .. Len(pairs) -> Result]
  BY <1>2 DEF ResultsOfPairs
<1>4. ResultsOfPairs(f, pairs) \in Seq(Result) /\ Len(ResultsOfPairs(f, pairs)) = Len(pairs)
  BY <1>1, <1>3, FunctionIsSequence
<1>5. InOrder(ResultsOfPairs(f, pairs)) \in Result
  BY <1>4, InOrderOk
<1>6. QED BY <1>4, <1>5 DEF ResultsOfPairs

(* A length in front of what it counts.                                    *)
LEMMA PrefixedFacts ==
  ASSUME NEW known \in BOOLEAN, NEW n \in Nat, NEW result \in Result
  PROVE  /\ Prefixed(known, n, result) \in Result
         /\ Prefixed(known, n, result).outcome = "Ok" =>
              /\ result.outcome = "Ok"
              /\ Prefixed(known, n, result).words = Length(n) \o result.words
<1>1. Length(n) \in Words
  BY LengthFacts
<1>2. /\ Written(Length(n)) \in Result /\ Written(Length(n)).words = Length(n)
      /\ Written(Length(n)).outcome = "Ok"
  BY <1>1, WrittenFacts
<1>3. BothThere(Then(Written(Length(n)), result), Written(Length(n)), result)
  BY <1>2, ThenFacts
<1>4. CASE known
  BY <1>2, <1>3, <1>4 DEF Prefixed, BothThere
<1>5. CASE ~known
  BY <1>5 DEF Prefixed, Result, Words
<1>6. QED BY <1>4, <1>5

(* Depending on its kind, to_vec of a value comes to this.                 *)
LEMMA SerializeKinds ==
  ASSUME NEW f, NEW v
  PROVE  /\ v.kind = "int" => Serialize(f, v) = Written(Number(v.size, v.n))
         /\ v.kind = "text" => Serialize(f, v) = Written(TextWords(v.s))
         /\ v.kind = "none" => Serialize(f, v) = Written(Number(4, 0))
         /\ v.kind = "some" => Serialize(f, v) = Then(Written(Number(4, 1)), f[v.v])
         /\ v.kind = "variant" =>
              Serialize(f, v) = Then(Written(Number(4, v.index)), SerializeAll(f, v.fields))
         /\ v.kind = "product" => Serialize(f, v) = SerializeAll(f, v.fields)
         /\ v.kind = "seq" =>
              Serialize(f, v) = Prefixed(v.known, Len(v.items), SerializeAll(f, v.items))
         /\ v.kind = "map" =>
              Serialize(f, v) = Prefixed(v.known, Len(v.pairs), InOrder(ResultsOfPairs(f, v.pairs)))
         /\ v.kind = "displayed" => Serialize(f, v) = [outcome |-> "panic", words |-> <<>>]
BY DEF Serialize, ResultsOfPairs

(* What a value is, kind by kind.                                          *)
LEMMA ValueKinds ==
  ASSUME NEW v \in Values
  PROVE  /\ v.kind \in {"int", "text", "none", "some", "variant", "product", "seq", "map",
                        "displayed"}
         /\ v.kind = "int" => v = Num(v.size, v.n) /\ v.size \in Nat /\ v.n \in Int
         /\ v.kind = "text" => v = Text(v.s) /\ v.s \in Seq(Byte) /\ Unsigned(Len(v.s), 4)
         /\ v.kind = "none" => v = Nothing
         /\ v.kind = "some" => v = Some(v.v) /\ v.v \in Below(v)
         /\ v.kind = "variant" =>
              /\ v = Variant(v.index, v.fields) /\ v.fields \in Seq(Below(v))
              /\ v.index \in Nat /\ Unsigned(v.index, 4)
         /\ v.kind = "product" => v = Struct(v.fields) /\ v.fields \in Seq(Below(v))
         /\ v.kind = "seq" =>
              /\ v = List(v.known, v.items) /\ v.known \in BOOLEAN
              /\ v.items \in Seq(Below(v)) /\ Unsigned(Len(v.items), 4)
         /\ v.kind = "map" =>
              /\ v = Map(v.known, v.pairs) /\ v.known \in BOOLEAN
              /\ v.pairs \in Seq([1 .. 2 -> Below(v)]) /\ Unsigned(Len(v.pairs), 4)
<1>1. IsValue(v)
  BY ValueAssumption
<1>2. Nothing.kind = "none" /\ Displayed.kind = "displayed"
  BY DEF Nothing, Displayed
<1>3. CASE v = Nothing \/ v = Displayed
  BY <1>2, <1>3
<1>4. CASE ~(v = Nothing \/ v = Displayed)
  <2>1. {1, 2, 4, 8, 16} \subseteq Nat
    OBVIOUS
  <2>2. QED BY <1>1, <1>4, <2>1 DEF IsValue
<1>5. QED BY <1>3, <1>4

(* What is written for a value is a result.                                *)
LEMMA SerializeTyped ==
  ASSUME NEW f \in [Values -> Result], NEW v \in Values
  PROVE  Serialize(f, v) \in Result
<1>1. 4 \in Nat /\ 0 \in Int /\ 1 \in Int
  OBVIOUS
<1>2. \A size \in Nat, n \in Int : Written(Number(size, n)) \in Result
  BY NumberFacts, WrittenFacts
<1>3. CASE v.kind = "int"
  <2>1. v.size \in Nat /\ v.n \in Int
    BY <1>3, ValueKinds
  <2>2. QED BY <1>2, <1>3, <2>1, SerializeKinds
<1>4. CASE v.kind = "text"
  <2>1. v.s \in Seq(Byte)
    BY <1>4, ValueKinds
  <2>2. Len(v.s) \in Int
    BY <2>1
  <2>3. Length(Len(v.s)) \in Words /\ PaddedBytes(v.s) \in Words
    BY <2>1, <2>2, LengthFacts, PaddedWords
  <2>4. TextWords(v.s) \in Words
    BY <2>3, ConcatProperties DEF TextWords, Words
  <2>5. QED BY <1>4, <2>4, SerializeKinds, WrittenFacts
<1>5. CASE v.kind = "none"
  BY <1>1, <1>2, <1>5, SerializeKinds
<1>6. CASE v.kind = "some"
  <2>1. f[v.v] \in Result
    BY <1>6, ValueKinds, BelowFacts
  <2>2. BothThere(Then(Written(Number(4, 1)), f[v.v]), Written(Number(4, 1)), f[v.v])
    BY <1>1, <1>2, <2>1, ThenFacts
  <2>3. QED BY <1>6, <2>2, SerializeKinds DEF BothThere
<1>7. CASE v.kind = "variant"
  <2>1. v.fields \in Seq(Values) /\ v.index \in Int
    <3>1. v.fields \in Seq(Below(v)) /\ v.index \in Nat
      BY <1>7, ValueKinds
    <3>2. v.fields \in Seq(Values)
      BY <3>1, BelowFacts, Zenon
    <3>3. QED BY <3>1, <3>2
  <2>2. SerializeAll(f, v.fields) \in Result /\ Written(Number(4, v.index)) \in Result
    BY <1>1, <1>2, <2>1, SerializeAllFacts
  <2>3. BothThere(Then(Written(Number(4, v.index)), SerializeAll(f, v.fields)),
                  Written(Number(4, v.index)), SerializeAll(f, v.fields))
    BY <2>2, ThenFacts
  <2>4. QED BY <1>7, <2>3, SerializeKinds DEF BothThere
<1>8. CASE v.kind = "product"
  <2>1. v.fields \in Seq(Values)
    BY <1>8, ValueKinds, BelowFacts
  <2>2. QED BY <1>8, <2>1, SerializeAllFacts, SerializeKinds
<1>9. CASE v.kind = "seq"
  <2>1. v.items \in Seq(Values) /\ v.known \in BOOLEAN
    BY <1>9, ValueKinds, BelowFacts
  <2>2. Len(v.items) \in Nat /\ SerializeAll(f, v.items) \in Result
    BY <2>1, SerializeAllFacts
  <2>3. Prefixed(v.known, Len(v.items), SerializeAll(f, v.items)) \in Result
    BY <2>1, <2>2, PrefixedFacts
  <2>4. QED BY <1>9, <2>3, SerializeKinds
<1>10. CASE v.kind = "map"
  <2>1. v.pairs \in Seq([1 .. 2 -> Values]) /\ v.known \in BOOLEAN
    BY <1>10, ValueKinds, BelowFacts
  <2>2. Len(v.pairs) \in Nat /\ InOrder(ResultsOfPairs(f, v.pairs)) \in Result
    BY <2>1, SerializePairsFacts
  <2>3. Prefixed(v.known, Len(v.pairs), InOrder(ResultsOfPairs(f, v.pairs))) \in Result
    BY <2>1, <2>2, PrefixedFacts
  <2>4. QED BY <1>10, <2>3, SerializeKinds
<1>11. CASE v.kind = "displayed"
  <2>1. [outcome |-> "panic", words |-> <<>>] \in Result
    BY DEF Result, Words
  <2>2. QED BY <1>11, <2>1, SerializeKinds
<1>12. QED
  BY <1>3, <1>4, <1>5, <1>6, <1>7, <1>8, <1>9, <1>10, <1>11, ValueKinds

(* What is written for a value depends on that of its parts alone.         *)
LEMMA SerializeOfParts ==
  ASSUME NEW f, NEW g, NEW v \in Values, \A part \in Below(v) : f[part] = g[part]
  PROVE  Serialize(f, v) = Serialize(g, v)
<1>1. ASSUME NEW values \in Seq(Below(v))
      PROVE  SerializeAll(f, values) = SerializeAll(g, values)
  <2>1. \A i \in 1 .. Len(values) : f[values[i]] = g[values[i]]
    OBVIOUS
  <2>2. [i \in 1 .. Len(values) |-> f[values[i]]] = [i \in 1 .. Len(values) |-> g[values[i]]]
    BY <2>1
  <2>3. QED BY <2>2 DEF SerializeAll
<1>2. CASE v.kind \in {"int", "text", "none", "displayed"}
  BY <1>2, SerializeKinds
<1>3. CASE v.kind = "some"
  <2>1. f[v.v] = g[v.v]
    BY <1>3, ValueKinds
  <2>2. QED BY <1>3, <2>1, SerializeKinds
<1>4. CASE v.kind \in {"variant", "product"}
  <2>1. SerializeAll(f, v.fields) = SerializeAll(g, v.fields)
    BY <1>1, <1>4, ValueKinds
  <2>2. QED BY <1>4, <2>1, SerializeKinds
<1>5. CASE v.kind = "seq"
  <2>1. SerializeAll(f, v.items) = SerializeAll(g, v.items)
    BY <1>1, <1>5, ValueKinds
  <2>2. QED BY <1>5, <2>1, SerializeKinds
<1>6. CASE v.kind = "map"
  <2>1. v.pairs \in Seq([1 .. 2 -> Below(v)])
    BY <1>6, ValueKinds
  <2>2. ASSUME NEW i \in 1 .. Len(v.pairs)
        PROVE  SerializeAll(f, v.pairs[i]) = SerializeAll(g, v.pairs[i])
    <3>1. v.pairs[i] \in [1 .. 2 -> Below(v)]
      BY <2>1
    <3>2. v.pairs[i] \in Seq(Below(v))
      BY <3>1, PairFacts
    <3>3. QED BY <1>1, <3>2
  <2>3. ResultsOfPairs(f, v.pairs) = ResultsOfPairs(g, v.pairs)
    BY <2>2 DEF ResultsOfPairs
  <2>4. QED BY <1>6, <2>3, SerializeKinds
<1>7. QED BY <1>2, <1>3, <1>4, <1>5, <1>6, ValueKinds

-----------------------------------------------------------------------------
(* to_vec of every value: a value has fewer levels of parts below it than  *)
(* any value that it is a part of.                                         *)

(* f is to_vec for the values of that depth.                               *)
Serializes(f, depth) ==
  /\ f \in [Values -> Result]
  /\ \A v \in Values : Depth[v] < depth => f[v] = Serialize(f, v)

(* Down to any depth there is such a function.                             *)
LEMMA SerializesExists ==
  ASSUME NEW depth \in Nat
  PROVE  \E f : Serializes(f, depth)
<1> DEFINE T == {d \in Nat : \E f : Serializes(f, d)}
<1>1. Depth \in [Values -> Nat]
  BY ValueAssumption
<1>2. 0 \in T
  <2> DEFINE f == [v \in Values |-> Written(<<>>)]
  <2>1. <<>> \in Words
    BY DEF Words
  <2>2. f \in [Values -> Result]
    BY <2>1, WrittenFacts
  <2>3. Serializes(f, 0)
    BY <1>1, <2>2 DEF Serializes
  <2>4. QED BY <2>3
<1>3. ASSUME NEW d \in 0 .. depth - 1, d \in T PROVE d + 1 \in T
  <2>1. PICK f : Serializes(f, d)
    BY <1>3
  <2> DEFINE g == [v \in Values |-> Serialize(f, v)]
  <2>2. g \in [Values -> Result] /\ \A v \in Values : g[v] = Serialize(f, v)
    BY <2>1, SerializeTyped DEF Serializes
  <2> HIDE DEF g
  <2>3. \A v \in Values : Depth[v] < d => g[v] = f[v]
    BY <2>1, <2>2 DEF Serializes
  <2>4. ASSUME NEW v \in Values, Depth[v] < d + 1 PROVE g[v] = Serialize(g, v)
    <3>1. \A part \in Below(v) : f[part] = g[part]
      BY <1>1, <2>3, <2>4 DEF Below
    <3>2. Serialize(f, v) = Serialize(g, v)
      BY <3>1, SerializeOfParts
    <3>3. QED BY <2>2, <3>2
  <2>5. Serializes(g, d + 1)
    BY <2>2, <2>4 DEF Serializes
  <2>6. QED BY <2>5
<1>4. depth \in T
  <2>1. T \in SUBSET Nat
    OBVIOUS
  <2> HIDE DEF T
  <2>2. 0 .. depth \subseteq T
    BY <1>2, <1>3, <2>1, Induction
  <2>3. QED BY <2>2
<1>5. QED BY <1>4

(* There is only one.                                                      *)
LEMMA SerializesUnique ==
  ASSUME NEW f, NEW g, NEW d \in Nat, NEW e \in Nat, Serializes(f, d), Serializes(g, e),
         NEW v \in Values, Depth[v] < d, Depth[v] < e
  PROVE  f[v] = g[v]
<1>1. Depth \in [Values -> Nat]
  BY ValueAssumption
<1> DEFINE Differ == {u \in Values : Depth[u] < d /\ Depth[u] < e /\ f[u] # g[u]}
           Depths == {Depth[u] : u \in Differ}
<1> SUFFICES ASSUME Differ # {} PROVE FALSE
  OBVIOUS
<1>2. PICK least \in Depths : \A other \in Depths : least <= other
  <2>1. Depths \in SUBSET Nat /\ Depths # {}
    BY <1>1
  <2> HIDE DEF Depths
  <2>2. QED BY <2>1, LeastNumber
<1>3. PICK u \in Differ : Depth[u] = least
  BY <1>2
<1>4. ASSUME NEW part \in Below(u) PROVE f[part] = g[part]
  <2>1. part \in Values /\ Depth[part] < Depth[u] /\ Depth[part] \in Nat /\ Depth[u] \in Nat
    BY <1>1, <1>3 DEF Below
  <2>2. ~(least <= Depth[part])
    BY <1>3, <2>1
  <2>3. part \notin Differ
    BY <1>2, <2>2
  <2>4. QED BY <1>3, <2>1, <2>3
<1>5. Serialize(f, u) = Serialize(g, u)
  BY <1>3, <1>4, SerializeOfParts
<1>6. f[u] = Serialize(f, u) /\ g[u] = Serialize(g, u)
  BY <1>3 DEF Serializes
<1>7. QED BY <1>3, <1>5, <1>6

(* to_vec is what the calls of serde make it: the recursion is sound.      *)
LEMMA ToVecIsSerialize ==
  /\ ToVec = [v \in Values |-> ToVec[v]]
  /\ \A v \in Values : ToVec[v] = Serialize(ToVec, v)
<1>1. Depth \in [Values -> Nat]
  BY ValueAssumption
<1> DEFINE upto(d) == CHOOSE f : Serializes(f, d)
           f == [v \in Values |-> upto(Depth[v] + 1)[v]]
           Body(g) == [v \in Values |-> Serialize(g, v)]
           to_vec == CHOOSE g : g = Body(g)
<1>2. \A d \in Nat : Serializes(upto(d), d)
  BY SerializesExists
<1> HIDE DEF upto
<1>3. ASSUME NEW v \in Values PROVE f[v] = Serialize(f, v) /\ f[v] \in Result
  <2> DEFINE h == upto(Depth[v] + 1)
  <2>1. Depth[v] + 1 \in Nat /\ Depth[v] < Depth[v] + 1
    BY <1>1
  <2>2. Serializes(h, Depth[v] + 1)
    BY <1>2, <2>1
  <2>3. f[v] = h[v]
    OBVIOUS
  <2> HIDE DEF h
  <2>4. h[v] = Serialize(h, v) /\ h[v] \in Result
    BY <2>1, <2>2 DEF Serializes
  <2>5. ASSUME NEW part \in Below(v) PROVE h[part] = f[part]
    <3>1. /\ part \in Values /\ Depth[part] + 1 \in Nat
          /\ Depth[part] < Depth[part] + 1 /\ Depth[part] < Depth[v] + 1
      BY <1>1 DEF Below
    <3>2. Serializes(upto(Depth[part] + 1), Depth[part] + 1)
      BY <1>2, <3>1
    <3>3. h[part] = upto(Depth[part] + 1)[part]
      BY <2>1, <2>2, <3>1, <3>2, SerializesUnique
    <3>4. QED BY <3>1, <3>3
  <2> HIDE DEF f
  <2>6. Serialize(h, v) = Serialize(f, v)
    BY <2>5, SerializeOfParts
  <2>7. QED BY <2>3, <2>4, <2>6
<1>4. f = Body(f)
  BY <1>3
<1> HIDE DEF f
<1>5. to_vec = Body(to_vec)
  <2> HIDE DEF Body
  <2>1. QED BY <1>4
<1>6. ToVec = to_vec
  BY DEF ToVec
<1> HIDE DEF to_vec
<1>7. \A v \in Values : ToVec[v] = Serialize(ToVec, v)
  <2>1. \A v \in Values : Body(to_vec)[v] = Serialize(to_vec, v)
    OBVIOUS
  <2> HIDE DEF Body
  <2>2. QED BY <1>5, <1>6, <2>1
<1>8. ToVec = [v \in Values |-> ToVec[v]]
  <2>1. Body(to_vec) = [v \in Values |-> Body(to_vec)[v]]
    OBVIOUS
  <2> HIDE DEF Body
  <2>2. QED BY <1>5, <1>6, <2>1
<1>9. QED BY <1>7, <1>8

(* What to_vec makes of a value is a result.                               *)
LEMMA ToVecFacts ==
  ASSUME NEW v \in Values
  PROVE  ToVec[v] \in Result /\ ToVec[v] = Serialize(ToVec, v)
<1> DEFINE Bad == {u \in Values : ToVec[u] \notin Result}
           Depths == {Depth[u] : u \in Bad}
           h == [u \in Values |-> IF ToVec[u] \in Result THEN ToVec[u] ELSE Written(<<>>)]
<1>1. ToVec[v] = Serialize(ToVec, v)
  BY ToVecIsSerialize
<1> SUFFICES ASSUME Bad # {} PROVE FALSE
  BY <1>1
<1>2. Depth \in [Values -> Nat]
  BY ValueAssumption
<1>3. PICK least \in Depths : \A other \in Depths : least <= other
  <2>1. Depths \in SUBSET Nat /\ Depths # {}
    BY <1>2
  <2> HIDE DEF Depths
  <2>2. QED BY <2>1, LeastNumber
<1>4. PICK u \in Bad : Depth[u] = least
  BY <1>3
<1>5. h \in [Values -> Result]
  <2>1. <<>> \in Words
    BY DEF Words
  <2>2. Written(<<>>) \in Result
    BY <2>1, WrittenFacts
  <2>3. QED BY <2>2
<1>6. ASSUME NEW part \in Below(u) PROVE ToVec[part] = h[part]
  <2>1. part \in Values /\ Depth[part] < Depth[u] /\ Depth[part] \in Nat /\ Depth[u] \in Nat
    BY <1>2, <1>4 DEF Below
  <2>2. ~(least <= Depth[part])
    BY <1>4, <2>1
  <2>3. part \notin Bad
    BY <1>3, <2>2
  <2>4. QED BY <2>1, <2>3
<1> HIDE DEF h
<1>7. Serialize(ToVec, u) = Serialize(h, u)
  BY <1>4, <1>6, SerializeOfParts
<1>8. Serialize(h, u) \in Result
  BY <1>4, <1>5, SerializeTyped
<1>9. ToVec[u] = Serialize(ToVec, u)
  BY <1>4, ToVecIsSerialize
<1>10. QED BY <1>4, <1>7, <1>8, <1>9

-----------------------------------------------------------------------------
(* The words of a value tell which value of its type it is.                *)

Told(v, w) ==
  OneType(v, w) /\ ToVec[v].outcome = "Ok" /\ ToVec[w].outcome = "Ok" =>
    \A s, t \in Words : ToVec[v].words \o s = ToVec[w].words \o t => v = w

PartsTold(v) == \A part \in Below(v), w \in Values : Told(part, w)

(* Values of one type are alike.                                           *)
LEMMA OneTypeFacts ==
  ASSUME NEW v, NEW w, OneType(v, w)
  PROVE  v \in Values /\ w \in Values /\ Alike(v, w)
BY TypeAssumption DEF OneType

(* to_vec is a function as a whole.                                        *)
LEMMA ToVecType == ToVec \in [Values -> Result]
BY ToVecFacts, ToVecIsSerialize

HeadTells(n, m, u, v) ==
  \A s, t \in Words :
    (Length(n) \o u) \o s = (Length(m) \o v) \o t => n = m /\ u \o s = v \o t

(* A length, or an index, in front of other words is told.                 *)
LEMMA HeadFacts ==
  ASSUME NEW n \in Nat, NEW m \in Nat, Unsigned(n, 4), Unsigned(m, 4),
         NEW u \in Words, NEW v \in Words
  PROVE  HeadTells(n, m, u, v)
<1>1. /\ Length(n) \in Words /\ Len(Length(n)) = 1
      /\ Length(m) \in Words /\ Len(Length(m)) = 1
  BY LengthFacts
<1>2. Separate(Length(n), Length(m))
  BY <1>1, SameLengthSeparate
<1>3. JoinTells(Length(n), Length(m), u, v)
  BY <1>1, <1>2, SeparateJoin
<1>4. Length(n) = Length(m) => n = m
  <2>1. Width(4) = 4 /\ 4 \in Nat /\ n \in Int /\ m \in Int
    BY DEF Width
  <2>2. QED BY <2>1, NumberTells DEF Length
<1>5. QED BY <1>3, <1>4 DEF JoinTells, HeadTells

(* The same numbers of a size are told.                                    *)
LEMMA IntTold ==
  ASSUME NEW v \in Values, NEW w \in Values, Alike(v, w), v.kind = "int", w.kind = "int",
         NEW s \in Words, NEW t \in Words, ToVec[v].words \o s = ToVec[w].words \o t
  PROVE  v = w
<1>1. /\ v = Num(v.size, v.n) /\ v.size \in Nat /\ v.n \in Int
      /\ w = Num(w.size, w.n) /\ w.n \in Int
  BY ValueKinds
<1>2. /\ v.size = w.size
      /\ \/ Unsigned(v.n, Width(v.size)) /\ Unsigned(w.n, Width(v.size))
         \/ Signed(v.n, Width(v.size)) /\ Signed(w.n, Width(v.size))
  BY DEF Alike
<1>3. /\ ToVec[v].words = Number(v.size, v.n) /\ ToVec[w].words = Number(v.size, w.n)
  <2>1. ToVec[v] = Serialize(ToVec, v) /\ ToVec[w] = Serialize(ToVec, w)
    BY ToVecFacts
  <2>2. /\ Serialize(ToVec, v) = Written(Number(v.size, v.n))
        /\ Serialize(ToVec, w) = Written(Number(w.size, w.n))
    BY SerializeKinds
  <2>3. QED BY <1>2, <2>1, <2>2 DEF Written
<1>4. /\ Number(v.size, v.n) \in Words /\ Number(v.size, w.n) \in Words
      /\ Len(Number(v.size, v.n)) = Len(Number(v.size, w.n))
  BY <1>1, NumberFacts
<1>5. Separate(Number(v.size, v.n), Number(v.size, w.n))
  BY <1>4, SameLengthSeparate
<1>6. Number(v.size, v.n) = Number(v.size, w.n)
  BY <1>3, <1>5 DEF Separate
<1>7. v.n = w.n
  BY <1>1, <1>2, <1>6, NumberTells
<1>8. QED BY <1>1, <1>2, <1>7

(* A text is told by its length and its bytes.                             *)
LEMMA TextTold ==
  ASSUME NEW v \in Values, NEW w \in Values, v.kind = "text", w.kind = "text",
         NEW s \in Words, NEW t \in Words, ToVec[v].words \o s = ToVec[w].words \o t
  PROVE  v = w
<1>1. /\ v = Text(v.s) /\ v.s \in Seq(Byte) /\ Unsigned(Len(v.s), 4)
      /\ w = Text(w.s) /\ w.s \in Seq(Byte) /\ Unsigned(Len(w.s), 4)
  BY ValueKinds
<1>2. Len(v.s) \in Nat /\ Len(w.s) \in Nat
  BY <1>1
<1>3. /\ ToVec[v].words = Length(Len(v.s)) \o PaddedBytes(v.s)
      /\ ToVec[w].words = Length(Len(w.s)) \o PaddedBytes(w.s)
  <2>1. ToVec[v] = Serialize(ToVec, v) /\ ToVec[w] = Serialize(ToVec, w)
    BY ToVecFacts
  <2>2. /\ Serialize(ToVec, v) = Written(TextWords(v.s))
        /\ Serialize(ToVec, w) = Written(TextWords(w.s))
    BY SerializeKinds
  <2>3. QED BY <2>1, <2>2 DEF Written, TextWords
<1>4. /\ PaddedBytes(v.s) \in Words /\ Len(PaddedBytes(v.s)) = (Len(v.s) + 3) \div 4
      /\ PaddedBytes(w.s) \in Words /\ Len(PaddedBytes(w.s)) = (Len(w.s) + 3) \div 4
  BY <1>1, PaddedWords
<1>5. HeadTells(Len(v.s), Len(w.s), PaddedBytes(v.s), PaddedBytes(w.s))
  BY <1>1, <1>2, <1>4, HeadFacts
<1>6. Len(v.s) = Len(w.s) /\ PaddedBytes(v.s) \o s = PaddedBytes(w.s) \o t
  BY <1>3, <1>5 DEF HeadTells
<1>7. Separate(PaddedBytes(v.s), PaddedBytes(w.s))
  BY <1>4, <1>6, SameLengthSeparate
<1>8. v.s = w.s
  BY <1>1, <1>6, <1>7, PaddedTells DEF Separate
<1>9. QED BY <1>1, <1>8

RowTells(f, g) ==
  \A s, t \in Words :
    SerializeAll(ToVec, f).words \o s = SerializeAll(ToVec, g).words \o t => f = g

(* Values in a row are told if each of them is.                            *)
LEMMA RowTold ==
  ASSUME NEW v \in Values, PartsTold(v),
         NEW f \in Seq(Below(v)), NEW g \in Seq(Values), OfOneType(f, g),
         SerializeAll(ToVec, f).outcome = "Ok", SerializeAll(ToVec, g).outcome = "Ok"
  PROVE  RowTells(f, g)
<1> SUFFICES ASSUME NEW s \in Words, NEW t \in Words,
                    SerializeAll(ToVec, f).words \o s = SerializeAll(ToVec, g).words \o t
             PROVE  f = g
  BY DEF RowTells
<1> DEFINE r == ResultsOf(ToVec, f)
           q == ResultsOf(ToVec, g)
<1>1. f \in Seq(Values) /\ Len(f) \in Nat /\ Len(f) = Len(g)
  <2>1. f \in Seq(Values)
    BY BelowFacts, Zenon
  <2>2. QED BY <2>1 DEF OfOneType
<1>2. /\ r \in Seq(Result) /\ Len(r) = Len(f) /\ SerializeAll(ToVec, f) = InOrder(r)
      /\ \A i \in 1 .. Len(f) : r[i] = ToVec[f[i]]
  BY <1>1, ToVecType, SerializeAllFacts
<1>3. /\ q \in Seq(Result) /\ Len(q) = Len(f) /\ SerializeAll(ToVec, g) = InOrder(q)
      /\ \A i \in 1 .. Len(f) : q[i] = ToVec[g[i]]
  BY <1>1, ToVecType, SerializeAllFacts
<1> HIDE DEF r, q
<1>4. \A i \in 1 .. Len(f) : r[i].outcome = "Ok" /\ q[i].outcome = "Ok"
  BY <1>2, <1>3, InOrderOk
<1>5. ASSUME NEW i \in 1 .. Len(f)
      PROVE  \A a, b \in Words : r[i].words \o a = q[i].words \o b => f[i] = g[i]
  <2>1. f[i] \in Below(v) /\ g[i] \in Values /\ OneType(f[i], g[i])
    BY <1>1 DEF OfOneType
  <2>2. Told(f[i], g[i])
    BY <2>1 DEF PartsTold
  <2>3. QED BY <1>2, <1>3, <1>4, <2>1, <2>2 DEF Told
<1>6. ASSUME NEW i \in 1 .. Len(r) PROVE Separate(r[i].words, q[i].words)
  <2>1. i \in 1 .. Len(f)
    BY <1>2
  <2>2. f[i] = g[i] => r[i].words = q[i].words
    BY <1>2, <1>3, <2>1
  <2>3. QED BY <1>5, <2>1, <2>2 DEF Separate
<1>7. ASSUME NEW i \in 1 .. Len(f) PROVE f[i] = g[i]
  <2>1. \A j \in 1 .. Len(r) : r[j].words = q[j].words
    <3>1. InOrder(r).words \o s = InOrder(q).words \o t
      BY <1>2, <1>3
    <3>2. Len(r) = Len(q)
      BY <1>2, <1>3
    <3>3. QED BY ONLY <1>2, <1>3, <1>6, <3>1, <3>2, s \in Words, t \in Words, InOrderTells
  <2>2. <<>> \in Words
    BY DEF Words
  <2>3. QED BY <1>2, <1>5, <2>1, <2>2
<1>8. QED BY <1>1, <1>7, SeqEqual

(* The tags of an Option fit in a word.                                    *)
LEMMA TagsFit == Unsigned(0, 4) /\ Unsigned(1, 4)
<1>1. ByteBase \in Nat \ {0, 1}
  BY BoundsAssumption
<1>2. ASSUME NEW n \in {0, 1} PROVE Unsigned(n, 4)
  <2> DEFINE high == High(n, 4)
  <2>1. /\ high[0] = n
        /\ \A i \in 1 .. 4 : high[i] = high[i - 1] \div ByteBase
    <3>1. n \in Int /\ 4 \in Nat
      OBVIOUS
    <3>2. QED BY <3>1, HighFacts
  <2>2. 0 \div ByteBase = 0 /\ n \div ByteBase = 0
    BY <1>1
  <2> HIDE DEF high
  <2>3. high[1] = high[0] \div ByteBase /\ high[2] = high[1] \div ByteBase
        /\ high[3] = high[2] \div ByteBase /\ high[4] = high[3] \div ByteBase
    BY <2>1
  <2>4. high[4] = 0
    BY <2>1, <2>2, <2>3
  <2>5. QED BY <2>4 DEF high, Unsigned
<1>3. QED BY <1>2

Headed(v, n, words) == ToVec[v].words = Length(n) \o words

HeadedTells(v, w, n, m, x, y) ==
  \A s, t \in Words :
    ToVec[v].words \o s = ToVec[w].words \o t => n = m /\ x \o s = y \o t

(* What follows the heads of two values is compared alone.                 *)
LEMMA HeadedFacts ==
  ASSUME NEW v, NEW w, NEW n \in Nat, NEW m \in Nat, Unsigned(n, 4), Unsigned(m, 4),
         NEW x \in Words, NEW y \in Words, Headed(v, n, x), Headed(w, m, y)
  PROVE  HeadedTells(v, w, n, m, x, y)
<1>1. HeadTells(n, m, x, y)
  BY HeadFacts
<1>2. QED BY <1>1 DEF Headed, HeadTells, HeadedTells

(* None and Some are tags, and the value behind that of Some.              *)
LEMMA OptionFacts ==
  ASSUME NEW v \in Values
  PROVE  /\ v.kind = "none" => Headed(v, 0, <<>>)
         /\ v.kind = "some" =>
              /\ Headed(v, 1, ToVec[v.v].words) /\ ToVec[v.v].words \in Words
              /\ ToVec[v].outcome = "Ok" => ToVec[v.v].outcome = "Ok"
<1>1. ToVec[v] = Serialize(ToVec, v)
  BY ToVecFacts
<1>2. Length(0) \in Words /\ Length(1) \in Words
  BY LengthFacts
<1>3. CASE v.kind = "none"
  <2>1. ToVec[v].words = Length(0)
    <3>1. Serialize(ToVec, v) = Written(Number(4, 0))
      BY <1>3, SerializeKinds
    <3>2. QED BY <1>1, <3>1 DEF Written, Length
  <2>2. Length(0) \o <<>> = Length(0)
    BY <1>2, ConcatEmptySeq DEF Words
  <2>3. QED BY <1>3, <2>1, <2>2 DEF Headed
<1>4. CASE v.kind = "some"
  <2>1. ToVec[v.v] \in Result
    BY <1>4, ValueKinds, BelowFacts, ToVecFacts
  <2>2. ToVec[v] = Then(Written(Length(1)), ToVec[v.v])
    BY <1>1, <1>4, SerializeKinds DEF Length
  <2>3. Written(Length(1)) \in Result /\ Written(Length(1)).words = Length(1)
    BY <1>2, WrittenFacts
  <2>4. BothThere(ToVec[v], Written(Length(1)), ToVec[v.v])
    BY <2>1, <2>2, <2>3, ThenFacts
  <2>5. QED BY <1>4, <2>1, <2>3, <2>4 DEF BothThere, Headed, Result
<1>5. QED BY <1>3, <1>4

(* None and Some are told apart, and Some by what it holds.                *)
LEMMA OptionTold ==
  ASSUME NEW v \in Values, NEW w \in Values, PartsTold(v), Alike(v, w),
         v.kind \in {"none", "some"}, w.kind \in {"none", "some"},
         ToVec[v].outcome = "Ok", ToVec[w].outcome = "Ok",
         NEW s \in Words, NEW t \in Words, ToVec[v].words \o s = ToVec[w].words \o t
  PROVE  v = w
<1>1. <<>> \in Words /\ 0 \in Nat /\ 1 \in Nat
  BY DEF Words
<1>2. CASE v.kind = "none" /\ w.kind = "none"
  BY <1>2, ValueKinds
<1>3. CASE v.kind = "none" /\ w.kind = "some"
  <2>1. Headed(v, 0, <<>>) /\ Headed(w, 1, ToVec[w.v].words) /\ ToVec[w.v].words \in Words
    BY <1>3, OptionFacts
  <2>2. HeadedTells(v, w, 0, 1, <<>>, ToVec[w.v].words)
    BY <1>1, <2>1, TagsFit, HeadedFacts
  <2>3. 0 = 1
    BY <2>2, Zenon DEF HeadedTells
  <2>4. QED BY <2>3
<1>4. CASE v.kind = "some" /\ w.kind = "none"
  <2>1. Headed(w, 0, <<>>) /\ Headed(v, 1, ToVec[v.v].words) /\ ToVec[v.v].words \in Words
    BY <1>4, OptionFacts
  <2>2. HeadedTells(v, w, 1, 0, ToVec[v.v].words, <<>>)
    BY <1>1, <2>1, TagsFit, HeadedFacts
  <2>3. 1 = 0
    BY <2>2, Zenon DEF HeadedTells
  <2>4. QED BY <2>3
<1>5. CASE v.kind = "some" /\ w.kind = "some"
  <2>1. /\ Headed(v, 1, ToVec[v.v].words) /\ ToVec[v.v].words \in Words
        /\ Headed(w, 1, ToVec[w.v].words) /\ ToVec[w.v].words \in Words
        /\ ToVec[v.v].outcome = "Ok" /\ ToVec[w.v].outcome = "Ok"
    BY <1>5, OptionFacts
  <2>2. ToVec[v.v].words \o s = ToVec[w.v].words \o t
    <3>1. HeadedTells(v, w, 1, 1, ToVec[v.v].words, ToVec[w.v].words)
      BY <1>1, <2>1, TagsFit, HeadedFacts
    <3>2. QED BY <3>1 DEF HeadedTells
  <2>3. OneType(v.v, w.v)
    <3>1. {v.kind, w.kind} # {"none", "some"}
      <4>1. "none" \in {"none", "some"} /\ "none" \notin {v.kind, w.kind}
        BY <1>5
      <4>2. QED BY <4>1
    <3>2. QED BY <1>5, <3>1 DEF Alike
  <2>4. /\ v = Some(v.v) /\ v.v \in Below(v)
        /\ w = Some(w.v) /\ w.v \in Values
    BY <1>5, ValueKinds, BelowFacts
  <2>5. v.v = w.v
    <3>1. Told(v.v, w.v)
      BY <2>4 DEF PartsTold
    <3>2. QED BY <2>1, <2>2, <2>3, <3>1 DEF Told
  <2>6. QED BY <2>4, <2>5
<1>6. QED BY <1>2, <1>3, <1>4, <1>5

(* A variant is told by its index, and then by its fields.                 *)
LEMMA VariantTold ==
  ASSUME NEW v \in Values, NEW w \in Values, PartsTold(v), Alike(v, w),
         v.kind = "variant", w.kind = "variant",
         ToVec[v].outcome = "Ok", ToVec[w].outcome = "Ok",
         NEW s \in Words, NEW t \in Words, ToVec[v].words \o s = ToVec[w].words \o t
  PROVE  v = w
<1> DEFINE fields(u) == SerializeAll(ToVec, u.fields)
<1>1. ASSUME NEW u \in Values, u.kind = "variant", ToVec[u].outcome = "Ok"
      PROVE  /\ Headed(u, u.index, fields(u).words) /\ fields(u).words \in Words
             /\ fields(u).outcome = "Ok"
  <2>1. u.fields \in Seq(Below(u)) /\ u.index \in Nat
    BY <1>1, ValueKinds
  <2>2. u.fields \in Seq(Values) /\ u.index \in Int
    <3>1. u.fields \in Seq(Values)
      BY <2>1, BelowFacts, Zenon
    <3>2. QED BY <2>1, <3>1
  <2>3. fields(u) \in Result
    BY <2>2, ToVecType, SerializeAllFacts
  <2>4. /\ Written(Length(u.index)) \in Result
        /\ Written(Length(u.index)).words = Length(u.index)
    BY <2>2, LengthFacts, WrittenFacts
  <2>5. ToVec[u] = Then(Written(Length(u.index)), fields(u))
    <3>1. Serialize(ToVec, u) = Then(Written(Number(4, u.index)), fields(u))
      BY <1>1, SerializeKinds
    <3>2. QED BY <3>1, ToVecFacts DEF Length
  <2> HIDE DEF fields
  <2>6. BothThere(ToVec[u], Written(Length(u.index)), fields(u))
    BY <2>3, <2>4, <2>5, ThenFacts
  <2>7. QED BY <1>1, <2>3, <2>4, <2>6 DEF BothThere, Headed, Result
<1>2. /\ v = Variant(v.index, v.fields) /\ v.fields \in Seq(Below(v))
      /\ v.index \in Nat /\ Unsigned(v.index, 4)
      /\ w = Variant(w.index, w.fields) /\ w.fields \in Seq(Below(w))
      /\ w.index \in Nat /\ Unsigned(w.index, 4)
  BY ValueKinds
<1>3. w.fields \in Seq(Values)
  BY <1>2, BelowFacts, Zenon
<1>4. /\ Headed(v, v.index, fields(v).words) /\ fields(v).words \in Words
      /\ Headed(w, w.index, fields(w).words) /\ fields(w).words \in Words
      /\ fields(v).outcome = "Ok" /\ fields(w).outcome = "Ok"
  BY <1>1
<1> HIDE DEF fields
<1>5. HeadedTells(v, w, v.index, w.index, fields(v).words, fields(w).words)
  BY <1>2, <1>4, HeadedFacts
<1>6. v.index = w.index /\ fields(v).words \o s = fields(w).words \o t
  BY <1>5, Zenon DEF HeadedTells
<1>7. OfOneType(v.fields, w.fields)
  <2>1. {v.kind, w.kind} # {"none", "some"}
    <3>1. "none" \in {"none", "some"} /\ "none" \notin {v.kind, w.kind}
      OBVIOUS
    <3>2. QED BY <3>1
  <2>2. QED BY <1>6, <2>1 DEF Alike
<1>8. v.fields = w.fields
  <2>1. RowTells(v.fields, w.fields)
    BY <1>2, <1>3, <1>4, <1>7, RowTold DEF fields
  <2>2. QED BY <1>6, <2>1, Zenon DEF RowTells, fields
<1>9. QED BY <1>2, <1>6, <1>8

(* A tuple or a struct is told by its fields.                              *)
LEMMA StructTold ==
  ASSUME NEW v \in Values, NEW w \in Values, PartsTold(v), Alike(v, w),
         v.kind = "product", w.kind = "product",
         ToVec[v].outcome = "Ok", ToVec[w].outcome = "Ok",
         NEW s \in Words, NEW t \in Words, ToVec[v].words \o s = ToVec[w].words \o t
  PROVE  v = w
<1>1. /\ v = Struct(v.fields) /\ v.fields \in Seq(Below(v))
      /\ w = Struct(w.fields) /\ w.fields \in Seq(Below(w))
  BY ValueKinds
<1>2. w.fields \in Seq(Values)
  BY <1>1, BelowFacts, Zenon
<1>3. /\ ToVec[v] = SerializeAll(ToVec, v.fields)
      /\ ToVec[w] = SerializeAll(ToVec, w.fields)
  <2>1. /\ Serialize(ToVec, v) = SerializeAll(ToVec, v.fields)
        /\ Serialize(ToVec, w) = SerializeAll(ToVec, w.fields)
    BY SerializeKinds
  <2>2. QED BY <2>1, ToVecFacts
<1>4. OfOneType(v.fields, w.fields)
  <2>1. {v.kind, w.kind} # {"none", "some"}
    <3>1. "none" \in {"none", "some"} /\ "none" \notin {v.kind, w.kind}
      OBVIOUS
    <3>2. QED BY <3>1
  <2>2. QED BY <2>1 DEF Alike
<1>5. v.fields = w.fields
  <2>1. RowTells(v.fields, w.fields)
    BY <1>1, <1>2, <1>3, <1>4, RowTold
  <2>2. QED BY <1>3, <2>1 DEF RowTells
<1>6. QED BY <1>1, <1>5

(* A list is told by its length, and then by its items.                    *)
LEMMA ListTold ==
  ASSUME NEW v \in Values, NEW w \in Values, PartsTold(v), Alike(v, w),
         v.kind = "seq", w.kind = "seq",
         ToVec[v].outcome = "Ok", ToVec[w].outcome = "Ok",
         NEW s \in Words, NEW t \in Words, ToVec[v].words \o s = ToVec[w].words \o t
  PROVE  v = w
<1> DEFINE items(u) == SerializeAll(ToVec, u.items)
<1>1. ASSUME NEW u \in Values, u.kind = "seq", ToVec[u].outcome = "Ok"
      PROVE  /\ Headed(u, Len(u.items), items(u).words) /\ items(u).words \in Words
             /\ items(u).outcome = "Ok" /\ u.known
  <2>1. u.items \in Seq(Below(u)) /\ u.known \in BOOLEAN
    BY <1>1, ValueKinds
  <2>2. u.items \in Seq(Values)
    BY <2>1, BelowFacts, Zenon
  <2>3. items(u) \in Result /\ Len(u.items) \in Nat
    BY <2>2, ToVecType, SerializeAllFacts
  <2>4. ToVec[u] = Prefixed(u.known, Len(u.items), items(u))
    <3>1. Serialize(ToVec, u) = Prefixed(u.known, Len(u.items), items(u))
      BY <1>1, SerializeKinds
    <3>2. QED BY <3>1, ToVecFacts
  <2> HIDE DEF items
  <2>5. /\ items(u).outcome = "Ok"
        /\ Prefixed(u.known, Len(u.items), items(u)).words = Length(Len(u.items)) \o items(u).words
    BY <1>1, <2>1, <2>3, <2>4, PrefixedFacts
  <2>6. u.known
    BY <1>1, <2>1, <2>4 DEF Prefixed
  <2>7. QED BY <2>3, <2>4, <2>5, <2>6 DEF Headed, Result
<1>2. /\ v = List(v.known, v.items) /\ v.known \in BOOLEAN
      /\ v.items \in Seq(Below(v)) /\ Unsigned(Len(v.items), 4)
      /\ w = List(w.known, w.items) /\ w.known \in BOOLEAN
      /\ w.items \in Seq(Below(w)) /\ Unsigned(Len(w.items), 4)
  BY ValueKinds
<1>3. w.items \in Seq(Values)
  BY <1>2, BelowFacts, Zenon
<1>4. /\ Headed(v, Len(v.items), items(v).words) /\ items(v).words \in Words
      /\ Headed(w, Len(w.items), items(w).words) /\ items(w).words \in Words
      /\ items(v).outcome = "Ok" /\ items(w).outcome = "Ok" /\ v.known /\ w.known
  BY <1>1
<1> HIDE DEF items
<1>5. Len(v.items) \in Nat /\ Len(w.items) \in Nat
  BY <1>2
<1>6. HeadedTells(v, w, Len(v.items), Len(w.items), items(v).words, items(w).words)
  BY <1>2, <1>4, <1>5, HeadedFacts
<1>7. Len(v.items) = Len(w.items) /\ items(v).words \o s = items(w).words \o t
  BY <1>6, Zenon DEF HeadedTells
<1>8. OfOneType(v.items, w.items)
  <2>1. {v.kind, w.kind} # {"none", "some"}
    <3>1. "none" \in {"none", "some"} /\ "none" \notin {v.kind, w.kind}
      OBVIOUS
    <3>2. QED BY <3>1
  <2>2. QED BY <1>7, <2>1 DEF Alike, OfOneType
<1>9. v.items = w.items
  <2>1. RowTells(v.items, w.items)
    BY <1>2, <1>3, <1>4, <1>8, RowTold DEF items
  <2>2. QED BY <1>7, <2>1, Zenon DEF RowTells, items
<1>10. v.known = w.known
  BY <1>2, <1>4
<1>11. QED BY <1>2, <1>9, <1>10

(* A map is told by its length, and then by its keys and values.           *)
LEMMA MapTold ==
  ASSUME NEW v \in Values, NEW w \in Values, PartsTold(v), Alike(v, w),
         v.kind = "map", w.kind = "map",
         ToVec[v].outcome = "Ok", ToVec[w].outcome = "Ok",
         NEW s \in Words, NEW t \in Words, ToVec[v].words \o s = ToVec[w].words \o t
  PROVE  v = w
<1> DEFINE r(u) == ResultsOfPairs(ToVec, u.pairs)
           pairs(u) == InOrder(r(u))
<1>1. ASSUME NEW u \in Values, u.kind = "map"
      PROVE  /\ u = Map(u.known, u.pairs) /\ u.known \in BOOLEAN
             /\ u.pairs \in Seq([1 .. 2 -> Below(u)]) /\ u.pairs \in Seq([1 .. 2 -> Values])
             /\ Unsigned(Len(u.pairs), 4) /\ Len(u.pairs) \in Nat
             /\ r(u) \in Seq(Result) /\ Len(r(u)) = Len(u.pairs) /\ pairs(u) \in Result
             /\ \A i \in 1 .. Len(u.pairs) : r(u)[i] = SerializeAll(ToVec, u.pairs[i])
  <2>1. /\ u = Map(u.known, u.pairs) /\ u.known \in BOOLEAN
        /\ u.pairs \in Seq([1 .. 2 -> Below(u)]) /\ Unsigned(Len(u.pairs), 4)
    BY <1>1, ValueKinds
  <2>2. u.pairs \in Seq([1 .. 2 -> Values])
    BY <2>1, BelowFacts, Zenon
  <2>3. Len(u.pairs) \in Nat
    BY <2>2
  <2>4. /\ r(u) \in Seq(Result) /\ Len(r(u)) = Len(u.pairs) /\ pairs(u) \in Result
        /\ \A i \in 1 .. Len(u.pairs) : r(u)[i] = SerializeAll(ToVec, u.pairs[i])
    BY <2>2, ToVecType, SerializePairsFacts
  <2> HIDE DEF r, pairs
  <2>5. QED BY <2>1, <2>2, <2>3, <2>4
<1>2. ASSUME NEW u \in Values, u.kind = "map", ToVec[u].outcome = "Ok"
      PROVE  /\ Headed(u, Len(u.pairs), pairs(u).words) /\ pairs(u).words \in Words
             /\ pairs(u).outcome = "Ok" /\ u.known
  <2>1. ToVec[u] = Prefixed(u.known, Len(u.pairs), pairs(u))
    <3>1. Serialize(ToVec, u) = Prefixed(u.known, Len(u.pairs), pairs(u))
      BY <1>2, SerializeKinds
    <3>2. QED BY <3>1, ToVecFacts
  <2>2. u.known \in BOOLEAN /\ Len(u.pairs) \in Nat /\ pairs(u) \in Result
    BY <1>1, <1>2
  <2> HIDE DEF r, pairs
  <2>3. /\ pairs(u).outcome = "Ok"
        /\ Prefixed(u.known, Len(u.pairs), pairs(u)).words = Length(Len(u.pairs)) \o pairs(u).words
    BY <1>2, <2>1, <2>2, PrefixedFacts
  <2>4. u.known
    BY <1>2, <2>1 DEF Prefixed
  <2>5. QED BY <2>1, <2>2, <2>3, <2>4 DEF Headed, Result
<1>3. /\ Headed(v, Len(v.pairs), pairs(v).words) /\ pairs(v).words \in Words
      /\ Headed(w, Len(w.pairs), pairs(w).words) /\ pairs(w).words \in Words
      /\ pairs(v).outcome = "Ok" /\ pairs(w).outcome = "Ok" /\ v.known /\ w.known
  BY <1>2
<1>4. /\ v = Map(v.known, v.pairs) /\ w = Map(w.known, w.pairs)
      /\ v.known \in BOOLEAN /\ w.known \in BOOLEAN
      /\ v.pairs \in Seq([1 .. 2 -> Below(v)]) /\ w.pairs \in Seq([1 .. 2 -> Values])
      /\ v.pairs \in Seq([1 .. 2 -> Values])
      /\ Unsigned(Len(v.pairs), 4) /\ Len(v.pairs) \in Nat
      /\ Unsigned(Len(w.pairs), 4) /\ Len(w.pairs) \in Nat
  BY <1>1
<1>5. /\ r(v) \in Seq(Result) /\ Len(r(v)) = Len(v.pairs)
      /\ r(w) \in Seq(Result) /\ Len(r(w)) = Len(w.pairs)
      /\ pairs(v) = InOrder(r(v)) /\ pairs(w) = InOrder(r(w))
      /\ \A i \in 1 .. Len(v.pairs) : r(v)[i] = SerializeAll(ToVec, v.pairs[i])
      /\ \A i \in 1 .. Len(w.pairs) : r(w)[i] = SerializeAll(ToVec, w.pairs[i])
  BY <1>1
<1> HIDE DEF r, pairs
<1>6. Len(v.pairs) = Len(w.pairs) /\ pairs(v).words \o s = pairs(w).words \o t
  <2>1. HeadedTells(v, w, Len(v.pairs), Len(w.pairs), pairs(v).words, pairs(w).words)
    BY <1>3, <1>4, HeadedFacts
  <2>2. QED BY <2>1, Zenon DEF HeadedTells
<1>7. \A i \in 1 .. Len(v.pairs) : r(v)[i].outcome = "Ok" /\ r(w)[i].outcome = "Ok"
  <2>1. \A i \in 1 .. Len(r(v)) : r(v)[i].outcome = "Ok"
    BY <1>3, <1>5, InOrderOk
  <2>2. \A i \in 1 .. Len(r(w)) : r(w)[i].outcome = "Ok"
    BY <1>3, <1>5, InOrderOk
  <2>3. QED BY <1>5, <1>6, <2>1, <2>2
<1>8. ASSUME NEW i \in 1 .. Len(v.pairs) PROVE RowTells(v.pairs[i], w.pairs[i])
  <2>1. v.pairs[i] \in [1 .. 2 -> Below(v)] /\ w.pairs[i] \in [1 .. 2 -> Values]
    BY <1>4, <1>6
  <2>2. v.pairs[i] \in Seq(Below(v)) /\ w.pairs[i] \in Seq(Values)
    BY <2>1, PairFacts
  <2>3. OfOneType(v.pairs[i], w.pairs[i])
    <3>1. {v.kind, w.kind} # {"none", "some"}
      <4>1. "none" \in {"none", "some"} /\ "none" \notin {v.kind, w.kind}
        OBVIOUS
      <4>2. QED BY <4>1
    <3>2. QED BY <1>6, <3>1 DEF Alike
  <2>4. /\ SerializeAll(ToVec, v.pairs[i]).outcome = "Ok"
        /\ SerializeAll(ToVec, w.pairs[i]).outcome = "Ok"
    BY <1>5, <1>6, <1>7
  <2>5. QED BY <2>2, <2>3, <2>4, RowTold
<1>9. ASSUME NEW i \in 1 .. Len(r(v)) PROVE Separate(r(v)[i].words, r(w)[i].words)
  <2>1. RowTells(v.pairs[i], w.pairs[i])
    BY <1>5, <1>8
  <2>2. /\ r(v)[i] = SerializeAll(ToVec, v.pairs[i])
        /\ r(w)[i] = SerializeAll(ToVec, w.pairs[i])
    BY <1>5, <1>6
  <2>3. QED BY <2>1, <2>2, Zenon DEF Separate, RowTells
<1>10. \A i \in 1 .. Len(r(v)) : r(v)[i].words = r(w)[i].words
  <2>1. InOrder(r(v)).words \o s = InOrder(r(w)).words \o t
    BY <1>5, <1>6
  <2>2. Len(r(v)) = Len(r(w))
    BY <1>5, <1>6
  <2>3. QED BY ONLY <1>5, <1>9, <2>1, <2>2, s \in Words, t \in Words, InOrderTells
<1>11. ASSUME NEW i \in 1 .. Len(v.pairs) PROVE v.pairs[i] = w.pairs[i]
  <2>1. <<>> \in Words
    BY DEF Words
  <2>2. SerializeAll(ToVec, v.pairs[i]).words = SerializeAll(ToVec, w.pairs[i]).words
    BY <1>5, <1>6, <1>10
  <2>3. RowTells(v.pairs[i], w.pairs[i])
    BY <1>8
  <2>4. QED BY <2>1, <2>2, <2>3 DEF RowTells
<1>12. v.pairs = w.pairs
  BY <1>4, <1>6, <1>11, SeqEqual
<1>13. QED BY <1>3, <1>4, <1>12

(* Values of one type are told apart, if their parts are.                  *)
LEMMA ValueTold ==
  ASSUME NEW v \in Values, NEW w \in Values, PartsTold(v), OneType(v, w),
         ToVec[v].outcome = "Ok", ToVec[w].outcome = "Ok",
         NEW s \in Words, NEW t \in Words, ToVec[v].words \o s = ToVec[w].words \o t
  PROVE  v = w
<1>1. Alike(v, w)
  BY OneTypeFacts
<1>2. v.kind # "displayed" /\ w.kind # "displayed"
  <2>1. ASSUME NEW u \in Values, u.kind = "displayed" PROVE ToVec[u].outcome # "Ok"
    <3>1. ToVec[u] = Serialize(ToVec, u)
      BY ToVecFacts
    <3>2. Serialize(ToVec, u) = [outcome |-> "panic", words |-> <<>>]
      BY <2>1, SerializeKinds
    <3>3. QED BY <3>1, <3>2
  <2>2. QED BY <2>1
<1>3. {v.kind, w.kind} = {"none", "some"} => v.kind \in {"none", "some"} /\ w.kind \in {"none", "some"}
  OBVIOUS
<1>4. \/ v.kind = w.kind
         /\ v.kind \in {"int", "text", "none", "some", "variant", "product", "seq", "map"}
      \/ v.kind \in {"none", "some"} /\ w.kind \in {"none", "some"}
  BY <1>1, <1>2, <1>3 DEF Alike
<1>5. CASE v.kind = "int" /\ w.kind = "int"
  BY <1>1, <1>5, IntTold
<1>6. CASE v.kind = "text" /\ w.kind = "text"
  BY <1>6, TextTold
<1>7. CASE v.kind \in {"none", "some"} /\ w.kind \in {"none", "some"}
  BY <1>1, <1>7, OptionTold
<1>8. CASE v.kind = "variant" /\ w.kind = "variant"
  BY <1>1, <1>8, VariantTold
<1>9. CASE v.kind = "product" /\ w.kind = "product"
  BY <1>1, <1>9, StructTold
<1>10. CASE v.kind = "seq" /\ w.kind = "seq"
  BY <1>1, <1>10, ListTold
<1>11. CASE v.kind = "map" /\ w.kind = "map"
  BY <1>1, <1>11, MapTold
<1>12. QED BY <1>4, <1>5, <1>6, <1>7, <1>8, <1>9, <1>10, <1>11

(* Every value is told, by induction on how deeply its parts are nested.   *)
LEMMA AllTold ==
  ASSUME NEW v \in Values, NEW w \in Values
  PROVE  Told(v, w)
<1> DEFINE Bad == {u \in Values : \E x \in Values : ~Told(u, x)}
           Depths == {Depth[u] : u \in Bad}
<1> SUFFICES ASSUME Bad # {} PROVE FALSE
  OBVIOUS
<1>1. Depth \in [Values -> Nat]
  BY ValueAssumption
<1>2. PICK least \in Depths : \A other \in Depths : least <= other
  <2>1. Depths \in SUBSET Nat /\ Depths # {}
    BY <1>1
  <2> HIDE DEF Depths
  <2>2. QED BY <2>1, LeastNumber
<1>3. PICK u \in Bad : Depth[u] = least
  BY <1>2
<1>4. PartsTold(u)
  <2> SUFFICES ASSUME NEW part \in Below(u) PROVE part \notin Bad
    BY DEF PartsTold, Below
  <2>1. part \in Values /\ Depth[part] < Depth[u] /\ Depth[part] \in Nat /\ Depth[u] \in Nat
    BY <1>1, <1>3 DEF Below
  <2>2. ~(least <= Depth[part])
    BY <1>3, <2>1
  <2>3. QED BY <1>2, <2>2
<1>5. PICK x \in Values : ~Told(u, x)
  BY <1>3
<1>6. Told(u, x)
  <2>1. u \in Values
    BY <1>3
  <2>2. QED BY ONLY <1>4, <1>5, <2>1, ValueTold DEF Told
<1>7. QED BY <1>5, <1>6

(* InputUnambiguous of any two values: of the words that to_vec writes for *)
(* two values of a type, those of one never begin those of the other, so a *)
(* guest that knows the type reads back no other value.                    *)
THEOREM WordsTellValues ==
  ASSUME NEW v \in Values, NEW w \in Values, OneType(v, w), v # w,
         ToVec[v].outcome = "Ok", ToVec[w].outcome = "Ok"
  PROVE  ~IsPrefix(ToVec[v].words, ToVec[w].words)
<1> SUFFICES ASSUME IsPrefix(ToVec[v].words, ToVec[w].words) PROVE FALSE
  OBVIOUS
<1> DEFINE x == ToVec[v].words
           y == ToVec[w].words
           tail == SubSeq(y, Len(x) + 1, Len(y))
<1>1. x \in Words /\ y \in Words
  BY ToVecFacts DEF Result
<1>2. Len(x) <= Len(y) /\ SubSeq(x, 1, Len(x)) = SubSeq(y, 1, Len(x))
  BY DEF IsPrefix
<1>3. x \o tail = y \o <<>>
  <2> HIDE DEF x, y
  <2>1. SubSeq(x, 1, Len(x)) = x
    BY <1>1 DEF Words
  <2>2. SubSeq(y, 1, Len(x)) \o tail = y
    <3>1. /\ y \in Seq(Word) /\ 1 \in 1 .. Len(y) + 1
          /\ Len(x) \in 1 - 1 .. Len(y) /\ Len(y) \in Len(x) .. Len(y)
      BY <1>1, <1>2 DEF Words
    <3>2. SubSeq(y, 1, Len(x)) \o tail = SubSeq(y, 1, Len(y))
      BY <3>1, ConcatAdjacentSubSeq, Zenon
    <3>3. SubSeq(y, 1, Len(y)) = y
      BY <3>1, SubSeqFull
    <3>4. QED BY <3>2, <3>3
  <2>3. y \o <<>> = y
    BY <1>1, ConcatEmptySeq DEF Words
  <2>4. QED BY <1>2, <2>1, <2>2, <2>3
<1>4. tail \in Words /\ <<>> \in Words
  <2> HIDE DEF x, y
  <2>1. QED BY <1>1, <1>2 DEF Words
<1>5. Told(v, w)
  BY AllTold
<1>6. QED BY <1>3, <1>4, <1>5 DEF Told
=============================================================================
