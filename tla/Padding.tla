------------------------------- MODULE Padding -------------------------------
(***************************************************************************)
(* How src/serializer/mod.rs lays out numbers and bytes in words, which    *)
(* are their four bytes, lowest first.                                     *)
(***************************************************************************)
EXTENDS ByteMemory

(* What is left of a number above its lowest bytes.                        *)
High(n, size) ==
  LET high[i \in 0 .. size] == IF i = 0 THEN n ELSE high[i - 1] \div ByteBase
  IN  high

(* The little-endian bytes of a number, in two's complement.               *)
Digits(n, size) ==
  LET high == High(n, size)
  IN  [i \in 1 .. size |-> high[i - 1] % ByteBase]

(* The numbers of an unsigned and of a signed type of that many bytes.     *)
Unsigned(n, size) == High(n, size)[size] = 0
Signed(n, size) == High(2 * n, size)[size] \in {-1, 0}

(* Fault: the bytes of a word are put in the other order.                  *)
PaddedBytesBig(s) ==
  [w \in 1 .. (Len(s) + 3) \div 4 |->
     [i \in 1 .. 4 |-> IF 4 * w + 1 - i \in DOMAIN s THEN s[4 * w + 1 - i] ELSE 0]]

(* write_padded_bytes: whole words, and the rest in one padded with zeros. *)
PaddedBytes(s) ==
  [w \in 1 .. (Len(s) + 3) \div 4 |->
     [i \in 1 .. 4 |-> IF 4 * (w - 1) + i \in DOMAIN s THEN s[4 * (w - 1) + i] ELSE 0]]

(* A number of less than a word is extended to one.                        *)
Width(size) == IF size < 4 THEN 4 ELSE size
Number(size, n) == PaddedBytes(Digits(n, Width(size)))

(* Fault: nothing tells how many elements follow.                          *)
LengthOmitted(n) == <<>>

Length(n) == Number(4, n)

(* A text is its length and its bytes.                                     *)
TextWords(s) == Length(Len(s)) \o PaddedBytes(s)

(* What writing comes to: Ok and the words, or how it fails.               *)
Written(words) == [outcome |-> "Ok", words |-> words]
=============================================================================
