------------------------------- MODULE Ecalls -------------------------------
(***************************************************************************)
(* Simulator::ecall of src/vm/simulator.rs: the requests of Syscalls, and  *)
(* the ecalls SHA and BIGINT.  A word is its four bytes, lowest first;     *)
(* to_be and from_be reverse them.  The compression function,              *)
(* sha2::compress256, is a parameter, and so is the size of a hash and of  *)
(* a number: W words, 8 in the source.                                     *)
(***************************************************************************)
EXTENDS Syscalls

CONSTANTS
  W,
  Compress(_, _),          (* state of W words, block of 8 * W bytes       *)
  ShaCalls, BigintCalls    (* the guest's ecalls, records of registers     *)

ASSUME EcallAssumption ==
  /\ W \in Nat \ {0}
  /\ ShaCalls \subseteq [out : Nat, in : Nat, block1 : Nat, block2 : Nat, count : Nat]
  /\ BigintCalls \subseteq [z : Nat, op : Nat, x : Nat, y : Nat, n : Nat]

machine == <<bytes, syscallVars>>

(* An ecall of this module goes on, having taken extra cycles, or ends the *)
(* run with an error or the debugger's process.                            *)
GoesOn(extra) ==
  /\ status' = "running"
  /\ \E n \in StepCycles : cycle' = cycle + n + extra

EndsAs(s) == status' = s /\ UNCHANGED cycle

RestUnchanged == UNCHANGED <<guest, a0, a1, exit_code, position, ends, seen>>

-----------------------------------------------------------------------------
(* SHA.                                                                    *)

StateLen == 4 * W
BlockLen == 8 * W

ToBe(word) == [i \in 1 .. 4 |-> word[5 - i]]

LoadState(mem, addr) ==
  [w \in 1 .. W |-> ToBe(Bytes(mem, addr + 4 * (w - 1), 4))]

(* Fault: the words are stored in the order of the machine.                *)
StateBytesNative(state) ==
  [i \in 1 .. StateLen |-> state[(i - 1) \div 4 + 1][((i - 1) % 4) + 1]]

StateBytes(state) ==
  [i \in 1 .. StateLen |-> ToBe(state[(i - 1) \div 4 + 1])[((i - 1) % 4) + 1]]

(* Fault: only the first pointer moves on.                                 *)
WordPtrOneMoves(c, round, w) ==
  IF w < W THEN c.block1 + BlockLen * round + 4 * w ELSE c.block2 + 4 * (w - W)

(* Where word w of a block is read: its halves have pointers of their own. *)
WordPtr(c, round, w) ==
  BlockLen * round + IF w < W THEN c.block1 + 4 * w ELSE c.block2 + 4 * (w - W)

Block(mem, c, round) ==
  [i \in 1 .. BlockLen |->
     WordAt(mem, WordPtr(c, round, (i - 1) \div 4))[((i - 1) % 4) + 1]]

StateAfter(mem, c, count) ==
  LET state[n \in 0 .. count] ==
        IF n = 0 THEN LoadState(mem, c.in)
        ELSE Compress(state[n - 1], Block(mem, c, n - 1))
  IN  state[count]

ShaReads(c) == /\ Readable(c.in, StateLen)
               /\ \A round \in 0 .. c.count - 1, w \in 0 .. 2 * W - 1 :
                    InBounds(WordPtr(c, round, w))

(* Memory after the call, as far as it is written.                         *)
ShaStore(mem, c) == WriteBytes(mem, c.out, StateBytes(StateAfter(mem, c, c.count)))

EcallSha(c) ==
  /\ Ecall
  /\ IF ShaReads(c) THEN bytes' = ShaStore(bytes, c) ELSE UNCHANGED bytes
  /\ IF ShaReads(c) /\ Readable(c.out, StateLen) THEN GoesOn(73 * c.count)
                                                ELSE EndsAs("Err")
  /\ RestUnchanged

-----------------------------------------------------------------------------
(* BIGINT.                                                                 *)

(* What byte i of a number counts.                                         *)
Weight[i \in 0 .. 4 * W] == IF i = 0 THEN 1 ELSE ByteBase * Weight[i - 1]

BigLimit == Weight[4 * W]

BigDigit(mem, addr, i) == WordAt(mem, addr + 4 * (i \div 4))[(i % 4) + 1]

(* The number in the words at an address, lowest first.                    *)
Big(mem, addr) ==
  LET high[n \in 0 .. 4 * W] ==
        IF n = 0 THEN 0
        ELSE BigDigit(mem, addr, 4 * W - n) + ByteBase * high[n - 1]
  IN  high[4 * W]

BigReadable(addr) == \A w \in 0 .. W - 1 : InBounds(addr + 4 * w)

Product(mem, c) == LET wide == Big(mem, c.x) * Big(mem, c.y)
                   IN  IF Big(mem, c.n) = 0 THEN wide ELSE wide % Big(mem, c.n)

(* Fault: the word is not cut to its byte.                                 *)
LowByteWide(z, w) == z \div Weight[4 * w]

LowByte(z, w) == (z \div Weight[4 * w]) % ByteBase

(* Each word is written with the size of a byte.                           *)
StoreBig(mem, addr, z) ==
  [a \in DOMAIN mem |->
     IF \E w \in 0 .. W - 1 : /\ a = addr + 4 * w
                              /\ \A v \in 0 .. w : InBounds(addr + 4 * v)
       THEN LowByte(z, (a - addr) \div 4) ELSE mem[a]]

EcallBigint(c) ==
  /\ Ecall
  /\ LET readable == c.op = 0 /\ \A p \in {c.x, c.y, c.n} : BigReadable(p)
         overflow == Product(bytes, c) >= BigLimit
     IN  \/ ~readable /\ EndsAs("Err") /\ UNCHANGED bytes
         \/ readable /\ overflow /\ EndsAs("panicked") /\ UNCHANGED bytes
         \/ /\ readable /\ ~overflow
            /\ bytes' = StoreBig(bytes, c.z, Product(bytes, c))
            /\ IF BigReadable(c.z) THEN GoesOn(9) ELSE EndsAs("Err")
  /\ RestUnchanged

EcallStep == \/ SyscallStep
             \/ \E c \in ShaCalls : EcallSha(c)
             \/ \E c \in BigintCalls : EcallBigint(c)

-----------------------------------------------------------------------------
(* Properties.                                                             *)

Contiguous(c) == c.block2 = c.block1 + StateLen

(* A message that lies in one piece is hashed byte by byte in its order,   *)
(* although it is read as words through two pointers.  It begins with the  *)
(* word that holds its address: at an address that is not aligned, up to   *)
(* three bytes before it are hashed and as many of its last are not.       *)
ShaHashesMessage ==
  \A c \in ShaCalls : ShaReads(c) /\ Contiguous(c) =>
    \A round \in 0 .. c.count - 1 :
      Block(bytes, c, round)
        = Bytes(bytes, c.block1 - (c.block1 % 4) + BlockLen * round, BlockLen)

Apart(start, len, from, size) == start + len <= from \/ from + size <= start

(* A message can be hashed in pieces: a call that continues from the state *)
(* that an earlier call has stored ends with the state of a single call.   *)
ShaChains ==
  \A c \in ShaCalls :
    LET first  == [c EXCEPT !.count = 1]
        second == [c EXCEPT !.in = c.out, !.block1 = @ + BlockLen,
                            !.block2 = @ + BlockLen, !.count = c.count - 1]
    IN  /\ c.count > 1 /\ ShaReads(c) /\ Readable(c.out, StateLen)
        /\ \A p \in {c.block1, c.block2} :
             Apart(c.out, StateLen, p - (p % 4), BlockLen * c.count)
        => ShaStore(ShaStore(bytes, first), second) = ShaStore(bytes, c)

(* Not so.  simulator.rs has "Compute modular multiplication, or simply    *)
(* multiplication if n == 0" before, and "Store result" above, a loop that *)
(* stores one byte of each word.                                           *)
BigintStoresProduct ==
  [][\A c \in BigintCalls :
       EcallBigint(c) /\ status' = "running"
       => Big(bytes', c.z) = Product(bytes, c)]_machine
=============================================================================
