----------------------------- MODULE ByteMemory -----------------------------
(***************************************************************************)
(* What the ecalls, the syscalls and the loader use of src/vm/memory.rs:   *)
(* bytes and words of the flat memory that GuestMemory implements.  A      *)
(* memory is a function of Addr; watchpoints and the cycle callback are    *)
(* left to GuestMemory.                                                    *)
(***************************************************************************)
EXTENDS Integers, Sequences

CONSTANTS
  GUEST_MIN_MEM, GUEST_MAX_MEM,
  ByteBase      (* a byte is below it, 256                                 *)

ASSUME BoundsAssumption ==
  /\ GUEST_MIN_MEM \in Nat /\ GUEST_MAX_MEM \in Nat
  /\ GUEST_MIN_MEM % 4 = 0 /\ GUEST_MAX_MEM % 4 = 0
  /\ ByteBase \in Nat \ {0, 1}

VARIABLE bytes      (* the memory                                          *)

Byte == 0 .. ByteBase - 1
Word == [1 .. 4 -> Byte]

(* The last word begins at GUEST_MAX_MEM, which is in bounds.              *)
Addr == 0 .. GUEST_MAX_MEM + 3

InBounds(addr) == addr >= GUEST_MIN_MEM /\ addr <= GUEST_MAX_MEM

(* Reading a range byte by byte succeeds if every address is in bounds.    *)
Readable(start, len) == \A a \in start .. start + len - 1 : InBounds(a)

Bytes(mem, start, len) == [i \in 1 .. len |-> mem[start + i - 1]]

(* A word is read at the word that holds the address.                      *)
WordAt(mem, addr) == Bytes(mem, addr - (addr % 4), 4)

(* Writing a range byte by byte ends at the first address out of bounds.   *)
WriteBytes(mem, start, data) ==
  [a \in DOMAIN mem |->
     IF a - start + 1 \in DOMAIN data /\ Readable(start, a - start + 1)
       THEN data[a - start + 1] ELSE mem[a]]
=============================================================================
