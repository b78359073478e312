------------------------------ MODULE MCEcalls ------------------------------
(* A guest that is already loaded and makes ecalls; two words make a hash  *)
(* or a number, and a byte has three values.                               *)
EXTENDS Ecalls, TLC

CONSTANTS MCGuests   (* a set of SOFTWARE ecalls for each guest            *)

Pattern(k) == [a \in Addr |-> (a * a + (a \div 5) * k + k) % ByteBase]
ZeroModulus(k) == [a \in Addr |-> IF a \in 20 .. 27 THEN 0 ELSE Pattern(k)[a]]
MCImages == {Pattern(k) : k \in 0 .. 2} \cup {ZeroModulus(1)}

(* It mixes all of the state with all of the block.                        *)
MCCompress(state, block) ==
  [w \in 1 .. W |-> [i \in 1 .. 4 |->
     (i * state[w][i] + state[(w % W) + 1][5 - i] + block[4 * (w - 1) + i]
        + 2 * block[BlockLen + 1 - 4 * (w - 1) - i]) % ByteBase]]

SoftwareCall(name, ptr, words, r3, r4) ==
  [name |-> name, ptr |-> ptr, words |-> words, a3 |-> r3, a4 |-> r4, a5 |-> 0]

FetchCalls ==
  {SoftwareCall("SYS_GETENV", 8, n, a, 1) : n \in 0 .. 2, a \in 4 .. 6}
    \cup {SoftwareCall("SYS_ARGS", 8, n, i, 0) : n \in 0 .. 1, i \in 0 .. 2}
CountingCalls ==
  {SoftwareCall("SYS_CYCLE_COUNT", 0, n, 0, 0) : n \in {0, 5}}
    \cup {SoftwareCall("SYS_ARGC", 0, 0, 0, 0),
          SoftwareCall("SYS_VERIFY", 0, 0, 0, 0),
          SoftwareCall("SYS_PANIC", 0, 0, 4, 1)}
OtherCalls ==
  {SoftwareCall("SYS_RANDOM", 12, 1, 0, 0),
   SoftwareCall("SYS_VERIFY_INTEGRITY", 8, 1, 0, 0),
   SoftwareCall("other", 8, 1, 0, 0),
   SoftwareCall("unreadable", 0, 0, 0, 0)}
MCAllGuests == {FetchCalls, CountingCalls, OtherCalls, {}}
Computing == {{}}

MCEnv == (<<1>> :> <<1, 0, 1, 1, 0>>) @@ (<<0>> :> <<>>)
MCArgs == <<<<0, 1>>, <<1, 1, 0, 1>>>>

Sha(out, in, block1, block2, count) ==
  [out |-> out, in |-> in, block1 |-> block1, block2 |-> block2, count |-> count]
MCShaCalls ==
  {Sha(12, 4, 20, 28, 0), Sha(12, 4, 20, 28, 2), Sha(4, 4, 20, 28, 1),
   Sha(12, 4, 28, 20, 2), Sha(12, 4, 21, 30, 1), Sha(12, 4, 21, 29, 2), Sha(44, 12, 24, 32, 1),
   Sha(50, 4, 20, 28, 1), Sha(12, 4, 36, 44, 2), Sha(12, 0, 20, 28, 1)}

Bigint(z, op, n) == [z |-> z, op |-> op, x |-> 4, y |-> 12, n |-> n]
MCBigintCalls ==
  {Bigint(z, 0, n) : z \in {4, 20, 50}, n \in {20, 28}}
    \cup {Bigint(20, 1, 28), Bigint(20, 0, 52)}
None == {}

MCInit == SyscallInit /\ bytes \in MCImages /\ guest \in MCGuests

(* A guest makes SOFTWARE ecalls, or it computes.                          *)
MCNext == Start(<<>>) \/ SyscallStep \/ (guest = {} /\ EcallStep)

MCSpec == MCInit /\ [][MCNext]_machine
=============================================================================
