----------------------------- MODULE FlatMemory -----------------------------
(***************************************************************************)
(* What src/vm/memory.rs promises, without its pages and words: a byte per *)
(* address, zero until written; the guest's accesses are reported to the   *)
(* cycle counter by page, the debugger's leave no trace but in the bytes   *)
(* they write.                                                             *)
(***************************************************************************)
EXTENDS Integers, Sequences

CONSTANTS
  GUEST_MIN_MEM, GUEST_MAX_MEM,
  PageBytes,        (* 1024 in the source                                  *)
  StoreData,        (* four bytes to be written, lowest first; the         *)
                    (* debugger writes them over and over                  *)
  GuestAddr,        (* addresses at which the guest accesses memory        *)
  Spans             (* <<start, length>> of the debugger's accesses        *)

VARIABLES
  bytes,            (* address -> byte                                     *)
  phase,            (* "between" two steps, in a "step", "failed"          *)
  cur_step_read, cur_step_write,  (* pages reported in this step           *)
  reply             (* what the last access returned                       *)

memoryVars == <<bytes, phase, cur_step_read, cur_step_write, reply>>

Data(d) == [ok |-> TRUE, data |-> d]
Stored  == Data(<<>>)
Refused == [ok |-> FALSE, data |-> <<>>]

(* Every byte that an access can reach.                                    *)
Addr == 0 .. GUEST_MAX_MEM + PageBytes

Usable(a) == a >= GUEST_MIN_MEM /\ a <= GUEST_MAX_MEM

(* The bytes of an access: a word access goes to the word that holds its   *)
(* address, whatever the address.                                          *)
First(a, size) == IF size = 4 THEN a - (a % 4) ELSE a

Load(a, size) == [i \in 0 .. size - 1 |-> bytes[First(a, size) + i]]

Store(a, size, data) ==
  [b \in Addr |-> IF b - First(a, size) \in 0 .. size - 1
                    THEN data[b - First(a, size)] ELSE bytes[b]]

Aligned(a, size) == size = 2 => a % 2 = 0

Init ==
  /\ bytes = [a \in Addr |-> 0]
  /\ phase = "between"
  /\ cur_step_read = {} /\ cur_step_write = {}
  /\ reply = Stored

(* A step begins with a fetch.                                             *)
Fetch ==
  /\ phase = "between"
  /\ \E a \in GuestAddr :
       /\ Usable(a)
       /\ reply' = Data(Load(a, 4))
       /\ cur_step_read' = cur_step_read \cup {a \div PageBytes}
  /\ phase' = "step"
  /\ UNCHANGED <<bytes, cur_step_write>>

GuestRead ==
  /\ phase = "step"
  /\ \E a \in GuestAddr, size \in {1, 2, 4} :
       /\ Usable(a) /\ Aligned(a, size)
       /\ reply' = Data(Load(a, size))
       /\ cur_step_read' = cur_step_read \cup {a \div PageBytes}
  /\ UNCHANGED <<bytes, phase, cur_step_write>>

GuestWrite ==
  /\ phase = "step"
  /\ \E a \in GuestAddr, size \in {1, 2, 4}, data \in StoreData :
       /\ Usable(a) /\ Aligned(a, size)
       /\ bytes' = Store(a, size, data)
       /\ cur_step_write' = cur_step_write \cup {a \div PageBytes}
  /\ reply' = Stored
  /\ UNCHANGED <<phase, cur_step_read>>

(* An access outside the guest's memory fails and ends the run.            *)
Fail ==
  /\ phase \in {"between", "step"}
  /\ \E a \in GuestAddr : ~Usable(a)
  /\ phase' = "failed"
  /\ reply' = Refused
  /\ UNCHANGED <<bytes, cur_step_read, cur_step_write>>

EndStep ==
  /\ phase = "step"
  /\ phase' = "between"
  /\ cur_step_read' = {} /\ cur_step_write' = {}
  /\ UNCHANGED <<bytes, reply>>

(* The debugger reads what lies below the end of memory.                   *)
Peek ==
  /\ phase = "between"
  /\ \E s \in Spans :
       reply' = IF s[1] < GUEST_MIN_MEM \/ s[1] >= GUEST_MAX_MEM THEN Refused
                ELSE Data([i \in {j \in 0 .. s[2] - 1 : s[1] + j < GUEST_MAX_MEM}
                             |-> bytes[s[1] + i]])
  /\ UNCHANGED <<bytes, phase, cur_step_read, cur_step_write>>

(* It writes up to the first address that is refused.                      *)
Poke ==
  /\ phase = "between"
  /\ \E s \in Spans, data \in StoreData :
       /\ bytes' = [b \in Addr |->
                      IF /\ b \in s[1] .. s[1] + s[2] - 1
                         /\ \A c \in s[1] .. b : Usable(c)
                        THEN data[(b - s[1]) % 4] ELSE bytes[b]]
       /\ reply' = IF \A c \in s[1] .. s[1] + s[2] - 1 : Usable(c)
                     THEN Stored ELSE Refused
  /\ UNCHANGED <<phase, cur_step_read, cur_step_write>>

Next == Fetch \/ GuestRead \/ GuestWrite \/ Fail \/ EndStep \/ Peek \/ Poke

Spec == Init /\ [][Next]_memoryVars
=============================================================================
