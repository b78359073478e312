----------------------------- MODULE GuestMemory -----------------------------
(***************************************************************************)
(* Memory of src/vm/memory.rs: pages of words in a map, allocated by the   *)
(* first access, with watchpoints and the report of the pages touched; and *)
(* its users, which are one instruction's step (fetch, then accesses) and, *)
(* between steps, the debugger's read_addrs and write_addrs of             *)
(* src/debug/readwrite.rs.                                                 *)
(*                                                                         *)
(* A word is its four bytes, lowest first: masks and shifts by whole bytes *)
(* select and replace some of them.  rrs_lib refuses a misaligned halfword *)
(* and word; the ecalls in simulator.rs pass words at any address.         *)
(***************************************************************************)
EXTENDS Watchpoints

CONSTANTS
  GUEST_MIN_MEM, GUEST_MAX_MEM,
  WordsPerPage,      (* 256                                                *)
  Value,             (* values of a byte                                   *)
  StoreData,         (* words to be written; a debugger's packet is such a *)
                     (* word, repeated                                     *)
  GuestAddr,         (* addresses of the guest's accesses                  *)
  Spans,             (* <<start, length>> of the debugger's                *)
  WatchArea,         (* watchpoints that GDB sets                          *)
  MaxAccesses        (* bound of the model on the accesses of a step       *)

PageBytes == 4 * WordsPerPage

ASSUME MemoryAssumption ==
  /\ WordsPerPage \in Nat \ {0}
  /\ GUEST_MIN_MEM \in Nat /\ GUEST_MAX_MEM \in Nat
  /\ AddressSpace \in Nat
  /\ GUEST_MIN_MEM % PageBytes = 0 /\ GUEST_MAX_MEM % PageBytes = 0
  /\ 0 \in Value /\ StoreData \subseteq [0 .. 3 -> Value]
  /\ GuestAddr \subseteq Nat /\ Spans \subseteq Nat \X Nat
  /\ WatchArea \subseteq WatchEntry
  /\ MaxAccesses \in Nat

VARIABLES
  map,               (* page index -> words, each a function of 0 .. 3     *)
  hw_watchpoints, watch_trigger,
  cur_step_read, cur_step_write,   (* what session_cycle_callback collects *)
  phase,             (* "between" two steps, in a "step", or "failed"      *)
  reply,             (* result of the last access                          *)
  accesses           (* history: the guest's accesses since the trigger    *)
                     (* was cleared                                        *)

watch == <<hw_watchpoints, watch_trigger, accesses>>
vars  == <<map, watch, cur_step_read, cur_step_write, phase, reply>>

Stored  == [ok |-> TRUE, data |-> <<>>]
Refused == [ok |-> FALSE, data |-> <<>>]

Init ==
  /\ map = <<>>
  /\ hw_watchpoints = <<>> /\ watch_trigger = NoTrigger /\ accesses = <<>>
  /\ cur_step_read = {} /\ cur_step_write = {}
  /\ phase = "between" /\ reply = Stored

-----------------------------------------------------------------------------
(* Parts of read_mem_with_privileges and write_mem_with_privileges.        *)

(* Fault: the page at address zero is not refused.                         *)
InBoundsNoMinimum(addr) == addr <= GUEST_MAX_MEM

InBounds(addr) == addr >= GUEST_MIN_MEM /\ addr <= GUEST_MAX_MEM

PageIdx(addr) == addr \div PageBytes
Offset(addr)  == addr % PageBytes

ZeroPage == [w \in 0 .. WordsPerPage - 1 |-> [lane \in 0 .. 3 |-> 0]]

(* The map with some pages present, the new ones filled with zeros.        *)
WithPages(pages) ==
  [p \in DOMAIN map \cup pages |-> IF p \in DOMAIN map THEN map[p] ELSE ZeroPage]

(* Fault: the upper halfword is never selected.                            *)
LaneLow(addr, size) == IF size = 1 THEN Offset(addr) % 4 ELSE 0

(* The lowest byte of the word at page_offset / 4 that an access selects.  *)
Lane(addr, size) ==
  IF size = 1 THEN Offset(addr) % 4
  ELSE IF size = 2 /\ Offset(addr) % 4 = 2 THEN 2 ELSE 0

ReadWord(pages, addr, size) ==
  [i \in 0 .. size - 1 |->
     pages[PageIdx(addr)][Offset(addr) \div 4][Lane(addr, size) + i]]

WriteWord(pages, addr, size, store_data) ==
  [pages EXCEPT ![PageIdx(addr)][Offset(addr) \div 4] =
     [lane \in 0 .. 3 |-> IF lane - Lane(addr, size) \in 0 .. size - 1
                            THEN store_data[lane - Lane(addr, size)] ELSE @[lane]]]

(* An unprivileged access is checked against the watchpoints.              *)
Check(addr, size, write) ==
  LET access == [addr |-> addr, len |-> size, write |-> write]
  IN  /\ watch_trigger' = CheckWatchpoints(watch_trigger, hw_watchpoints, access)
      /\ accesses' = Append(accesses, access)
      /\ UNCHANGED hw_watchpoints

-----------------------------------------------------------------------------
(* A step of the guest.                                                    *)

(* The fetch of Simulator::step; what it triggered is cleared after it.    *)
Fetch(pc) ==
  /\ phase = "between"
  /\ InBounds(pc)
  /\ map' = WithPages({PageIdx(pc)})
  /\ cur_step_read' = cur_step_read \cup {PageIdx(pc)}
  /\ reply' = [ok |-> TRUE, data |-> ReadWord(map', pc, 4)]
  /\ watch_trigger' = NoTrigger /\ accesses' = <<>>
  /\ phase' = "step"
  /\ UNCHANGED <<hw_watchpoints, cur_step_write>>

(* rrs_lib refuses a misaligned halfword before it gets here.              *)
Aligned(addr, size) == size = 2 => addr % 2 = 0

ReadMem(addr, size) ==
  /\ phase = "step"
  /\ Len(accesses) < MaxAccesses
  /\ Aligned(addr, size)
  /\ InBounds(addr)
  /\ map' = WithPages({PageIdx(addr)})
  /\ cur_step_read' = cur_step_read \cup {PageIdx(addr)}
  /\ Check(addr, size, FALSE)
  /\ reply' = [ok |-> TRUE, data |-> ReadWord(map', addr, size)]
  /\ UNCHANGED <<cur_step_write, phase>>

WriteMem(addr, size, store_data) ==
  /\ phase = "step"
  /\ Len(accesses) < MaxAccesses
  /\ Aligned(addr, size)
  /\ InBounds(addr)
  /\ map' = WriteWord(WithPages({PageIdx(addr)}), addr, size, store_data)
  /\ cur_step_write' = cur_step_write \cup {PageIdx(addr)}
  /\ Check(addr, size, TRUE)
  /\ reply' = Stored
  /\ UNCHANGED <<cur_step_read, phase>>

(* None and false become errors of Simulator::step.                        *)
FailedAccess(addr) ==
  /\ phase \in {"between", "step"}
  /\ ~InBounds(addr)
  /\ phase' = "failed"
  /\ reply' = Refused
  /\ UNCHANGED <<map, watch, cur_step_read, cur_step_write>>

(* callback_step has charged the pages.                                    *)
EndStep ==
  /\ phase = "step"
  /\ phase' = "between"
  /\ cur_step_read' = {} /\ cur_step_write' = {}
  /\ UNCHANGED <<map, watch, reply>>

-----------------------------------------------------------------------------
(* The debugger, with privileges, between two steps.                       *)

ReadAddrs(start_addr, len) ==
  LET end_addr == IF start_addr + len < GUEST_MAX_MEM THEN start_addr + len
                                                      ELSE GUEST_MAX_MEM
      read == start_addr .. end_addr - 1
  IN  /\ phase = "between"
      /\ IF start_addr \in GUEST_MIN_MEM .. GUEST_MAX_MEM - 1
           THEN /\ map' = WithPages({PageIdx(a) : a \in read})
                /\ reply' = [ok |-> TRUE,
                             data |-> [i \in 0 .. end_addr - start_addr - 1 |->
                                         ReadWord(map', start_addr + i, 1)[0]]]
           ELSE reply' = Refused /\ UNCHANGED map
      /\ UNCHANGED <<watch, cur_step_read, cur_step_write, phase>>

WriteAddrs(start_addr, len, data) ==
  LET span == start_addr .. start_addr + len - 1
      (* the loop ends at the first address that is refused                *)
      written == {a \in span : \A b \in start_addr .. a : InBounds(b)}
      pages == WithPages({PageIdx(a) : a \in written})
      address(p, w, lane) == p * PageBytes + 4 * w + lane
  IN  /\ phase = "between"
      /\ map' = [p \in DOMAIN pages |->
                   [w \in 0 .. WordsPerPage - 1 |-> [lane \in 0 .. 3 |->
                      IF address(p, w, lane) \in written
                        THEN data[(address(p, w, lane) - start_addr) % 4]
                        ELSE pages[p][w][lane]]]]
      /\ reply' = IF written = span THEN Stored ELSE Refused
      /\ UNCHANGED <<watch, cur_step_read, cur_step_write, phase>>

AddHwWatchpoint(entry) ==
  /\ phase = "between"
  /\ ~Contains(hw_watchpoints, entry)
  /\ hw_watchpoints' = Append(hw_watchpoints, entry)
  /\ accesses' = <<>>
  /\ UNCHANGED <<map, watch_trigger, cur_step_read, cur_step_write, phase, reply>>

RemoveHwWatchpoint(entry) ==
  /\ phase = "between"
  /\ Contains(hw_watchpoints, entry)
  /\ hw_watchpoints' = RemoveFirst(hw_watchpoints, entry)
  /\ accesses' = <<>>
  /\ UNCHANGED <<map, watch_trigger, cur_step_read, cur_step_write, phase, reply>>

GuestStep ==
  \/ \E a \in GuestAddr : Fetch(a) \/ FailedAccess(a)
  \/ \E a \in GuestAddr, size \in {1, 2, 4} :
       \/ ReadMem(a, size)
       \/ \E store_data \in StoreData : WriteMem(a, size, store_data)
  \/ EndStep

DebuggerStep ==
  \/ \E s \in Spans : \/ ReadAddrs(s[1], s[2])
                      \/ \E data \in StoreData : WriteAddrs(s[1], s[2], data)
  \/ \E entry \in WatchArea : AddHwWatchpoint(entry) \/ RemoveHwWatchpoint(entry)

Next == GuestStep \/ DebuggerStep

Spec == Init /\ [][Next]_vars

-----------------------------------------------------------------------------
Word == [0 .. 3 -> Value]

TypeOK ==
  /\ DOMAIN map \subseteq PageIdx(GUEST_MIN_MEM) .. PageIdx(GUEST_MAX_MEM)
  /\ \A p \in DOMAIN map : map[p] \in [0 .. WordsPerPage - 1 -> Word]
  /\ hw_watchpoints \in Seq(WatchArea)
  /\ watch_trigger \in {NoTrigger} \cup [kind : WatchKind, addr : GuestAddr]
  /\ cur_step_read \subseteq DOMAIN map /\ cur_step_write \subseteq DOMAIN map
  /\ phase \in {"between", "step", "failed"}

(* The trigger that a step reports is that of its first access noticed by  *)
(* a watchpoint, whatever trigger an earlier step, or this one's fetch,    *)
(* had left: what DebugSession takes for granted.                          *)
TriggerIsFirst ==
  phase = "step" => watch_trigger = WatchTrigger(hw_watchpoints, accesses)

(* Pages of words that appear when touched are a flat array of bytes, for  *)
(* every mix of access sizes, page crossings and debugger accesses, and    *)
(* the debugger's accesses are not charged to the guest.                   *)
Flat == INSTANCE FlatMemory WITH
  bytes <- [a \in 0 .. GUEST_MAX_MEM + PageBytes |->
              IF PageIdx(a) \in DOMAIN map
                THEN map[PageIdx(a)][Offset(a) \div 4][Offset(a) % 4] ELSE 0]

ImplementsFlatMemory == Flat!Spec

(* Not so.  src/vm/loader.rs refuses an address from GUEST_MAX_MEM on,     *)
(* which "exceeds maximum address for guest programs"; memory.rs lets a    *)
(* guest, and the debugger, use the page at GUEST_MAX_MEM.                 *)
BelowMaximum == \A p \in DOMAIN map : p * PageBytes < GUEST_MAX_MEM
=============================================================================
