----------------------------- MODULE Watchpoints -----------------------------
(***************************************************************************)
(* Hardware watchpoints: Memory::check_watchpoints of src/vm/memory.rs and *)
(* the order in which Simulator::step of src/vm/simulator.rs lets it see   *)
(* an instruction's accesses.                                              *)
(*                                                                         *)
(* A watchpoint is [addr, len, kind] with the kinds of gdbstub's           *)
(* WatchKind; an access is [addr, len, write].                             *)
(***************************************************************************)
EXTENDS Integers, SequencesExt

CONSTANT AddressSpace    (* 2^32 *)

WatchKind == {"Read", "Write", "ReadWrite"}

WatchEntry == [addr : 0 .. AddressSpace - 1, len : 0 .. AddressSpace - 1,
               kind : WatchKind]

NoTrigger == [kind |-> "none", addr |-> 0]

Listens(entry, access) ==
  entry.kind # (IF access.write THEN "Read" ELSE "Write")

(* Fault: only the first byte of an access counts.                         *)
MeetsFirstByte(entry, access) ==
  /\ access.addr >= entry.addr
  /\ access.addr < (entry.addr + entry.len) % AddressSpace

(* The two tests of check_watchpoints; the end of the watch is a wrapping  *)
(* u32, and the end of the access is exclusive in both.                    *)
Meets(entry, access) ==
  \/ /\ access.addr < entry.addr
     /\ access.addr + access.len >= entry.addr
  \/ /\ access.addr >= entry.addr
     /\ access.addr < (entry.addr + entry.len) % AddressSpace

(* Fault: a later access replaces the trigger.                             *)
CheckWatchpointsAgain(trigger, watchpoints, access) ==
  LET noticed == {w \in DOMAIN watchpoints : /\ Listens(watchpoints[w], access)
                                             /\ Meets(watchpoints[w], access)}
      first == CHOOSE w \in noticed : \A v \in noticed : w <= v
  IN  IF noticed = {} THEN trigger
      ELSE [kind |-> watchpoints[first].kind, addr |-> access.addr]

(* check_watchpoints: a trigger that is set stays; otherwise the first     *)
(* watchpoint that notices the access sets it.                             *)
CheckWatchpoints(trigger, watchpoints, access) ==
  LET noticed == {w \in DOMAIN watchpoints : /\ Listens(watchpoints[w], access)
                                             /\ Meets(watchpoints[w], access)}
      first == CHOOSE w \in noticed : \A v \in noticed : w <= v
  IN  IF trigger # NoTrigger \/ noticed = {} THEN trigger
      ELSE [kind |-> watchpoints[first].kind, addr |-> access.addr]

(* What checking one access after the other leaves in watch_trigger, from  *)
(* nothing: the first access that a watchpoint notices, and the first      *)
(* watchpoint noticing it.  GuestMemory checks that this is so.            *)
WatchTrigger(watchpoints, accesses) ==
  LET noticed == {n \in (DOMAIN accesses) \X (DOMAIN watchpoints) :
                    /\ Listens(watchpoints[n[2]], accesses[n[1]])
                    /\ Meets(watchpoints[n[2]], accesses[n[1]])}
      first == CHOOSE f \in noticed :
                 \A n \in noticed : \/ f[1] < n[1]
                                    \/ f[1] = n[1] /\ f[2] <= n[2]
  IN  IF noticed = {} THEN NoTrigger
      ELSE [kind |-> watchpoints[first[2]].kind, addr |-> accesses[first[1]].addr]

(* The bytes of the access and of the watched area meet.                   *)
Overlaps(entry, access) ==
  /\ access.addr < entry.addr + entry.len
  /\ entry.addr < access.addr + access.len
  /\ access.len > 0 /\ entry.len > 0
=============================================================================
