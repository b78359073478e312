----------------------------- MODULE CycleMeter -----------------------------
(***************************************************************************)
(* What the cycle counter of src/vm/session_cycle.rs promises, without the *)
(* page walk: an instruction is charged its own cycles plus the price of   *)
(* every page of its accesses' closure that the segment has not loaded (or *)
(* not yet marked dirty); when that does not fit into the segment, the     *)
(* segment is sealed and the instruction is priced again in an empty one.  *)
(* The result does not depend on the order in which pages are walked.      *)
(***************************************************************************)
EXTENDS Integers

CONSTANTS
  UserPage,              (* pages the guest accesses                       *)
  StepCycles,            (* values of opcode_cycle + extra_cycle           *)
  FixedCycle,            (* cycles every segment costs                     *)
  SegmentLimit,          (* cycles a segment can hold                      *)
  Closure(_),            (* the pages to load for a set of accesses        *)
  Cost(_)                (* the price of loading, or storing, some pages   *)

VARIABLES
  num_segment,           (* segments sealed so far                         *)
  cur_segment_cycle,     (* cycles charged to the current segment          *)
  cur_segment_resident,  (* pages loaded in the current segment            *)
  cur_segment_dirty,     (* pages to be stored when the segment ends       *)
  cur_step_read,         (* pages read by the instruction under way        *)
  cur_step_write,        (* pages written by the instruction under way     *)
  pending                (* cycles of the executed, not yet charged        *)
                         (* instruction, or NoStep                         *)

meterVars == <<num_segment, cur_segment_cycle, cur_segment_resident,
               cur_segment_dirty, cur_step_read, cur_step_write, pending>>

NoStep == -1

Init ==
  /\ num_segment = 0
  /\ cur_segment_cycle = 0
  /\ cur_segment_resident = {}
  /\ cur_segment_dirty = {}
  /\ cur_step_read = {}
  /\ cur_step_write = {}
  /\ pending = NoStep

(* The pages the pending instruction makes the segment load and store.     *)
MissingResident == Closure(cur_step_read) \ cur_segment_resident
MissingDirty    == Closure(cur_step_write) \ cur_segment_dirty

StepTotal == pending + Cost(MissingResident) + Cost(MissingDirty)

Fits == FixedCycle + cur_segment_cycle + StepTotal <= SegmentLimit

(* The instruction under way accesses a page.                              *)
Touch ==
  /\ pending = NoStep
  /\ \E p \in UserPage :
       \/ cur_step_read' = cur_step_read \cup {p} /\ UNCHANGED cur_step_write
       \/ cur_step_write' = cur_step_write \cup {p} /\ UNCHANGED cur_step_read
  /\ UNCHANGED <<num_segment, cur_segment_cycle, cur_segment_resident,
                 cur_segment_dirty, pending>>

(* The instruction is done and has to be paid for.                         *)
Finish ==
  /\ pending = NoStep
  /\ pending' \in StepCycles
  /\ UNCHANGED <<num_segment, cur_segment_cycle, cur_segment_resident,
                 cur_segment_dirty, cur_step_read, cur_step_write>>

(* The pending instruction does not fit: a new segment begins, empty.      *)
Seal ==
  /\ pending # NoStep
  /\ ~Fits
  /\ num_segment' = num_segment + 1
  /\ cur_segment_cycle' = 0
  /\ cur_segment_resident' = {}
  /\ cur_segment_dirty' = {}
  /\ UNCHANGED <<cur_step_read, cur_step_write, pending>>

(* The pending instruction fits: it is paid in full.                       *)
Charge ==
  /\ pending # NoStep
  /\ Fits
  /\ cur_segment_cycle' = cur_segment_cycle + StepTotal
  /\ cur_segment_resident' = cur_segment_resident \cup Closure(cur_step_read)
  /\ cur_segment_dirty' = cur_segment_dirty \cup Closure(cur_step_write)
  /\ cur_step_read' = {}
  /\ cur_step_write' = {}
  /\ pending' = NoStep
  /\ UNCHANGED num_segment

Next == Touch \/ Finish \/ Seal \/ Charge

Spec == Init /\ [][Next]_meterVars
=============================================================================
