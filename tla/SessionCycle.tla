---------------------------- MODULE SessionCycle ----------------------------
(***************************************************************************)
(* SessionCycleCount of src/vm/session_cycle.rs.                           *)
(*                                                                         *)
(* While an instruction executes, Memory reports the pages it touches.     *)
(* Then callback_step prices it: it walks from every page read, then from  *)
(* every page written, up the page tree, and adds the price to the current *)
(* segment.  If the segment cannot hold it, the segment is sealed and the  *)
(* loop prices the same instruction again, now with nothing loaded.        *)
(* HashSets are iterated in an arbitrary order, here a choice.             *)
(***************************************************************************)
EXTENDS Pricing

CONSTANT MaxSegment  (* bound of the model on num_segment                  *)

ASSUME MaxSegmentAssumption == MaxSegment \in Nat

VARIABLES
  num_segment, cur_segment_cycle, cur_segment_resident, cur_segment_dirty,
  cur_step_read, cur_step_write,
  phase,                 (* where callback_step is: "exec" before the call *)
  step_cycle,            (* its argument opcode_cycle + extra_cycle        *)
  todo,                  (* pages the current for loop has yet to take     *)
  cur_page_idx,          (* where the walk is, or NoPage between two walks *)
  new_segment_resident, new_segment_dirty,
  page_cycle,            (* cur_step_page_read_cycle + ..._write_cycle     *)
  op_spent               (* history: step cycles charged to the segment    *)

segment == <<num_segment, cur_segment_cycle, cur_segment_resident,
             cur_segment_dirty, op_spent>>
touched == <<cur_step_read, cur_step_write>>
walk    == <<todo, cur_page_idx, new_segment_resident, new_segment_dirty,
             page_cycle>>
vars    == <<segment, touched, phase, step_cycle, walk>>

NoStep == -1
NoPage == -1

Init ==
  /\ num_segment = 0 /\ cur_segment_cycle = 0 /\ op_spent = 0
  /\ cur_segment_resident = {} /\ cur_segment_dirty = {}
  /\ cur_step_read = {} /\ cur_step_write = {}
  /\ phase = "exec" /\ step_cycle = NoStep
  /\ todo = {} /\ cur_page_idx = NoPage
  /\ new_segment_resident = {} /\ new_segment_dirty = {} /\ page_cycle = 0

CallbackReadMem(p) ==
  /\ phase = "exec"
  /\ cur_step_read' = cur_step_read \cup {p}
  /\ UNCHANGED <<segment, cur_step_write, phase, step_cycle, walk>>

CallbackWriteMem(p) ==
  /\ phase = "exec"
  /\ cur_step_write' = cur_step_write \cup {p}
  /\ UNCHANGED <<segment, cur_step_read, phase, step_cycle, walk>>

(* One round of the loop starts with empty vectors and zero counts.        *)
StartRound ==
  /\ phase' = "read"
  /\ todo' = cur_step_read
  /\ cur_page_idx' = NoPage
  /\ new_segment_resident' = {}
  /\ new_segment_dirty' = {}
  /\ page_cycle' = 0

(* Simulator::step calls callback_step once the instruction is done; its   *)
(* fetch has read a page by then.                                          *)
CallbackStep(c) ==
  /\ phase = "exec"
  /\ cur_step_read # {}
  /\ num_segment < MaxSegment
  /\ step_cycle' = c
  /\ StartRound
  /\ UNCHANGED <<segment, touched>>

(* The for loop takes the next page.                                       *)
TakePage ==
  /\ phase \in {"read", "write"}
  /\ cur_page_idx = NoPage
  /\ \E p \in todo : cur_page_idx' = p /\ todo' = todo \ {p}
  /\ UNCHANGED <<segment, touched, phase, step_cycle, new_segment_resident,
                 new_segment_dirty, page_cycle>>

(* The pages at which the walk stops: loaded, or about to be.              *)
Seen == IF phase = "read" THEN cur_segment_resident \cup new_segment_resident
                          ELSE cur_segment_dirty \cup new_segment_dirty

(* Faults for the mutation runs: the walk takes one page only; the address *)
(* of the parent's hash is not shifted down to a page index.               *)
NextPageIdxOneLevel  == NoPage
NextPageIdxUnshifted == IF cur_page_idx = Root THEN NoPage
                        ELSE (TableBase + cur_page_idx \div Arity) * Arity

(* The walk ends at the root.                                              *)
NextPageIdx == IF cur_page_idx = Root THEN NoPage ELSE Parent(cur_page_idx)

(* One iteration of the walk that finds a page to load.                    *)
Climb ==
  /\ phase \in {"read", "write"}
  /\ cur_page_idx # NoPage
  /\ cur_page_idx \notin Seen
  /\ page_cycle' = page_cycle
                     + (IF cur_page_idx = Root THEN RootCycle ELSE PageCycle)
  /\ IF phase = "read"
       THEN /\ new_segment_resident' = new_segment_resident \cup {cur_page_idx}
            /\ UNCHANGED new_segment_dirty
       ELSE /\ new_segment_dirty' = new_segment_dirty \cup {cur_page_idx}
            /\ UNCHANGED new_segment_resident
  /\ cur_page_idx' = NextPageIdx
  /\ UNCHANGED <<segment, touched, phase, step_cycle, todo>>

(* The walk meets a page seen before and breaks.                           *)
EndWalk ==
  /\ phase \in {"read", "write"}
  /\ cur_page_idx # NoPage
  /\ cur_page_idx \in Seen
  /\ cur_page_idx' = NoPage
  /\ UNCHANGED <<segment, touched, phase, step_cycle, todo,
                 new_segment_resident, new_segment_dirty, page_cycle>>

(* The loop over cur_step_read is done, the one over cur_step_write begins. *)
TurnToWrites ==
  /\ phase = "read"
  /\ cur_page_idx = NoPage
  /\ todo = {}
  /\ phase' = "write"
  /\ todo' = cur_step_write
  /\ UNCHANGED <<segment, touched, step_cycle, cur_page_idx,
                 new_segment_resident, new_segment_dirty, page_cycle>>

StepTotal == step_cycle + page_cycle

(* Fault: the test leaves out the new step.                                *)
OverflowsLate == FixedCycle + cur_segment_cycle > SegmentLimit

(* update_cur_segment_total_cycle: is a new segment needed?                *)
Overflows ==
  FixedCycle + cur_segment_cycle + StepTotal > SegmentLimit

RoundDone == phase = "write" /\ cur_page_idx = NoPage /\ todo = {}

(* Faults: the segment is not counted; its cycles are not reset.           *)
CountSegmentNot ==
  /\ UNCHANGED num_segment
  /\ cur_segment_cycle' = 0 /\ op_spent' = 0
CountSegmentKeepsCycle ==
  /\ num_segment' = num_segment + 1
  /\ UNCHANGED <<cur_segment_cycle, op_spent>>

CountSegment ==
  /\ num_segment' = num_segment + 1
  /\ cur_segment_cycle' = 0 /\ op_spent' = 0

(* Fault: the dirty pages survive the segment.                             *)
UnloadPagesKeepsDirty ==
  /\ cur_segment_resident' = {}
  /\ UNCHANGED cur_segment_dirty

UnloadPages ==
  /\ cur_segment_resident' = {}
  /\ cur_segment_dirty' = {}

(* redo: a new segment is created and the round is repeated.               *)
NewSegment ==
  /\ RoundDone
  /\ Overflows
  /\ num_segment < MaxSegment
  /\ CountSegment
  /\ UnloadPages
  /\ StartRound
  /\ UNCHANGED <<touched, step_cycle>>

(* Fault: the new dirty pages are forgotten.                               *)
LoadPagesForgetsDirty ==
  /\ cur_segment_resident' = cur_segment_resident \cup new_segment_resident
  /\ UNCHANGED cur_segment_dirty

LoadPages ==
  /\ cur_segment_resident' = cur_segment_resident \cup new_segment_resident
  /\ cur_segment_dirty' = cur_segment_dirty \cup new_segment_dirty

Settle ==
  /\ RoundDone
  /\ ~Overflows
  /\ cur_segment_cycle' = cur_segment_cycle + StepTotal
  /\ op_spent' = op_spent + step_cycle
  /\ LoadPages
  /\ cur_step_read' = {}
  /\ cur_step_write' = {}
  /\ phase' = "exec"
  /\ step_cycle' = NoStep
  /\ new_segment_resident' = {} /\ new_segment_dirty' = {}
  /\ page_cycle' = 0
  /\ UNCHANGED <<num_segment, todo, cur_page_idx>>

CallbackStepLoop ==
  TakePage \/ Climb \/ EndWalk \/ TurnToWrites \/ NewSegment \/ Settle

Next ==
  \/ \E p \in UserPage : CallbackReadMem(p) \/ CallbackWriteMem(p)
  \/ \E c \in StepCycles : CallbackStep(c)
  \/ CallbackStepLoop

(* callback_step runs until it returns; the guest may stop between steps.  *)
Fairness == WF_vars(CallbackStepLoop)

Spec == Init /\ [][Next]_vars
FairSpec == Spec /\ Fairness

-----------------------------------------------------------------------------
(* get_session_cycle, what `monitor cycle` and SYS_CYCLE_COUNT report.     *)
GetSessionCycle ==
  num_segment * SegmentLimit + (FixedCycle + cur_segment_cycle)

TypeOK ==
  /\ num_segment \in Nat /\ cur_segment_cycle \in Nat /\ op_spent \in Nat
  /\ cur_segment_resident \subseteq Page /\ cur_segment_dirty \subseteq Page
  /\ cur_step_read \subseteq UserPage /\ cur_step_write \subseteq UserPage
  /\ phase \in {"exec", "read", "write"}
  /\ step_cycle \in IF phase = "exec" THEN {NoStep} ELSE StepCycles
  /\ todo \subseteq UserPage
  /\ cur_page_idx \in Page \cup {NoPage}
  /\ new_segment_resident \subseteq Page /\ new_segment_dirty \subseteq Page
  /\ page_cycle \in Nat

(* The total that update_cur_segment_total_cycle compares never exceeds    *)
(* the limit once committed: no segment is overfull, whatever the order of *)
(* page loads, seals and redone rounds.                                    *)
SegmentFits == FixedCycle + cur_segment_cycle <= SegmentLimit

(* Every page in cur_segment_resident and in cur_segment_dirty was charged *)
(* in this segment exactly once, and nothing else was charged but the      *)
(* instructions' own cycles: the loop's redo, the walk's early break and   *)
(* the clearing of the sets at a new segment never lose or repeat a charge.*)
PaidOnce ==
  cur_segment_cycle
    = op_spent + Cost(cur_segment_resident) + Cost(cur_segment_dirty)

(* The walk breaks at a page it has seen without looking above it, which   *)
(* is right only if everything above that page was loaded too.             *)
LoadedToTheRoot ==
  ParentClosed(cur_segment_resident) /\ ParentClosed(cur_segment_dirty)

(* The count a guest or the debugger reads never goes back, also when a    *)
(* segment is sealed in the middle of callback_step and redone.            *)
SessionCycleMonotone == [][GetSessionCycle' >= GetSessionCycle]_vars

(* callback_step returns for an instruction that an empty segment can hold *)
(* (for any other one the loop seals segments forever).                    *)
FitsAlone ==
  FixedCycle + step_cycle + Cost(Closure(cur_step_read))
    + Cost(Closure(cur_step_write)) <= SegmentLimit

CallbackStepReturns == (phase # "exec" /\ FitsAlone) ~> (phase = "exec")

(* The iterations that a round has left, at the most: every page touched   *)
(* has a walk, which begins and breaks, and every page is loaded once.     *)
WholeLoop(pages) == 2 * Cardinality(pages) + Cardinality(Page)

LoopLeft(new) ==
  2 * Cardinality(todo) + Cardinality(Page \ new) + (IF cur_page_idx = NoPage THEN 0 ELSE 1)

RoundLeft ==
  IF phase = "read" THEN LoopLeft(new_segment_resident) + 1 + WholeLoop(cur_step_write)
                    ELSE LoopLeft(new_segment_dirty)

(* A segment that holds pages may be sealed, and the round be repeated.    *)
CallLeft ==
  RoundLeft + (IF cur_segment_resident = {} THEN 0
               ELSE WholeLoop(cur_step_read) + WholeLoop(cur_step_write) + 2)

(* Each iteration for an instruction that an empty segment can hold brings *)
(* callback_step nearer to its end: it seals one segment at the most, and  *)
(* returns within that many iterations, whatever the sets' order.          *)
CallbackStepNearsItsEnd ==
  [][CallbackStepLoop /\ FitsAlone /\ phase' # "exec" => CallLeft' < CallLeft]_vars

-----------------------------------------------------------------------------
(* The page walk implements the promise of CycleMeter: its own steps are   *)
(* invisible, and the step that ends a round is a Seal or a Charge.        *)
Meter == INSTANCE CycleMeter WITH pending <- step_cycle

ImplementsMeter == Meter!Spec
=============================================================================
