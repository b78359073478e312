------------------------- MODULE SessionCycleProofs -------------------------
(***************************************************************************)
(* Proofs about SessionCycle, for every page tree, price and limit that    *)
(* PricingAssumption admits.                                               *)
(***************************************************************************)
EXTENDS SessionCycle, FiniteSetTheorems, TLAPS

-----------------------------------------------------------------------------
(* The page tree of the source.  Every page index that Memory can report   *)
(* (addr >> 10 for an address of at most GUEST_MAX_MEM) lies below the     *)
(* root, and so does everything the walk meets: Parent is what the code    *)
(* computes, without leaving 32 bits, and climbs strictly without missing  *)
(* the root.                                                               *)
THEOREM SourceTreeClimbs ==
  ASSUME TableBase = 212992, Arity = 32, NEW p \in Nat, p <= 219861
  PROVE  /\ Parent(p) = (218103808 + p * 32) \div 1024
         /\ p < Parent(p) /\ Parent(p) <= 219862
         /\ 218103808 + p * 32 < 4294967296
<1>1. p \in Int /\ 0 <= p /\ p <= 219861
  OBVIOUS
<1>2. PICK q \in Int, r \in Int : p = 32 * q + r /\ 0 <= r /\ r < 32
  <2>1. p = 32 * (p \div 32) + (p % 32) /\ 0 <= p % 32 /\ p % 32 < 32
    BY <1>1
  <2>2. p \div 32 \in Int /\ p % 32 \in Int
    BY <1>1
  <2>3. QED BY <2>1, <2>2
<1>3. p \div 32 = q
  BY <1>1, <1>2
<1>4. (218103808 + p * 32) \div 1024 = 212992 + q
  BY <1>1, <1>2
<1>5. QED
  BY <1>1, <1>2, <1>3, <1>4 DEF Parent

-----------------------------------------------------------------------------
(* Facts about the prices.                                                 *)

(* The walk's "no page" is no page, and sets of pages are finite.          *)
LEMMA PageFacts ==
  /\ NoPage \notin Page
  /\ \A S \in SUBSET Page : IsFiniteSet(S) /\ IsFiniteSet(S \ {Root})
<1>1. NoPage \notin Page
  BY PricingAssumption DEF NoPage
<1>2. ASSUME NEW S \in SUBSET Page
      PROVE  IsFiniteSet(S) /\ IsFiniteSet(S \ {Root})
  <2>1. S \ {Root} \in SUBSET Page
    OBVIOUS
  <2>2. QED BY <2>1, FS_Subset, PricingAssumption
<1>3. QED BY <1>1, <1>2

(* The price of a set of pages is a natural number, 0 for no page.         *)
LEMMA CostType ==
  /\ \A S \in SUBSET Page : Cost(S) \in Nat
  /\ Cost({}) = 0
<1>1. ASSUME NEW S \in SUBSET Page PROVE Cost(S) \in Nat
  BY PageFacts, FS_CardinalityType, PricingAssumption DEF Cost
<1>2. Cost({}) = 0
  <2>1. {} \ {Root} = {} OBVIOUS
  <2>2. QED BY <2>1, FS_EmptySet, PricingAssumption DEF Cost
<1>3. QED BY <1>1, <1>2

(* Pages priced separately cost what they cost together.                   *)
LEMMA CostUnion ==
  ASSUME NEW S \in SUBSET Page, NEW T \in SUBSET Page, S \cap T = {}
  PROVE  Cost(S \cup T) = Cost(S) + Cost(T)
<1> DEFINE A == S \ {Root}
           B == T \ {Root}
<1>1. /\ (S \cup T) \ {Root} = A \cup B
      /\ A \cap B = {}
  OBVIOUS
<1>2. IsFiniteSet(A) /\ IsFiniteSet(B)
  BY PageFacts
<1>3. Cardinality(A) \in Nat /\ Cardinality(B) \in Nat
  BY <1>2, FS_CardinalityType
<1>4. Cardinality(A \cup B) = Cardinality(A) + Cardinality(B)
  <2>1. Cardinality(A \cap B) = 0
    BY <1>1, FS_EmptySet
  <2>2. Cardinality(A \cup B)
          = Cardinality(A) + Cardinality(B) - Cardinality(A \cap B)
    BY <1>2, FS_Union
  <2>3. QED BY <1>3, <2>1, <2>2
<1>5. PageCycle * Cardinality(A \cup B)
        = PageCycle * Cardinality(A) + PageCycle * Cardinality(B)
  BY <1>3, <1>4, PricingAssumption
<1>6. /\ PageCycle * Cardinality(A) \in Nat
      /\ PageCycle * Cardinality(B) \in Nat
  BY <1>3, PricingAssumption
<1> HIDE DEF A, B
<1>7. (IF Root \in S \cup T THEN RootCycle ELSE 0)
        = (IF Root \in S THEN RootCycle ELSE 0)
            + (IF Root \in T THEN RootCycle ELSE 0)
  BY PricingAssumption
<1>8. /\ Cost(S \cup T) = PageCycle * Cardinality(A \cup B)
                            + (IF Root \in S \cup T THEN RootCycle ELSE 0)
      /\ Cost(S) = PageCycle * Cardinality(A)
                     + (IF Root \in S THEN RootCycle ELSE 0)
      /\ Cost(T) = PageCycle * Cardinality(B)
                     + (IF Root \in T THEN RootCycle ELSE 0)
  BY <1>1 DEF Cost, A, B
<1>9. QED
  BY <1>5, <1>6, <1>7, <1>8, PricingAssumption

(* The price of one more page, as Climb adds it.                           *)
LEMMA CostAdd ==
  ASSUME NEW S \in SUBSET Page, NEW p \in Page, p \notin S
  PROVE  Cost(S \cup {p})
           = Cost(S) + (IF p = Root THEN RootCycle ELSE PageCycle)
<1>1. Cost({p}) = IF p = Root THEN RootCycle ELSE PageCycle
  <2>1. CASE p = Root
    <3>1. {p} \ {Root} = {} BY <2>1
    <3>2. QED BY <2>1, <3>1, FS_EmptySet, PricingAssumption DEF Cost
  <2>2. CASE p # Root
    <3>1. {p} \ {Root} = {p} BY <2>2
    <3>2. Cardinality({p}) = 1 BY FS_Singleton
    <3>3. QED BY <2>2, <3>1, <3>2, PricingAssumption DEF Cost
  <2>3. QED BY <2>1, <2>2
<1>2. QED BY <1>1, CostUnion

(* Closure(S) is made of pages, holds S, climbs, and is the least such set. *)
LEMMA ClosureFacts ==
  ASSUME NEW S \in SUBSET Page
  PROVE  /\ S \subseteq Closure(S)
         /\ Closure(S) \subseteq Page
         /\ \A q \in Closure(S) : q = Root \/ Parent(q) \in Closure(S)
         /\ \A T \in SUBSET Page :
              S \subseteq T /\ ParentClosed(T) => Closure(S) \subseteq T
<1>1. \A p \in Page : /\ p \in Ancestors[p]
                      /\ Ancestors[p] \subseteq Page
  BY DEF Ancestors
<1>2. ASSUME NEW p \in Page, NEW q \in Ancestors[p], q # Root
      PROVE  Parent(q) \in Ancestors[p]
  <2>1. q \in Page /\ Parent(q) \in Page
    BY <1>1, PricingAssumption
  <2>2. ASSUME NEW T \in SUBSET Page, p \in T, ParentClosed(T)
        PROVE  Parent(q) \in T
    BY <1>2, <2>2 DEF Ancestors, ParentClosed
  <2>3. QED BY <2>1, <2>2 DEF Ancestors
<1>3. ASSUME NEW T \in SUBSET Page, S \subseteq T, ParentClosed(T)
      PROVE  Closure(S) \subseteq T
  BY <1>3 DEF Closure, Ancestors
<1>4. QED BY <1>1, <1>2, <1>3 DEF Closure
-----------------------------------------------------------------------------
(* The inductive invariant.                                                *)

(* S climbs to the root except where the walk has yet to go.               *)
Climbing(S) ==
  \A q \in S : q = Root \/ Parent(q) \in S \/ Parent(q) = cur_page_idx

(* The loop over pages is under way: what it has not loaded it will take.  *)
Walking(loaded, new, pages) ==
  /\ Climbing(loaded \cup new)
  /\ pages \subseteq todo \cup {cur_page_idx} \cup loaded \cup new
  /\ todo \subseteq pages
  /\ cur_page_idx # NoPage => cur_page_idx \in Closure(pages)

(* The loop over pages is done.                                            *)
Walked(loaded, new, pages) ==
  /\ ParentClosed(loaded \cup new)
  /\ pages \subseteq loaded \cup new

(* The new vectors hold only what the step needs and the segment lacks,    *)
(* and page_cycle is their price.                                          *)
NewPages ==
  /\ new_segment_resident \cap cur_segment_resident = {}
  /\ new_segment_dirty \cap cur_segment_dirty = {}
  /\ new_segment_resident \subseteq Closure(cur_step_read)
  /\ new_segment_dirty \subseteq Closure(cur_step_write)
  /\ page_cycle = Cost(new_segment_resident) + Cost(new_segment_dirty)

Loops ==
  /\ phase = "exec" =>
       /\ new_segment_resident = {} /\ new_segment_dirty = {}
       /\ todo = {} /\ cur_page_idx = NoPage
  /\ phase = "read" =>
       /\ new_segment_dirty = {}
       /\ Walking(cur_segment_resident, new_segment_resident, cur_step_read)
  /\ phase = "write" =>
       /\ Walked(cur_segment_resident, new_segment_resident, cur_step_read)
       /\ Walking(cur_segment_dirty, new_segment_dirty, cur_step_write)

IInv == TypeOK /\ SegmentFits /\ PaidOnce /\ LoadedToTheRoot
          /\ NewPages /\ Loops
-----------------------------------------------------------------------------
(* Every variable keeps its type: page walks stay inside the page tree and *)
(* cycle counts stay natural.                                              *)
THEOREM TypeCorrect == Spec => []TypeOK
<1>1. Init => TypeOK
  BY DEF Init, TypeOK, NoStep, NoPage
<1>2. TypeOK /\ [Next]_vars => TypeOK'
  <2> SUFFICES ASSUME TypeOK, [Next]_vars
               PROVE  TypeOK'
    OBVIOUS
  <2> USE PricingAssumption DEF TypeOK, segment, touched, walk
  <2>1. ASSUME NEW p \in UserPage, CallbackReadMem(p)
        PROVE  TypeOK'
    BY <2>1 DEF CallbackReadMem
  <2>2. ASSUME NEW p \in UserPage, CallbackWriteMem(p)
        PROVE  TypeOK'
    BY <2>2 DEF CallbackWriteMem
  <2>3. ASSUME NEW c \in StepCycles, CallbackStep(c)
        PROVE  TypeOK'
    BY <2>3 DEF CallbackStep, StartRound
  <2>4. ASSUME TakePage PROVE TypeOK'
    BY <2>4 DEF TakePage
  <2>5. ASSUME Climb PROVE TypeOK'
    <3>1. cur_page_idx \in Page
      BY <2>5 DEF Climb
    <3>2. cur_page_idx' \in Page \cup {NoPage}
      BY <2>5, <3>1 DEF Climb, NextPageIdx
    <3>3. page_cycle' \in Nat
      BY <2>5 DEF Climb
    <3>4. new_segment_resident' \subseteq Page /\ new_segment_dirty' \subseteq Page
      BY <2>5, <3>1 DEF Climb
    <3>5. QED BY <2>5, <3>2, <3>3, <3>4 DEF Climb
  <2>6. ASSUME EndWalk PROVE TypeOK'
    BY <2>6 DEF EndWalk
  <2>7. ASSUME TurnToWrites PROVE TypeOK'
    BY <2>7 DEF TurnToWrites
  <2>8. ASSUME NewSegment PROVE TypeOK'
    BY <2>8 DEF NewSegment, RoundDone, CountSegment, UnloadPages, StartRound
  <2>9. ASSUME Settle PROVE TypeOK'
    <3>1. step_cycle \in Nat
      BY <2>9 DEF Settle, RoundDone
    <3>2. cur_segment_cycle' \in Nat /\ op_spent' \in Nat
      BY <2>9, <3>1 DEF Settle, StepTotal
    <3>3. QED BY <2>9, <3>2 DEF Settle, LoadPages
  <2>10. CASE UNCHANGED vars
    BY <2>10 DEF vars
  <2>11. QED
    BY <2>1, <2>2, <2>3, <2>4, <2>5, <2>6, <2>7, <2>8, <2>9, <2>10
       DEF Next, CallbackStepLoop
<1>3. QED BY <1>1, <1>2, PTL DEF Spec

-----------------------------------------------------------------------------
(* What a finished loop has loaded is the closure of its pages.            *)
LEMMA WalkedIsClosure ==
  ASSUME NEW loaded \in SUBSET Page, NEW new \in SUBSET Page,
         NEW pages \in SUBSET Page,
         Walked(loaded, new, pages),
         new \cap loaded = {}, new \subseteq Closure(pages)
  PROVE  /\ loaded \cup new = loaded \cup Closure(pages)
         /\ new = Closure(pages) \ loaded
<1>1. Closure(pages) \subseteq loaded \cup new
  BY ClosureFacts DEF Walked
<1>2. QED BY <1>1

(* A walk that is not at a page leaves nothing open below.                 *)
LEMMA ClimbingIsClosed ==
  ASSUME TypeOK, cur_page_idx = NoPage,
         NEW S \in SUBSET Page, Climbing(S)
  PROVE  ParentClosed(S)
<1>1. \A q \in S : Parent(q) # NoPage
  BY PageFacts, PricingAssumption
<1>2. QED BY <1>1 DEF Climbing, ParentClosed

(* The step that prepares a round, from a segment whose pages climb.       *)
LEMMA RoundStarts ==
  ASSUME TypeOK, ParentClosed(cur_segment_resident'), StartRound,
         UNCHANGED touched
  PROVE  NewPages' /\ Loops'
<1>1. NewPages'
  BY CostType DEF StartRound, NewPages
<1>2. Loops'
  BY DEF StartRound, Loops, Walking, Climbing, ParentClosed, touched
<1>3. QED BY <1>1, <1>2

-----------------------------------------------------------------------------
(* IInv is inductive: the facts that an early break of the walk relies on, *)
(* that a redone round prices afresh, and that the totals add up, hold at  *)
(* every step of callback_step.                                            *)
LEMMA InitInvariant == Init => IInv
<1> SUFFICES ASSUME Init PROVE IInv
  OBVIOUS
<1>1. TypeOK
  BY DEF Init, TypeOK, NoStep, NoPage
<1>2. SegmentFits /\ PaidOnce /\ LoadedToTheRoot
  BY CostType, PricingAssumption
     DEF Init, SegmentFits, PaidOnce, LoadedToTheRoot, ParentClosed
<1>3. NewPages /\ Loops
  BY CostType DEF Init, NewPages, Loops
<1>4. QED BY <1>1, <1>2, <1>3 DEF IInv

(* callback_read_mem, callback_write_mem and the call of callback_step     *)
(* change nothing that a segment has paid for.                             *)
LEMMA CallbackKeeps ==
  ASSUME IInv,
         \/ \E p \in UserPage : CallbackReadMem(p) \/ CallbackWriteMem(p)
         \/ \E c \in StepCycles : CallbackStep(c)
  PROVE  (SegmentFits /\ PaidOnce /\ LoadedToTheRoot /\ NewPages /\ Loops)'
<1> USE DEF IInv
<1>1. ASSUME \E p \in UserPage : CallbackReadMem(p) \/ CallbackWriteMem(p)
      PROVE  (SegmentFits /\ PaidOnce /\ LoadedToTheRoot /\ NewPages /\ Loops)'
  <2>1. phase = "exec" /\ UNCHANGED <<segment, phase, walk>>
    BY <1>1 DEF CallbackReadMem, CallbackWriteMem
  <2>2. (SegmentFits /\ PaidOnce /\ LoadedToTheRoot)'
    BY <2>1 DEF segment, SegmentFits, PaidOnce, LoadedToTheRoot
  <2>3. NewPages' /\ Loops'
    BY <2>1 DEF NewPages, Loops, segment, walk
  <2>4. QED BY <2>2, <2>3
<1>2. ASSUME NEW c \in StepCycles, CallbackStep(c)
      PROVE  (SegmentFits /\ PaidOnce /\ LoadedToTheRoot /\ NewPages /\ Loops)'
  <2>1. UNCHANGED segment /\ UNCHANGED touched /\ StartRound
    BY <1>2 DEF CallbackStep
  <2>2. (SegmentFits /\ PaidOnce /\ LoadedToTheRoot)'
    BY <2>1 DEF segment, SegmentFits, PaidOnce, LoadedToTheRoot
  <2>3. NewPages' /\ Loops'
    BY <2>1, <2>2, RoundStarts DEF LoadedToTheRoot
  <2>4. QED BY <2>2, <2>3
<1>3. QED BY <1>1, <1>2

(* The for loop of callback_step takes a page: one walk more is open.      *)
LEMMA TakePageKeeps ==
  ASSUME IInv, TakePage
  PROVE  (SegmentFits /\ PaidOnce /\ LoadedToTheRoot /\ NewPages /\ Loops)'
<1> USE DEF IInv
<1>1. /\ phase \in {"read", "write"} /\ cur_page_idx = NoPage
      /\ UNCHANGED <<segment, touched, phase, step_cycle, new_segment_resident,
                     new_segment_dirty, page_cycle>>
  BY DEF TakePage
<1>2. PICK p \in todo : cur_page_idx' = p /\ todo' = todo \ {p}
  BY DEF TakePage
<1>3. (SegmentFits /\ PaidOnce /\ LoadedToTheRoot /\ NewPages)'
  BY <1>1 DEF segment, touched, SegmentFits, PaidOnce, LoadedToTheRoot, NewPages
<1>4. ASSUME NEW loaded \in SUBSET Page, NEW new \in SUBSET Page,
             NEW pages \in SUBSET UserPage, Walking(loaded, new, pages)
      PROVE  /\ \A q \in loaded \cup new :
                  \/ q = Root \/ Parent(q) \in loaded \cup new
                  \/ Parent(q) = cur_page_idx'
             /\ pages \subseteq todo' \cup {cur_page_idx'} \cup loaded \cup new
             /\ todo' \subseteq pages
             /\ cur_page_idx' \in Closure(pages)
  <2>1. ParentClosed(loaded \cup new)
    BY <1>1, <1>4, ClimbingIsClosed DEF Walking
  <2>2. p \in pages
    BY <1>2, <1>4 DEF Walking
  <2>3. pages \in SUBSET Page
    BY PricingAssumption
  <2>4. p \in Closure(pages)
    BY <2>2, <2>3, ClosureFacts
  <2>5. NoPage \notin pages
    BY <2>3, PageFacts
  <2>6. QED BY <1>1, <1>2, <1>4, <2>1, <2>2, <2>4, <2>5
            DEF Walking, Climbing, ParentClosed
<1>5. CASE phase = "read"
  <2>1. Walking(cur_segment_resident, new_segment_resident, cur_step_read)'
    BY <1>1, <1>4, <1>5 DEF Loops, Walking, Climbing, segment, touched, TypeOK
  <2>2. QED BY <1>1, <1>3, <1>5, <2>1 DEF Loops
<1>6. CASE phase = "write"
  <2>1. Walking(cur_segment_dirty, new_segment_dirty, cur_step_write)'
    BY <1>1, <1>4, <1>6 DEF Loops, Walking, Climbing, segment, touched, TypeOK
  <2>2. Walked(cur_segment_resident, new_segment_resident, cur_step_read)'
    BY <1>1, <1>6 DEF Loops, Walked, ParentClosed, segment, touched
  <2>3. QED BY <1>1, <1>3, <1>6, <2>1, <2>2 DEF Loops
<1>7. QED BY <1>1, <1>5, <1>6

(* A page pushed to new_segment_resident or new_segment_dirty is new and   *)
(* is added to the price.                                                  *)
LEMMA ClimbKeeps ==
  ASSUME IInv, Climb
  PROVE  (SegmentFits /\ PaidOnce /\ LoadedToTheRoot /\ NewPages /\ Loops)'
<1> USE DEF IInv
<1> DEFINE price == IF cur_page_idx = Root THEN RootCycle ELSE PageCycle
<1>1. /\ phase \in {"read", "write"} /\ cur_page_idx \in Page
      /\ cur_page_idx \notin Seen
      /\ UNCHANGED <<segment, touched, phase, step_cycle, todo>>
      /\ page_cycle' = page_cycle + price
  BY DEF Climb, TypeOK
<1>2. cur_page_idx' = IF cur_page_idx = Root THEN NoPage
                                             ELSE Parent(cur_page_idx)
  BY DEF Climb, NextPageIdx
<1>3. (SegmentFits /\ PaidOnce /\ LoadedToTheRoot)'
  BY <1>1 DEF segment, SegmentFits, PaidOnce, LoadedToTheRoot
<1>4. /\ Cost(new_segment_resident) \in Nat /\ Cost(new_segment_dirty) \in Nat
      /\ price \in Nat
  BY CostType, PricingAssumption DEF TypeOK
<1>5. ASSUME NEW pages \in SUBSET UserPage, cur_page_idx \in Closure(pages),
             cur_page_idx # Root
      PROVE  Parent(cur_page_idx) \in Closure(pages)
  BY <1>5, ClosureFacts, PricingAssumption
<1>6. CASE phase = "read"
  <2>1. /\ new_segment_resident' = new_segment_resident \cup {cur_page_idx}
        /\ new_segment_dirty' = new_segment_dirty
        /\ cur_page_idx \notin cur_segment_resident \cup new_segment_resident
    BY <1>1, <1>6 DEF Climb, Seen
  <2>2. Walking(cur_segment_resident, new_segment_resident, cur_step_read)
    BY <1>6 DEF Loops
  <2>3. Cost(new_segment_resident') = Cost(new_segment_resident) + price
    BY <1>1, <2>1, CostAdd DEF TypeOK
  <2>4. NewPages'
    BY <1>1, <1>4, <2>1, <2>2, <2>3, PageFacts
       DEF NewPages, Walking, segment, touched
  <2>5. cur_page_idx' # NoPage => cur_page_idx' \in Closure(cur_step_read)
    BY <1>1, <1>2, <1>5, <2>2, PageFacts DEF Walking, TypeOK
  <2>6. Walking(cur_segment_resident, new_segment_resident, cur_step_read)'
    <3>1. \A q \in cur_segment_resident \cup new_segment_resident \cup {cur_page_idx} :
            \/ q = Root \/ Parent(q) = cur_page_idx'
            \/ Parent(q) \in cur_segment_resident \cup new_segment_resident
                               \cup {cur_page_idx}
      BY <1>2, <2>2 DEF Walking, Climbing
    <3>2. Climbing(cur_segment_resident \cup new_segment_resident)'
      BY <1>1, <2>1, <3>1 DEF Climbing, segment
    <3>3. /\ cur_step_read' \subseteq todo' \cup {cur_page_idx'}
                 \cup cur_segment_resident' \cup new_segment_resident'
          /\ todo' \subseteq cur_step_read'
          /\ cur_step_read' = cur_step_read
      BY <1>1, <2>1, <2>2 DEF Walking, segment, touched
    <3>4. (cur_page_idx # NoPage => cur_page_idx \in Closure(cur_step_read))'
      BY <2>5, <3>3
    <3>5. QED BY <3>2, <3>3, <3>4 DEF Walking
  <2>7. QED BY <1>1, <1>3, <1>6, <2>1, <2>4, <2>6 DEF Loops
<1>7. CASE phase = "write"
  <2>1. /\ new_segment_dirty' = new_segment_dirty \cup {cur_page_idx}
        /\ new_segment_resident' = new_segment_resident
        /\ cur_page_idx \notin cur_segment_dirty \cup new_segment_dirty
    BY <1>1, <1>7 DEF Climb, Seen
  <2>2. Walking(cur_segment_dirty, new_segment_dirty, cur_step_write)
    BY <1>7 DEF Loops
  <2>3. Cost(new_segment_dirty') = Cost(new_segment_dirty) + price
    BY <1>1, <2>1, CostAdd DEF TypeOK
  <2>4. NewPages'
    BY <1>1, <1>4, <2>1, <2>2, <2>3, PageFacts
       DEF NewPages, Walking, segment, touched
  <2>5. cur_page_idx' # NoPage => cur_page_idx' \in Closure(cur_step_write)
    BY <1>1, <1>2, <1>5, <2>2, PageFacts DEF Walking, TypeOK
  <2>6. Walking(cur_segment_dirty, new_segment_dirty, cur_step_write)'
    <3>1. \A q \in cur_segment_dirty \cup new_segment_dirty \cup {cur_page_idx} :
            \/ q = Root \/ Parent(q) = cur_page_idx'
            \/ Parent(q) \in cur_segment_dirty \cup new_segment_dirty
                               \cup {cur_page_idx}
      BY <1>2, <2>2 DEF Walking, Climbing
    <3>2. Climbing(cur_segment_dirty \cup new_segment_dirty)'
      BY <1>1, <2>1, <3>1 DEF Climbing, segment
    <3>3. /\ cur_step_write' \subseteq todo' \cup {cur_page_idx'}
                 \cup cur_segment_dirty' \cup new_segment_dirty'
          /\ todo' \subseteq cur_step_write'
          /\ cur_step_write' = cur_step_write
      BY <1>1, <2>1, <2>2 DEF Walking, segment, touched
    <3>4. (cur_page_idx # NoPage => cur_page_idx \in Closure(cur_step_write))'
      BY <2>5, <3>3
    <3>5. QED BY <3>2, <3>3, <3>4 DEF Walking
  <2>7. Walked(cur_segment_resident, new_segment_resident, cur_step_read)'
    BY <1>1, <1>7, <2>1 DEF Loops, Walked, ParentClosed, segment, touched
  <2>8. QED BY <1>1, <1>3, <1>7, <2>4, <2>6, <2>7 DEF Loops
<1>8. QED BY <1>1, <1>6, <1>7

(* The early break: the page seen has its ancestors in the sets already.   *)
LEMMA EndWalkKeeps ==
  ASSUME IInv, EndWalk
  PROVE  (SegmentFits /\ PaidOnce /\ LoadedToTheRoot /\ NewPages /\ Loops)'
<1> USE DEF IInv
<1>1. /\ phase \in {"read", "write"} /\ cur_page_idx \in Seen
      /\ cur_page_idx' = NoPage
      /\ UNCHANGED <<segment, touched, phase, step_cycle, todo,
                     new_segment_resident, new_segment_dirty, page_cycle>>
  BY DEF EndWalk
<1>2. (SegmentFits /\ PaidOnce /\ LoadedToTheRoot /\ NewPages)'
  BY <1>1 DEF segment, touched, SegmentFits, PaidOnce, LoadedToTheRoot, NewPages
<1>3. CASE phase = "read"
  <2>1. Walking(cur_segment_resident, new_segment_resident, cur_step_read)'
    BY <1>1, <1>3 DEF Loops, Walking, Climbing, Seen, segment, touched
  <2>2. QED BY <1>1, <1>2, <1>3, <2>1 DEF Loops
<1>4. CASE phase = "write"
  <2>1. Walking(cur_segment_dirty, new_segment_dirty, cur_step_write)'
    BY <1>1, <1>4 DEF Loops, Walking, Climbing, Seen, segment, touched
  <2>2. Walked(cur_segment_resident, new_segment_resident, cur_step_read)'
    BY <1>1, <1>4 DEF Loops, Walked, ParentClosed, segment, touched
  <2>3. QED BY <1>1, <1>2, <1>4, <2>1, <2>2 DEF Loops
<1>5. QED BY <1>1, <1>3, <1>4

(* Between the two for loops the pages read are all walked.                *)
LEMMA TurnToWritesKeeps ==
  ASSUME IInv, TurnToWrites
  PROVE  (SegmentFits /\ PaidOnce /\ LoadedToTheRoot /\ NewPages /\ Loops)'
<1> USE DEF IInv
<1>1. /\ phase = "read" /\ cur_page_idx = NoPage /\ todo = {}
      /\ phase' = "write" /\ todo' = cur_step_write
      /\ UNCHANGED <<segment, touched, step_cycle, cur_page_idx,
                     new_segment_resident, new_segment_dirty, page_cycle>>
  BY DEF TurnToWrites
<1>2. (SegmentFits /\ PaidOnce /\ LoadedToTheRoot /\ NewPages)'
  BY <1>1 DEF segment, touched, SegmentFits, PaidOnce, LoadedToTheRoot, NewPages
<1>3. Walked(cur_segment_resident, new_segment_resident, cur_step_read)
  <2>1. Walking(cur_segment_resident, new_segment_resident, cur_step_read)
    BY <1>1 DEF Loops
  <2>2. NoPage \notin cur_step_read
    BY PageFacts, PricingAssumption DEF TypeOK
  <2>3. ParentClosed(cur_segment_resident \cup new_segment_resident)
    BY <1>1, <2>1, ClimbingIsClosed DEF Walking, TypeOK
  <2>4. QED BY <1>1, <2>1, <2>2, <2>3 DEF Walking, Walked
<1>4. Walked(cur_segment_resident, new_segment_resident, cur_step_read)'
  BY <1>1, <1>3 DEF Walked, ParentClosed, segment, touched
<1>5. Walking(cur_segment_dirty, new_segment_dirty, cur_step_write)'
  BY <1>1 DEF Loops, Walking, Climbing, LoadedToTheRoot, ParentClosed,
              segment, touched
<1>6. QED BY <1>1, <1>2, <1>4, <1>5 DEF Loops

(* A redo starts from an empty segment and empty vectors.                  *)
LEMMA NewSegmentKeeps ==
  ASSUME IInv, NewSegment
  PROVE  (SegmentFits /\ PaidOnce /\ LoadedToTheRoot /\ NewPages /\ Loops)'
<1> USE DEF IInv
<1>1. /\ cur_segment_cycle' = 0 /\ op_spent' = 0
      /\ cur_segment_resident' = {} /\ cur_segment_dirty' = {}
      /\ StartRound /\ UNCHANGED touched
  BY DEF NewSegment, CountSegment, UnloadPages
<1>2. (SegmentFits /\ PaidOnce /\ LoadedToTheRoot)'
  BY <1>1, CostType, PricingAssumption
     DEF SegmentFits, PaidOnce, LoadedToTheRoot, ParentClosed
<1>3. NewPages' /\ Loops'
  BY <1>1, <1>2, RoundStarts DEF LoadedToTheRoot
<1>4. QED BY <1>2, <1>3

(* What a finished round hands to Settle.                                  *)
LEMMA RoundDoneFacts ==
  ASSUME IInv, RoundDone
  PROVE  /\ step_cycle \in Nat /\ step_cycle # NoStep
         /\ Walked(cur_segment_resident, new_segment_resident, cur_step_read)
         /\ Walked(cur_segment_dirty, new_segment_dirty, cur_step_write)
         /\ new_segment_resident = Closure(cur_step_read) \ cur_segment_resident
         /\ new_segment_dirty = Closure(cur_step_write) \ cur_segment_dirty
         /\ cur_segment_resident \cup new_segment_resident
              = cur_segment_resident \cup Closure(cur_step_read)
         /\ cur_segment_dirty \cup new_segment_dirty
              = cur_segment_dirty \cup Closure(cur_step_write)
<1> USE DEF IInv
<1>1. phase = "write" /\ cur_page_idx = NoPage /\ todo = {}
  BY DEF RoundDone
<1>2. step_cycle \in Nat /\ step_cycle # NoStep
  BY <1>1, PricingAssumption DEF TypeOK, NoStep
<1>3. Walked(cur_segment_resident, new_segment_resident, cur_step_read)
  BY <1>1 DEF Loops
<1>4. Walked(cur_segment_dirty, new_segment_dirty, cur_step_write)
  <2>1. Walking(cur_segment_dirty, new_segment_dirty, cur_step_write)
    BY <1>1 DEF Loops
  <2>2. NoPage \notin cur_step_write
    BY PageFacts, PricingAssumption DEF TypeOK
  <2>3. ParentClosed(cur_segment_dirty \cup new_segment_dirty)
    BY <1>1, <2>1, ClimbingIsClosed DEF Walking, TypeOK
  <2>4. QED BY <1>1, <2>1, <2>2, <2>3 DEF Walking, Walked
<1>5. /\ cur_segment_resident \in SUBSET Page /\ cur_segment_dirty \in SUBSET Page
      /\ new_segment_resident \in SUBSET Page /\ new_segment_dirty \in SUBSET Page
      /\ cur_step_read \in SUBSET Page /\ cur_step_write \in SUBSET Page
  BY PricingAssumption DEF TypeOK
<1>6. /\ new_segment_resident \cap cur_segment_resident = {}
      /\ new_segment_dirty \cap cur_segment_dirty = {}
      /\ new_segment_resident \subseteq Closure(cur_step_read)
      /\ new_segment_dirty \subseteq Closure(cur_step_write)
  BY DEF NewPages
<1>7. /\ cur_segment_resident \cup new_segment_resident
           = cur_segment_resident \cup Closure(cur_step_read)
      /\ new_segment_resident = Closure(cur_step_read) \ cur_segment_resident
  BY <1>3, <1>5, <1>6, WalkedIsClosure
<1>8. /\ cur_segment_dirty \cup new_segment_dirty
           = cur_segment_dirty \cup Closure(cur_step_write)
      /\ new_segment_dirty = Closure(cur_step_write) \ cur_segment_dirty
  BY <1>4, <1>5, <1>6, WalkedIsClosure
<1>9. QED BY <1>2, <1>3, <1>4, <1>7, <1>8

(* The end of callback_step moves the new pages and their price together.  *)
LEMMA SettleKeeps ==
  ASSUME IInv, Settle
  PROVE  (SegmentFits /\ PaidOnce /\ LoadedToTheRoot /\ NewPages /\ Loops)'
<1> USE DEF IInv
<1>1. /\ RoundDone /\ ~Overflows
      /\ cur_segment_cycle' = cur_segment_cycle + (step_cycle + page_cycle)
      /\ op_spent' = op_spent + step_cycle
      /\ cur_segment_resident' = cur_segment_resident \cup new_segment_resident
      /\ cur_segment_dirty' = cur_segment_dirty \cup new_segment_dirty
      /\ cur_step_read' = {} /\ cur_step_write' = {} /\ phase' = "exec"
      /\ new_segment_resident' = {} /\ new_segment_dirty' = {}
      /\ page_cycle' = 0 /\ todo' = {} /\ cur_page_idx' = NoPage
  BY DEF Settle, StepTotal, LoadPages, RoundDone
<1>2. step_cycle \in Nat
  BY <1>1, RoundDoneFacts
<1>3. SegmentFits'
  BY <1>1, <1>2, PricingAssumption
     DEF Overflows, StepTotal, SegmentFits, TypeOK
<1>4. PaidOnce'
  <2>1. /\ Cost(cur_segment_resident')
             = Cost(cur_segment_resident) + Cost(new_segment_resident)
        /\ Cost(cur_segment_dirty')
             = Cost(cur_segment_dirty) + Cost(new_segment_dirty)
    BY <1>1, CostUnion DEF NewPages, TypeOK
  <2>2. page_cycle = Cost(new_segment_resident) + Cost(new_segment_dirty)
    BY DEF NewPages
  <2>3. cur_segment_cycle
          = op_spent + Cost(cur_segment_resident) + Cost(cur_segment_dirty)
    BY DEF PaidOnce
  <2>4. /\ Cost(cur_segment_resident) \in Nat /\ Cost(cur_segment_dirty) \in Nat
        /\ Cost(new_segment_resident) \in Nat /\ Cost(new_segment_dirty) \in Nat
        /\ op_spent \in Nat
    BY CostType DEF TypeOK
  <2>5. QED BY <1>1, <1>2, <2>1, <2>2, <2>3, <2>4 DEF PaidOnce
<1>5. LoadedToTheRoot'
  BY <1>1, RoundDoneFacts DEF Walked, LoadedToTheRoot
<1>6. NewPages' /\ Loops'
  BY <1>1, CostType DEF NewPages, Loops
<1>7. QED BY <1>3, <1>4, <1>5, <1>6

(* Nothing happens to the counter.                                         *)
LEMMA StutterKeeps ==
  ASSUME IInv, UNCHANGED vars
  PROVE  (SegmentFits /\ PaidOnce /\ LoadedToTheRoot /\ NewPages /\ Loops)'
<1>1. UNCHANGED <<segment, touched, phase, step_cycle, walk>>
  BY DEF vars
<1>2. (SegmentFits /\ PaidOnce /\ LoadedToTheRoot)'
  BY <1>1 DEF IInv, segment, SegmentFits, PaidOnce, LoadedToTheRoot
<1>3. (NewPages /\ Loops)'
  BY <1>1 DEF IInv, NewPages, Loops, Walking, Walked, Climbing, ParentClosed,
              segment, touched, walk
<1>4. QED BY <1>2, <1>3

(* The inductive invariant of callback_step: between any two of its steps  *)
(* the new pages are exactly those priced, and closed but for the walk     *)
(* under way.                                                              *)
THEOREM InvariantCorrect == Spec => []IInv
<1>1. Init => IInv
  BY InitInvariant
<1>2. IInv /\ TypeOK' /\ [Next]_vars => IInv'
  <2> SUFFICES ASSUME IInv, TypeOK', [Next]_vars
               PROVE  IInv'
    OBVIOUS
  <2>1. (SegmentFits /\ PaidOnce /\ LoadedToTheRoot /\ NewPages /\ Loops)'
    BY CallbackKeeps, TakePageKeeps, ClimbKeeps, EndWalkKeeps,
       TurnToWritesKeeps, NewSegmentKeeps, SettleKeeps, StutterKeeps
       DEF Next, CallbackStepLoop
  <2>2. QED BY <2>1 DEF IInv
<1>3. QED BY <1>1, <1>2, TypeCorrect, PTL DEF Spec

(* No segment is ever overfull, whatever the pages, prices and limit.      *)
THEOREM SegmentsFit == Spec => []SegmentFits
<1>1. IInv => SegmentFits
  BY DEF IInv
<1>2. QED BY <1>1, InvariantCorrect, PTL

(* Nothing loaded in a segment is charged twice in it or left uncharged.   *)
THEOREM ChargedOnce == Spec => []PaidOnce
<1>1. IInv => PaidOnce
  BY DEF IInv
<1>2. QED BY <1>1, InvariantCorrect, PTL

(* Breaking a walk at a page seen before loses nothing above that page.    *)
THEOREM WalksReachTheRoot == Spec => []LoadedToTheRoot
<1>1. IInv => LoadedToTheRoot
  BY DEF IInv
<1>2. QED BY <1>1, InvariantCorrect, PTL

(* The session's cycle count never goes back: a sealed segment counts for  *)
(* SegmentLimit cycles, which is at least what it held.                    *)
THEOREM CountIsMonotone == Spec => SessionCycleMonotone
<1>1. ASSUME IInv, TypeOK', [Next]_vars
      PROVE  [GetSessionCycle' >= GetSessionCycle]_vars
  <2>1. /\ num_segment \in Nat /\ cur_segment_cycle \in Nat
        /\ FixedCycle \in Nat /\ SegmentLimit \in Nat
        /\ FixedCycle + cur_segment_cycle <= SegmentLimit
    BY <1>1, PricingAssumption DEF IInv, TypeOK, SegmentFits
  <2>2. \A n \in Nat : /\ n * SegmentLimit \in Nat
                       /\ (n + 1) * SegmentLimit = n * SegmentLimit + SegmentLimit
    BY <2>1
  <2>3. \/ UNCHANGED <<num_segment, cur_segment_cycle>>
        \/ num_segment' = num_segment + 1 /\ cur_segment_cycle' = 0
        \/ num_segment' = num_segment /\ cur_segment_cycle' >= cur_segment_cycle
    <3>1. ASSUME Settle
          PROVE  num_segment' = num_segment /\ cur_segment_cycle' >= cur_segment_cycle
      <4>1. RoundDone /\ step_cycle \in Nat /\ page_cycle \in Nat
        BY <1>1, <3>1, RoundDoneFacts DEF Settle, IInv, TypeOK
      <4>2. QED BY <2>1, <3>1, <4>1 DEF Settle, StepTotal
    <3>2. ASSUME NewSegment
          PROVE  num_segment' = num_segment + 1 /\ cur_segment_cycle' = 0
      BY <3>2 DEF NewSegment, CountSegment
    <3>3. QED
      BY <1>1, <3>1, <3>2
         DEF Next, CallbackStepLoop, CallbackReadMem, CallbackWriteMem,
             CallbackStep, TakePage, Climb, EndWalk, TurnToWrites, vars, segment
  <2>4. num_segment' \in Nat /\ cur_segment_cycle' \in Nat
    BY <1>1 DEF TypeOK
  <2> DEFINE sealed == num_segment * SegmentLimit
  <2>5. /\ sealed \in Nat
        /\ GetSessionCycle = sealed + (FixedCycle + cur_segment_cycle)
    BY <2>1, <2>2 DEF GetSessionCycle
  <2>6. CASE num_segment' = num_segment
    <3>1. GetSessionCycle' = sealed + (FixedCycle + cur_segment_cycle')
      BY <2>6 DEF GetSessionCycle
    <3>2. cur_segment_cycle' >= cur_segment_cycle
      BY <2>1, <2>3, <2>4, <2>6
    <3> HIDE DEF sealed
    <3>3. \A s, f, a, b \in Nat : b >= a => s + (f + b) >= s + (f + a)
      OBVIOUS
    <3>4. sealed + (FixedCycle + cur_segment_cycle')
            >= sealed + (FixedCycle + cur_segment_cycle)
      BY <2>1, <2>4, <2>5, <3>2, <3>3
    <3>5. GetSessionCycle' >= GetSessionCycle
      BY <2>5, <3>1, <3>4
    <3>6. QED BY <3>5
  <2>7. CASE num_segment' = num_segment + 1 /\ cur_segment_cycle' = 0
    <3>1. GetSessionCycle' = sealed + SegmentLimit + (FixedCycle + 0)
      BY <2>1, <2>2, <2>7 DEF GetSessionCycle
    <3> HIDE DEF sealed
    <3>2. QED BY <2>1, <2>5, <3>1
  <2>8. QED BY <2>3, <2>6, <2>7
<1>2. QED BY <1>1, TypeCorrect, InvariantCorrect, PTL
          DEF Spec, SessionCycleMonotone

-----------------------------------------------------------------------------
(* The page walk implements the promise of CycleMeter: however the sets    *)
(* are iterated, an instruction is charged its closure's missing pages,    *)
(* all at once or after a seal.                                            *)
THEOREM WalkImplementsMeter == Spec => ImplementsMeter
<1>1. Init => Meter!Init
  BY DEF Init, Meter!Init, NoStep, Meter!NoStep
<1>2. ASSUME IInv, [Next]_vars
      PROVE  [Meter!Next]_Meter!meterVars
  <2>1. ASSUME NEW p \in UserPage, CallbackReadMem(p) \/ CallbackWriteMem(p)
        PROVE  Meter!Next
    <3>1. step_cycle = NoStep
      BY <1>2, <2>1 DEF CallbackReadMem, CallbackWriteMem, IInv, TypeOK
    <3>2. QED BY <2>1, <3>1
              DEF CallbackReadMem, CallbackWriteMem, segment, Meter!Next,
                  Meter!Touch, NoStep, Meter!NoStep
  <2>2. ASSUME NEW c \in StepCycles, CallbackStep(c)
        PROVE  Meter!Next
    <3>1. step_cycle = NoStep
      BY <1>2, <2>2 DEF CallbackStep, IInv, TypeOK
    <3>2. QED BY <2>2, <3>1
              DEF CallbackStep, segment, touched, Meter!Next, Meter!Finish,
                  NoStep, Meter!NoStep
  <2>3. ASSUME TakePage \/ Climb \/ EndWalk \/ TurnToWrites \/ UNCHANGED vars
        PROVE  UNCHANGED Meter!meterVars
    BY <2>3 DEF TakePage, Climb, EndWalk, TurnToWrites, vars, segment, touched,
                Meter!meterVars
  <2>4. ASSUME RoundDone
        PROVE  /\ step_cycle # Meter!NoStep
               /\ Meter!StepTotal = StepTotal
               /\ Meter!Fits <=> ~Overflows
    <3>1. /\ step_cycle \in Nat /\ step_cycle # NoStep
          /\ new_segment_resident = Closure(cur_step_read) \ cur_segment_resident
          /\ new_segment_dirty = Closure(cur_step_write) \ cur_segment_dirty
      BY <1>2, <2>4, RoundDoneFacts
    <3>2. page_cycle = Cost(new_segment_resident) + Cost(new_segment_dirty)
      BY <1>2 DEF IInv, NewPages
    <3>3. Cost(new_segment_resident) \in Nat /\ Cost(new_segment_dirty) \in Nat
      BY <1>2, CostType DEF IInv, TypeOK
    <3>4. Meter!StepTotal = StepTotal
      <4>1. /\ Meter!MissingResident = new_segment_resident
            /\ Meter!MissingDirty = new_segment_dirty
        BY <3>1 DEF Meter!MissingResident, Meter!MissingDirty
      <4>2. Meter!StepTotal = step_cycle + Cost(new_segment_resident)
                                + Cost(new_segment_dirty)
        BY <4>1 DEF Meter!StepTotal
      <4>3. QED BY <3>1, <3>2, <3>3, <4>2 DEF StepTotal
    <3>5. StepTotal \in Nat /\ cur_segment_cycle \in Nat
      BY <1>2, <3>1 DEF IInv, TypeOK, StepTotal
    <3>6. Meter!Fits <=> ~Overflows
      BY <3>4, <3>5, PricingAssumption DEF Meter!Fits, Overflows
    <3>7. QED BY <3>1, <3>4, <3>6 DEF NoStep, Meter!NoStep
  <2>5. ASSUME NewSegment PROVE Meter!Next
    BY <2>4, <2>5 DEF NewSegment, CountSegment, UnloadPages, touched,
                      Meter!Next, Meter!Seal
  <2>6. ASSUME Settle PROVE Meter!Next
    <3>1. /\ cur_segment_resident \cup new_segment_resident
               = cur_segment_resident \cup Closure(cur_step_read)
          /\ cur_segment_dirty \cup new_segment_dirty
               = cur_segment_dirty \cup Closure(cur_step_write)
      BY <1>2, <2>6, RoundDoneFacts DEF Settle
    <3>2. QED BY <2>4, <2>6, <3>1
              DEF Settle, LoadPages, Meter!Next, Meter!Charge, NoStep, Meter!NoStep
  <2>7. QED BY <1>2, <2>1, <2>2, <2>3, <2>5, <2>6 DEF Next, CallbackStepLoop
<1>3. QED BY <1>1, <1>2, InvariantCorrect, PTL
          DEF Spec, ImplementsMeter, Meter!Spec

-----------------------------------------------------------------------------
(* callback_step nears its end.                                            *)

(* An instruction has read a page, and a segment in which nothing is       *)
(* loaded has not been charged anything.                                   *)
SegmentUsed ==
  /\ phase # "exec" => cur_step_read # {}
  /\ cur_segment_resident = {} => cur_segment_dirty = {} /\ op_spent = 0

(* Settle loads at least the page that was fetched from.                   *)
LEMMA SegmentUsedKeeps ==
  ASSUME IInv, SegmentUsed, [Next]_vars
  PROVE  SegmentUsed'
<1>1. CASE \E p \in UserPage : CallbackReadMem(p) \/ CallbackWriteMem(p)
  BY <1>1 DEF SegmentUsed, CallbackReadMem, CallbackWriteMem, segment
<1>2. CASE \E c \in StepCycles : CallbackStep(c)
  BY <1>2 DEF SegmentUsed, CallbackStep, segment, touched
<1>3. CASE TakePage \/ Climb \/ EndWalk \/ TurnToWrites
  BY <1>3 DEF SegmentUsed, TakePage, Climb, EndWalk, TurnToWrites, segment, touched
<1>4. CASE NewSegment
  BY <1>4 DEF SegmentUsed, NewSegment, RoundDone, CountSegment, UnloadPages, touched
<1>5. CASE Settle
  <2>1. /\ RoundDone /\ phase' = "exec"
        /\ cur_segment_resident' = cur_segment_resident \cup new_segment_resident
    BY <1>5 DEF Settle, LoadPages
  <2>2. cur_segment_resident' = cur_segment_resident \cup Closure(cur_step_read)
    BY <2>1, RoundDoneFacts
  <2>3. cur_step_read # {} /\ cur_step_read \in SUBSET Page
    BY <2>1, PricingAssumption DEF RoundDone, SegmentUsed, IInv, TypeOK
  <2>4. cur_step_read \subseteq Closure(cur_step_read)
    BY <2>3, ClosureFacts
  <2>5. QED BY <2>1, <2>2, <2>3, <2>4 DEF SegmentUsed
<1>6. CASE UNCHANGED vars
  BY <1>6 DEF SegmentUsed, vars, segment, touched
<1>7. QED BY <1>1, <1>2, <1>3, <1>4, <1>5, <1>6 DEF Next, CallbackStepLoop

(* How many pages there are in a set, without one of them and outside it.  *)
LEMMA CountPages ==
  ASSUME NEW S \in SUBSET Page
  PROVE  /\ Cardinality(S) \in Nat /\ Cardinality(Page \ S) \in Nat
         /\ Cardinality(Page \ S) <= Cardinality(Page)
         /\ Cardinality(Page) \in Nat
         /\ \A p \in S : Cardinality(S \ {p}) = Cardinality(S) - 1
<1>1. IsFiniteSet(Page) /\ Page \ S \subseteq Page
  BY PricingAssumption
<1>2. IsFiniteSet(S) /\ IsFiniteSet(Page \ S)
  BY <1>1, FS_Subset
<1>3. Cardinality(Page \ S) <= Cardinality(Page)
  BY <1>1, FS_Subset
<1>4. ASSUME NEW p \in S PROVE Cardinality(S \ {p}) = Cardinality(S) - 1
  BY <1>2, FS_RemoveElement
<1>5. QED BY <1>1, <1>2, <1>3, <1>4, FS_CardinalityType

(* What the counts of iterations are made of.                              *)
LEMMA LeftTypes ==
  ASSUME TypeOK
  PROVE  /\ Cardinality(todo) \in Nat
         /\ LoopLeft(new_segment_resident) \in Nat /\ LoopLeft(new_segment_dirty) \in Nat
         /\ WholeLoop(cur_step_read) \in Nat /\ WholeLoop(cur_step_write) \in Nat
         /\ RoundLeft \in Nat
<1>1. /\ todo \in SUBSET Page
      /\ cur_step_read \in SUBSET Page /\ cur_step_write \in SUBSET Page
      /\ new_segment_resident \in SUBSET Page /\ new_segment_dirty \in SUBSET Page
  BY PricingAssumption DEF TypeOK
<1>2. /\ Cardinality(todo) \in Nat
      /\ LoopLeft(new_segment_resident) \in Nat /\ LoopLeft(new_segment_dirty) \in Nat
      /\ WholeLoop(cur_step_read) \in Nat /\ WholeLoop(cur_step_write) \in Nat
  <2>1. /\ Cardinality(todo) \in Nat /\ Cardinality(Page) \in Nat
        /\ Cardinality(cur_step_read) \in Nat /\ Cardinality(cur_step_write) \in Nat
    BY <1>1, CountPages
  <2>2. /\ Cardinality(Page \ new_segment_resident) \in Nat
        /\ Cardinality(Page \ new_segment_dirty) \in Nat
    BY <1>1, CountPages
  <2>3. LoopLeft(new_segment_resident) \in Nat /\ LoopLeft(new_segment_dirty) \in Nat
    BY <2>1, <2>2 DEF LoopLeft
  <2>4. WholeLoop(cur_step_read) \in Nat /\ WholeLoop(cur_step_write) \in Nat
    BY <2>1 DEF WholeLoop
  <2>5. QED BY <2>1, <2>3, <2>4
<1>3. RoundLeft \in Nat
  BY <1>2 DEF RoundLeft
<1>4. QED BY <1>2, <1>3

(* A walk begins once for each page touched, loads each page once, and     *)
(* ends; then comes the other loop.                                        *)
LEMMA RoundNearsItsEnd ==
  ASSUME IInv, TakePage \/ Climb \/ EndWalk \/ TurnToWrites
  PROVE  RoundLeft' \in Nat /\ RoundLeft' < RoundLeft
<1> DEFINE new == IF phase = "read" THEN new_segment_resident ELSE new_segment_dirty
           at == IF cur_page_idx = NoPage THEN 0 ELSE 1
           behind == IF phase = "read" THEN 1 + WholeLoop(cur_step_write) ELSE 0
           here == Cardinality(todo)
           open == Cardinality(Page \ new)
<1>1. /\ todo \in SUBSET Page /\ phase \in {"read", "write"}
      /\ new_segment_resident \in SUBSET Page /\ new_segment_dirty \in SUBSET Page
      /\ new \in SUBSET Page /\ cur_step_write \in SUBSET Page
  BY PricingAssumption
  DEF IInv, TypeOK, TakePage, Climb, EndWalk, TurnToWrites
<1>2. here \in Nat /\ open \in Nat /\ behind \in Nat
  <2>1. here \in Nat
    BY <1>1, CountPages
  <2>2. open \in Nat
    <3> HIDE DEF new
    <3>1. QED BY <1>1, CountPages
  <2>3. behind \in Nat
    BY LeftTypes DEF IInv
  <2>4. QED BY <2>1, <2>2, <2>3
<1>3. /\ RoundLeft = IF phase = "read" THEN LoopLeft(new) + 1 + WholeLoop(cur_step_write)
                                       ELSE LoopLeft(new)
      /\ LoopLeft(new) = 2 * here + open + at
  BY DEF RoundLeft, LoopLeft
<1>4. WholeLoop(cur_step_write) \in Nat
  BY LeftTypes DEF IInv
<1>5. RoundLeft = (2 * here + open + at) + behind
  <2> HIDE DEF new, here, open, at
  <2>1. at \in Nat
    BY DEF at
  <2>2. QED BY <1>2, <1>3, <1>4, <2>1
<1>6. ASSUME phase' = phase, UNCHANGED cur_step_write, here' \in Nat, open' \in Nat
      PROVE  RoundLeft' = (2 * here' + open' + at') + behind
  <2>1. /\ RoundLeft' = IF phase' = "read" THEN LoopLeft(new)' + 1 + WholeLoop(cur_step_write)'
                                           ELSE LoopLeft(new)'
        /\ LoopLeft(new)' = 2 * here' + open' + at'
    BY DEF RoundLeft, LoopLeft
  <2>2. WholeLoop(cur_step_write)' = WholeLoop(cur_step_write)
    BY <1>6 DEF WholeLoop
  <2>3. at' \in Nat
    OBVIOUS
  <2> HIDE DEF new, here, open, at
  <2>4. QED BY <1>2, <1>4, <1>6, <2>1, <2>2, <2>3
<1>7. CASE TakePage
  <2>1. PICK p \in todo : cur_page_idx' = p /\ todo' = todo \ {p}
    BY <1>7 DEF TakePage
  <2>2. /\ cur_page_idx = NoPage
        /\ UNCHANGED <<phase, cur_step_write, new_segment_resident, new_segment_dirty>>
    BY <1>7 DEF TakePage, touched
  <2>3. cur_page_idx' # NoPage
    BY <1>1, <2>1, PageFacts
  <2>4. here' = here - 1 /\ here' \in Nat
    <3>1. todo' \in SUBSET Page
      BY <1>1, <2>1
    <3>2. QED BY <1>1, <2>1, <3>1, CountPages
  <2>5. open' = open /\ at = 0 /\ at' = 1
    BY <2>2, <2>3
  <2>6. RoundLeft' = (2 * here' + open' + at') + behind
    BY <1>2, <1>6, <2>2, <2>4, <2>5
  <2> HIDE DEF new, here, open, at, behind
  <2>7. QED BY <1>2, <1>5, <2>4, <2>5, <2>6
<1>8. CASE Climb
  <2>1. /\ cur_page_idx # NoPage /\ cur_page_idx \notin new
        /\ UNCHANGED <<phase, todo, cur_step_write>>
    BY <1>8 DEF Climb, Seen, touched
  <2>2. cur_page_idx \in Page
    BY <2>1 DEF IInv, TypeOK
  <2>3. new' = new \cup {cur_page_idx}
    BY <1>1, <1>8 DEF Climb
  <2>4. open' = open - 1
    <3>1. Page \ new' = (Page \ new) \ {cur_page_idx}
      BY <2>3
    <3>2. cur_page_idx \in Page \ new /\ Page \ new \in SUBSET Page
      BY <2>1, <2>2
    <3> HIDE DEF new
    <3>3. Cardinality((Page \ new) \ {cur_page_idx}) = Cardinality(Page \ new) - 1
      BY <3>2, CountPages
    <3>4. QED BY <3>1, <3>3
  <2>5. open' \in Nat
    <3>1. new' \in SUBSET Page
      BY <1>1, <2>2, <2>3
    <3> HIDE DEF new
    <3>2. QED BY <3>1, CountPages
  <2>6. here' = here /\ at = 1 /\ at' <= 1 /\ at' \in Nat
    BY <2>1
  <2>7. RoundLeft' = (2 * here' + open' + at') + behind
    BY <1>2, <1>6, <2>1, <2>5, <2>6
  <2> HIDE DEF new, here, open, at, behind
  <2>8. RoundLeft' = (2 * here + (open - 1) + at') + behind
    BY <2>4, <2>6, <2>7
  <2>9. RoundLeft = (2 * here + open + 1) + behind
    BY <1>5, <2>6
  <2>10. \A m, n, k, i \in Nat :
           i <= 1 /\ n - 1 \in Nat =>
             /\ (2 * m + (n - 1) + i) + k \in Nat
             /\ (2 * m + (n - 1) + i) + k < (2 * m + n + 1) + k
    OBVIOUS
  <2>11. open - 1 \in Nat
    BY <2>4, <2>5
  <2>12. QED BY ONLY <1>2, <2>6, <2>8, <2>9, <2>10, <2>11
<1>9. CASE EndWalk
  <2>1. /\ cur_page_idx # NoPage /\ cur_page_idx' = NoPage
        /\ UNCHANGED <<phase, todo, cur_step_write, new_segment_resident, new_segment_dirty>>
    BY <1>9 DEF EndWalk, touched
  <2>2. here' = here /\ open' = open /\ at = 1 /\ at' = 0
    BY <2>1
  <2>3. RoundLeft' = (2 * here' + open' + at') + behind
    BY <1>2, <1>6, <2>1, <2>2
  <2> HIDE DEF new, here, open, at, behind
  <2>4. QED BY <1>2, <1>5, <2>2, <2>3
<1>10. CASE TurnToWrites
  <2>1. /\ phase = "read" /\ phase' = "write" /\ cur_page_idx = NoPage /\ cur_page_idx' = NoPage
        /\ todo' = cur_step_write /\ UNCHANGED new_segment_dirty
    BY <1>10 DEF TurnToWrites
  <2> DEFINE writes == Cardinality(cur_step_write)
             clean == Cardinality(Page \ new_segment_dirty)
  <2>2. /\ writes \in Nat /\ clean \in Nat /\ clean <= Cardinality(Page)
        /\ Cardinality(Page) \in Nat
    BY <1>1, CountPages
  <2>3. RoundLeft' = 2 * writes + clean + 0
    BY <2>1 DEF RoundLeft, LoopLeft
  <2>4. behind = 1 + (2 * writes + Cardinality(Page))
    BY <2>1 DEF WholeLoop
  <2>5. at = 0
    BY <2>1
  <2> HIDE DEF new, here, open, at, behind, writes, clean
  <2>6. QED BY <1>2, <1>5, <2>2, <2>3, <2>4, <2>5
<1>11. QED BY <1>7, <1>8, <1>9, <1>10

(* An instruction that an empty segment can hold does not overflow it: its *)
(* segment has pages, and is empty for the round that follows.             *)
LEMMA SealedOnce ==
  ASSUME IInv, SegmentUsed, FitsAlone, NewSegment
  PROVE  CallLeft' < CallLeft
<1>1. RoundDone /\ Overflows
  BY DEF NewSegment
<1>2. /\ step_cycle \in Nat
      /\ new_segment_resident = Closure(cur_step_read) \ cur_segment_resident
      /\ new_segment_dirty = Closure(cur_step_write) \ cur_segment_dirty
  BY <1>1, RoundDoneFacts
<1>3. cur_segment_resident # {}
  <2> SUFFICES ASSUME cur_segment_resident = {} PROVE FALSE
    OBVIOUS
  <2>1. cur_segment_dirty = {} /\ op_spent = 0
    BY DEF SegmentUsed
  <2>2. cur_segment_cycle = 0
    BY <2>1, CostType DEF IInv, PaidOnce
  <2>3. page_cycle = Cost(Closure(cur_step_read)) + Cost(Closure(cur_step_write))
    <3>1. /\ new_segment_resident = Closure(cur_step_read)
          /\ new_segment_dirty = Closure(cur_step_write)
      BY <1>2, <2>1
    <3>2. QED BY <3>1 DEF IInv, NewPages
  <2>4. Cost(Closure(cur_step_read)) \in Nat /\ Cost(Closure(cur_step_write)) \in Nat
    <3>1. cur_step_read \in SUBSET Page /\ cur_step_write \in SUBSET Page
      BY PricingAssumption DEF IInv, TypeOK
    <3>2. QED BY <3>1, ClosureFacts, CostType
  <2>5. FixedCycle \in Nat /\ SegmentLimit \in Nat
    BY PricingAssumption
  <2>6. QED BY <1>1, <1>2, <2>2, <2>3, <2>4, <2>5 DEF Overflows, StepTotal, FitsAlone
<1>4. /\ cur_segment_resident' = {} /\ phase' = "read" /\ todo' = cur_step_read
      /\ cur_page_idx' = NoPage /\ new_segment_resident' = {}
      /\ UNCHANGED <<cur_step_read, cur_step_write>>
  BY DEF NewSegment, UnloadPages, StartRound, touched
<1>5. WholeLoop(cur_step_read) \in Nat /\ WholeLoop(cur_step_write) \in Nat /\ RoundLeft \in Nat
  BY LeftTypes DEF IInv
<1>6. CallLeft' = WholeLoop(cur_step_read) + 1 + WholeLoop(cur_step_write)
  <2>1. Page \ {} = Page
    OBVIOUS
  <2>2. Cardinality(cur_step_read) \in Nat /\ Cardinality(Page) \in Nat
    <3>1. cur_step_read \in SUBSET Page
      BY PricingAssumption DEF IInv, TypeOK
    <3>2. QED BY <3>1, CountPages
  <2>3. LoopLeft({})' = WholeLoop(cur_step_read)
    BY <1>4, <2>1, <2>2 DEF LoopLeft, WholeLoop
  <2>4. WholeLoop(cur_step_write)' = WholeLoop(cur_step_write)
    BY <1>4 DEF WholeLoop
  <2>5. RoundLeft' = LoopLeft({})' + 1 + WholeLoop(cur_step_write)'
    BY <1>4 DEF RoundLeft, LoopLeft
  <2>6. QED BY <1>4, <1>5, <2>3, <2>4, <2>5 DEF CallLeft
<1>7. CallLeft = RoundLeft + (WholeLoop(cur_step_read) + WholeLoop(cur_step_write) + 2)
  BY <1>3 DEF CallLeft
<1>8. QED BY <1>5, <1>6, <1>7

(* callback_step returns for every instruction that an empty segment can   *)
(* hold, within the number of iterations that its pages and the page tree  *)
(* allow: `redo` repeats a round once, and every walk reaches the root or  *)
(* a page that is loaded.                                                  *)
THEOREM CallbackStepEnds == Spec => CallbackStepNearsItsEnd
<1>1. ASSUME IInv, SegmentUsed, [Next]_vars
      PROVE  [CallbackStepLoop /\ FitsAlone /\ phase' # "exec" => CallLeft' < CallLeft]_vars
  <2> SUFFICES ASSUME CallbackStepLoop, FitsAlone, phase' # "exec"
               PROVE  CallLeft' < CallLeft
    OBVIOUS
  <2>1. CASE NewSegment
    BY <1>1, <2>1, SealedOnce
  <2>2. CASE TakePage \/ Climb \/ EndWalk \/ TurnToWrites
    <3>1. RoundLeft' \in Nat /\ RoundLeft' < RoundLeft
      BY <1>1, <2>2, RoundNearsItsEnd
    <3>2. UNCHANGED <<cur_segment_resident, cur_step_read, cur_step_write>>
      BY <2>2 DEF TakePage, Climb, EndWalk, TurnToWrites, segment, touched
    <3> DEFINE again == IF cur_segment_resident = {} THEN 0
                        ELSE WholeLoop(cur_step_read) + WholeLoop(cur_step_write) + 2
    <3>3. CallLeft = RoundLeft + again /\ CallLeft' = RoundLeft' + again'
      BY DEF CallLeft
    <3>4. again \in Nat /\ RoundLeft \in Nat
      BY <1>1, LeftTypes DEF IInv
    <3>5. again' = again
      BY <3>2 DEF WholeLoop
    <3> HIDE DEF again
    <3>6. CallLeft' = RoundLeft' + again
      BY <3>3, <3>5
    <3>7. \A m, n, k \in Nat : m < n => m + k < n + k
      OBVIOUS
    <3>8. QED BY ONLY <3>1, <3>3, <3>4, <3>6, <3>7
  <2>3. QED BY <2>1, <2>2 DEF CallbackStepLoop, Settle
<1>2. Init => SegmentUsed
  BY DEF Init, SegmentUsed
<1>3. IInv /\ SegmentUsed /\ [Next]_vars => SegmentUsed'
  BY SegmentUsedKeeps
<1>4. QED BY <1>1, <1>2, <1>3, InvariantCorrect, PTL DEF Spec, CallbackStepNearsItsEnd
=============================================================================
