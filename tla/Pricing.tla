------------------------------- MODULE Pricing -------------------------------
(***************************************************************************)
(* What src/vm/session_cycle.rs charges for: the tree of memory pages and  *)
(* the constants of a segment.                                             *)
(*                                                                         *)
(* A page of guest memory is named by its index (address >> 10).  The hash *)
(* of a page lives in a table above the guest memory, so the page holding  *)
(* that hash is the page's parent; the walk in callback_step climbs from a *)
(* page to its parent until it reaches the root or a page already loaded.  *)
(***************************************************************************)
EXTENDS Integers, FiniteSets

CONSTANTS
  Page,         (* the page indexes of the model, closed under Parent      *)
  UserPage,     (* those of them that the guest accesses                   *)
  Root,         (* index of the root page, 219862 in the source            *)
  TableBase,    (* page index of the hash table, 0x0D00_0000 >> 10         *)
  Arity,        (* hashes in a page, 1024 / 32                             *)
  PageCycle,    (* cycles to hash a page, 1 + 5 + (16 + 52) * 16           *)
  RootCycle,    (* cycles to hash the shorter root, 1 + 5 + (16 + 52) * 11 *)
  StepCycles,   (* values of opcode_cycle + extra_cycle                    *)
  FixedCycle,   (* PRE_CYCLE + POST_CYCLE + OTHER_CONST_CYCLE              *)
  SegmentLimit  (* cycles a segment can hold, 1048576                      *)

(* (0x0D00_0000 + cur_page_idx * 32) >> 10, the table being page aligned.  *)
Parent(p) == TableBase + p \div Arity

ASSUME PricingAssumption ==
  /\ Page \subseteq Nat /\ IsFiniteSet(Page)
  /\ UserPage \subseteq Page
  /\ Root \in Page
  /\ TableBase \in Nat /\ Arity \in Nat \ {0}
  /\ \A p \in Page : Parent(p) \in Page
  /\ PageCycle \in Nat /\ RootCycle \in Nat
  /\ StepCycles \subseteq Nat
  /\ FixedCycle \in Nat /\ SegmentLimit \in Nat
  /\ FixedCycle <= SegmentLimit

(* A set of pages that holds the parent of each of its pages.              *)
ParentClosed(S) == \A p \in S : p = Root \/ Parent(p) \in S

(* Ancestors[p] is the least parent-closed set with p: what a walk from p  *)
(* loads when nothing is loaded yet.                                       *)
Ancestors ==
  [p \in Page |-> {q \in Page : \A T \in SUBSET Page :
                                  p \in T /\ ParentClosed(T) => q \in T}]

Closure(S) == UNION {Ancestors[p] : p \in S}

(* What loading, or storing back, the pages of S costs.                    *)
Cost(S) == PageCycle * Cardinality(S \ {Root})
             + (IF Root \in S THEN RootCycle ELSE 0)
=============================================================================
