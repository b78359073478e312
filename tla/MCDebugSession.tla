--------------------------- MODULE MCDebugSession ---------------------------
(***************************************************************************)
(* Instances of DebugSession: a guest that loops, pauses, halts and jumps  *)
(* out of its code, and that writes a word and, in an ecall, a byte.       *)
(***************************************************************************)
EXTENDS DebugSession

Goes(next, touch) == [ecall |-> FALSE, exit |-> "none", next |-> next,
                      touch |-> touch]
Ecall(next, touch) == [Goes(next, touch) EXCEPT !.ecall = TRUE]
Ends(exit) == [ecall |-> TRUE, exit |-> exit, next |-> {}, touch |-> <<>>]
Writes(addr, len) == <<[addr |-> addr, len |-> len, write |-> TRUE]>>

MCCode == 4 :> Goes({8}, Writes(40, 4))
       @@ 8 :> Goes({12, 20}, <<>>)
       @@ 12 :> Ecall({16}, Writes(41, 1))
       @@ 16 :> Ends("Paused")
       @@ 20 :> Goes({4, 24, 28}, <<>>)
       @@ 24 :> Ends("Halted")

MCBreakAddr == {8, 16}
MCWatchArea == {[addr |-> 40, len |-> 2, kind |-> "Write"],
                [addr |-> 42, len |-> 1, kind |-> "ReadWrite"]}
MCStepRange == {<<4, 12>>}
MCPcValue == {4}

None == {}
=============================================================================
