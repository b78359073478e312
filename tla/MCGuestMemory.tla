---------------------------- MODULE MCGuestMemory ----------------------------
(***************************************************************************)
(* GuestMemory with pages of two words; the guest's memory is one page and *)
(* the word beyond its end that the bounds let in.                         *)
(***************************************************************************)
EXTENDS GuestMemory

MCValue == 0 .. 4
MCStoreData == {[i \in 0 .. 3 |-> i + 1]}
MCGuestAddr == {7, 10, 12, 16}
MCSpans == {<<11, 3>>, <<15, 3>>, <<7, 2>>}
WatchedAddr == {7, 8, 10, 15, 16}
MCWatchArea == {[addr |-> 8, len |-> 4, kind |-> "Write"],
                [addr |-> 11, len |-> 5, kind |-> "ReadWrite"],
                [addr |-> 10, len |-> 1, kind |-> "Read"]}
None == {}
JustZero == {0}
ZeroData == {[i \in 0 .. 3 |-> 0]}
=============================================================================
