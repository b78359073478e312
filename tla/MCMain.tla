------------------------------- MODULE MCMain -------------------------------
(* Small files, inputs and guests.  Each scenario varies one of them.      *)
EXTENDS Main

Data == <<1, 2, 3, 4, 5, 6, 7, 8, 9>>

Seg(loaded, offset, vaddr, filesz, memsz) ==
  [load |-> loaded, offset |-> offset, vaddr |-> vaddr, filesz |-> filesz,
   memsz |-> memsz]
Elf(segments) ==
  [readable |-> TRUE, parsed |-> TRUE, class |-> "ELF32", machine |-> "RISCV", type |-> "EXEC",
   entry |-> 8, segments |-> segments, data |-> Data]

(* They overlap, begin below GUEST_MIN_MEM and at the end of memory, end   *)
(* in the middle of a word, and begin in the file at an odd place.         *)
GoodSegments ==
  {Seg(TRUE, o, v, n[1], n[2]) : o \in {0, 3}, v \in {0, 4, 8},
                                 n \in {<<0, 5>>, <<3, 3>>, <<6, 9>>}}
OddSegments ==
  {Seg(TRUE, 4, 4, n[1], n[2]) : n \in {<<4, 13>>, <<6, 6>>, <<6, 5>>,
                                        <<16, 4>>, <<4, 16>>, <<3, 0>>}}
    \cup {Seg(l, 4, 6, 2, 4) : l \in BOOLEAN}
Segments == GoodSegments \cup OddSegments

Plain == Elf(<<Seg(TRUE, 0, 4, 9, 9)>>)
Files ==
  {Elf(<<s>>) : s \in Segments} \cup {Elf(<<s, t>>) : s, t \in Segments}
    \cup {Elf(<<s, s, s>>) : s \in {Seg(TRUE, 0, 4, 4, 4)}}
    \cup {[Plain EXCEPT !.readable = FALSE], [Plain EXCEPT !.parsed = FALSE], [Plain EXCEPT !.class = "ELF64"],
          [Plain EXCEPT !.machine = "other"], [Plain EXCEPT !.type = "other"],
          [Plain EXCEPT !.entry = 16], [Plain EXCEPT !.entry = 9]}

-----------------------------------------------------------------------------
SmallInts == {Num(1, n) : n \in -1 .. 1}
LongInts == {Num(8, n) : n \in -2 .. 2}
HugeInts == {Num(16, n) : n \in -1 .. 1}
Texts == {Text(s) : s \in {<<>>, <<1>>, <<0>>, <<7, 8, 9, 10, 11>>, <<7, 8, 9, 10>>,
                           <<7, 8, 9, 10, 0>>, <<4, 0, 0, 0>>}}
Options == {Nothing} \cup {Some(v) : v \in SmallInts}
DoubleOptions == {Nothing} \cup {Some(v) : v \in Options}
Enums == {Variant(0, <<>>), Variant(1, <<Num(4, 0)>>), Variant(2, <<Num(4, 0), Num(4, 1)>>)}
Lists == {List(TRUE, items) : items \in {<<>>} \cup {<<v>> : v \in SmallInts}
                                          \cup {<<v, w>> : v, w \in SmallInts}}
Nested == {List(TRUE, items) : items \in {<<>>} \cup {<<v>> : v \in Lists}
                                  \cup {<<v, w>> : v, w \in {List(TRUE, <<>>),
                                                            List(TRUE, <<Num(1, 0)>>)}}}
Maps == {Map(TRUE, pairs) : pairs \in {<<>>} \cup {<<<<k, v>>>> : k \in SmallInts, v \in Options}}
Structs == {Struct(<<v, w>>) : v \in Texts, w \in Options}
Failing == {List(FALSE, <<>>), Map(FALSE, <<>>), Struct(<<Num(1, 0), Displayed>>)}

Indices == {Num(4, n) : n \in 0 .. 1}
MCInputTypes == {SmallInts, LongInts, HugeInts, Texts, Options, DoubleOptions, Enums, Lists,
                 Nested, Maps, Structs, Indices}
Inputs == UNION MCInputTypes \cup Failing
Leaves == UNION {SmallInts, LongInts, HugeInts, Indices, Texts, {Num(4, 12), Nothing, Displayed}}
MCValues == Inputs \cup Leaves
MCDepth ==
  [v \in MCValues |-> IF v \in Leaves THEN 0
                     ELSE IF v \in Options \cup Lists \cup Enums THEN 1 ELSE 2]

-----------------------------------------------------------------------------
SoftwareCall(n, ptr, words, r3, r4, r5) ==
  [name |-> n, ptr |-> ptr, words |-> words, a3 |-> r3, a4 |-> r4, a5 |-> r5]
ReadCall(ptr, words, f, n) == SoftwareCall("SYS_READ", ptr, words, f, n, 0)

ReadCalls ==
  {ReadCall(8, w, 0, 4 * w + n) : w \in 0 .. 2, n \in {0, 3, 4, 5}}
    \cup {ReadCall(p, 1, 0, 5) : p \in {0, 2, 14}}
    \cup {ReadCall(8, 1, 1, 5), ReadCall(8, 1, 0, 3),
          SoftwareCall("SYS_READ_AVAIL", 0, 0, 0, 0, 0),
          SoftwareCall("SYS_READ_AVAIL", 0, 0, 1, 0, 0)}
WriteCalls ==
  {SoftwareCall("SYS_WRITE", 0, 0, f, 8, 5) : f \in {1, 3, 4}}
    \cup {SoftwareCall("SYS_LOG", 0, 0, 4, 2, 0),
          SoftwareCall("SYS_LOG", 0, 0, 15, 3, 0),
          SoftwareCall("SYS_WRITE", 0, 0, 1, 2, 1),
          SoftwareCall("SYS_WRITE", 14, 1, 2, 8, 1)}

Scene(f, v, calls, transfer) ==
  [file |-> f, input |-> v, calls |-> calls, transfer |-> transfer]
Hello == Text(<<7, 8, 9, 10, 11>>)

MCScenarios ==
  {Scene(f, Hello, {}, FALSE) : f \in Files}
    \cup {Scene(Plain, v, {}, FALSE) : v \in Inputs}
    \cup {Scene(Plain, Hello, ReadCalls, FALSE),
          Scene(Plain, Hello, WriteCalls, FALSE),
          Scene(Plain, Num(4, 12), WriteCalls \cup {ReadCall(8, 1, 0, 4)}, FALSE),
          Scene(Plain, Hello, {}, TRUE)}

MCCompress(state, block) == state
MCEmpty == <<>>
MCExecName == <<1, 2, 3>>
MCShaCalls == {}
MCBigintCalls == {}
=============================================================================
