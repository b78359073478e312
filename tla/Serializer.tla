----------------------------- MODULE Serializer -----------------------------
(***************************************************************************)
(* to_vec of src/serializer/mod.rs: what serde hands to the Serializer for *)
(* a value, as a tree, and the words written for it.  An "int" stands for  *)
(* every fixed-size value that is written as a number: bool, char, the     *)
(* integers and the bits of a float; "text" for str and bytes, "product"   *)
(* for tuples and structs.                                                 *)
(***************************************************************************)
EXTENDS Padding, SequencesExt

Num(size, n)           == [kind |-> "int", size |-> size, n |-> n]
Text(s)                == [kind |-> "text", s |-> s]
Nothing                == [kind |-> "none"]
Some(v)                == [kind |-> "some", v |-> v]
Variant(index, fields) == [kind |-> "variant", index |-> index, fields |-> fields]
Struct(fields)         == [kind |-> "product", fields |-> fields]
(* known: serde passes the length, as it does for a Vec or a map.          *)
List(known, items)     == [kind |-> "seq", known |-> known, items |-> items]
Map(known, pairs)      == [kind |-> "map", known |-> known, pairs |-> pairs]
Displayed              == [kind |-> "displayed"]

CONSTANTS
  Values,          (* the values that may be serialized, and their parts   *)
  Depth,           (* how deeply the parts of a value are nested           *)
  InputTypes       (* types: sets of values                                *)

Below(v) == {part \in Values : Depth[part] < Depth[v]}

(* What serde can hand over.  Nothing has 2^32 elements or bytes.          *)
IsValue(v) ==
  \/ v \in {Nothing, Displayed}
  \/ v.kind = "int" /\ v = Num(v.size, v.n) /\ v.size \in {1, 2, 4, 8, 16} /\ v.n \in Int
  \/ v.kind = "text" /\ v = Text(v.s) /\ v.s \in Seq(Byte) /\ Unsigned(Len(v.s), 4)
  \/ v.kind = "some" /\ v = Some(v.v) /\ v.v \in Below(v)
  \/ /\ v.kind = "variant" /\ v = Variant(v.index, v.fields)
     /\ v.index \in Nat /\ Unsigned(v.index, 4) /\ v.fields \in Seq(Below(v))
  \/ v.kind = "product" /\ v = Struct(v.fields) /\ v.fields \in Seq(Below(v))
  \/ /\ v.kind = "seq" /\ v = List(v.known, v.items) /\ v.known \in BOOLEAN
     /\ v.items \in Seq(Below(v)) /\ Unsigned(Len(v.items), 4)
  \/ /\ v.kind = "map" /\ v = Map(v.known, v.pairs) /\ v.known \in BOOLEAN
     /\ v.pairs \in Seq([1 .. 2 -> Below(v)]) /\ Unsigned(Len(v.pairs), 4)

ASSUME ValueAssumption == Depth \in [Values -> Nat] /\ \A v \in Values : IsValue(v)

(* Two values of a type: their kinds, sizes, variants and parts agree.     *)
OneType(v, w) == \E type \in InputTypes : {v, w} \subseteq type

OfOneType(s, t) == Len(s) = Len(t) /\ \A i \in 1 .. Len(s) : OneType(s[i], t[i])

Alike(v, w) ==
  \/ /\ v.kind = "int" /\ w.kind = "int" /\ v.size = w.size
     /\ \/ Unsigned(v.n, Width(v.size)) /\ Unsigned(w.n, Width(v.size))
        \/ Signed(v.n, Width(v.size)) /\ Signed(w.n, Width(v.size))
  \/ v.kind = w.kind /\ v.kind \in {"text", "none", "displayed"}
  \/ {v.kind, w.kind} = {"none", "some"}
  \/ v.kind = "some" /\ w.kind = "some" /\ OneType(v.v, w.v)
  \/ /\ v.kind = "variant" /\ w.kind = "variant"
     /\ v.index = w.index => OfOneType(v.fields, w.fields)
  \/ v.kind = "product" /\ w.kind = "product" /\ OfOneType(v.fields, w.fields)
  \/ /\ v.kind = "seq" /\ w.kind = "seq"
     /\ \A i \in 1 .. Len(v.items), j \in 1 .. Len(w.items) : OneType(v.items[i], w.items[j])
  \/ /\ v.kind = "map" /\ w.kind = "map"
     /\ \A i \in 1 .. Len(v.pairs), j \in 1 .. Len(w.pairs) : OfOneType(v.pairs[i], w.pairs[j])

ASSUME TypeAssumption ==
  \A type \in InputTypes : type \subseteq Values /\ \A v, w \in type : Alike(v, w)

-----------------------------------------------------------------------------
(* One after the other; a failure ends it.                                 *)
Then(first, second) ==
  [outcome |-> IF first.outcome = "Ok" THEN second.outcome ELSE first.outcome,
   words |-> first.words \o second.words]

InOrder(results) ==
  LET upto[n \in 0 .. Len(results)] ==
        IF n = 0 THEN Written(<<>>) ELSE Then(upto[n - 1], results[n])
  IN  upto[Len(results)]

SerializeAll(to_vec, values) == InOrder([i \in 1 .. Len(values) |-> to_vec[values[i]]])

(* A sequence or a map whose length is not known is not supported.         *)
Prefixed(known, n, result) ==
  IF known THEN Then(Written(Length(n)), result)
           ELSE [outcome |-> "NotSupported", words |-> <<>>]

(* serialize of a value, given to_vec for its parts.                       *)
Serialize(to_vec, v) ==
  CASE v.kind = "int" -> Written(Number(v.size, v.n))
    [] v.kind = "text" -> Written(TextWords(v.s))
    [] v.kind = "none" -> Written(Number(4, 0))
    [] v.kind = "some" -> Then(Written(Number(4, 1)), to_vec[v.v])
    [] v.kind = "variant" ->
         Then(Written(Number(4, v.index)), SerializeAll(to_vec, v.fields))
    [] v.kind = "product" -> SerializeAll(to_vec, v.fields)
    [] v.kind = "seq" -> Prefixed(v.known, Len(v.items), SerializeAll(to_vec, v.items))
    [] v.kind = "map" ->
         Prefixed(v.known, Len(v.pairs),
                  InOrder([i \in 1 .. Len(v.pairs) |-> SerializeAll(to_vec, v.pairs[i])]))
    [] v.kind = "displayed" -> [outcome |-> "panic", words |-> <<>>]

ToVec[v \in Values] == Serialize(ToVec, v)
=============================================================================
