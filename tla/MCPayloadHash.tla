--------------------------- MODULE MCPayloadHash ---------------------------
(* Bodies for TLC: what a client adds to the properties the schema requires, one
   level deep with every leaf, or two levels deep, with up to two elements on
   each.  "e" and "f" are two ways to write one accented letter: they collate
   alike. *)
EXTENDS PayloadHash

MCCollation == [a |-> 1, e |-> 2, f |-> 2]

Leaves == {Null, Infinite, Number("1"), Text("1")}

Sized(S, n) == UNION {[1..k -> S] : k \in 0..n}

EntriesOf(values) == [name : DOMAIN MCCollation, value : values]

ObjectsOf(values) ==
    {Object(entries) : entries \in {es \in Sized(EntriesOf(values), 2) :
                                      Len(es) = 2 => es[1].name # es[2].name}}

Inner == {Null, Array(<< >>), Array(<<Number("1")>>), Array(<<Null, Number("1")>>),
          Object(<<Entry("a", Null), Entry("e", Number("1"))>>),
          Object(<<Entry("e", Number("1")), Entry("a", Null)>>)}

MCBodies == ObjectsOf(Leaves) \cup ObjectsOf(Inner)
============================================================================
