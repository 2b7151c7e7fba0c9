--------------------------- MODULE MCRestParsing ---------------------------
(* The URLs, documents and binary sizes on which RestParsing is checked.    *)
EXTENDS RestParsing

Segments == {"m", "versions", "7", "99999999999999999999", "labels", "metadata", "ready", "infer", "", ".."}
MCTails == BoundedSeq(Segments, 4)

Leaf(kinds) == [kind : kinds]
Arrays(items, width) == [items : BoundedSeq(items, width)]
Deep(kinds) == Arrays(Leaf(kinds) \cup Arrays(Leaf(kinds), 2), 2)

MCDocuments ==
    Leaf({"int", "b64", "str"}) \cup
    Arrays(Arrays(Leaf({"int"}), 2), 3) \cup
    Deep({"int", "double", "b64", "str"}) \cup
    Arrays(Leaf({"int"}) \cup Arrays(Leaf({"b64", "int"}) \cup Arrays(Leaf({"int"}), 2), 2), 2)

(* Whole elements, a size that is none of FP32 and INT64, and a negative one;  *)
(* a JSON part that is said to be longer than the body, and data of 0 bytes    *)
(* and more, which some of the sizes exceed.                                   *)
MCSizes == {-8, 0, 6, 8}
MCBufferSizes == {-4, 0, 7, 14, 32}
=============================================================================
