---------------------------- MODULE TensorShapes ----------------------------
(***************************************************************************)
(* Dimensions, shapes, layouts and tensor descriptions: what matches what, *)
(* and what two descriptions have in common.  A pipeline's input that      *)
(* feeds several nodes is described by the intersection of what the nodes  *)
(* expect.                                                                 *)
(*                                                                         *)
(* A dimension is a range with both ends in it, or any number at all.  A   *)
(* layout is the sequence of its letters, "?" for an unknown dimension and *)
(* "..." for any number of them.                                           *)
(***************************************************************************)
EXTENDS Integers, Sequences, FiniteSets, SequencesExt, FiniteSetsExt

Range2(min, max) == [min |-> min, max |-> max]
Static(n) == Range2(n, n)
AnyDim == Range2(-1, -1)

isAny(dim) == dim = AnyDim
isDynamic(dim) == dim.min # dim.max \/ dim.min = -1

match(dim, value) ==
    /\ value >= -1
    /\ \/ isAny(dim)
       \/ ~isDynamic(dim) /\ dim.max = value
       \/ isDynamic(dim) /\ dim.min <= value /\ value <= dim.max

partiallyFitsInto(dim, next) ==
    \/ isAny(dim) \/ isAny(next)
    \/ ~isDynamic(dim) /\ match(next, dim.max)
    \/ isDynamic(dim) /\ ~isDynamic(next) /\ match(dim, next.max)
    \/ isDynamic(dim) /\ isDynamic(next) /\ next.min <= dim.max /\ next.max >= dim.min

\* A dimension is not empty and has no negative numbers.
IsDim(dim) == dim = AnyDim \/ (dim \in [min : Nat, max : Nat] /\ dim.min <= dim.max)
IsShape(shape) == shape \in Seq([min : Int, max : Int]) /\ \A i \in DOMAIN shape : IsDim(shape[i])

\* The results that may be absent are sequences of length zero or one.
Nothing == <<>>
Some(x) == <<x>>

createIntersection(dim, other) ==
    LET start == Max({dim.min, other.min})
        end == Min({dim.max, other.max})
    IN  IF isAny(dim) THEN Some(other)
        ELSE IF isAny(other) THEN Some(dim)
        ELSE IF end < start THEN Nothing
        ELSE Some(Range2(start, end))

\* Shape::match of a whole shape, the batch dimension skipped or not.
Matches(shape, values, skip) ==
    /\ Len(shape) = Len(values)
    /\ \A i \in DOMAIN shape : i = skip \/ match(shape[i], values[i])

ShapeIntersection(shape, other) ==
    LET dims == [i \in DOMAIN shape |-> createIntersection(shape[i], other[i])]
    IN  IF Len(shape) # Len(other) \/ (\E i \in DOMAIN shape : dims[i] = Nothing) THEN Nothing
        ELSE Some([i \in DOMAIN shape |-> dims[i][1]])

-----------------------------------------------------------------------------
\* Layouts

Etc == "..."
Letters == {"N", "C", "H", "W", "D", "?", Etc}
\* Layout::validate: each dimension, and "...", at most once.
IsLayout(layout) ==
    layout \in Seq(Letters) /\ \A i, j \in DOMAIN layout : layout[i] = layout[j] /\ layout[i] # "?" => i = j
containsEtc(layout) == Etc \in ToSet(layout)
KnownDimensions(layout) == Cardinality({i \in DOMAIN layout : layout[i] # Etc})

\* "..." spelled out as unknown dimensions; Nothing when there is no room.
Expand(layout, n) ==
    IF ~containsEtc(layout) THEN Some(layout)
    ELSE IF KnownDimensions(layout) > n THEN Nothing
    ELSE LET at == CHOOSE i \in DOMAIN layout : layout[i] = Etc
         IN  Some(SubSeq(layout, 1, at - 1) \o [i \in 1 .. n - KnownDimensions(layout) |-> "?"]
                  \o SubSeq(layout, at + 1, Len(layout)))

\* One position after another; what the left layout learns on the way is
\* looked at by the positions after it.
MeetAt_SamePlaceOnly(lhs, rhs, i) ==
    IF lhs = Nothing \/ lhs[1][i] = rhs[i] THEN lhs
    ELSE IF lhs[1][i] = "?" THEN Some([lhs[1] EXCEPT ![i] = rhs[i]])
    ELSE IF rhs[i] = "?" THEN lhs
    ELSE Nothing

MeetAt(lhs, rhs, i) ==
    IF lhs = Nothing \/ lhs[1][i] = rhs[i] THEN lhs
    ELSE IF rhs[i] # "?" /\ rhs[i] \in ToSet(lhs[1]) THEN Nothing
    ELSE IF lhs[1][i] = "?" THEN Some([lhs[1] EXCEPT ![i] = rhs[i]])
    ELSE IF rhs[i] = "?" THEN lhs
    ELSE Nothing

MeetAll(lhs, rhs, n) == FoldLeft(LAMBDA l, i : MeetAt(l, rhs, i), lhs, [i \in 1 .. n |-> i])

LayoutIntersection(layout, other, n) ==
    LET lhs == Expand(layout, n)
        rhs == Expand(other, n)
    IN  IF lhs = Nothing \/ rhs = Nothing THEN Nothing
        ELSE IF Len(lhs[1]) # n \/ Len(rhs[1]) # n THEN Nothing
        ELSE MeetAll(lhs, rhs[1], n)

\* Position of the batch dimension, zero when the layout does not say.
getBatchIndex(layout) ==
    LET batch == {i \in DOMAIN layout : layout[i] = "N"}
        etc == {i \in DOMAIN layout : layout[i] = Etc}
    IN  IF layout = <<Etc>> THEN 1
        ELSE IF batch = {} \/ (\E i \in batch, j \in etc : i > j) THEN 0
        ELSE Min(batch)

\* TensorInfo::createIntersection of two descriptions with the same names.
InfoIntersection(info, other) ==
    LET shape == ShapeIntersection(info.shape, other.shape)
        layout == LayoutIntersection(info.layout, other.layout, Len(info.shape))
    IN  IF info.precision # other.precision /\ "UNDEFINED" \notin {info.precision, other.precision} THEN Nothing
        ELSE IF shape = Nothing \/ layout = Nothing THEN Nothing
        ELSE Some([precision |-> IF info.precision = "UNDEFINED" THEN other.precision ELSE info.precision,
                   shape |-> shape[1], layout |-> layout[1]])
=============================================================================
