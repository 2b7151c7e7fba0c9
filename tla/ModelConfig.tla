---------------------------- MODULE ModelConfig ----------------------------
(***************************************************************************)
(* The settings of one model: how they are taken from an entry of the      *)
(* configuration file or from the command line, and when two of them       *)
(* differ so that the model must be loaded again.                          *)
(*                                                                         *)
(* An entry is a record.  Its batch size and its shapes are values with    *)
(* the form they were written in; of layout, plugin options and version    *)
(* policy it matters only whether they are absent, wrong or which of       *)
(* several right ones they are; of the options for sequences, whether they *)
(* are absent, ask for the low latency transformation or only set limits.  *)
(* The flag stateful is absent or has a value.  The target device, number of *)
(* requests, the version and the use of the cache are copied as they are   *)
(* and are one field, "rest".                                              *)
(***************************************************************************)
EXTENDS Integers, Sequences, Functions

CONSTANTS
    ANONYMOUS_INPUT_NAME,   \* the input that a shape without a name is for
    DIMENSION_MAX           \* the largest dimension

\* The number 0 is a batch size; the text 0, like a text that is none, leaves
\* the model's own.
extractBatchingParams(b) ==
    [mode |-> IF b.form = "auto" THEN "AUTO" ELSE "FIXED",
     size |-> IF b.form = "number" \/ (b.form = "text" /\ b.value # 0) THEN <<b.value>> ELSE <<>>]

\* Shape::fromString takes what is positive or -1; a list in the file may have
\* any number that is not negative.
ValidShape(s) ==
    CASE s.form = "auto" -> TRUE
      [] s.form = "text" -> s.dims # <<>> /\ \A d \in Range(s.dims) : d = -1 \/ d \in 1..DIMENSION_MAX
      [] s.form = "list" -> \A d \in Range(s.dims) : d \in 0..DIMENSION_MAX
      [] OTHER -> FALSE
parseShape(s) == [mode |-> IF s.form = "auto" THEN "AUTO" ELSE "FIXED", dims |-> s.dims]
ParseShapes(shape, inputs) == [i \in inputs |-> parseShape(shape.of[i])]

\* In the file shapes that are wrong are left out, without an error; so is one
\* under the name that stands for no name.
NodeShapes_Named(shape) == {i \in DOMAIN shape.of : ValidShape(shape.of[i]) /\ i # ANONYMOUS_INPUT_NAME}
NodeShapes(shape) ==
    {i \in DOMAIN shape.of : ValidShape(shape.of[i]) /\ (shape.anonymous \/ i # ANONYMOUS_INPUT_NAME)}

\* On the command line a shape that is wrong, or a list, is an error.
CliShapesValid(shape) == \A i \in DOMAIN shape.of : ValidShape(shape.of[i]) /\ shape.of[i].form # "list"

\* Settings taken the same way from both: a shape takes precedence over a batch
\* size, a wrong version policy leaves the default one.
Settings(v, batching, shapes) ==
    [name |-> v.name, base |-> v.base, rest |-> v.rest,
     mode |-> IF DOMAIN shapes # {} THEN "FIXED" ELSE batching.mode,
     size |-> IF DOMAIN shapes # {} THEN <<>> ELSE batching.size,
     shapes |-> shapes,
     layout |-> v.layout, plugin |-> v.plugin, stateful |-> v.stateful = "true", sequences |-> v.sequences,
     policy |-> IF v.policy \in {"absent", "wrong"} THEN "default" ELSE v.policy,
     loader |-> IF v.loader = "wrong" THEN "absent" ELSE v.loader]

\* parseNode: only these mistakes make an entry of the file invalid.
NodeValid(v) ==
    /\ v.layout # "wrong" /\ v.plugin # "wrong"
    /\ v.sequences # "absent" => v.stateful = "true" /\ v.sequences # "tooMany"
parseNode(v) == Settings(v, extractBatchingParams(v.batch), ParseShapes(v.shape, NodeShapes(v.shape)))

validatePluginConfiguration(c) == c.plugin # "unsupported"

\* Config::validate and startFromConfig: on the command line every mistake ends
\* the server, but for a batch size that is none, and for options for sequences
\* beside a stateful flag that is given as false.
CliValid(v) ==
    /\ v.plugin \notin {"wrong", "unsupported"} /\ v.policy # "wrong" /\ v.layout # "wrong"
    /\ v.sequences # "absent" => v.stateful # "absent"
    /\ CliShapesValid(v.shape)
CliBatching(b) ==
    extractBatchingParams([form |-> IF b.form = "number" THEN "text" ELSE b.form, value |-> b.value])
startFromConfig(v) == Settings(v, CliBatching(v.batch), ParseShapes(v.shape, DOMAIN v.shape.of))

isDynamicParameterEnabled(c) == c.mode = "AUTO" \/ \E i \in DOMAIN c.shapes : c.shapes[i].mode = "AUTO"

\* What is compared one by one in the code; the version policy is not, it is
\* applied at each update.
Compared ==
    {"name", "stateful", "sequences", "base", "rest", "mode", "size", "plugin", "layout", "shapes", "loader"}
isReloadRequired(a, b) == \E f \in Compared : a[f] # b[f]
=============================================================================
