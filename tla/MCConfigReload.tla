-------------------------- MODULE MCConfigReload --------------------------
(* Two models, and a third with a custom loader in the content that ends a   *)
(* load half-way after it was loaded.  In the first content a pipeline uses  *)
(* the first model and the second needs a custom loader; the others make the *)
(* first model dynamic, with the pipeline gone or not, take away the loader, *)
(* remove or spoil the second model or make it stateful, or cannot be read.  *)
EXTENDS ConfigReload

Batch(form, value) == [form |-> form, value |-> value]
NoShape == [anonymous |-> FALSE, of |-> <<>>]
ShapeFor(i, form, dims) == [anonymous |-> i = "any", of |-> (i :> [form |-> form, dims |-> dims])]
Node(n) ==
    [name |-> n, base |-> "p", rest |-> "r", batch |-> Batch("absent", 0), shape |-> NoShape, layout |-> "absent",
     plugin |-> "absent", stateful |-> "absent", sequences |-> "absent", policy |-> "absent", loader |-> "absent"]
Dynamic(n) == [Node(n) EXCEPT !.shape = ShapeFor("any", "auto", <<>>)]
Loaded(n, l) == [Node(n) EXCEPT !.loader = l]
Unsupported(n) == [Node(n) EXCEPT !.plugin = "unsupported"]
Lib(n, where) == [name |-> n, path |-> where]
List(items) == [present |-> TRUE, items |-> items]
NoList == [present |-> FALSE, items |-> {}]
Content(models, used, loaderList, libraryList) ==
    [kind |-> "ok", models |-> models, pipes |-> used, loaders |-> loaderList, libraries |-> libraryList]
Unusable(kind) == [Content(<<>>, {}, NoList, NoList) EXCEPT !.kind = kind]

MCParsed == [
    first   |-> Content(<<Node("a"), Loaded("b", "x")>>, {"a"}, List({"x"}), List({Lib("l", 1)})),
    fewer   |-> Content(<<[Loaded("b", "x") EXCEPT !.shape = ShapeFor("i", "text", <<2>>)]>>, {}, List({"y"}), List({Lib("l", 2)})),
    dynamic |-> Content(<<Dynamic("a")>>, {}, NoList, NoList),
    stuck   |-> Content(<<Dynamic("a"), [Node("b") EXCEPT !.stateful = "true"]>>, {"a"}, NoList, NoList),
    plugin  |-> Content(<<Dynamic("a"), Unsupported("b")>>, {}, List({}), List({Lib("k", 1)})),
    cut     |-> Content(<<Node("a"), Loaded("c", "x"), Unsupported("b")>>, {}, List({"x"}), NoList),
    invalid |-> Content(<<[Node("a") EXCEPT !.layout = "wrong"], Node("b"), Loaded("b", "x")>>, {}, List({"x", "y"}), List({Lib("l", 2), Lib("k", 1)})),
    half    |-> Unusable("notJson"),
    other   |-> Unusable("notSchema")]
MCContents == DOMAIN MCParsed

(* What may be written on a command line: every combination of these. *)
MCCommandLines ==
    {[Node("a") EXCEPT !.batch = b, !.shape = s, !.layout = l, !.plugin = p, !.stateful = f, !.sequences = q, !.policy = y] :
        b \in {Batch("absent", 0), Batch("auto", 0), Batch("text", 0), Batch("text", 2), Batch("number", 0), Batch("number", 2), Batch("wrong", 0)},
        s \in {NoShape, ShapeFor("any", "auto", <<>>), ShapeFor("any", "text", <<1, -1>>), ShapeFor("any", "text", <<0>>), ShapeFor("i", "wrong", <<>>),
               ShapeFor("i", "text", <<3>>), ShapeFor("i", "list", <<3>>),
               [ShapeFor("any", "text", <<3>>) EXCEPT !.anonymous = FALSE]},
        l \in {"NHWC", "wrong"}, p \in {"absent", "unsupported"}, f \in {"absent", "false", "true"},
        q \in {"absent", "lowLatency", "limits"}, y \in {"all", "wrong"}}
===========================================================================
