-------------------------- MODULE MCTensorExchange --------------------------
(* The requests, images, outputs and descriptions that TensorExchange is    *)
(* checked on.                                                              *)
EXTENDS TensorExchange

N_Etc == <<"N", Etc>>
Info(name, precision, shape, layout, auto) ==
    [name |-> name, precision |-> precision, shape |-> shape, layout |-> layout, auto |-> auto, demultiplexed |-> FALSE]
Input(name, datatype, shape, box, size) ==
    [name |-> name, datatype |-> datatype, shape |-> shape, box |-> box, size |-> size,
     images |-> IF box \in {"string_val", "bytes_contents"}
                THEN [i \in 1 .. size |-> [bytes |-> "other", rows |-> 1, cols |-> 1, channels |-> 1]] ELSE <<>>]
Request(api, inputs, raw, infos, batching, optional) ==
    [what |-> "request", api |-> api, request |-> [inputs |-> inputs, raw |-> raw, stray |-> 0], servable |-> infos,
     batching |-> batching, optional |-> optional]

\* Every precision and every container, with right and wrong sizes.
Boxes(api) ==
    IF api = "TFS" THEN {"tensor_content", "int_val", "half_val", "string_val", "none"}
    ELSE {"int_contents", "uint_contents", "int64_contents", "uint64_contents", "FP32", "FP64", "BOOL",
          "bytes_contents", "none"}
OneInput(c) ==
    \E api \in {"TFS", "KFS"}, p \in Precisions, n \in {-1, 1, 2}, dim \in {Static(2), AnyDim}, size \in {0, 1, 2, 4, 8, 16} :
    \E datatype \in {p, "INVALID", "FP32"}, box \in Boxes(api) :
        c = Request(api, <<Input("a", datatype, <<n>>, box, size)>>, <<>>, <<Info("a", p, <<dim>>, N_Etc, FALSE)>>, "FIXED", {})
OneRaw(c) ==
    \E p \in Precisions, n \in {1, 2}, box \in {"none", "FP32"}, size \in {1, 2, 4, 8, 16} :
        c = Request("KFS", <<Input("a", p, <<n>>, box, 2)>>, <<size>>, <<Info("a", p, <<Static(2)>>, N_Etc, FALSE)>>, "FIXED", {})

\* Which inputs a request has; those of TensorFlow Serving are a map.
Names(api) ==
    {<<>>, <<"a">>, <<"o">>, <<"a", "o">>} \cup (IF api = "KFS" THEN {<<"a", "o", "o">>, <<"a", "a">>} ELSE {})
Fillings(api) ==
    {<<"STRING", "none", 0>>} \cup
    IF api = "TFS" THEN {<<"FP32", "tensor_content", 4>>, <<"STRING", "string_val", 1>>}
    ELSE {<<"FP32", "FP32", 1>>, <<"STRING", "bytes_contents", 1>>}
Named(c) ==
    \E api \in {"TFS", "KFS"}, optional \in {{}, {"o"}}, shape \in {<<1>>, <<1, 1>>, <<>>}, layout \in {N_Etc, <<"C">>} :
    \E names \in Names(api), filling \in Fillings(api) :
        c = Request(api, [i \in DOMAIN names |-> Input(names[i], filling[1], shape, filling[2], filling[3])], <<>>,
                    <<Info("a", "FP32", <<AnyDim>>, layout, FALSE)>>, "FIXED", optional)

\* Two inputs of two dimensions, of which one is the batch.
Batches == {Static(1), Static(2), Range2(1, 2), AnyDim}
Others == {Static(1), AnyDim}
Filled(via, name, shape) ==
    Input(name, "FP32", shape, IF via = "TFS" THEN "tensor_content" ELSE IF via = "KFS" THEN "FP32" ELSE "none",
          IF via = "TFS" THEN 4 * Volume(shape) ELSE IF via = "KFS" THEN Volume(shape) ELSE 0)
Pair(via, order, sa, sb) ==
    IF order = "ab" THEN <<Filled(via, "a", sa), Filled(via, "b", sb)>> ELSE <<Filled(via, "b", sb), Filled(via, "a", sa)>>
TwoInputs(c) ==
    \E via \in {"TFS", "KFS", "raw"}, order \in {"ab", "ba"}, mode \in {"fixed", "batch", "both", "a"},
       layout \in {<<"N", "C">>, <<"C", "N">>}, sa \in (1..2) \X (1..2), sb \in {<<1, 1>>, <<2, 1>>, <<2, 2>>} :
    \E da \in IF layout[1] = "N" THEN Batches \X Others ELSE Others \X Batches, db \in Batches :
        LET inputs == Pair(via, order, sa, sb)
        IN  c = Request(IF via = "TFS" THEN "TFS" ELSE "KFS", inputs,
                        IF via = "raw" THEN [i \in 1..2 |-> 4 * Volume(inputs[i].shape)] ELSE <<>>,
                        <<Info("a", "FP32", da, layout, mode \in {"both", "a"}),
                          Info("b", "FP32", <<db, AnyDim>>, <<"N", "C">>, mode = "both")>>,
                        IF mode = "batch" THEN "AUTO" ELSE "FIXED", {})

\* One or three raw buffers for two inputs, and what is found past the last one.
MiscountedRaw(c) ==
    \E order \in {"ab", "ba"}, sa, sb \in (1..2) \X (1..2), raw \in {<<4>>, <<8>>, <<4, 8, 4>>}, stray \in {0, 4, 8} :
    \E auto \in BOOLEAN, batching \in {"FIXED", "AUTO"} :
        c = [Request("KFS", Pair("raw", order, sa, sb), raw,
                     <<Info("a", "FP32", <<Static(1), AnyDim>>, <<"N", "C">>, auto),
                       Info("b", "FP32", <<Static(1), AnyDim>>, <<"N", "C">>, auto)>>, batching, {})
               EXCEPT !.request.stray = stray]

\* Images of several sizes, and what is none.
ImageSet == [bytes : {"image"}, rows : 1..3, cols : 1..2, channels : 1..2] \cup
            {[bytes |-> b, rows |-> 1, cols |-> 1, channels |-> 1] : b \in {"empty", "other"}}
NHWC == <<"N", "H", "W", "C">>
ImageRequest(api, n, images, info, batching) ==
    Request(api, <<[Input("a", "STRING", <<n>>, IF api = "TFS" THEN "string_val" ELSE "bytes_contents", Len(images))
                      EXCEPT !.images = images]>>, <<>>, <<info>>, batching, {})
\* Descriptions that images do not fit, or only in a demultiplexed pipeline.
OddInfos ==
    LET four == <<Static(1), Static(2), Static(2), Static(1)>>
        five(d) == <<Static(1), d, Static(2), Static(2), Static(1)>>
        nxhwc == <<"N", "?", "H", "W", "C">>
    IN  {Info("a", "U8", four, <<"N", "C", "H", "W">>, FALSE), Info("a", "U8", four, <<"C", "N", "H", "W">>, FALSE), Info("a", "I64", four, NHWC, FALSE),
         [Info("a", "U8", five(AnyDim), nxhwc, FALSE) EXCEPT !.demultiplexed = TRUE],
         [Info("a", "U8", five(Static(1)), nxhwc, FALSE) EXCEPT !.demultiplexed = TRUE],
         [Info("a", "U8", five(Range2(2, 3)), nxhwc, FALSE) EXCEPT !.demultiplexed = TRUE],
         [Info("a", "U8", four, <<"N", "?", Etc>>, FALSE) EXCEPT !.demultiplexed = TRUE],
         Info("a", "U8", five(Static(1)), nxhwc, FALSE)}
Images(c) ==
    \/ \E n \in {Static(2), AnyDim}, h \in {Static(2), Range2(1, 2), AnyDim}, w \in {Static(2), AnyDim},
          k \in {Static(1), Range2(1, 2), AnyDim}, layout \in {NHWC, N_Etc, <<Etc>>}, images \in BoundedSeq(ImageSet, 2) :
          c = ImageRequest("TFS", Len(images), images, Info("a", "U8", <<n, h, w, k>>, layout, FALSE), "AUTO")
    \/ \E api \in {"TFS", "KFS"}, n \in 1..2, image \in ImageSet, info \in OddInfos, batching \in {"FIXED", "AUTO"} :
          c = ImageRequest(api, n, <<image>>, info, batching)

Output(name, declared, given, dim, shape) ==
    [name |-> name, precision |-> declared, shape |-> <<dim>>, tensor |-> [precision |-> given, shape |-> shape]]
Kinds == {"FP32", "FP16", "U16", "BOOL"}
Volumes == {<<0>>, <<1>>, <<2>>, <<2, 2>>}
Responses(c) ==
    \E api \in {"TFS", "KFS"}, order \in {"ROW", "COLUMN"}, gathered \in {<<>>, <<"x">>, <<"y">>, <<"y", "x">>, <<"x", "y">>},
       px, py \in Kinds, qx \in Kinds, dx \in {Static(2), AnyDim}, sx, sy \in Volumes :
        /\ api = "KFS" => order = "COLUMN"
        /\ qx \in {px, "U16"}
        /\ c = [what |-> "response", api |-> api, order |-> order, gathered |-> gathered,
                outputs |-> <<Output("x", px, qx, dx, sx), Output("y", py, py, AnyDim, sy)>>]

Layouts == {N_Etc, <<Etc>>, <<"N">>, <<"N", "C">>, <<"C", "N">>, <<"?", "N">>, <<"?", "C">>, <<"N", "?">>, <<"H", "C">>, <<"H", "N", Etc>>}
Shapes == {<<d>> : d \in {Static(2), Range2(1, 3), Range2(3, 4), AnyDim}} \cup
          {<<d, e>> : d, e \in {Static(2), Range2(1, 3), Range2(4, 5), AnyDim}}
Infos(c) ==
    \E p \in {"FP32", "UNDEFINED"}, q \in {"FP32", "I64"}, s, t \in Shapes, l, m \in Layouts :
        /\ <<p, q>> # <<"FP32", "FP32">> => l = N_Etc
        /\ c = [what |-> "infos", info |-> [precision |-> p, shape |-> s, layout |-> l],
                other |-> [precision |-> q, shape |-> t, layout |-> m]]

MCIsCase(c) ==
    \/ OneInput(c) \/ OneRaw(c) \/ Named(c) \/ TwoInputs(c) \/ MiscountedRaw(c)
    \/ Images(c) \/ Responses(c) \/ Infos(c)
=============================================================================
