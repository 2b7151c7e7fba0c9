---------------------------- MODULE RestParsing ----------------------------
(***************************************************************************)
(* What the REST interface makes of a request before a servable sees it:   *)
(* the URL becomes request components (parseRequestComponents), the body   *)
(* of a TensorFlow Serving request becomes named tensors (TFSRestParser)   *)
(* and the body of a KServe request, with the binary data that may follow  *)
(* the JSON, becomes a ModelInferRequest (KFSRestParser and                *)
(* handleBinaryInputs).                                                    *)
(*                                                                         *)
(* A URL is the sequence of its segments and the verb after the last one.  *)
(* A JSON value is a leaf, [kind |-> ...], or an array [items |-> ...]; a  *)
(* parsed tensor holds for each element the path of its leaf in the        *)
(* document, so that the order of the elements can be judged.  A request   *)
(* has one input, so its inputs always agree on the number of instances.   *)
(***************************************************************************)
EXTENDS Integers, Sequences, FiniteSets, SequencesExt, FiniteSetsExt

CONSTANTS
    Tails,       \* what follows v1/models or v2/models in the URLs
    Documents,   \* the JSON arrays of the TensorFlow Serving requests
    Leaves,      \* the kinds of leaves in KServe data
    Sizes,       \* binary_data_size parameters, in bytes
    BufferSizes, \* length of the body less that of the JSON, in bytes
    Word         \* 2 to the width of a size_t

ASSUME WordAssumption == Word \in Nat /\ \A n \in Sizes \cup BufferSizes : 4 * n < Word /\ -4 * n < Word

VARIABLES
    case,    \* the request
    result   \* <<>>, then what became of it
vars == <<case, result>>

-----------------------------------------------------------------------------
\* The URL

Methods == {"GET", "POST", "PUT"}
Numbers == {"7", "99999999999999999999"}
Verbs == {"", "predict", "other"}
Url(segments, verb) == [segments |-> segments, verb |-> verb]

\* (?:/versions/(\d+))|(?:/labels/(\w+)), or nothing: what the group leaves
\* behind it, with the version.
Unversioned(rest) == [rest |-> rest, version |-> ""]
Versioned(rest, labels) ==
    {Unversioned(rest)} \cup
    (IF Len(rest) >= 2 /\ rest[1] = "versions" /\ rest[2] \in Numbers
     THEN {[rest |-> SubSeq(rest, 3, Len(rest)), version |-> rest[2]]} ELSE {}) \cup
    (IF labels /\ Len(rest) >= 2 /\ rest[1] = "labels" /\ rest[2] # ""
     THEN {Unversioned(SubSeq(rest, 3, Len(rest)))} ELSE {})

IsPrefixed(u, prefix) == Len(u.segments) >= Len(prefix) /\ SubSeq(u.segments, 1, Len(prefix)) = prefix
After(u, n) == SubSeq(u.segments, n + 1, Len(u.segments))

\* A match is a route with the name and version the groups of its pattern
\* captured.
Match(route, name, version) == [route |-> route, name |-> name, version |-> version]
Plain(u, path, route) == IF u = Url(path, "") THEN {Match(route, <<"", "">>, "")} ELSE {}

prediction(u) ==
    IF IsPrefixed(u, <<"v1", "models">>) /\ Len(u.segments) >= 3 /\ u.segments[3] # "" /\ u.verb = "predict"
    THEN {Match("Predict", <<u.segments[3], "">>, v.version) : v \in {w \in Versioned(After(u, 3), TRUE) : w.rest = <<>>}}
    ELSE {}

\* The name is optional and greedy: it is dropped only when the URL does not
\* match with it.
StatusMatches(name, rest) ==
    UNION {(IF v.rest = <<>> THEN {Match("GetModelStatus", name, v.version)} ELSE {}) \cup
           (IF v.rest = <<"metadata">> THEN {Match("GetModelMetadata", name, v.version)} ELSE {})
             : v \in Versioned(rest, TRUE)}

modelstatus(u) ==
    IF ~IsPrefixed(u, <<"v1", "models">>) \/ u.verb # "" THEN {}
    ELSE LET rest == After(u, 2)
             named == IF rest # <<>> /\ rest[1] # "" THEN StatusMatches(<<rest[1], "">>, Tail(rest)) ELSE {}
         IN  IF named # {} THEN named ELSE StatusMatches(<<"", "">>, rest)

\* [^/]+ takes a colon too, so a verb is part of a KServe name; nothing may
\* follow it elsewhere.
Kfs(u, ends, route) ==
    IF IsPrefixed(u, <<"v2", "models">>) /\ Len(u.segments) >= 3 /\ <<u.segments[3], u.verb>> # <<"", "">>
       /\ (Len(u.segments) > 3 => u.segments[3] # "" /\ u.verb = "")
    THEN {Match(route, <<u.segments[3], u.verb>>, v.version) : v \in {w \in Versioned(After(u, 3), FALSE) : w.rest \in ends}}
    ELSE {}

kfs_modelmetadata_LooseEnd(u) == Kfs(u, {<<>>, <<"">>, <<"ready">>}, "KFS_GetModelMetadata")

kfs_modelmetadata(u) == Kfs(u, {<<>>, <<"">>}, "KFS_GetModelMetadata")
kfs_modelready(u) == Kfs(u, {<<"ready">>}, "KFS_GetModelReady")
kfs_infer(u) == Kfs(u, {<<"infer">>}, "KFS_Infer")

\* The patterns, in the order in which they are tried for each method.  One
\* that is there to refuse the method leads nowhere.
Refused(matches) == {[m EXCEPT !.route = "REST_UNSUPPORTED_METHOD"] : m \in matches}

Attempts(method, u) ==
    IF method = "POST"
    THEN <<prediction(u), kfs_infer(u), Plain(u, <<"v1", "config", "reload">>, "ConfigReload"),
           Refused(modelstatus(u))>>
    ELSE <<modelstatus(u), Plain(u, <<"v1", "config">>, "ConfigStatus"),
           Plain(u, <<"v2", "health", "live">>, "KFS_GetServerLive"),
           Plain(u, <<"v2", "health", "ready">>, "KFS_GetServerReady"),
           Plain(u, <<"v2">>, "KFS_GetServerMetadata"),
           kfs_modelmetadata(u), kfs_modelready(u), Refused(prediction(u)),
           Plain(u, <<"metrics">>, "Metrics")>>

\* parseModelVersion: stoll throws on what does not fit.
parseModelVersion(m) ==
    IF m.version = "99999999999999999999" THEN [m EXCEPT !.route = "REST_COULD_NOT_PARSE_VERSION"] ELSE m

isPathEscaped(u) == \E i \in 2 .. Len(u.segments) : u.segments[i] = ".."

parseRequestComponents(method, u) ==
    LET attempts == Attempts(method, u)
        hits == {i \in DOMAIN attempts : attempts[i] # {}}
    IN  IF method \notin {"GET", "POST"} THEN Match("REST_UNSUPPORTED_METHOD", <<"", "">>, "")
        ELSE IF isPathEscaped(u) THEN Match("PATH_INVALID", <<"", "">>, "")
        ELSE IF hits = {} THEN Match("REST_INVALID_URL", <<"", "">>, "")
        ELSE LET m == CHOOSE m \in attempts[Min(hits)] : TRUE
             IN  IF m.route = "REST_UNSUPPORTED_METHOD" THEN m ELSE parseModelVersion(m)

-----------------------------------------------------------------------------
\* The body of a TensorFlow Serving request

IsArray(doc) == "items" \in DOMAIN doc
isBinary(doc) == ~IsArray(doc) /\ doc.kind = "b64"
IsNumber(doc) == ~IsArray(doc) /\ doc.kind \in {"int", "double"}

\* A tensor under construction: its dimensions, the leaves added to it, its
\* type, whether tensorPrecisionMap has an entry for it, and whether everything
\* so far was accepted.  The constructor of the parser enters the inputs of
\* the servable and gives them their types.
NewTensor(name) ==
    [shape |-> <<>>, values |-> <<>>, dtype |-> IF name = "unknown" THEN "unset" ELSE "number",
     entered |-> name # "unknown", ok |-> TRUE]
Failed(t) == [t EXCEPT !.ok = FALSE]

\* A dimension is set by the first array at its depth and checked by others.
setDimOrValidate_First(t, dim, size) ==
    IF Len(t.shape) > dim THEN t
    ELSE [t EXCEPT !.shape = @ \o [i \in 1 .. dim - Len(t.shape) |-> 0] \o <<size>>]

setDimOrValidate(t, dim, size) ==
    IF Len(t.shape) > dim THEN [t EXCEPT !.ok = @ /\ t.shape[dim + 1] = size]
    ELSE [t EXCEPT !.shape = @ \o [i \in 1 .. dim - Len(t.shape) |-> 0] \o <<size>>]

increaseBatchSize(t) ==
    IF t.shape = <<>> THEN [t EXCEPT !.shape = <<1>>] ELSE [t EXCEPT !.shape[1] = @ + 1]

\* An encoded image makes the tensor one of strings, to which no number is
\* added any more.
addToTensorContent(t, path) == [t EXCEPT !.values = Append(@, path)]

addValue(t, leaf, path) ==
    IF isBinary(leaf) THEN [addToTensorContent(t, path) EXCEPT !.dtype = "string"]
    ELSE IF IsNumber(leaf) /\ t.dtype = "number" THEN addToTensorContent(t, path)
    ELSE Failed(t)

\* The special inputs are one-dimensional and hold unsigned integers.
parseSpecialInput(t, doc, path) ==
    IF \A i \in DOMAIN doc.items : ~IsArray(doc.items[i]) /\ doc.items[i].kind = "int"
    THEN [t EXCEPT !.values = @ \o [i \in DOMAIN doc.items |-> Append(path, i)]]
    ELSE Failed(t)

\* An input the servable does not have gets its type from the first number of
\* an array, also when an image has made it one of strings before.
setDTypeIfNotSet(t, leaf) ==
    IF t.entered THEN t
    ELSE IF IsNumber(leaf) THEN [t EXCEPT !.dtype = "number", !.entered = TRUE]
    ELSE Failed(t)

RECURSIVE parseArray(_, _, _, _, _), parseItems(_, _, _, _, _, _)

parseArray(t, doc, dim, name, path) ==
    IF isBinary(doc) THEN addValue(t, doc, path)
    ELSE IF ~IsArray(doc) \/ doc.items = <<>> THEN Failed(t)
    ELSE LET sized == setDimOrValidate(t, dim, Len(doc.items))
         IN  IF ~sized.ok THEN sized
             ELSE IF name = "sequence_id" THEN parseSpecialInput(sized, doc, path)
             ELSE IF IsArray(doc.items[1]) THEN parseItems(sized, doc.items, dim + 1, name, path, 1)
             ELSE FoldLeftDomain(
                    LAMBDA u, i : IF ~u.ok THEN u
                                  ELSE IF IsArray(doc.items[i]) THEN Failed(u)
                                  ELSE addValue(u, doc.items[i], Append(path, i)),
                    setDTypeIfNotSet(sized, doc.items[1]), doc.items)

parseItems(t, items, dim, name, path, i) ==
    IF ~t.ok \/ i > Len(items) THEN t
    ELSE parseItems(parseArray(t, items[i], dim, name, Append(path, i)), items, dim, name, path, i + 1)

\* removeUnusedInputs: an input without a dimension counts as one that the
\* request does not have.
removeUnusedInputs(t) == IF t.ok /\ t.shape = <<>> THEN [t EXCEPT !.values = <<>>] ELSE t

\* {"inputs": {name: doc}}, and {"inputs": doc} when the servable has one input.
parseColumnFormat(doc, name) == removeUnusedInputs(parseArray(NewTensor(name), doc, 0, name, <<>>))

\* {"instances": [{name: x1}, {name: x2}, ...]} for the items of doc.
parseRowFormat(doc, name) ==
    IF ~IsArray(doc) \/ doc.items = <<>> THEN Failed(NewTensor(name))
    ELSE FoldLeftDomain(
            LAMBDA t, i : IF t.ok THEN parseArray(increaseBatchSize(t), doc.items[i], 1, name, <<i>>) ELSE t,
            NewTensor(name), doc.items)

-----------------------------------------------------------------------------
\* The body of a KServe request and the data after it

Widths == [FP32 |-> 4, INT64 |-> 8, INT8 |-> 1, BYTES |-> 1, BOOL |-> 1]
Binary == DOMAIN Widths \ {"BOOL"}   \* what parseBinaryInput can read

\* The values of the JSON data, which may be nested; BYTES never come in JSON.
Accepts(datatype, leaf) ==
    CASE datatype = "FP32" -> leaf \in {"int", "double"}
      [] datatype = "BOOL" -> leaf = "bool"
      [] OTHER -> leaf = "int"

parseData(input) ==
    IF input.datatype = "BYTES" THEN "REST_COULD_NOT_PARSE_INPUT"
    ELSE IF \A i \in DOMAIN input.data : Accepts(input.datatype, input.data[i]) THEN "OK"
    ELSE "REST_COULD_NOT_PARSE_INPUT"

\* Parameters are strings, booleans or integers; "list" is a string of sizes.
parseInputParameters(input) == input.binary.type # "other"

parseInput(input) ==
    IF ~parseInputParameters(input) THEN "REST_COULD_NOT_PARSE_PARAMETERS"
    ELSE IF input.data # <<"none">> THEN parseData(input)
    ELSE IF input.binary.type = "none" THEN "REST_COULD_NOT_PARSE_INPUT"
    ELSE "OK"

\* A part of the buffer that an input was given, as the offset and the number
\* of bytes that were read.
Part(offset, length) == [offset |-> offset, length |-> length]

\* Whole elements are read for as long as there is a byte left of the size.
Whole(size, width) == ((size + width - 1) \div width) * width

\* parseBinaryInput takes its size as a size_t.  A negative one is larger than
\* any memory: the request is not answered any more.
parseBinaryInput(s, datatype, n) ==
    IF n < 0 THEN [s EXCEPT !.status = "NEVER_ANSWERED"]
    ELSE [s EXCEPT !.parts = Append(@, Part(s.offset, Whole(n, Widths[datatype]))), !.offset = (@ + n) % Word]

\* The sizes of one input, taken off the buffer one after another; the sum is
\* one of size_t.
takeSizes_Restarts(state, input, total) ==
    FoldLeft(LAMBDA s, n :
        IF s.status # "OK" THEN s
        ELSE IF (s.offset + n) % Word > total THEN [s EXCEPT !.status = "REST_BINARY_BUFFER_EXCEEDED"]
        ELSE [parseBinaryInput(s, input.datatype, n) EXCEPT !.offset = s.offset],
        state, input.binary.sizes)

takeSizes(state, input, total) ==
    FoldLeft(LAMBDA s, n :
        IF s.status # "OK" THEN s
        ELSE IF (s.offset + n) % Word > total THEN [s EXCEPT !.status = "REST_BINARY_BUFFER_EXCEEDED"]
        ELSE parseBinaryInput(s, input.datatype, n),
        state, input.binary.sizes)

validateContentFieldsEmptiness(input) ==
    IF input.datatype \notin Binary THEN "REST_UNSUPPORTED_PRECISION"
    ELSE IF input.data \notin {<<>>, <<"none">>} THEN "REST_CONTENTS_FIELD_NOT_EMPTY"
    ELSE "OK"

handleBinaryInput(state, input, total) ==
    IF state.status # "OK" \/ input.binary.type = "none" THEN state
    ELSE IF validateContentFieldsEmptiness(input) # "OK"
         THEN [state EXCEPT !.status = validateContentFieldsEmptiness(input)]
    ELSE IF input.binary.type = "bool" THEN [state EXCEPT !.status = "REST_BINARY_DATA_SIZE_PARAMETER_INVALID"]
    ELSE takeSizes(state, input, total)

\* prepareGrpcRequest: the JSON part first, then the inputs in their order.
\* The length of the JSON comes from a header and is subtracted from that of
\* the body; when it is the greater, the difference of size_t is huge.
prepareGrpcRequest(inputs, total) ==
    LET bad == {i \in DOMAIN inputs : parseInput(inputs[i]) # "OK"}
        start == [status |-> "OK", offset |-> 0, parts |-> <<>>]
    IN  IF inputs = <<>> THEN [start EXCEPT !.status = "REST_NO_INPUTS_FOUND"]
        ELSE IF bad # {} THEN [start EXCEPT !.status = parseInput(inputs[Min(bad)])]
        ELSE FoldLeft(LAMBDA s, input : handleBinaryInput(s, input, total % Word), start, inputs)

-----------------------------------------------------------------------------
\* The cases

Urls ==
    {Url(<<v, "models">> \o t, verb) : v \in {"v1", "v2"}, t \in Tails, verb \in Verbs} \cup
    {Url(s, "") : s \in {<<"v1", "config">>, <<"v1", "config", "reload">>, <<"v2">>, <<"metrics">>,
                         <<"v2", "health", "live">>, <<"v2", "health", "ready">>, <<"v1">>, <<"v2", "health">>}}

\* One integer, or a string with a list of them.
BinaryParameters ==
    {[type |-> t, sizes |-> <<>>] : t \in {"none", "bool", "other"}} \cup
    {[type |-> "int", sizes |-> <<n>>] : n \in Sizes} \cup
    {[type |-> "list", sizes |-> <<m, n>>] : m, n \in Sizes}

Inputs ==
    UNION {[datatype : {d}, data : {<<"none">>, <<>>} \cup {<<l>> : l \in Leaves},
            binary : BinaryParameters] : d \in DOMAIN Widths}

Requests == {<<>>} \cup {<<i>> : i \in Inputs} \cup {<<i, j>> : i, j \in {k \in Inputs : parseInput(k) = "OK"}}

Init ==
    /\ case \in [what : {"url"}, method : Methods, url : Urls] \cup
                [what : {"tfs"}, doc : Documents, name : {"known", "unknown", "sequence_id"}] \cup
                [what : {"kfs"}, inputs : Requests, total : BufferSizes]
    /\ result = <<>>

Route ==
    /\ result = <<>> /\ case.what = "url"
    /\ result' = <<parseRequestComponents(case.method, case.url)>>
    /\ UNCHANGED case

ParseTFS ==
    /\ result = <<>> /\ case.what = "tfs"
    /\ result' = <<[column |-> parseColumnFormat(case.doc, case.name),
                   row |-> parseRowFormat(case.doc, case.name)]>>
    /\ UNCHANGED case

ParseKFS ==
    /\ result = <<>> /\ case.what = "kfs"
    /\ result' = <<prepareGrpcRequest(case.inputs, case.total)>>
    /\ UNCHANGED case

Next == Route \/ ParseTFS \/ ParseKFS

Spec == Init /\ [][Next]_vars

-----------------------------------------------------------------------------
\* Properties

Finished(what) == case.what = what /\ result # <<>>

\* No URL is matched by two patterns of its method, so that which handler
\* answers does not depend on the order in which they are tried; and a URL that
\* asks for a version of a named model is answered for that version or not at
\* all, never for the default one.
RoutesAsAsked ==
    Finished("url") /\ case.method # "PUT" =>
        LET attempts == Attempts(case.method, case.url)
            s == case.url.segments
        IN  /\ Cardinality({i \in DOMAIN attempts : attempts[i] # {}}) <= 1
            /\ \A i \in DOMAIN attempts : Cardinality(attempts[i]) <= 1
            /\ result[1].route \notin {"REST_INVALID_URL", "REST_UNSUPPORTED_METHOD", "REST_COULD_NOT_PARSE_VERSION", "PATH_INVALID"}
                 /\ Len(s) >= 5 /\ s[4] = "versions" /\ s[5] \in Numbers
               => result[1].name = <<s[3], "">> /\ result[1].version = s[5] /\ s[5] = "7"

\* The leaves of a document, their depths, and the shape of one that nests
\* evenly.
RECURSIVE Even(_), ShapeOf(_)
ShapeOf(doc) == IF IsArray(doc) THEN <<Len(doc.items)>> \o (IF doc.items = <<>> THEN <<>> ELSE ShapeOf(doc.items[1])) ELSE <<>>
Even(doc) ==
    IsArray(doc) => /\ \A i \in DOMAIN doc.items : Even(doc.items[i])
                    /\ \A i, j \in DOMAIN doc.items : ShapeOf(doc.items[i]) = ShapeOf(doc.items[j])
RECURSIVE LeavesOf(_), DepthsOf(_)
DepthsOf(doc) == IF IsArray(doc) THEN {1 + d : d \in UNION {DepthsOf(doc.items[i]) : i \in DOMAIN doc.items}} ELSE {0}
LeavesOf(doc) == IF IsArray(doc) THEN UNION {LeavesOf(doc.items[i]) : i \in DOMAIN doc.items} ELSE {doc.kind}

Volume(shape) == FoldLeft(LAMBDA a, b : a * b, 1, shape)

\* The path of the element at a flat position of a tensor of this shape.
PathAt(shape, k) ==
    [d \in DOMAIN shape |->
        1 + (((k - 1) \div Volume(SubSeq(shape, d + 1, Len(shape)))) % shape[d])]

\* Numbers that all lie at the same depth are accepted iff they nest evenly,
\* as the tensor of that shape, its elements in row-major order; and whatever
\* nests evenly and is accepted, encoded images included, keeps every value.
\* A single image without an array is the exception: the input is dropped.
\* The two formats agree: an input given instance by instance is the same
\* tensor as when it is given as one column, and what nests evenly is accepted
\* in the one iff it is in the other.
ParsesTensor ==
    Finished("tfs") =>
        LET t == result[1].column
            row == result[1].row
            shape == ShapeOf(case.doc)
            numbers == LeavesOf(case.doc) \in SUBSET {"int", "double"} \ {{}}
        IN  /\ case.name = "known" =>
                 /\ numbers /\ Cardinality(DepthsOf(case.doc)) = 1 /\ shape # <<>> => (t.ok <=> Even(case.doc))
                 /\ t.ok /\ Even(case.doc) =>
                      /\ t.shape = shape
                      /\ shape # <<>> => t.values = [k \in 1 .. Volume(shape) |-> PathAt(shape, k)]
            /\ case.name # "sequence_id" =>
                 /\ row.ok /\ t.ok => t = row
                 /\ Even(case.doc) /\ Len(shape) > 1 => (row.ok <=> t.ok)

\* When the JSON is no longer than the body, the binary data is dealt out to
\* the inputs of a request that is answered in their order: each part starts
\* where the sizes announced before it end, no size is negative - so none moves
\* a later part back over an earlier one, whatever a sum of size_t makes of it -
\* and all of them together stay inside the data.  What is read of a part is
\* what was announced, and less than an element past it when that is not a
\* whole number of elements.  No input has values from the JSON and from the
\* binary data too, also when the JSON is said to be longer than the body.
BinaryPartition ==
    Finished("kfs") /\ result[1].status = "OK" =>
        LET announced == FlattenSeq([i \in DOMAIN case.inputs |-> case.inputs[i].binary.sizes])
            widths == FlattenSeq([i \in DOMAIN case.inputs |->
                                    [k \in DOMAIN case.inputs[i].binary.sizes |-> Widths[case.inputs[i].datatype]]])
            before(k) == FoldLeft(LAMBDA a, b : a + b, 0, SubSeq(announced, 1, k - 1))
            parts == result[1].parts
        IN  /\ case.total >= 0 =>
                 /\ DOMAIN parts = DOMAIN announced
                 /\ before(Len(announced) + 1) <= case.total
                 /\ \A k \in DOMAIN announced :
                      /\ announced[k] >= 0 /\ parts[k].offset = before(k)
                      /\ parts[k].length - announced[k] \in 0 .. widths[k] - 1
                      /\ announced[k] % widths[k] = 0 => parts[k].length = announced[k]
            /\ \A i \in DOMAIN case.inputs :
                 case.inputs[i].binary.type # "none" => case.inputs[i].data \in {<<>>, <<"none">>}
=============================================================================
