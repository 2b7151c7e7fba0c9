--------------------------- MODULE TensorExchange ---------------------------
(***************************************************************************)
(* How the tensors of a request reach an inference and those of the        *)
(* inference reach the response: the request is validated against the      *)
(* inputs of the servable, which may be reloaded for another batch size or *)
(* shape, and then deserialized; encoded images are decoded and resized    *)
(* into a tensor; the outputs are serialized and, for REST, written as     *)
(* JSON.                                                                   *)
(*                                                                         *)
(* Values are left out: a container is known by its size, in elements, or  *)
(* in bytes for the two that are untyped (tensor_content and the raw       *)
(* buffers), and an image by its dimensions.                               *)
(***************************************************************************)
EXTENDS TensorShapes

CONSTANT IsCase(_)   \* the requests, images, outputs and descriptions to look at

VARIABLES
    case,       \* what is looked at
    stage,      \* how far it is processed
    servable,   \* the inputs of the servable, in the order of their names
    outcome     \* the status of the last step and what it made
exchangeVars == <<case, stage, servable, outcome>>

Volume(shape) == FoldLeft(LAMBDA a, b : a * b, 1, shape)
Total(s) == FoldLeft(LAMBDA a, b : a + b, 0, s)

Width == [FP64 |-> 8, FP32 |-> 4, FP16 |-> 2, I64 |-> 8, I32 |-> 4, I16 |-> 2, I8 |-> 1,
          U64 |-> 8, U32 |-> 4, U16 |-> 2, U8 |-> 1, BOOL |-> 1]
Precisions == DOMAIN Width

\* The first status of a sequence that is not OK.
FirstError(statuses) ==
    LET bad == {i \in DOMAIN statuses : statuses[i] # "OK"}
    IN  IF bad = {} THEN "OK" ELSE statuses[Min(bad)]

-----------------------------------------------------------------------------
\* Validation

\* getPrecisionAsDataType knows no U32; images have the type of strings.
DataType(api, precision) == IF api = "TFS" /\ precision = "U32" THEN "INVALID" ELSE precision
checkIfBinaryInputUsed(input) == input.datatype = "STRING"

\* The container in which the API has the elements of a precision.
ValField(api, precision) ==
    IF api = "TFS"
    THEN CASE precision = "U16" -> "int_val" [] precision = "FP16" -> "half_val" [] OTHER -> "tensor_content"
    ELSE CASE precision \in {"I8", "I16", "I32"} -> "int_contents"
           [] precision \in {"U8", "U16", "U32"} -> "uint_contents"
           [] precision = "I64" -> "int64_contents"
           [] precision = "U64" -> "uint64_contents"
           [] precision = "FP16" -> "none"
           [] OTHER -> precision
SizeOf(input, box) == IF input.box = box THEN input.size ELSE 0

Positions(request, name) == {i \in DOMAIN request.inputs : request.inputs[i].name = name}

validateNumberOfInputs(request) ==
    LET extra == IF case.api = "KFS"
                 THEN Cardinality({i \in DOMAIN request.inputs : request.inputs[i].name \in case.optional})
                 ELSE Cardinality({n \in case.optional : Positions(request, n) # {}})
    IN  IF request.inputs # <<>> /\ Len(servable) + extra = Len(request.inputs) THEN "OK"
        ELSE "INVALID_NO_OF_INPUTS"

\* Buffers may be in the inputs or after them, never in both.
validateRequestCoherency(request) ==
    IF request.raw # <<>> /\ \E i \in DOMAIN request.inputs : request.inputs[i].box # "none"
    THEN "INVALID_MESSAGE_STRUCTURE" ELSE "OK"

checkIfShapeValuesNegative(input) == IF \E i \in DOMAIN input.shape : input.shape[i] <= 0 THEN "INVALID_SHAPE" ELSE "OK"

\* With an automatic shape the mismatch is left to checkShapeMismatch.
checkBatchSizeMismatch(dim, value, info) ==
    IF match(dim, value) THEN "OK"
    ELSE IF case.batching = "AUTO" THEN "BATCHSIZE_CHANGE_REQUIRED"
    ELSE IF info.auto THEN "OK"
    ELSE "INVALID_BATCH_SIZE"

checkBinaryBatchSizeMismatch(input, info, batch) ==
    IF input.size <= 0 \/ input.box \notin {"string_val", "bytes_contents"} THEN "INVALID_BATCH_SIZE"
    ELSE checkBatchSizeMismatch(info.shape[batch], input.shape[1], info)

checkShapeMismatch(input, info, batch) ==
    IF Matches(info.shape, input.shape, IF case.batching = "AUTO" THEN batch ELSE 0) THEN "OK"
    ELSE IF info.auto THEN "RESHAPE_REQUIRED"
    ELSE "INVALID_SHAPE"

\* raw_input_contents is indexed with the position of the input, and nothing
\* has compared the number of buffers with that of inputs: past the last buffer
\* a size is found that is any number, if the process survives it.
RawSize(request, position) ==
    IF position \in DOMAIN request.raw THEN request.raw[position] ELSE request.stray

\* getElementsCount for what is in the inputs, the size for a raw buffer.
validateTensorContentSize_AnyContainer(request, input, position, info) ==
    LET count == Volume(input.shape)
        box == ValField(case.api, info.precision)
    IN  IF request.raw # <<>>
        THEN IF count * Width[info.precision] = RawSize(request, position) THEN "OK" ELSE "INVALID_CONTENT_SIZE"
        ELSE IF box = "tensor_content"
        THEN IF count * Width[info.precision] = input.size THEN "OK" ELSE "INVALID_CONTENT_SIZE"
        ELSE IF count = input.size THEN "OK" ELSE "INVALID_VALUE_COUNT"

validateTensorContentSize(request, input, position, info) ==
    LET count == Volume(input.shape)
        box == ValField(case.api, info.precision)
    IN  IF request.raw # <<>>
        THEN IF count * Width[info.precision] = RawSize(request, position) THEN "OK" ELSE "INVALID_CONTENT_SIZE"
        ELSE IF box = "tensor_content"
        THEN IF count * Width[info.precision] = SizeOf(input, box) THEN "OK" ELSE "INVALID_CONTENT_SIZE"
        ELSE IF count = SizeOf(input, box) THEN "OK" ELSE "INVALID_VALUE_COUNT"

\* bufferId is the position of the input in the request.
validateAndGetInput(request, info) == Min(Positions(request, info.name))

\* The checks of one input, in their order.  A change that is required is
\* not an error: it becomes the final status unless a later check fails.
validateInput(request, info) ==
    IF Positions(request, info.name) = {} THEN <<"INVALID_MISSING_INPUT">>
    ELSE LET position == validateAndGetInput(request, info)
             input == request.inputs[position]
             batch == getBatchIndex(info.layout)
         IN  IF checkIfShapeValuesNegative(input) # "OK" THEN <<"INVALID_SHAPE">>
             ELSE IF batch = 0 \/ batch > Len(info.shape) THEN <<"INTERNAL_ERROR">>
             ELSE IF checkIfBinaryInputUsed(input)
             THEN <<IF Len(input.shape) # 1 THEN "INVALID_NO_OF_SHAPE_DIMENSIONS"
                    ELSE checkBinaryBatchSizeMismatch(input, info, batch)>>
             ELSE IF input.datatype # DataType(case.api, info.precision) THEN <<"INVALID_PRECISION">>
             ELSE IF input.shape = <<>> \/ Len(input.shape) # Len(info.shape)
             THEN <<"INVALID_NO_OF_SHAPE_DIMENSIONS">>
             ELSE <<checkBatchSizeMismatch(info.shape[batch], input.shape[batch], info),
                    checkShapeMismatch(input, info, batch),
                    validateTensorContentSize(request, input, position, info)>>

Changes == {"BATCHSIZE_CHANGE_REQUIRED", "RESHAPE_REQUIRED"}
Errors(statuses) == [i \in DOMAIN statuses |-> IF statuses[i] \in Changes THEN "OK" ELSE statuses[i]]

\* The last status that asks for a change.
LastChange(statuses) ==
    LET changes == {i \in DOMAIN statuses : statuses[i] \in Changes}
    IN  IF changes = {} THEN "OK" ELSE statuses[Max(changes)]

validate(request) ==
    LET checks == [i \in DOMAIN servable |-> validateInput(request, servable[i])]
        inputs == [i \in DOMAIN servable |-> FirstError(Errors(checks[i]))]
        error == FirstError(<<validateNumberOfInputs(request), validateRequestCoherency(request)>> \o inputs)
    IN  IF error # "OK" THEN error ELSE LastChange([i \in DOMAIN servable |-> LastChange(checks[i])])

-----------------------------------------------------------------------------
\* Reloading the servable for the request

\* The batch size of one input stands for all: the first of a KServe request,
\* an arbitrary one of a TensorFlow Serving request, whose inputs are a hash
\* map.  There is none when that input has too few dimensions.
RequestBatchSizes(request) ==
    LET batch == getBatchIndex(servable[1].layout)
        inputs == IF case.api = "KFS" THEN {1} ELSE DOMAIN request.inputs
    IN  {request.inputs[i].shape[batch] : i \in {i \in inputs : batch \in DOMAIN request.inputs[i].shape}}

WithBatchSize(n) ==
    [i \in DOMAIN servable |-> [servable[i] EXCEPT !.shape[getBatchIndex(servable[i].layout)] = Static(n)]]

\* Only the inputs whose shape is automatic take the requested one.
WithRequestShapes_BatchOnly(request) ==
    [i \in DOMAIN servable |->
        IF servable[i].auto
        THEN [servable[i] EXCEPT !.shape[1] = Static(request.inputs[Max(Positions(request, servable[i].name))].shape[1])]
        ELSE servable[i]]

WithRequestShapes(request) ==
    [i \in DOMAIN servable |->
        LET shape == request.inputs[Max(Positions(request, servable[i].name))].shape
        IN  IF servable[i].auto THEN [servable[i] EXCEPT !.shape = [d \in DOMAIN shape |-> Static(shape[d])]]
            ELSE servable[i]]

-----------------------------------------------------------------------------
\* Encoded images

\* A tensor with what is read for it and what there is to read or to fill.
Tensor(shape, read, there) == [shape |-> shape, read |-> read, there |-> there]
NoTensor == Tensor(<<>>, 0, 0)

Supported == {"FP32", "FP64", "FP16", "I16", "U8", "I8", "U16", "I32"}   \* getMatTypeFromTensorPrecision

validateLayout(info) == LayoutIntersection(info.layout, <<"N", Etc, "H", "W", "C">>, Len(info.shape)) # Nothing

\* Rank 4, and 5 when a demultiplexer added a dimension.
validateTensor(info, images) ==
    IF ~validateLayout(info) THEN "UNSUPPORTED_LAYOUT"
    ELSE IF Len(info.shape) # 4 /\ ~(info.demultiplexed /\ Len(info.shape) = 5) THEN "INVALID_SHAPE"
    ELSE IF getBatchIndex(info.layout) = 0 \/ ~match(info.shape[getBatchIndex(info.layout)], Len(images))
    THEN "INVALID_BATCH_SIZE"
    ELSE IF \E i \in DOMAIN images : images[i].bytes = "empty" THEN "STRING_VAL_EMPTY"
    ELSE "OK"

Height(info) == info.shape[Len(info.shape) - 2]
WidthOf(info) == info.shape[Len(info.shape) - 1]
Channels(info) == info.shape[Len(info.shape)]

validateNumberOfChannels(info, image, done) ==
    LET expected == IF isAny(Channels(info)) /\ done # <<>> THEN Static(done[1].channels) ELSE Channels(info)
    IN  isAny(expected) \/ match(expected, image.channels)

\* updateTargetResolution: the first image decides what is left open.
Target(dim, size) ==
    IF isAny(dim) \/ (isDynamic(dim) /\ match(dim, size)) THEN size
    ELSE IF ~isDynamic(dim) \/ size > dim.max THEN dim.max
    ELSE dim.min

isResizeSupported(info) ==
    /\ \A i \in DOMAIN info.shape : ~isAny(info.shape[i])
    /\ info.layout \in {<<"N", "H", "W", "C">>, <<"N", "?", "H", "W", "C">>, <<Etc>>}

Resized(image, rows, cols) == [image EXCEPT !.rows = rows, !.cols = cols]

\* One image after another, in the state [status, images].
ConvertImage(state, info, image, first) ==
    LET rows == Target(Height(info), first.rows)
        cols == Target(WidthOf(info), first.cols)
        done == state.images
        fail(s) == [state EXCEPT !.status = s]
    IN  IF state.status # "OK" THEN state
        ELSE IF image.bytes # "image" THEN fail("IMAGE_PARSING_FAILED")
        ELSE IF done # <<>> /\ ~isResizeSupported(info) /\ <<image.rows, image.cols>> # <<done[1].rows, done[1].cols>>
        THEN fail("BINARY_IMAGES_RESOLUTION_MISMATCH")
        ELSE IF ~validateNumberOfChannels(info, image, done) THEN fail("INVALID_NO_OF_CHANNELS")
        ELSE IF info.precision \notin Supported THEN fail("INVALID_PRECISION")
        ELSE IF <<image.rows, image.cols>> = <<rows, cols>> THEN [state EXCEPT !.images = Append(@, image)]
        ELSE IF ~isResizeSupported(info) THEN fail("INVALID_SHAPE")
        ELSE [state EXCEPT !.images = Append(@, Resized(image, rows, cols))]

ConvertImages(state, info, images) ==
    FoldLeft(LAMBDA s, image : ConvertImage(s, info, image, images[1]), state, images)

\* The tensor has the shape of the first image; every image is copied into it.
getShapeFromImages(images, info) ==
    LET first == images[1]
    IN  IF info.demultiplexed THEN <<Len(images), 1, first.rows, first.cols, first.channels>>
        ELSE <<Len(images), first.rows, first.cols, first.channels>>

convertBinaryRequestTensorToOVTensor(info, images) ==
    LET converted == ConvertImages([status |-> validateTensor(info, images), images |-> <<>>], info, images)
        shape == getShapeFromImages(converted.images, info)
        copied == Total([i \in DOMAIN images |-> LET m == converted.images[i] IN m.rows * m.cols * m.channels])
    IN  [status |-> converted.status,
         tensor |-> IF converted.status = "OK" THEN Tensor(shape, copied, Volume(shape)) ELSE NoTensor]

-----------------------------------------------------------------------------
\* Deserialization

\* The tensor is laid over the buffer: past the last one, over nothing that the
\* request has sent.
deserializeTensorProto(request, position, info) ==
    LET input == request.inputs[position]
        box == ValField(case.api, info.precision)
        bytes == Volume(input.shape) * Width[info.precision]
    IN  IF request.raw # <<>>
        THEN Tensor(input.shape, bytes, IF position \in DOMAIN request.raw THEN request.raw[position] ELSE 0)
        ELSE IF case.api = "TFS" /\ info.precision \in {"U32", "U64", "BOOL"} THEN NoTensor
        ELSE IF box = "none" THEN NoTensor
        ELSE IF box = "tensor_content" THEN Tensor(input.shape, bytes, SizeOf(input, box))
        ELSE Tensor(input.shape, SizeOf(input, box), Volume(input.shape))

\* OpenVINO takes a tensor whose shape is the one of the input.
give(info, tensor) == IF Matches(info.shape, tensor.shape, 0) THEN "OK" ELSE "OV_INTERNAL_DESERIALIZATION_ERROR"

deserializeInput(request, info) ==
    LET position == Min(Positions(request, info.name))
        input == request.inputs[position]
        made == IF checkIfBinaryInputUsed(input) THEN convertBinaryRequestTensorToOVTensor(info, input.images)
                ELSE [status |-> "OK", tensor |-> deserializeTensorProto(request, position, info)]
    IN  IF made.status # "OK" THEN made
        ELSE IF made.tensor = NoTensor THEN [made EXCEPT !.status = "OV_UNSUPPORTED_DESERIALIZATION_PRECISION"]
        ELSE [made EXCEPT !.status = give(info, made.tensor)]

deserializePredictRequest(request) ==
    LET inputs == [i \in DOMAIN servable |-> deserializeInput(request, servable[i])]
    IN  [status |-> FirstError([i \in DOMAIN inputs |-> inputs[i].status]),
         tensors |-> [i \in DOMAIN inputs |-> inputs[i].tensor]]

-----------------------------------------------------------------------------
\* Serialization

serializePrecision(output) ==
    IF output.precision # output.tensor.precision THEN "INTERNAL_ERROR"
    ELSE IF case.api = "TFS" /\ output.precision \in {"U32", "U64", "BOOL"} THEN "OV_UNSUPPORTED_SERIALIZATION_PRECISION"
    ELSE "OK"

serializeShape(output) == IF Matches(output.shape, output.tensor.shape, 0) THEN "OK" ELSE "INTERNAL_ERROR"

\* A response has its outputs in the order in which they were created and
\* the buffers beside them.  A buffer belongs to the output it was filled for.
\* (A TensorFlow Serving output has its buffer inside it: at its own position.)
Content(output) == [of |-> output.name, size |-> Volume(output.tensor.shape) * Width[output.tensor.precision]]
NoContent == [of |-> "", size |-> 0]
NewResponse == [status |-> "OK", outputs |-> <<>>, contents |-> <<>>]

PositionOf(response, name) == {i \in DOMAIN response.outputs : response.outputs[i] = name}

createOutput(response, name) ==
    IF PositionOf(response, name) # {} THEN response ELSE [response EXCEPT !.outputs = Append(@, name)]

createContent_Appends(response, name) ==
    [response |-> [response EXCEPT !.contents = Append(@, NoContent)], at |-> Len(response.contents) + 1]

createContent(response, name) ==
    LET at == Min(PositionOf(response, name))
    IN  IF Len(response.contents) < at
        THEN [response |-> [response EXCEPT !.contents = Append(@, NoContent)], at |-> Len(response.contents) + 1]
        ELSE [response |-> response, at |-> at]

\* A buffer that the gathering exit node has filled is kept.
serializeContent(content, output) == IF content.size = 0 THEN Content(output) ELSE content

serializeOutput(response, output) ==
    LET created == createContent(createOutput(response, output.name), output.name)
        status == FirstError(<<serializePrecision(output), serializeShape(output)>>)
    IN  IF response.status # "OK" THEN response
        ELSE IF status # "OK" THEN [created.response EXCEPT !.status = status]
        ELSE [created.response EXCEPT !.contents[created.at] = serializeContent(@, output)]

\* The exit node of a pipeline gathers some outputs before, in an order of
\* its own: prepareConsolidatedTensorImpl.
prepareConsolidatedTensor(response, output) ==
    [createOutput(response, output.name) EXCEPT !.contents = Append(@, Content(output))]

OutputNamed(name) == CHOOSE o \in ToSet(case.outputs) : o.name = name

Gathered(names) == FoldLeft(LAMBDA r, name : prepareConsolidatedTensor(r, OutputNamed(name)), NewResponse, names)
Serialized(response, outputs) == FoldLeft(serializeOutput, response, outputs)

serializePredictResponse(outputs) == Serialized(Gathered(case.gathered), outputs)

\* JSON has no numbers of some precisions.
JsonPrecisions(api) == IF api = "TFS" THEN Precisions \ {"FP16", "U16", "BOOL"} ELSE Precisions \ {"FP16", "BOOL"}

\* The tensors in the response, with the buffer at the position of each.
parseOutput(response, i) ==
    LET output == OutputNamed(response.outputs[i])
        content == response.contents[i]
    IN  IF content.size # Content(output).size THEN "REST_SERIALIZE_TENSOR_CONTENT_INVALID_SIZE"
        ELSE IF output.precision \notin JsonPrecisions(case.api) THEN "REST_UNSUPPORTED_PRECISION"
        ELSE IF case.api = "TFS" /\ content.size = 0 THEN "REST_SERIALIZE_NO_DATA"
        ELSE "OK"

\* TensorFlow Serving's rows need a batch size that all tensors share.
MakeJsonFromTensors(response) ==
    LET shapes == {OutputNamed(n).tensor.shape : n \in ToSet(response.outputs)}
    IN  IF case.order = "ROW" /\ (<<>> \in shapes \/ \E s, t \in shapes : s[1] # t[1])
        THEN "REST_PROTO_TO_STRING_ERROR" ELSE "OK"

makeJsonFromPredictResponse(response) ==
    LET each == FirstError([i \in DOMAIN response.outputs |-> parseOutput(response, i)])
    IN  IF each # "OK" THEN each
        ELSE IF case.api = "TFS" THEN MakeJsonFromTensors(response)
        ELSE "OK"

-----------------------------------------------------------------------------
\* What is exchanged

ImageRecord == [bytes : STRING, rows : Nat, cols : Nat, channels : Nat]
InputRecord == [name : STRING, datatype : STRING, shape : Seq(Int), box : STRING, size : Nat, images : Seq(ImageRecord)]
InfoRecord == [name : STRING, precision : Precisions, shape : Seq([min : Int, max : Int]), layout : Seq(Letters),
               auto : BOOLEAN, demultiplexed : BOOLEAN]
OutputRecord == [name : STRING, precision : Precisions, shape : Seq([min : Int, max : Int]),
                 tensor : [precision : Precisions, shape : Seq(Nat)]]

\* The elements of a sequence have names of their own.
Distinct(s) == \A i, j \in DOMAIN s : s[i].name = s[j].name => i = j

IsInput(input) == input.box \in {"string_val", "bytes_contents"} => input.size = Len(input.images)
IsInfo(info) == IsShape(info.shape) /\ IsLayout(info.layout)

\* With an automatic shape there is no automatic batch size (ModelConfig);
\* only stateful models have optional inputs, and their shapes are fixed.
IsRequest(c) ==
    /\ c.request.inputs \in Seq(InputRecord) /\ \A i \in DOMAIN c.request.inputs : IsInput(c.request.inputs[i])
    /\ c.request.raw \in Seq(Nat) /\ c.request.stray \in Nat
    /\ c.servable \in Seq(InfoRecord) /\ \A i \in DOMAIN c.servable : IsInfo(c.servable[i])
    /\ Distinct(c.servable)
    /\ c.batching = "AUTO" \/ (\E i \in DOMAIN c.servable : c.servable[i].auto) => c.optional = {}
    /\ c.batching = "AUTO" => \A i \in DOMAIN c.servable : ~c.servable[i].auto

\* The exit node gathers outputs of the pipeline, each of them once.
IsResponse(c) ==
    /\ c.api \in {"TFS", "KFS"}
    /\ c.outputs \in Seq(OutputRecord) /\ Distinct(c.outputs)
    /\ c.gathered \in Seq({c.outputs[i].name : i \in DOMAIN c.outputs}) /\ IsInjective(c.gathered)

IsPair(c) ==
    \A info \in {c.info, c.other} :
        info \in [precision : STRING, shape : Seq([min : Int, max : Int]), layout : Seq(Letters)] /\ IsInfo(info)

IsExchange(c) ==
    CASE c.what = "request" -> IsRequest(c) [] c.what = "response" -> IsResponse(c) [] OTHER -> IsPair(c)

-----------------------------------------------------------------------------
\* The steps

ExchangeInit ==
    /\ IsCase(case) /\ IsExchange(case)
    /\ stage = "start"
    /\ servable = IF case.what = "request" THEN case.servable ELSE <<>>
    /\ outcome = [status |-> "OK"]

Validate ==
    /\ stage = "start" /\ case.what = "request"
    /\ outcome' = [status |-> validate(case.request)]
    /\ stage' = IF outcome'.status = "OK" THEN "fits" ELSE IF outcome'.status \in Changes THEN "misfit" ELSE "refused"
    /\ UNCHANGED <<case, servable>>

\* reloadModelIfRequired: the request is not validated again.
ReloadBatchSize ==
    /\ stage = "misfit" /\ outcome.status = "BATCHSIZE_CHANGE_REQUIRED"
    /\ \E n \in RequestBatchSizes(case.request) : servable' = WithBatchSize(n)
    /\ stage' = "fits"
    /\ UNCHANGED <<case, outcome>>

ReloadShapes ==
    /\ stage = "misfit" /\ outcome.status = "RESHAPE_REQUIRED"
    /\ servable' = WithRequestShapes(case.request)
    /\ stage' = "fits"
    /\ UNCHANGED <<case, outcome>>

ReloadFails ==
    /\ stage = "misfit"
    /\ stage' = "refused"
    /\ UNCHANGED <<case, servable, outcome>>

Deserialize ==
    /\ stage = "fits"
    /\ outcome' = deserializePredictRequest(case.request)
    /\ stage' = "deserialized"
    /\ UNCHANGED <<case, servable>>

Serialize ==
    /\ stage = "start" /\ case.what = "response"
    /\ outcome' = serializePredictResponse(case.outputs)
    /\ stage' = "serialized"
    /\ UNCHANGED <<case, servable>>

MakeJson ==
    /\ stage = "serialized" /\ outcome.status = "OK"
    /\ outcome' = [outcome EXCEPT !.status = makeJsonFromPredictResponse(outcome)]
    /\ stage' = "json"
    /\ UNCHANGED <<case, servable>>

Intersect ==
    /\ stage = "start" /\ case.what = "infos"
    /\ outcome' = [status |-> "OK", common |-> InfoIntersection(case.info, case.other)]
    /\ stage' = "intersected"
    /\ UNCHANGED <<case, servable>>

ExchangeNext ==
    \/ Validate \/ ReloadBatchSize \/ ReloadShapes \/ ReloadFails \/ Deserialize
    \/ Serialize \/ MakeJson \/ Intersect

ExchangeSpec == ExchangeInit /\ [][ExchangeNext]_exchangeVars

-----------------------------------------------------------------------------
\* Properties

InputOf(i) == case.request.inputs[Min(Positions(case.request, servable[i].name))]

\* The request has raw buffers, but none at the position of this input.
Unbuffered(name) ==
    case.request.raw # <<>> /\ Min(Positions(case.request, name)) \notin DOMAIN case.request.raw

\* Deserialization reads for each input exactly what is there: all of the
\* container that validation measured and nothing past its end, although the two
\* choose container and raw buffer in different places; and images that fill the
\* tensor made for them, whatever their sizes and whichever of the dimensions
\* the servable leaves open.  Two cases are left out, because the code does not
\* see them: fewer raw buffers than inputs, where an input is measured by and
\* read from what lies past the last buffer; and a range of channels, where
\* nothing makes the images agree on their number.
ReadsWhatWasMeasured ==
    stage = "deserialized" =>
        \A i \in DOMAIN servable :
            \/ outcome.tensors[i].read = outcome.tensors[i].there
            \/ Unbuffered(servable[i].name)
            \/ /\ checkIfBinaryInputUsed(InputOf(i))
               /\ isDynamic(Channels(servable[i])) /\ ~isAny(Channels(servable[i]))

\* A request that is accepted, or that the servable was reloaded for, is one
\* the inference takes: no tensor, images' included, is refused for its shape
\* when it is handed over.  The request is not validated again after a reload,
\* and the size found in one input, at the place of the servable's first input,
\* stands for all: so the inputs have to agree on the size and on its place.
\* Images for a demultiplexer are divided into images: what it feeds has to take
\* one of them.
AcceptedIsTaken ==
    stage = "deserialized" /\ outcome.status = "OV_INTERNAL_DESERIALIZATION_ERROR" =>
        \/ /\ case.batching = "AUTO"
           /\ \E i, j \in DOMAIN servable :
                 LET place(k) == getBatchIndex(servable[k].layout)
                 IN  place(i) # place(j) \/ InputOf(i).shape[place(i)] # InputOf(j).shape[place(j)]
        \/ \E i \in DOMAIN servable :
              /\ servable[i].demultiplexed /\ checkIfBinaryInputUsed(InputOf(i))
              /\ Len(servable[i].shape) # 5 \/ ~match(servable[i].shape[2], 1)

\* Every output of the servable is in the response once, and the buffer at
\* its position is its own, whatever the exit node has gathered before and in
\* which order; and it can be written as JSON, but for the precisions JSON has
\* no writer for, for empty tensors in the TensorFlow Serving format, and for
\* rows of tensors that differ in their batch size.
ResponseIsWhole ==
    /\ stage \in {"serialized", "json"} /\ outcome.contents # <<>> /\ (stage = "serialized" => outcome.status = "OK") =>
        /\ ToSet(outcome.outputs) = {case.outputs[i].name : i \in DOMAIN case.outputs}
        /\ Len(outcome.outputs) = Len(case.outputs) /\ Len(outcome.contents) = Len(outcome.outputs)
        /\ \A i \in DOMAIN outcome.outputs : outcome.contents[i] = Content(OutputNamed(outcome.outputs[i]))
    /\ stage = "json" =>
        LET outputs == ToSet(case.outputs)
            writable == \A o \in outputs : o.precision \in JsonPrecisions(case.api)
            full == case.api = "KFS" \/ \A o \in outputs : Volume(o.tensor.shape) > 0
            rows == case.api = "TFS" /\ case.order = "ROW" =>
                      \A o, p \in outputs : o.tensor.shape # <<>> /\ o.tensor.shape[1] = p.tensor.shape[1]
        IN  outcome.status = "OK" <=> writable /\ full /\ rows

\* What two descriptions have in common is what both match: no tensor more
\* and no tensor less, the letters of the layout included, and the order of
\* the two does not matter.
CommonIsBoth ==
    stage = "intersected" =>
        LET a == case.info
            b == case.other
            n == Len(a.shape)
            la == Expand(a.layout, n)
            lb == Expand(b.layout, n)
            fits == Len(b.shape) = n /\ \A i \in 1..n : partiallyFitsInto(a.shape[i], b.shape[i])
            letters(l, m) == {p \in (1..n) \X (ToSet(l) \cup ToSet(m)) : p[2] # "?" /\ p[2] \in {l[p[1]], m[p[1]]}}
            meet == la # Nothing /\ lb # Nothing /\ Len(la[1]) = n /\ Len(lb[1]) = n /\
                    \A p, q \in letters(la[1], lb[1]) : (p[1] = q[1]) <=> (p[2] = q[2])
            precise == a.precision = b.precision \/ "UNDEFINED" \in {a.precision, b.precision}
        IN  /\ outcome.common # Nothing <=> fits /\ meet /\ precise
            /\ InfoIntersection(b, a) = outcome.common
            /\ outcome.common # Nothing =>
                 \A i \in 1..n : \A v \in 0..5 :
                    match(outcome.common[1].shape[i], v) <=> match(a.shape[i], v) /\ match(b.shape[i], v)
=============================================================================
