------------------------- MODULE PipelineValidation -------------------------
(***************************************************************************)
(* Which pipelines are accepted: the checks of the graph that              *)
(* PipelineDefinition::validate makes before a pipeline can be executed.   *)
(* (pipelinedefinition.cpp: NodeValidator, validateNodes,                  *)
(* validateForCycles, validateDemultiplexerGatherNodesOrder)               *)
(*                                                                         *)
(* A pipeline is its nodes with their kind, their dependencies, the number *)
(* of shards they demultiplex into (0: they do not, -1: as many as there   *)
(* are) and the demultiplexers they gather from.  All nodes but the entry  *)
(* have inputs; only the connections matter here, not the tensors.         *)
(***************************************************************************)
EXTENDS Integers, Sequences, FiniteSets, SequencesExt, Functions

\* The function f with the entry v for x, which it may have already.
Put(f, x, v) == [y \in DOMAIN f \cup {x} |-> IF y = x THEN v ELSE f[y]]

Kinds == {"ENTRY", "DL", "CUSTOM", "EXIT"}

IsGraph(g) ==
    /\ DOMAIN g = {"nodes", "kind", "deps", "demultiplyCount", "gatherFrom"}
    /\ IsFiniteSet(g.nodes)
    /\ g.kind \in [g.nodes -> Kinds]
    /\ g.deps \in [g.nodes -> SUBSET g.nodes]
    /\ g.demultiplyCount \in [g.nodes -> Int]
    /\ g.gatherFrom \in [g.nodes -> SUBSET g.nodes]
    /\ \A n \in g.nodes : g.deps[n] = {} <=> g.kind[n] = "ENTRY"

OfKind(g, kind) == {n \in g.nodes : g.kind[n] = kind}
EntryOf(g) == CHOOSE n \in g.nodes : g.kind[n] = "ENTRY"
ExitOf(g) == CHOOSE n \in g.nodes : g.kind[n] = "EXIT"
Demultiplexers(g) == {n \in g.nodes : g.demultiplyCount[n] # 0}
Inner == {"DL", "CUSTOM"}

(***************************************************************************)
(* NodeValidator, as far as it is about the graph: a node gathers from     *)
(* demultiplexers, does not depend on the exit, and takes what comes from  *)
(* another DL or custom node from one demultiplexer only.                  *)
(***************************************************************************)
validateGatherNode(g, n) == g.gatherFrom[n] \subseteq Demultiplexers(g)
getDependencyNodeInfo(g, d) == g.kind[d] # "EXIT"
checkConnectionMetadataCorrectness(g, n, d) ==
    g.kind[n] \in Inner /\ g.kind[d] \in Inner => Cardinality(g.gatherFrom[n]) <= 1

validateNode(g, n) ==
    /\ validateGatherNode(g, n)
    /\ \A d \in g.deps[n] : getDependencyNodeInfo(g, d) /\ checkConnectionMetadataCorrectness(g, n, d)

validateNodes(g) ==
    /\ Cardinality(OfKind(g, "ENTRY")) = 1
    /\ Cardinality(OfKind(g, "EXIT")) = 1
    /\ (\E n \in g.nodes : g.demultiplyCount[n] = -1) => Cardinality(Demultiplexers(g)) <= 1
    /\ \A n \in g.nodes : validateNode(g, n)

(***************************************************************************)
(* validateForCycles: a depth-first walk from the exit against the         *)
(* direction of the data, with the nodes on the way in parentNodes.        *)
(***************************************************************************)
Visit(g, walk) ==
    LET unvisited == g.deps[walk.node] \ walk.visited
        next == CHOOSE n \in unvisited : TRUE
    IN  IF walk.done THEN walk
        ELSE IF g.deps[walk.node] \cap (ToSet(walk.parentNodes) \cup {walk.node}) # {}
             THEN [walk EXCEPT !.done = TRUE, !.cycle = TRUE]
        ELSE IF unvisited # {}
             THEN [walk EXCEPT !.node = next, !.visited = @ \cup {next},
                               !.parentNodes = Append(@, walk.node)]
        ELSE IF walk.parentNodes = <<>> THEN [walk EXCEPT !.done = TRUE]
        ELSE [walk EXCEPT !.node = Last(walk.parentNodes), !.parentNodes = Front(@)]

Walked(g) ==
    LET start == [node |-> ExitOf(g), visited |-> {ExitOf(g)}, parentNodes |-> <<>>,
                  done |-> FALSE, cycle |-> FALSE]
        walk[i \in 0 .. 2 * Cardinality(g.nodes)] == IF i = 0 THEN start ELSE Visit(g, walk[i - 1])
    IN  walk[2 * Cardinality(g.nodes)]

validateForCycles(g) == ~Walked(g).cycle /\ Walked(g).visited = g.nodes

(***************************************************************************)
(* validateDemultiplexerGatherNodesOrder: from the exit towards the entry, *)
(* each node with the stack of the sets that are still to be met by their  *)
(* demultiplexers.                                                         *)
(***************************************************************************)
Bad == [ok |-> FALSE, stack |-> <<>>]

\* Sets that have been met stay on the stack.
Crossed_NoPop(g, stack, d) ==
    LET new == (IF d \in Demultiplexers(g) THEN Append(Front(stack), Last(stack) \ {d}) ELSE stack)
                    \o (IF g.gatherFrom[d] = {} THEN <<>> ELSE <<g.gatherFrom[d]>>)
    IN  IF \/ d \in Demultiplexers(g) /\ (stack = <<>> \/ d \notin Last(stack))
           \/ g.kind[d] = "ENTRY" /\ new # <<>>
        THEN Bad ELSE [ok |-> TRUE, stack |-> new]

\* The stack beyond the connection to node d.
Crossed(g, stack, d) ==
    LET left == Last(stack) \ {d}
        met == IF left = {} THEN Front(stack) ELSE Append(Front(stack), left)
        new == (IF d \in Demultiplexers(g) THEN met ELSE stack)
                    \o (IF g.gatherFrom[d] = {} THEN <<>> ELSE <<g.gatherFrom[d]>>)
    IN  IF \/ d \in Demultiplexers(g) /\ (stack = <<>> \/ d \notin Last(stack))
           \/ g.kind[d] = "ENTRY" /\ new # <<>>
        THEN Bad ELSE [ok |-> TRUE, stack |-> new]

CheckConnection(g, check, n, d) ==
    LET crossed == Crossed(g, check.stacks[n], d)
    IN  IF ~crossed.ok \/ (d \in DOMAIN check.stacks /\ check.stacks[d] # crossed.stack)
        THEN [check EXCEPT !.ok = FALSE]
        ELSE IF d \in DOMAIN check.stacks THEN check
        ELSE [check EXCEPT !.stacks = Put(@, d, crossed.stack), !.nodesToCheck = Append(@, d)]

CheckConnections(g, check, n) ==
    LET ds == SetToSeq(g.deps[n])
        checked[i \in 0 .. Len(ds)] ==
            IF i = 0 THEN check
            ELSE IF checked[i - 1].ok THEN CheckConnection(g, checked[i - 1], n, ds[i]) ELSE checked[i - 1]
    IN  checked[Len(ds)]

CheckNode(g, check) ==
    IF ~check.ok \/ check.nodesToCheck = <<>> THEN check
    ELSE CheckConnections(g, [check EXCEPT !.nodesToCheck = Front(@)], Last(check.nodesToCheck))

OrderCheck(g) ==
    LET x == ExitOf(g)
        start == [ok |-> TRUE, nodesToCheck |-> <<x>>,
                  stacks |-> Put(<<>>, x, IF g.gatherFrom[x] = {} THEN <<>> ELSE <<g.gatherFrom[x]>>)]
        check[i \in 0 .. Cardinality(g.nodes)] == IF i = 0 THEN start ELSE CheckNode(g, check[i - 1])
    IN  check[Cardinality(g.nodes)]

validateDemultiplexerGatherNodesOrder(g) == OrderCheck(g).ok

validate(g) ==
    /\ validateNodes(g)
    /\ validateForCycles(g)
    /\ validateDemultiplexerGatherNodesOrder(g)

(***************************************************************************)
(* The reference: what a pipeline must be like, without an algorithm       *)
(***************************************************************************)
Steps(k) == [i \in 1 .. k |-> i]

\* The nodes that the nodes ns depend on, directly or not.
Ancestors(g, ns) ==
    FoldLeft(LAMBDA found, i : found \cup UNION {g.deps[n] : n \in found},
             UNION {g.deps[n] : n \in ns}, Steps(Cardinality(g.nodes)))

Acyclic(g) == \A n \in g.nodes : n \notin Ancestors(g, {n})

\* The demultiplexers that are open after node n, outermost first, as one
\* dependency of it has them; <<"none">> where two differ or where what is
\* gathered is not what was opened last.
NotNested == <<"none">>
OpenLevels(g) ==
    LET open[n \in g.nodes] ==
            LET arriving == {open[d] : d \in g.deps[n]}
                levels == CHOOSE l \in arriving : TRUE
                inner == Cardinality(g.gatherFrom[n])
                kept == SubSeq(levels, 1, Len(levels) - inner)
                closed == SubSeq(levels, Len(levels) - inner + 1, Len(levels))
            IN  IF g.kind[n] = "ENTRY"
                THEN IF g.gatherFrom[n] # {} THEN NotNested
                     ELSE IF n \in Demultiplexers(g) THEN <<n>> ELSE <<>>
                ELSE IF \/ Cardinality(arriving) # 1 \/ levels = NotNested
                        \/ inner > Len(levels) \/ ToSet(closed) # g.gatherFrom[n]
                     THEN NotNested
                ELSE IF n \in Demultiplexers(g) THEN Append(kept, n) ELSE kept
    IN  open

WellNested(g) == \A n \in g.nodes : OpenLevels(g)[n] # NotNested

Wellformed(g) ==
    /\ validateNodes(g)
    /\ Acyclic(g) /\ g.nodes = Ancestors(g, {ExitOf(g)}) \cup {ExitOf(g)}
    /\ WellNested(g) /\ OpenLevels(g)[ExitOf(g)] = <<>>
=============================================================================
