------------------------ MODULE MCPipelineExecution ------------------------
(***************************************************************************)
(* Pipelines of two inner nodes, connected in every way, cycles included;  *)
(* every node may demultiplex (into two shards, the request also           *)
(* dynamically) and gather.                                                *)
(***************************************************************************)
EXTENDS PipelineExecution

Nodes == {"request", "a", "b", "response"}

MCGraphs ==
    {[nodes |-> Nodes,
      kind |-> [request |-> "ENTRY", a |-> "DL", b |-> kb, response |-> "EXIT"],
      deps |-> [request |-> {}, a |-> da, b |-> db, response |-> dx],
      demultiplyCount |-> [request |-> ce, a |-> ca, b |-> 0, response |-> 0],
      gatherFrom |-> [request |-> {}, a |-> ga, b |-> gb, response |-> gx]] :
        kb \in {"DL", "CUSTOM"}, da \in SUBSET {"request", "b"} \ {{}}, db \in SUBSET {"request", "a"} \ {{}},
        dx \in SUBSET {"request", "a", "b"} \ {{}},
        ce \in {0, 2, -1}, ca \in {0, 2, -1},
        ga \in {{}, {"request"}}, gb \in {{}, {"request"}, {"a"}, {"request", "a"}},
        gx \in {{}, {"request"}, {"a"}, {"request", "a"}}}
=============================================================================
