----------------------- MODULE MCInferRequestsQueue -------------------------
(***************************************************************************)
(* Instances of the inference request queue for TLC: streams are numbered, *)
(* requests and sessions are model values of the configurations.           *)
(***************************************************************************)
EXTENDS InferRequestsQueue
=============================================================================
