------------------------- MODULE MCRequestFrontends -------------------------
(* A small instance of RequestFrontends for TLC: one name whose servable is *)
(* loaded and reloaded, and others that are only registered.                *)
EXTENDS RequestFrontends

MCMaxGeneration == [n \in Names |-> IF n = "a" THEN 3 ELSE 0]

(* The second load takes what was parsed for the first, the third does not. *)
MCAccepts == [n \in Names |-> {<<1, 1>>, <<2, 2>>, <<3, 3>>, <<1, 2>>}]
=============================================================================
