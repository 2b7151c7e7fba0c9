------------------------ MODULE MCPipelineDefinition ------------------------
(***************************************************************************)
(* Instances of the pipeline definition for TLC.                           *)
(***************************************************************************)
EXTENDS PipelineDefinition, TLC

CONSTANTS q1, q2, mA, mB, n1

Definition(fits, versioned, custom) == [fits |-> fits, versioned |-> versioned, custom |-> custom]

\* One that names a version of the model and has a custom node; one that uses
\* the default version, has no custom node and fits no model.
TwoDefinitions == {Definition({mA}, TRUE, {n1}), Definition({}, FALSE, {})}
=============================================================================
