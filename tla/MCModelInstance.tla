-------------------------- MODULE MCModelInstance ---------------------------
(***************************************************************************)
(* Instances of a model version for TLC.                                   *)
(***************************************************************************)
EXTENDS ModelInstance

CONSTANTS p1, p2, b1, b2, dirA, dirB, nhwc, nchw, loaderX, loaderY

Config(path, layout, b, loader) == [path |-> path, layout |-> layout, batch |-> b, loader |-> loader]

\* A model that moves between one custom loader with batch_size auto and
\* another one with a fixed batch size.
Varied == {Config(dirA, nchw, AutoBatch, loaderX), Config(dirA, nchw, b2, loaderY)}
=============================================================================
