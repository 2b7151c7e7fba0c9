-------------------------- MODULE MCModelVersions ---------------------------
(***************************************************************************)
(* Instances of the version management for TLC.                            *)
(***************************************************************************)
EXTENDS ModelVersions

Latest(n) == [kind |-> "latest", num |-> n]
Specific(vs) == [kind |-> "specific", versions |-> vs]

\* By name, 10 comes before 8 and 9.
ThreeVersions == <<10, 8, 9>>

TwoPolicies == {Latest(1), Specific({8, 10})}
=============================================================================
