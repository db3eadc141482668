---------------------------- MODULE MCPodIdentity -----------------------------
(* Model-checking instances of PodIdentity.                                *)
EXTENDS PodIdentity, TLC

\* Callers are interchangeable.
Symmetry == Permutations(Callers)
===============================================================================
