---------------------------- MODULE MCKubeClients -----------------------------
(* Model-checking instances of KubeClients.                                *)
EXTENDS KubeClients, TLC

\* Threads of a pool are interchangeable, and so are the Release calls.
Symmetry == Permutations(Workers) \cup Permutations(Helpers) \cup Permutations(Calls)
===============================================================================
