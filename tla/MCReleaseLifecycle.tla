-------------------------- MODULE MCReleaseLifecycle --------------------------
(* Model-checking instances of ReleaseLifecycle.                           *)
EXTENDS ReleaseLifecycle, TLC

\* Samples, and task_cleanup() calls, are interchangeable.
Symmetry == Permutations(Samples) \cup Permutations(Tasks)
===============================================================================
