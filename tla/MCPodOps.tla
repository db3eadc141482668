------------------------------- MODULE MCPodOps -------------------------------
(* Model-checking instances of PodOps.                                     *)
EXTENDS PodOps, TLC

CONSTANTS t1, t2, t3

\* Two tasks that ask for 1 and 2 threads, one that asks for nothing.
Settings == (t1 :> 1) @@ (t2 :> 2) @@ (t3 :> 0)

===============================================================================
