----------------------------- MODULE MCEvalFaults -----------------------------
(* Model-checking instances of EvalFaults.                                 *)
EXTENDS EvalFaults

===============================================================================
