------------------------------ MODULE MCOpStream ------------------------------
(* Model-checking instances of OpStream.                                   *)
EXTENDS OpStream
===============================================================================
