---------------------------- MODULE MCWriteStream -----------------------------
(* Model-checking instances of WriteStream.                                *)
EXTENDS WriteStream
===============================================================================
