------------------------------ MODULE MCKeepalive ------------------------------
(* Model-checking instances of Keepalive.                                  *)
EXTENDS Keepalive
===============================================================================
