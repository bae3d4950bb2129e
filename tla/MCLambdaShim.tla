----------------------------- MODULE MCLambdaShim -----------------------------
(* LambdaShim for TLC: everything is in the configuration.                   *)
EXTENDS LambdaShim
=============================================================================
