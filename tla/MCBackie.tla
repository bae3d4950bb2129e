------------------------------- MODULE MCBackie -------------------------------
(***************************************************************************)
(* Backie on a small instance for TLC: a shop that queues e-mails and      *)
(* orders, two workers for the e-mails and none for the orders.            *)
(***************************************************************************)
EXTENDS Backie, TLC

CONSTANTS mail1, mail2, email, order

MCServes == (mail1 :> email) @@ (mail2 :> email)
=============================================================================
