------------------------------ MODULE MCCASPaxos ------------------------------
(***************************************************************************)
(* CASPaxos on small instances for TLC, and two statements of the post   *)
(* that its code does not keep.                                            *)
(***************************************************************************)
EXTENDS CASPaxos

(* consensus.html:103, "The other servers will return a conflict(to server  *)
(* 1) if they already saw a greater ballot number": no prepare is confirmed *)
(* with a ballot below one that the acceptor confirmed before.              *)
ConflictIfGreater ==
    [][\A a \in Acceptors :
         promise'[a] \notin {promise[a], 0} => promise'[a] >= confirmed[a]]_vars

(* consensus.html:123-124, "Server 1 waits for a majority of servers to     *)
(* respond with confirmation", "Returns a response to the client": receive  *)
(* comes to an end.                                                         *)
ReceiveReturns == \A p \in Proposers : pc[p] # "idle" ~> pc[p] = "idle"
=============================================================================
