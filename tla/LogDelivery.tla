------------------------------ MODULE LogDelivery ------------------------------
(***************************************************************************)
(* What the log pipeline promises, seen from its two ends: a line that was *)
(* accepted is some time later stored in the table, once, or lost; a line  *)
(* that is lost or stored does not come back, and nothing is stored that   *)
(* was not accepted.                                                       *)
(***************************************************************************)
CONSTANT Line

VARIABLES
    seen,      (* the lines accepted so far                                 *)
    inflight,  (* those of them that are neither stored nor lost            *)
    stored     (* the rows of the table                                     *)

vars == <<seen, inflight, stored>>

Init == seen = {} /\ inflight = {} /\ stored = {}

Accept(l) ==
    /\ l \in Line \ seen
    /\ seen' = seen \cup {l}
    /\ inflight' = inflight \cup {l}
    /\ UNCHANGED stored

Store(l) ==
    /\ l \in inflight
    /\ stored' = stored \cup {l}
    /\ inflight' = inflight \ {l}
    /\ UNCHANGED seen

Lose(ls) ==
    /\ ls \subseteq inflight
    /\ inflight' = inflight \ ls
    /\ UNCHANGED <<seen, stored>>

Next ==
    \/ \E l \in Line : Accept(l) \/ Store(l)
    \/ \E ls \in SUBSET inflight : Lose(ls)

Spec == Init /\ [][Next]_vars
=============================================================================
