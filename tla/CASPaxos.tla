------------------------------- MODULE CASPaxos -------------------------------
(***************************************************************************)
(* The CASPaxos prototype of blogs/02/consensus.html: proposers that       *)
(* receive requests and the acceptors they call.  The post lets instances  *)
(* of two classes stand for servers, so a call of an acceptor is one step  *)
(* and the calls of several proposers interleave.  It is Python 2: "/" on  *)
(* integers rounds down.                                                   *)
(***************************************************************************)
EXTENDS Naturals, Sequences, FiniteSets, Functions

CONSTANTS
    N,            (* the number of acceptors, in the order of the list      *)
    Proposers,
    Values,       (* the states that clients ask for                        *)
    Dicts,        (* those that are dictionaries, which sum() cannot add    *)
    MaxBallot,    (* the greatest ballot that is drawn, 100 in the code     *)
    MaxRequests   (* bound: the requests that are received                  *)

ASSUME PaxosAssumption ==
    /\ N \in Nat \ {0}
    /\ 0 \notin Values /\ Dicts \subseteq Values
    /\ MaxBallot \in Nat \ {0}
    /\ MaxRequests \in Nat

(* N = 2F + 1, "since we need to have 2F+1 acceptors to tolerate F          *)
(* failures".                                                               *)
ASSUME OddAssumption == N % 2 = 1

Acceptors == 1..N
Ballots == 1..MaxBallot

(* The accepted tuple; a value and a ballot of 0 stand for nothing.         *)
Accepted == [value : Values \cup {0}, ballot : Ballots \cup {0}]

(* An answered request, with the greatest ballot that had been answered     *)
(* when it was received.                                                    *)
Answer == [by : Proposers, value : Values, ballot : Ballots, after : Ballots \cup {0}]

VARIABLES
    promise,        (* of each acceptor                                     *)
    accepted,
    pc,             (* where each proposer's receive is                     *)
    request,        (* its argument, and send_accept's self.state           *)
    ballot,         (* its ballot_number                                    *)
    next,           (* the acceptor its loop calls next                     *)
    confirmations,  (* the accepted tuples its prepare calls returned       *)
    acceptations,   (* how many of its accept calls were confirmed          *)
    received,       (* how many requests the proposers have received        *)
    after,          (* history: the greatest answered ballot at receive     *)
    answers,        (* history: the requests that were answered             *)
    answered,       (* history: the greatest ballot that was answered       *)
    confirmed,      (* history: the greatest ballot each acceptor confirmed *)
    drawn           (* history: the greatest ballot any proposer drew       *)

acceptorVars == <<promise, accepted, confirmed>>
callVars == <<request, ballot, received, after, drawn>>
answerVars == <<answers, answered>>
vars == <<acceptorVars, callVars, pc, next, confirmations, acceptations, answerVars>>

TypeOK ==
    /\ promise \in [Acceptors -> Ballots \cup {0}]
    /\ accepted \in [Acceptors -> Accepted]
    /\ pc \in [Proposers -> {"idle", "preparing", "accepting"}]
    /\ request \in [Proposers -> Values \cup {0}]
    /\ ballot \in [Proposers -> Ballots \cup {0}]
    /\ next \in [Proposers -> 1..(N + 1)]
    /\ confirmations \in [Proposers -> Seq(Accepted)]
    /\ acceptations \in [Proposers -> 0..N]
    /\ received \in 0..MaxRequests
    /\ after \in [Proposers -> Ballots \cup {0}]
    /\ answers \subseteq Answer
    /\ answered \in Ballots \cup {0}
    /\ confirmed \in [Acceptors -> Ballots \cup {0}]
    /\ drawn \in Ballots \cup {0}
    /\ \A p \in Proposers :
         /\ pc[p] # "idle" => request[p] \in Values /\ ballot[p] \in Ballots
         /\ pc[p] = "accepting" => acceptations[p] < next[p]

Init ==
    /\ promise = [a \in Acceptors |-> 0]
    /\ accepted = [a \in Acceptors |-> [value |-> 0, ballot |-> 0]]
    /\ pc = [p \in Proposers |-> "idle"]
    /\ request = [p \in Proposers |-> 0]
    /\ ballot = [p \in Proposers |-> 0]
    /\ next = [p \in Proposers |-> 1]
    /\ confirmations = [p \in Proposers |-> <<>>]
    /\ acceptations = [p \in Proposers |-> 0]
    /\ received = 0
    /\ after = [p \in Proposers |-> 0]
    /\ answers = {}
    /\ answered = 0
    /\ confirmed = [a \in Acceptors |-> 0]
    /\ drawn = 0

Greater(m, n) == IF m > n THEN m ELSE n

-----------------------------------------------------------------------------
(* Acceptor                                                                 *)

MutantPrepares(a, b) == promise[a] < b

(* prepare confirms unless it has promised a greater ballot.                *)
Prepares(a, b) == promise[a] <= b

MutantAccepts(a, b) == promise[a] <= b

(* accept confirms unless it has promised or accepted a greater ballot.     *)
Accepts(a, b) == promise[a] <= b /\ accepted[a].ballot <= b

Confirm(a, b) == confirmed' = [confirmed EXCEPT ![a] = Greater(@, b)]

-----------------------------------------------------------------------------
(* Proposer                                                                 *)

(* F + 1 confirmations are enough, for N = 2F + 1 acceptors.                *)
F == (N - 1) \div 2

MutantEnough(n) == n >= F

Enough(n) == n >= F + 1

MutantDraws == 0..MaxBallot

(* What generate_ballot_number can return: never the default promise.       *)
Draws == Ballots

(* receive draws a ballot at random; nothing keeps two draws apart.         *)
Receive(p) ==
    /\ pc[p] = "idle" /\ received < MaxRequests
    /\ \E v \in Values, b \in Draws :
         /\ request' = [request EXCEPT ![p] = v]
         /\ ballot' = [ballot EXCEPT ![p] = b]
         /\ drawn' = Greater(drawn, b)
    /\ received' = received + 1
    /\ after' = [after EXCEPT ![p] = answered]
    /\ pc' = [pc EXCEPT ![p] = "preparing"]
    /\ UNCHANGED <<acceptorVars, next, confirmations, acceptations, answerVars>>

(* send_prepare calls the next acceptor; a conflict is passed over.         *)
CallPrepare(p) ==
    LET a == next[p]
    IN  /\ pc[p] = "preparing" /\ a <= N
        /\ \/ /\ Prepares(a, ballot[p])
              /\ promise' = [promise EXCEPT ![a] = ballot[p]]
              /\ confirmations' = [confirmations EXCEPT ![p] = Append(@, accepted[a])]
              /\ Confirm(a, ballot[p])
           \/ /\ ~ Prepares(a, ballot[p])
              /\ UNCHANGED <<promise, confirmations, confirmed>>
        /\ next' = [next EXCEPT ![p] = a + 1]
        /\ UNCHANGED <<accepted, callVars, pc, acceptations, answerVars>>

(* sum() of the confirmed values raises TypeError for a dictionary.         *)
SumRaises(p) == \E c \in Range(confirmations[p]) : c.value \in Dicts

Prepared(p) == pc[p] = "preparing" /\ next[p] = N + 1 /\ Enough(Len(confirmations[p]))

(* The value found among the confirmations is overwritten by the client's:  *)
(* send_accept starts with the request, whatever was accepted before.       *)
StartAccept(p) ==
    /\ Prepared(p) /\ ~ SumRaises(p)
    /\ pc' = [pc EXCEPT ![p] = "accepting"]
    /\ next' = [next EXCEPT ![p] = 1]
    /\ confirmations' = [confirmations EXCEPT ![p] = <<>>]
    /\ acceptations' = [acceptations EXCEPT ![p] = 0]
    /\ UNCHANGED <<acceptorVars, callVars, answerVars>>

(* The end of receive and of its local variables.                           *)
End(p) ==
    /\ pc' = [pc EXCEPT ![p] = "idle"]
    /\ request' = [request EXCEPT ![p] = 0]
    /\ ballot' = [ballot EXCEPT ![p] = 0]
    /\ next' = [next EXCEPT ![p] = 1]
    /\ confirmations' = [confirmations EXCEPT ![p] = <<>>]
    /\ acceptations' = [acceptations EXCEPT ![p] = 0]
    /\ after' = [after EXCEPT ![p] = 0]
    /\ UNCHANGED <<received, drawn>>

(* The exception reaches the client.                                        *)
ReceiveRaises(p) ==
    /\ Prepared(p) /\ SumRaises(p)
    /\ End(p)
    /\ UNCHANGED <<acceptorVars, answerVars>>

(* self.promise = 0                                                         *)
Forgets(a) == promise' = [promise EXCEPT ![a] = 0]

CallAccept(p) ==
    LET a == next[p]
    IN  /\ pc[p] = "accepting" /\ a <= N
        /\ \/ /\ Accepts(a, ballot[p])
              /\ Forgets(a)
              /\ accepted' = [accepted EXCEPT
                                ![a] = [value |-> request[p], ballot |-> ballot[p]]]
              /\ acceptations' = [acceptations EXCEPT ![p] = @ + 1]
              /\ Confirm(a, ballot[p])
           \/ /\ ~ Accepts(a, ballot[p])
              /\ UNCHANGED <<acceptorVars, acceptations>>
        /\ next' = [next EXCEPT ![p] = a + 1]
        /\ UNCHANGED <<callVars, pc, confirmations, answerVars>>

(* receive returns the state.  With fewer confirmations the proposer sleeps *)
(* and looks again for ever, and asks nobody again, here and in Prepared.   *)
Return(p) ==
    /\ pc[p] = "accepting" /\ next[p] = N + 1
    /\ Enough(acceptations[p])
    /\ answers' = answers \cup
         {[by |-> p, value |-> request[p], ballot |-> ballot[p], after |-> after[p]]}
    /\ answered' = Greater(answered, ballot[p])
    /\ End(p)
    /\ UNCHANGED acceptorVars

Continue(p) ==
    CallPrepare(p) \/ StartAccept(p) \/ ReceiveRaises(p) \/ CallAccept(p) \/ Return(p)

Next == \E p \in Proposers : Receive(p) \/ Continue(p)

(* A proposer that is not asleep goes on.                                   *)
Fairness == \A p \in Proposers : WF_vars(Continue(p))

Spec == Init /\ [][Next]_vars
FairSpec == Spec /\ Fairness

-----------------------------------------------------------------------------
(* Although accept forgets the promise, an acceptor still knows the         *)
(* greatest ballot it ever confirmed: it is the promise or the accepted     *)
(* ballot.  So accept never confirms a ballot below one confirmed before.   *)
ResetIsSafe ==
    \A a \in Acceptors : confirmed[a] = Greater(promise[a], accepted[a].ballot)

(* An answered request stays with a majority of the acceptors, unless they  *)
(* have accepted one with a ballot as great since.                          *)
KeptByMajority ==
    \A r \in answers :
        2 * Cardinality({a \in Acceptors : accepted[a].ballot >= r.ballot}) > N

(* A request that is received after another was answered is not answered    *)
(* with a smaller ballot: a majority still refuses it in its accept phase,  *)
(* also where the reset let its prepare phase pass.                         *)
NoStaleAnswer == \A r \in answers : r.ballot >= r.after

(* Only a request overtaken by a greater ballot can wait for ever: one that *)
(* nobody has outbid is answered, or raises.                                *)
GreatestAnswered ==
    \A p \in Proposers :
        pc[p] # "idle" ~> (pc[p] = "idle" \/ ballot[p] < drawn)
=============================================================================
