------------------------------- MODULE Escrow -------------------------------
(***************************************************************************)
(* What an auction promises about its users' money.  A user's money is in  *)
(* the wallet, held for the auction, or paid.  The auction may take money  *)
(* from the wallet of a user only into what it holds for that user, for a  *)
(* bid of that user; it gives back everything it holds for a user or       *)
(* nothing; and it is paid only what it held.                              *)
(***************************************************************************)
EXTENDS Integers

CONSTANTS Users, Amounts

VARIABLES
    wallet,     \* what each user can spend
    held,       \* what the auction holds for each user
    paid        \* what each user has paid

vars == <<wallet, held, paid>>

Init ==
    /\ wallet = [u \in Users |-> 0]
    /\ held = [u \in Users |-> 0]
    /\ paid = [u \in Users |-> 0]

Fund(u, a) ==
    /\ wallet' = [wallet EXCEPT ![u] = @ + a]
    /\ UNCHANGED <<held, paid>>

Spend(u, a) ==
    /\ wallet[u] >= a
    /\ wallet' = [wallet EXCEPT ![u] = @ - a]
    /\ UNCHANGED <<held, paid>>

\* User u bids a more; the users in outbid, never u, get back what is held for them.
Bid(u, a, outbid) ==
    /\ wallet[u] >= a
    /\ wallet' = [v \in Users |-> IF v = u THEN wallet[v] - a
                                  ELSE IF v \in outbid THEN wallet[v] + held[v]
                                  ELSE wallet[v]]
    /\ held' = [v \in Users |-> IF v = u THEN held[v] + a
                                ELSE IF v \in outbid THEN 0
                                ELSE held[v]]
    /\ UNCHANGED paid

\* The users in winning pay what is held for them, those in losing get it back.
Settle(winning, losing) ==
    /\ winning \intersect losing = {}
    /\ wallet' = [v \in Users |-> IF v \in losing THEN wallet[v] + held[v] ELSE wallet[v]]
    /\ paid' = [v \in Users |-> IF v \in winning THEN paid[v] + held[v] ELSE paid[v]]
    /\ held' = [v \in Users |-> IF v \in winning \union losing THEN 0 ELSE held[v]]

Next ==
    \/ \E u \in Users, a \in Amounts : Fund(u, a) \/ Spend(u, a)
    \/ \E u \in Users, a \in Amounts, outbid \in SUBSET Users : Bid(u, a, outbid \ {u})
    \/ \E winning, losing \in SUBSET Users : Settle(winning, losing)

Spec == Init /\ [][Next]_vars

=============================================================================
