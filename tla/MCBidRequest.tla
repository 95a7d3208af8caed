---------------------------- MODULE MCBidRequest ----------------------------
(***************************************************************************)
(* Instances of BidRequest for TLC.                                        *)
(***************************************************************************)
EXTENDS BidRequest

\* A new bid under a key, and a raise without one.
NewAndRaise ==
    {[key |-> "k", mode |-> "new", amount |-> 1], [key |-> NoKey, mode |-> "raise", amount |-> 1]}

\* New bids without a key.
NewOnly == {[key |-> NoKey, mode |-> "new", amount |-> 1]}

=============================================================================
