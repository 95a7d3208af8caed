----------------------------- MODULE MCAuction -----------------------------
(***************************************************************************)
(* An instance of Auction for TLC.                                         *)
(***************************************************************************)
EXTENDS Auction, TLC

\* A schedule rule that gives the first round one winner more.
FrontLoaded == [r \in 1..TotalRounds |-> IF r = 1 THEN WinnersPerRound + 1 ELSE WinnersPerRound]

\* Users and bid ids are interchangeable.
Interchangeable == Permutations(Users) \union Permutations(BidIds)

=============================================================================
