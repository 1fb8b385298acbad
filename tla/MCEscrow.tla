------------------------------ MODULE MCEscrow ------------------------------
(* Instances of Escrow for TLC: one trip, one or two matches of one sender,   *)
(* and one payout job for each, which is named after it.                      *)
EXTENDS Escrow, TLC

CONSTANTS carl, sue, t1, m1, m2, c1, c2

MCCarrierOf == [t \in Trips |-> carl]
MCSenderOf  == [m \in Matches |-> sue]
MCTripOf    == [m \in Matches |-> t1]
MCMatchOf   == [j \in Jobs |-> j]

\* Calls are interchangeable, and so are the matches of one trip and one sender.
Interchangeable == Permutations(Calls) \union Permutations(Matches)

\* Releases and holds that overlap, of jobs that stall.
Races == {"release", "hold", "stall", "deactivate"}

\* Every way to move money, one match, calls that fail for good or die.
Everything == {"release", "deposit", "cancelTrip", "refund", "dispute", "transient", "error"}

\* A trip with two matches, its deposit put down, nothing going wrong.
SharedTrip == {"release", "deposit"}

\* A sender with two requests who cancels one, holds the other and leaves.
SenderLeaves == {"hold", "refund", "deactivate"}
=============================================================================
