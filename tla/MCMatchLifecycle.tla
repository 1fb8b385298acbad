-------------------------- MODULE MCMatchLifecycle --------------------------
(* Instances of MatchLifecycle for TLC: one match of one delivery request. *)
EXTENDS MatchLifecycle, TLC

CONSTANTS m1, r1, t1, c1, c2, w1

MCRequestOf == [m \in Matches |-> r1]
MCTripOf    == [m \in Matches |-> t1]

\* Request handlers are interchangeable; workers are not handlers.
Handlers == Permutations(Calls \ Workers)

\* The road to a payout, by handlers that overlap.
RoadToPayout == {"accept", "confirm", "generatePickup", "verifyPickup",
                 "generateDelivery", "verifyDelivery", "pay", "payout"}

\* Everything that can happen to a match, one handler at a time, while calls
\* die, codes expire and the accept lock runs out under its owner.
Everything == HandlerOps \union {"crash", "expire", "slowLock"}

\* The road to a payout with a sender who changes her mind on the way.
RoadWithCancel == (RoadToPayout \ {"payout"}) \union {"cancel"}
=============================================================================
