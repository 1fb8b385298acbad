----------------------------- MODULE MCMatching -----------------------------
(***************************************************************************)
(* A carrier's trips and a sender's requests, one unit of weight each.  A  *)
(* behaviour is about everything users do with one trip and one request    *)
(* while no call fails, or about the offers of two trips under faults.     *)
(***************************************************************************)
EXTENDS Matching

CONSTANTS t1, t2, r1, r2, carl, sue

MCCarrierOf == [t \in Trips |-> carl]
MCSenderOf  == [r \in Requests |-> sue]
MCWeight    == [r \in Requests |-> 1]

VARIABLE focus

FocusInit == MatchingInit /\ focus \in {"users", "faults"}

FocusNext ==
    /\ MatchingNext
    /\ UNCHANGED focus
    /\ focus = "users" =>
          /\ faults' = 0
          /\ \A t \in Trips \ {t1} : tripState'[t] = "none"
    /\ focus = "faults" =>
          /\ edits' = 0
          /\ \A p \in Pairs : matches'[p] \in {"none", "proposed"}
          /\ \A r \in Requests : requestState'[r] # "cancelled"
          /\ \A t \in Trips : tripState'[t] # "cancelled"

FocusSpec == FocusInit /\ [][FocusNext]_<<matchingVars, focus>> /\ MatchingFairness
=============================================================================
