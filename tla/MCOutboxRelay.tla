---------------------------- MODULE MCOutboxRelay ----------------------------
(* Instances of OutboxRelay for TLC: one or two processes, two events. *)
EXTENDS OutboxRelay

CONSTANTS a, b

\* A behaviour has one process that crashes, or two whose MongoDB calls reject.
VARIABLE fleet

FleetInit == Init /\ fleet \in {{a}, {a, b}}

FleetNext ==
    /\ Next
    /\ UNCHANGED fleet
    /\ \A r \in Relays \ fleet : at'[r] = "down"
    /\ IF fleet = {a} THEN errors' = 0 ELSE crashes' = 0

\* The fairness of OutboxRelay, of the processes that the fleet has.
FleetFairness ==
    /\ \A r \in Relays :
          /\ WF_vars(r \in fleet /\ Start(r))
          /\ WF_vars(BeginFlush(r))
          /\ WF_vars(Flush(r))
    /\ \A e \in Events : WF_vars(Available(e))

FleetSpec == FleetInit /\ [][FleetNext]_<<vars, fleet>> /\ FleetFairness

\* A process that is alone, however often it is restarted, gives no event that
\* is pending or being published a date of deletion.
PendingKeptAlone == fleet = {a} => PendingKept
=============================================================================
