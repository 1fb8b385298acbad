------------------------------ MODULE Custody ------------------------------
(***************************************************************************)
(* What HopDrop promises about one parcel, whatever its handlers do and in *)
(* whatever order they overlap: the sender has paid before the carrier     *)
(* takes the parcel, the carrier has taken it before it is handed over,    *)
(* and it has been handed over before the carrier's payout is released.    *)
(* MatchLifecycle is shown to implement this specification.                *)
(***************************************************************************)
CONSTANTS Matches,    \* pairings of a trip and a delivery request
          Requests,   \* delivery requests
          RequestOf   \* the delivery request a match serves

VARIABLES paid,       \* requests whose payment has been confirmed
          pickedUp,   \* matches whose pickup code the sender has verified
          delivered,  \* matches whose delivery code has been verified
          released    \* matches whose carrier payout is in the ledger

vars == <<paid, pickedUp, delivered, released>>

Init ==
    /\ paid = {}
    /\ pickedUp = {}
    /\ delivered = {}
    /\ released = {}

Pay(r) ==
    /\ paid' = paid \union {r}
    /\ UNCHANGED <<pickedUp, delivered, released>>

PickUp(m) ==
    /\ RequestOf[m] \in paid
    /\ pickedUp' = pickedUp \union {m}
    /\ UNCHANGED <<paid, delivered, released>>

Deliver(m) ==
    /\ m \in pickedUp
    /\ delivered' = delivered \union {m}
    /\ UNCHANGED <<paid, pickedUp, released>>

Release(m) ==
    /\ m \in delivered
    /\ m \notin released
    /\ released' = released \union {m}
    /\ UNCHANGED <<paid, pickedUp, delivered>>

Next ==
    \/ \E r \in Requests : Pay(r)
    \/ \E m \in Matches : PickUp(m) \/ Deliver(m) \/ Release(m)

Spec == Init /\ [][Next]_vars
=============================================================================
