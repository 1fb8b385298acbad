------------------------------- MODULE Ledger -------------------------------
(***************************************************************************)
(* What the wallets of HopDrop promise: a movement of money happens at     *)
(* once and as a whole, wallet and ledger row together, no movement undoes *)
(* another one, and a match is paid out at most once.  Escrow, whose       *)
(* movements are transactions and updates that overlap, implements it.     *)
(***************************************************************************)
EXTENDS Integers

CONSTANTS Users,
          Trips,      \* a trip has a carrier, who leaves a safety deposit
          Matches,    \* a match has a sender, who pays the charge
          CarrierOf, SenderOf, TripOf,
          Deposit, Charge, Payout   \* amounts of money, the same for every match

VARIABLES held,       \* wallet.escrowHeld of each user
          balance,    \* wallet.balance of each user
          holds,      \* escrow_hold rows of each match
          payouts     \* carrier_payout rows of each match

vars == <<held, balance, holds, payouts>>

\* What is left of h held once a is taken from it.
Settle(h, a) == IF h > a THEN h - a ELSE 0

Init ==
    /\ held = [u \in Users |-> 0]
    /\ balance = [u \in Users |-> 0]
    /\ holds = [m \in Matches |-> 0]
    /\ payouts = [m \in Matches |-> 0]

Hold(m) ==
    /\ holds' = [holds EXCEPT ![m] = @ + 1]
    /\ held' = [held EXCEPT ![SenderOf[m]] = @ + Charge]
    /\ UNCHANGED <<balance, payouts>>

\* The carrier gets the payout and the trip's deposit.  The charge is taken from
\* what the sender has held, unless there was nothing to take.
Release(m) ==
    LET carrier == CarrierOf[TripOf[m]]  sender == SenderOf[m] IN
    /\ payouts[m] = 0
    /\ payouts' = [payouts EXCEPT ![m] = 1]
    /\ balance' = [balance EXCEPT ![carrier] = @ + Deposit + Payout]
    /\ \E left \in {held[sender], Settle(held[sender], Charge)} :
          held' = [held EXCEPT ![carrier] = Settle(@, Deposit), ![sender] = left]
    /\ UNCHANGED holds

\* The carrier's deposit, and what is given back when a trip or a request is cancelled.
PutDeposit(t) ==
    /\ held' = [held EXCEPT ![CarrierOf[t]] = @ + Deposit]
    /\ UNCHANGED <<balance, holds, payouts>>

GiveBack(u, a) ==
    /\ held' = [held EXCEPT ![u] = @ - a]
    /\ balance' = [balance EXCEPT ![u] = @ + a]
    /\ UNCHANGED <<holds, payouts>>

Next ==
    \/ \E m \in Matches : Hold(m) \/ Release(m) \/ GiveBack(SenderOf[m], Charge)
    \/ \E t \in Trips : PutDeposit(t) \/ GiveBack(CarrierOf[t], Deposit)

Spec == Init /\ [][Next]_vars
=============================================================================
