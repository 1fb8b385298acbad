---------------------------- MODULE EscrowProofs ----------------------------
(***************************************************************************)
(* For any number of calls, jobs, users, trips and matches, any amounts    *)
(* and any number of attempts: a match is paid out once, a job counted as  *)
(* completed was paid, and the overlapping transactions implement Ledger.  *)
(* The argument: what a transaction read of a wallet is still true of it   *)
(* unless the wallet is marked stale for it, and no transaction commits a  *)
(* write of a stale wallet; so of two releases of a match that both found  *)
(* no payout row the second cannot have written the carrier.               *)
(***************************************************************************)
EXTENDS Escrow, TLAPS

\* What a call works on, by its operation, and the operations of the steps of a
\* transaction.
CallShape(k) ==
    /\ k.op = "release" => k.on \in Jobs
    /\ k.op \in {"hold", "refund"} => k.on \in Matches
    /\ k.op \in {"deposit", "cancelTrip"} => k.on \in Trips
    /\ k.op = "deactivate" => k.on \in Users
    /\ k.at \in {"begin", "sender", "commit", "orphan"} => k.op \in {"release", "hold"}
    /\ k.at = "carrier" => k.op = "release"

\* The steps at which a transaction is open.
Inside == {"carrier", "sender", "commit", "orphan"}

\* What a transaction has written when its call is at a given step.
TxnShape(c) ==
    LET k == calls[c]  t == txn[c] IN
    /\ t.open <=> k.at \in Inside
    /\ ~ t.open => t.writes = {} /\ t.stale = {} /\ ~ t.released
    /\ t.writes \intersect t.stale = {}
    /\ t.released => k.op = "release"
    /\ k.at = "carrier" => ~ t.released /\ t.writes = {}
    /\ k.at = "sender" => /\ ~ t.released
                          /\ t.writes = IF k.op = "release" THEN {Carrier(c)} ELSE {}
    /\ k.at = "commit" =>
          \/ k.op = "hold" /\ t.writes = {Sender(c)}
          \/ t.released /\ t.writes = {}
          \/ k.op = "release" /\ ~ t.released /\ t.writes = {Carrier(c), Sender(c)}
          \/ /\ k.op = "release" /\ ~ t.released /\ t.writes = {Carrier(c)}
             /\ SenderHeld(c) = t.held[Sender(c)]

\* What a snapshot says holds unless the wallets it is about are stale.
SnapshotTrue(c) ==
    LET t == txn[c] IN
    t.open =>
       /\ \A u \in Users \ t.stale : t.held[u] = held[u] /\ t.balance[u] = balance[u]
       /\ t.released => payouts[On(c)] > 0
       /\ calls[c].op = "release" /\ ~ t.released /\ payouts[On(c)] > 0
             => Carrier(c) \in t.stale

\* Nobody writes what another transaction is writing.
WritesApart == \A c, d \in Calls : c # d => txn[c].writes \intersect txn[d].writes = {}

Transactions == \A c \in Calls : CallShape(calls[c]) /\ TxnShape(c) /\ SnapshotTrue(c)

Inv == TypeOK /\ Transactions /\ WritesApart /\ PaidOnce

\* Two calls that agree on a call and a transaction may differ in what is stale.
Outdated(t, us) == [t EXCEPT !.stale = IF t.open THEN @ \union us ELSE @]

-----------------------------------------------------------------------------
(* The operators the actions are built from *)

LEMMA Constructors ==
  ASSUME TypeOK
  PROVE  /\ Idle \in Call /\ CallShape(Idle)
         /\ NoTxn \in Txn
         /\ Snapshot(TRUE) \in Txn /\ Snapshot(FALSE) \in Txn
<1>1. Idle \in Call /\ CallShape(Idle)
  BY BoundsType DEF Idle, Call, Steps, CallShape
<1>2. NoTxn \in Txn
  BY DEF NoTxn, Txn
<1>3. Snapshot(TRUE) \in Txn /\ Snapshot(FALSE) \in Txn
  BY DEF Snapshot, Txn, TypeOK
<1> QED
  BY <1>1, <1>2, <1>3

\* The parties of a transaction are two users.
LEMMA Parties ==
  ASSUME TypeOK, NEW c \in Calls, CallShape(calls[c]),
         calls[c].op \in {"release", "hold", "refund"}
  PROVE  /\ On(c) \in Matches
         /\ Carrier(c) \in Users /\ Sender(c) \in Users
         /\ Carrier(c) # Sender(c)
<1>1. On(c) \in Matches
  BY MatchOfType DEF On, CallShape
<1> QED
  BY <1>1, TripOfType, PartiesType, PartiesDiffer DEF Carrier, Sender

LEMMA OutdateType ==
  ASSUME TypeOK, NEW us \in SUBSET Users
  PROVE  /\ Outdate(txn, us) \in [Calls -> Txn]
         /\ \A d \in Calls : Outdate(txn, us)[d] = Outdated(txn[d], us)
<1>1. \A d \in Calls : Outdated(txn[d], us) \in Txn
  BY DEF TypeOK, Txn, Outdated
<1> QED
  BY <1>1 DEF Outdate, Outdated

LEMMA SettleType ==
  ASSUME NEW h \in Int, NEW a \in Nat
  PROVE  Settle(h, a) \in Int
BY DEF Settle

-----------------------------------------------------------------------------
(* What a call that takes no step keeps *)

LEMMA Keep ==
  ASSUME Inv, NEW d \in Calls, NEW us \in SUBSET Users,
         calls'[d] = calls[d],
         txn'[d] = Outdated(txn[d], us),
         us \intersect txn[d].writes = {},
         \A u \in Users \ us : held'[u] = held[u] /\ balance'[u] = balance[u],
         \A m \in Matches : \/ payouts'[m] = payouts[m]
                            \/ payouts'[m] > 0 /\ CarrierOf[TripOf[m]] \in us
  PROVE  (CallShape(calls[d]) /\ TxnShape(d) /\ SnapshotTrue(d))'
<1> DEFINE t == txn[d]
           k == calls[d]
<1>1. CallShape(k) /\ TxnShape(d) /\ SnapshotTrue(d) /\ t \in Txn /\ k \in Call
  BY DEF Inv, Transactions, TypeOK
<1>2. /\ txn'[d].open = t.open /\ txn'[d].held = t.held /\ txn'[d].balance = t.balance
      /\ txn'[d].released = t.released /\ txn'[d].writes = t.writes
      /\ txn'[d].stale = IF t.open THEN t.stale \union us ELSE t.stale
  BY <1>1 DEF Outdated, Txn
<1>3. On(d)' = On(d) /\ Carrier(d)' = Carrier(d) /\ Sender(d)' = Sender(d)
      /\ SenderHeld(d)' = SenderHeld(d)
  BY <1>2 DEF On, Carrier, Sender, SenderHeld
<1>4. CallShape(calls[d])'
  BY <1>1 DEF CallShape
<1>5. TxnShape(d)'
  BY <1>1, <1>2, <1>3 DEF TxnShape
<1>6. ASSUME t.open PROVE SnapshotTrue(d)'
  <2>1. k.op \in {"release", "hold"}
    BY <1>1, <1>6 DEF TxnShape, CallShape, Inside
  <2>2. On(d) \in Matches /\ Carrier(d) = CarrierOf[TripOf[On(d)]]
    BY <1>1, <2>1, Parties DEF Inv, Carrier
  <2>3. payouts[On(d)] \in Nat
    BY <2>2 DEF Inv, TypeOK
  <2> QED
    BY <1>1, <1>2, <1>3, <1>6, <2>2, <2>3 DEF SnapshotTrue
<1> QED
  BY <1>2, <1>4, <1>5, <1>6 DEF SnapshotTrue

\* The same for every call but one.
LEMMA OthersKeep ==
  ASSUME Inv, NEW c \in Calls, NEW us \in SUBSET Users,
         \A d \in Calls \ {c} : /\ calls'[d] = calls[d]
                                /\ txn'[d] = Outdated(txn[d], us)
                                /\ us \intersect txn[d].writes = {},
         \A u \in Users \ us : held'[u] = held[u] /\ balance'[u] = balance[u],
         \A m \in Matches : \/ payouts'[m] = payouts[m]
                            \/ payouts'[m] > 0 /\ CarrierOf[TripOf[m]] \in us,
         (CallShape(calls[c]) /\ TxnShape(c) /\ SnapshotTrue(c))'
  PROVE  Transactions'
<1>1. ASSUME NEW d \in Calls \ {c}
      PROVE  (CallShape(calls[d]) /\ TxnShape(d) /\ SnapshotTrue(d))'
  BY <1>1, Keep
<1> QED
  BY <1>1 DEF Transactions

LEMMA UntouchedOutdated ==
  ASSUME TypeOK, NEW d \in Calls
  PROVE  Outdated(txn[d], {}) = txn[d]
BY DEF TypeOK, Txn, Outdated

\* A step outside any transaction, which may write the users in us.
LEMMA HandlerStep ==
  ASSUME Inv, NEW c \in Calls, NEW us \in SUBSET Users, NEW k \in Call,
         CallShape(k), calls[c].at \notin Inside, k.at \notin Inside,
         calls' = [calls EXCEPT ![c] = k],
         txn' = Outdate(txn, us),
         \A u \in us : ~ Locked(u),
         \A u \in Users \ us : held'[u] = held[u] /\ balance'[u] = balance[u],
         payouts' = payouts
  PROVE  Transactions' /\ WritesApart' /\ PaidOnce' /\ calls' \in [Calls -> Call]
                       /\ txn' \in [Calls -> Txn]
<1>1. \A d \in Calls : txn'[d] = Outdated(txn[d], us) /\ txn[d] \in Txn
  BY OutdateType DEF Inv, TypeOK
<1>2. \A d \in Calls : us \intersect txn[d].writes = {}
  BY DEF Locked
<1>3. calls' \in [Calls -> Call] /\ calls'[c] = k
  BY DEF Inv, TypeOK
<1>4. ~ txn[c].open /\ TxnShape(c)
  BY DEF Inv, Transactions, TxnShape
<1>5. txn'[c] = txn[c]
  <2>1. txn'[c] = [txn[c] EXCEPT !.stale = txn[c].stale] /\ txn[c] \in Txn
    BY <1>1, <1>4 DEF Outdated
  <2> QED
    BY <2>1 DEF Txn
<1>6. TxnShape(c)'
  <2>1. ~ txn[c].open /\ txn[c].writes = {} /\ txn[c].stale = {} /\ ~ txn[c].released
    BY <1>4 DEF TxnShape
  <2> QED
    BY <1>3, <1>5, <2>1 DEF TxnShape, Inside
<1>7. SnapshotTrue(c)'
  BY <1>4, <1>5 DEF SnapshotTrue
<1>8. Transactions'
  <2>1. (CallShape(calls[c]) /\ TxnShape(c) /\ SnapshotTrue(c))'
    BY <1>3, <1>6, <1>7
  <2>2. \A d \in Calls \ {c} : calls'[d] = calls[d]
    BY DEF Inv, TypeOK
  <2> QED
    BY <1>1, <1>2, <2>1, <2>2, OthersKeep
<1>9. WritesApart'
  <2>1. \A d \in Calls : txn'[d].writes = txn[d].writes
    BY <1>1 DEF Outdated, Txn
  <2> QED
    BY <2>1 DEF Inv, WritesApart
<1>10. PaidOnce'
  BY DEF Inv, PaidOnce
<1>11. txn' \in [Calls -> Txn]
  BY OutdateType DEF Inv
<1> QED
  BY <1>3, <1>8, <1>9, <1>10, <1>11

\* A step that writes no user.
LEMMA DocumentStep ==
  ASSUME Inv, NEW c \in Calls, NEW k \in Call,
         CallShape(k), calls[c].at \notin Inside, k.at \notin Inside,
         calls' = [calls EXCEPT ![c] = k],
         UNCHANGED <<txn, wallets, payouts>>
  PROVE  Transactions' /\ WritesApart' /\ PaidOnce' /\ calls' \in [Calls -> Call]
                       /\ txn' \in [Calls -> Txn]
<1>1. Outdate(txn, {}) = txn
  BY UntouchedOutdated, OutdateType DEF Inv, TypeOK
<1>2. \A u \in Users : held'[u] = held[u] /\ balance'[u] = balance[u]
  BY DEF wallets
<1> DEFINE us == {}
<1>3. us \in SUBSET Users /\ (\A u \in us : ~ Locked(u)) /\ txn' = Outdate(txn, us)
  BY <1>1
<1>4. \A u \in Users \ us : held'[u] = held[u] /\ balance'[u] = balance[u]
  BY <1>2
<1> HIDE DEF us
<1> QED
  BY <1>3, <1>4, HandlerStep

\* A step that leaves calls, transactions, wallets and payouts alone.
LEMMA ElsewhereStep ==
  ASSUME Inv, UNCHANGED <<calls, txn, wallets, payouts>>
  PROVE  Transactions' /\ WritesApart' /\ PaidOnce'
<1>1. WritesApart' /\ PaidOnce'
  BY DEF Inv, WritesApart, PaidOnce
<1>2. ASSUME NEW c \in Calls
      PROVE  (CallShape(calls[c]) /\ TxnShape(c) /\ SnapshotTrue(c))'
  <2>1. txn'[c] = Outdated(txn[c], {})
    BY UntouchedOutdated DEF Inv
  <2>2. \A u \in Users \ {} : held'[u] = held[u] /\ balance'[u] = balance[u]
    BY DEF wallets
  <2>3. calls'[c] = calls[c] /\ payouts' = payouts /\ {} \intersect txn[c].writes = {}
    OBVIOUS
  <2> DEFINE us == {}
  <2>4. us \in SUBSET Users /\ txn'[c] = Outdated(txn[c], us) /\ us \intersect txn[c].writes = {}
        /\ \A u \in Users \ us : held'[u] = held[u] /\ balance'[u] = balance[u]
    BY <2>1, <2>2
  <2> HIDE DEF us
  <2> QED
    BY <2>3, <2>4, Keep
<1> QED
  BY <1>1, <1>2 DEF Transactions

-----------------------------------------------------------------------------
(* The steps outside transactions *)

\* The steps that no call takes.
LEMMA NoCallInv ==
  ASSUME Inv,
         \/ \E m \in Matches : Confirm(m) \/ Pay(m) \/ Dispute(m)
         \/ \E j \in Jobs : Deliver(j) \/ Stall(j)
  PROVE  Inv'
<1>1. TypeOK'
  BY MatchOfType DEF Inv, TypeOK, Confirm, Pay, Dispute, Deliver, Stall, wallets, rows, matchDocs,
     tripDocs, documents, queue, PaymentStatuses, Phases, JobStates
<1>2. UNCHANGED <<calls, txn, wallets, payouts>>
  BY DEF Confirm, Pay, Dispute, Deliver, Stall, rows
<1>3. Transactions' /\ WritesApart' /\ PaidOnce'
  BY <1>2, ElsewhereStep
<1> QED
  BY <1>1, <1>3 DEF Inv

\* A call begins.
LEMMA StartInv ==
  ASSUME Inv, NEW c \in Calls,
         \/ \E j \in Jobs : TakeJob(c, j)
         \/ Open(c)
  PROVE  Inv'
<1> DEFINE Began(k) == /\ k \in Call /\ CallShape(k) /\ k.at \notin Inside
                       /\ calls' = [calls EXCEPT ![c] = k]
<1>1. calls[c] = Idle
  BY DEF TakeJob, Open, StartHold, StartRefund, StartDeposit, StartCancelTrip, StartDeactivate,
     Start
<1>2. Idle.at \notin Inside /\ Idle \in Call /\ CallShape(Idle)
  BY Constructors DEF Idle, Inside, Inv
<1>3. UNCHANGED <<txn, wallets, rows, documents, crashes>>
  BY DEF TakeJob, Open, StartHold, StartRefund, StartDeposit, StartCancelTrip, StartDeactivate
<1>4. ASSUME NEW o \in CallOps, NEW x \in Jobs \union Matches \union Trips \union Users,
             NEW s \in {"begin", "complete", "credit", "save"}, NEW b \in BOOLEAN,
             Start(c, o, x, s, b),
             o = "release" => x \in Jobs,
             o \in {"hold", "refund"} => x \in Matches,
             o \in {"deposit", "cancelTrip"} => x \in Trips,
             o = "deactivate" => x \in Users,
             s = "begin" => o \in {"release", "hold"}
      PROVE  \E k \in Call : Began(k)
  <2> DEFINE k == [op |-> o, on |-> x, at |-> s, attempt |-> 1, seen |-> b]
  <2>1. k \in Call
    BY BoundsType DEF Call, Steps
  <2>2. CallShape(k) /\ k.at \notin Inside
    BY <1>4 DEF CallShape, Inside
  <2>3. calls' = [calls EXCEPT ![c] = k]
    BY <1>4 DEF Start
  <2> QED
    BY <2>1, <2>2, <2>3
<1>5. (\E k \in Call : Began(k)) \/ UNCHANGED calls
  <2>1. CASE \E j \in Jobs : TakeJob(c, j)
    BY <1>4, <2>1 DEF TakeJob, CallOps
  <2>2. CASE \E m \in Matches : StartHold(c, m) \/ StartRefund(c, m)
    BY <1>4, <2>2 DEF StartHold, StartRefund, CallOps
  <2>3. CASE \E t \in Trips : StartDeposit(c, t) \/ StartCancelTrip(c, t)
    <3>1. PICK t \in Trips : StartDeposit(c, t) \/ StartCancelTrip(c, t)
      BY <2>3
    <3>2. CASE StartDeposit(c, t)
      BY <1>4, <3>2 DEF StartDeposit, CallOps
    <3>3. CASE StartCancelTrip(c, t)
      <4>1. (t \in depositPaid) \in BOOLEAN
        OBVIOUS
      <4> QED
        BY <1>4, <3>3, <4>1 DEF StartCancelTrip, CallOps
    <3> QED
      BY <3>1, <3>2, <3>3
  <2>4. CASE \E u \in Users : StartDeactivate(c, u)
    BY <1>4, <2>4 DEF StartDeactivate, CallOps
  <2> QED
    BY <2>1, <2>2, <2>3, <2>4 DEF Open
<1>6. Transactions' /\ WritesApart' /\ PaidOnce' /\ calls' \in [Calls -> Call]
  <2>1. CASE \E k \in Call : Began(k)
    BY <1>1, <1>2, <1>3, <2>1, DocumentStep DEF rows
  <2>2. CASE UNCHANGED calls
    BY <1>3, <2>2, ElsewhereStep DEF Inv, TypeOK, rows
  <2> QED
    BY <1>5, <2>1, <2>2
<1>7. job' \in [Jobs -> JobStates] /\ lease' \in [Jobs -> Calls \union {None, Crashed}]
      /\ stalled' = stalled
  BY DEF TakeJob, Open, StartHold, StartRefund, StartDeposit, StartCancelTrip,
     StartDeactivate, Inv, TypeOK, queue, JobStates
<1>8. TypeOK'
  BY <1>3, <1>6, <1>7 DEF Inv, TypeOK, wallets, rows, documents, matchDocs, tripDocs
<1> QED
  BY <1>6, <1>8 DEF Inv

\* A handler goes on to step s, or returns.
LEMMA Moves ==
  ASSUME Inv, NEW c \in Calls, NEW s \in {"credit", "save"},
         calls[c].at \in {"complete", "credit", "save"},
         Goto(c, s) \/ Return(c)
  PROVE  \E k \in Call : /\ CallShape(k) /\ k.at \notin Inside
                         /\ calls' = [calls EXCEPT ![c] = k]
<1>1. calls[c] \in Call /\ CallShape(calls[c])
  BY DEF Inv, TypeOK, Transactions
<1>2. CASE Return(c)
  BY <1>2, Constructors DEF Inv, Return, Idle, Inside
<1>3. CASE Goto(c, s)
  <2> DEFINE k == [calls[c] EXCEPT !.at = s]
  <2>1. k \in Call /\ k.at \notin Inside
    BY <1>1 DEF Call, Steps, Inside
  <2>2. CallShape(k)
    BY <1>1 DEF CallShape, Call
  <2>3. calls' = [calls EXCEPT ![c] = k]
    BY <1>3 DEF Goto
  <2> QED
    BY <2>1, <2>2, <2>3
<1> QED
  BY <1>2, <1>3

\* What a handler's write of a user does to it.
LEMMA AdjustType ==
  ASSUME TypeOK, NEW u \in Users, NEW h \in Int, NEW b \in Int, Adjust(u, h, b)
  PROVE  /\ held' \in [Users -> Int] /\ balance' \in [Users -> Int]
         /\ \A v \in Users \ {u} : held'[v] = held[v] /\ balance'[v] = balance[v]
BY DEF Adjust, TypeOK

LEMMA HandlerInv ==
  ASSUME Inv, NEW c \in Calls,
         \/ CompleteDeposit(c) \/ CreditDeposit(c) \/ SaveDeposit(c)
         \/ SaveCancelTrip(c) \/ ReturnDeposit(c) \/ ReturnCharge(c) \/ SaveRefund(c)
         \/ Deactivate(c)
  PROVE  Inv'
<1> DEFINE Kept == Transactions' /\ WritesApart' /\ PaidOnce' /\ calls' \in [Calls -> Call]
                     /\ txn' \in [Calls -> Txn]
           x == calls[c].on
<1>1. calls[c].at \in {"complete", "credit", "save"} /\ calls[c].at \notin Inside
  BY DEF CompleteDeposit, CreditDeposit, SaveDeposit, SaveCancelTrip, ReturnDeposit,
     ReturnCharge, SaveRefund, Deactivate, At, Inside
<1>2. CallShape(calls[c])
  BY DEF Inv, Transactions
<1>3. PICK k \in Call : /\ CallShape(k) /\ k.at \notin Inside
                        /\ calls' = [calls EXCEPT ![c] = k]
  BY <1>1, Moves DEF CompleteDeposit, CreditDeposit, SaveDeposit, SaveCancelTrip,
     ReturnDeposit, ReturnCharge, SaveRefund, Deactivate
<1>4. ASSUME UNCHANGED <<txn, wallets, payouts>> PROVE Kept
  BY <1>1, <1>3, <1>4, DocumentStep
<1>5. ASSUME NEW u \in Users, Write(u), payouts' = payouts,
             \A v \in Users \ {u} : held'[v] = held[v] /\ balance'[v] = balance[v]
      PROVE  Kept
  <2> DEFINE us == {u}
  <2>1. us \in SUBSET Users /\ txn' = Outdate(txn, us) /\ \A v \in us : ~ Locked(v)
    BY <1>5 DEF Write
  <2>2. \A v \in Users \ us : held'[v] = held[v] /\ balance'[v] = balance[v]
    BY <1>5
  <2> HIDE DEF us
  <2> QED
    BY <1>1, <1>3, <1>5, <2>1, <2>2, HandlerStep
<1>6. CASE CompleteDeposit(c) \/ SaveDeposit(c) \/ SaveCancelTrip(c) \/ SaveRefund(c)
  <2>1. Kept
    BY <1>4, <1>6 DEF CompleteDeposit, SaveDeposit, SaveCancelTrip, SaveRefund, rows
  <2>2. x \in Trips \union Matches
    BY <1>2, <1>6 DEF CompleteDeposit, SaveDeposit, SaveCancelTrip, SaveRefund, At, CallShape
  <2>3. TypeOK'
    <3>1. UNCHANGED <<wallets, rows, inactive, queue, crashes>>
      BY <1>6 DEF CompleteDeposit, SaveDeposit, SaveCancelTrip, SaveRefund, tripDocs, matchDocs
    <3>2. depositTaken' \subseteq Trips /\ depositPaid' \subseteq Trips
          /\ cancelled' \subseteq Matches \union Trips
      BY <1>2, <1>6, <2>2 DEF CompleteDeposit, SaveDeposit, SaveCancelTrip, SaveRefund, tripDocs,
         matchDocs, At, CallShape, Inv, TypeOK
    <3>3. paymentStatus' \in [Matches -> PaymentStatuses] /\ phase' \in [Matches -> Phases]
      BY <1>6 DEF CompleteDeposit, SaveDeposit, SaveCancelTrip, SaveRefund, matchDocs,
         Inv, TypeOK, PaymentStatuses, Phases
    <3> QED
      BY <2>1, <3>1, <3>2, <3>3 DEF Inv, TypeOK, wallets, rows, queue
  <2> QED
    BY <2>1, <2>3 DEF Inv
<1>7. CASE CreditDeposit(c) \/ ReturnDeposit(c) \/ ReturnCharge(c)
  <2>1. PICK u \in Users, h \in Int, b \in Int : Adjust(u, h, b)
    <3>1. Deposit \in Int /\ Charge \in Int /\ -Deposit \in Int /\ -Charge \in Int
      BY AmountsType
    <3>2. CASE CreditDeposit(c) \/ ReturnDeposit(c)
      BY <1>2, <3>1, <3>2, PartiesType DEF CreditDeposit, ReturnDeposit, At, CallShape
    <3>3. CASE ReturnCharge(c)
      BY <1>2, <3>1, <3>3, Parties DEF ReturnCharge, At, Inv
    <3> QED
      BY <1>7, <3>2, <3>3
  <2>2. /\ held' \in [Users -> Int] /\ balance' \in [Users -> Int]
        /\ \A v \in Users \ {u} : held'[v] = held[v] /\ balance'[v] = balance[v]
    BY <2>1, AdjustType DEF Inv
  <2>3. UNCHANGED <<rows, documents, queue, crashes>>
    BY <1>7 DEF CreditDeposit, ReturnDeposit, ReturnCharge
  <2>4. Kept
    BY <1>5, <2>1, <2>2, <2>3 DEF Adjust, rows
  <2>5. TypeOK'
    BY <2>2, <2>3, <2>4 DEF Inv, TypeOK, rows, documents, matchDocs, tripDocs, queue
  <2> QED
    BY <2>4, <2>5 DEF Inv
<1>8. CASE Deactivate(c)
  <2>1. x \in Users
    BY <1>2, <1>8 DEF Deactivate, At, CallShape
  <2>2. Kept
    BY <1>5, <1>8, <2>1 DEF Deactivate, rows, wallets
  <2>3. TypeOK'
    BY <1>8, <2>1, <2>2 DEF Deactivate, Inv, TypeOK, rows, wallets, matchDocs, tripDocs, queue
  <2> QED
    BY <2>2, <2>3 DEF Inv
<1> QED
  BY <1>6, <1>7, <1>8

-----------------------------------------------------------------------------
(* The steps inside a transaction *)

\* A step of one transaction that nobody else sees.
LEMMA OwnStep ==
  ASSUME Inv, NEW c \in Calls, NEW k \in Call, NEW t \in Txn,
         calls' = [calls EXCEPT ![c] = k], CallShape(k),
         txn' = [txn EXCEPT ![c] = t],
         UNCHANGED <<wallets, payouts>>,
         (TxnShape(c) /\ SnapshotTrue(c))',
         \A d \in Calls \ {c} : t.writes \intersect txn[d].writes = {}
  PROVE  Transactions' /\ WritesApart' /\ PaidOnce' /\ calls' \in [Calls -> Call]
                       /\ txn' \in [Calls -> Txn]
<1>1. calls' \in [Calls -> Call] /\ txn' \in [Calls -> Txn] /\ calls'[c] = k /\ txn'[c] = t
  BY DEF Inv, TypeOK
<1>2. \A d \in Calls \ {c} : calls'[d] = calls[d] /\ txn'[d] = txn[d]
  BY DEF Inv, TypeOK
<1> DEFINE us == {}
<1>3. /\ us \in SUBSET Users
      /\ \A d \in Calls \ {c} : /\ calls'[d] = calls[d]
                                /\ txn'[d] = Outdated(txn[d], us)
                                /\ us \intersect txn[d].writes = {}
      /\ \A u \in Users \ us : held'[u] = held[u] /\ balance'[u] = balance[u]
  BY <1>2, UntouchedOutdated DEF Inv, wallets
<1>4. (CallShape(calls[c]) /\ TxnShape(c) /\ SnapshotTrue(c))'
  BY <1>1
<1> HIDE DEF us
<1>5. Transactions'
  BY <1>3, <1>4, OthersKeep
<1>6. WritesApart'
  BY <1>1, <1>2 DEF Inv, WritesApart
<1>7. PaidOnce'
  BY DEF Inv, PaidOnce
<1> QED
  BY <1>1, <1>5, <1>6, <1>7

\* The variables a transaction leaves to others.
LEMMA ElsewhereType ==
  ASSUME TypeOK, UNCHANGED documents,
         job' \in [Jobs -> JobStates], lease' \in [Jobs -> Calls \union {None, Crashed}],
         stalled' = stalled, crashes' \in Nat,
         held' \in [Users -> Int], balance' \in [Users -> Int],
         holds' \in [Matches -> Nat], payouts' \in [Matches -> Nat],
         calls' \in [Calls -> Call], txn' \in [Calls -> Txn]
  PROVE  TypeOK'
BY DEF TypeOK, documents, matchDocs, tripDocs

LEMMA BeginInv ==
  ASSUME Inv, NEW c \in Calls, Begin(c)
  PROVE  Inv'
<1> DEFINE rel == calls[c].op = "release" /\ payouts[On(c)] > 0
           t == Snapshot(rel)
           s == CASE calls[c].op = "hold" -> "sender"
                  [] rel                  -> "commit"
                  [] OTHER                -> "carrier"
           k == [calls[c] EXCEPT !.at = s]
<1>1. calls' = [calls EXCEPT ![c] = k] /\ txn' = [txn EXCEPT ![c] = t]
      /\ calls[c].at = "begin"
  BY DEF Begin, Goto
<1>2. calls[c] \in Call /\ CallShape(calls[c]) /\ calls[c].op \in {"release", "hold"}
  BY <1>1 DEF Inv, TypeOK, Transactions, CallShape
<1>3. s \in {"sender", "commit", "carrier"} /\ (s = "carrier" => calls[c].op = "release")
      /\ (s = "commit" => rel) /\ (s = "sender" => calls[c].op = "hold" /\ ~ rel)
      /\ (s = "carrier" => ~ rel)
  BY <1>2
<1> HIDE DEF s
<1>4. k \in Call /\ k.at = s /\ k.op = calls[c].op /\ k.on = calls[c].on
  BY <1>2, <1>3 DEF Call, Steps
<1>5. CallShape(k)
  BY <1>2, <1>3, <1>4 DEF CallShape
<1>6. t \in Txn /\ t.open /\ t.writes = {} /\ t.stale = {} /\ t.held = held
      /\ t.balance = balance /\ (t.released <=> rel)
  BY Constructors DEF Inv, Snapshot
<1>7. calls'[c] = k /\ txn'[c] = t /\ On(c)' = On(c)
  BY <1>1, <1>4 DEF Inv, TypeOK, On
<1> HIDE DEF t, k
<1>8. TxnShape(c)'
  BY <1>3, <1>4, <1>6, <1>7 DEF TxnShape, Inside
<1>9. SnapshotTrue(c)'
  <2>1. held' = held /\ balance' = balance /\ payouts' = payouts
    BY DEF Begin, wallets, rows
  <2> QED
    BY <1>4, <1>6, <1>7, <2>1 DEF SnapshotTrue
<1>10. Transactions' /\ WritesApart' /\ PaidOnce' /\ calls' \in [Calls -> Call]
       /\ txn' \in [Calls -> Txn]
  BY <1>1, <1>4, <1>5, <1>6, <1>8, <1>9, OwnStep DEF Begin, rows
<1>11. TypeOK'
  BY <1>10, ElsewhereType DEF Inv, TypeOK, Begin, wallets, rows, queue
<1> QED
  BY <1>10, <1>11 DEF Inv

\* One more wallet written.
LEMMA WriteType ==
  ASSUME Inv, NEW c \in Calls, NEW u \in Users, ~ Conflict(c, u)
  PROVE  LET t == [txn[c] EXCEPT !.writes = @ \union {u}] IN
         /\ t \in Txn
         /\ t.open = txn[c].open /\ t.held = txn[c].held /\ t.balance = txn[c].balance
         /\ t.released = txn[c].released /\ t.stale = txn[c].stale
         /\ t.writes = txn[c].writes \union {u}
         /\ u \notin txn[c].stale
         /\ \A d \in Calls \ {c} : t.writes \intersect txn[d].writes = {}
<1>1. txn[c] \in Txn
  BY DEF Inv, TypeOK
<1>2. \A d \in Calls \ {c} : txn[c].writes \intersect txn[d].writes = {} /\ u \notin txn[d].writes
  BY DEF Inv, WritesApart, Conflict
<1> QED
  BY <1>1, <1>2 DEF Txn, Conflict

LEMMA SaveInv ==
  ASSUME Inv, NEW c \in Calls, SaveCarrier(c) \/ SaveSender(c)
  PROVE  Inv'
<1> DEFINE s == IF calls[c].at = "carrier" THEN "sender" ELSE "commit"
           k == [calls[c] EXCEPT !.at = s]
<1>1. calls' = [calls EXCEPT ![c] = k] /\ calls[c].at \in {"carrier", "sender"}
  BY DEF SaveCarrier, SaveSender, Goto
<1>2. calls[c] \in Call /\ CallShape(calls[c]) /\ calls[c].op \in {"release", "hold"}
      /\ TxnShape(c) /\ SnapshotTrue(c) /\ txn[c] \in Txn /\ txn[c].open
  BY <1>1 DEF Inv, TypeOK, Transactions, CallShape, TxnShape, Inside
<1>3. k \in Call /\ k.at = s /\ k.op = calls[c].op /\ k.on = calls[c].on
  BY <1>2 DEF Call, Steps
<1>4. CallShape(k)
  BY <1>2, <1>3 DEF CallShape
<1>5. Carrier(c) \in Users /\ Sender(c) \in Users /\ Carrier(c) # Sender(c)
  BY <1>2, Parties DEF Inv
<1>6. ASSUME NEW t \in Txn,
             txn' = [txn EXCEPT ![c] = t],
             t.open = txn[c].open /\ t.held = txn[c].held /\ t.balance = txn[c].balance,
             t.released = txn[c].released /\ t.stale = txn[c].stale,
             \A d \in Calls \ {c} : t.writes \intersect txn[d].writes = {},
             \/ /\ calls[c].at = "carrier"
                /\ t.writes = txn[c].writes \union {Carrier(c)} /\ Carrier(c) \notin t.stale
             \/ /\ calls[c].at = "sender"
                /\ t.writes = txn[c].writes \union {Sender(c)} /\ Sender(c) \notin t.stale
             \/ /\ calls[c].at = "sender" /\ SenderHeld(c) = txn[c].held[Sender(c)]
                /\ t.writes = txn[c].writes
      PROVE  Inv'
  <2> calls'[c] = k /\ txn'[c] = t
    BY <1>1, <1>6 DEF Inv, TypeOK
  <2> HIDE DEF k
  <2>1. On(c)' = On(c) /\ Carrier(c)' = Carrier(c) /\ Sender(c)' = Sender(c)
        /\ SenderHeld(c)' = SenderHeld(c)
    BY <1>3, <1>6 DEF On, Carrier, Sender, SenderHeld
  <2>2. calls[c].op = "hold" => SenderHeld(c) # txn[c].held[Sender(c)]
    BY <1>2, <1>5, AmountsType DEF SenderHeld, Txn
  <2>3. TxnShape(c)'
    <3>1. CASE calls[c].at = "carrier"
      <4>1. k.at = "sender" /\ k.op = "release" /\ ~ t.released
            /\ t.writes = {Carrier(c)} /\ t.writes \intersect t.stale = {} /\ t.open
        BY <1>2, <1>3, <1>6, <3>1 DEF TxnShape, CallShape
      <4> QED
        BY <2>1, <4>1 DEF TxnShape, Inside
    <3>2. CASE calls[c].at = "sender"
      <4>1. k.at = "commit" /\ ~ t.released /\ t.open /\ t.writes \intersect t.stale = {}
        BY <1>2, <1>3, <1>6, <3>2 DEF TxnShape
      <4>2. CASE k.op = "hold"
        <5>1. t.writes = {Sender(c)}
          BY <1>2, <1>3, <1>6, <2>2, <3>2, <4>2 DEF TxnShape
        <5> QED
          BY <2>1, <4>1, <4>2, <5>1 DEF TxnShape, Inside
      <4>3. CASE k.op = "release"
        <5>1. \/ t.writes = {Carrier(c), Sender(c)}
              \/ t.writes = {Carrier(c)} /\ SenderHeld(c) = t.held[Sender(c)]
          BY <1>2, <1>3, <1>6, <3>2, <4>3 DEF TxnShape
        <5> QED
          BY <2>1, <4>1, <4>3, <5>1 DEF TxnShape, Inside
      <4> QED
        BY <1>2, <1>3, <4>2, <4>3
    <3> QED
      BY <1>1, <3>1, <3>2
  <2>4. SnapshotTrue(c)'
    <3>1. held' = held /\ balance' = balance /\ payouts' = payouts
      BY DEF SaveCarrier, SaveSender, wallets, rows
    <3> QED
      BY <1>2, <1>3, <1>6, <2>1, <3>1 DEF SnapshotTrue
  <2>5. Transactions' /\ WritesApart' /\ PaidOnce' /\ calls' \in [Calls -> Call]
        /\ txn' \in [Calls -> Txn]
    BY <1>1, <1>3, <1>4, <1>6, <2>3, <2>4, OwnStep DEF SaveCarrier, SaveSender, rows
  <2>6. TypeOK'
    BY <2>5, ElsewhereType DEF Inv, TypeOK, SaveCarrier, SaveSender, wallets, rows, queue
  <2> QED
    BY <2>5, <2>6 DEF Inv
<1>7. CASE SaveCarrier(c)
  <2> DEFINE t == [txn[c] EXCEPT !.writes = @ \union {Carrier(c)}]
  <2>1. calls[c].at = "carrier" /\ ~ Conflict(c, Carrier(c)) /\ txn' = [txn EXCEPT ![c] = t]
    BY <1>7 DEF SaveCarrier, TxnWrite
  <2> QED
    BY <1>5, <1>6, <2>1, WriteType
<1>8. CASE SaveSender(c)
  <2>1. CASE SenderHeld(c) = txn[c].held[Sender(c)]
    <3>1. txn' = [txn EXCEPT ![c] = txn[c]] /\ calls[c].at = "sender"
      BY <1>8, <2>1 DEF SaveSender, Inv, TypeOK
    <3>2. \A d \in Calls \ {c} : txn[c].writes \intersect txn[d].writes = {}
      BY DEF Inv, WritesApart
    <3> QED
      BY <1>2, <1>6, <2>1, <3>1, <3>2
  <2>2. CASE SenderHeld(c) # txn[c].held[Sender(c)]
    <3> DEFINE t == [txn[c] EXCEPT !.writes = @ \union {Sender(c)}]
    <3>1. calls[c].at = "sender" /\ ~ Conflict(c, Sender(c)) /\ txn' = [txn EXCEPT ![c] = t]
      BY <1>8, <2>2 DEF SaveSender, TxnWrite
    <3> QED
      BY <1>5, <1>6, <3>1, WriteType
  <2> QED
    BY <2>1, <2>2
<1> QED
  BY <1>7, <1>8

\* A transaction that failed is begun again or given up.
LEMMA RetryMoves ==
  ASSUME Inv, NEW c \in Calls, Running(c),
         \/ Retry(c) \/ Throw(c)
         \/ Return(c) /\ Settled(c, "completed") /\ UNCHANGED stalled
  PROVE  /\ \E k \in Call : /\ CallShape(k) /\ k.at \notin Inside
                            /\ calls' = [calls EXCEPT ![c] = k]
         /\ job' \in [Jobs -> JobStates] /\ lease' \in [Jobs -> Calls \union {None, Crashed}]
         /\ stalled' = stalled
<1>1. calls[c] \in Call /\ CallShape(calls[c]) /\ calls[c].op \in {"release", "hold"}
  BY DEF Inv, TypeOK, Transactions, CallShape, Running
<1>2. CASE Return(c) /\ UNCHANGED stalled /\ \E s \in {"completed", "failed"} : Settled(c, s)
  <2>1. CallShape(Idle) /\ Idle \in Call /\ Idle.at \notin Inside
    BY Constructors DEF Inv, Idle, Inside
  <2>2. job' \in [Jobs -> JobStates] /\ lease' \in [Jobs -> Calls \union {None, Crashed}]
    BY <1>2 DEF Settled, Inv, TypeOK, JobStates
  <2> QED
    BY <1>2, <2>1, <2>2 DEF Return
<1>3. CASE calls[c].attempt < MaxAttempts /\ Retry(c)
  <2> DEFINE k == [calls[c] EXCEPT !.at = "begin", !.attempt = @ + 1]
  <2>1. calls' = [calls EXCEPT ![c] = k] /\ UNCHANGED queue
    BY <1>3 DEF Retry
  <2>2. calls[c].attempt + 1 \in 1..MaxAttempts
    BY <1>1, <1>3, BoundsType DEF Call
  <2>3. k \in Call /\ k.at \notin Inside
    BY <1>1, <2>2 DEF Call, Steps, Inside
  <2>4. CallShape(k)
    BY <1>1 DEF CallShape, Call
  <2> QED
    BY <2>1, <2>3, <2>4 DEF queue, Inv, TypeOK
<1> QED
  BY <1>2, <1>3 DEF Retry, Throw

LEMMA NoTxnStep ==
  ASSUME Inv, NEW c \in Calls, NEW k \in Call, CallShape(k), k.at \notin Inside,
         calls' = [calls EXCEPT ![c] = k],
         txn' = [txn EXCEPT ![c] = NoTxn],
         UNCHANGED <<wallets, payouts>>
  PROVE  Transactions' /\ WritesApart' /\ PaidOnce' /\ calls' \in [Calls -> Call]
                       /\ txn' \in [Calls -> Txn]
<1>1. calls'[c] = k /\ txn'[c] = NoTxn /\ NoTxn \in Txn
  BY Constructors DEF Inv, TypeOK
<1>2. ~ NoTxn.open /\ NoTxn.writes = {} /\ NoTxn.stale = {} /\ ~ NoTxn.released
  BY DEF NoTxn
<1>3. TxnShape(c)'
  BY <1>1, <1>2 DEF TxnShape, Inside
<1>4. SnapshotTrue(c)'
  BY <1>1, <1>2 DEF SnapshotTrue
<1> QED
  BY <1>1, <1>2, <1>3, <1>4, OwnStep

LEMMA AbortInv ==
  ASSUME Inv, NEW c \in Calls,
         AbortOnConflict(c) \/ AbortTransient(c) \/ AbortForGood(c) \/ Expire(c)
  PROVE  Inv'
<1>1. txn' = [txn EXCEPT ![c] = NoTxn] /\ UNCHANGED <<wallets, rows, documents, crashes>>
  BY DEF AbortOnConflict, AbortTransient, AbortForGood, Expire, Abort
<1>2. /\ \E k \in Call : /\ CallShape(k) /\ k.at \notin Inside
                         /\ calls' = [calls EXCEPT ![c] = k]
      /\ job' \in [Jobs -> JobStates] /\ lease' \in [Jobs -> Calls \union {None, Crashed}]
      /\ stalled' = stalled
  <2>1. CASE AbortOnConflict(c) \/ AbortTransient(c) \/ AbortForGood(c)
    BY <2>1, RetryMoves DEF AbortOnConflict, AbortTransient, AbortForGood, Running
  <2>2. CASE Expire(c)
    <3>1. CallShape(Idle) /\ Idle \in Call /\ Idle.at \notin Inside
      BY Constructors DEF Inv, Idle, Inside
    <3> QED
      BY <2>2, <3>1 DEF Expire, Return, queue, Inv, TypeOK
  <2> QED
    BY <2>1, <2>2
<1>3. Transactions' /\ WritesApart' /\ PaidOnce' /\ calls' \in [Calls -> Call]
      /\ txn' \in [Calls -> Txn]
  BY <1>1, <1>2, NoTxnStep DEF rows
<1>4. TypeOK'
  BY <1>1, <1>2, <1>3, ElsewhereType DEF Inv, TypeOK, wallets, rows
<1> QED
  BY <1>3, <1>4 DEF Inv

LEMMA CrashInv ==
  ASSUME Inv, NEW c \in Calls, Crash(c)
  PROVE  Inv'
<1>1. UNCHANGED <<wallets, rows, documents, job, stalled, txn>> /\ crashes' \in Nat
      /\ lease' \in [Jobs -> Calls \union {None, Crashed}]
  BY DEF Crash, Inv, TypeOK
<1>2. calls[c] \in Call /\ CallShape(calls[c]) /\ TxnShape(c) /\ SnapshotTrue(c) /\ txn[c] \in Txn
  BY DEF Inv, TypeOK, Transactions
<1>3. Transactions' /\ WritesApart' /\ PaidOnce' /\ calls' \in [Calls -> Call]
      /\ txn' \in [Calls -> Txn]
  <2>1. CASE txn[c].open
    <3> DEFINE k == [calls[c] EXCEPT !.at = "orphan"]
    <3>1. calls' = [calls EXCEPT ![c] = k]
      BY <2>1 DEF Crash, Goto
    <3>2. k \in Call /\ k.at = "orphan" /\ k.op = calls[c].op /\ k.on = calls[c].on
      BY <1>2 DEF Call, Steps
    <3>3. calls[c].op \in {"release", "hold"}
      BY <1>2, <2>1 DEF TxnShape, CallShape, Inside
    <3>4. CallShape(k)
      BY <1>2, <3>2, <3>3 DEF CallShape
    <3>5. txn' = [txn EXCEPT ![c] = txn[c]]
      BY <1>1 DEF Inv, TypeOK
    <3> calls'[c] = k
      BY <3>1 DEF Inv, TypeOK
    <3> HIDE DEF k
    <3>6. TxnShape(c)'
      BY <1>1, <1>2, <2>1, <3>2 DEF TxnShape, Inside
    <3>7. SnapshotTrue(c)'
      <4>1. On(c)' = On(c) /\ Carrier(c)' = Carrier(c)
        BY <3>2 DEF On, Carrier
      <4> QED
        BY <1>1, <1>2, <3>2, <4>1 DEF SnapshotTrue, wallets, rows
    <3>8. \A d \in Calls \ {c} : txn[c].writes \intersect txn[d].writes = {}
      BY DEF Inv, WritesApart
    <3> QED
      BY <1>1, <1>2, <3>1, <3>2, <3>4, <3>5, <3>6, <3>7, <3>8, OwnStep DEF rows
  <2>2. CASE ~ txn[c].open
    <3>1. calls' = [calls EXCEPT ![c] = Idle] /\ calls[c].at \notin Inside
      BY <1>2, <2>2 DEF Crash, Return, TxnShape
    <3>2. CallShape(Idle) /\ Idle \in Call /\ Idle.at \notin Inside
      BY Constructors DEF Inv, Idle, Inside
    <3> QED
      BY <1>1, <3>1, <3>2, DocumentStep DEF rows
  <2> QED
    BY <2>1, <2>2
<1>4. TypeOK'
  BY <1>1, <1>3, ElsewhereType DEF Inv, TypeOK, wallets, rows
<1> QED
  BY <1>3, <1>4 DEF Inv

-----------------------------------------------------------------------------
(* What a committed transaction does *)

\* It is a hold, or a release that had nothing left to do, or the release of a
\* match that was not paid out until now.
Held(c) ==
    /\ holds' = [holds EXCEPT ![On(c)] = @ + 1]
    /\ held' = [held EXCEPT ![Sender(c)] = @ + Charge]
    /\ UNCHANGED <<balance, payouts>>

Paid(c) ==
    /\ payouts[On(c)] = 0
    /\ payouts' = [payouts EXCEPT ![On(c)] = 1]
    /\ balance' = [balance EXCEPT ![Carrier(c)] = @ + Deposit + Payout]
    /\ \E left \in {held[Sender(c)], Settle(held[Sender(c)], Charge)} :
          held' = [held EXCEPT ![Carrier(c)] = Settle(@, Deposit), ![Sender(c)] = left]
    /\ UNCHANGED holds

LEMMA CommitEffect ==
  ASSUME Inv, NEW c \in Calls, calls[c].at = "commit", Apply(c)
  PROVE  \/ calls[c].op = "hold" /\ Held(c) /\ txn[c].writes = {Sender(c)}
         \/ /\ calls[c].op = "release" /\ payouts[On(c)] > 0
            /\ UNCHANGED <<wallets, rows>> /\ txn[c].writes = {}
         \/ /\ calls[c].op = "release" /\ Paid(c)
            /\ Carrier(c) \in txn[c].writes
            /\ txn[c].writes \subseteq {Carrier(c), Sender(c)}
            /\ held'[Sender(c)] # held[Sender(c)] => Sender(c) \in txn[c].writes
<1> DEFINE t == txn[c]
<1>1. calls[c] \in Call /\ CallShape(calls[c]) /\ TxnShape(c) /\ SnapshotTrue(c)
      /\ t \in Txn /\ calls[c].op \in {"release", "hold"} /\ t.open
  BY DEF Inv, TypeOK, Transactions, CallShape, TxnShape, Inside
<1>2. On(c) \in Matches /\ Carrier(c) \in Users /\ Sender(c) \in Users
      /\ Carrier(c) # Sender(c)
  BY <1>1, Parties DEF Inv
<1>3. \A u \in t.writes : u \in Users /\ t.held[u] = held[u] /\ t.balance[u] = balance[u]
  BY <1>1 DEF TxnShape, SnapshotTrue, Txn
<1>4. held \in [Users -> Int] /\ balance \in [Users -> Int] /\ payouts[On(c)] \in Nat
  BY <1>2 DEF Inv, TypeOK
<1>5. CASE calls[c].op = "hold"
  <2>1. t.writes = {Sender(c)}
    BY <1>1, <1>5 DEF TxnShape
  <2>2. SenderHeld(c) = held[Sender(c)] + Charge
    BY <1>3, <1>5, <2>1 DEF SenderHeld
  <2>3. held' = [held EXCEPT ![Sender(c)] = @ + Charge]
    BY <1>4, <2>1, <2>2 DEF Apply
  <2> QED
    BY <1>5, <2>1, <2>3 DEF Apply, Held
<1>6. CASE calls[c].op = "release" /\ t.released
  <2>1. t.writes = {} /\ payouts[On(c)] > 0
    BY <1>1, <1>2, <1>6 DEF TxnShape, SnapshotTrue
  <2>2. held' = held
    BY <1>4, <2>1 DEF Apply
  <2>3. balance' = balance /\ holds' = holds /\ payouts' = payouts
    BY <1>6 DEF Apply
  <2> QED
    BY <1>6, <2>1, <2>2, <2>3 DEF wallets, rows
<1>7. CASE calls[c].op = "release" /\ ~ t.released
  <2>1. \/ t.writes = {Carrier(c), Sender(c)}
        \/ t.writes = {Carrier(c)} /\ SenderHeld(c) = t.held[Sender(c)]
    BY <1>1, <1>7 DEF TxnShape
  <2>2. payouts[On(c)] = 0
    <3>1. Carrier(c) \notin t.stale
      BY <1>1, <2>1 DEF TxnShape
    <3> QED
      BY <1>1, <1>4, <1>7, <3>1 DEF SnapshotTrue
  <2>3. payouts' = [payouts EXCEPT ![On(c)] = 1]
    BY <1>2, <1>7, <2>2 DEF Apply, Inv, TypeOK
  <2>4. balance' = [balance EXCEPT ![Carrier(c)] = @ + Deposit + Payout] /\ holds' = holds
    BY <1>3, <1>4, <1>7, <2>1 DEF Apply
  <2>5. held' = [held EXCEPT ![Carrier(c)] = Settle(@, Deposit),
                             ![Sender(c)] = IF Sender(c) \in t.writes
                                            THEN Settle(@, Charge) ELSE @]
    <3>1. t.held[Carrier(c)] = held[Carrier(c)] /\ Carrier(c) \in t.writes
      BY <1>3, <2>1
    <3>2. Sender(c) \in t.writes => SenderHeld(c) = Settle(held[Sender(c)], Charge)
      BY <1>3, <1>7 DEF SenderHeld
    <3> QED
      BY <1>2, <1>4, <2>1, <3>1, <3>2 DEF Apply
  <2>6. Paid(c)
    <3>1. CASE Sender(c) \in t.writes
      BY <2>2, <2>3, <2>4, <2>5, <3>1 DEF Paid
    <3>2. CASE Sender(c) \notin t.writes
      BY <2>2, <2>3, <2>4, <2>5, <3>2 DEF Paid
    <3> QED
      BY <3>1, <3>2
  <2>7. held'[Sender(c)] # held[Sender(c)] => Sender(c) \in t.writes
    BY <1>2, <1>4, <2>5
  <2> QED
    BY <1>7, <2>1, <2>6, <2>7
<1> QED
  BY <1>1, <1>5, <1>6, <1>7

LEMMA ApplyStep ==
  ASSUME Inv, NEW c \in Calls, calls[c].at = "commit", Apply(c),
         NEW k \in Call, CallShape(k), k.at \notin Inside,
         calls' = [calls EXCEPT ![c] = k]
  PROVE  /\ Transactions' /\ WritesApart' /\ PaidOnce'
         /\ calls' \in [Calls -> Call] /\ txn' \in [Calls -> Txn]
         /\ held' \in [Users -> Int] /\ balance' \in [Users -> Int]
         /\ holds' \in [Matches -> Nat] /\ payouts' \in [Matches -> Nat]
<1> DEFINE us == txn[c].writes
<1>1. /\ us \in SUBSET Users
      /\ calls[c] \in Call /\ CallShape(calls[c]) /\ calls[c].op \in {"release", "hold"}
  BY DEF Inv, TypeOK, Transactions, CallShape, Txn
<1>2. On(c) \in Matches /\ Carrier(c) \in Users /\ Sender(c) \in Users
      /\ Carrier(c) # Sender(c) /\ Carrier(c) = CarrierOf[TripOf[On(c)]]
  BY <1>1, Parties DEF Inv, Carrier
<1>3. NoTxn \in Txn /\ ~ NoTxn.open /\ NoTxn.writes = {} /\ NoTxn.stale = {} /\ ~ NoTxn.released
  BY Constructors DEF Inv, NoTxn
<1>4. /\ txn' \in [Calls -> Txn] /\ txn'[c] = NoTxn
      /\ \A d \in Calls \ {c} : txn'[d] = Outdated(txn[d], us)
  <2>1. Outdate(txn, us) \in [Calls -> Txn]
        /\ \A d \in Calls : Outdate(txn, us)[d] = Outdated(txn[d], us)
    BY <1>1, OutdateType DEF Inv
  <2>2. txn' = [Outdate(txn, us) EXCEPT ![c] = NoTxn]
    BY DEF Apply
  <2> QED
    BY <1>3, <2>1, <2>2
<1>5. calls' \in [Calls -> Call] /\ calls'[c] = k
      /\ \A d \in Calls \ {c} : calls'[d] = calls[d]
  BY DEF Inv, TypeOK
<1>6. \A d \in Calls \ {c} : us \intersect txn[d].writes = {}
  BY DEF Inv, WritesApart
<1>7. {Deposit, Charge, Payout} \subseteq Nat /\ held \in [Users -> Int]
      /\ balance \in [Users -> Int] /\ holds \in [Matches -> Nat]
      /\ payouts \in [Matches -> Nat]
  BY AmountsType DEF Inv, TypeOK
<1>8. /\ held' \in [Users -> Int] /\ balance' \in [Users -> Int]
      /\ holds' \in [Matches -> Nat] /\ payouts' \in [Matches -> Nat]
      /\ \A u \in Users \ us : held'[u] = held[u] /\ balance'[u] = balance[u]
      /\ \A m \in Matches : \/ payouts'[m] = payouts[m]
                            \/ payouts'[m] > 0 /\ CarrierOf[TripOf[m]] \in us
      /\ PaidOnce'
  <2>1. CASE calls[c].op = "hold" /\ Held(c) /\ us = {Sender(c)}
    BY <1>2, <1>7, <2>1 DEF Held, Inv, PaidOnce
  <2>2. CASE UNCHANGED <<wallets, rows>> /\ us = {}
    BY <1>7, <2>2 DEF wallets, rows, Inv, PaidOnce
  <2>3. CASE /\ Paid(c) /\ Carrier(c) \in us /\ us \subseteq {Carrier(c), Sender(c)}
             /\ held'[Sender(c)] # held[Sender(c)] => Sender(c) \in us
    <3>1. PICK left \in {held[Sender(c)], Settle(held[Sender(c)], Charge)} :
             held' = [held EXCEPT ![Carrier(c)] = Settle(@, Deposit), ![Sender(c)] = left]
      BY <2>3 DEF Paid
    <3>2. left \in Int /\ Settle(held[Carrier(c)], Deposit) \in Int
      BY <1>2, <1>7, SettleType
    <3>3. held' \in [Users -> Int] /\ balance' \in [Users -> Int]
      BY <1>2, <1>7, <2>3, <3>1, <3>2 DEF Paid
    <3>4. \A u \in Users \ us : held'[u] = held[u] /\ balance'[u] = balance[u]
      BY <1>2, <1>7, <2>3, <3>1 DEF Paid
    <3>5. /\ holds' \in [Matches -> Nat] /\ payouts' \in [Matches -> Nat] /\ PaidOnce'
          /\ \A m \in Matches : \/ payouts'[m] = payouts[m]
                                \/ payouts'[m] > 0 /\ CarrierOf[TripOf[m]] \in us
      BY <1>2, <1>7, <2>3 DEF Paid, Inv, PaidOnce
    <3> QED
      BY <3>3, <3>4, <3>5
  <2> QED
    BY <2>1, <2>2, <2>3, CommitEffect
<1>9. Transactions'
  <2>1. TxnShape(c)'
    BY <1>3, <1>4, <1>5 DEF TxnShape, Inside
  <2>2. SnapshotTrue(c)'
    BY <1>3, <1>4 DEF SnapshotTrue
  <2>3. (CallShape(calls[c]) /\ TxnShape(c) /\ SnapshotTrue(c))'
    BY <1>5, <2>1, <2>2
  <2> HIDE DEF us
  <2> QED
    BY <1>1, <1>4, <1>5, <1>6, <1>8, <2>3, OthersKeep
<1>10. WritesApart'
  <2>1. \A d \in Calls \ {c} : txn'[d].writes = txn[d].writes
    BY <1>4 DEF Outdated, Inv, TypeOK, Txn
  <2> QED
    BY <1>3, <1>4, <2>1 DEF Inv, WritesApart
<1> QED
  BY <1>4, <1>5, <1>8, <1>9, <1>10

LEMMA CommitInv ==
  ASSUME Inv, NEW c \in Calls, Commit(c) \/ CommitUnknown(c)
  PROVE  Inv'
<1>1. calls[c].at = "commit" /\ Apply(c) /\ UNCHANGED <<documents, crashes>> /\ Running(c)
  BY DEF Commit, CommitUnknown, Running
<1>2. /\ \E k \in Call : /\ CallShape(k) /\ k.at \notin Inside
                         /\ calls' = [calls EXCEPT ![c] = k]
      /\ job' \in [Jobs -> JobStates] /\ lease' \in [Jobs -> Calls \union {None, Crashed}]
      /\ stalled' = stalled
  BY <1>1, RetryMoves DEF Commit, CommitUnknown
<1>3. /\ Transactions' /\ WritesApart' /\ PaidOnce'
      /\ calls' \in [Calls -> Call] /\ txn' \in [Calls -> Txn]
      /\ held' \in [Users -> Int] /\ balance' \in [Users -> Int]
      /\ holds' \in [Matches -> Nat] /\ payouts' \in [Matches -> Nat]
  BY <1>1, <1>2, ApplyStep
<1>4. TypeOK'
  BY <1>1, <1>2, <1>3, ElsewhereType DEF Inv, TypeOK
<1> QED
  BY <1>3, <1>4 DEF Inv

-----------------------------------------------------------------------------
(* The invariant *)

LEMMA InitInv == Init => Inv
<1> SUFFICES ASSUME Init PROVE Inv
  OBVIOUS
<1>1. TypeOK
  <2>1. Idle \in Call /\ NoTxn \in Txn
    BY BoundsType DEF Idle, Call, Steps, NoTxn, Txn
  <2> QED
    BY <2>1 DEF Init, TypeOK, PaymentStatuses, Phases, JobStates
<1>2. \A c \in Calls : calls[c] = Idle /\ txn[c] = NoTxn
  BY DEF Init
<1>3. ~ NoTxn.open /\ NoTxn.writes = {} /\ NoTxn.stale = {} /\ ~ NoTxn.released
      /\ Idle.at = "idle" /\ CallShape(Idle)
  BY <1>1, Constructors DEF NoTxn, Idle
<1>4. Transactions
  BY <1>2, <1>3 DEF Transactions, TxnShape, SnapshotTrue, Inside
<1>5. WritesApart
  BY <1>2, <1>3 DEF WritesApart
<1>6. PaidOnce
  BY DEF Init, PaidOnce
<1> QED
  BY <1>1, <1>4, <1>5, <1>6 DEF Inv

LEMMA NextInv == Inv /\ [Next]_vars => Inv'
<1> SUFFICES ASSUME Inv, [Next]_vars PROVE Inv'
  OBVIOUS
<1>1. CASE UNCHANGED vars
  <2>1. TypeOK'
    BY <1>1 DEF Inv, TypeOK, vars, wallets, rows, documents, matchDocs, tripDocs, queue
  <2>2. Transactions' /\ WritesApart' /\ PaidOnce'
    BY <1>1, ElsewhereStep DEF vars, rows
  <2> QED
    BY <2>1, <2>2 DEF Inv
<1>2. CASE \/ \E m \in Matches : Confirm(m) \/ Pay(m) \/ Dispute(m)
           \/ \E j \in Jobs : Deliver(j) \/ Stall(j)
  BY <1>2, NoCallInv
<1>3. ASSUME NEW c \in Calls, (\E j \in Jobs : TakeJob(c, j)) \/ Open(c) PROVE Inv'
  BY <1>3, StartInv
<1>4. ASSUME NEW c \in Calls, Step(c) PROVE Inv'
  BY <1>4, BeginInv, SaveInv, CommitInv, AbortInv, HandlerInv DEF Step
<1>5. ASSUME NEW c \in Calls, Fault(c) \/ Expire(c) PROVE Inv'
  BY <1>5, CommitInv, AbortInv, CrashInv DEF Fault
<1> QED
  BY <1>1, <1>2, <1>3, <1>4, <1>5 DEF Next

\* Wallets, ledger rows, documents, jobs, calls and transactions keep their types.
THEOREM TypeCorrect == Spec => []TypeOK
<1>1. Inv => TypeOK
  BY DEF Inv
<1> QED
  BY InitInv, NextInv, <1>1, PTL DEF Spec

\* releaseFunds, with any number of workers, retries, stalls and commits whose
\* result is unknown: a match never has two payout rows.
THEOREM PaysOnce == Spec => []PaidOnce
<1>1. Inv => PaidOnce
  BY DEF Inv
<1> QED
  BY InitInv, NextInv, <1>1, PTL DEF Spec

-----------------------------------------------------------------------------
(* Completed jobs *)

\* What commits do to the payout rows.
LEMMA PayoutsGrow ==
  ASSUME Inv, [Next]_vars, NEW m \in Matches, payouts[m] = 1
  PROVE  payouts'[m] = 1
<1>1. ASSUME NEW c \in Calls, Commit(c) \/ CommitUnknown(c) PROVE payouts'[m] = 1
  <2>1. calls[c].at = "commit" /\ Apply(c)
    BY <1>1 DEF Commit, CommitUnknown
  <2>2. UNCHANGED payouts \/ (payouts[On(c)] = 0 /\ payouts' = [payouts EXCEPT ![On(c)] = 1])
    BY <2>1, CommitEffect DEF Held, Paid, rows
  <2>3. CASE On(c) = m
    BY <2>2, <2>3
  <2>4. CASE On(c) # m
    BY <2>2, <2>4 DEF Inv, TypeOK
  <2> QED
    BY <2>3, <2>4
<1>2. (\E c \in Calls : Commit(c) \/ CommitUnknown(c)) \/ UNCHANGED payouts
  BY DEF Next, Open, Step, Fault, vars, rows, Confirm, Pay, Dispute, Deliver, Stall, TakeJob,
     StartHold, StartRefund, StartDeposit, StartCancelTrip, StartDeactivate, Begin, SaveCarrier,
     SaveSender, AbortOnConflict, CompleteDeposit, CreditDeposit, SaveDeposit, SaveCancelTrip,
     ReturnDeposit, ReturnCharge, SaveRefund, Deactivate, AbortTransient, AbortForGood, Crash,
     Expire
<1> QED
  BY <1>1, <1>2

\* A dispute is final here.
LEMMA DisputesStay ==
  ASSUME Inv, [Next]_vars, NEW m \in Matches, phase[m] = "disputed"
  PROVE  phase'[m] = "disputed"
<1>1. \/ UNCHANGED phase
      \/ \E n \in Matches, s \in Phases :
            phase[n] # "disputed" /\ phase' = [phase EXCEPT ![n] = s]
      \/ \E n \in Matches : phase' = [phase EXCEPT ![n] = "disputed"]
  <2>1. ASSUME NEW c \in Calls, SaveRefund(c)
        PROVE  \/ UNCHANGED phase
               \/ \E n \in Matches, s \in Phases :
                     phase[n] # "disputed" /\ phase' = [phase EXCEPT ![n] = s]
    <3>1. calls[c].on \in Matches
      BY <2>1 DEF SaveRefund, At, Inv, Transactions, CallShape
    <3> QED
      BY <2>1, <3>1 DEF SaveRefund, Phases
  <2>2. ASSUME NEW n \in Matches, Confirm(n) \/ Pay(n) \/ Dispute(n)
        PROVE  \/ UNCHANGED phase
               \/ \E s \in Phases : phase[n] # "disputed" /\ phase' = [phase EXCEPT ![n] = s]
    BY <2>2 DEF Confirm, Pay, Dispute, Phases
  <2>3. ASSUME NEW j \in Jobs, Deliver(j)
        PROVE  \E n \in Matches, s \in Phases :
                  phase[n] # "disputed" /\ phase' = [phase EXCEPT ![n] = s]
    BY <2>3, MatchOfType DEF Deliver, Phases
  <2>4. \/ UNCHANGED phase
        \/ \E c \in Calls : SaveRefund(c)
        \/ \E n \in Matches : Confirm(n) \/ Pay(n) \/ Dispute(n)
        \/ \E j \in Jobs : Deliver(j)
    BY DEF Next, Open, Step, Fault, vars, documents, matchDocs, Stall, TakeJob, StartHold,
       StartRefund, StartDeposit, StartCancelTrip, StartDeactivate, Begin, SaveCarrier, SaveSender,
       Commit, CommitUnknown, AbortOnConflict, CompleteDeposit, CreditDeposit, SaveDeposit,
       SaveCancelTrip, ReturnDeposit, ReturnCharge, Deactivate, AbortTransient, AbortForGood,
       Crash, Expire
  <2> QED
    BY <2>1, <2>2, <2>3, <2>4
<1>2. phase \in [Matches -> Phases]
  BY DEF Inv, TypeOK
<1> QED
  BY <1>1, <1>2

\* Throw, and with it Retry, never completes a job.
LEMMA ThrowFails ==
  ASSUME Inv, NEW c \in Calls, Retry(c) \/ Throw(c), NEW j \in Jobs,
         job'[j] = "completed"
  PROVE  job[j] = "completed"
BY DEF Retry, Throw, Settled, queue, Inv, TypeOK

LEMMA CompletedPaidStep ==
  ASSUME Inv, CompletedPaid, [Next]_vars
  PROVE  CompletedPaid'
<1> SUFFICES ASSUME NEW j \in Jobs, job'[j] = "completed"
             PROVE  payouts'[MatchOf[j]] = 1 \/ phase'[MatchOf[j]] = "disputed"
  BY DEF CompletedPaid
<1> DEFINE m == MatchOf[j]
<1>1. m \in Matches /\ payouts[m] \in Nat /\ payouts[m] <= 1
  BY MatchOfType DEF Inv, TypeOK, PaidOnce
<1>2. CASE job[j] = "completed"
  BY <1>1, <1>2, PayoutsGrow, DisputesStay DEF CompletedPaid
<1>3. ASSUME job[j] # "completed", NEW c \in Calls, NEW i \in Jobs, TakeJob(c, i)
      PROVE  payouts'[m] = 1 \/ phase'[m] = "disputed"
  <2>1. i = j /\ (phase[m] = "disputed" \/ payouts[m] > 0)
    BY <1>3 DEF TakeJob, Inv, TypeOK
  <2> QED
    BY <1>1, <1>3, <2>1 DEF TakeJob, rows, documents, matchDocs
<1>4. ASSUME job[j] # "completed", NEW c \in Calls, Commit(c) PROVE payouts'[m] = 1
  <2>1. calls[c].op = "release" /\ calls[c].on = j
    BY <1>4 DEF Commit, Settled, Inv, TypeOK
  <2>2. On(c) = m /\ calls[c].at = "commit" /\ Apply(c)
    BY <1>4, <2>1 DEF Commit, On
  <2>3. (payouts[m] > 0 /\ UNCHANGED payouts) \/ payouts' = [payouts EXCEPT ![m] = 1]
    BY <2>1, <2>2, CommitEffect DEF Paid, rows
  <2> QED
    BY <1>1, <2>3 DEF Inv, TypeOK
<1>5. ASSUME job[j] # "completed"
      PROVE  \E c \in Calls : Commit(c) \/ \E i \in Jobs : TakeJob(c, i)
  <2>1. ASSUME NEW i \in Jobs, Deliver(i) \/ Stall(i) PROVE job'[j] # "completed"
    BY <1>5, <2>1 DEF Deliver, Stall, Inv, TypeOK
  <2>2. ASSUME NEW c \in Calls,
               CommitUnknown(c) \/ AbortTransient(c) \/ AbortForGood(c) \/ AbortOnConflict(c)
        PROVE  job'[j] # "completed"
    BY <1>5, <2>2, ThrowFails DEF CommitUnknown, AbortTransient, AbortForGood, AbortOnConflict
  <2>3. \/ \E c \in Calls : Commit(c) \/ \E i \in Jobs : TakeJob(c, i)
        \/ \E i \in Jobs : Deliver(i) \/ Stall(i)
        \/ \E c \in Calls : \/ CommitUnknown(c) \/ AbortTransient(c) \/ AbortForGood(c)
                            \/ AbortOnConflict(c)
        \/ UNCHANGED job
    BY DEF Next, Open, Step, Fault, vars, queue, Confirm, Pay, Dispute, StartHold,
       StartRefund, StartDeposit, StartCancelTrip, StartDeactivate, Begin, SaveCarrier, SaveSender,
       CompleteDeposit, CreditDeposit, SaveDeposit, SaveCancelTrip, ReturnDeposit, ReturnCharge,
       SaveRefund, Deactivate, Crash, Expire
  <2> QED
    BY <1>5, <2>1, <2>2, <2>3
<1> QED
  BY <1>2, <1>3, <1>4, <1>5

\* The payout worker: a job that BullMQ counts as completed was paid, or its
\* match is disputed, whatever conflicts, stalls, retries and crashes there were.
THEOREM CompletedIsPaid == Spec => []CompletedPaid
<1>1. Init => Inv /\ CompletedPaid
  BY InitInv DEF Init, CompletedPaid
<1>2. Inv /\ CompletedPaid /\ [Next]_vars => (Inv /\ CompletedPaid)'
  BY NextInv, CompletedPaidStep
<1> QED
  BY <1>1, <1>2, PTL DEF Spec

-----------------------------------------------------------------------------
(* Refinement *)

\* A hold, and the release of a match, are those of Ledger.
LEMMA CommitsAreLedgerSteps ==
  ASSUME Inv, NEW c \in Calls, Commit(c) \/ CommitUnknown(c)
  PROVE  [Wallets!Next]_(Wallets!vars)
<1>1. calls[c].at = "commit" /\ Apply(c)
  BY DEF Commit, CommitUnknown
<1>2. /\ CallShape(calls[c]) /\ calls[c].op \in {"release", "hold"}
  BY <1>1 DEF Inv, Transactions, CallShape
<1>3. On(c) \in Matches
  BY <1>2, Parties DEF Inv
<1>4. CASE Held(c)
  BY <1>3, <1>4 DEF Held, Wallets!Next, Wallets!Hold, Sender
<1>5. CASE UNCHANGED <<wallets, rows>>
  BY <1>5 DEF wallets, rows, Wallets!vars
<1>6. CASE Paid(c)
  <2>1. Wallets!Release(On(c))
    BY <1>6 DEF Paid, Wallets!Release, Carrier, Sender, Settle, Wallets!Settle
  <2> QED
    BY <1>3, <2>1 DEF Wallets!Next
<1> QED
  BY <1>1, <1>4, <1>5, <1>6, CommitEffect

LEMMA AdjustmentsAreLedgerSteps ==
  ASSUME Inv, NEW c \in Calls, CreditDeposit(c) \/ ReturnDeposit(c) \/ ReturnCharge(c)
  PROVE  Wallets!Next
<1>1. CallShape(calls[c]) /\ Deposit \in Int /\ Charge \in Int
      /\ held \in [Users -> Int] /\ balance \in [Users -> Int]
  BY AmountsType DEF Inv, TypeOK, Transactions
<1>2. CASE CreditDeposit(c)
  <2>1. calls[c].on \in Trips /\ CarrierOf[calls[c].on] \in Users
    BY <1>1, <1>2, PartiesType DEF CreditDeposit, At, CallShape
  <2>2. Wallets!PutDeposit(calls[c].on)
    BY <1>1, <1>2, <2>1 DEF CreditDeposit, Adjust, Wallets!PutDeposit, rows
  <2> QED
    BY <2>1, <2>2 DEF Wallets!Next
<1>3. CASE ReturnDeposit(c)
  <2>1. calls[c].on \in Trips /\ CarrierOf[calls[c].on] \in Users
    BY <1>1, <1>3, PartiesType DEF ReturnDeposit, At, CallShape
  <2>2. Wallets!GiveBack(CarrierOf[calls[c].on], Deposit)
    BY <1>1, <1>3, <2>1 DEF ReturnDeposit, Adjust, Wallets!GiveBack, rows
  <2> QED
    BY <2>1, <2>2 DEF Wallets!Next
<1>4. CASE ReturnCharge(c)
  <2>1. calls[c].op = "refund" /\ calls[c].on \in Matches
    BY <1>1, <1>4 DEF ReturnCharge, At, CallShape
  <2>2. Sender(c) = SenderOf[calls[c].on] /\ Sender(c) \in Users
    BY <1>1, <2>1, Parties DEF Inv, Sender, On
  <2>3. Wallets!GiveBack(SenderOf[calls[c].on], Charge)
    BY <1>1, <1>4, <2>2 DEF ReturnCharge, Adjust, Wallets!GiveBack, rows
  <2> QED
    BY <2>1, <2>3 DEF Wallets!Next
<1> QED
  BY <1>2, <1>3, <1>4

\* holdFunds, releaseFunds and the handlers that adjust wallets: each movement of
\* money takes effect at once and none undoes another.
THEOREM Implements == Spec => ImplementsLedger
<1>1. Init => Wallets!Init
  BY DEF Init, Wallets!Init
<1>2. Inv /\ [Next]_vars => [Wallets!Next]_(Wallets!vars)
  <2> SUFFICES ASSUME Inv, [Next]_vars PROVE [Wallets!Next]_(Wallets!vars)
    OBVIOUS
  <2>1. \/ \E c \in Calls : Commit(c) \/ CommitUnknown(c)
        \/ \E c \in Calls : CreditDeposit(c) \/ ReturnDeposit(c) \/ ReturnCharge(c)
        \/ UNCHANGED <<wallets, rows>>
    <3> USE DEF rows
    <3>1. ASSUME NEW c \in Calls, Open(c) PROVE UNCHANGED <<wallets, rows>>
      BY <3>1 DEF Open, StartHold, StartRefund, StartDeposit, StartCancelTrip, StartDeactivate
    <3>2. ASSUME NEW c \in Calls, Step(c)
          PROVE  \/ Commit(c) \/ CreditDeposit(c) \/ ReturnDeposit(c) \/ ReturnCharge(c)
                 \/ UNCHANGED <<wallets, rows>>
      BY <3>2 DEF Step, Begin, SaveCarrier, SaveSender, AbortOnConflict, CompleteDeposit,
                  SaveDeposit, SaveCancelTrip, SaveRefund, Deactivate
    <3>3. ASSUME NEW c \in Calls, Fault(c) \/ Expire(c)
          PROVE  CommitUnknown(c) \/ UNCHANGED <<wallets, rows>>
      BY <3>3 DEF Fault, AbortTransient, AbortForGood, Crash, Expire
    <3>4. ASSUME \/ \E m \in Matches : Confirm(m) \/ Pay(m) \/ Dispute(m)
                 \/ \E j \in Jobs : Deliver(j) \/ Stall(j)
                 \/ \E c \in Calls, j \in Jobs : TakeJob(c, j)
                 \/ UNCHANGED vars
          PROVE  UNCHANGED <<wallets, rows>>
      BY <3>4 DEF Confirm, Pay, Dispute, Deliver, Stall, TakeJob, vars
    <3> QED
      BY <3>1, <3>2, <3>3, <3>4 DEF Next
  <2>2. UNCHANGED <<wallets, rows>> => UNCHANGED Wallets!vars
    BY DEF wallets, rows, Wallets!vars
  <2> QED
    BY <2>1, <2>2, CommitsAreLedgerSteps, AdjustmentsAreLedgerSteps
<1> QED
  BY InitInv, NextInv, <1>1, <1>2, PTL DEF Spec, ImplementsLedger, Wallets!Spec
=============================================================================
