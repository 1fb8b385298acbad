------------------------------ MODULE Checkout ------------------------------
(***************************************************************************)
(* Paying through Razorpay: the deposit of a trip that is about to be       *)
(* posted, or a delivery request.  A checkout finds or creates an order,    *)
(* opens the payment window and, when the payment is captured, has the      *)
(* backend confirm it; the provider reports the payment by webhook as well, *)
(* and repeats that until it is acknowledged.  Several checkouts of one     *)
(* user run at once (tabs, a second attempt), each a sequence of database   *)
(* and provider calls that may end after any of them.                       *)
(***************************************************************************)
EXTENDS Naturals, FiniteSets

CONSTANTS Checkouts,
          HookCalls,          \* webhook requests the backend handles at once
          MaxOrders,          \* bound: orders created at the provider
          MaxCheckoutFaults   \* bound: calls that fail, tabs closed, deaths

ASSUME CheckoutAssumption == MaxOrders \in Nat /\ MaxCheckoutFaults \in Nat

Orders == 1 .. MaxOrders
\* A declined attempt and the captured payment of an order are different payments.
Events == Orders \X {"payment.captured", "payment.failed"}

VARIABLES
    purpose,       \* what the checkouts are for: "deposit" or "delivery"
    checkouts,     \* where a checkout is, and its order
    orders,        \* at the provider: none, created or paid
    transaction,   \* status of the Transaction with an order's id
    paymentOrderId, requestPaid,   \* DeliveryRequest
    depositPaid,     \* checkouts whose trip has safetyDepositPaid
    hooks,         \* webhooks the provider has not seen acknowledged
    hookCalls,
    recorded,      \* ProcessedWebhook
    applied,       \* times a webhook has updated a Transaction
    standalone,    \* history: orders of POST /payments/create-order
    orphaned,      \* history: orders whose creation ended before their Transaction
    lost,          \* history: webhooks recorded without effect on a Transaction
    checkoutFaults

clientVars  == <<purpose, checkouts>>
providerVars == <<orders, hooks>>
paymentVars == <<transaction, paymentOrderId, requestPaid, depositPaid>>
hookVars    == <<hookCalls, recorded, applied, lost>>
checkoutVars == <<clientVars, providerVars, paymentVars, hookVars, standalone, orphaned,
                  checkoutFaults>>

NoHook == [at |-> "idle", event |-> <<0, "none">>]

CheckoutInit ==
    /\ purpose \in {"deposit", "delivery"}
    /\ checkouts = [c \in Checkouts |-> [at |-> "closed", order |-> 0]]
    /\ orders = [o \in Orders |-> "none"]
    /\ transaction = [o \in Orders |-> "none"]
    /\ paymentOrderId = 0 /\ requestPaid = FALSE /\ depositPaid = {}
    /\ hooks = {} /\ recorded = {} /\ lost = {}
    /\ hookCalls = [w \in HookCalls |-> NoHook]
    /\ applied = [e \in Events |-> 0]
    /\ standalone = {} /\ orphaned = {}
    /\ checkoutFaults = 0

CheckoutFault ==
    checkoutFaults < MaxCheckoutFaults /\ checkoutFaults' = checkoutFaults + 1

At(c, at) == checkouts[c].at = at
Go(c, at) == checkouts' = [checkouts EXCEPT ![c].at = at] /\ UNCHANGED purpose
GoWith(c, at, o) ==
    checkouts' = [checkouts EXCEPT ![c] = [at |-> at, order |-> o]] /\ UNCHANGED purpose

-----------------------------------------------------------------------------
(* The order *)

\* handlePay: the button asks for an order.
OpenCheckout(c) ==
    /\ At(c, "closed")
    /\ GoWith(c, "ordering", 0)
    /\ UNCHANGED <<providerVars, paymentVars, hookVars, standalone, orphaned, checkoutFaults>>

\* Orders the user's draft deposit may already have.
Drafts == {o \in Orders : transaction[o] = "initiated"}

\* createPreTripDepositOrder takes the order of the latest deposit that is not paid.
FindDraft(c) ==
    /\ purpose = "deposit" /\ At(c, "ordering")
    /\ IF Drafts = {} THEN Go(c, "creating")
       ELSE \E o \in Drafts : (\A p \in Drafts : p <= o) /\ GoWith(c, "window", o)
    /\ UNCHANGED <<providerVars, paymentVars, hookVars, standalone, orphaned, checkoutFaults>>

\* createDeliveryOrder takes the order of the request; a paid one ends the checkout.
FindOrder(c) ==
    /\ purpose = "delivery" /\ At(c, "ordering")
    /\ \/ requestPaid /\ Go(c, "closed")
       \/ ~ requestPaid /\ paymentOrderId # 0 /\ GoWith(c, "window", paymentOrderId)
       \/ ~ requestPaid /\ paymentOrderId = 0 /\ Go(c, "creating")
    /\ UNCHANGED <<providerVars, paymentVars, hookVars, standalone, orphaned, checkoutFaults>>

NewOrder(o) == orders[o] = "none" /\ \A p \in Orders : p < o => orders[p] # "none"

\* createOrder at the provider.
CreateOrder(c, o) ==
    /\ At(c, "creating") /\ NewOrder(o)
    /\ orders' = [orders EXCEPT ![o] = "created"]
    /\ GoWith(c, IF purpose = "delivery" THEN "linking" ELSE "inserting", o)
    /\ UNCHANGED <<hooks, paymentVars, hookVars, standalone, orphaned, checkoutFaults>>

\* request.save() of createDeliveryOrder, whatever order another call has saved.
LinkOrder(c) ==
    /\ At(c, "linking")
    /\ paymentOrderId' = checkouts[c].order
    /\ Go(c, "inserting")
    /\ UNCHANGED <<providerVars, transaction, requestPaid, depositPaid, hookVars,
                   standalone, orphaned, checkoutFaults>>

\* Mutant of InsertTransaction: the Transaction is created when the payment is confirmed.
SkipTransaction(c) ==
    /\ At(c, "inserting")
    /\ Go(c, "window")
    /\ UNCHANGED <<providerVars, paymentVars, hookVars, standalone, orphaned, checkoutFaults>>

\* Transaction.create
InsertTransaction(c) ==
    /\ At(c, "inserting")
    /\ transaction' = [transaction EXCEPT ![checkouts[c].order] = "initiated"]
    /\ Go(c, "window")
    /\ UNCHANGED <<providerVars, paymentOrderId, requestPaid, depositPaid, hookVars,
                   standalone, orphaned, checkoutFaults>>

\* The call for the order fails or its process dies.  The button then tries
\* POST /payments/create-order; other clients of the API give up.
OrderFails(c) ==
    /\ checkouts[c].at \in {"ordering", "creating", "linking", "inserting"}
    /\ orphaned' = IF checkouts[c].at \in {"linking", "inserting"}
                   THEN orphaned \union {checkouts[c].order} ELSE orphaned
    /\ GoWith(c, IF purpose = "deposit" THEN "fallback" ELSE "closed", 0)
    /\ CheckoutFault
    /\ UNCHANGED <<providerVars, paymentVars, hookVars, standalone>>

\* createStandaloneOrder: an order without a Transaction.
CreateStandaloneOrder(c, o) ==
    /\ At(c, "fallback") /\ NewOrder(o)
    /\ orders' = [orders EXCEPT ![o] = "created"]
    /\ standalone' = standalone \union {o}
    /\ GoWith(c, "window", o)
    /\ UNCHANGED <<hooks, paymentVars, hookVars, orphaned, checkoutFaults>>

-----------------------------------------------------------------------------
(* The payment *)

\* payment.failed: the window stays open for another attempt.
Decline(c) ==
    LET e == <<checkouts[c].order, "payment.failed">> IN
    /\ At(c, "window") /\ orders[checkouts[c].order] = "created"
    /\ e \notin hooks /\ e \notin recorded
    /\ hooks' = hooks \union {e}
    /\ UNCHANGED <<clientVars, orders, paymentVars, hookVars, standalone, orphaned,
                   checkoutFaults>>

\* The provider captures the payment of an order once, and calls the handler.
Capture(c) ==
    /\ At(c, "window") /\ orders[checkouts[c].order] = "created"
    /\ orders' = [orders EXCEPT ![checkouts[c].order] = "paid"]
    /\ hooks' = hooks \union {<<checkouts[c].order, "payment.captured">>}
    /\ Go(c, IF purpose = "deposit" THEN "posting" ELSE "confirming")
    /\ UNCHANGED <<paymentVars, hookVars, standalone, orphaned, checkoutFaults>>

\* ondismiss
Dismiss(c) ==
    /\ At(c, "window")
    /\ Go(c, "closed")
    /\ UNCHANGED <<providerVars, paymentVars, hookVars, standalone, orphaned, checkoutFaults>>

\* submitTrip creates the trip the deposit is for.
SubmitTrip(c) ==
    /\ At(c, "posting")
    /\ Go(c, "confirming")
    /\ UNCHANGED <<providerVars, paymentVars, hookVars, standalone, orphaned, checkoutFaults>>

\* confirmTripDeposit and confirmDeliveryPayment look for the Transaction (404 without
\* one); a request that is paid needs nothing more.
FindTransaction(c) ==
    /\ At(c, "confirming")
    /\ Go(c, IF transaction[checkouts[c].order] = "none" \/ (purpose = "delivery" /\ requestPaid)
             THEN "finished" ELSE "completing")
    /\ UNCHANGED <<providerVars, paymentVars, hookVars, standalone, orphaned, checkoutFaults>>

\* tx.save()
CompleteTransaction(c) ==
    /\ At(c, "completing")
    /\ transaction' = [transaction EXCEPT ![checkouts[c].order] = "completed"]
    /\ Go(c, "marking")
    /\ UNCHANGED <<providerVars, paymentOrderId, requestPaid, depositPaid, hookVars,
                   standalone, orphaned, checkoutFaults>>

\* trip.save() or request.save()
MarkPaid(c) ==
    /\ At(c, "marking")
    /\ IF purpose = "deposit"
       THEN depositPaid' = depositPaid \union {c} /\ UNCHANGED requestPaid
       ELSE requestPaid' = TRUE /\ UNCHANGED depositPaid
    /\ Go(c, "finished")
    /\ UNCHANGED <<providerVars, transaction, paymentOrderId, hookVars, standalone,
                   orphaned, checkoutFaults>>

\* The tab is closed, or a call of it fails: submitTrip goes on without.
AbandonPayment(c) ==
    /\ checkouts[c].at \in {"posting", "confirming", "completing", "marking"}
    /\ Go(c, "finished")
    /\ CheckoutFault
    /\ UNCHANGED <<providerVars, paymentVars, hookVars, standalone, orphaned>>

-----------------------------------------------------------------------------
(* The webhook *)

\* Mutant of DeliverHook: the webhook is acknowledged before it is handled.
DeliverAndAcknowledge(w, e) ==
    /\ e \in hooks
    /\ hookCalls[w] = NoHook
    /\ hookCalls' = [hookCalls EXCEPT ![w] = [at |-> "record", event |-> e]]
    /\ hooks' = hooks \ {e}
    /\ UNCHANGED <<clientVars, orders, paymentVars, recorded, applied, lost,
                   standalone, orphaned, checkoutFaults>>

\* The provider sends a webhook again until it is acknowledged.
DeliverHook(w, e) ==
    /\ e \in hooks
    /\ hookCalls[w] = NoHook
    /\ hookCalls' = [hookCalls EXCEPT ![w] = [at |-> "record", event |-> e]]
    /\ UNCHANGED <<clientVars, providerVars, paymentVars, recorded, applied, lost,
                   standalone, orphaned, checkoutFaults>>

\* Mutant of RecordHook: it looks for the record, but does not rely on the index.
LookForHook(w) ==
    /\ hookCalls[w].at = "record"
    /\ IF hookCalls[w].event \in recorded /\ applied[hookCalls[w].event] > 0
       THEN /\ hooks' = hooks \ {hookCalls[w].event}
            /\ hookCalls' = [hookCalls EXCEPT ![w] = NoHook]
            /\ UNCHANGED recorded
       ELSE /\ recorded' = recorded \union {hookCalls[w].event}
            /\ hookCalls' = [hookCalls EXCEPT ![w].at = "update"]
            /\ UNCHANGED hooks
    /\ UNCHANGED <<clientVars, orders, paymentVars, applied, lost, standalone, orphaned,
                   checkoutFaults>>

\* ProcessedWebhook.create: of several deliveries one passes the unique index.
RecordHook(w) ==
    /\ hookCalls[w].at = "record"
    /\ IF hookCalls[w].event \in recorded
       THEN /\ hooks' = hooks \ {hookCalls[w].event}
            /\ hookCalls' = [hookCalls EXCEPT ![w] = NoHook]
            /\ UNCHANGED recorded
       ELSE /\ recorded' = recorded \union {hookCalls[w].event}
            /\ hookCalls' = [hookCalls EXCEPT ![w].at = "update"]
            /\ UNCHANGED hooks
    /\ UNCHANGED <<clientVars, orders, paymentVars, applied, lost, standalone, orphaned,
                   checkoutFaults>>

\* Transaction.findOneAndUpdate, whatever the status is, and the acknowledgement.
ApplyHook(w) ==
    /\ hookCalls[w].at = "update"
    /\ LET e == hookCalls[w].event IN
       /\ IF transaction[e[1]] = "none"
          THEN lost' = lost \union {e} /\ UNCHANGED <<transaction, applied>>
          ELSE /\ transaction' = [transaction EXCEPT ![e[1]] =
                     IF e[2] = "payment.captured" THEN "completed" ELSE "failed"]
               /\ applied' = [applied EXCEPT ![e] = @ + 1]
               /\ UNCHANGED lost
       /\ hooks' = hooks \ {e}
    /\ hookCalls' = [hookCalls EXCEPT ![w] = NoHook]
    /\ UNCHANGED <<clientVars, orders, paymentOrderId, requestPaid, depositPaid, recorded,
                   standalone, orphaned, checkoutFaults>>

\* The process dies: what it has recorded will not be done by another delivery.
HookDies(w) ==
    /\ hookCalls[w] # NoHook
    /\ lost' = IF hookCalls[w].at = "update" THEN lost \union {hookCalls[w].event} ELSE lost
    /\ hookCalls' = [hookCalls EXCEPT ![w] = NoHook]
    /\ CheckoutFault
    /\ UNCHANGED <<clientVars, providerVars, paymentVars, recorded, applied, standalone,
                   orphaned>>

-----------------------------------------------------------------------------
CheckoutStep(c) ==
    \/ FindDraft(c) \/ FindOrder(c) \/ LinkOrder(c) \/ InsertTransaction(c)
    \/ \E o \in Orders : CreateOrder(c, o) \/ CreateStandaloneOrder(c, o)
    \/ SubmitTrip(c) \/ FindTransaction(c) \/ CompleteTransaction(c) \/ MarkPaid(c)

CheckoutNext ==
    \/ \E c \in Checkouts :
          \/ OpenCheckout(c) \/ CheckoutStep(c) \/ OrderFails(c)
          \/ Decline(c) \/ Capture(c) \/ Dismiss(c) \/ AbandonPayment(c)
    \/ \E w \in HookCalls :
          \/ \E e \in Events : DeliverHook(w, e)
          \/ RecordHook(w) \/ ApplyHook(w) \/ HookDies(w)

CheckoutSpec == CheckoutInit /\ [][CheckoutNext]_checkoutVars

\* The provider repeats its webhooks, and the backend handles what it has begun.
CheckoutFairness ==
    /\ \A e \in Events : WF_checkoutVars(\E w \in HookCalls : DeliverHook(w, e))
    /\ \A w \in HookCalls : WF_checkoutVars(RecordHook(w) \/ ApplyHook(w))

-----------------------------------------------------------------------------
CheckoutPlaces == {"closed", "ordering", "creating", "linking", "inserting", "fallback",
                   "window", "posting", "confirming", "completing", "marking", "finished"}
CheckoutStates == [at : CheckoutPlaces, order : {0} \union Orders]
HookStates     == [at : {"idle", "record", "update"}, event : Events \union {<<0, "none">>}]

CheckoutTypeOK ==
    /\ purpose \in {"deposit", "delivery"}
    /\ checkouts \in [Checkouts -> CheckoutStates]
    /\ orders \in [Orders -> {"none", "created", "paid"}]
    /\ transaction \in [Orders -> {"none", "initiated", "completed", "failed"}]
    /\ paymentOrderId \in {0} \union Orders /\ requestPaid \in BOOLEAN
    /\ depositPaid \subseteq Checkouts
    /\ hooks \subseteq Events /\ recorded \subseteq Events /\ lost \subseteq Events
    /\ hookCalls \in [HookCalls -> HookStates]
    /\ applied \in [Events -> Nat]
    /\ standalone \subseteq Orders /\ orphaned \subseteq Orders
    /\ checkoutFaults \in Nat

\* Whoever is asked to pay an order pays one the backend knows: it has a Transaction,
\* or the call that created it is about to insert one.  The exceptions are the orders
\* of the fallback and those whose creation ended halfway, which a later checkout of
\* the request is given all the same.
Payable == \A c \in Checkouts :
    LET o == checkouts[c].order IN
    At(c, "window") => \/ transaction[o] # "none"
                       \/ \E d \in Checkouts : At(d, "inserting") /\ checkouts[d].order = o
                       \/ o \in standalone \union orphaned

\* A webhook changes its Transaction at most once, however often and how concurrently
\* the provider delivers it.
WebhookOnce == \A e \in Events :
    applied[e] + Cardinality({w \in HookCalls : hookCalls[w] = [at |-> "update", event |-> e]}) <= 1

\* A captured payment reaches the Transaction of its order, although the user's tab
\* was closed before the payment was confirmed and calls died, except for a webhook
\* that was recorded and died before it had an effect, or that came before the
\* Transaction.  (A later webhook of an earlier, declined attempt may still set the
\* Transaction to failed.)
CaptureRecorded == \A o \in Orders :
    LET e == <<o, "payment.captured">> IN orders[o] = "paid" ~> applied[e] > 0 \/ e \in lost
=============================================================================
