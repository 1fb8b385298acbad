--------------------------- MODULE CheckoutProofs ---------------------------
(***************************************************************************)
(* For any number of checkouts, orders and webhook requests, and whatever  *)
(* fails: every order a user is asked to pay is one the backend knows, and *)
(* a webhook changes its Transaction at most once.  The first needs that   *)
(* an order stays known from the save of the request that names it, the    *)
(* second what a webhook request that passed the unique index relies on:   *)
(* that it is the only one, and that nothing was applied before.           *)
(***************************************************************************)
EXTENDS Checkout, FiniteSetTheorems, TLAPS

Known(o) == \/ transaction[o] # "none"
            \/ \E d \in Checkouts : At(d, "inserting") /\ checkouts[d].order = o
            \/ o \in standalone \union orphaned

\* An order that a checkout or the request names is at the provider's side of it.
OrdersKnown ==
    /\ \A c \in Checkouts :
          ~ At(c, "closed") /\ ~ At(c, "ordering") /\ ~ At(c, "creating") /\ ~ At(c, "fallback")
             => checkouts[c].order \in Orders \/ At(c, "finished")
    /\ \A c \in Checkouts : At(c, "window") => Known(checkouts[c].order)
    /\ paymentOrderId # 0 => Known(paymentOrderId)

Updating(w, e) == hookCalls[w] = [at |-> "update", event |-> e]

HooksRecorded ==
    /\ \A w \in HookCalls : hookCalls[w] # NoHook => hookCalls[w].event \in Events
    /\ \A e \in Events : applied[e] \in {0, 1}
    /\ \A e \in Events : applied[e] = 1 => e \in recorded
    /\ \A w \in HookCalls, e \in Events : Updating(w, e) => e \in recorded /\ applied[e] = 0
    /\ \A v, w \in HookCalls, e \in Events : Updating(v, e) /\ Updating(w, e) => v = w

CheckoutInv == CheckoutTypeOK /\ OrdersKnown /\ HooksRecorded

-----------------------------------------------------------------------------

LEMMA CheckoutInitInv == CheckoutInit => CheckoutInv
<1> SUFFICES ASSUME CheckoutInit PROVE CheckoutInv
  OBVIOUS
<1> USE CheckoutAssumption DEF CheckoutInit
<1>1. CheckoutTypeOK
  BY DEF CheckoutTypeOK, CheckoutStates, CheckoutPlaces, HookStates, NoHook
<1>2. OrdersKnown
  BY DEF OrdersKnown, At
<1>3. HooksRecorded
  BY DEF HooksRecorded, Updating, NoHook
<1> QED
  BY <1>1, <1>2, <1>3 DEF CheckoutInv

\* What is known stays known, unless it was only the insert that made it so.
LEMMA KnownKept ==
  ASSUME NEW o \in Orders, Known(o),
         transaction[o] # "none" => transaction'[o] # "none",
         standalone \subseteq standalone', orphaned \subseteq orphaned',
         \A d \in Checkouts : At(d, "inserting") /\ checkouts[d].order = o =>
            \/ At(d, "inserting")' /\ checkouts'[d].order = o
            \/ transaction'[o] # "none"
            \/ o \in orphaned'
  PROVE  Known(o)'
BY DEF Known

\* Where a checkout goes, and with which order, are of their types.
LEMMA GoTyped ==
  ASSUME CheckoutTypeOK, NEW c \in Checkouts, NEW at \in CheckoutPlaces, Go(c, at)
  PROVE  checkouts' \in [Checkouts -> CheckoutStates] /\ purpose' = purpose
BY DEF CheckoutTypeOK, CheckoutStates, Go

LEMMA GoWithTyped ==
  ASSUME CheckoutTypeOK, NEW c \in Checkouts, NEW at \in CheckoutPlaces,
         NEW o \in {0} \union Orders, GoWith(c, at, o)
  PROVE  checkouts' \in [Checkouts -> CheckoutStates] /\ purpose' = purpose
BY DEF CheckoutTypeOK, CheckoutStates, GoWith

\* Finding or creating an order.
LEMMA OrderInv ==
  ASSUME CheckoutInv, NEW c \in Checkouts,
         \/ OpenCheckout(c) \/ FindDraft(c) \/ FindOrder(c) \/ LinkOrder(c)
         \/ InsertTransaction(c) \/ OrderFails(c)
         \/ \E o \in Orders : CreateOrder(c, o) \/ CreateStandaloneOrder(c, o)
  PROVE  CheckoutTypeOK' /\ OrdersKnown'
<1> USE CheckoutAssumption
    DEF CheckoutInv, Orders, clientVars, providerVars, paymentVars, hookVars
<1> DEFINE o == checkouts[c].order
<1>1. CheckoutTypeOK'
  <2> DEFINE Typed == checkouts' \in [Checkouts -> CheckoutStates] /\ purpose' = purpose
  <2>1. CASE OpenCheckout(c)
    <3>1. Typed
      BY <2>1, GoWithTyped DEF OpenCheckout, CheckoutPlaces
    <3> QED
      BY <2>1, <3>1 DEF OpenCheckout, CheckoutTypeOK
  <2>2. CASE FindDraft(c)
    <3>1. Typed
      <4>1. CASE Drafts = {}
        BY <2>2, <4>1, GoTyped DEF FindDraft, CheckoutPlaces
      <4>2. CASE Drafts # {}
        <5>1. PICK p \in Orders : GoWith(c, "window", p)
          BY <2>2, <4>2 DEF FindDraft, Drafts
        <5> QED
          BY <5>1, GoWithTyped DEF CheckoutPlaces
      <4> QED
        BY <4>1, <4>2
    <3> QED
      BY <2>2, <3>1 DEF FindDraft, CheckoutTypeOK
  <2>3. CASE FindOrder(c)
    <3>1. Typed
      <4>1. paymentOrderId \in {0} \union Orders
        BY DEF CheckoutTypeOK
      <4> QED
        BY <2>3, <4>1, GoTyped, GoWithTyped DEF FindOrder, CheckoutPlaces
    <3> QED
      BY <2>3, <3>1 DEF FindOrder, CheckoutTypeOK
  <2>4. CASE LinkOrder(c)
    <3>1. Typed
      BY <2>4, GoTyped DEF LinkOrder, CheckoutPlaces
    <3>2. o \in Orders
      BY <2>4 DEF LinkOrder, OrdersKnown, At
    <3> QED
      BY <2>4, <3>1, <3>2 DEF LinkOrder, CheckoutTypeOK
  <2>5. CASE InsertTransaction(c)
    <3>1. Typed
      BY <2>5, GoTyped DEF InsertTransaction, CheckoutPlaces
    <3> QED
      BY <2>5, <3>1 DEF InsertTransaction, CheckoutTypeOK
  <2>6. CASE OrderFails(c)
    <3>1. Typed
      BY <2>6, GoWithTyped DEF OrderFails, CheckoutPlaces
    <3>2. orphaned' \subseteq Orders
      BY <2>6 DEF OrderFails, OrdersKnown, At, CheckoutTypeOK
    <3> QED
      BY <2>6, <3>1, <3>2 DEF OrderFails, CheckoutFault, CheckoutTypeOK
  <2>7. ASSUME NEW p \in Orders, CreateOrder(c, p) PROVE CheckoutTypeOK'
    <3>1. Typed
      BY <2>7, GoWithTyped DEF CreateOrder, CheckoutPlaces
    <3> QED
      BY <2>7, <3>1 DEF CreateOrder, CheckoutTypeOK
  <2>8. ASSUME NEW p \in Orders, CreateStandaloneOrder(c, p) PROVE CheckoutTypeOK'
    <3>1. Typed
      BY <2>8, GoWithTyped DEF CreateStandaloneOrder, CheckoutPlaces
    <3> QED
      BY <2>8, <3>1 DEF CreateStandaloneOrder, CheckoutTypeOK
  <2> QED
    BY <2>1, <2>2, <2>3, <2>4, <2>5, <2>6, <2>7, <2>8
<1>2. OrdersKnown'
  <2> USE DEF Go, GoWith, At, CheckoutTypeOK, CheckoutStates
  <2>1. /\ \A d \in Checkouts \ {c} : checkouts'[d] = checkouts[d]
        /\ standalone \subseteq standalone' /\ orphaned \subseteq orphaned'
        /\ \A p \in Orders : transaction[p] # "none" => transaction'[p] # "none"
    BY DEF OpenCheckout, FindDraft, FindOrder, LinkOrder, InsertTransaction, OrderFails,
           CreateOrder, CreateStandaloneOrder
  <2>2. At(c, "inserting") => transaction'[o] # "none" \/ o \in orphaned'
    BY DEF OpenCheckout, FindDraft, FindOrder, LinkOrder, InsertTransaction, OrderFails,
           CreateOrder, CreateStandaloneOrder, OrdersKnown
  <2>3. \A p \in Orders : Known(p) => Known(p)'
    BY <2>1, <2>2, KnownKept
  <2>4. ~ At(c, "closed")' /\ ~ At(c, "ordering")' /\ ~ At(c, "creating")' /\ ~ At(c, "fallback")'
           => checkouts'[c].order \in Orders \/ At(c, "finished")'
    BY DEF OpenCheckout, FindDraft, Drafts, FindOrder, LinkOrder, InsertTransaction, OrderFails,
           CreateOrder, CreateStandaloneOrder, OrdersKnown
  <2>5. At(c, "window")' => Known(checkouts[c].order)'
    <3>1. CASE FindDraft(c)
      <4>1. At(c, "window")' => transaction'[checkouts'[c].order] # "none"
        BY <3>1 DEF FindDraft, Drafts
      <4> QED
        BY <4>1 DEF Known
    <3>2. CASE FindOrder(c)
      <4>1. At(c, "window")' => checkouts'[c].order = paymentOrderId /\ paymentOrderId # 0
        BY <3>2 DEF FindOrder
      <4> QED
        BY <4>1, <2>3 DEF OrdersKnown
    <3>3. CASE InsertTransaction(c)
      <4>1. o \in Orders /\ checkouts'[c].order = o
        BY <3>3 DEF InsertTransaction, OrdersKnown
      <4>2. transaction'[o] # "none"
        BY <3>3, <4>1 DEF InsertTransaction
      <4> QED
        BY <4>1, <4>2 DEF Known
    <3>4. ASSUME NEW p \in Orders, CreateStandaloneOrder(c, p) PROVE checkouts'[c].order \in standalone'
      BY <3>4 DEF CreateStandaloneOrder
    <3>5. CASE OpenCheckout(c) \/ LinkOrder(c) \/ OrderFails(c) \/ \E p \in Orders : CreateOrder(c, p)
      BY <3>5 DEF OpenCheckout, LinkOrder, OrderFails, CreateOrder
    <3> QED
      BY <3>1, <3>2, <3>3, <3>4, <3>5 DEF Known
  <2>6. paymentOrderId' # 0 => Known(paymentOrderId)'
    <3>1. CASE LinkOrder(c)
      <4>1. At(c, "inserting")' /\ checkouts'[c].order = paymentOrderId'
        BY <3>1 DEF LinkOrder
      <4> QED
        BY <4>1 DEF Known
    <3>2. CASE ~ LinkOrder(c)
      <4>1. paymentOrderId' = paymentOrderId
        BY <3>2 DEF OpenCheckout, FindDraft, FindOrder, InsertTransaction, OrderFails,
                    CreateOrder, CreateStandaloneOrder
      <4> QED
        BY <4>1, <2>3 DEF OrdersKnown
    <3> QED
      BY <3>1, <3>2
  <2>7. \A d \in Checkouts \ {c} : At(d, "window")' => Known(checkouts[d].order)'
    BY <2>1, <2>3 DEF OrdersKnown
  <2>8. \A d \in Checkouts \ {c} :
           ~ At(d, "closed")' /\ ~ At(d, "ordering")' /\ ~ At(d, "creating")' /\ ~ At(d, "fallback")'
              => checkouts'[d].order \in Orders \/ At(d, "finished")'
    BY <2>1 DEF OrdersKnown
  <2> HIDE DEF CheckoutTypeOK, At
  <2> QED
    BY <2>4, <2>5, <2>6, <2>7, <2>8 DEF OrdersKnown
<1> QED
  BY <1>1, <1>2

\* Paying an order, and confirming the payment.
LEMMA PaymentInv ==
  ASSUME CheckoutInv, NEW c \in Checkouts,
         \/ Decline(c) \/ Capture(c) \/ Dismiss(c) \/ SubmitTrip(c) \/ FindTransaction(c)
         \/ CompleteTransaction(c) \/ MarkPaid(c) \/ AbandonPayment(c)
  PROVE  CheckoutTypeOK' /\ OrdersKnown'
<1> USE CheckoutAssumption
    DEF CheckoutInv, Orders, clientVars, providerVars, paymentVars, hookVars
<1> DEFINE o == checkouts[c].order
<1>1. CheckoutTypeOK'
  <2> DEFINE Typed == checkouts' \in [Checkouts -> CheckoutStates] /\ purpose' = purpose
  <2>1. CASE Decline(c)
    <3>1. o \in Orders
      BY <2>1 DEF Decline, OrdersKnown, At
    <3>2. hooks' \subseteq Events
      BY <2>1, <3>1 DEF Decline, Events, CheckoutTypeOK
    <3> QED
      BY <2>1, <3>2 DEF Decline, CheckoutTypeOK
  <2>2. CASE Capture(c)
    <3>1. Typed
      BY <2>2, GoTyped DEF Capture, CheckoutPlaces
    <3>2. o \in Orders
      BY <2>2 DEF Capture, OrdersKnown, At
    <3>3. hooks' \subseteq Events
      BY <2>2, <3>2 DEF Capture, Events, CheckoutTypeOK
    <3> QED
      BY <2>2, <3>1, <3>3 DEF Capture, CheckoutTypeOK
  <2>3. CASE Dismiss(c)
    <3>1. Typed
      BY <2>3, GoTyped DEF Dismiss, CheckoutPlaces
    <3> QED
      BY <2>3, <3>1 DEF Dismiss, CheckoutTypeOK
  <2>4. CASE SubmitTrip(c)
    <3>1. Typed
      BY <2>4, GoTyped DEF SubmitTrip, CheckoutPlaces
    <3> QED
      BY <2>4, <3>1 DEF SubmitTrip, CheckoutTypeOK
  <2>5. CASE FindTransaction(c)
    <3>1. Typed
      BY <2>5, GoTyped DEF FindTransaction, CheckoutPlaces
    <3> QED
      BY <2>5, <3>1 DEF FindTransaction, CheckoutTypeOK
  <2>6. CASE CompleteTransaction(c)
    <3>1. Typed
      BY <2>6, GoTyped DEF CompleteTransaction, CheckoutPlaces
    <3> QED
      BY <2>6, <3>1 DEF CompleteTransaction, CheckoutTypeOK
  <2>7. CASE MarkPaid(c)
    <3>1. Typed
      BY <2>7, GoTyped DEF MarkPaid, CheckoutPlaces
    <3> QED
      BY <2>7, <3>1 DEF MarkPaid, CheckoutTypeOK
  <2>8. CASE AbandonPayment(c)
    <3>1. Typed
      BY <2>8, GoTyped DEF AbandonPayment, CheckoutPlaces
    <3> QED
      BY <2>8, <3>1 DEF AbandonPayment, CheckoutFault, CheckoutTypeOK
  <2> QED
    BY <2>1, <2>2, <2>3, <2>4, <2>5, <2>6, <2>7, <2>8
<1>2. OrdersKnown'
  <2> USE DEF Go, At, CheckoutTypeOK, CheckoutStates
  <2>1. /\ \A d \in Checkouts : d # c => checkouts'[d] = checkouts[d]
        /\ standalone' = standalone /\ orphaned' = orphaned /\ paymentOrderId' = paymentOrderId
        /\ \A p \in Orders : transaction[p] # "none" => transaction'[p] # "none"
        /\ ~ At(c, "inserting")
        /\ checkouts'[c].order = o
        /\ At(c, "window")' => At(c, "window")
        /\ o \in Orders \/ At(c, "finished")'
    BY DEF Decline, Capture, Dismiss, SubmitTrip, FindTransaction, CompleteTransaction,
           MarkPaid, AbandonPayment, OrdersKnown
  <2>2. \A p \in Orders : Known(p) => Known(p)'
    BY <2>1, KnownKept
  <2>3. \A d \in Checkouts : At(d, "window")' => Known(checkouts[d].order)'
    BY <2>1, <2>2 DEF OrdersKnown
  <2>4. paymentOrderId' # 0 => Known(paymentOrderId)'
    BY <2>1, <2>2 DEF OrdersKnown
  <2> QED
    BY <2>1, <2>3, <2>4 DEF OrdersKnown
<1> QED
  BY <1>1, <1>2

\* Nothing a checkout does concerns the webhooks that were recorded.
LEMMA CheckoutKeepsHooks ==
  ASSUME HooksRecorded, hookCalls' = hookCalls, recorded' = recorded, applied' = applied
  PROVE  HooksRecorded'
BY DEF HooksRecorded, Updating

\* A webhook request.
LEMMA HookInv ==
  ASSUME CheckoutInv, NEW w \in HookCalls,
         (\E e \in Events : DeliverHook(w, e)) \/ RecordHook(w) \/ ApplyHook(w) \/ HookDies(w)
  PROVE  CheckoutInv'
<1> USE CheckoutAssumption
    DEF CheckoutInv, clientVars, providerVars, paymentVars, hookVars, NoHook
<1>1. OrdersKnown'
  <2>1. /\ UNCHANGED <<checkouts, standalone, orphaned, paymentOrderId>>
        /\ \A p \in Orders : transaction[p] # "none" => transaction'[p] # "none"
    BY DEF DeliverHook, RecordHook, ApplyHook, HookDies, CheckoutTypeOK
  <2>2. \A p \in Orders : Known(p) => Known(p)'
    BY <2>1, KnownKept DEF At
  <2>3. \A d \in Checkouts : At(d, "window") => checkouts[d].order \in Orders
    BY DEF OrdersKnown, At
  <2>4. \A d \in Checkouts : At(d, "window")' => Known(checkouts[d].order)'
    BY <2>1, <2>2, <2>3 DEF OrdersKnown, At
  <2>5. paymentOrderId' # 0 => Known(paymentOrderId)'
    BY <2>1, <2>2 DEF OrdersKnown, CheckoutTypeOK
  <2> QED
    BY <2>1, <2>4, <2>5 DEF OrdersKnown, At
<1>2. CheckoutTypeOK' /\ HooksRecorded'
  <2> DEFINE e == hookCalls[w].event
  <2>1. ASSUME NEW f \in Events, DeliverHook(w, f) PROVE CheckoutTypeOK' /\ HooksRecorded'
    <3>1. hookCalls' = [hookCalls EXCEPT ![w] = [at |-> "record", event |-> f]]
      BY <2>1 DEF DeliverHook
    <3>2. hookCalls' \in [HookCalls -> HookStates]
      BY <3>1 DEF CheckoutTypeOK, HookStates
    <3>3. CheckoutTypeOK'
      BY <2>1, <3>2 DEF DeliverHook, CheckoutTypeOK
    <3>4. HooksRecorded'
      BY <2>1, <3>1 DEF DeliverHook, HooksRecorded, Updating, CheckoutTypeOK
    <3> QED
      BY <3>3, <3>4
  <2>2. CASE RecordHook(w)
    <3>1. e \in Events /\ hookCalls[w].at = "record"
      BY <2>2 DEF RecordHook, HooksRecorded
    <3>2. CASE e \in recorded
      <4>1. /\ hookCalls' = [hookCalls EXCEPT ![w] = NoHook]
            /\ recorded' = recorded /\ applied' = applied /\ hooks' \subseteq hooks
        BY <2>2, <3>2 DEF RecordHook
      <4>2. hookCalls' \in [HookCalls -> HookStates]
        BY <4>1 DEF CheckoutTypeOK, HookStates
      <4>3. CheckoutTypeOK'
        BY <2>2, <4>1, <4>2 DEF RecordHook, CheckoutTypeOK
      <4>4. HooksRecorded'
        BY <4>1 DEF HooksRecorded, Updating, CheckoutTypeOK
      <4> QED
        BY <4>3, <4>4
    <3>3. CASE e \notin recorded
      <4>1. /\ hookCalls' = [hookCalls EXCEPT ![w].at = "update"]
            /\ recorded' = recorded \union {e} /\ applied' = applied /\ hooks' = hooks
        BY <2>2, <3>3 DEF RecordHook
      <4>2. hookCalls' \in [HookCalls -> HookStates] /\ hookCalls'[w] = [at |-> "update", event |-> e]
        BY <4>1 DEF CheckoutTypeOK, HookStates
      <4>3. CheckoutTypeOK'
        BY <2>2, <3>1, <4>1, <4>2 DEF RecordHook, CheckoutTypeOK
      <4>4. HooksRecorded'
        BY <3>1, <3>3, <4>1, <4>2 DEF HooksRecorded, Updating, CheckoutTypeOK
      <4> QED
        BY <4>3, <4>4
    <3> QED
      BY <3>2, <3>3
  <2>3. CASE ApplyHook(w)
    <3>1. /\ e \in Events /\ e \in recorded /\ applied[e] = 0
          /\ \A v \in HookCalls : Updating(v, e) => v = w
      <4>1. e \in Events
        BY <2>3 DEF ApplyHook, HooksRecorded
      <4>2. Updating(w, e)
        BY <2>3 DEF ApplyHook, Updating, CheckoutTypeOK, HookStates
      <4> QED
        BY <4>1, <4>2 DEF HooksRecorded
    <3>2. /\ hookCalls' = [hookCalls EXCEPT ![w] = NoHook]
          /\ recorded' = recorded
          /\ applied' = applied \/ applied' = [applied EXCEPT ![e] = @ + 1]
      BY <2>3 DEF ApplyHook
    <3>3. applied' \in [Events -> Nat] /\ lost' \subseteq Events /\ hooks' \subseteq Events
      BY <2>3, <3>1, <3>2 DEF ApplyHook, CheckoutTypeOK
    <3>4. transaction' \in [Orders -> {"none", "initiated", "completed", "failed"}]
      BY <2>3 DEF ApplyHook, CheckoutTypeOK
    <3>5. hookCalls' \in [HookCalls -> HookStates]
      BY <3>2 DEF CheckoutTypeOK, HookStates
    <3>6. CheckoutTypeOK'
      BY <2>3, <3>2, <3>3, <3>4, <3>5 DEF ApplyHook, CheckoutTypeOK
    <3>7. /\ hookCalls'[w] = NoHook
          /\ \A v \in HookCalls : v # w => hookCalls'[v] = hookCalls[v]
          /\ \A f \in Events : f # e => applied'[f] = applied[f]
          /\ applied'[e] \in {0, 1}
      BY <3>1, <3>2 DEF CheckoutTypeOK
    <3>8. \A v \in HookCalls, f \in Events : Updating(v, f)' => f # e /\ Updating(v, f)
      BY <3>1, <3>7 DEF Updating
    <3>9. HooksRecorded'
      BY <3>1, <3>2, <3>7, <3>8 DEF HooksRecorded
    <3> QED
      BY <3>6, <3>9
  <2>4. CASE HookDies(w)
    <3>1. hookCalls' = [hookCalls EXCEPT ![w] = NoHook] /\ recorded' = recorded /\ applied' = applied
      BY <2>4 DEF HookDies
    <3>2. lost' \subseteq Events
      BY <2>4 DEF HookDies, CheckoutTypeOK, HooksRecorded
    <3>3. hookCalls' \in [HookCalls -> HookStates]
      BY <3>1 DEF CheckoutTypeOK, HookStates
    <3>4. CheckoutTypeOK'
      BY <2>4, <3>1, <3>2, <3>3 DEF HookDies, CheckoutFault, CheckoutTypeOK
    <3>5. HooksRecorded'
      BY <3>1 DEF HooksRecorded, Updating, CheckoutTypeOK
    <3> QED
      BY <3>4, <3>5
  <2> QED
    BY <2>1, <2>2, <2>3, <2>4
<1> QED
  BY <1>1, <1>2

LEMMA CheckoutStepInv ==
  ASSUME CheckoutInv, [CheckoutNext]_checkoutVars
  PROVE  CheckoutInv'
<1>1. ASSUME NEW c \in Checkouts,
             \/ OpenCheckout(c) \/ CheckoutStep(c) \/ OrderFails(c)
             \/ Decline(c) \/ Capture(c) \/ Dismiss(c) \/ AbandonPayment(c)
      PROVE  CheckoutInv'
  <2>1. CheckoutTypeOK' /\ OrdersKnown'
    BY <1>1, OrderInv, PaymentInv DEF CheckoutStep
  <2>2. hookCalls' = hookCalls /\ recorded' = recorded /\ applied' = applied
    BY <1>1 DEF CheckoutStep, OpenCheckout, FindDraft, FindOrder, LinkOrder, InsertTransaction,
                OrderFails, CreateOrder, CreateStandaloneOrder, Decline, Capture, Dismiss,
                SubmitTrip, FindTransaction, CompleteTransaction, MarkPaid, AbandonPayment,
                hookVars
  <2> QED
    BY <2>1, <2>2, CheckoutKeepsHooks DEF CheckoutInv
<1>2. CASE UNCHANGED checkoutVars
  <2> USE <1>2 DEF checkoutVars, clientVars, providerVars, paymentVars, hookVars
  <2>1. CheckoutTypeOK'
    BY DEF CheckoutInv, CheckoutTypeOK
  <2>2. OrdersKnown'
    BY DEF CheckoutInv, OrdersKnown, Known, At
  <2>3. HooksRecorded'
    BY CheckoutKeepsHooks DEF CheckoutInv
  <2> QED
    BY <2>1, <2>2, <2>3 DEF CheckoutInv
<1> QED
  BY <1>1, <1>2, HookInv DEF CheckoutNext

LEMMA CheckoutInvariance == CheckoutSpec => []CheckoutInv
  BY CheckoutInitInv, CheckoutStepInv, PTL DEF CheckoutSpec

-----------------------------------------------------------------------------

\* Checkouts of one user that run at once, fail or are tried again are given orders
\* that the backend can confirm, apart from those Payable names.
THEOREM OrdersPayable == CheckoutSpec => []Payable
<1>1. CheckoutInv => Payable
  BY DEF CheckoutInv, OrdersKnown, Payable, Known, At
<1> QED
  BY <1>1, CheckoutInvariance, PTL

\* The unique index of ProcessedWebhook lets one delivery of a webhook through to its
\* Transaction, and that one once.
THEOREM WebhookAtMostOnce == CheckoutSpec => []WebhookOnce
<1>1. ASSUME CheckoutInv, NEW e \in Events
      PROVE  applied[e] + Cardinality({w \in HookCalls : Updating(w, e)}) <= 1
  <2> DEFINE U == {w \in HookCalls : Updating(w, e)}
  <2>1. applied[e] \in {0, 1} /\ (U # {} => applied[e] = 0)
    BY <1>1 DEF CheckoutInv, HooksRecorded
  <2>2. CASE U = {}
    BY <2>1, <2>2, FS_EmptySet
  <2>3. CASE U # {}
    <3>1. PICK w \in HookCalls : U = {w}
      BY <1>1, <2>3 DEF CheckoutInv, HooksRecorded
    <3>2. Cardinality(U) = 1
      BY <3>1, FS_Singleton
    <3> QED
      BY <2>1, <2>3, <3>2
  <2> QED
    BY <2>2, <2>3
<1>2. CheckoutInv => WebhookOnce
  BY <1>1 DEF WebhookOnce, Updating
<1> QED
  BY <1>2, CheckoutInvariance, PTL
=============================================================================
