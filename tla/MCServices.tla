----------------------------- MODULE MCServices -----------------------------
(***************************************************************************)
(* The components around the delivery itself, checked in one run: each      *)
(* behaviour picks a focus and moves the one component it is about, the     *)
(* others stay as they were initialised.  The bounds of a focus cut what a  *)
(* user or a fault may do, never what the fairness of a component is about. *)
(***************************************************************************)
EXTENDS Checkout, SearchIndex, Session, Realtime, RouteInput, Runtime, Account

CONSTANTS left, right, q1, q2, q3, carl, sue

MCCarrierOf == [d \in Deliveries |-> carl]
MCSenderOf  == [d \in Deliveries |-> sue]
MCTabOf == [q \in Calls |-> IF q = q3 THEN right ELSE left]

VARIABLE focus

servicesVars == <<checkoutVars, indexVars, sessionVars, realtimeVars,
                  routeVars, runtimeVars, accountVars, focus>>

Foci == {"orders", "webhooks", "index", "session", "notices",
         "locations", "input", "runtime", "account"}

ServicesInit ==
    /\ focus \in Foci
    /\ CheckoutInit /\ SearchIndexInit /\ SessionInit
    /\ RealtimeInit /\ RouteInputInit /\ RuntimeInit /\ AccountInit
    \* the choices of an initial state, where they are not about the focus
    /\ focus \notin {"orders"} => purpose = "delivery"

-----------------------------------------------------------------------------
InCheckout == focus \in {"orders", "webhooks"}
InRealtime == focus \in {"notices", "locations"}

\* Orders of several checkouts, or the webhooks of one order.
CheckoutFocus ==
    \/ /\ focus = "orders" /\ hookCalls'[2] = NoHook
       /\ \A o \in Orders : <<o, "payment.failed">> \notin hooks'
    \/ focus = "webhooks" /\ orders'[2] = "none"

\* Three of what may happen to a session, of either kind.
SessionFocus == expiries' + endings' <= 3

\* Notifications, or locations.
RealtimeFocus ==
    \/ focus = "notices" /\ updates' = <<>>
    \/ focus = "locations" /\ notes' = notes

\* The carrier sets up; both sides rate.
AccountFocus == \A c \in AccountCalls : handlers'[c].about # sue

ServicesNext ==
    /\ UNCHANGED focus
    /\ \/ /\ InCheckout /\ CheckoutNext /\ CheckoutFocus
          /\ UNCHANGED <<indexVars, sessionVars, realtimeVars, routeVars, runtimeVars, accountVars>>
       \/ /\ focus = "index" /\ SearchIndexNext
          /\ UNCHANGED <<checkoutVars, sessionVars, realtimeVars, routeVars, runtimeVars, accountVars>>
       \/ /\ focus = "session" /\ SessionNext /\ SessionFocus
          /\ UNCHANGED <<checkoutVars, indexVars, realtimeVars, routeVars, runtimeVars, accountVars>>
       \/ /\ InRealtime /\ RealtimeNext /\ RealtimeFocus
          /\ UNCHANGED <<checkoutVars, indexVars, sessionVars, routeVars, runtimeVars, accountVars>>
       \/ /\ focus = "input" /\ RouteInputNext
          /\ UNCHANGED <<checkoutVars, indexVars, sessionVars, realtimeVars, runtimeVars, accountVars>>
       \/ /\ focus = "runtime" /\ RuntimeNext
          /\ UNCHANGED <<checkoutVars, indexVars, sessionVars, realtimeVars, routeVars, accountVars>>
       \/ /\ focus = "account" /\ AccountNext /\ AccountFocus
          /\ UNCHANGED <<checkoutVars, indexVars, sessionVars, realtimeVars, routeVars, runtimeVars>>

\* The fairness of each component, asked for in its focus.
ServicesFairness ==
    /\ \A e \in Events : WF_checkoutVars(InCheckout /\ \E w \in HookCalls : DeliverHook(w, e))
    /\ \A w \in HookCalls : WF_checkoutVars(InCheckout /\ (RecordHook(w) \/ ApplyHook(w)))
    /\ \A q \in Queues : WF_indexVars(focus = "index" /\ \E u \in Upserts : Consume(u, q))
    /\ \A u \in Upserts : WF_indexVars(focus = "index" /\ UpsertStep(u))
    /\ \A q \in Calls : WF_sessionVars(focus = "session" /\ CallStep(q))
    /\ WF_realtimeVars(InRealtime /\ \E k \in Consumers : TakeMessage(k))
    /\ \A k \in Consumers : WF_realtimeVars(InRealtime /\ ConsumerStep(k))
    /\ WF_routeVars(focus = "input" /\ SearchText) /\ WF_routeVars(focus = "input" /\ Fetched)
    /\ WF_runtimeVars(focus = "runtime" /\ ForcedExit)

ServicesSpec == ServicesInit /\ [][ServicesNext]_servicesVars /\ ServicesFairness

\* The type invariants of all components.
ServicesTypeOK ==
    /\ CheckoutTypeOK /\ SearchIndexTypeOK /\ SessionTypeOK
    /\ RealtimeTypeOK /\ RouteInputTypeOK /\ RuntimeTypeOK /\ AccountTypeOK
=============================================================================
