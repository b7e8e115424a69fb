------------------------ MODULE SubscriptionPurchase ------------------------
(***************************************************************************)
(* What buying a subscription promises, without a word about requests,     *)
(* webhooks or rows: each payment is unpaid, then paid at the gateway, then *)
(* the subscription is active, invoiced and recorded as captured, all in   *)
(* one step, and never undone.  PaymentCapture implements it.              *)
(***************************************************************************)
CONSTANT Payments

VARIABLE state      \* for each payment "unpaid", "paid" or "active"

Init == state = [p \in Payments |-> "unpaid"]

\* The buyer completes the checkout at the gateway.
Pay(p) ==
    /\ state[p] = "unpaid"
    /\ state' = [state EXCEPT ![p] = "paid"]

\* Capture, activation and invoice.
Settle(p) ==
    /\ state[p] = "paid"
    /\ state' = [state EXCEPT ![p] = "active"]

Next == \E p \in Payments : Pay(p) \/ Settle(p)

Spec == Init /\ [][Next]_state
=============================================================================
