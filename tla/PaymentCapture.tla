--------------------------- MODULE PaymentCapture ---------------------------
(***************************************************************************)
(* How money paid at the gateway becomes something the buyer owns:         *)
(* PaymentService and the webhook controller (apps/api/src/modules/payment)*)
(* with what they call in membership, billing, escrow and order.           *)
(*                                                                         *)
(* Every handler reads the Payment row, checks it, and writes later, with  *)
(* no lock and no status in the WHERE of the write.  A request in flight is*)
(* therefore a value of "call" that remembers what it read; one action     *)
(* reads and checks, and one action per database statement or transaction  *)
(* writes.  The checkout's verify request, the gateway's webhook (delivered*)
(* at least once), retries, refunds and cancellations interleave freely.   *)
(***************************************************************************)
EXTENDS Naturals, FiniteSets

CONSTANTS
    Payments,       \* the rows the Payment table may come to hold
    Calls,          \* requests and deliveries served at the same time
    Kinds,          \* the PaymentType values that are bought
    GenericKinds,   \* those of them whose client posts to payments/verify
    EventIds,       \* whether a delivered body has an id: a set of booleans
    Price,          \* Payment.amount, in units of the smallest refund
    MaxDeclines,    \* bound: declined attempts at the gateway, per order
    MaxFailures     \* bound: requests that die between two of their writes

AllKinds == {"SUBSCRIPTION", "CREDIT_PACK_PURCHASE", "ORDER_PAYMENT"}

ASSUME ConstantsAssumption ==
    /\ Kinds \subseteq AllKinds
    /\ GenericKinds \subseteq Kinds
    /\ EventIds \subseteq BOOLEAN
    /\ Price \in Nat \ {0}
    /\ MaxDeclines \in Nat
    /\ MaxFailures \in Nat

VARIABLES
    payment,    \* the Payment rows: status, type, whether notes carry the plan
                \* and whether gatewayPaymentId is set
    granted,    \* SubscriptionEvent or RfqCreditLedger rows naming a payment
    invoice,    \* the payments that have an Invoice row (paymentId is unique)
    refunded,   \* sum of the Refund rows of a payment
    order,      \* status of the one Order that ORDER_PAYMENT rows pay for
    escrow,     \* status of that order's Escrow row (orderId is unique)
    gateway,    \* the gateway's own books: paid, returned, declined attempts
    inbox,      \* webhook events the gateway has not had a 2xx answer for
    processed,  \* ProcessedWebhookEvent rows (eventId is unique)
    call,       \* what each request in flight has read and does next
    failures    \* requests that have died so far

vars == <<payment, granted, invoice, refunded, order, escrow, gateway, inbox,
          processed, call, failures>>

rows == <<payment, granted, invoice, refunded, order, escrow>>

-----------------------------------------------------------------------------
Statuses == {"ABSENT", "PENDING", "CAPTURED", "FAILED", "REFUNDED",
             "PARTIALLY_REFUNDED"}
PaymentRow == [status: Statuses, kind: AllKinds, planned: BOOLEAN,
               gatewayPaymentId: BOOLEAN]
OrderStatuses == {"PENDING", "CONFIRMED", "CANCELLED", "RETURNED"}
EscrowStatuses == {"NONE", "HELD", "REFUNDED"}
GatewayOrder == [paid: BOOLEAN, returned: 0..Price, declines: 0..MaxDeclines]
Event == [name: {"payment.captured", "payment.failed"}, pay: Payments,
          attempt: 0..MaxDeclines, id: BOOLEAN]

Idle == [op |-> "idle"]
Call ==
    {Idle}
    \cup [op: {"create"}, kind: AllKinds, planned: BOOLEAN]
    \cup [op: {"retry"}, pay: Payments]
    \cup [op: {"verify"}, pay: Payments,
          at: {"capture", "fulfil", "hold", "invoice"}]
    \cup [op: {"verifySubscription"}, pay: Payments]
    \cup [op: {"webhook"}, event: Event, at: {"commit", "log", "relog"}]
    \cup [op: {"refund"}, pay: Payments, amount: 1..Price, before: 0..Price]
    \cup [op: {"cancel"}]

Status(p) == payment[p].status
HasMoney(p) == Status(p) \in {"CAPTURED", "REFUNDED", "PARTIALLY_REFUNDED"}
Unused == {p \in Payments : Status(p) = "ABSENT"}

\* A row as payment.create inserts it; its gateway order was made just before.
NewRow(kind, planned) ==
    [status |-> "PENDING", kind |-> kind, planned |-> planned,
     gatewayPaymentId |-> FALSE]

\* payment.update by id: whatever the status is by now, it becomes CAPTURED.
Captured(p) == [payment EXCEPT ![p].status = "CAPTURED",
                               ![p].gatewayPaymentId = TRUE]

Begin(c, next) == call[c] = Idle /\ call' = [call EXCEPT ![c] = next]
Goto(c, label) == call' = [call EXCEPT ![c].at = label]
Answer(c) == call' = [call EXCEPT ![c] = Idle]
At(c, op, label) == call[c].op = op /\ call[c].at = label

Init ==
    /\ payment = [p \in Payments |->
                    [status |-> "ABSENT", kind |-> CHOOSE k \in AllKinds : TRUE,
                     planned |-> FALSE, gatewayPaymentId |-> FALSE]]
    /\ granted = [p \in Payments |-> 0]
    /\ invoice = {}
    /\ refunded = [p \in Payments |-> 0]
    /\ order = "PENDING"
    /\ escrow = "NONE"
    /\ gateway = [p \in Payments |-> [paid |-> FALSE, returned |-> 0, declines |-> 0]]
    /\ inbox = {}
    /\ processed = {}
    /\ call = [c \in Calls |-> Idle]
    /\ failures = 0

-----------------------------------------------------------------------------
(* Buying: createPaymentOrder and createSubscriptionGatewayOrder answer with *)
(* the open payment when there is one; otherwise they make a gateway order   *)
(* and then insert the row.  Nothing looks at payments already captured.     *)

\* Bound: no more inserts are begun than the table has rows left for.
RoomForARow ==
    Cardinality({c \in Calls : call[c].op \in {"create", "retry"}})
        < Cardinality(Unused)

Open(kind) == \E p \in Payments : Status(p) = "PENDING" /\ payment[p].kind = kind

\* createPaymentOrder: a subscription bought here is looked up by nobody and
\* its notes name no plan.
CreateBegin(c, kind) ==
    /\ kind \in GenericKinds
    /\ kind # "SUBSCRIPTION" => ~Open(kind)
    /\ RoomForARow
    /\ Begin(c, [op |-> "create", kind |-> kind, planned |-> FALSE])
    /\ UNCHANGED <<rows, gateway, inbox, processed, failures>>

CreateSubscriptionBegin(c) ==
    /\ "SUBSCRIPTION" \in Kinds
    /\ ~Open("SUBSCRIPTION")
    /\ RoomForARow
    /\ Begin(c, [op |-> "create", kind |-> "SUBSCRIPTION", planned |-> TRUE])
    /\ UNCHANGED <<rows, gateway, inbox, processed, failures>>

CreateInsert(c) ==
    /\ call[c].op = "create"
    /\ \E p \in Unused :
        payment' = [payment EXCEPT ![p] = NewRow(call[c].kind, call[c].planned)]
    /\ Answer(c)
    /\ UNCHANGED <<granted, invoice, refunded, order, escrow, gateway, inbox,
                   processed, failures>>

\* retryPaymentOrder: a FAILED payment gets a fresh row whose notes are only
\* {retryOf}: the plan bought is no longer in them.
RetryBegin(c, p) ==
    /\ Status(p) = "FAILED"
    /\ RoomForARow
    /\ Begin(c, [op |-> "retry", pay |-> p])
    /\ UNCHANGED <<rows, gateway, inbox, processed, failures>>

RetryInsert(c) ==
    /\ call[c].op = "retry"
    /\ \E p \in Unused :
        payment' = [payment EXCEPT ![p] = NewRow(payment[call[c].pay].kind, FALSE)]
    /\ Answer(c)
    /\ UNCHANGED <<granted, invoice, refunded, order, escrow, gateway, inbox,
                   processed, failures>>

-----------------------------------------------------------------------------
(* The gateway (external): an attempt is declined or pays the order, once.   *)

GatewayDecline(p) ==
    /\ Status(p) # "ABSENT" /\ ~gateway[p].paid
    /\ gateway[p].declines < MaxDeclines
    /\ gateway' = [gateway EXCEPT ![p].declines = @ + 1]
    /\ \E id \in EventIds :
        inbox' = inbox \cup {[name |-> "payment.failed", pay |-> p,
                              attempt |-> gateway[p].declines, id |-> id]}
    /\ UNCHANGED <<rows, processed, call, failures>>

GatewayCapture(p) ==
    /\ Status(p) # "ABSENT" /\ ~gateway[p].paid
    /\ gateway' = [gateway EXCEPT ![p].paid = TRUE]
    /\ \E id \in EventIds :
        inbox' = inbox \cup {[name |-> "payment.captured", pay |-> p,
                              attempt |-> 0, id |-> id]}
    /\ UNCHANGED <<rows, processed, call, failures>>

-----------------------------------------------------------------------------
(* verifyPayment, the generic checkout: capture first, then fulfil, each     *)
(* write a statement or transaction of its own.                              *)

VerifyBegin(c, p) ==
    /\ payment[p].kind \in GenericKinds
    /\ Status(p) = "PENDING"
    /\ gateway[p].paid          \* else the signature does not verify
    /\ Begin(c, [op |-> "verify", pay |-> p, at |-> "capture"])
    /\ UNCHANGED <<rows, gateway, inbox, processed, failures>>

VerifyCapture(c) ==
    /\ At(c, "verify", "capture")
    /\ payment' = Captured(call[c].pay)
    /\ Goto(c, "fulfil")
    /\ UNCHANGED <<granted, invoice, refunded, order, escrow, gateway, inbox,
                   processed, failures>>

VerifyConfirmOrder(c) ==
    /\ At(c, "verify", "fulfil")
    /\ payment[call[c].pay].kind = "ORDER_PAYMENT"
    /\ order' = "CONFIRMED"
    /\ Goto(c, "hold")
    /\ UNCHANGED <<payment, granted, invoice, refunded, escrow, gateway, inbox,
                   processed, failures>>

\* Mutant: hold forgets to look for an existing escrow.
VerifyHoldEscrow_NoLookup(c) ==
    /\ At(c, "verify", "hold")
    /\ escrow' = "HELD"
    /\ Goto(c, "invoice")
    /\ UNCHANGED <<payment, granted, invoice, refunded, order, gateway, inbox,
                   processed, failures>>

\* EscrowService.hold; "Escrow already exists" and every other error is logged
\* and swallowed.
VerifyHoldEscrow(c) ==
    /\ At(c, "verify", "hold")
    /\ escrow' = IF escrow = "NONE" THEN "HELD" ELSE escrow
    /\ Goto(c, "invoice")
    /\ UNCHANGED <<payment, granted, invoice, refunded, order, gateway, inbox,
                   processed, failures>>

\* Mutant: the credit branch returns before generateInvoice.
VerifyGrantCredits_NoInvoice(c) ==
    /\ At(c, "verify", "fulfil")
    /\ payment[call[c].pay].kind = "CREDIT_PACK_PURCHASE"
    /\ granted' = [granted EXCEPT ![call[c].pay] = 1]
    /\ Answer(c)
    /\ UNCHANGED <<payment, invoice, refunded, order, escrow, gateway, inbox,
                   processed, failures>>

\* The ledger row is unique per (company, type, payment): a second grant throws
\* and the request ends without an invoice.
VerifyGrantCredits(c) ==
    /\ At(c, "verify", "fulfil")
    /\ payment[call[c].pay].kind = "CREDIT_PACK_PURCHASE"
    /\ IF granted[call[c].pay] = 0
         THEN /\ granted' = [granted EXCEPT ![call[c].pay] = 1]
              /\ Goto(c, "invoice")
         ELSE /\ Answer(c)
              /\ UNCHANGED granted
    /\ UNCHANGED <<payment, invoice, refunded, order, escrow, gateway, inbox,
                   processed, failures>>

\* activateSubscription without a transaction client: company, event and
\* history rows are committed before the invoice is tried.
VerifyActivate(c) ==
    /\ At(c, "verify", "fulfil")
    /\ payment[call[c].pay].kind = "SUBSCRIPTION"
    /\ granted' = [granted EXCEPT ![call[c].pay] = @ + 1]
    /\ Goto(c, "invoice")
    /\ UNCHANGED <<payment, invoice, refunded, order, escrow, gateway, inbox,
                   processed, failures>>

\* generateInvoice or createSubscriptionInvoice: a payment that has an invoice
\* makes the insert throw; either way the request is over.
VerifyInvoice(c) ==
    /\ At(c, "verify", "invoice")
    /\ invoice' = invoice \cup {call[c].pay}
    /\ Answer(c)
    /\ UNCHANGED <<payment, granted, refunded, order, escrow, gateway, inbox,
                   processed, failures>>

-----------------------------------------------------------------------------
(* verifySubscriptionPayment: capture, activation and invoice commit together.*)

VerifySubscriptionBegin(c, p) ==
    /\ payment[p].kind = "SUBSCRIPTION"
    /\ Status(p) = "PENDING"
    /\ gateway[p].paid
    /\ Begin(c, [op |-> "verifySubscription", pay |-> p])
    /\ UNCHANGED <<rows, gateway, inbox, processed, failures>>

\* The effect of activateSubscription(..., tx) on top of the capture.
CaptureAndActivate(p) ==
    /\ payment' = Captured(p)
    /\ granted' = [granted EXCEPT ![p] = @ + 1]
    /\ invoice' = invoice \cup {p}

\* Mutant: the capture commits alone and the activation that follows is lost,
\* as before the P0-2 remediation.
VerifySubscriptionCommit_CaptureFirst(c) ==
    /\ call[c].op = "verifySubscription"
    /\ Answer(c)
    /\ payment' = Captured(call[c].pay)
    /\ UNCHANGED <<granted, invoice>>
    /\ UNCHANGED <<refunded, order, escrow, gateway, inbox, processed, failures>>

VerifySubscriptionCommit(c) ==
    /\ call[c].op = "verifySubscription"
    /\ Answer(c)
    /\ IF call[c].pay \in invoice       \* Invoice.paymentId is unique: rollback
         THEN UNCHANGED <<payment, granted, invoice>>
         ELSE CaptureAndActivate(call[c].pay)
    /\ UNCHANGED <<refunded, order, escrow, gateway, inbox, processed, failures>>

-----------------------------------------------------------------------------
(* The webhook: the controller, then handleWebhookEvent.  An event leaves the *)
(* inbox when it is answered with 2xx; an exception leaves it for redelivery. *)

\* Mutant: no look-up of the event id before the work.
WebhookBegin_NoDedup(c, e) ==
    /\ e \in inbox
    /\ Begin(c, [op |-> "webhook", event |-> e, at |->
         IF payment[e.pay].gatewayPaymentId THEN "log" ELSE "commit"])
    /\ UNCHANGED <<rows, gateway, inbox, processed, failures>>

WebhookBegin(c, e) ==
    /\ e \in inbox
    /\ IF e.id /\ e \in processed
         THEN /\ inbox' = inbox \ {e}               \* "Event already processed"
              /\ call[c] = Idle
              /\ UNCHANGED call
         ELSE /\ inbox' = inbox
              /\ Begin(c, [op |-> "webhook", event |-> e, at |->
                   CASE e.name = "payment.failed" -> "commit"
                     [] e.name = "payment.captured"
                          /\ payment[e.pay].gatewayPaymentId -> "relog"
                     [] e.name = "payment.captured"
                          /\ ~payment[e.pay].gatewayPaymentId
                          /\ Status(e.pay) = "PENDING" -> "commit"
                     [] OTHER -> "log"])
    /\ UNCHANGED <<rows, gateway, processed, failures>>

\* Mutant: the failure is written by order id alone.
WebhookFail_AnyStatus(c) ==
    /\ At(c, "webhook", "commit")
    /\ call[c].event.name = "payment.failed"
    /\ payment' = [payment EXCEPT ![call[c].event.pay].status = "FAILED"]
    /\ Goto(c, "log")
    /\ UNCHANGED <<granted, invoice, refunded, order, escrow, gateway, inbox,
                   processed, failures>>

\* updateMany with status PENDING in its WHERE: the one conditional write here.
WebhookFail(c) ==
    /\ At(c, "webhook", "commit")
    /\ call[c].event.name = "payment.failed"
    /\ LET p == call[c].event.pay IN
         payment' = IF Status(p) = "PENDING"
                      THEN [payment EXCEPT ![p].status = "FAILED"] ELSE payment
    /\ Goto(c, "log")
    /\ UNCHANGED <<granted, invoice, refunded, order, escrow, gateway, inbox,
                   processed, failures>>

\* Mutant: activation reuses an invoice it finds instead of failing on it.
WebhookConflicts_CreditsOnly(p) ==
    payment[p].kind = "CREDIT_PACK_PURCHASE" /\ granted[p] > 0

\* A unique row already exists, so the webhook's transaction cannot commit.
WebhookConflicts(p) ==
    \/ payment[p].kind = "SUBSCRIPTION" /\ payment[p].planned /\ p \in invoice
    \/ payment[p].kind = "CREDIT_PACK_PURCHASE" /\ granted[p] > 0

\* Capture, grant and invoice in one transaction, for the row read as PENDING.
WebhookCapture(c) ==
    /\ At(c, "webhook", "commit")
    /\ call[c].event.name = "payment.captured"
    /\ LET p == call[c].event.pay
           grants == \/ payment[p].kind = "SUBSCRIPTION" /\ payment[p].planned
                     \/ payment[p].kind = "CREDIT_PACK_PURCHASE"
       IN  IF WebhookConflicts(p)
             THEN /\ Answer(c)
                  /\ UNCHANGED <<payment, granted, invoice>>
             ELSE /\ payment' = Captured(p)
                  /\ granted' = IF grants THEN [granted EXCEPT ![p] = @ + 1]
                                          ELSE granted
                  /\ invoice' = invoice \cup {p}
                  /\ Goto(c, "log")
    /\ UNCHANGED <<refunded, order, escrow, gateway, inbox, processed, failures>>

\* processedWebhookEvent.create, by the service ("log") and then again by the
\* controller ("relog"); eventId is unique, so a second insert throws.
WebhookLog(c) ==
    /\ call[c].op = "webhook" /\ call[c].at \in {"log", "relog"}
    /\ LET e == call[c].event IN
         IF e.id /\ e \in processed
           THEN Answer(c) /\ UNCHANGED <<inbox, processed>>
           ELSE /\ processed' = IF e.id THEN processed \cup {e} ELSE processed
                /\ IF call[c].at = "log"
                     THEN Goto(c, "relog") /\ UNCHANGED inbox
                     ELSE Answer(c) /\ inbox' = inbox \ {e}
    /\ UNCHANGED <<rows, gateway, failures>>

-----------------------------------------------------------------------------
(* createRefund.  The gateway (external) refuses to return more than was paid.*)

\* Mutant: no one compares the amount with what is left.
RefundBegin_NoLimit(c, p, amount) ==
    /\ Status(p) = "CAPTURED"
    /\ gateway' = [gateway EXCEPT ![p].returned = @ + amount]
    /\ Begin(c, [op |-> "refund", pay |-> p, amount |-> amount,
                 before |-> refunded[p]])
    /\ UNCHANGED <<rows, inbox, processed, failures>>

RefundBegin(c, p, amount) ==
    /\ Status(p) = "CAPTURED"
    /\ refunded[p] + amount =< Price
    /\ gateway[p].returned + amount =< Price
    /\ gateway' = [gateway EXCEPT ![p].returned = @ + amount]
    /\ Begin(c, [op |-> "refund", pay |-> p, amount |-> amount,
                 before |-> refunded[p]])
    /\ UNCHANGED <<rows, inbox, processed, failures>>

\* Mutant: every refund is taken for a full one.
RefundCommit_AlwaysFull(c) ==
    /\ call[c].op = "refund"
    /\ LET p == call[c].pay
       IN  /\ refunded' = [refunded EXCEPT ![p] = @ + call[c].amount]
           /\ payment' = [payment EXCEPT ![p].status = "REFUNDED"]
    /\ Answer(c)
    /\ UNCHANGED <<granted, invoice, order, escrow, gateway, inbox, processed,
                   failures>>

RefundCommit(c) ==
    /\ call[c].op = "refund"
    /\ LET p == call[c].pay
           full == call[c].before + call[c].amount >= Price
       IN  /\ refunded' = [refunded EXCEPT ![p] = @ + call[c].amount]
           /\ payment' = [payment EXCEPT ![p].status =
                            IF full THEN "REFUNDED" ELSE "PARTIALLY_REFUNDED"]
           /\ IF payment[p].kind = "ORDER_PAYMENT"
                THEN /\ order' = IF full THEN "RETURNED" ELSE "CANCELLED"
                     /\ escrow' = IF escrow = "NONE" THEN "NONE" ELSE "REFUNDED"
                ELSE UNCHANGED <<order, escrow>>
    /\ Answer(c)
    /\ UNCHANGED <<granted, invoice, gateway, inbox, processed, failures>>

-----------------------------------------------------------------------------
(* OrderService.cancelOrder, which knows nothing of payments.                *)

CancelBegin(c) ==
    /\ "ORDER_PAYMENT" \in Kinds
    /\ order \notin {"CANCELLED", "RETURNED"}
    /\ Begin(c, [op |-> "cancel"])
    /\ UNCHANGED <<rows, gateway, inbox, processed, failures>>

CancelCommit(c) ==
    /\ call[c].op = "cancel"
    /\ order' = "CANCELLED"
    /\ Answer(c)
    /\ UNCHANGED <<payment, granted, invoice, refunded, escrow, gateway, inbox,
                   processed, failures>>

\* Mutant: deliveries are answered 200 before they are worked on.
Fail_AnsweredFirst(c) ==
    /\ call[c] # Idle
    /\ failures < MaxFailures
    /\ failures' = failures + 1
    /\ Answer(c)
    /\ inbox' = IF call[c].op = "webhook" THEN inbox \ {call[c].event} ELSE inbox
    /\ UNCHANGED <<rows, gateway, processed>>

\* A request dies where it stands (crash, timeout, lost connection): what it
\* committed stays, the rest never happens.
Fail(c) ==
    /\ call[c] # Idle
    /\ failures < MaxFailures
    /\ failures' = failures + 1
    /\ Answer(c)
    /\ UNCHANGED <<rows, gateway, inbox, processed>>

-----------------------------------------------------------------------------
\* The next statement of a request that has begun.
Continue(c) ==
    \/ CreateInsert(c) \/ RetryInsert(c)
    \/ VerifyCapture(c) \/ VerifyConfirmOrder(c) \/ VerifyHoldEscrow(c)
    \/ VerifyGrantCredits(c) \/ VerifyActivate(c) \/ VerifyInvoice(c)
    \/ VerifySubscriptionCommit(c)
    \/ WebhookFail(c) \/ WebhookCapture(c) \/ WebhookLog(c)
    \/ RefundCommit(c) \/ CancelCommit(c)

Deliver(e) == \E c \in Calls : WebhookBegin(c, e)

BeginRequest(c) ==
    \/ \E kind \in Kinds : CreateBegin(c, kind)
    \/ CreateSubscriptionBegin(c)
    \/ \E p \in Payments : \/ RetryBegin(c, p)
                           \/ VerifyBegin(c, p)
                           \/ VerifySubscriptionBegin(c, p)
                           \/ \E amount \in 1..Price : RefundBegin(c, p, amount)
    \/ CancelBegin(c)

Next ==
    \/ \E c \in Calls : BeginRequest(c) \/ Continue(c) \/ Fail(c)
    \/ \E e \in inbox : Deliver(e)
    \/ \E p \in Payments : GatewayDecline(p) \/ GatewayCapture(p)

Spec == Init /\ [][Next]_vars

(* Fairness: a request that has begun runs on, and the gateway redelivers an *)
(* event until it is answered with 2xx.  Delivery is strongly fair because   *)
(* the slots in Calls, a bound of the model, may all be busy now and then.   *)
(* Buyers, refunds, declines and deaths are free to happen or not.           *)
Fairness ==
    /\ \A c \in Calls : WF_vars(Continue(c))
    /\ \A e \in Event : SF_vars(Deliver(e))

FairSpec == Spec /\ Fairness

-----------------------------------------------------------------------------
TypeOK ==
    /\ payment \in [Payments -> PaymentRow]
    /\ granted \in [Payments -> Nat]
    /\ invoice \subseteq Payments
    /\ refunded \in [Payments -> Nat]
    /\ order \in OrderStatuses
    /\ escrow \in EscrowStatuses
    /\ gateway \in [Payments -> GatewayOrder]
    /\ inbox \subseteq Event
    /\ processed \subseteq Event
    /\ call \in [Calls -> Call]
    /\ failures \in 0..MaxFailures

Subscriptions == {p \in Payments : payment[p].kind = "SUBSCRIPTION"}
Planned == {p \in Subscriptions : payment[p].planned}

(* P0-2 (payment.service.ts 543-559, 654-659): capture, activation and       *)
(* invoice of a subscription happen together or not at all, once, whichever  *)
(* of the verify request and the webhook deliveries get there, in any order. *)
SubscriptionSettledTogether ==
    \A p \in Planned :
        /\ granted[p] \in {0, 1}
        /\ HasMoney(p) <=> granted[p] = 1
        /\ HasMoney(p) <=> p \in invoice

(* A subscription payment that was refunded never reads as CAPTURED again:   *)
(* a handler that saw it PENDING is stopped by the invoice's unique key.     *)
RefundIsFinal ==
    [][\A p \in Planned :
         Status(p) \in {"REFUNDED", "PARTIALLY_REFUNDED"} => Status(p)' # "CAPTURED"]_vars

(* The status of a subscription payment tells what its Refund rows add up to:*)
(* REFUNDED means all of it, and CAPTURED none.                              *)
StatusTellsRefunds ==
    \A p \in Planned :
        /\ Status(p) = "REFUNDED" => refunded[p] = Price
        /\ Status(p) = "CAPTURED" => refunded[p] = 0

(* It does, and the rows never claim more than the gateway has returned.     *)
RefundStatusHonest ==
    /\ StatusTellsRefunds
    /\ \A p \in Planned : refunded[p] =< gateway[p].returned

(* What a payment buys and the invoice for it exist only while the platform  *)
(* has the money; in particular a late or repeated payment.failed never      *)
(* undoes a capture, whichever checkout or delivery made it.  The credits of *)
(* a pack are granted once, although the verify request and every delivery   *)
(* of the webhook grant them.                                                *)
EffectsMeanMoney ==
    \A p \in Payments :
        /\ granted[p] > 0 \/ p \in invoice => HasMoney(p) /\ gateway[p].paid
        /\ payment[p].kind = "CREDIT_PACK_PURCHASE" => granted[p] =< 1

(* An order's escrow that was refunded is never funded again, whichever other*)
(* payment of the same order is verified later.                              *)
EscrowNeverReheld == [][escrow = "REFUNDED" => escrow' = "REFUNDED"]_vars

(* Every event is answered with 2xx in the end: neither the rolled-back      *)
(* transactions nor the double insert of the event id make it undeliverable. *)
WebhooksDrain == \A e \in Event : (e \in inbox) ~> (e \notin inbox)

(* A subscription paid at the gateway is activated in the end, even if the   *)
(* buyer's verify request never comes or dies, as long as no earlier attempt *)
(* on the same gateway order was declined.                                   *)
PaidSubscriptionActivates ==
    \A p \in Payments :
        (p \in Planned /\ gateway[p].paid) ~> (granted[p] = 1)

(* A paid credit pack ends granted and invoiced, unless a request dies:      *)
(* verifyPayment commits the capture first, and nothing resumes what follows.*)
PaidCreditsDelivered ==
    \A p \in Payments :
        (payment[p].kind = "CREDIT_PACK_PURCHASE" /\ gateway[p].paid)
            ~> (granted[p] = 1 /\ p \in invoice) \/ failures > 0

(* How far each planned subscription payment has come, seen from outside: any*)
(* mixture of captured, granted and invoiced is "torn".                      *)
purchaseState == [p \in Payments |->
    CASE p \in Planned /\ HasMoney(p) /\ granted[p] = 1 /\ p \in invoice -> "active"
      [] p \in Planned /\ ~HasMoney(p) /\ granted[p] = 0 /\ p \notin invoice ->
            IF gateway[p].paid THEN "paid" ELSE "unpaid"
      [] p \notin Planned -> "unpaid"
      [] OTHER -> "torn"]

Purchase == INSTANCE SubscriptionPurchase WITH state <- purchaseState

(* Requests, webhooks, retries and refunds together implement the purchase   *)
(* of a subscription as one indivisible step.                                *)
ImplementsPurchase == Purchase!Spec

-----------------------------------------------------------------------------
(* What a comment of the code promises and the handlers do not keep.         *)

(* payment.service.ts:658-659: no captured subscription payment is stranded  *)
(* without a subscription, however it came about.                            *)
NoStrandedSubscription ==
    \A p \in Subscriptions : HasMoney(p) => granted[p] >= 1
=============================================================================
