------------------------ MODULE PaymentCapture_proof ------------------------
(***************************************************************************)
(* Proofs about PaymentCapture, for any numbers of payments and requests.  *)
(***************************************************************************)
EXTENDS PaymentCapture, TLAPS

(* What each kind of request in flight remembers.                          *)
LEMMA CallFields ==
    ASSUME NEW r \in Call
    PROVE  /\ r.op = "create" => r.kind \in AllKinds /\ r.planned \in BOOLEAN
           /\ r.op = "retry" => r.pay \in Payments
           /\ r.op = "verify" => r.pay \in Payments
                /\ r = [op |-> "verify", pay |-> r.pay, at |-> r.at]
           /\ r.op = "verifySubscription" => r.pay \in Payments
           /\ r.op = "webhook" => r.event \in Event
                /\ r = [op |-> "webhook", event |-> r.event, at |-> r.at]
           /\ r.op = "refund" => r.pay \in Payments /\ r.amount \in 1..Price
                /\ r.before \in 0..Price
           /\ Idle \in Call
  BY DEF Call, Idle

(* A request that moves on to its next statement remembers what it did.      *)
LEMMA Moved ==
    ASSUME NEW r \in Call, NEW label
    PROVE  /\ r.op = "verify" => [r EXCEPT !.at = label]
                = [op |-> "verify", pay |-> r.pay, at |-> label]
           /\ r.op = "webhook" => [r EXCEPT !.at = label]
                = [op |-> "webhook", event |-> r.event, at |-> label]
  <1>1. CASE r.op = "verify"
    <2>1. r = [op |-> "verify", pay |-> r.pay, at |-> r.at]
      BY <1>1, CallFields
    <2> QED BY <1>1, <2>1
  <1>2. CASE r.op = "webhook"
    <2>1. r = [op |-> "webhook", event |-> r.event, at |-> r.at]
      BY <1>2, CallFields
    <2> QED BY <1>2, <2>1
  <1> QED BY <1>1, <1>2

(* A request that goes to its next statement stays a request of its kind.   *)
LEMMA GotoType ==
    ASSUME call \in [Calls -> Call], NEW c \in Calls, NEW label,
           Goto(c, label),
           \/ call[c].op = "verify" /\ label \in {"capture", "fulfil", "hold", "invoice"}
           \/ call[c].op = "webhook" /\ label \in {"commit", "log", "relog"}
    PROVE  call' \in [Calls -> Call]
  <1>1. call[c] \in Call
    OBVIOUS
  <1> DEFINE next == [call[c] EXCEPT !.at = label]
  <1>2. CASE call[c].op = "verify"
    <2>1. next = [op |-> "verify", pay |-> call[c].pay, at |-> label]
      BY <1>1, <1>2, Moved
    <2>2. next \in Call
      BY <1>1, <1>2, <2>1, CallFields DEF Call
    <2> QED BY <2>2 DEF Goto
  <1>3. CASE call[c].op = "webhook"
    <2>1. next = [op |-> "webhook", event |-> call[c].event, at |-> label]
      BY <1>1, <1>3, Moved
    <2>2. next \in Call
      BY <1>1, <1>3, <2>1, CallFields DEF Call
    <2> QED BY <2>2 DEF Goto
  <1> QED BY <1>2, <1>3

(* Answering a request frees its slot.                                      *)
LEMMA AnswerType ==
    ASSUME call \in [Calls -> Call], NEW c \in Calls, Answer(c)
    PROVE  call' \in [Calls -> Call]
  BY DEF Answer, Call, Idle

-----------------------------------------------------------------------------
(* Every step, including a request that dies half-way, keeps every row,      *)
(* event and request within its type; what a refund returns stays within the *)
(* price because createRefund's limit is checked before the money moves.     *)
THEOREM TypeInit == Init => TypeOK
  <1> SUFFICES ASSUME Init PROVE TypeOK
    OBVIOUS
  <1>1. (CHOOSE k \in AllKinds : TRUE) \in AllKinds
    BY DEF AllKinds
  <1>2. payment \in [Payments -> PaymentRow]
    BY <1>1 DEF Init, PaymentRow, Statuses
  <1>3. gateway \in [Payments -> GatewayOrder]
    BY ConstantsAssumption DEF Init, GatewayOrder
  <1>4. call \in [Calls -> Call]
    BY DEF Init, Call
  <1> QED BY <1>2, <1>3, <1>4, ConstantsAssumption
          DEF Init, TypeOK, OrderStatuses, EscrowStatuses

(* Every handler's statement leaves rows, events and requests well formed.  *)
LEMMA TypeNext == TypeOK /\ [Next]_vars => TypeOK'
  <1> SUFFICES ASSUME TypeOK, [Next]_vars PROVE TypeOK'
    OBVIOUS
  <1> USE ConstantsAssumption
  <1>0. ASSUME NEW c \in Calls, NEW next \in Call, Begin(c, next)
        PROVE  call' \in [Calls -> Call]
    BY <1>0 DEF TypeOK, Begin
  <1>1. ASSUME NEW c \in Calls, BeginRequest(c) PROVE TypeOK'
    <2>1. ASSUME NEW kind \in Kinds, CreateBegin(c, kind) PROVE TypeOK'
      <3>1. [op |-> "create", kind |-> kind, planned |-> FALSE] \in Call
        BY DEF Call
      <3> QED BY <1>0, <2>1, <3>1 DEF CreateBegin, TypeOK, rows
    <2>2. CASE CreateSubscriptionBegin(c)
      <3>1. [op |-> "create", kind |-> "SUBSCRIPTION", planned |-> TRUE] \in Call
        BY DEF Call, AllKinds
      <3> QED BY <1>0, <2>2, <3>1 DEF CreateSubscriptionBegin, TypeOK, rows
    <2>3. ASSUME NEW p \in Payments, RetryBegin(c, p) PROVE TypeOK'
      <3>1. [op |-> "retry", pay |-> p] \in Call
        BY DEF Call
      <3> QED BY <1>0, <2>3, <3>1 DEF RetryBegin, TypeOK, rows
    <2>4. ASSUME NEW p \in Payments, VerifyBegin(c, p) PROVE TypeOK'
      <3>1. [op |-> "verify", pay |-> p, at |-> "capture"] \in Call
        BY DEF Call
      <3> QED BY <1>0, <2>4, <3>1 DEF VerifyBegin, TypeOK, rows
    <2>5. ASSUME NEW p \in Payments, VerifySubscriptionBegin(c, p) PROVE TypeOK'
      <3>1. [op |-> "verifySubscription", pay |-> p] \in Call
        BY DEF Call
      <3> QED BY <1>0, <2>5, <3>1 DEF VerifySubscriptionBegin, TypeOK, rows
    <2>6. ASSUME NEW p \in Payments, NEW amount \in 1..Price,
                 RefundBegin(c, p, amount)
          PROVE  TypeOK'
      <3>1. refunded[p] \in 0..Price
        BY <2>6 DEF RefundBegin, TypeOK
      <3>2. [op |-> "refund", pay |-> p, amount |-> amount,
             before |-> refunded[p]] \in Call
        BY <3>1 DEF Call
      <3>3. call' \in [Calls -> Call]
        BY <1>0, <2>6, <3>2 DEF RefundBegin
      <3>4. gateway' \in [Payments -> GatewayOrder]
        BY <2>6 DEF RefundBegin, TypeOK, GatewayOrder
      <3> QED BY <2>6, <3>3, <3>4 DEF RefundBegin, TypeOK, rows
    <2>7. CASE CancelBegin(c)
      <3>1. [op |-> "cancel"] \in Call
        BY DEF Call
      <3> QED BY <1>0, <2>7, <3>1 DEF CancelBegin, TypeOK, rows
    <2> QED BY <1>1, <2>1, <2>2, <2>3, <2>4, <2>5, <2>6, <2>7 DEF BeginRequest
  <1>2. ASSUME NEW c \in Calls, Continue(c) PROVE TypeOK'
    <2>0. call[c] \in Call
      BY DEF TypeOK
    <2>1. CASE CreateInsert(c)
      <3>1. NewRow(call[c].kind, call[c].planned) \in PaymentRow
        BY <2>0, <2>1, CallFields DEF CreateInsert, NewRow, PaymentRow, Statuses
      <3>2. payment' \in [Payments -> PaymentRow]
        BY <2>1, <3>1 DEF CreateInsert, Unused, TypeOK
      <3> QED BY <2>1, <3>2, AnswerType DEF CreateInsert, TypeOK
    <2>2. CASE RetryInsert(c)
      <3>1. payment[call[c].pay].kind \in AllKinds
        BY <2>0, <2>2, CallFields DEF RetryInsert, TypeOK, PaymentRow
      <3>2. NewRow(payment[call[c].pay].kind, FALSE) \in PaymentRow
        BY <3>1 DEF NewRow, PaymentRow, Statuses
      <3>3. payment' \in [Payments -> PaymentRow]
        BY <2>2, <3>2 DEF RetryInsert, Unused, TypeOK
      <3> QED BY <2>2, <3>3, AnswerType DEF RetryInsert, TypeOK
    <2>3. ASSUME NEW p \in Payments PROVE Captured(p) \in [Payments -> PaymentRow]
      BY DEF Captured, TypeOK, PaymentRow, Statuses
    <2>4. ASSUME call[c].op = "verify"
          PROVE  /\ call[c].pay \in Payments
                 /\ \A label \in {"capture", "fulfil", "hold", "invoice"} :
                      Goto(c, label) => call' \in [Calls -> Call]
      BY <2>0, <2>4, CallFields, GotoType DEF TypeOK
    <2>5. ASSUME call[c].op = "webhook"
          PROVE  /\ call[c].event \in Event /\ call[c].event.pay \in Payments
                 /\ \A label \in {"commit", "log", "relog"} :
                      Goto(c, label) => call' \in [Calls -> Call]
      BY <2>0, <2>5, CallFields, GotoType DEF TypeOK, Event
    <2>6. CASE VerifyCapture(c)
      BY <2>3, <2>4, <2>6 DEF VerifyCapture, At, TypeOK
    <2>7. CASE VerifyConfirmOrder(c)
      BY <2>4, <2>7 DEF VerifyConfirmOrder, At, TypeOK, OrderStatuses
    <2>8. CASE VerifyHoldEscrow(c)
      BY <2>4, <2>8 DEF VerifyHoldEscrow, At, TypeOK, EscrowStatuses
    <2>9. CASE VerifyGrantCredits(c)
      BY <2>4, <2>9, AnswerType DEF VerifyGrantCredits, At, TypeOK
    <2>10. CASE VerifyActivate(c)
      BY <2>4, <2>10 DEF VerifyActivate, At, TypeOK
    <2>11. CASE VerifyInvoice(c)
      BY <2>4, <2>11, AnswerType DEF VerifyInvoice, At, TypeOK
    <2>12. CASE VerifySubscriptionCommit(c)
      <3>1. call[c].pay \in Payments
        BY <2>0, <2>12, CallFields DEF VerifySubscriptionCommit
      <3> QED BY <2>3, <2>12, <3>1, AnswerType
              DEF VerifySubscriptionCommit, CaptureAndActivate, TypeOK
    <2>13. CASE WebhookFail(c)
      <3>1. payment' \in [Payments -> PaymentRow]
        BY <2>5, <2>13 DEF WebhookFail, At, TypeOK, PaymentRow, Statuses
      <3> QED BY <2>5, <2>13, <3>1 DEF WebhookFail, At, TypeOK
    <2>14. CASE WebhookCapture(c)
      BY <2>3, <2>5, <2>14, AnswerType DEF WebhookCapture, At, TypeOK
    <2>15. CASE WebhookLog(c)
      BY <2>5, <2>15, AnswerType DEF WebhookLog, TypeOK, rows
    <2>16. CASE RefundCommit(c)
      <3>1. call[c].pay \in Payments /\ call[c].amount \in 1..Price
        BY <2>0, <2>16, CallFields DEF RefundCommit
      <3>2. payment' \in [Payments -> PaymentRow]
        BY <2>16, <3>1 DEF RefundCommit, TypeOK, PaymentRow, Statuses
      <3>3. refunded' \in [Payments -> Nat]
        BY <2>16, <3>1 DEF RefundCommit, TypeOK
      <3>4. order' \in OrderStatuses /\ escrow' \in EscrowStatuses
        BY <2>16 DEF RefundCommit, TypeOK, OrderStatuses, EscrowStatuses
      <3> QED BY <2>16, <3>2, <3>3, <3>4, AnswerType DEF RefundCommit, TypeOK
    <2>17. CASE CancelCommit(c)
      BY <2>17, AnswerType DEF CancelCommit, TypeOK, OrderStatuses
    <2> QED BY <1>2, <2>1, <2>2, <2>6, <2>7, <2>8, <2>9, <2>10, <2>11, <2>12,
               <2>13, <2>14, <2>15, <2>16, <2>17 DEF Continue
  <1>3. ASSUME NEW c \in Calls, Fail(c) PROVE TypeOK'
    BY <1>3, AnswerType DEF Fail, TypeOK, rows
  <1>4. ASSUME NEW e \in inbox, Deliver(e) PROVE TypeOK'
    <2>1. PICK c \in Calls : WebhookBegin(c, e)
      BY <1>4 DEF Deliver
    <2>2. e \in Event
      BY DEF TypeOK
    <2>3. \A label \in {"commit", "log", "relog"} :
            [op |-> "webhook", event |-> e, at |-> label] \in Call
      BY <2>2 DEF Call
    <2>4. call' \in [Calls -> Call]
      BY <1>0, <2>1, <2>3 DEF WebhookBegin, TypeOK
    <2> QED BY <2>1, <2>4 DEF WebhookBegin, TypeOK, rows
  <1>5. ASSUME NEW p \in Payments, GatewayDecline(p) PROVE TypeOK'
    <2>1. gateway' \in [Payments -> GatewayOrder]
      BY <1>5 DEF GatewayDecline, TypeOK, GatewayOrder
    <2>2. gateway[p].declines \in 0..MaxDeclines
      BY DEF TypeOK, GatewayOrder
    <2>3. inbox' \subseteq Event
      BY <1>5, <2>2 DEF GatewayDecline, TypeOK, Event
    <2> QED BY <1>5, <2>1, <2>3 DEF GatewayDecline, TypeOK, rows
  <1>6. ASSUME NEW p \in Payments, GatewayCapture(p) PROVE TypeOK'
    <2>1. gateway' \in [Payments -> GatewayOrder]
      BY <1>6 DEF GatewayCapture, TypeOK, GatewayOrder
    <2>2. inbox' \subseteq Event
      BY <1>6 DEF GatewayCapture, TypeOK, Event
    <2> QED BY <1>6, <2>1, <2>2 DEF GatewayCapture, TypeOK, rows
  <1>7. CASE UNCHANGED vars
    BY <1>7 DEF vars, TypeOK
  <1> QED BY <1>1, <1>2, <1>3, <1>4, <1>5, <1>6, <1>7 DEF Next

(* At every moment rows, the gateway's books, events and requests are well  *)
(* formed: no interleaving of refunds returns more than the price was.     *)
THEOREM TypeCorrect == Spec => []TypeOK
  BY TypeInit, TypeNext, PTL DEF Spec

-----------------------------------------------------------------------------
(* The inductive invariant.  SubscriptionSettledTogether is not inductive: it *)
(* needs to know that a handler only ever acts on the row and the gateway    *)
(* order that it has seen, and that rows not yet inserted have no effects.   *)
EventKnown(e) ==
    /\ Status(e.pay) # "ABSENT"
    /\ e.name = "payment.captured" => gateway[e.pay].paid

CallKnown(r) ==
    /\ r.op = "verify" => /\ Status(r.pay) # "ABSENT"
                          /\ payment[r.pay].kind \in GenericKinds
    /\ r.op = "verifySubscription" => /\ Status(r.pay) # "ABSENT"
                                      /\ payment[r.pay].kind = "SUBSCRIPTION"
                                      /\ gateway[r.pay].paid
    /\ r.op = "webhook" => EventKnown(r.event)
    /\ r.op = "refund" => HasMoney(r.pay)

AbsentIsBlank ==
    \A p \in Payments : Status(p) = "ABSENT" =>
        /\ granted[p] = 0 /\ p \notin invoice
        /\ ~payment[p].planned /\ ~gateway[p].paid

PaidFirst == \A p \in Planned : HasMoney(p) => gateway[p].paid

\* What every request and event knows; no assumption on GenericKinds is needed.
Known ==
    /\ TypeOK
    /\ \A c \in Calls : CallKnown(call[c])
    /\ \A e \in inbox : EventKnown(e)

IInv ==
    /\ TypeOK
    /\ \A c \in Calls : CallKnown(call[c])
    /\ \A e \in inbox : EventKnown(e)
    /\ AbsentIsBlank
    /\ SubscriptionSettledTogether
    /\ PaidFirst

\* What no step takes back from a payment.
Kept(p) ==
    /\ Status(p) # "ABSENT" => /\ Status(p)' # "ABSENT"
                               /\ payment'[p].kind = payment[p].kind
                               /\ payment'[p].planned = payment[p].planned
    /\ HasMoney(p) => HasMoney(p)'
    /\ gateway[p].paid => gateway'[p].paid

(* No step takes a row away, changes what it buys, loses its money or undoes *)
(* a payment at the gateway.                                                 *)
LEMMA RowsPersist ==
    TypeOK /\ [Next]_vars => \A p \in Payments : Kept(p)
  <1> SUFFICES ASSUME TypeOK, [Next]_vars, NEW p \in Payments PROVE Kept(p)
    OBVIOUS
  <1>1. ASSUME payment' = payment, gateway' = gateway PROVE Kept(p)
    BY <1>1 DEF Kept, Status, HasMoney
  <1>2. ASSUME NEW q \in Payments, payment' = Captured(q), gateway' = gateway
        PROVE  Kept(p)
    BY <1>2 DEF Kept, Status, HasMoney, Captured, TypeOK, PaymentRow
  <1>3. ASSUME NEW q \in Unused, NEW row, gateway' = gateway,
               payment' = [payment EXCEPT ![q] = row], row.status = "PENDING"
        PROVE  Kept(p)
    BY <1>3 DEF Kept, Status, HasMoney, Unused, TypeOK
  <1>4. ASSUME NEW c \in Calls, BeginRequest(c) PROVE Kept(p)
    <2>1. ASSUME NEW q \in Payments, NEW amount \in 1..Price,
                 RefundBegin(c, q, amount)
          PROVE  Kept(p)
      BY <2>1 DEF RefundBegin, rows, Kept, Status, HasMoney, TypeOK, GatewayOrder
    <2> QED BY <1>1, <1>4, <2>1
            DEF BeginRequest, CreateBegin, CreateSubscriptionBegin, RetryBegin,
                VerifyBegin, VerifySubscriptionBegin, CancelBegin, rows
  <1>5. ASSUME NEW c \in Calls, Continue(c) PROVE Kept(p)
    <2>0. call[c] \in Call
      BY DEF TypeOK
    <2>1. CASE CreateInsert(c)
      BY <1>3, <2>1 DEF CreateInsert, NewRow
    <2>2. CASE RetryInsert(c)
      BY <1>3, <2>2 DEF RetryInsert, NewRow
    <2>3. CASE VerifyCapture(c)
      BY <1>2, <2>0, <2>3, CallFields DEF VerifyCapture, At
    <2>4. CASE VerifySubscriptionCommit(c)
      BY <1>1, <1>2, <2>0, <2>4, CallFields
         DEF VerifySubscriptionCommit, CaptureAndActivate
    <2>5. CASE WebhookCapture(c)
      BY <1>1, <1>2, <2>0, <2>5, CallFields DEF WebhookCapture, At, Event
    <2>6. CASE WebhookFail(c)
      BY <2>6 DEF WebhookFail, Kept, Status, HasMoney, TypeOK, PaymentRow
    <2>7. CASE RefundCommit(c)
      BY <2>7 DEF RefundCommit, Kept, Status, HasMoney, TypeOK, PaymentRow
    <2> QED BY <1>1, <1>5, <2>1, <2>2, <2>3, <2>4, <2>5, <2>6, <2>7
            DEF Continue, VerifyConfirmOrder, VerifyHoldEscrow,
                VerifyGrantCredits, VerifyActivate, VerifyInvoice, WebhookLog,
                CancelCommit, rows
  <1>6. ASSUME NEW c \in Calls, Fail(c) PROVE Kept(p)
    BY <1>1, <1>6 DEF Fail, rows
  <1>7. ASSUME NEW e \in inbox, Deliver(e) PROVE Kept(p)
    BY <1>1, <1>7 DEF Deliver, WebhookBegin, rows
  <1>8. ASSUME NEW q \in Payments, GatewayDecline(q) \/ GatewayCapture(q)
        PROVE  Kept(p)
    BY <1>8 DEF GatewayDecline, GatewayCapture, rows, Kept, Status, HasMoney,
                TypeOK, GatewayOrder
  <1>9. CASE UNCHANGED vars
    BY <1>1, <1>9 DEF vars
  <1> QED BY <1>4, <1>5, <1>6, <1>7, <1>8, <1>9 DEF Next

(* Requests and events know as much of their rows after a step as before.  *)
LEMMA KnownEvents ==
    Known /\ [Next]_vars => \A e \in inbox' : EventKnown(e)'
  <1> SUFFICES ASSUME Known, [Next]_vars, NEW e \in inbox' PROVE EventKnown(e)'
    OBVIOUS
  <1>0. TypeOK
    BY DEF Known
  <1>1. \A p \in Payments : Kept(p)
    BY <1>0, RowsPersist
  <1>2. CASE e \in inbox
    BY <1>0, <1>1, <1>2 DEF Known, TypeOK, EventKnown, Kept, Event
  <1>3. ASSUME NEW p \in Payments, GatewayDecline(p) \/ GatewayCapture(p),
               e \notin inbox
        PROVE  EventKnown(e)'
    BY <1>0, <1>3 DEF GatewayDecline, GatewayCapture, rows, EventKnown, Status,
                      TypeOK, GatewayOrder
  <1>4. e \in inbox \/ \E p \in Payments : GatewayDecline(p) \/ GatewayCapture(p)
    BY DEF Next, vars, BeginRequest, CreateBegin, CreateSubscriptionBegin,
           RetryBegin, VerifyBegin, VerifySubscriptionBegin, RefundBegin,
           CancelBegin, Continue, CreateInsert, RetryInsert, VerifyCapture,
           VerifyConfirmOrder, VerifyHoldEscrow, VerifyGrantCredits,
           VerifyActivate, VerifyInvoice, VerifySubscriptionCommit, WebhookFail,
           WebhookCapture, WebhookLog, RefundCommit, CancelCommit, Fail,
           Deliver, WebhookBegin
  <1> QED BY <1>2, <1>3, <1>4

\* CallKnown of a request r, in the state after the step.
CallKnownNext(r) ==
    /\ r.op = "verify" => /\ payment'[r.pay].status # "ABSENT"
                          /\ payment'[r.pay].kind \in GenericKinds
    /\ r.op = "verifySubscription" => /\ payment'[r.pay].status # "ABSENT"
                                      /\ payment'[r.pay].kind = "SUBSCRIPTION"
                                      /\ gateway'[r.pay].paid
    /\ r.op = "webhook" =>
         /\ payment'[r.event.pay].status # "ABSENT"
         /\ r.event.name = "payment.captured" => gateway'[r.event.pay].paid
    /\ r.op = "refund" =>
         payment'[r.pay].status \in {"CAPTURED", "REFUNDED", "PARTIALLY_REFUNDED"}

(* What a request has seen of its row still holds after any step.          *)
LEMMA KnownStays ==
    ASSUME \A p \in Payments : Kept(p), NEW r \in Call, CallKnown(r)
    PROVE  CallKnownNext(r)
  <1>1. r.op \in {"verify", "verifySubscription", "refund"} => r.pay \in Payments
    BY CallFields
  <1>2. r.op = "webhook" => r.event.pay \in Payments
    BY CallFields DEF Event
  <1> QED BY <1>1, <1>2
          DEF CallKnown, CallKnownNext, EventKnown, Kept, Status, HasMoney

(* After every step each request in flight knows of its row only what holds:*)
(* what it read while checking cannot have become false since.             *)
LEMMA KnownCalls ==
    Known /\ [Next]_vars => \A c \in Calls : CallKnown(call[c])'
  <1> SUFFICES ASSUME Known, [Next]_vars PROVE \A d \in Calls : CallKnown(call[d])'
    OBVIOUS
  <1> DEFINE Goal == \A d \in Calls : CallKnownNext(call'[d])
  <1>a. SUFFICES Goal
    BY DEF CallKnownNext, CallKnown, EventKnown, Status, HasMoney
  <1>0. TypeOK
    BY DEF Known
  <1>1. \A p \in Payments : Kept(p)
    BY <1>0, RowsPersist
  <1>2. ASSUME NEW d \in Calls PROVE CallKnownNext(call[d])
    BY <1>0, <1>1, KnownStays DEF Known, TypeOK
  <1>3. ASSUME NEW c \in Calls, NEW next,
               call' = [call EXCEPT ![c] = next], CallKnownNext(next)
        PROVE  Goal
    BY <1>0, <1>2, <1>3 DEF TypeOK
  <1>4. CallKnownNext(Idle)
    BY DEF CallKnownNext, Idle
  <1>5. ASSUME NEW c \in Calls, Answer(c) PROVE Goal
    BY <1>3, <1>4, <1>5 DEF Answer
  <1>6. ASSUME NEW c \in Calls, NEW label, Goto(c, label),
               call[c].op \in {"verify", "webhook"}
        PROVE  Goal
    <2> DEFINE next == [call[c] EXCEPT !.at = label]
    <2>1. call[c] \in Call
      BY <1>0 DEF TypeOK
    <2>2. CallKnownNext(call[c])
      BY <1>2
    <2>3. CASE call[c].op = "verify"
      <3>1. next = [op |-> "verify", pay |-> call[c].pay, at |-> label]
        BY <2>1, <2>3, Moved
      <3> QED BY <1>3, <1>6, <2>2, <2>3, <3>1 DEF CallKnownNext, Goto
    <2>4. CASE call[c].op = "webhook"
      <3>1. next = [op |-> "webhook", event |-> call[c].event, at |-> label]
        BY <2>1, <2>4, Moved
      <3> QED BY <1>3, <1>6, <2>2, <2>4, <3>1 DEF CallKnownNext, Goto
    <2> QED BY <1>6, <2>3, <2>4
  <1>7. ASSUME call' = call PROVE Goal
    BY <1>2, <1>7
  <1>8. ASSUME NEW c \in Calls, BeginRequest(c) PROVE Goal
    <2>1. ASSUME NEW kind, NEW planned,
                 Begin(c, [op |-> "create", kind |-> kind, planned |-> planned])
          PROVE  Goal
      BY <1>3, <2>1 DEF Begin, CallKnownNext
    <2>2. ASSUME NEW p \in Payments, RetryBegin(c, p) PROVE Goal
      BY <1>3, <2>2 DEF RetryBegin, Begin, CallKnownNext
    <2>3. ASSUME NEW p \in Payments, VerifyBegin(c, p) PROVE Goal
      BY <1>3, <2>3 DEF VerifyBegin, Begin, CallKnownNext, Status, rows
    <2>4. ASSUME NEW p \in Payments, VerifySubscriptionBegin(c, p) PROVE Goal
      BY <1>3, <2>4 DEF VerifySubscriptionBegin, Begin, CallKnownNext, Status, rows
    <2>5. ASSUME NEW p \in Payments, NEW amount \in 1..Price,
                 RefundBegin(c, p, amount)
          PROVE  Goal
      BY <1>3, <2>5 DEF RefundBegin, Begin, CallKnownNext, Status, rows
    <2>6. CASE CancelBegin(c)
      BY <1>3, <2>6 DEF CancelBegin, Begin, CallKnownNext
    <2> QED BY <1>8, <2>1, <2>2, <2>3, <2>4, <2>5, <2>6
            DEF BeginRequest, CreateBegin, CreateSubscriptionBegin
  <1>9. ASSUME NEW c \in Calls, Continue(c) PROVE Goal
    BY <1>5, <1>6, <1>9
       DEF At, Continue, CreateInsert, RetryInsert, VerifyCapture,
           VerifyConfirmOrder, VerifyHoldEscrow, VerifyGrantCredits,
           VerifyActivate, VerifyInvoice, VerifySubscriptionCommit, WebhookFail,
           WebhookCapture, WebhookLog, RefundCommit, CancelCommit
  <1>10. ASSUME NEW e \in inbox, Deliver(e) PROVE Goal
    <2>1. PICK c \in Calls : WebhookBegin(c, e)
      BY <1>10 DEF Deliver
    <2>2. EventKnown(e)
      BY DEF Known
    <2>3. ASSUME NEW label,
                 Begin(c, [op |-> "webhook", event |-> e, at |-> label])
          PROVE  Goal
      <3>1. CallKnownNext([op |-> "webhook", event |-> e, at |-> label])
        BY <2>1, <2>2 DEF CallKnownNext, EventKnown, Status, WebhookBegin, rows
      <3> QED BY <1>3, <2>3, <3>1 DEF Begin
    <2> QED BY <1>7, <2>1, <2>3 DEF WebhookBegin
  <1> QED BY <1>5, <1>7, <1>8, <1>9, <1>10
          DEF Next, vars, Fail, GatewayDecline, GatewayCapture

-----------------------------------------------------------------------------
(* The three parts of IInv about one payment.                                *)
Good(p) ==
    /\ Status(p) = "ABSENT" =>
         /\ granted[p] = 0 /\ p \notin invoice
         /\ ~payment[p].planned /\ ~gateway[p].paid
    /\ payment[p].kind = "SUBSCRIPTION" /\ payment[p].planned =>
         /\ granted[p] \in {0, 1}
         /\ HasMoney(p) <=> granted[p] = 1
         /\ HasMoney(p) <=> p \in invoice
         /\ HasMoney(p) => gateway[p].paid

(* Every step keeps a payment's effects together.  Where the plan is in the  *)
(* notes, only the two transactions that write capture, activation and       *)
(* invoice at once ever write, and they roll back when the invoice is there. *)
LEMMA GoodStep ==
    ASSUME "SUBSCRIPTION" \notin GenericKinds
    PROVE  IInv /\ [Next]_vars => \A p \in Payments : Good(p)'
  <1> SUFFICES ASSUME IInv, [Next]_vars, NEW p \in Payments PROVE Good(p)'
    OBVIOUS
  <1>0. TypeOK /\ Good(p)
    BY DEF IInv, AbsentIsBlank, SubscriptionSettledTogether, PaidFirst, Good,
           Planned, Subscriptions
  <1>1. ASSUME UNCHANGED <<payment, granted, invoice, gateway>> PROVE Good(p)'
    BY <1>0, <1>1 DEF Good, Status, HasMoney
  <1>2. ASSUME NEW q \in Unused, NEW kind, NEW planned \in BOOLEAN,
               payment' = [payment EXCEPT ![q] = NewRow(kind, planned)],
               UNCHANGED <<granted, invoice, gateway>>
        PROVE  Good(p)'
    <2>1. CASE p = q
      BY <1>0, <1>2, <2>1 DEF Good, Status, HasMoney, NewRow, Unused, TypeOK
    <2>2. CASE p # q
      BY <1>0, <1>2, <2>2 DEF Good, Status, HasMoney, TypeOK
    <2> QED BY <2>1, <2>2
  <1>3. ASSUME NEW q \in Payments, p # q,
               \/ payment' = payment
               \/ payment' = Captured(q)
               \/ \E new \in Statuses :
                    payment' = [payment EXCEPT ![q].status = new],
               \/ granted' = granted
               \/ \E n \in Nat : granted' = [granted EXCEPT ![q] = n],
               invoice' = invoice \/ invoice' = invoice \cup {q},
               gateway' = gateway
        PROVE  Good(p)'
    BY <1>0, <1>3 DEF Good, Status, HasMoney, Captured, TypeOK, PaymentRow
  <1>4. ASSUME NEW c \in Calls, BeginRequest(c) PROVE Good(p)'
    <2>1. ASSUME NEW q \in Payments, NEW amount \in 1..Price,
                 RefundBegin(c, q, amount)
          PROVE  Good(p)'
      BY <1>0, <2>1 DEF RefundBegin, rows, Good, Status, HasMoney, TypeOK,
                        GatewayOrder
    <2> QED BY <1>1, <1>4, <2>1
            DEF BeginRequest, CreateBegin, CreateSubscriptionBegin, RetryBegin,
                VerifyBegin, VerifySubscriptionBegin, CancelBegin, rows
  <1>5. ASSUME NEW c \in Calls, Continue(c) PROVE Good(p)'
    <2>0. call[c] \in Call /\ CallKnown(call[c])
      BY <1>0 DEF IInv, TypeOK
    <2>1. CASE CreateInsert(c)
      <3>1. call[c].planned \in BOOLEAN
        BY <2>0, <2>1, CallFields DEF CreateInsert
      <3> QED BY <1>2, <2>1, <3>1 DEF CreateInsert
    <2>2. CASE RetryInsert(c)
      BY <1>2, <2>2 DEF RetryInsert
    <2> DEFINE q == call[c].pay
    <2>3. ASSUME call[c].op = "verify"
          PROVE  /\ q \in Payments /\ Status(q) # "ABSENT"
                 /\ payment[q].kind # "SUBSCRIPTION"
      BY <2>0, <2>3, CallFields DEF CallKnown
    <2>4. CASE VerifyCapture(c)
      <3>1. CASE p = q
        BY <1>0, <2>3, <2>4, <3>1
           DEF VerifyCapture, At, Good, Status, HasMoney, Captured, TypeOK, PaymentRow
      <3>2. CASE p # q
        BY <1>3, <2>3, <2>4, <3>2 DEF VerifyCapture, At
      <3> QED BY <3>1, <3>2
    <2>5. CASE VerifyGrantCredits(c)
      <3>1. CASE p = q
        BY <1>0, <2>3, <2>5, <3>1
           DEF VerifyGrantCredits, At, Good, Status, HasMoney, TypeOK
      <3>2. CASE p # q
        BY <1>3, <2>3, <2>5, <3>2 DEF VerifyGrantCredits, At
      <3> QED BY <3>1, <3>2
    <2>6. CASE VerifyActivate(c)
      BY <2>3, <2>6 DEF VerifyActivate, At
    <2>7. CASE VerifyInvoice(c)
      <3>1. CASE p = q
        BY <1>0, <2>3, <2>7, <3>1
           DEF VerifyInvoice, At, Good, Status, HasMoney, TypeOK
      <3>2. CASE p # q
        BY <1>3, <2>3, <2>7, <3>2 DEF VerifyInvoice, At
      <3> QED BY <3>1, <3>2
    <2>8. CASE VerifySubscriptionCommit(c)
      <3>0. /\ q \in Payments /\ Status(q) # "ABSENT" /\ gateway[q].paid
            /\ payment[q].kind = "SUBSCRIPTION"
        BY <2>0, <2>8, CallFields DEF VerifySubscriptionCommit, CallKnown
      <3>1. CASE q \in invoice
        BY <1>1, <2>8, <3>1 DEF VerifySubscriptionCommit
      <3>2. CASE q \notin invoice /\ p = q
        BY <1>0, <2>8, <3>0, <3>2
           DEF VerifySubscriptionCommit, CaptureAndActivate, Good, Status,
               HasMoney, Captured, TypeOK, PaymentRow
      <3>3. CASE q \notin invoice /\ p # q
        <4>1. granted[q] + 1 \in Nat
          BY <1>0, <3>0 DEF TypeOK
        <4> QED BY <1>3, <2>8, <3>0, <3>3, <4>1
                DEF VerifySubscriptionCommit, CaptureAndActivate
      <3> QED BY <3>1, <3>2, <3>3
    <2>9. CASE WebhookFail(c)
      <3> DEFINE w == call[c].event.pay
      <3>0. w \in Payments
        BY <2>0, <2>9, CallFields DEF WebhookFail, At, Event
      <3>1. CASE p = w
        BY <1>0, <2>9, <3>1
           DEF WebhookFail, Good, Status, HasMoney, TypeOK, PaymentRow
      <3>2. CASE p # w
        BY <1>3, <2>9, <3>0, <3>2 DEF WebhookFail, Statuses
      <3> QED BY <3>1, <3>2
    <2>10. CASE WebhookCapture(c)
      <3> DEFINE w == call[c].event.pay
      <3>0. w \in Payments /\ Status(w) # "ABSENT" /\ gateway[w].paid
        BY <2>0, <2>10, CallFields DEF WebhookCapture, At, CallKnown, EventKnown, Event
      <3>1. CASE WebhookConflicts(w)
        BY <1>1, <2>10, <3>1 DEF WebhookCapture
      <3>2. CASE ~WebhookConflicts(w) /\ p = w
        BY <1>0, <2>10, <3>0, <3>2
           DEF WebhookCapture, WebhookConflicts, Good, Status, HasMoney,
               Captured, TypeOK, PaymentRow
      <3>3. CASE ~WebhookConflicts(w) /\ p # w
        <4>1. granted[w] + 1 \in Nat
          BY <1>0, <3>0 DEF TypeOK
        <4> QED BY <1>3, <2>10, <3>0, <3>3, <4>1 DEF WebhookCapture
      <3> QED BY <3>1, <3>2, <3>3
    <2>11. CASE RefundCommit(c)
      <3>0. q \in Payments /\ HasMoney(q)
        BY <2>0, <2>11, CallFields DEF RefundCommit, CallKnown
      <3>1. CASE p = q
        BY <1>0, <2>11, <3>0, <3>1
           DEF RefundCommit, Good, Status, HasMoney, TypeOK, PaymentRow
      <3>2. CASE p # q
        <4>1. \E new \in Statuses : payment' = [payment EXCEPT ![q].status = new]
          BY <2>11 DEF RefundCommit, Statuses
        <4> QED BY <1>3, <2>11, <3>0, <3>2, <4>1 DEF RefundCommit
      <3> QED BY <3>1, <3>2
    <2> QED BY <1>1, <1>5, <2>1, <2>2, <2>4, <2>5, <2>6, <2>7, <2>8, <2>9,
               <2>10, <2>11
            DEF Continue, VerifyConfirmOrder, VerifyHoldEscrow, WebhookLog,
                CancelCommit, rows
  <1>6. ASSUME NEW q \in Payments, GatewayDecline(q) \/ GatewayCapture(q)
        PROVE  Good(p)'
    BY <1>0, <1>6 DEF GatewayDecline, GatewayCapture, rows, Good, Status,
                      HasMoney, TypeOK, GatewayOrder
  <1> QED BY <1>1, <1>4, <1>5, <1>6
          DEF Next, vars, rows, Fail, Deliver, WebhookBegin

(* Together: the inductive invariant.                                        *)
THEOREM Inductive ==
    ASSUME "SUBSCRIPTION" \notin GenericKinds
    PROVE  Spec => []IInv
  <1>1. Init => IInv
    <2> SUFFICES ASSUME Init PROVE IInv
      OBVIOUS
    <2>1. \A c \in Calls : CallKnown(call[c])
      BY DEF Init, CallKnown, Idle
    <2>2. \A p \in Payments : Good(p)
      BY DEF Init, Good, Status, HasMoney
    <2> QED BY <2>1, <2>2, TypeInit
            DEF Init, IInv, AbsentIsBlank, SubscriptionSettledTogether,
                PaidFirst, Good, Planned, Subscriptions, HasMoney
  <1>2. IInv /\ [Next]_vars => IInv'
    <2> SUFFICES ASSUME IInv, [Next]_vars PROVE IInv'
      OBVIOUS
    <2>1. TypeOK'
      BY TypeNext DEF IInv
    <2>2. \A c \in Calls : CallKnown(call[c])'
      BY KnownCalls DEF IInv, Known
    <2>3. \A e \in inbox' : EventKnown(e)'
      BY KnownEvents DEF IInv, Known
    <2>4. \A p \in Payments : Good(p)'
      BY GoodStep
    <2>5. (AbsentIsBlank /\ SubscriptionSettledTogether /\ PaidFirst)'
      BY <2>4 DEF AbsentIsBlank, SubscriptionSettledTogether, PaidFirst, Good,
                  Planned, Subscriptions
    <2> QED BY <2>1, <2>2, <2>3, <2>5 DEF IInv
  <1> QED BY <1>1, <1>2, PTL DEF Spec

(* A subscription payment whose notes carry the plan is captured, activated  *)
(* and invoiced together or not at all, and once, for every number of        *)
(* requests, deliveries, retries, refunds and deaths, provided that          *)
(* subscriptions are not verified through the generic checkout.              *)
THEOREM SettledTogether ==
    ASSUME "SUBSCRIPTION" \notin GenericKinds
    PROVE  Spec => []SubscriptionSettledTogether
  <1>1. IInv => SubscriptionSettledTogether
    BY DEF IInv
  <1> QED BY <1>1, Inductive, PTL

-----------------------------------------------------------------------------
\* RefundIsFinal, of one step.
Final ==
    \A p \in Planned : Status(p) \in {"REFUNDED", "PARTIALLY_REFUNDED"}
                         => Status(p)' # "CAPTURED"

(* Every handler that would capture a refunded subscription payment finds    *)
(* its invoice and rolls back.                                               *)
LEMMA FinalStep ==
    ASSUME "SUBSCRIPTION" \notin GenericKinds
    PROVE  IInv /\ [Next]_vars => Final
  <1> SUFFICES ASSUME IInv, [Next]_vars, NEW p \in Planned,
                      Status(p) \in {"REFUNDED", "PARTIALLY_REFUNDED"}
               PROVE  Status(p)' # "CAPTURED"
    BY DEF Final, Planned
  <1>0. /\ TypeOK /\ p \in Payments /\ p \in invoice
        /\ payment[p].kind = "SUBSCRIPTION" /\ payment[p].planned
    BY DEF IInv, SubscriptionSettledTogether, HasMoney, Planned, Subscriptions
  <1>1. ASSUME payment'[p] = payment[p] PROVE Status(p)' # "CAPTURED"
    BY <1>1 DEF Status
  <1>2. ASSUME NEW q \in Payments, q # p, payment' = Captured(q)
        PROVE  Status(p)' # "CAPTURED"
    BY <1>0, <1>1, <1>2 DEF Captured, TypeOK
  <1>3. ASSUME NEW c \in Calls, Continue(c) PROVE Status(p)' # "CAPTURED"
    <2>0. call[c] \in Call /\ CallKnown(call[c])
      BY <1>0 DEF IInv, TypeOK
    <2>1. CASE CreateInsert(c) \/ RetryInsert(c)
      BY <1>0, <1>1, <2>1
         DEF CreateInsert, RetryInsert, Unused, Status, TypeOK
    <2>2. CASE VerifyCapture(c)
      BY <1>0, <1>2, <2>0, <2>2, CallFields DEF VerifyCapture, At, CallKnown
    <2>3. CASE VerifySubscriptionCommit(c)
      BY <1>0, <1>1, <1>2, <2>0, <2>3, CallFields
         DEF VerifySubscriptionCommit, CaptureAndActivate
    <2>4. CASE WebhookCapture(c)
      BY <1>0, <1>1, <1>2, <2>0, <2>4, CallFields
         DEF WebhookCapture, WebhookConflicts, At, Event
    <2>5. CASE WebhookFail(c)
      BY <1>0, <1>1, <2>5 DEF WebhookFail, Status, TypeOK
    <2>6. CASE RefundCommit(c)
      BY <1>0, <1>1, <2>6 DEF RefundCommit, Status, TypeOK, PaymentRow
    <2> QED BY <1>1, <1>3, <2>1, <2>2, <2>3, <2>4, <2>5, <2>6
            DEF Continue, VerifyConfirmOrder, VerifyHoldEscrow,
                VerifyGrantCredits, VerifyActivate, VerifyInvoice, WebhookLog,
                CancelCommit, rows
  <1> QED BY <1>1, <1>3
          DEF Next, vars, rows, Fail, Deliver, WebhookBegin, GatewayDecline,
              GatewayCapture, BeginRequest, CreateBegin,
              CreateSubscriptionBegin, RetryBegin, VerifyBegin,
              VerifySubscriptionBegin, RefundBegin, CancelBegin

(* A subscription payment that was refunded is never captured again: every   *)
(* handler that saw it PENDING finds its invoice and rolls back.             *)
THEOREM RefundStays ==
    ASSUME "SUBSCRIPTION" \notin GenericKinds
    PROVE  Spec => RefundIsFinal
  <1>1. IInv /\ [Next]_vars => [Final]_vars
    BY FinalStep
  <1> QED BY <1>1, Inductive, PTL DEF Spec, RefundIsFinal, Final

-----------------------------------------------------------------------------
(* Effects mean money, for every checkout and every kind of payment.  What a *)
(* request of the generic checkout does after its capture rests on that      *)
(* capture; nothing takes a payment's money away from its row again.         *)
VerifyPaid(r) ==
    r.op = "verify" => /\ gateway[r.pay].paid
                       /\ r.at # "capture" => HasMoney(r.pay)

\* VerifyPaid of a request r, in the state after the step.
VerifyPaidNext(r) ==
    r.op = "verify" =>
        /\ gateway'[r.pay].paid
        /\ r.at # "capture" => payment'[r.pay].status
                                 \in {"CAPTURED", "REFUNDED", "PARTIALLY_REFUNDED"}

EInv ==
    /\ Known
    /\ \A c \in Calls : VerifyPaid(call[c])
    /\ EffectsMeanMoney

(* A verify request past its capture is about a payment that has the money.  *)
LEMMA VerifyStaysPaid ==
    EInv /\ [Next]_vars => \A c \in Calls : VerifyPaid(call[c])'
  <1> SUFFICES ASSUME EInv, [Next]_vars
               PROVE  \A d \in Calls : VerifyPaid(call[d])'
    OBVIOUS
  <1> DEFINE Goal == \A d \in Calls : VerifyPaidNext(call'[d])
  <1>a. SUFFICES Goal
    BY DEF VerifyPaidNext, VerifyPaid, Status, HasMoney
  <1>0. TypeOK
    BY DEF EInv, Known
  <1>1. \A p \in Payments : Kept(p)
    BY <1>0, RowsPersist
  <1>2. ASSUME NEW d \in Calls PROVE VerifyPaidNext(call[d])
    <2>1. call[d] \in Call /\ VerifyPaid(call[d])
      BY <1>0 DEF EInv, TypeOK
    <2>2. call[d].op = "verify" => call[d].pay \in Payments
      BY <2>1, CallFields
    <2> QED BY <1>1, <2>1, <2>2
            DEF VerifyPaid, VerifyPaidNext, Kept, Status, HasMoney
  <1>3. ASSUME NEW c \in Calls, NEW next,
               call' = [call EXCEPT ![c] = next], VerifyPaidNext(next)
        PROVE  Goal
    BY <1>0, <1>2, <1>3 DEF TypeOK
  <1>4. ASSUME NEW c \in Calls, NEW next, Begin(c, next), next.op # "verify"
        PROVE  Goal
    BY <1>3, <1>4 DEF Begin, VerifyPaidNext
  <1>5. ASSUME NEW c \in Calls, Answer(c) PROVE Goal
    BY <1>3, <1>5 DEF Answer, VerifyPaidNext, Idle
  <1>6. ASSUME call' = call PROVE Goal
    BY <1>2, <1>6
  <1>7. ASSUME NEW c \in Calls, BeginRequest(c) PROVE Goal
    <2>1. ASSUME NEW p \in Payments, VerifyBegin(c, p) PROVE Goal
      BY <1>3, <2>1 DEF VerifyBegin, Begin, VerifyPaidNext
    <2> QED BY <1>4, <1>7, <2>1
            DEF BeginRequest, CreateBegin, CreateSubscriptionBegin, RetryBegin,
                VerifySubscriptionBegin, RefundBegin, CancelBegin
  <1>8. ASSUME NEW c \in Calls, Continue(c) PROVE Goal
    <2>0. call[c] \in Call /\ VerifyPaidNext(call[c])
      BY <1>0, <1>2 DEF TypeOK
    <2>1. ASSUME NEW label, Goto(c, label), call[c].op = "webhook" PROVE Goal
      <3> DEFINE next == [call[c] EXCEPT !.at = label]
      <3>1. next = [op |-> "webhook", event |-> call[c].event, at |-> label]
        BY <2>0, <2>1, Moved
      <3> QED BY <1>3, <2>1, <3>1 DEF VerifyPaidNext, Goto
    <2>2. ASSUME NEW label, Goto(c, label), call[c].op = "verify",
                 payment'[call[c].pay].status
                   \in {"CAPTURED", "REFUNDED", "PARTIALLY_REFUNDED"}
          PROVE  Goal
      <3> DEFINE next == [call[c] EXCEPT !.at = label]
      <3>1. next = [op |-> "verify", pay |-> call[c].pay, at |-> label]
        BY <2>0, <2>2, Moved
      <3> QED BY <1>3, <2>0, <2>2, <3>1 DEF VerifyPaidNext, Goto
    <2>3. CASE VerifyCapture(c)
      <3>1. call[c].pay \in Payments
        BY <2>0, <2>3, CallFields DEF VerifyCapture, At
      <3> QED BY <1>0, <2>2, <2>3, <3>1
              DEF VerifyCapture, At, Captured, TypeOK, PaymentRow
    <2>4. CASE VerifyConfirmOrder(c) \/ VerifyHoldEscrow(c)
               \/ VerifyGrantCredits(c) \/ VerifyActivate(c)
      BY <1>5, <2>0, <2>2, <2>4
         DEF VerifyConfirmOrder, VerifyHoldEscrow, VerifyGrantCredits,
             VerifyActivate, At, VerifyPaidNext
    <2>5. CASE WebhookFail(c) \/ WebhookCapture(c) \/ WebhookLog(c)
      BY <1>5, <2>1, <2>5 DEF WebhookFail, WebhookCapture, WebhookLog, At
    <2> QED BY <1>5, <1>8, <2>3, <2>4, <2>5
            DEF Continue, CreateInsert, RetryInsert, VerifyInvoice,
                VerifySubscriptionCommit, RefundCommit, CancelCommit
  <1>9. ASSUME NEW e \in inbox, Deliver(e) PROVE Goal
    BY <1>4, <1>6, <1>9 DEF Deliver, WebhookBegin
  <1> QED BY <1>5, <1>6, <1>7, <1>8, <1>9
          DEF Next, vars, Fail, GatewayDecline, GatewayCapture

\* EffectsMeanMoney of one payment.
EffectMeansMoney(p) ==
    /\ granted[p] > 0 \/ p \in invoice => HasMoney(p) /\ gateway[p].paid
    /\ payment[p].kind = "CREDIT_PACK_PURCHASE" => granted[p] =< 1

(* Every statement that grants or invoices does it for a captured payment,   *)
(* and a second grant of credits fails on the ledger's unique key.           *)
LEMMA EffectsStep == EInv /\ [Next]_vars => EffectsMeanMoney'
  <1> SUFFICES ASSUME EInv, [Next]_vars, NEW p \in Payments
               PROVE  EffectMeansMoney(p)'
    BY DEF EffectsMeanMoney, EffectMeansMoney
  <1>0. TypeOK /\ Kept(p) /\ EffectMeansMoney(p) /\ granted[p] \in Nat
    BY RowsPersist DEF EInv, Known, EffectsMeanMoney, EffectMeansMoney, TypeOK
  <1>1. ASSUME granted'[p] = granted[p], p \in invoice' <=> p \in invoice
        PROVE  EffectMeansMoney(p)'
    BY <1>0, <1>1 DEF EffectMeansMoney, Kept, Status, HasMoney
  <1>2. ASSUME NEW c \in Calls, Continue(c) PROVE EffectMeansMoney(p)'
    <2>0. call[c] \in Call /\ CallKnown(call[c]) /\ VerifyPaid(call[c])
      BY <1>0 DEF EInv, Known, TypeOK
    <2> DEFINE q == call[c].pay
    <2>1. ASSUME call[c].op = "verify", call[c].at # "capture"
          PROVE  q \in Payments /\ HasMoney(q) /\ gateway[q].paid /\ Kept(q)
      BY <1>0, <2>0, <2>1, CallFields, RowsPersist DEF VerifyPaid
    <2>2. CASE VerifyGrantCredits(c)
      <3>1. CASE p = q
        BY <1>0, <2>1, <2>2, <3>1
           DEF VerifyGrantCredits, At, EffectMeansMoney, Kept, TypeOK
      <3> QED BY <1>0, <1>1, <2>2, <3>1 DEF VerifyGrantCredits, TypeOK
    <2>3. CASE VerifyActivate(c)
      <3>1. CASE p = q
        BY <1>0, <2>1, <2>3, <3>1
           DEF VerifyActivate, At, EffectMeansMoney, Kept, TypeOK
      <3> QED BY <1>0, <1>1, <2>3, <3>1 DEF VerifyActivate, TypeOK
    <2>4. CASE VerifyInvoice(c)
      <3>1. CASE p = q
        BY <1>0, <2>1, <2>4, <3>1
           DEF VerifyInvoice, At, EffectMeansMoney, Kept, Status, HasMoney
      <3> QED BY <1>0, <1>1, <2>4, <3>1 DEF VerifyInvoice
    <2>5. CASE VerifySubscriptionCommit(c)
      <3>1. /\ q \in Payments /\ Status(q) # "ABSENT" /\ gateway[q].paid
            /\ payment[q].kind = "SUBSCRIPTION"
        BY <2>0, <2>5, CallFields DEF VerifySubscriptionCommit, CallKnown
      <3>2. CASE q \notin invoice /\ p = q
        <4>1. HasMoney(p)' /\ gateway'[p].paid /\ payment'[p].kind = "SUBSCRIPTION"
          BY <1>0, <2>5, <3>1, <3>2
             DEF VerifySubscriptionCommit, CaptureAndActivate, Captured, Status,
                 HasMoney, TypeOK, PaymentRow
        <4> QED BY <4>1 DEF EffectMeansMoney
      <3> QED BY <1>0, <1>1, <2>5, <3>2
              DEF VerifySubscriptionCommit, CaptureAndActivate, TypeOK
    <2>6. CASE WebhookCapture(c)
      <3> DEFINE w == call[c].event.pay
      <3>1. w \in Payments /\ Status(w) # "ABSENT" /\ gateway[w].paid
        BY <2>0, <2>6, CallFields
           DEF WebhookCapture, At, CallKnown, EventKnown, Event
      <3>2. CASE ~WebhookConflicts(w) /\ p = w
        <4>1. HasMoney(p)' /\ gateway'[p].paid /\ payment'[p].kind = payment[p].kind
          BY <1>0, <2>6, <3>1, <3>2
             DEF WebhookCapture, Captured, Status, HasMoney, TypeOK, PaymentRow
        <4>2. payment[p].kind = "CREDIT_PACK_PURCHASE" => granted'[p] =< 1
          BY <1>0, <2>6, <3>2 DEF WebhookCapture, WebhookConflicts, TypeOK
        <4> QED BY <4>1, <4>2 DEF EffectMeansMoney
      <3>3. CASE p # w
        BY <1>0, <1>1, <2>6, <3>3 DEF WebhookCapture, TypeOK
      <3> QED BY <1>1, <2>6, <3>2, <3>3 DEF WebhookCapture
    <2> QED BY <1>1, <1>2, <2>2, <2>3, <2>4, <2>5, <2>6
            DEF Continue, CreateInsert, RetryInsert, VerifyCapture,
                VerifyConfirmOrder, VerifyHoldEscrow, WebhookFail, WebhookLog,
                RefundCommit, CancelCommit, rows
  <1> QED BY <1>1, <1>2
          DEF Next, vars, rows, Fail, Deliver, WebhookBegin, GatewayDecline,
              GatewayCapture, BeginRequest, CreateBegin,
              CreateSubscriptionBegin, RetryBegin, VerifyBegin,
              VerifySubscriptionBegin, RefundBegin, CancelBegin

(* What a payment buys, and its invoice, exist only while the platform has   *)
(* the money, and a pack's credits are granted once: whatever is verified    *)
(* where, delivered twice, declined late, refunded, or dies half-way.        *)
THEOREM EffectsHaveMoney == Spec => []EffectsMeanMoney
  <1>1. Init => EInv
    <2> SUFFICES ASSUME Init PROVE EInv
      OBVIOUS
    <2>1. \A c \in Calls : CallKnown(call[c]) /\ VerifyPaid(call[c])
      BY DEF Init, CallKnown, VerifyPaid, Idle
    <2> QED BY <2>1, TypeInit DEF Init, EInv, Known, EffectsMeanMoney
  <1>2. EInv /\ [Next]_vars => EInv'
    <2> SUFFICES ASSUME EInv, [Next]_vars PROVE EInv'
      OBVIOUS
    <2>1. Known'
      BY TypeNext, KnownCalls, KnownEvents DEF EInv, Known
    <2> QED BY <2>1, VerifyStaysPaid, EffectsStep DEF EInv
  <1>3. EInv => EffectsMeanMoney
    BY DEF EInv
  <1> QED BY <1>1, <1>2, <1>3, PTL DEF Spec

(* A refunded escrow is never funded again: hold finds the order's row.      *)
THEOREM RefundedEscrowStays == Spec => EscrowNeverReheld
  <1>1. [Next]_vars => [escrow = "REFUNDED" => escrow' = "REFUNDED"]_vars
    <2> SUFFICES ASSUME Next, escrow = "REFUNDED" PROVE escrow' = "REFUNDED"
      OBVIOUS
    <2>1. ASSUME NEW c \in Calls, Continue(c) PROVE escrow' = "REFUNDED"
      BY <2>1
         DEF Continue, CreateInsert, RetryInsert, VerifyCapture,
             VerifyConfirmOrder, VerifyHoldEscrow, VerifyGrantCredits,
             VerifyActivate, VerifyInvoice, VerifySubscriptionCommit,
             WebhookFail, WebhookCapture, WebhookLog, RefundCommit,
             CancelCommit, rows
    <2> QED BY <2>1
            DEF Next, rows, Fail, Deliver, WebhookBegin, GatewayDecline,
                GatewayCapture, BeginRequest, CreateBegin,
                CreateSubscriptionBegin, RetryBegin, VerifyBegin,
                VerifySubscriptionBegin, RefundBegin, CancelBegin
  <1> QED BY <1>1, PTL DEF Spec, EscrowNeverReheld

-----------------------------------------------------------------------------
(* What the status tells of the refunds.  Several refunds of one payment may *)
(* be in flight, each begun while the row still read CAPTURED; what decides  *)
(* is that one of the full price leaves the gateway no room for another.     *)
Refunds(c, p) == call[c].op = "refund" /\ call[c].pay = p

Told(p) ==
    /\ ~HasMoney(p) => refunded[p] = 0
    /\ p \in Planned =>
         /\ Status(p) = "REFUNDED" =>
              refunded[p] = Price /\ \A c \in Calls : ~Refunds(c, p)
         /\ Status(p) = "CAPTURED" => refunded[p] = 0
         /\ \A c \in Calls : Refunds(c, p) =>
              /\ call[c].before = 0
              /\ call[c].amount =< gateway[p].returned
              /\ call[c].amount = Price =>
                   refunded[p] = 0 /\ \A d \in Calls : Refunds(d, p) => d = c

RInv == IInv /\ \A p \in Payments : Told(p)

(* A step that neither begins nor commits a refund of a payment leaves what  *)
(* is told of it.                                                            *)
LEMMA ToldStays ==
    ASSUME "SUBSCRIPTION" \notin GenericKinds, RInv, [Next]_vars,
           NEW p \in Payments, refunded'[p] = refunded[p],
           gateway'[p].returned = gateway[p].returned,
           \A c \in Calls : Refunds(c, p)' => call'[c] = call[c],
           Status(p)' = "REFUNDED" => Status(p) = "REFUNDED"
    PROVE  Told(p)'
  <1>0. TypeOK /\ Kept(p) /\ Told(p) /\ \A c \in Calls : CallKnown(call[c])
    BY RowsPersist DEF RInv, IInv
  <1>1. \A c \in Calls : Refunds(c, p)' => Refunds(c, p) /\ call'[c] = call[c]
    BY DEF Refunds
  <1>2. ~HasMoney(p)' => refunded'[p] = 0
    BY <1>0 DEF Kept, Told
  <1>3. CASE p \notin Planned
    <2>1. CASE Status(p) = "ABSENT"
      <3>1. ~HasMoney(p) /\ refunded[p] = 0 /\ \A c \in Calls : ~Refunds(c, p)'
        BY <1>0, <1>1, <2>1 DEF HasMoney, Told, CallKnown, Refunds
      <3>2. Price # 0 /\ refunded'[p] = 0
        BY <3>1, ConstantsAssumption
      <3>3. Status(p)' # "REFUNDED"
        BY <2>1
      <3> QED BY <1>2, <3>1, <3>2, <3>3 DEF Told
    <2>2. CASE Status(p) # "ABSENT"
      <3>1. p \notin Planned'
        BY <1>0, <1>3, <2>2 DEF Kept, Planned, Subscriptions
      <3> QED BY <1>2, <3>1 DEF Told
    <2> QED BY <2>1, <2>2
  <1>4. CASE p \in Planned
    <2>1. Status(p)' = "CAPTURED" => refunded'[p] = 0
      <3>1. Status(p) \in {"REFUNDED", "PARTIALLY_REFUNDED"} => Status(p)' # "CAPTURED"
        BY <1>4, FinalStep DEF RInv, Final
      <3> QED BY <1>0, <1>4, <3>1 DEF Told, HasMoney
    <2>2. Status(p)' = "REFUNDED" =>
            refunded'[p] = Price /\ \A c \in Calls : ~Refunds(c, p)'
      BY <1>0, <1>1, <1>4 DEF Told
    <2>3. ASSUME NEW c \in Calls, Refunds(c, p)'
          PROVE  /\ call'[c].before = 0
                 /\ call'[c].amount =< gateway'[p].returned
                 /\ call'[c].amount = Price =>
                      refunded'[p] = 0 /\ \A d \in Calls : Refunds(d, p)' => d = c
      BY <1>0, <1>1, <1>4, <2>3 DEF Told
    <2> QED BY <1>2, <2>1, <2>2, <2>3 DEF Told
  <1> QED BY <1>3, <1>4

(* A refund begins only with room at the gateway for it: a full one only if  *)
(* no other refund of the payment is in flight, and no other after it.       *)
LEMMA ToldBegin ==
    ASSUME "SUBSCRIPTION" \notin GenericKinds, RInv, NEW c \in Calls,
           NEW p \in Payments, NEW amount \in 1..Price, RefundBegin(c, p, amount)
    PROVE  Told(p)'
  <1>0. TypeOK /\ Told(p)
    BY DEF RInv, IInv
  <1> DEFINE back == gateway[p].returned
  <1>1. /\ back \in Nat /\ back + amount =< Price
        /\ gateway'[p].returned = back + amount
        /\ amount \in Nat /\ amount > 0 /\ Price \in Nat
    BY <1>0, ConstantsAssumption DEF RefundBegin, TypeOK, GatewayOrder
  <1>2. /\ Status(p) = "CAPTURED" /\ Status(p)' = "CAPTURED"
        /\ (p \in Planned)' <=> p \in Planned
        /\ refunded'[p] = refunded[p]
    BY DEF RefundBegin, rows, Status, Planned, Subscriptions
  <1>3. call[c] = Idle /\ call' = [call EXCEPT ![c] =
            [op |-> "refund", pay |-> p, amount |-> amount, before |-> refunded[p]]]
    BY DEF RefundBegin, Begin
  <1>4. CASE p \notin Planned
    BY <1>2, <1>4 DEF Told, HasMoney
  <1>5. CASE p \in Planned
    <2>1. refunded[p] = 0
      BY <1>0, <1>2, <1>5 DEF Told
    <2>2. /\ call'[c].before = 0 /\ call'[c].amount = amount /\ Refunds(c, p)'
          /\ ~Refunds(c, p)
      BY <1>0, <1>3, <2>1 DEF TypeOK, Refunds, Idle
    <2>3. \A d \in Calls : d # c => call'[d] = call[d] /\ (Refunds(d, p)' <=> Refunds(d, p))
      BY <1>0, <1>3 DEF TypeOK, Refunds
    <2>4. ASSUME NEW d \in Calls, Refunds(d, p)
          PROVE  /\ call[d].before = 0 /\ call[d].amount \in Nat
                 /\ call[d].amount > 0 /\ call[d].amount =< back
      <3>1. call[d] \in Call
        BY <1>0 DEF TypeOK
      <3>2. call[d].amount \in 1..Price
        BY <2>4, <3>1, CallFields DEF Refunds
      <3>3. call[d].before = 0 /\ call[d].amount =< back
        BY <1>0, <1>5, <2>4 DEF Told
      <3> QED BY <1>1, <3>2, <3>3
    <2>5. ASSUME NEW d \in Calls, Refunds(d, p)'
          PROVE  /\ call'[d].before = 0
                 /\ call'[d].amount =< gateway'[p].returned
                 /\ call'[d].amount = Price =>
                      refunded'[p] = 0 /\ \A x \in Calls : Refunds(x, p)' => x = d
      <3>1. CASE d = c
        <4>1. amount = Price => \A x \in Calls : ~Refunds(x, p)
          BY <1>1, <2>4
        <4> QED BY <1>1, <1>2, <2>1, <2>2, <2>3, <3>1, <4>1
      <3>2. CASE d # c
        BY <1>1, <2>3, <2>4, <2>5, <3>2
      <3> QED BY <3>1, <3>2
    <2> QED BY <1>2, <2>1, <2>5 DEF Told, HasMoney
  <1> QED BY <1>4, <1>5

(* A refund that commits finds the row's refunds as the status says: the full*)
(* one is the only one, and a partial one never reads as full.               *)
LEMMA ToldCommit ==
    ASSUME RInv, NEW c \in Calls, RefundCommit(c),
           NEW p \in Payments, p = call[c].pay
    PROVE  Told(p)'
  <1> DEFINE full == call[c].before + call[c].amount >= Price
  <1>0. TypeOK /\ call[c] \in Call /\ CallKnown(call[c])
    BY DEF RInv, IInv, TypeOK
  <1>1. p \in Payments /\ call[c].amount \in 1..Price /\ HasMoney(p) /\ Told(p)
    BY <1>0, CallFields DEF RefundCommit, CallKnown, RInv
  <1>2. /\ Status(p)' = IF full THEN "REFUNDED" ELSE "PARTIALLY_REFUNDED"
        /\ refunded'[p] = refunded[p] + call[c].amount
        /\ (p \in Planned)' <=> p \in Planned
    BY <1>0, <1>1 DEF RefundCommit, Status, TypeOK, PaymentRow, Planned, Subscriptions
  <1>3. /\ ~Refunds(c, p)' /\ Refunds(c, p) /\ gateway' = gateway
        /\ \A d \in Calls : d # c => call'[d] = call[d] /\ (Refunds(d, p)' <=> Refunds(d, p))
    BY <1>0 DEF RefundCommit, Answer, Refunds, Idle, TypeOK
  <1>4. CASE p \notin Planned
    BY <1>2, <1>4 DEF Told, HasMoney
  <1>5. CASE p \in Planned
    <2>1. /\ call[c].before = 0
          /\ call[c].amount = Price =>
               refunded[p] = 0 /\ \A d \in Calls : Refunds(d, p) => d = c
          /\ full <=> call[c].amount = Price
      BY <1>1, <1>3, <1>5, ConstantsAssumption DEF Told
    <2>2. ASSUME NEW d \in Calls, Refunds(d, p)'
          PROVE  /\ call'[d].before = 0
                 /\ call'[d].amount =< gateway'[p].returned
                 /\ call'[d].amount # Price
      <3>1. d # c /\ call'[d] = call[d] /\ Refunds(d, p)
        BY <1>3, <2>2
      <3> QED BY <1>1, <1>3, <1>5, <3>1 DEF Told
    <2>3. CASE full
      <3>1. /\ Status(p)' = "REFUNDED" /\ refunded'[p] = Price
            /\ \A d \in Calls : ~Refunds(d, p)'
        BY <1>1, <1>2, <1>3, <2>1, <2>3, ConstantsAssumption
      <3> QED BY <2>2, <3>1 DEF Told, HasMoney
    <2>4. CASE ~full
      BY <1>2, <2>2, <2>4 DEF Told, HasMoney
    <2> QED BY <2>3, <2>4
  <1> QED BY <1>4, <1>5

(* Every step keeps what the status tells.                                   *)
LEMMA ToldStep ==
    ASSUME "SUBSCRIPTION" \notin GenericKinds
    PROVE  RInv /\ [Next]_vars => \A p \in Payments : Told(p)'
  <1> SUFFICES ASSUME RInv, [Next]_vars, NEW p \in Payments PROVE Told(p)'
    OBVIOUS
  <1>0. TypeOK
    BY DEF RInv, IInv
  <1> DEFINE Others == \A c \in Calls : Refunds(c, p)' => call'[c] = call[c]
  <1> DEFINE NotByStatus == Status(p)' = "REFUNDED" => Status(p) = "REFUNDED"
  <1>1. ASSUME Others, NotByStatus, refunded' = refunded, gateway' = gateway
        PROVE  Told(p)'
    BY <1>1, ToldStays
  <1>2. ASSUME NEW c \in Calls, NEW next, call' = [call EXCEPT ![c] = next],
               next.op # "refund"
        PROVE  Others
    BY <1>0, <1>2 DEF Refunds, TypeOK
  <1>3. ASSUME NEW c \in Calls, Answer(c) PROVE Others
    <2>1. Idle.op # "refund"
      BY DEF Idle
    <2> QED BY <1>2, <1>3, <2>1 DEF Answer
  <1>4. ASSUME NEW c \in Calls, NEW label, Goto(c, label),
               call[c].op \in {"verify", "webhook"}
        PROVE  Others
    <2>1. [call[c] EXCEPT !.at = label].op # "refund"
      BY <1>0, <1>4, Moved DEF TypeOK
    <2> QED BY <1>2, <1>4, <2>1 DEF Goto
  <1>5. ASSUME call' = call PROVE Others
    BY <1>5
  <1>6. ASSUME payment' = payment PROVE NotByStatus
    BY <1>6 DEF Status
  <1>7. ASSUME NEW c \in Calls, BeginRequest(c) PROVE Told(p)'
    <2>1. ASSUME NEW q \in Payments, NEW amount \in 1..Price,
                 RefundBegin(c, q, amount)
          PROVE  Told(p)'
      <3>1. CASE p = q
        BY <2>1, <3>1, ToldBegin
      <3>2. CASE p # q
        <4>1. Others
          BY <1>0, <2>1, <3>2 DEF RefundBegin, Begin, Refunds, TypeOK
        <4>2. gateway'[p] = gateway[p] /\ refunded' = refunded /\ NotByStatus
          BY <1>0, <1>6, <2>1, <3>2 DEF RefundBegin, rows, TypeOK
        <4> QED BY <4>1, <4>2, ToldStays
      <3> QED BY <3>1, <3>2
    <2>2. ASSUME NEW next, Begin(c, next), next.op # "refund",
                 UNCHANGED <<rows, gateway>>
          PROVE  Told(p)'
      BY <1>1, <1>2, <1>6, <2>2 DEF Begin, rows
    <2> QED BY <1>7, <2>1, <2>2
            DEF BeginRequest, CreateBegin, CreateSubscriptionBegin, RetryBegin,
                VerifyBegin, VerifySubscriptionBegin, CancelBegin
  <1>8. ASSUME NEW c \in Calls, Continue(c) PROVE Told(p)'
    <2>0. call[c] \in Call
      BY <1>0 DEF TypeOK
    <2>1. CASE RefundCommit(c)
      <3>1. CASE p = call[c].pay
        BY <2>1, <3>1, ToldCommit
      <3>2. CASE p # call[c].pay
        <4>1. refunded'[p] = refunded[p] /\ gateway' = gateway /\ NotByStatus
          BY <1>0, <2>0, <2>1, <3>2, CallFields DEF RefundCommit, Status, TypeOK
        <4> QED BY <1>3, <2>1, <4>1, ToldStays DEF RefundCommit
      <3> QED BY <3>1, <3>2
    <2>2. ASSUME NEW q \in Payments, payment' = Captured(q) PROVE NotByStatus
      BY <1>0, <2>2 DEF Captured, Status, TypeOK, PaymentRow
    <2>3. CASE CreateInsert(c) \/ RetryInsert(c)
      <3>1. NotByStatus
        BY <1>0, <2>3 DEF CreateInsert, RetryInsert, NewRow, Status, TypeOK, Unused
      <3> QED BY <1>1, <1>3, <2>3, <3>1 DEF CreateInsert, RetryInsert
    <2>4. CASE VerifyCapture(c)
      <3>1. call[c].pay \in Payments
        BY <2>0, <2>4, CallFields DEF VerifyCapture, At
      <3> QED BY <1>1, <1>4, <2>2, <2>4, <3>1 DEF VerifyCapture, At
    <2>5. CASE VerifySubscriptionCommit(c)
      <3>1. call[c].pay \in Payments
        BY <2>0, <2>5, CallFields DEF VerifySubscriptionCommit
      <3> QED BY <1>1, <1>3, <1>6, <2>2, <2>5, <3>1
              DEF VerifySubscriptionCommit, CaptureAndActivate
    <2>6. CASE WebhookCapture(c)
      <3>1. call[c].event.pay \in Payments
        BY <2>0, <2>6, CallFields DEF WebhookCapture, At, Event
      <3> QED BY <1>1, <1>3, <1>4, <1>6, <2>2, <2>6, <3>1 DEF WebhookCapture, At
    <2>7. CASE WebhookFail(c)
      <3>1. NotByStatus
        BY <1>0, <2>7 DEF WebhookFail, Status, TypeOK, PaymentRow
      <3> QED BY <1>1, <1>4, <2>7, <3>1 DEF WebhookFail, At
    <2>8. CASE WebhookLog(c)
      BY <1>1, <1>3, <1>4, <1>6, <2>8 DEF WebhookLog, rows
    <2> QED BY <1>1, <1>3, <1>4, <1>6, <1>8, <2>1, <2>3, <2>4, <2>5, <2>6, <2>7, <2>8
            DEF Continue, VerifyConfirmOrder, VerifyHoldEscrow,
                VerifyGrantCredits, VerifyActivate, VerifyInvoice, CancelCommit, At
  <1>9. ASSUME NEW e \in inbox, Deliver(e) PROVE Told(p)'
    <2>1. PICK c \in Calls : WebhookBegin(c, e)
      BY <1>9 DEF Deliver
    <2>2. Others
      <3>1. ASSUME NEW label, Begin(c, [op |-> "webhook", event |-> e, at |-> label])
            PROVE  Others
        <4> DEFINE next == [op |-> "webhook", event |-> e, at |-> label]
        <4>1. next.op # "refund"
          OBVIOUS
        <4> QED BY <1>2, <3>1, <4>1 DEF Begin
      <3> QED BY <1>5, <2>1, <3>1 DEF WebhookBegin
    <2> QED BY <1>1, <1>6, <2>1, <2>2 DEF WebhookBegin, rows
  <1>10. ASSUME NEW q \in Payments, GatewayDecline(q) \/ GatewayCapture(q)
         PROVE  Told(p)'
    <2>1. gateway'[p].returned = gateway[p].returned
      BY <1>0, <1>10 DEF GatewayDecline, GatewayCapture, TypeOK, GatewayOrder
    <2>2. refunded' = refunded /\ Others /\ NotByStatus
      BY <1>5, <1>6, <1>10 DEF GatewayDecline, GatewayCapture, rows
    <2> QED BY <2>1, <2>2, ToldStays
  <1>11. ASSUME NEW c \in Calls, Fail(c) PROVE Told(p)'
    BY <1>1, <1>3, <1>6, <1>11 DEF Fail, rows
  <1>12. CASE UNCHANGED vars
    BY <1>1, <1>5, <1>6, <1>12 DEF vars
  <1> QED BY <1>7, <1>8, <1>9, <1>10, <1>11, <1>12 DEF Next

(* A subscription payment that reads REFUNDED was refunded in full, and one  *)
(* that reads CAPTURED not at all, however many refunds were under way at    *)
(* once or died after the gateway had returned the money.                    *)
THEOREM StatusTells ==
    ASSUME "SUBSCRIPTION" \notin GenericKinds
    PROVE  Spec => []StatusTellsRefunds
  <1>1. Init => \A p \in Payments : Told(p)
    <2> SUFFICES ASSUME Init, NEW p \in Payments PROVE Told(p)
      OBVIOUS
    <2>1. Status(p) = "ABSENT" /\ refunded[p] = 0 /\ \A c \in Calls : ~Refunds(c, p)
      BY DEF Init, Status, Refunds, Idle
    <2> QED BY <2>1 DEF Told
  <1>2. IInv /\ (\A p \in Payments : Told(p)) /\ [Next]_vars
          => (\A p \in Payments : Told(p))'
    BY ToldStep DEF RInv
  <1>3. (\A p \in Payments : Told(p)) => StatusTellsRefunds
    BY DEF Told, StatusTellsRefunds, Planned, Subscriptions
  <1> QED BY <1>1, <1>2, <1>3, Inductive, PTL DEF Spec

-----------------------------------------------------------------------------
(* What the Refund rows claim has been returned.  The gateway is ahead of the*)
(* rows by the refunds in flight and by those that died; so the invariant    *)
(* counts the ones in flight.  A tally accounts for every request of every   *)
(* set of requests, and stands for the sum of what they owe.                 *)
TallyOf(w, value) ==
    /\ w \in [SUBSET Calls -> Nat]
    /\ w[{}] = 0
    /\ \A some \in SUBSET Calls : \A c \in some :
         w[some] = value[c] + w[some \ {c}]

Owed(p) == [c \in Calls |-> IF Refunds(c, p) THEN call[c].amount ELSE 0]

Backed(p) ==
    \E w : TallyOf(w, Owed(p)) /\ refunded[p] + w[Calls] =< gateway[p].returned

LEMMA OwedType ==
    ASSUME TypeOK, NEW p \in Payments, NEW c \in Calls
    PROVE  Owed(p)[c] \in Nat
  <1>1. call[c] \in Call
    BY DEF TypeOK
  <1>2. Refunds(c, p) => call[c].amount \in 1..Price
    BY <1>1, CallFields DEF Refunds
  <1> QED BY <1>2, ConstantsAssumption DEF Owed

(* When one request owes another amount, every tally changes by as much.     *)
LEMMA TallyChanges ==
    ASSUME NEW value, NEW w, TallyOf(w, value), NEW c \in Calls,
           \A d \in Calls : value[d] \in Nat,
           NEW after, after[c] \in Nat,
           \A d \in Calls \ {c} : after[d] = value[d]
    PROVE  \E v : TallyOf(v, after) /\ v[Calls] + value[c] = w[Calls] + after[c]
  <1> DEFINE v == [some \in SUBSET Calls |->
                     IF c \in some THEN after[c] + w[some \ {c}] ELSE w[some]]
  <1>1. v \in [SUBSET Calls -> Nat] /\ v[{}] = 0
    BY DEF TallyOf
  <1>2. ASSUME NEW some \in SUBSET Calls, NEW d \in some
        PROVE  v[some] = after[d] + v[some \ {d}]
    <2>1. some \ {d} \in SUBSET Calls /\ some \ {c} \in SUBSET Calls /\ d \in Calls
      OBVIOUS
    <2>2. CASE d = c
      BY <2>1, <2>2
    <2>3. CASE d # c /\ c \in some
      <3> DEFINE rest == (some \ {c}) \ {d}
      <3>1. w[some \ {c}] = value[d] + w[rest] /\ rest \in SUBSET Calls
        BY <2>1, <2>3 DEF TallyOf
      <3>2. v[some] = after[c] + w[some \ {c}]
        BY <2>3
      <3>3. v[some \ {d}] = after[c] + w[rest]
        <4>1. (some \ {d}) \ {c} = rest /\ c \in some \ {d}
          BY <2>3
        <4> QED BY <2>1, <4>1
      <3>4. after[d] = value[d] /\ value[d] \in Nat /\ w[rest] \in Nat
        BY <2>1, <2>3, <3>1 DEF TallyOf
      <3> QED BY <3>1, <3>2, <3>3, <3>4
    <2>4. CASE d # c /\ c \notin some
      BY <2>1, <2>4 DEF TallyOf
    <2> QED BY <2>2, <2>3, <2>4
  <1>3. TallyOf(v, after)
    BY <1>1, <1>2 DEF TallyOf
  <1>4. v[Calls] + value[c] = w[Calls] + after[c]
    <2>1. w[Calls] = value[c] + w[Calls \ {c}] /\ w[Calls \ {c}] \in Nat
      BY DEF TallyOf
    <2>2. v[Calls] = after[c] + w[Calls \ {c}]
      OBVIOUS
    <2> QED BY <2>1, <2>2
  <1> QED BY <1>3, <1>4

(* A step of one request that claims no more of a payment, in the rows and in*)
(* flight together, than the gateway returns in that step.                   *)
LEMMA BackedStep ==
    ASSUME TypeOK, TypeOK', NEW p \in Payments, Backed(p), NEW c \in Calls,
           \A d \in Calls \ {c} : call'[d] = call[d],
           refunded'[p] + Owed(p)'[c] + gateway[p].returned
             =< refunded[p] + Owed(p)[c] + gateway'[p].returned
    PROVE  Backed(p)'
  <1>1. PICK w : /\ TallyOf(w, Owed(p))
                 /\ refunded[p] + w[Calls] =< gateway[p].returned
    BY DEF Backed
  <1>2. /\ \A d \in Calls : Owed(p)[d] \in Nat
        /\ Owed(p)'[c] \in Nat
    <2>1. \A d \in Calls : Owed(p)[d] \in Nat
      BY OwedType
    <2>2. Owed(p)'[c] \in Nat
      <3>1. call'[c] \in Call
        BY DEF TypeOK
      <3>2. call'[c].op = "refund" => call'[c].amount \in Nat
        BY <3>1, CallFields, ConstantsAssumption
      <3> QED BY <3>2 DEF Owed, Refunds
    <2> QED BY <2>1, <2>2
  <1>3. \A d \in Calls \ {c} : Owed(p)'[d] = Owed(p)[d]
    BY DEF Owed, Refunds
  <1>4. PICK v : /\ TallyOf(v, Owed(p)')
                 /\ v[Calls] + Owed(p)[c] = w[Calls] + Owed(p)'[c]
    BY <1>1, <1>2, <1>3, TallyChanges
  <1>5. /\ refunded[p] \in Nat /\ refunded'[p] \in Nat
        /\ gateway[p].returned \in Nat /\ gateway'[p].returned \in Nat
        /\ w[Calls] \in Nat /\ v[Calls] \in Nat
    BY <1>1, <1>4, ConstantsAssumption DEF TypeOK, GatewayOrder, TallyOf
  <1>6. refunded'[p] + v[Calls] =< gateway'[p].returned
    BY <1>1, <1>2, <1>4, <1>5
  <1>7. TallyOf(v, Owed(p))'
    BY <1>4 DEF TallyOf
  <1> QED BY <1>6, <1>7 DEF Backed

(* A request moved by one statement that is not the beginning of a refund.   *)
Moves(c) == \E next : next.op # "refund" /\ call' = [call EXCEPT ![c] = next]

SameRefunds ==
    refunded' = refunded
      /\ \A p \in Payments : gateway'[p].returned = gateway[p].returned

(* Of all the steps only two touch the refunds.                              *)
LEMMA RefundSteps ==
    ASSUME TypeOK, [Next]_vars
    PROVE  \/ \E c \in Calls, q \in Payments, amount \in 1..Price :
                RefundBegin(c, q, amount)
           \/ \E c \in Calls : RefundCommit(c)
           \/ SameRefunds /\ (call' = call \/ \E c \in Calls : Moves(c))
  <1>1. ASSUME NEW c \in Calls, Answer(c) PROVE Moves(c)
    BY <1>1 DEF Answer, Moves, Idle
  <1>2. ASSUME NEW c \in Calls, NEW label, Goto(c, label),
               call[c].op \in {"verify", "webhook"}
        PROVE  Moves(c)
    <2>1. [call[c] EXCEPT !.at = label].op # "refund"
      BY <1>2, Moved DEF TypeOK
    <2> QED BY <1>2, <2>1 DEF Goto, Moves
  <1>3. ASSUME NEW c \in Calls, NEW next, Begin(c, next), next.op # "refund"
        PROVE  Moves(c)
    BY <1>3 DEF Begin, Moves
  <1>4. ASSUME refunded' = refunded, gateway' = gateway PROVE SameRefunds
    BY <1>4 DEF SameRefunds
  <1>5. ASSUME NEW c \in Calls, BeginRequest(c),
               ~\E q \in Payments, amount \in 1..Price : RefundBegin(c, q, amount)
        PROVE  SameRefunds /\ Moves(c)
    <2>1. SameRefunds
      BY <1>4, <1>5
         DEF BeginRequest, CreateBegin, CreateSubscriptionBegin, RetryBegin,
             VerifyBegin, VerifySubscriptionBegin, CancelBegin, rows
    <2>2. \E next : Begin(c, next) /\ next.op # "refund"
      <3>1. ASSUME NEW kind, CreateBegin(c, kind)
            PROVE  \E next : Begin(c, next) /\ next.op # "refund"
        BY <3>1 DEF CreateBegin
      <3>2. CASE CreateSubscriptionBegin(c)
        BY <3>2 DEF CreateSubscriptionBegin
      <3>3. ASSUME NEW p, RetryBegin(c, p)
            PROVE  \E next : Begin(c, next) /\ next.op # "refund"
        BY <3>3 DEF RetryBegin
      <3>4. ASSUME NEW p, VerifyBegin(c, p)
            PROVE  \E next : Begin(c, next) /\ next.op # "refund"
        BY <3>4 DEF VerifyBegin
      <3>5. ASSUME NEW p, VerifySubscriptionBegin(c, p)
            PROVE  \E next : Begin(c, next) /\ next.op # "refund"
        BY <3>5 DEF VerifySubscriptionBegin
      <3>6. CASE CancelBegin(c)
        BY <3>6 DEF CancelBegin
      <3> QED BY <1>5, <3>1, <3>2, <3>3, <3>4, <3>5, <3>6 DEF BeginRequest
    <2> QED BY <1>3, <2>1, <2>2
  <1>6. ASSUME NEW c \in Calls, Continue(c), ~RefundCommit(c)
        PROVE  SameRefunds /\ Moves(c)
    <2>1. SameRefunds
      BY <1>4, <1>6
         DEF Continue, CreateInsert, RetryInsert, VerifyCapture,
             VerifyConfirmOrder, VerifyHoldEscrow, VerifyGrantCredits,
             VerifyActivate, VerifyInvoice, VerifySubscriptionCommit,
             WebhookFail, WebhookCapture, WebhookLog, CancelCommit, rows
    <2>2. \/ Answer(c)
          \/ call[c].op \in {"verify", "webhook"} /\ \E label : Goto(c, label)
      BY <1>6
         DEF Continue, CreateInsert, RetryInsert, VerifyCapture,
             VerifyConfirmOrder, VerifyHoldEscrow, VerifyGrantCredits,
             VerifyActivate, VerifyInvoice, VerifySubscriptionCommit,
             WebhookFail, WebhookCapture, WebhookLog, CancelCommit, At
    <2> QED BY <1>1, <1>2, <2>1, <2>2
  <1>7. ASSUME NEW e \in inbox, NEW c \in Calls, WebhookBegin(c, e)
        PROVE  SameRefunds /\ (call' = call \/ Moves(c))
    <2>1. SameRefunds
      BY <1>4, <1>7 DEF WebhookBegin, rows
    <2>2. ASSUME NEW label, Begin(c, [op |-> "webhook", event |-> e, at |-> label])
          PROVE  Moves(c)
      <3>1. [op |-> "webhook", event |-> e, at |-> label].op # "refund"
        OBVIOUS
      <3> QED BY <1>3, <2>2, <3>1
    <2> QED BY <1>7, <2>1, <2>2 DEF WebhookBegin
  <1>8. ASSUME NEW q \in Payments, GatewayDecline(q) \/ GatewayCapture(q)
        PROVE  SameRefunds /\ call' = call
    BY <1>8 DEF GatewayDecline, GatewayCapture, rows, SameRefunds, TypeOK, GatewayOrder
  <1>9. ASSUME NEW c \in Calls, Fail(c) PROVE SameRefunds /\ Moves(c)
    BY <1>1, <1>4, <1>9 DEF Fail, rows
  <1>10. CASE UNCHANGED vars
    BY <1>4, <1>10 DEF vars
  <1> QED BY <1>5, <1>6, <1>7, <1>8, <1>9, <1>10 DEF Next, Deliver

(* Nothing but a refund touches the books, and a refund moves the gateway's  *)
(* first: whatever commits, dies or never returns, the rows stay behind.     *)
LEMMA BackedNext ==
    ASSUME TypeOK, TypeOK', [Next]_vars, NEW p \in Payments, Backed(p)
    PROVE  Backed(p)'
  <1>0. \A c \in Calls : Owed(p)[c] \in Nat
    BY OwedType
  <1>1. /\ refunded[p] \in Nat /\ gateway[p].returned \in Nat
        /\ refunded'[p] \in Nat /\ gateway'[p].returned \in Nat
    BY ConstantsAssumption DEF TypeOK, GatewayOrder
  <1>2. ASSUME NEW c \in Calls, Moves(c)
        PROVE  /\ \A d \in Calls \ {c} : call'[d] = call[d]
               /\ Owed(p)'[c] = 0
    BY <1>2 DEF Moves, Owed, Refunds, TypeOK
  <1>3. ASSUME NEW c \in Calls, NEW q \in Payments, NEW amount \in 1..Price,
               RefundBegin(c, q, amount)
        PROVE  Backed(p)'
    <2>1. /\ call[c] = Idle /\ refunded' = refunded
          /\ \A d \in Calls \ {c} : call'[d] = call[d]
          /\ call'[c] = [op |-> "refund", pay |-> q, amount |-> amount,
                         before |-> refunded[q]]
      BY <1>3 DEF RefundBegin, Begin, TypeOK, rows
    <2>2. Owed(p)[c] = 0 /\ Owed(p)'[c] = IF p = q THEN amount ELSE 0
      BY <2>1 DEF Owed, Refunds, Idle
    <2>3. gateway'[p].returned
            = IF p = q THEN gateway[p].returned + amount ELSE gateway[p].returned
      BY <1>3 DEF RefundBegin, TypeOK, GatewayOrder
    <2> QED BY <1>1, <2>1, <2>2, <2>3, BackedStep
  <1>4. ASSUME NEW c \in Calls, RefundCommit(c) PROVE Backed(p)'
    <2>1. Moves(c) /\ gateway' = gateway
      BY <1>4 DEF RefundCommit, Answer, Moves, Idle
    <2>2. refunded'[p] = refunded[p] + Owed(p)[c]
      <3>1. call[c] \in Call
        BY DEF TypeOK
      <3>2. call[c].pay \in Payments /\ call[c].amount \in Nat
        BY <1>4, <3>1, CallFields, ConstantsAssumption DEF RefundCommit
      <3> QED BY <1>1, <1>4, <3>2 DEF RefundCommit, Owed, Refunds, TypeOK
    <2> QED BY <1>0, <1>1, <1>2, <2>1, <2>2, BackedStep
  <1>5. CASE SameRefunds /\ call' = call
    <2>1. Owed(p)' = Owed(p)
      BY <1>5 DEF Owed, Refunds
    <2> QED BY <1>5, <2>1 DEF SameRefunds, Backed, TallyOf
  <1>6. ASSUME SameRefunds, NEW c \in Calls, Moves(c) PROVE Backed(p)'
    <2>1. refunded'[p] = refunded[p] /\ gateway'[p].returned = gateway[p].returned
      BY <1>6 DEF SameRefunds
    <2> QED BY <1>0, <1>1, <1>2, <1>6, <2>1, BackedStep
  <1> QED BY <1>3, <1>4, <1>5, <1>6, RefundSteps

(* The rows of a payment of any kind never claim more than the gateway has   *)
(* returned, and the status of a subscription payment tells what they claim. *)
THEOREM RefundsHonest ==
    ASSUME "SUBSCRIPTION" \notin GenericKinds
    PROVE  Spec => []RefundStatusHonest
  <1> DEFINE AllBacked == \A p \in Payments : Backed(p)
  <1>1. Init => AllBacked
    <2> SUFFICES ASSUME Init, NEW p \in Payments PROVE Backed(p)
      OBVIOUS
    <2> DEFINE w == [some \in SUBSET Calls |-> 0]
    <2>1. \A c \in Calls : Owed(p)[c] = 0
      BY DEF Init, Owed, Refunds, Idle
    <2>2. TallyOf(w, Owed(p)) /\ refunded[p] + w[Calls] =< gateway[p].returned
      BY <2>1 DEF TallyOf, Init
    <2> QED BY <2>2 DEF Backed
  <1>2. TypeOK /\ TypeOK' /\ AllBacked /\ [Next]_vars => AllBacked'
    BY BackedNext
  <1>3. TypeOK /\ AllBacked => \A p \in Planned : refunded[p] =< gateway[p].returned
    <2> SUFFICES ASSUME TypeOK, NEW p \in Payments, Backed(p)
                 PROVE  refunded[p] =< gateway[p].returned
      BY DEF Planned, Subscriptions
    <2>1. PICK w : /\ TallyOf(w, Owed(p))
                   /\ refunded[p] + w[Calls] =< gateway[p].returned
      BY DEF Backed
    <2> QED BY <2>1, ConstantsAssumption DEF TallyOf, TypeOK, GatewayOrder
  <1>4. TypeOK /\ AllBacked /\ StatusTellsRefunds => RefundStatusHonest
    BY <1>3 DEF RefundStatusHonest
  <1> HIDE DEF AllBacked
  <1> QED BY <1>1, <1>2, <1>4, TypeCorrect, StatusTells, PTL DEF Spec

-----------------------------------------------------------------------------
(* The refinement.  In a state of the invariant a planned payment is never   *)
(* torn, so three facts tell how far its purchase has come.                  *)
PurchaseOf(p) ==
    IF payment[p].kind = "SUBSCRIPTION" /\ payment[p].planned /\ HasMoney(p)
      THEN "active"
      ELSE IF payment[p].kind = "SUBSCRIPTION" /\ payment[p].planned
                /\ gateway[p].paid
             THEN "paid" ELSE "unpaid"

NeverTorn == purchaseState = [p \in Payments |-> PurchaseOf(p)]

(* Seen from outside, the purchase of a subscription is never torn.         *)
LEMMA PurchaseValue == IInv => NeverTorn
  <1> SUFFICES ASSUME IInv PROVE NeverTorn
    OBVIOUS
  <1> DEFINE Value(p) ==
       CASE p \in Planned /\ HasMoney(p) /\ granted[p] = 1 /\ p \in invoice -> "active"
         [] p \in Planned /\ ~HasMoney(p) /\ granted[p] = 0 /\ p \notin invoice ->
               IF gateway[p].paid THEN "paid" ELSE "unpaid"
         [] p \notin Planned -> "unpaid"
         [] OTHER -> "torn"
  <1>1. ASSUME NEW p \in Payments PROVE Value(p) = PurchaseOf(p)
    <2>1. /\ p \in Planned <=> payment[p].kind = "SUBSCRIPTION" /\ payment[p].planned
          /\ p \in Planned => /\ granted[p] \in {0, 1}
                              /\ HasMoney(p) <=> granted[p] = 1
                              /\ HasMoney(p) <=> p \in invoice
      BY DEF IInv, SubscriptionSettledTogether, Planned, Subscriptions
    <2>2. CASE p \notin Planned
      BY <2>1, <2>2 DEF PurchaseOf
    <2>3. CASE p \in Planned /\ HasMoney(p)
      BY <2>1, <2>3 DEF PurchaseOf
    <2>4. CASE p \in Planned /\ ~HasMoney(p)
      BY <2>1, <2>4 DEF PurchaseOf
    <2> QED BY <2>2, <2>3, <2>4
  <1> HIDE DEF Value
  <1>2. purchaseState = [p \in Payments |-> Value(p)]
    BY DEF purchaseState, Value
  <1> QED BY <1>1, <1>2 DEF NeverTorn

\* What a step does to the purchases: nothing, or one moves one place on.
NothingBought == \A p \in Payments : PurchaseOf(p)' = PurchaseOf(p)

Advances(q) ==
    /\ \/ PurchaseOf(q) = "unpaid" /\ PurchaseOf(q)' = "paid"
       \/ PurchaseOf(q) = "paid" /\ PurchaseOf(q)' = "active"
    /\ \A p \in Payments \ {q} : PurchaseOf(p)' = PurchaseOf(p)

(* Every statement of a handler is a step of SubscriptionPurchase, for one  *)
(* payment at most, or changes nothing that is seen from outside.          *)
LEMMA PurchaseStep ==
    ASSUME "SUBSCRIPTION" \notin GenericKinds
    PROVE  IInv /\ [Next]_vars
             => NothingBought \/ \E q \in Payments : Advances(q)
  <1> SUFFICES ASSUME IInv, [Next]_vars
               PROVE  NothingBought \/ \E q \in Payments : Advances(q)
    OBVIOUS
  <1>0. TypeOK /\ AbsentIsBlank /\ PaidFirst
    BY DEF IInv
  <1>1. ASSUME UNCHANGED <<payment, gateway>> PROVE NothingBought
    BY <1>1 DEF NothingBought, PurchaseOf, HasMoney, Status
  <1>2. ASSUME NEW q \in Unused, NEW kind, NEW planned \in BOOLEAN,
               payment' = [payment EXCEPT ![q] = NewRow(kind, planned)],
               gateway' = gateway
        PROVE  NothingBought
    BY <1>0, <1>2 DEF NothingBought, PurchaseOf, HasMoney, Status, Unused,
                      NewRow, TypeOK, AbsentIsBlank
  <1>3. ASSUME NEW q \in Payments, payment' = Captured(q), gateway' = gateway,
               payment[q].kind = "SUBSCRIPTION" /\ payment[q].planned,
               gateway[q].paid, ~HasMoney(q)
        PROVE  Advances(q)
    BY <1>0, <1>3 DEF Advances, PurchaseOf, HasMoney, Status, Captured, TypeOK,
                      PaymentRow
  <1>4. ASSUME NEW q \in Payments, payment' = Captured(q), gateway' = gateway,
               ~(payment[q].kind = "SUBSCRIPTION" /\ payment[q].planned)
        PROVE  NothingBought
    BY <1>0, <1>4 DEF NothingBought, PurchaseOf, HasMoney, Status, Captured,
                      TypeOK, PaymentRow
  <1>5. ASSUME NEW q \in Payments, GatewayDecline(q) PROVE NothingBought
    BY <1>0, <1>5 DEF GatewayDecline, rows, NothingBought, PurchaseOf, HasMoney,
                      Status, TypeOK, GatewayOrder
  <1>6. ASSUME NEW q \in Payments, GatewayCapture(q)
        PROVE  NothingBought \/ Advances(q)
    <2>1. CASE payment[q].kind = "SUBSCRIPTION" /\ payment[q].planned
      <3>1. ~HasMoney(q)
        BY <1>0, <1>6, <2>1 DEF GatewayCapture, PaidFirst, Planned, Subscriptions
      <3> QED BY <1>0, <1>6, <2>1, <3>1
              DEF GatewayCapture, rows, Advances, PurchaseOf, HasMoney, Status,
                  TypeOK, GatewayOrder
    <2>2. CASE ~(payment[q].kind = "SUBSCRIPTION" /\ payment[q].planned)
      BY <1>0, <1>6, <2>2 DEF GatewayCapture, rows, NothingBought, PurchaseOf,
                              HasMoney, Status, TypeOK, GatewayOrder
    <2> QED BY <2>1, <2>2
  <1>7. ASSUME NEW c \in Calls, BeginRequest(c) PROVE NothingBought
    <2>1. ASSUME NEW q \in Payments, NEW amount \in 1..Price,
                 RefundBegin(c, q, amount)
          PROVE  NothingBought
      BY <1>0, <2>1 DEF RefundBegin, rows, NothingBought, PurchaseOf, HasMoney,
                        Status, TypeOK, GatewayOrder
    <2> QED BY <1>1, <1>7, <2>1
            DEF BeginRequest, CreateBegin, CreateSubscriptionBegin, RetryBegin,
                VerifyBegin, VerifySubscriptionBegin, CancelBegin, rows
  <1>8. ASSUME NEW c \in Calls, Continue(c)
        PROVE  NothingBought \/ \E q \in Payments : Advances(q)
    <2>0. call[c] \in Call /\ CallKnown(call[c])
      BY <1>0 DEF IInv, TypeOK
    <2>1. CASE CreateInsert(c)
      <3>1. call[c].planned \in BOOLEAN
        BY <2>0, <2>1, CallFields DEF CreateInsert
      <3> QED BY <1>2, <2>1, <3>1 DEF CreateInsert
    <2>2. CASE RetryInsert(c)
      BY <1>2, <2>2 DEF RetryInsert
    <2>3. CASE VerifyCapture(c)
      BY <1>4, <2>0, <2>3, CallFields DEF VerifyCapture, At, CallKnown
    <2>4. ASSUME NEW q \in Payments, q \notin invoice,
                 payment[q].kind = "SUBSCRIPTION" /\ payment[q].planned
          PROVE  ~HasMoney(q)
      BY <2>4 DEF IInv, SubscriptionSettledTogether, Planned, Subscriptions
    <2>5. CASE VerifySubscriptionCommit(c)
      <3>1. call[c].pay \in Payments /\ gateway[call[c].pay].paid
        BY <2>0, <2>5, CallFields DEF VerifySubscriptionCommit, CallKnown
      <3> QED BY <1>1, <1>3, <1>4, <2>4, <2>5, <3>1
              DEF VerifySubscriptionCommit, CaptureAndActivate
    <2>6. CASE WebhookCapture(c)
      <3> DEFINE w == call[c].event.pay
      <3>1. w \in Payments /\ gateway[w].paid
        BY <2>0, <2>6, CallFields
           DEF WebhookCapture, At, Event, CallKnown, EventKnown
      <3> QED BY <1>1, <1>3, <1>4, <2>4, <2>6, <3>1
              DEF WebhookCapture, WebhookConflicts
    <2>7. CASE WebhookFail(c)
      BY <1>0, <2>7 DEF WebhookFail, NothingBought, PurchaseOf, HasMoney, Status,
                        TypeOK, PaymentRow
    <2>8. CASE RefundCommit(c)
      <3>1. HasMoney(call[c].pay)
        BY <2>0, <2>8 DEF RefundCommit, CallKnown
      <3> QED BY <1>0, <2>8, <3>1
              DEF RefundCommit, NothingBought, PurchaseOf, HasMoney, Status,
                  TypeOK, PaymentRow
    <2> QED BY <1>1, <1>8, <2>1, <2>2, <2>3, <2>5, <2>6, <2>7, <2>8
            DEF Continue, VerifyConfirmOrder, VerifyHoldEscrow,
                VerifyGrantCredits, VerifyActivate, VerifyInvoice, WebhookLog,
                CancelCommit, rows
  <1> QED BY <1>1, <1>5, <1>6, <1>7, <1>8
          DEF Next, vars, rows, Fail, Deliver, WebhookBegin

(* Requests, webhooks, retries, refunds and deaths implement buying a        *)
(* subscription as one indivisible step after the payment at the gateway.    *)
THEOREM Refinement ==
    ASSUME "SUBSCRIPTION" \notin GenericKinds
    PROVE  Spec => ImplementsPurchase
  <1>1. Init => Purchase!Init
    BY DEF Init, Purchase!Init, purchaseState, Planned, Subscriptions
  <1>2. NeverTorn /\ NeverTorn' /\ IInv /\ [Next]_vars
          => [Purchase!Next]_purchaseState
    <2> SUFFICES ASSUME NeverTorn, NeverTorn', IInv, [Next]_vars
                 PROVE  [Purchase!Next]_purchaseState
      OBVIOUS
    <2>1. CASE NothingBought
      BY <2>1 DEF NothingBought, NeverTorn
    <2>2. ASSUME NEW q \in Payments, Advances(q) PROVE Purchase!Next
      <3>1. purchaseState' = [purchaseState EXCEPT ![q] = PurchaseOf(q)']
        BY <2>2 DEF Advances, NeverTorn
      <3>2. Purchase!Pay(q) \/ Purchase!Settle(q)
        BY <2>2, <3>1 DEF Advances, NeverTorn, Purchase!Pay, Purchase!Settle
      <3> QED BY <3>2 DEF Purchase!Next
    <2> QED BY <2>1, <2>2, PurchaseStep
  <1>3. IInv => NeverTorn
    BY PurchaseValue
  <1> QED BY <1>1, <1>2, <1>3, Inductive, PTL
          DEF Spec, ImplementsPurchase, Purchase!Spec
=============================================================================
