---------------------------- MODULE Procurement ----------------------------
(***************************************************************************)
(* From the quotes of one RFQ to orders, by either of the two ways the     *)
(* program has: the buyer accepts a quote (QuoteService.accept, or         *)
(* SmartRfqService.acceptQuote, which places the order itself), or the     *)
(* quote is negotiated, the negotiation becomes a purchase order, and the  *)
(* locked purchase order an order (SmartNegotiationService,                *)
(* SmartPoService, SmartOrderService).                                     *)
(*                                                                         *)
(* The services do not call each other: they meet in the rows.  Every      *)
(* operation reads its rows, checks them, and writes them by id in a       *)
(* transaction later; a request in flight is a value of "call".            *)
(*                                                                         *)
(* Left out: what is offered and its amounts, counter offers' rounds, who  *)
(* may call, RFQ credits, and edits of the RFQ.  An operation's reads are  *)
(* taken as one.                                                           *)
(***************************************************************************)
EXTENDS Naturals

CONSTANTS
    Quotes,         \* quotes of the RFQ, of different vendors
    Negotiable,     \* bound: those of them that are negotiated
    Calls,          \* requests served at the same time
    MaxRequests     \* bound: requests made altogether

ASSUME ConstantsAssumption == Negotiable \subseteq Quotes

VARIABLES
    rfq,            \* Rfq: status, reopened, acceptedQuoteId as a set
    quote,          \* Quote.status
    negotiation,    \* Negotiation.status; quoteId is unique
    po,             \* PurchaseOrder.status; negotiationId is unique
    versions,       \* statuses in the purchase order's PurchaseOrderVersion rows
    orders,         \* Orders of a quote: placed by acceptQuote, made from the PO
    call,           \* what each request in flight is to do
    requests,       \* requests made so far
    overlapped      \* history: something was done amid a request

rows == <<rfq, quote, negotiation, po, versions, orders>>
history == <<requests, overlapped>>
vars == <<rows, call, history>>

-----------------------------------------------------------------------------
RfqStatuses == {"ACTIVE", "QUOTED", "CLOSED", "CANCELLED", "EXPIRED"}
QuoteStatuses == {"ABSENT", "DRAFT", "SUBMITTED", "VIEWED", "NEGOTIATING",
                  "ACCEPTED", "REJECTED", "WITHDRAWN", "EXPIRED"}
\* OPEN stands for NEGOTIATION_STARTED, BUYER_COUNTER and SELLER_COUNTER.
NegotiationStatuses == {"ABSENT", "OPEN", "ACCEPTED", "REJECTED", "CANCELLED"}
PoStatuses == {"ABSENT", "DRAFT", "BUYER_CONFIRMED", "SELLER_PENDING",
               "SELLER_ACCEPTED", "LOCKED", "REJECTED", "CANCELLED",
               "CONVERTED_TO_ORDER"}

Offered == {"SUBMITTED", "VIEWED"}
Settled == {"ABSENT", "REJECTED", "WITHDRAWN", "EXPIRED"}
PoClosed == {"ABSENT", "REJECTED", "CANCELLED", "LOCKED", "CONVERTED_TO_ORDER"}

\* Operations that take one row from some statuses to another one.
RfqMoves ==
    [close |-> [from |-> {"ACTIVE", "QUOTED"}, to |-> "CLOSED"],
     cancel |-> [from |-> {"ACTIVE", "QUOTED", "EXPIRED"}, to |-> "CANCELLED"],
     reopen |-> [from |-> {"CLOSED"}, to |-> "ACTIVE"]]

QuoteMoves ==
    [submit |-> [from |-> {"DRAFT"}, to |-> "SUBMITTED"],
     view |-> [from |-> {"SUBMITTED"}, to |-> "VIEWED"],
     revise |-> [from |-> Offered, to |-> "SUBMITTED"],
     withdraw |-> [from |-> {"DRAFT"} \cup Offered, to |-> "WITHDRAWN"],
     reject |-> [from |-> Offered, to |-> "REJECTED"]]

NegotiationMoves ==
    [counter |-> [from |-> {"OPEN"}, to |-> "OPEN"],
     accept |-> [from |-> {"OPEN"}, to |-> "ACCEPTED"],
     reject |-> [from |-> {"OPEN"}, to |-> "REJECTED"],
     cancel |-> [from |-> {"OPEN"}, to |-> "CANCELLED"]]

\* Mutant: the buyer may lock without waiting for the seller.
PoMoves_LockPending ==
    [confirm |-> [from |-> {"DRAFT"}, to |-> "BUYER_CONFIRMED"],
     markSellerPending |-> [from |-> {"BUYER_CONFIRMED"}, to |-> "SELLER_PENDING"],
     accept |-> [from |-> {"SELLER_PENDING"}, to |-> "SELLER_ACCEPTED"],
     requestRevision |-> [from |-> {"SELLER_PENDING"}, to |-> "DRAFT"],
     lock |-> [from |-> {"SELLER_PENDING", "SELLER_ACCEPTED"}, to |-> "LOCKED"],
     reject |-> [from |-> PoStatuses \ PoClosed, to |-> "REJECTED"],
     cancel |-> [from |-> PoStatuses \ PoClosed, to |-> "CANCELLED"]]

PoMoves ==
    [confirm |-> [from |-> {"DRAFT"}, to |-> "BUYER_CONFIRMED"],
     markSellerPending |-> [from |-> {"BUYER_CONFIRMED"}, to |-> "SELLER_PENDING"],
     accept |-> [from |-> {"SELLER_PENDING"}, to |-> "SELLER_ACCEPTED"],
     requestRevision |-> [from |-> {"SELLER_PENDING"}, to |-> "DRAFT"],
     lock |-> [from |-> {"SELLER_ACCEPTED"}, to |-> "LOCKED"],
     reject |-> [from |-> PoStatuses \ PoClosed, to |-> "REJECTED"],
     cancel |-> [from |-> PoStatuses \ PoClosed, to |-> "CANCELLED"]]

Idle == [op |-> "idle"]
Call ==
    {Idle}
    \cup [op: {"rfq"}, to: RfqStatuses]
    \cup [op: {"create", "award", "order", "start", "generate", "convert"}, q: Quotes]
    \cup [op: {"quote"}, q: Quotes, to: QuoteStatuses]
    \cup [op: {"negotiation"}, q: Quotes, to: NegotiationStatuses]
    \cup [op: {"po"}, q: Quotes, to: PoStatuses]
    \cup [op: {"revise"}, q: Quotes, saw: PoStatuses]

NoteOverlap == overlapped' = (overlapped \/ \E c \in Calls : call[c] # Idle)

Begin(c, next) ==
    /\ call[c] = Idle
    /\ requests < MaxRequests
    /\ requests' = requests + 1
    /\ call' = [call EXCEPT ![c] = next]
    /\ NoteOverlap
    /\ UNCHANGED rows

Answer(c) == call' = [call EXCEPT ![c] = Idle] /\ UNCHANGED history

Init ==
    /\ rfq = [status |-> "ACTIVE", reopened |-> FALSE, accepted |-> {}]
    /\ quote = [q \in Quotes |-> "ABSENT"]
    /\ negotiation = [q \in Quotes |-> "ABSENT"]
    /\ po = [q \in Quotes |-> "ABSENT"]
    /\ versions = [q \in Quotes |-> {}]
    /\ orders = [q \in Quotes |-> [accepted |-> 0, fromPo |-> 0]]
    /\ call = [c \in Calls |-> Idle]
    /\ requests = 0
    /\ overlapped = FALSE

-----------------------------------------------------------------------------
(* The RFQ: close, cancel, and reopen, once; the daily job expires it.       *)
RfqBegin(c, op) ==
    /\ rfq.status \in RfqMoves[op].from
    /\ op = "reopen" => ~rfq.reopened
    /\ Begin(c, [op |-> "rfq", to |-> RfqMoves[op].to])

RfqCommit(c) ==
    /\ call[c].op = "rfq"
    /\ rfq' = [rfq EXCEPT !.status = call[c].to,
                          !.reopened = @ \/ call[c].to = "ACTIVE"]
    /\ Answer(c)
    /\ UNCHANGED <<quote, negotiation, po, versions, orders>>

\* In one statement, so that nothing is overwritten.
RfqExpires ==
    /\ rfq.status = "ACTIVE"
    /\ rfq' = [rfq EXCEPT !.status = "EXPIRED"]
    /\ NoteOverlap
    /\ UNCHANGED <<quote, negotiation, po, versions, orders, call, requests>>

-----------------------------------------------------------------------------
(* Quotes.                                                                   *)
CreateBegin(c, q) ==
    /\ rfq.status = "ACTIVE"
    /\ quote[q] = "ABSENT"
    /\ Begin(c, [op |-> "create", q |-> q])

CreateCommit(c) ==
    /\ call[c].op = "create"
    /\ quote' = [quote EXCEPT ![call[c].q] = "DRAFT"]
    /\ Answer(c)
    /\ UNCHANGED <<rfq, negotiation, po, versions, orders>>

QuoteBegin(c, q, op) ==
    /\ quote[q] \in QuoteMoves[op].from
    /\ Begin(c, [op |-> "quote", q |-> q, to |-> QuoteMoves[op].to])

QuoteCommit(c) ==
    /\ call[c].op = "quote"
    /\ quote' = [quote EXCEPT ![call[c].q] = call[c].to]
    /\ Answer(c)
    /\ UNCHANGED <<rfq, negotiation, po, versions, orders>>

\* The daily job and the endpoint that does the same, in one statement.
QuoteExpires(q) ==
    /\ quote[q] \in Offered
    /\ quote' = [quote EXCEPT ![q] = "EXPIRED"]
    /\ NoteOverlap
    /\ UNCHANGED <<rfq, negotiation, po, versions, orders, call, requests>>

\* QuoteService.accept.
AwardBegin(c, q) ==
    /\ rfq.status = "ACTIVE"
    /\ quote[q] \in Offered
    /\ Begin(c, [op |-> "award", q |-> q])

\* Mutant: as in acceptQuote, the other quotes are rejected only if offered.
AwardCommit_OfferedOnly(c) ==
    /\ call[c].op = "award"
    /\ quote' = [q \in Quotes |-> IF q = call[c].q THEN "ACCEPTED"
                                  ELSE IF quote[q] \in Offered THEN "REJECTED"
                                  ELSE quote[q]]
    /\ rfq' = [rfq EXCEPT !.status = "QUOTED", !.accepted = {call[c].q}]
    /\ Answer(c)
    /\ UNCHANGED <<negotiation, po, versions, orders>>

AwardCommit(c) ==
    /\ call[c].op = "award"
    /\ quote' = [q \in Quotes |-> IF q = call[c].q THEN "ACCEPTED"
                                  ELSE IF quote[q] \notin Settled THEN "REJECTED"
                                  ELSE quote[q]]
    /\ rfq' = [rfq EXCEPT !.status = "QUOTED", !.accepted = {call[c].q}]
    /\ Answer(c)
    /\ UNCHANGED <<negotiation, po, versions, orders>>

\* SmartRfqService.acceptQuote, whatever the RFQ's status.
OrderBegin(c, q) ==
    /\ quote[q] \in Offered
    /\ Begin(c, [op |-> "order", q |-> q])

\* The order's idempotencyKey is unique: a second one rolls everything back.
OrderCommit(c) ==
    /\ call[c].op = "order"
    /\ IF orders[call[c].q].accepted = 1
         THEN UNCHANGED <<rfq, quote, orders>>
         ELSE /\ quote' = [q \in Quotes |-> IF q = call[c].q THEN "ACCEPTED"
                                            ELSE IF quote[q] \in Offered THEN "REJECTED"
                                            ELSE quote[q]]
              /\ rfq' = [rfq EXCEPT !.status = "CLOSED"]
              /\ orders' = [orders EXCEPT ![call[c].q].accepted = 1]
    /\ Answer(c)
    /\ UNCHANGED <<negotiation, po, versions>>

-----------------------------------------------------------------------------
(* Negotiations.                                                             *)

\* Mutant: an accepted quote may still be negotiated.
StartBegin_Accepted(c, q) ==
    /\ q \in Negotiable
    /\ quote[q] \in Offered \cup {"ACCEPTED"}
    /\ negotiation[q] = "ABSENT"
    /\ Begin(c, [op |-> "start", q |-> q])

StartBegin(c, q) ==
    /\ q \in Negotiable
    /\ quote[q] \in Offered
    /\ negotiation[q] = "ABSENT"
    /\ Begin(c, [op |-> "start", q |-> q])

StartCommit(c) ==
    /\ call[c].op = "start"
    /\ IF negotiation[call[c].q] # "ABSENT"
         THEN UNCHANGED <<quote, negotiation>>
         ELSE /\ negotiation' = [negotiation EXCEPT ![call[c].q] = "OPEN"]
              /\ quote' = [quote EXCEPT ![call[c].q] = "NEGOTIATING"]
    /\ Answer(c)
    /\ UNCHANGED <<rfq, po, versions, orders>>

NegotiationBegin(c, q, op) ==
    /\ negotiation[q] \in NegotiationMoves[op].from
    /\ Begin(c, [op |-> "negotiation", q |-> q, to |-> NegotiationMoves[op].to])

\* Accepting makes the quote ACCEPTED whatever has become of it; rejecting and
\* cancelling leave it NEGOTIATING.
NegotiationCommit(c) ==
    /\ call[c].op = "negotiation"
    /\ negotiation' = [negotiation EXCEPT ![call[c].q] = call[c].to]
    /\ quote' = IF call[c].to = "ACCEPTED"
                THEN [quote EXCEPT ![call[c].q] = "ACCEPTED"] ELSE quote
    /\ Answer(c)
    /\ UNCHANGED <<rfq, po, versions, orders>>

-----------------------------------------------------------------------------
(* Purchase orders.                                                          *)

\* The negotiation's status counts, not the quote's.
GenerateBegin(c, q) ==
    /\ negotiation[q] = "ACCEPTED"
    /\ po[q] = "ABSENT"
    /\ Begin(c, [op |-> "generate", q |-> q])

GenerateCommit(c) ==
    /\ call[c].op = "generate"
    /\ IF po[call[c].q] # "ABSENT"
         THEN UNCHANGED <<po, versions>>
         ELSE /\ po' = [po EXCEPT ![call[c].q] = "DRAFT"]
              /\ versions' = [versions EXCEPT ![call[c].q] = {"DRAFT"}]
    /\ Answer(c)
    /\ UNCHANGED <<rfq, quote, negotiation, orders>>

PoBegin(c, q, op) ==
    /\ po[q] \in PoMoves[op].from
    /\ Begin(c, [op |-> "po", q |-> q, to |-> PoMoves[op].to])

PoCommit(c) ==
    /\ call[c].op = "po"
    /\ po' = [po EXCEPT ![call[c].q] = call[c].to]
    /\ versions' = [versions EXCEPT ![call[c].q] = @ \cup {call[c].to}]
    /\ Answer(c)
    /\ UNCHANGED <<rfq, quote, negotiation, orders>>

\* revise looks at no status, and files a version under the one it read.
ReviseBegin(c, q) ==
    /\ po[q] # "ABSENT"
    /\ Begin(c, [op |-> "revise", q |-> q, saw |-> po[q]])

ReviseCommit(c) ==
    /\ call[c].op = "revise"
    /\ versions' = [versions EXCEPT ![call[c].q] = @ \cup {call[c].saw}]
    /\ Answer(c)
    /\ UNCHANGED <<rfq, quote, negotiation, po, orders>>

\* createFromPo: no order has this purchaseOrderId, which is not unique.
ConvertBegin(c, q) ==
    /\ po[q] = "LOCKED"
    /\ orders[q].fromPo = 0
    /\ Begin(c, [op |-> "convert", q |-> q])

\* The one change of status that files no version.
ConvertCommit(c) ==
    /\ call[c].op = "convert"
    /\ orders' = [orders EXCEPT ![call[c].q].fromPo = @ + 1]
    /\ po' = [po EXCEPT ![call[c].q] = "CONVERTED_TO_ORDER"]
    /\ Answer(c)
    /\ UNCHANGED <<rfq, quote, negotiation, versions>>

\* A request dies, or its transaction fails.
Fail(c) ==
    /\ call[c] # Idle
    /\ Answer(c)
    /\ UNCHANGED rows

-----------------------------------------------------------------------------
BeginCall(c) ==
    \/ \E op \in DOMAIN RfqMoves : RfqBegin(c, op)
    \/ \E q \in Quotes :
         \/ CreateBegin(c, q) \/ AwardBegin(c, q) \/ OrderBegin(c, q)
         \/ StartBegin(c, q) \/ GenerateBegin(c, q)
         \/ ReviseBegin(c, q) \/ ConvertBegin(c, q)
         \/ \E op \in DOMAIN QuoteMoves : QuoteBegin(c, q, op)
         \/ \E op \in DOMAIN NegotiationMoves : NegotiationBegin(c, q, op)
         \/ \E op \in DOMAIN PoMoves : PoBegin(c, q, op)

Commit(c) ==
    \/ RfqCommit(c) \/ CreateCommit(c) \/ QuoteCommit(c)
    \/ AwardCommit(c) \/ OrderCommit(c)
    \/ StartCommit(c) \/ NegotiationCommit(c)
    \/ GenerateCommit(c) \/ PoCommit(c) \/ ReviseCommit(c) \/ ConvertCommit(c)

Next ==
    \/ \E c \in Calls : BeginCall(c) \/ Commit(c) \/ Fail(c)
    \/ RfqExpires
    \/ \E q \in Quotes : QuoteExpires(q)

Spec == Init /\ [][Next]_vars

-----------------------------------------------------------------------------
TypeOK ==
    /\ rfq \in [status: RfqStatuses, reopened: BOOLEAN, accepted: SUBSET Quotes]
    /\ quote \in [Quotes -> QuoteStatuses]
    /\ negotiation \in [Quotes -> NegotiationStatuses]
    /\ po \in [Quotes -> PoStatuses]
    /\ versions \in [Quotes -> SUBSET PoStatuses]
    /\ orders \in [Quotes -> [accepted: {0, 1}, fromPo: Nat]]
    /\ call \in [Calls -> Call]
    /\ requests \in Nat
    /\ overlapped \in BOOLEAN

(* Whatever races, an order is made from a purchase order only after buyer   *)
(* and seller agreed to it: it was confirmed, passed to the seller, accepted *)
(* and locked, each with its version on file, by a negotiation that was      *)
(* opened.                                                                   *)
OrdersComeFromAgreement ==
    \A q \in Quotes :
        /\ orders[q].fromPo > 0 => "LOCKED" \in versions[q]
        /\ "LOCKED" \in versions[q] => "SELLER_ACCEPTED" \in versions[q]
        /\ "SELLER_ACCEPTED" \in versions[q] => "SELLER_PENDING" \in versions[q]
        /\ "SELLER_PENDING" \in versions[q] => "BUYER_CONFIRMED" \in versions[q]
        /\ "BUYER_CONFIRMED" \in versions[q] => "DRAFT" \in versions[q]
        /\ po[q] # "ABSENT" => negotiation[q] # "ABSENT"

(* Requests one after the other: a quote becomes one order, although it may  *)
(* be ordered by its acceptance or through negotiation and purchase order.   *)
OneOrderPerQuote ==
    ~overlapped => \A q \in Quotes : orders[q].accepted + orders[q].fromPo =< 1

(* Requests one after the other: when the buyer accepts a quote it stays     *)
(* accepted while the RFQ is QUOTED, and no other quote is left open, except *)
(* one whose negotiation was under way and is accepted later.                *)
AwardHolds ==
    ~overlapped /\ rfq.status = "QUOTED"
        => /\ \A q \in rfq.accepted : quote[q] = "ACCEPTED"
           /\ \A q \in Quotes \ rfq.accepted :
                quote[q] \in Settled \/ negotiation[q] = "ACCEPTED"

(* Requests one after the other: a purchase order that is rejected, cancelled*)
(* or an order stays so, and a locked one only becomes an order, whatever is *)
(* revised meanwhile.                                                        *)
ClosedPoStays ==
    [][~overlapped =>
         \A q \in Quotes :
           po[q] \in PoClosed \ {"ABSENT"} /\ po'[q] # po[q]
             => /\ po[q] = "LOCKED" /\ po'[q] = "CONVERTED_TO_ORDER"
                /\ orders'[q].fromPo = orders[q].fromPo + 1]_vars
=============================================================================
