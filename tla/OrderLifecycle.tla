--------------------------- MODULE OrderLifecycle ---------------------------
(***************************************************************************)
(* One order from the moment it is placed: its status, its delivery        *)
(* locations, its returns and its cancellations.  OrderService, reached by *)
(* both companies of the order through two controllers, and the two places *)
(* where PaymentService writes an order's status.                          *)
(*                                                                         *)
(* Every operation reads the order, checks it against STATUS_FLOW, and     *)
(* writes it by id later.  A request in flight is a value of "call": XBegin*)
(* reads and checks, XCommit writes.  "visited" and "overlapped" are       *)
(* history: no statement of the program reads them.                        *)
(*                                                                         *)
(* Left out: the timeline, analytics, chat and notifications, which nothing*)
(* reads back; who of the two companies may call.                          *)
(***************************************************************************)
EXTENDS Naturals

CONSTANTS
    Locations,      \* the order's delivery locations
    Returns,        \* the OrderReturn rows the order may come to have
    Calls,          \* requests served at the same time
    MaxRequests,    \* bound: requests made altogether
    MaxPayments     \* bound: payments of the order captured and refunded

VARIABLES
    status,         \* Order.status
    reserved,       \* some item of the order has a reservedQuantity
    location,       \* OrderLocation.deliveryStatus
    return,         \* OrderReturn.status
    cancellations,  \* number of OrderCancellation rows
    payments,       \* payments of the order captured, and refunds of them
    call,           \* what each request in flight has read and does next
    requests,       \* requests made so far
    visited,        \* history: every status the order has had
    overlapped      \* history: something was done amid a request

history == <<requests, overlapped>>
rows == <<status, reserved, location, return, cancellations, payments, visited>>
vars == <<rows, call, history>>

-----------------------------------------------------------------------------
STATUS_FLOW ==
    [PENDING |-> {"CONFIRMED", "CANCELLED"},
     CONFIRMED |-> {"PROCESSING", "CANCELLED"},
     PROCESSING |-> {"PACKED", "CANCELLED"},
     PACKED |-> {"READY_FOR_DISPATCH", "CANCELLED"},
     READY_FOR_DISPATCH |-> {"DISPATCHED", "CANCELLED"},
     DISPATCHED |-> {"IN_TRANSIT", "CANCELLED"},
     IN_TRANSIT |-> {"DELIVERED", "CANCELLED"},
     DELIVERED |-> {"COMPLETED", "RETURNED"},
     COMPLETED |-> {}, CANCELLED |-> {}, RETURNED |-> {}]

Statuses == {"PENDING", "CONFIRMED", "PROCESSING", "PACKED",
             "READY_FOR_DISPATCH", "DISPATCHED", "IN_TRANSIT", "DELIVERED",
             "COMPLETED", "CANCELLED", "RETURNED"}
Closed == {"COMPLETED", "CANCELLED", "RETURNED"}

\* The stages of an order that goes well, and what each of them comes after.
Before == [CONFIRMED |-> "PENDING", PROCESSING |-> "CONFIRMED",
           PACKED |-> "PROCESSING", READY_FOR_DISPATCH |-> "PACKED",
           DISPATCHED |-> "READY_FOR_DISPATCH", IN_TRANSIT |-> "DISPATCHED",
           DELIVERED |-> "IN_TRANSIT", COMPLETED |-> "DELIVERED"]

Idle == [op |-> "idle"]
Call ==
    {Idle}
    \cup [op: {"status"}, to: Statuses]
    \cup [op: {"cancel", "return", "count", "finish"}]
    \cup [op: {"dispatch", "deliver"}, l: Locations, read: BOOLEAN]
    \cup [op: {"review"}, r: Returns, verdict: {"APPROVED", "REJECTED"}]

NoteOverlap == overlapped' = (overlapped \/ \E d \in Calls : call[d] # Idle)

Begin(c, next) ==
    /\ call[c] = Idle
    /\ requests < MaxRequests
    /\ requests' = requests + 1
    /\ call' = [call EXCEPT ![c] = next]
    /\ NoteOverlap
    /\ UNCHANGED rows

\* What a request does next, if anything.
Then(c, next) == call' = [call EXCEPT ![c] = next] /\ UNCHANGED history
Answer(c) == Then(c, Idle)

SetStatus(to) == status' = to /\ visited' = visited \cup {to}

Init ==
    /\ status = "PENDING"
    /\ reserved \in BOOLEAN
    /\ location = [l \in Locations |-> "PENDING"]
    /\ return = [r \in Returns |-> "ABSENT"]
    /\ cancellations = 0
    /\ payments = [captured |-> 0, refunded |-> 0]
    /\ call = [c \in Calls |-> Idle]
    /\ requests = 0
    /\ visited = {"PENDING"}
    /\ overlapped = FALSE

-----------------------------------------------------------------------------
\* Mutant: the transition is not looked up.
UpdateBegin_AnyStatus(c, to) == Begin(c, [op |-> "status", to |-> to])

\* updateStatus, with any status: smart-order's route hands on what it is given.
UpdateBegin(c, to) ==
    /\ to \in STATUS_FLOW[status]
    /\ Begin(c, [op |-> "status", to |-> to])

UpdateCommit(c) ==
    /\ call[c].op = "status"
    /\ SetStatus(call[c].to)
    /\ Answer(c)
    /\ UNCHANGED <<reserved, location, return, cancellations, payments>>

\* dispatchLocation and deliverLocation read the order first ...
LocationBegin(c, op, l) ==
    /\ status = IF op = "dispatch" THEN "PROCESSING" ELSE "DISPATCHED"
    /\ Begin(c, [op |-> op, l |-> l, read |-> FALSE])

\* ... then the location ...
LocationRead(c) ==
    /\ call[c].op \in {"dispatch", "deliver"}
    /\ ~call[c].read
    /\ IF location[call[c].l]
            = IF call[c].op = "dispatch" THEN "PENDING" ELSE "DISPATCHED"
         THEN Then(c, [op |-> call[c].op, l |-> call[c].l, read |-> TRUE])
         ELSE Answer(c)
    /\ UNCHANGED rows

\* ... and write the location by id.
DispatchCommit(c) ==
    /\ call[c].op = "dispatch"
    /\ call[c].read
    /\ location' = [location EXCEPT ![call[c].l] = "DISPATCHED"]
    /\ Answer(c)
    /\ UNCHANGED <<status, reserved, return, cancellations, payments, visited>>

DeliverCommit(c) ==
    /\ call[c].op = "deliver"
    /\ call[c].read
    /\ location' = [location EXCEPT ![call[c].l] = "DELIVERED"]
    /\ Then(c, [op |-> "count"])
    /\ UNCHANGED <<status, reserved, return, cancellations, payments, visited>>

\* The last location to be delivered goes on to updateStatus ...
DeliverCount(c) ==
    /\ call[c].op = "count"
    /\ IF \A l \in Locations : location[l] = "DELIVERED"
         THEN Then(c, [op |-> "finish"])
         ELSE Answer(c)
    /\ UNCHANGED rows

\* ... which reads the order again and throws unless it is IN_TRANSIT by now.
DeliverFinish(c) ==
    /\ call[c].op = "finish"
    /\ IF "DELIVERED" \in STATUS_FLOW[status]
         THEN Then(c, [op |-> "status", to |-> "DELIVERED"])
         ELSE Answer(c)
    /\ UNCHANGED rows

CancelBegin(c) ==
    /\ status \notin Closed
    /\ Begin(c, [op |-> "cancel"])

CancelCommit(c) ==
    /\ call[c].op = "cancel"
    /\ SetStatus("CANCELLED")
    /\ cancellations' = cancellations + 1
    /\ reserved' = FALSE
    /\ Answer(c)
    /\ UNCHANGED <<location, return, payments>>

ReturnBegin(c) ==
    /\ status = "DELIVERED"
    /\ Begin(c, [op |-> "return"])

\* The window of 7 days is left out: it may or may not have passed.
ReturnCommit(c) ==
    /\ call[c].op = "return"
    /\ \E r \in {r \in Returns : return[r] = "ABSENT"} :
         return' = [return EXCEPT ![r] = "PENDING"]
    /\ Answer(c)
    /\ UNCHANGED <<status, reserved, location, cancellations, payments, visited>>

ReviewBegin(c, r, verdict) ==
    /\ return[r] = "PENDING"
    /\ Begin(c, [op |-> "review", r |-> r, verdict |-> verdict])

\* Mutant: the order is taken back whatever the verdict.
ReviewCommit_Always(c) ==
    /\ call[c].op = "review"
    /\ return' = [return EXCEPT ![call[c].r] = call[c].verdict]
    /\ SetStatus("RETURNED")
    /\ Answer(c)
    /\ UNCHANGED <<reserved, location, cancellations, payments>>

\* Whatever the order's status has become since the return was asked for.
ReviewCommit(c) ==
    /\ call[c].op = "review"
    /\ return' = [return EXCEPT ![call[c].r] = call[c].verdict]
    /\ IF call[c].verdict = "APPROVED" THEN SetStatus("RETURNED")
                                       ELSE UNCHANGED <<status, visited>>
    /\ Answer(c)
    /\ UNCHANGED <<reserved, location, cancellations, payments>>

\* A request dies between two of its steps, or its next one throws.
Fail(c) ==
    /\ call[c] # Idle
    /\ Answer(c)
    /\ UNCHANGED rows

-----------------------------------------------------------------------------
\* A payment of the order is verified: by id, without a look at the status.
PaymentConfirms ==
    /\ payments.captured < MaxPayments
    /\ payments' = [payments EXCEPT !.captured = @ + 1]
    /\ SetStatus("CONFIRMED")
    /\ NoteOverlap
    /\ UNCHANGED <<reserved, location, return, cancellations, call, requests>>

\* A captured payment is refunded, in full or in part.
PaymentRefunds ==
    /\ payments.refunded < payments.captured
    /\ payments' = [payments EXCEPT !.refunded = @ + 1]
    /\ \E to \in {"RETURNED", "CANCELLED"} : SetStatus(to)
    /\ NoteOverlap
    /\ UNCHANGED <<reserved, location, return, cancellations, call, requests>>

BeginCall(c) ==
    \/ \E to \in Statuses : UpdateBegin(c, to)
    \/ \E l \in Locations, op \in {"dispatch", "deliver"} : LocationBegin(c, op, l)
    \/ CancelBegin(c)
    \/ ReturnBegin(c)
    \/ \E r \in Returns, verdict \in {"APPROVED", "REJECTED"} :
         ReviewBegin(c, r, verdict)

Continue(c) ==
    \/ UpdateCommit(c) \/ CancelCommit(c)
    \/ LocationRead(c) \/ DispatchCommit(c)
    \/ DeliverCommit(c) \/ DeliverCount(c) \/ DeliverFinish(c)
    \/ ReturnCommit(c) \/ ReviewCommit(c)

Next ==
    \/ \E c \in Calls : BeginCall(c) \/ Continue(c) \/ Fail(c)
    \/ PaymentConfirms
    \/ PaymentRefunds

Spec == Init /\ [][Next]_vars

-----------------------------------------------------------------------------
TypeOK ==
    /\ status \in Statuses
    /\ reserved \in BOOLEAN
    /\ location \in [Locations -> {"PENDING", "DISPATCHED", "DELIVERED"}]
    /\ return \in [Returns -> {"ABSENT", "PENDING", "APPROVED", "REJECTED"}]
    /\ cancellations \in Nat
    /\ payments \in [captured: Nat, refunded: Nat]
    /\ call \in [Calls -> Call]
    /\ requests \in Nat
    /\ visited \subseteq Statuses
    /\ overlapped \in BOOLEAN

(* However requests race, however late a payment is verified and whatever is *)
(* lost on the way, an order has been through every stage before the one it  *)
(* reaches, and its goods move no earlier: a location is dispatched after    *)
(* processing began, delivered after dispatch, and what is asked back was    *)
(* delivered.                                                                *)
NoStageSkipped ==
    /\ \A s \in DOMAIN Before : s \in visited => Before[s] \in visited
    /\ \A l \in Locations :
         /\ location[l] # "PENDING" => "PROCESSING" \in visited
         /\ location[l] = "DELIVERED" => "DISPATCHED" \in visited
    /\ \A r \in Returns : return[r] # "ABSENT" => "DELIVERED" \in visited
    /\ "RETURNED" \in visited => "DELIVERED" \in visited \/ payments.refunded > 0

ReturnApproved ==
    \E r \in Returns : return[r] = "PENDING" /\ return'[r] = "APPROVED"

(* Requests one after the other: a completed, cancelled or returned order    *)
(* stays what it is, unless a return asked for while it was delivered is     *)
(* approved, or a payment of it is captured or refunded late.                *)
ClosedStaysClosed ==
    [][~overlapped /\ payments' = payments /\ status \in Closed
         => status' = status \/ (status' = "RETURNED" /\ ReturnApproved)]_vars

(* Requests one after the other and no payment captured after the order was  *)
(* placed: an order is cancelled through cancelOrder once at most, keeps     *)
(* nothing reserved then, and stays cancelled but for a return of its goods. *)
CancelledOnce ==
    ~overlapped /\ payments.captured = 0 /\ cancellations > 0
        => /\ cancellations = 1
           /\ ~reserved
           /\ status \in {"CANCELLED", "RETURNED"}

(* Requests one after the other: the order never becomes DELIVERED by the    *)
(* delivery of its last location, only by the buyer's word after IN_TRANSIT. *)
LastLocationIsNotEnough ==
    [][\A c \in Calls :
         call[c].op = "finish" /\ call'[c].op = "status" => overlapped]_vars
=============================================================================
