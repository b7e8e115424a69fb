------------------------- MODULE BookingSettlement -------------------------
(***************************************************************************)
(* What becomes of the money of one priced TradeServ booking: captured,    *)
(* held in escrow, settled when the booking completes, paid out to the     *)
(* professional, or refunded.  TradeservService and                        *)
(* BookingFinancialOrchestratorService (modules/tradeserv) with the        *)
(* settlement, payout, refund, escrow and dispute services they share.     *)
(*                                                                         *)
(* As everywhere in this API a handler reads rows, checks them, and writes *)
(* later by id.  "call" holds what each request, job or un-awaited promise *)
(* in flight has read; each transaction or statement is an action.         *)
(***************************************************************************)
EXTENDS Naturals, FiniteSets

CONSTANTS
    Settlements,    \* the rows the Settlement table may come to hold
    Payouts,        \* the rows the Payout table may come to hold
    Calls,          \* requests, jobs and promises running at the same time
    Operations,     \* what people do, beyond paying and moving the booking on
    MaxTransfers,   \* bound: transfers asked of the bank for one payout
    MaxErrors,      \* bound: errors that a handler catches
    MaxLost         \* bound: calls that end half-way by death or by an error

AllOperations == {"create", "process", "fail", "retry", "reopen", "transfer",
                  "confirm", "failPayout", "refund", "DISPUTED", "FROZEN",
                  "HELD", "REFUNDED"}

ASSUME ConstantsAssumption ==
    /\ Operations \subseteq AllOperations
    /\ IsFiniteSet(Calls)
    /\ MaxTransfers \in Nat
    /\ MaxErrors \in Nat
    /\ MaxLost \in Nat

VARIABLES
    booking,        \* Booking.status and Booking.paymentStatus
    payment,        \* status of the booking's Payment row
    escrow,         \* status of its Escrow row (bookingId is unique)
    settlement,     \* the Settlement rows: status and retryCount
    payout,         \* the Payout rows: status, type MANUAL or not, settlement
    transfers,      \* transfers the bank accepted for each payout (external)
    returned,       \* halves of the payment the gateway gave back (external)
    call,           \* what each call in flight has read and does next
    errors,         \* caught errors so far
    lost            \* calls that have ended half-way so far

rows == <<booking, payment, escrow, settlement, payout>>
bank == <<transfers, returned>>
bounds == <<errors, lost>>
vars == <<rows, bank, call, bounds>>

-----------------------------------------------------------------------------
BookingStatuses == {"PENDING", "CONFIRMED", "IN_PROGRESS", "COMPLETED", "CANCELLED"}
PaymentStatuses == {"PENDING", "PAID", "REFUNDED", "PARTIALLY_REFUNDED"}
EscrowStatuses == {"NONE", "HELD", "DISPUTED", "FROZEN", "RELEASED",
                   "PARTIALLY_RELEASED", "REFUNDED"}
SettlementStatuses == {"ABSENT", "PENDING", "PROCESSED", "FAILED", "RETRYING",
                       "REOPENED"}
\* Bound: retryCount is counted up to three; whether it is below three is all
\* that is ever asked.
MaxRetries == 3
OneMoreRetry(n) == IF n < MaxRetries THEN n + 1 ELSE n
SettlementRow == [status: SettlementStatuses, retryCount: 0..MaxRetries]
PayoutStatuses == {"ABSENT", "PENDING", "PROCESSING", "COMPLETED", "FAILED"}
PayoutRow == [status: PayoutStatuses, manual: BOOLEAN,
              settlement: SUBSET Settlements]

Idle == [op |-> "idle"]
Call ==
    {Idle}
    \cup [op: {"capture"}, at: {"commit", "lookup", "hold"}]
    \cup [op: {"update"}, to: BookingStatuses]
    \cup [op: {"settle"}, at: {"lookup", "insert"}]
    \cup [op: {"settling"}, s: Settlements,
          at: {"process", "release", "payoutLookup", "payout", "failed"}]
    \cup [op: {"process"}, s: Settlements, cron: BOOLEAN,
          at: {"commit", "payoutLookup", "payout"}]
    \cup [op: {"retry"}, s: Settlements, cron: BOOLEAN, at: {"commit", "reread"}]
    \cup [op: {"reopen"}, s: Settlements]
    \cup [op: {"create"}]
    \cup [op: {"transfer"}, t: Payouts, at: {"post", "record", "audit", "manual"}]
    \cup [op: {"refund"}, full: BOOLEAN, escrow: BOOLEAN]
    \cup [op: {"escrow"}, to: EscrowStatuses]

SettlementIn(statuses) == {s \in Settlements : settlement[s].status \in statuses}
PayoutsOf(s) == {t \in Payouts : payout[t].settlement = {s}}

Begin(c, next) == call[c] = Idle /\ call' = [call EXCEPT ![c] = next]
Become(c, next) == call' = [call EXCEPT ![c] = next]
Goto(c, label) == call' = [call EXCEPT ![c].at = label]
Answer(c) == call' = [call EXCEPT ![c] = Idle]
At(c, op, label) == call[c].op = op /\ call[c].at = label
Allowed(operation) == operation \in Operations

Init ==
    /\ booking = [status |-> "PENDING", paid |-> "PENDING"]
    /\ payment = "PENDING"
    /\ escrow = "NONE"
    /\ settlement = [s \in Settlements |-> [status |-> "ABSENT", retryCount |-> 0]]
    /\ payout = [t \in Payouts |-> [status |-> "ABSENT", manual |-> FALSE,
                                    settlement |-> {}]]
    /\ transfers = [t \in Payouts |-> 0]
    /\ returned = 0
    /\ call = [c \in Calls |-> Idle]
    /\ errors = 0
    /\ lost = 0

-----------------------------------------------------------------------------
(* The payment: verifyBookingPayment and the webhook's booking branch do the *)
(* same, and both start processPaymentVerified without waiting for it.       *)

CaptureBegin(c) ==
    /\ payment = "PENDING"
    /\ Begin(c, [op |-> "capture", at |-> "commit"])
    /\ UNCHANGED <<rows, bank, bounds>>

\* Both rows are written by id, whatever has become of the booking since.
CaptureCommit(c) ==
    /\ At(c, "capture", "commit")
    /\ payment' = "CAPTURED"
    /\ booking' = [status |-> "CONFIRMED", paid |-> "PAID"]
    /\ Goto(c, "lookup")
    /\ UNCHANGED <<escrow, settlement, payout, bank, bounds>>

HoldLookup(c) ==
    /\ At(c, "capture", "lookup")
    /\ IF escrow = "NONE" THEN Goto(c, "hold") ELSE Answer(c)
    /\ UNCHANGED <<rows, bank, bounds>>

\* bookingId is unique: a second escrow cannot be inserted.
HoldCommit(c) ==
    /\ At(c, "capture", "hold")
    /\ escrow' = IF escrow = "NONE" THEN "HELD" ELSE escrow
    /\ Answer(c)
    /\ UNCHANGED <<booking, payment, settlement, payout, bank, bounds>>

-----------------------------------------------------------------------------
(* updateBookingStatus                                                       *)

Transitions == [PENDING |-> {"CONFIRMED", "CANCELLED"},
                CONFIRMED |-> {"IN_PROGRESS", "CANCELLED"},
                IN_PROGRESS |-> {"COMPLETED", "CANCELLED"},
                COMPLETED |-> {}, CANCELLED |-> {}]

\* Bound: no request that may insert a settlement begins unless the table has
\* a row left for it; a request that has begun is never held up by the bound.
MayInsert(c) == \/ call[c].op = "update" /\ call[c].to = "COMPLETED"
                \/ call[c].op \in {"settle", "create"}
RoomForASettlement ==
    Cardinality({c \in Calls : MayInsert(c)}) < Cardinality(SettlementIn({"ABSENT"}))

UpdateBegin(c, to) ==
    /\ to \in Transitions[booking.status]
    /\ to = "CONFIRMED" => booking.paid = "PAID"
    /\ to = "COMPLETED" => RoomForASettlement
    /\ Begin(c, [op |-> "update", to |-> to])
    /\ UNCHANGED <<rows, bank, bounds>>

\* The status alone, by id; completion starts processBookingCompleted.
UpdateCommit(c) ==
    /\ call[c].op = "update"
    /\ booking' = [booking EXCEPT !.status = call[c].to]
    /\ IF call[c].to = "COMPLETED"
         THEN Become(c, [op |-> "settle", at |-> "lookup"])
         ELSE Answer(c)
    /\ UNCHANGED <<payment, escrow, settlement, payout, bank, bounds>>

-----------------------------------------------------------------------------
(* processBookingCompleted: three transactions and a payout, one after the   *)
(* other.  The escrow's status is never looked at.                           *)

SettleLookup(c) ==
    /\ At(c, "settle", "lookup")
    /\ IF escrow # "NONE" /\ SettlementIn({"PENDING", "PROCESSING", "PROCESSED"}) = {}
         THEN Goto(c, "insert")
         ELSE Answer(c)
    /\ UNCHANGED <<rows, bank, bounds>>

SettleInsert(c) ==
    /\ At(c, "settle", "insert")
    /\ \E s \in SettlementIn({"ABSENT"}) :
         /\ settlement' = [settlement EXCEPT ![s].status = "PENDING"]
         /\ Become(c, [op |-> "settling", s |-> s, at |-> "process"])
    /\ UNCHANGED <<booking, payment, escrow, payout, bank, bounds>>

SettleProcess(c) ==
    /\ At(c, "settling", "process")
    /\ settlement' = [settlement EXCEPT ![call[c].s].status = "PROCESSED"]
    /\ Goto(c, "release")
    /\ UNCHANGED <<booking, payment, escrow, payout, bank, bounds>>

SettleRelease(c) ==
    /\ At(c, "settling", "release")
    /\ escrow' = "RELEASED"
    /\ Goto(c, "payoutLookup")
    /\ UNCHANGED <<booking, payment, settlement, payout, bank, bounds>>

\* A variant for the mutants: the failure is logged and no more.
SettleFailed_LogOnly(c) ==
    /\ At(c, "settling", "failed")
    /\ Answer(c)
    /\ UNCHANGED <<rows, bank, bounds>>

\* The catch block: an audit log, then the settlement is marked by id.
SettleFailed(c) ==
    /\ At(c, "settling", "failed")
    /\ settlement' = [settlement EXCEPT ![call[c].s].status = "FAILED",
                                        ![call[c].s].retryCount = OneMoreRetry(@)]
    /\ Answer(c)
    /\ UNCHANGED <<booking, payment, escrow, payout, bank, bounds>>

\* A variant for the mutants: no look for a payout that exists.
PayoutLookup_NoExisting(c) ==
    /\ call[c].op \in {"settling", "process"} /\ call[c].at = "payoutLookup"
    /\ IF settlement[call[c].s].status = "PROCESSED"
         THEN Goto(c, "payout")
         ELSE Answer(c)
    /\ UNCHANGED <<rows, bank, bounds>>

\* PayoutService.createFromSettlement looks, and inserts later; settlementId
\* has an index but no unique key.
PayoutLookup(c) ==
    /\ call[c].op \in {"settling", "process"} /\ call[c].at = "payoutLookup"
    /\ IF settlement[call[c].s].status = "PROCESSED" /\ PayoutsOf(call[c].s) = {}
         THEN Goto(c, "payout")
         ELSE Answer(c)
    /\ UNCHANGED <<rows, bank, bounds>>

PayoutInsert(c) ==
    /\ call[c].op \in {"settling", "process"} /\ call[c].at = "payout"
    /\ \E t \in {t \in Payouts : payout[t].status = "ABSENT"} :
         payout' = [payout EXCEPT ![t] = [status |-> "PENDING", manual |-> FALSE,
                                          settlement |-> {call[c].s}]]
    /\ Answer(c)
    /\ UNCHANGED <<booking, payment, escrow, settlement, bank, bounds>>

-----------------------------------------------------------------------------
(* SettlementService: routes people call, and the queue's jobs, one at a time.*)

CronIdle == \A c \in Calls : call[c].op \in {"process", "retry"} => ~call[c].cron

\* process: the jobs ask for it for every PENDING row they have listed.
ProcessBegin(c, s, cron) ==
    /\ IF cron THEN CronIdle /\ settlement[s].status = "PENDING"
               ELSE Allowed("process") /\ settlement[s].status \in {"PENDING", "RETRYING"}
    /\ Begin(c, [op |-> "process", s |-> s, cron |-> cron, at |-> "commit"])
    /\ UNCHANGED <<rows, bank, bounds>>

ProcessCommit(c) ==
    /\ At(c, "process", "commit")
    /\ settlement' = [settlement EXCEPT ![call[c].s].status = "PROCESSED"]
    /\ Goto(c, "payoutLookup")
    /\ UNCHANGED <<booking, payment, escrow, payout, bank, bounds>>

\* retry; the hourly job retries rows of fewer than three retries, then has
\* them processed.
RetryBegin(c, s, cron) ==
    /\ settlement[s].status = "FAILED"
    /\ IF cron THEN CronIdle /\ settlement[s].retryCount < MaxRetries ELSE Allowed("retry")
    /\ Begin(c, [op |-> "retry", s |-> s, cron |-> cron, at |-> "commit"])
    /\ UNCHANGED <<rows, bank, bounds>>

RetryCommit(c) ==
    /\ At(c, "retry", "commit")
    /\ settlement' = [settlement EXCEPT ![call[c].s].status = "RETRYING",
                                        ![call[c].s].retryCount = OneMoreRetry(@)]
    /\ IF call[c].cron THEN Goto(c, "reread") ELSE Answer(c)
    /\ UNCHANGED <<booking, payment, escrow, payout, bank, bounds>>

RetryProcess(c) ==
    /\ At(c, "retry", "reread")
    /\ IF settlement[call[c].s].status \in {"PENDING", "RETRYING"}
         THEN Become(c, [op |-> "process", s |-> call[c].s, cron |-> TRUE,
                         at |-> "commit"])
         ELSE Answer(c)
    /\ UNCHANGED <<rows, bank, bounds>>

\* fail reads the row only to see that it exists.
SettlementFail(s) ==
    /\ Allowed("fail")
    /\ settlement[s].status # "ABSENT"
    /\ settlement' = [settlement EXCEPT ![s].status = "FAILED"]
    /\ UNCHANGED <<booking, payment, escrow, payout, bank, call, bounds>>

ReopenBegin(c, s) ==
    /\ Allowed("reopen")
    /\ settlement[s].status = "PROCESSED"
    /\ Begin(c, [op |-> "reopen", s |-> s])
    /\ UNCHANGED <<rows, bank, bounds>>

ReopenCommit(c) ==
    /\ call[c].op = "reopen"
    /\ settlement' = [settlement EXCEPT ![call[c].s].status = "REOPENED"]
    /\ Answer(c)
    /\ UNCHANGED <<booking, payment, escrow, payout, bank, bounds>>

\* create wants a released escrow and no PENDING, PROCESSING or RETRYING row.
CreateBegin(c) ==
    /\ Allowed("create")
    /\ escrow = "RELEASED"
    /\ SettlementIn({"PENDING", "PROCESSING", "RETRYING"}) = {}
    /\ RoomForASettlement
    /\ Begin(c, [op |-> "create"])
    /\ UNCHANGED <<rows, bank, bounds>>

CreateInsert(c) ==
    /\ call[c].op = "create"
    /\ \E s \in SettlementIn({"ABSENT"}) :
         settlement' = [settlement EXCEPT ![s].status = "PENDING"]
    /\ Answer(c)
    /\ UNCHANGED <<booking, payment, escrow, payout, bank, bounds>>

-----------------------------------------------------------------------------
(* PayoutService: processPayout submits a transfer to the bank (external) and *)
(* records it; without a fund account, or when anything throws, it only marks *)
(* the row for manual handling, which leaves it PENDING.                     *)

RoomForATransfer(t) ==
    transfers[t] + Cardinality({c \in Calls : call[c].op = "transfer" /\ call[c].t = t})
        < MaxTransfers

TransferBegin(c, t) ==
    /\ Allowed("transfer") /\ RoomForATransfer(t)
    /\ payout[t].status = "PENDING"
    /\ \E label \in {"post", "manual"} :
         Begin(c, [op |-> "transfer", t |-> t, at |-> label])
    /\ UNCHANGED <<rows, bank, bounds>>

TransferPost(c) ==
    /\ At(c, "transfer", "post")
    /\ transfers' = [transfers EXCEPT ![call[c].t] = @ + 1]
    /\ Goto(c, "record")
    /\ UNCHANGED <<rows, returned, bounds>>

\* A variant for the mutants: the gateway's id is kept, the status is not moved.
TransferRecord_Pending(c) ==
    /\ At(c, "transfer", "record")
    /\ Goto(c, "audit")
    /\ UNCHANGED <<rows, bank, bounds>>

TransferRecord(c) ==
    /\ At(c, "transfer", "record")
    /\ payout' = [payout EXCEPT ![call[c].t].status = "PROCESSING"]
    /\ Goto(c, "audit")
    /\ UNCHANGED <<booking, payment, escrow, settlement, bank, bounds>>

TransferAudit(c) ==
    /\ At(c, "transfer", "audit")
    /\ Answer(c)
    /\ UNCHANGED <<rows, bank, bounds>>

MarkManual(c) ==
    /\ At(c, "transfer", "manual")
    /\ payout' = [payout EXCEPT ![call[c].t].status = "PENDING",
                                ![call[c].t].manual = TRUE]
    /\ Answer(c)
    /\ UNCHANGED <<booking, payment, escrow, settlement, bank, bounds>>

\* confirmPayout and failPayout: an administrator's word, whatever the status.
PayoutDecide(t, operation, status) ==
    /\ Allowed(operation)
    /\ payout[t].status # "ABSENT"
    /\ payout' = [payout EXCEPT ![t].status = status]
    /\ UNCHANGED <<booking, payment, escrow, settlement, bank, call, bounds>>

-----------------------------------------------------------------------------
(* RefundEngineService.processBookingRefund: the gateway (external) is asked  *)
(* from inside the database transaction.                                     *)

\* A variant for the mutants: only an escrow that is HELD is given back.
RefundBegin_HeldOnly(c, full) ==
    /\ Allowed("refund")
    /\ booking.status # "CANCELLED" /\ booking.paid = "PAID"
    /\ Begin(c, [op |-> "refund", full |-> full, escrow |-> escrow = "HELD"])
    /\ UNCHANGED <<rows, bank, bounds>>

RefundBegin(c, full) ==
    /\ Allowed("refund")
    /\ booking.status # "CANCELLED" /\ booking.paid = "PAID"
    /\ Begin(c, [op |-> "refund", full |-> full,
                 escrow |-> escrow \notin {"NONE", "REFUNDED"}])
    /\ UNCHANGED <<rows, bank, bounds>>

\* A partial refund is half of the price here; the gateway gives back no more
\* than was paid.
Halves(full) == IF full THEN 2 ELSE 1

\* Variants for the mutants: a full refund leaves the booking's status alone;
\* nobody compares the refunds with what was paid.
RefundCommit_KeepsStatus(c) ==
    /\ call[c].op = "refund"
    /\ returned + Halves(call[c].full) =< 2
    /\ returned' = returned + Halves(call[c].full)
    /\ LET outcome == IF call[c].full THEN "REFUNDED" ELSE "PARTIALLY_REFUNDED"
       IN  /\ payment' = outcome
           /\ escrow' = IF ~call[c].escrow THEN escrow
                        ELSE IF call[c].full THEN "REFUNDED" ELSE "PARTIALLY_RELEASED"
           /\ booking' = [booking EXCEPT !.paid = outcome]
    /\ Answer(c)
    /\ UNCHANGED <<settlement, payout, transfers, bounds>>

RefundCommit_NoLimit(c) ==
    /\ call[c].op = "refund"
    /\ returned' = returned + Halves(call[c].full)
    /\ LET outcome == IF call[c].full THEN "REFUNDED" ELSE "PARTIALLY_REFUNDED"
       IN  /\ payment' = outcome
           /\ escrow' = IF ~call[c].escrow THEN escrow
                        ELSE IF call[c].full THEN "REFUNDED" ELSE "PARTIALLY_RELEASED"
           /\ booking' = [status |-> "CANCELLED", paid |-> outcome]
    /\ Answer(c)
    /\ UNCHANGED <<settlement, payout, transfers, bounds>>

RefundCommit(c) ==
    /\ call[c].op = "refund"
    /\ returned + Halves(call[c].full) =< 2
    /\ returned' = returned + Halves(call[c].full)
    /\ LET full == call[c].full
           outcome == IF full THEN "REFUNDED" ELSE "PARTIALLY_REFUNDED"
       IN  /\ payment' = outcome
           /\ escrow' = IF ~call[c].escrow THEN escrow
                        ELSE IF full THEN "REFUNDED" ELSE "PARTIALLY_RELEASED"
           /\ \E cancel \in {full, TRUE} :     \* refundType CANCELLATION
                booking' = [status |-> IF cancel THEN "CANCELLED" ELSE booking.status,
                            paid |-> outcome]
    /\ Answer(c)
    /\ UNCHANGED <<settlement, payout, transfers, bounds>>

\* The gateway refuses, so the transaction rolls back.
RefundRefused(c) ==
    /\ call[c].op = "refund"
    /\ returned + Halves(call[c].full) > 2
    /\ Answer(c)
    /\ UNCHANGED <<rows, bank, bounds>>

\* The transaction rolls back later; what the gateway did stays done.
RefundTorn(c) ==
    /\ call[c].op = "refund"
    /\ lost < MaxLost
    /\ lost' = lost + 1
    /\ returned + Halves(call[c].full) =< 2
    /\ returned' = returned + Halves(call[c].full)
    /\ Answer(c)
    /\ UNCHANGED <<rows, transfers, errors>>

-----------------------------------------------------------------------------
(* Escrow rows written by a dispute and by administrators: createBookingDispute*)
(* (DISPUTED), freeze (FROZEN), reopen (HELD) and refund (REFUNDED) each read *)
(* the status and write the new one by id.                                   *)

EscrowSources == [DISPUTED |-> {"HELD"}, FROZEN |-> {"HELD", "DISPUTED"},
                  HELD |-> {"FROZEN"}, REFUNDED |-> {"HELD", "DISPUTED", "FROZEN"}]

EscrowBegin(c, to) ==
    /\ Allowed(to)
    /\ escrow \in EscrowSources[to]
    /\ Begin(c, [op |-> "escrow", to |-> to])
    /\ UNCHANGED <<rows, bank, bounds>>

EscrowCommit(c) ==
    /\ call[c].op = "escrow"
    /\ escrow' = call[c].to
    /\ Answer(c)
    /\ UNCHANGED <<booking, payment, settlement, payout, bank, bounds>>

-----------------------------------------------------------------------------
\* A statement throws inside a try: settling turns to its catch block (the
\* audit logs between its transactions throw too), a transfer to markManual.
CatchError(c) ==
    /\ errors < MaxErrors
    /\ errors' = errors + 1
    /\ \/ /\ call[c].op = "settling"
          /\ call[c].at \in {"process", "release", "payoutLookup"}
          /\ Goto(c, "failed")
       \/ /\ call[c].op = "transfer" /\ call[c].at \in {"post", "record", "audit"}
          /\ Goto(c, "manual")
    /\ UNCHANGED <<rows, bank, lost>>

\* A call ends where it stands: the process dies, or a statement throws that
\* nobody catches or whose error is only logged.
Lose(c) ==
    /\ call[c] # Idle
    /\ lost < MaxLost
    /\ lost' = lost + 1
    /\ Answer(c)
    /\ UNCHANGED <<rows, bank, errors>>

-----------------------------------------------------------------------------
BeginCall(c) ==
    \/ CaptureBegin(c)
    \/ \E to \in BookingStatuses : UpdateBegin(c, to)
    \/ \E s \in Settlements, cron \in BOOLEAN :
         ProcessBegin(c, s, cron) \/ RetryBegin(c, s, cron)
    \/ \E s \in Settlements : ReopenBegin(c, s)
    \/ CreateBegin(c)
    \/ \E t \in Payouts : TransferBegin(c, t)
    \/ \E full \in BOOLEAN : RefundBegin(c, full)
    \/ \E to \in DOMAIN EscrowSources : EscrowBegin(c, to)

\* The next statement of a call that has begun.
Continue(c) ==
    \/ CaptureCommit(c) \/ HoldLookup(c) \/ HoldCommit(c)
    \/ UpdateCommit(c)
    \/ SettleLookup(c) \/ SettleInsert(c) \/ SettleProcess(c) \/ SettleRelease(c)
    \/ SettleFailed(c) \/ PayoutLookup(c) \/ PayoutInsert(c)
    \/ ProcessCommit(c) \/ RetryCommit(c) \/ RetryProcess(c) \/ ReopenCommit(c)
    \/ CreateInsert(c)
    \/ TransferPost(c) \/ TransferRecord(c) \/ TransferAudit(c) \/ MarkManual(c)
    \/ RefundCommit(c) \/ RefundRefused(c) \/ EscrowCommit(c)

Next ==
    \/ \E c \in Calls : BeginCall(c) \/ Continue(c) \/ CatchError(c)
                        \/ RefundTorn(c) \/ Lose(c)
    \/ \E s \in Settlements : SettlementFail(s)
    \/ \E t \in Payouts : \/ PayoutDecide(t, "confirm", "COMPLETED")
                          \/ PayoutDecide(t, "failPayout", "FAILED")

Spec == Init /\ [][Next]_vars

(* Fairness: what has begun runs on, and the queue's jobs come round for ever *)
(* (every 30 minutes and every hour); strongly, since the slots of Calls are *)
(* a bound of the model.  Nothing people do is assumed to happen.            *)
CronProcess(s) == \E c \in Calls : ProcessBegin(c, s, TRUE)
CronRetry(s) == \E c \in Calls : RetryBegin(c, s, TRUE)

Fairness ==
    /\ \A c \in Calls : WF_vars(Continue(c))
    /\ \A s \in Settlements : SF_vars(CronProcess(s)) /\ SF_vars(CronRetry(s))

FairSpec == Spec /\ Fairness

-----------------------------------------------------------------------------
TypeOK ==
    /\ booking \in [status: BookingStatuses, paid: PaymentStatuses]
    /\ payment \in {"PENDING", "CAPTURED", "REFUNDED", "PARTIALLY_REFUNDED"}
    /\ escrow \in EscrowStatuses
    /\ settlement \in [Settlements -> SettlementRow]
    /\ payout \in [Payouts -> PayoutRow]
    /\ transfers \in [Payouts -> 0..MaxTransfers]
    /\ returned \in 0..2
    /\ call \in [Calls -> Call]
    /\ errors \in 0..MaxErrors /\ lost \in 0..MaxLost

(* A settlement is paid out at most once, however it was failed, retried,    *)
(* reopened, processed again, or interrupted.                                *)
OnePayoutPerSettlement == \A s \in Settlements : Cardinality(PayoutsOf(s)) =< 1

(* While payouts are processed one call at a time, the bank is asked to      *)
(* transfer a payout again only after a call that was interrupted between    *)
(* the bank's answer and the row: each further transfer costs an error or a  *)
(* lost call.                                                                *)
RepeatedOnlyAfterInterruption ==
    \A t \in Payouts : transfers[t] =< 1 + errors + lost

(* A fully refunded booking is not settled afterwards.                       *)
RefundedNeverSettled ==
    [][\A s \in Settlements :
         settlement[s].status = "ABSENT" /\ settlement'[s].status # "ABSENT"
             => payment # "REFUNDED"]_vars

(* Once the whole payment was refunded no escrow is held for it any more, in *)
(* whatever state the refund found the escrow.                               *)
RefundedNotHeld ==
    payment = "REFUNDED" => escrow \notin {"HELD", "DISPUTED", "FROZEN"}

(* A settlement once created is paid out in the end, though a step of it     *)
(* fails or the half-hourly job takes it up between two of its transactions. *)
SettlementPaidOut ==
    \A s \in Settlements :
        (settlement[s].status # "ABSENT") ~> (PayoutsOf(s) # {})

=============================================================================
