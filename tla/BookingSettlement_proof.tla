----------------------- MODULE BookingSettlement_proof -----------------------
(***************************************************************************)
(* Theorems about BookingSettlement, for any number of settlements and     *)
(* payouts, any operations and any number of errors and lost calls.  Types *)
(* are kept whatever overlaps.  The promises are about one call at a time  *)
(* (OneCall): then what a call has read of the booking, the escrow and the *)
(* payouts is still so when it writes.                                     *)
(***************************************************************************)
EXTENDS BookingSettlement, FiniteSetTheorems, TLAPS

\* Calls that are about to ask the bank for a transfer of payout t.
Posting(t) ==
    {c \in Calls : call[c].op = "transfer" /\ call[c].at = "post" /\ call[c].t = t}

TransfersInBound ==
    \A t \in Payouts : transfers[t] + Cardinality(Posting(t)) =< MaxTransfers

Typed == TypeOK /\ TransfersInBound

OneCall == \E c : Calls = {c}

\* What a call has read, or done, is so now.
Known(x, bk, pay, esc, po, tr, e) ==
    /\ x.op = "capture" => pay = IF x.at = "commit" THEN "PENDING" ELSE "CAPTURED"
    /\ x.op = "update" => x.to \in Transitions[bk.status]
    /\ x.op \in {"settle", "settling"} => bk.status = "COMPLETED"
    /\ x.op \in {"settling", "process"} /\ x.at = "payout"
         => \A t \in Payouts : po[t].settlement # {x.s}
    /\ x.op = "create" => esc = "RELEASED"
    /\ x.op = "refund" => x.escrow \/ esc \in {"NONE", "REFUNDED"}
    /\ x.op = "escrow" => esc \in {"HELD", "DISPUTED", "FROZEN"}
    /\ x.op = "transfer" /\ x.at \in {"post", "manual"} => tr[x.t] =< e
    /\ x.op = "transfer" /\ x.at = "audit" => po[x.t].status \notin {"ABSENT", "PENDING"}

\* Every transfer but one cost an interruption; so did that one, if the payout
\* may be transferred again.
Covered(x, po, tr, e) ==
    \A t \in Payouts :
        /\ tr[t] =< 1 + e
        /\ po[t].status \in {"ABSENT", "PENDING"}
             => tr[t] =< e \/ (x.op = "transfer" /\ x.at = "record" /\ x.t = t)

Refunded(bk, pay, esc) ==
    pay = "REFUNDED" => esc \in {"NONE", "REFUNDED"} /\ bk.status = "CANCELLED"

PaidOnce(po) ==
    \A t, u \in Payouts : \A s \in Settlements :
        po[t].settlement = {s} /\ po[u].settlement = {s} => t = u

Serial ==
    /\ \A c \in Calls : /\ Known(call[c], booking, payment, escrow, payout, transfers,
                                 errors + lost)
                         /\ Covered(call[c], payout, transfers, errors + lost)
    /\ Refunded(booking, payment, escrow)
    /\ PaidOnce(payout)

RowTypes ==
    /\ booking \in [status: BookingStatuses, paid: PaymentStatuses]
    /\ payment \in {"PENDING", "CAPTURED", "REFUNDED", "PARTIALLY_REFUNDED"}
    /\ escrow \in EscrowStatuses
    /\ settlement \in [Settlements -> SettlementRow]
    /\ payout \in [Payouts -> PayoutRow]
    /\ returned \in 0..2
    /\ errors \in 0..MaxErrors /\ lost \in 0..MaxLost

-----------------------------------------------------------------------------
(* The kinds of call tell themselves apart.                                  *)
LEMMA CallShapes ==
    ASSUME NEW x \in Call
    PROVE  /\ x.op \in {"settling", "process", "retry", "reopen"} => x.s \in Settlements
           /\ x.op = "transfer" => x.t \in Payouts
           /\ x.op = "update" => x.to \in BookingStatuses
           /\ x.op = "escrow" => x.to \in EscrowStatuses
           /\ x.op = "refund" => x.full \in BOOLEAN /\ x.escrow \in BOOLEAN
           /\ x.op = "idle" => x = Idle
  BY DEF Call, Idle

LEMMA IdleCall == Idle \in Call /\ Idle.op = "idle"
  BY DEF Call, Idle

(* A call that goes on to another label stays what it is.                    *)
LEMMA Relabelled ==
    ASSUME NEW x \in Call, NEW label,
           \/ x.op = "capture" /\ label \in {"commit", "lookup", "hold"}
           \/ x.op = "settle" /\ label \in {"lookup", "insert"}
           \/ x.op = "settling"
                /\ label \in {"process", "release", "payoutLookup", "payout", "failed"}
           \/ x.op = "process" /\ label \in {"commit", "payoutLookup", "payout"}
           \/ x.op = "retry" /\ label \in {"commit", "reread"}
           \/ x.op = "transfer" /\ label \in {"post", "record", "audit", "manual"}
    PROVE  LET y == [x EXCEPT !.at = label]
           IN  /\ y \in Call /\ y.op = x.op /\ y.at = label
               /\ x.op \in {"settling", "process", "retry"} => y.s = x.s
               /\ x.op = "transfer" => y.t = x.t
  BY DEF Call, Idle

LEMMA SettlementRows ==
    ASSUME NEW row \in SettlementRow, NEW st \in SettlementStatuses
    PROVE  /\ [row EXCEPT !.status = st] \in SettlementRow
           /\ [row EXCEPT !.status = st].status = st
           /\ [row EXCEPT !.status = st, !.retryCount = OneMoreRetry(@)] \in SettlementRow
           /\ [row EXCEPT !.status = st, !.retryCount = OneMoreRetry(@)].status = st
<1>1. \A n \in 0..MaxRetries : OneMoreRetry(n) \in 0..MaxRetries
  BY DEF OneMoreRetry, MaxRetries
<1> QED
  BY <1>1 DEF SettlementRow

LEMMA PayoutRows ==
    ASSUME NEW row \in PayoutRow, NEW st \in PayoutStatuses
    PROVE  /\ [row EXCEPT !.status = st] \in PayoutRow
           /\ [row EXCEPT !.status = st].status = st
           /\ [row EXCEPT !.status = st].settlement = row.settlement
           /\ [row EXCEPT !.status = st, !.manual = TRUE] \in PayoutRow
           /\ [row EXCEPT !.status = st, !.manual = TRUE].status = st
           /\ [row EXCEPT !.status = st, !.manual = TRUE].settlement = row.settlement
  BY DEF PayoutRow

LEMMA PostingFinite ==
    ASSUME NEW t
    PROVE  IsFiniteSet(Posting(t)) /\ Cardinality(Posting(t)) \in Nat
<1>1. Posting(t) \subseteq Calls
  BY DEF Posting
<1> QED
  BY <1>1, ConstantsAssumption, FS_Subset, FS_CardinalityType

-----------------------------------------------------------------------------
(* Types, whatever overlaps.                                                 *)

(* A call goes on to x and asks nothing of the bank.                         *)
LEMMA CallTyped ==
    ASSUME Typed, NEW c \in Calls, NEW x \in Call, call' = [call EXCEPT ![c] = x],
           x.op = "transfer" => x.at # "post",
           UNCHANGED transfers, RowTypes'
    PROVE  Typed'
<1>1. call' \in [Calls -> Call]
  BY DEF Typed, TypeOK
<1>2. ASSUME NEW t \in Payouts
      PROVE  transfers'[t] + Cardinality(Posting(t)') =< MaxTransfers
  <2>1. Posting(t)' \subseteq Posting(t)
    BY DEF Posting, Typed, TypeOK
  <2>2. /\ Cardinality(Posting(t)') =< Cardinality(Posting(t))
        /\ Cardinality(Posting(t)') \in Nat /\ Cardinality(Posting(t)) \in Nat
    BY <2>1, PostingFinite, FS_Subset, FS_CardinalityType
  <2>3. transfers[t] \in Nat /\ MaxTransfers \in Nat
    BY ConstantsAssumption DEF Typed, TypeOK
  <2> QED
    BY <2>2, <2>3 DEF Typed, TransfersInBound
<1> QED
  BY <1>1, <1>2 DEF Typed, TypeOK, RowTypes, TransfersInBound

LEMMA RowsTyped ==
    ASSUME Typed, UNCHANGED <<call, transfers>>, RowTypes'
    PROVE  Typed'
<1>1. TransfersInBound'
  BY DEF Typed, TransfersInBound, Posting
<1> QED
  BY <1>1 DEF Typed, TypeOK, RowTypes

LEMMA GotoTyped ==
    ASSUME Typed, NEW c \in Calls, NEW label, Goto(c, label), UNCHANGED transfers, RowTypes',
           \/ call[c].op = "capture" /\ label \in {"commit", "lookup", "hold"}
           \/ call[c].op = "settle" /\ label \in {"lookup", "insert"}
           \/ call[c].op = "settling"
                /\ label \in {"process", "release", "payoutLookup", "payout", "failed"}
           \/ call[c].op = "process" /\ label \in {"commit", "payoutLookup", "payout"}
           \/ call[c].op = "retry" /\ label \in {"commit", "reread"}
           \/ call[c].op = "transfer" /\ label \in {"record", "audit", "manual"}
    PROVE  Typed'
<1> DEFINE x == [call[c] EXCEPT !.at = label]
<1>1. call[c] \in Call /\ call' = [call EXCEPT ![c] = x]
  BY DEF Goto, Typed, TypeOK
<1>2. x \in Call /\ x.op = call[c].op /\ x.at = label
  BY <1>1, Relabelled
<1> HIDE DEF x
<1> QED
  BY <1>1, <1>2, CallTyped

LEMMA AnswerTyped ==
    ASSUME Typed, NEW c \in Calls, Answer(c), UNCHANGED transfers, RowTypes'
    PROVE  Typed'
  BY IdleCall, CallTyped DEF Answer

LEMMA BeginTyped ==
    ASSUME Typed, NEW c \in Calls, NEW x \in Call, Begin(c, x),
           x.op = "transfer" => x.at # "post", UNCHANGED <<rows, bank, bounds>>
    PROVE  Typed'
<1>1. RowTypes'
  BY DEF RowTypes, Typed, TypeOK, rows, bank, bounds
<1> QED
  BY <1>1, CallTyped DEF Begin, bank

LEMMA BeginCallTyped ==
    ASSUME Typed, NEW c \in Calls, BeginCall(c)
    PROVE  Typed'
<1>1. CASE CaptureBegin(c)
  <2> DEFINE x == [op |-> "capture", at |-> "commit"]
  <2>1. x \in Call /\ x.op # "transfer"
    BY DEF Call
  <2> QED
    BY <1>1, <2>1, BeginTyped DEF CaptureBegin
<1>2. ASSUME NEW to \in BookingStatuses, UpdateBegin(c, to) PROVE Typed'
  <2> DEFINE x == [op |-> "update", to |-> to]
  <2>1. x \in Call /\ x.op # "transfer"
    BY DEF Call
  <2> QED
    BY <1>2, <2>1, BeginTyped DEF UpdateBegin
<1>3. ASSUME NEW s \in Settlements, NEW cron \in BOOLEAN, ProcessBegin(c, s, cron)
      PROVE  Typed'
  <2> DEFINE x == [op |-> "process", s |-> s, cron |-> cron, at |-> "commit"]
  <2>1. x \in Call /\ x.op # "transfer"
    BY DEF Call
  <2> QED
    BY <1>3, <2>1, BeginTyped DEF ProcessBegin
<1>4. ASSUME NEW s \in Settlements, NEW cron \in BOOLEAN, RetryBegin(c, s, cron)
      PROVE  Typed'
  <2> DEFINE x == [op |-> "retry", s |-> s, cron |-> cron, at |-> "commit"]
  <2>1. x \in Call /\ x.op # "transfer"
    BY DEF Call
  <2> QED
    BY <1>4, <2>1, BeginTyped DEF RetryBegin
<1>5. ASSUME NEW s \in Settlements, ReopenBegin(c, s) PROVE Typed'
  <2> DEFINE x == [op |-> "reopen", s |-> s]
  <2>1. x \in Call /\ x.op # "transfer"
    BY DEF Call
  <2> QED
    BY <1>5, <2>1, BeginTyped DEF ReopenBegin
<1>6. CASE CreateBegin(c)
  <2> DEFINE x == [op |-> "create"]
  <2>1. x \in Call /\ x.op # "transfer"
    BY DEF Call
  <2> QED
    BY <1>6, <2>1, BeginTyped DEF CreateBegin
<1>7. ASSUME NEW t \in Payouts, TransferBegin(c, t) PROVE Typed'
  <2>1. PICK label \in {"post", "manual"} :
          call[c] = Idle /\ call' = [call EXCEPT ![c] = [op |-> "transfer", t |-> t, at |-> label]]
    BY <1>7 DEF TransferBegin, Begin
  <2>2. [op |-> "transfer", t |-> t, at |-> label] \in Call
    BY DEF Call
  <2>3. call \in [Calls -> Call] /\ call' \in [Calls -> Call]
    BY <2>1, <2>2 DEF Typed, TypeOK
  <2>4. RowTypes' /\ transfers' = transfers
    BY <1>7 DEF TransferBegin, RowTypes, Typed, TypeOK, rows, bank, bounds
  <2>5. ASSUME NEW u \in Payouts
        PROVE  transfers[u] + Cardinality(Posting(u)') =< MaxTransfers
    <3>1. u # t => Posting(u)' \subseteq Posting(u)
      BY <2>1, <2>3 DEF Posting
    <3>2. Posting(t)' \subseteq Posting(t) \cup {c}
      BY <2>1, <2>3 DEF Posting
    <3> DEFINE Busy == {d \in Calls : call[d].op = "transfer" /\ call[d].t = t}
    <3>3. Posting(t) \subseteq Busy /\ IsFiniteSet(Busy)
      BY ConstantsAssumption, FS_Subset DEF Posting
    <3>4. transfers[t] + Cardinality(Busy) < MaxTransfers
      BY <1>7 DEF TransferBegin, RoomForATransfer
    <3>5. /\ Cardinality(Posting(t)) =< Cardinality(Busy) /\ Cardinality(Busy) \in Nat
          /\ Cardinality(Posting(t) \cup {c}) =< Cardinality(Posting(t)) + 1
          /\ IsFiniteSet(Posting(t) \cup {c})
      BY <3>3, PostingFinite, FS_Subset, FS_CardinalityType, FS_AddElement
    <3>6. /\ Cardinality(Posting(t)') =< Cardinality(Posting(t) \cup {c})
          /\ Cardinality(Posting(t)') \in Nat /\ Cardinality(Posting(t) \cup {c}) \in Nat
          /\ Cardinality(Posting(t)) \in Nat
      BY <3>2, <3>5, PostingFinite, FS_Subset, FS_CardinalityType
    <3>7. u # t => /\ Cardinality(Posting(u)') =< Cardinality(Posting(u))
                   /\ Cardinality(Posting(u)') \in Nat /\ Cardinality(Posting(u)) \in Nat
      BY <3>1, PostingFinite, FS_Subset, FS_CardinalityType
    <3>8. transfers[u] \in Nat /\ transfers[t] \in Nat /\ MaxTransfers \in Nat
          /\ transfers[u] + Cardinality(Posting(u)) =< MaxTransfers
      BY ConstantsAssumption DEF Typed, TypeOK, TransfersInBound
    <3> HIDE DEF Busy
    <3>9. CASE u = t
      BY <3>4, <3>5, <3>6, <3>8, <3>9
    <3>10. CASE u # t
      BY <3>7, <3>8, <3>10
    <3> QED
      BY <3>9, <3>10
  <2> QED
    BY <2>3, <2>4, <2>5 DEF Typed, TypeOK, RowTypes, TransfersInBound
<1>8. ASSUME NEW full \in BOOLEAN, RefundBegin(c, full) PROVE Typed'
  <2> DEFINE x == [op |-> "refund", full |-> full,
                   escrow |-> escrow \notin {"NONE", "REFUNDED"}]
  <2>1. x \in Call /\ x.op # "transfer"
    BY DEF Call
  <2> QED
    BY <1>8, <2>1, BeginTyped DEF RefundBegin
<1>9. ASSUME NEW to \in DOMAIN EscrowSources, EscrowBegin(c, to) PROVE Typed'
  <2> DEFINE x == [op |-> "escrow", to |-> to]
  <2>1. x \in Call /\ x.op # "transfer"
    BY DEF Call, EscrowSources, EscrowStatuses
  <2> QED
    BY <1>9, <2>1, BeginTyped DEF EscrowBegin
<1> QED
  BY <1>1, <1>2, <1>3, <1>4, <1>5, <1>6, <1>7, <1>8, <1>9 DEF BeginCall

(* The rows of the booking, its payment and its escrow.                      *)
LEMMA MoneyTyped ==
    ASSUME Typed, NEW c \in Calls,
           \/ CaptureCommit(c) \/ HoldLookup(c) \/ HoldCommit(c) \/ UpdateCommit(c)
           \/ SettleLookup(c) \/ SettleRelease(c)
           \/ RefundCommit(c) \/ RefundRefused(c) \/ RefundTorn(c) \/ EscrowCommit(c)
    PROVE  Typed'
<1>1. RowTypes /\ call[c] \in Call /\ returned \in 0..2
  BY DEF Typed, TypeOK, RowTypes
<1>2. CASE CaptureCommit(c)
  <2>1. RowTypes' /\ UNCHANGED transfers
    BY <1>1, <1>2 DEF CaptureCommit, RowTypes, bank, bounds, BookingStatuses, PaymentStatuses
  <2> QED
    BY <1>2, <2>1, GotoTyped DEF CaptureCommit, At
<1>3. CASE HoldLookup(c)
  <2>1. RowTypes' /\ UNCHANGED transfers
    BY <1>1, <1>3 DEF HoldLookup, RowTypes, rows, bank, bounds
  <2> QED
    BY <1>3, <2>1, GotoTyped, AnswerTyped DEF HoldLookup, At
<1>4. CASE HoldCommit(c)
  <2>1. RowTypes' /\ UNCHANGED transfers
    BY <1>1, <1>4 DEF HoldCommit, RowTypes, bank, bounds, EscrowStatuses
  <2> QED
    BY <1>4, <2>1, AnswerTyped DEF HoldCommit
<1>5. CASE UpdateCommit(c)
  <2>1. call[c].to \in BookingStatuses
    BY <1>1, <1>5, CallShapes DEF UpdateCommit
  <2>2. RowTypes' /\ UNCHANGED transfers
    BY <1>1, <1>5, <2>1 DEF UpdateCommit, RowTypes, bank, bounds
  <2> DEFINE x == [op |-> "settle", at |-> "lookup"]
  <2>3. x \in Call /\ x.op # "transfer"
    BY DEF Call
  <2>4. call' = [call EXCEPT ![c] = x] \/ Answer(c)
    BY <1>5 DEF UpdateCommit, Become
  <2> QED
    BY <2>2, <2>3, <2>4, CallTyped, AnswerTyped
<1>6. CASE SettleLookup(c)
  <2>1. RowTypes' /\ UNCHANGED transfers
    BY <1>1, <1>6 DEF SettleLookup, RowTypes, rows, bank, bounds
  <2> QED
    BY <1>6, <2>1, GotoTyped, AnswerTyped DEF SettleLookup, At
<1>7. CASE SettleRelease(c)
  <2>1. RowTypes' /\ UNCHANGED transfers
    BY <1>1, <1>7 DEF SettleRelease, RowTypes, bank, bounds, EscrowStatuses
  <2> QED
    BY <1>7, <2>1, GotoTyped DEF SettleRelease, At
<1>8. CASE RefundCommit(c)
  <2>1. returned' \in 0..2
    BY <1>1, <1>8 DEF RefundCommit, Halves
  <2>2. PICK cancel \in {call[c].full, TRUE} :
          booking' = [status |-> IF cancel THEN "CANCELLED" ELSE booking.status,
                      paid |-> IF call[c].full THEN "REFUNDED" ELSE "PARTIALLY_REFUNDED"]
    BY <1>8 DEF RefundCommit
  <2>3. booking' \in [status: BookingStatuses, paid: PaymentStatuses]
    BY <1>1, <2>2 DEF RowTypes, BookingStatuses, PaymentStatuses
  <2>4. payment' \in {"REFUNDED", "PARTIALLY_REFUNDED"} /\ escrow' \in EscrowStatuses
    BY <1>1, <1>8 DEF RefundCommit, RowTypes, EscrowStatuses
  <2>5. RowTypes' /\ UNCHANGED transfers
    BY <1>1, <1>8, <2>1, <2>3, <2>4 DEF RefundCommit, RowTypes, bounds
  <2> QED
    BY <1>8, <2>5, AnswerTyped DEF RefundCommit
<1>9. CASE RefundRefused(c)
  <2>1. RowTypes' /\ UNCHANGED transfers
    BY <1>1, <1>9 DEF RefundRefused, RowTypes, rows, bank, bounds
  <2> QED
    BY <1>9, <2>1, AnswerTyped DEF RefundRefused
<1>10. CASE RefundTorn(c)
  <2>1. returned' \in 0..2
    BY <1>1, <1>10 DEF RefundTorn, Halves
  <2>2. lost' \in 0..MaxLost
    BY <1>1, <1>10, ConstantsAssumption DEF RefundTorn, RowTypes
  <2>3. RowTypes' /\ UNCHANGED transfers
    BY <1>1, <1>10, <2>1, <2>2 DEF RefundTorn, RowTypes, rows
  <2> QED
    BY <1>10, <2>3, AnswerTyped DEF RefundTorn
<1>11. CASE EscrowCommit(c)
  <2>1. call[c].to \in EscrowStatuses
    BY <1>1, <1>11, CallShapes DEF EscrowCommit
  <2>2. RowTypes' /\ UNCHANGED transfers
    BY <1>1, <1>11, <2>1 DEF EscrowCommit, RowTypes, bank, bounds
  <2> QED
    BY <1>11, <2>2, AnswerTyped DEF EscrowCommit
<1> QED
  BY <1>2, <1>3, <1>4, <1>5, <1>6, <1>7, <1>8, <1>9, <1>10, <1>11

(* The settlement's rows.                                                    *)
LEMMA SettlementTyped ==
    ASSUME Typed, NEW c \in Calls,
           \/ SettleInsert(c) \/ SettleProcess(c) \/ SettleFailed(c) \/ ProcessCommit(c)
           \/ RetryCommit(c) \/ RetryProcess(c) \/ ReopenCommit(c) \/ CreateInsert(c)
    PROVE  Typed'
<1>1. RowTypes /\ call[c] \in Call /\ settlement \in [Settlements -> SettlementRow]
  BY DEF Typed, TypeOK, RowTypes
<1>2. {"PENDING", "PROCESSED", "FAILED", "RETRYING", "REOPENED"} \subseteq SettlementStatuses
  BY DEF SettlementStatuses
<1>3. ASSUME NEW s \in Settlements, NEW st \in SettlementStatuses,
             \/ settlement' = [settlement EXCEPT ![s].status = st]
             \/ settlement' = [settlement EXCEPT ![s].status = st,
                                                 ![s].retryCount = OneMoreRetry(@)],
             UNCHANGED <<booking, payment, escrow, payout, bank, bounds>>
      PROVE  RowTypes' /\ UNCHANGED transfers
  <2>1. \E row \in SettlementRow : settlement' = [settlement EXCEPT ![s] = row]
    <3> DEFINE row1 == [settlement[s] EXCEPT !.status = st]
               row2 == [settlement[s] EXCEPT !.status = st, !.retryCount = OneMoreRetry(@)]
    <3>1. row1 \in SettlementRow /\ row2 \in SettlementRow
      BY <1>1, SettlementRows
    <3>2. settlement' = [settlement EXCEPT ![s] = row1]
          \/ settlement' = [settlement EXCEPT ![s] = row2]
      BY <1>1, <1>3
    <3> HIDE DEF row1, row2
    <3> QED
      BY <3>1, <3>2
  <2>2. settlement' \in [Settlements -> SettlementRow]
    BY <1>1, <2>1
  <2> QED
    BY <1>1, <1>3, <2>2 DEF RowTypes, bank, bounds
<1>4. CASE SettleInsert(c)
  <2>1. PICK s \in Settlements :
          /\ settlement' = [settlement EXCEPT ![s].status = "PENDING"]
          /\ Become(c, [op |-> "settling", s |-> s, at |-> "process"])
    BY <1>4 DEF SettleInsert, SettlementIn
  <2>2. RowTypes' /\ UNCHANGED transfers
    BY <1>2, <1>3, <1>4, <2>1 DEF SettleInsert
  <2> DEFINE x == [op |-> "settling", s |-> s, at |-> "process"]
  <2>3. x \in Call /\ x.op # "transfer"
    BY DEF Call
  <2> QED
    BY <2>1, <2>2, <2>3, CallTyped DEF Become
<1>5. CASE SettleProcess(c)
  <2>1. call[c].s \in Settlements /\ call[c].op = "settling"
    BY <1>1, <1>5, CallShapes DEF SettleProcess, At
  <2>2. RowTypes' /\ UNCHANGED transfers
    BY <1>2, <1>3, <1>5, <2>1 DEF SettleProcess
  <2> QED
    BY <1>5, <2>1, <2>2, GotoTyped DEF SettleProcess
<1>6. CASE SettleFailed(c)
  <2>1. call[c].s \in Settlements
    BY <1>1, <1>6, CallShapes DEF SettleFailed, At
  <2>2. RowTypes' /\ UNCHANGED transfers
    BY <1>2, <1>3, <1>6, <2>1 DEF SettleFailed
  <2> QED
    BY <1>6, <2>2, AnswerTyped DEF SettleFailed
<1>7. CASE ProcessCommit(c)
  <2>1. call[c].s \in Settlements /\ call[c].op = "process"
    BY <1>1, <1>7, CallShapes DEF ProcessCommit, At
  <2>2. RowTypes' /\ UNCHANGED transfers
    BY <1>2, <1>3, <1>7, <2>1 DEF ProcessCommit
  <2> QED
    BY <1>7, <2>1, <2>2, GotoTyped DEF ProcessCommit
<1>8. CASE RetryCommit(c)
  <2>1. call[c].s \in Settlements /\ call[c].op = "retry"
    BY <1>1, <1>8, CallShapes DEF RetryCommit, At
  <2>2. RowTypes' /\ UNCHANGED transfers
    BY <1>2, <1>3, <1>8, <2>1 DEF RetryCommit
  <2> QED
    BY <1>8, <2>1, <2>2, GotoTyped, AnswerTyped DEF RetryCommit
<1>9. CASE RetryProcess(c)
  <2>1. call[c].s \in Settlements
    BY <1>1, <1>9, CallShapes DEF RetryProcess, At
  <2>2. RowTypes' /\ UNCHANGED transfers
    BY <1>1, <1>9 DEF RetryProcess, RowTypes, rows, bank, bounds
  <2> DEFINE x == [op |-> "process", s |-> call[c].s, cron |-> TRUE, at |-> "commit"]
  <2>3. x \in Call /\ x.op # "transfer"
    BY <2>1 DEF Call
  <2>4. call' = [call EXCEPT ![c] = x] \/ Answer(c)
    BY <1>9 DEF RetryProcess, Become
  <2> QED
    BY <2>2, <2>3, <2>4, CallTyped, AnswerTyped
<1>10. CASE ReopenCommit(c)
  <2>1. call[c].s \in Settlements
    BY <1>1, <1>10, CallShapes DEF ReopenCommit
  <2>2. RowTypes' /\ UNCHANGED transfers
    BY <1>2, <1>3, <1>10, <2>1 DEF ReopenCommit
  <2> QED
    BY <1>10, <2>2, AnswerTyped DEF ReopenCommit
<1>11. CASE CreateInsert(c)
  <2>1. PICK s \in Settlements : settlement' = [settlement EXCEPT ![s].status = "PENDING"]
    BY <1>11 DEF CreateInsert, SettlementIn
  <2>2. RowTypes' /\ UNCHANGED transfers
    BY <1>2, <1>3, <1>11, <2>1 DEF CreateInsert
  <2> QED
    BY <1>11, <2>2, AnswerTyped DEF CreateInsert
<1> QED
  BY <1>4, <1>5, <1>6, <1>7, <1>8, <1>9, <1>10, <1>11

(* The payout's rows.                                                        *)
LEMMA PayoutTyped ==
    ASSUME Typed, NEW c \in Calls,
           \/ PayoutLookup(c) \/ PayoutInsert(c) \/ TransferRecord(c) \/ TransferAudit(c)
           \/ MarkManual(c)
    PROVE  Typed'
<1>1. RowTypes /\ call[c] \in Call /\ payout \in [Payouts -> PayoutRow]
  BY DEF Typed, TypeOK, RowTypes
<1>2. CASE PayoutLookup(c)
  <2>1. RowTypes' /\ UNCHANGED transfers
    BY <1>1, <1>2 DEF PayoutLookup, RowTypes, rows, bank, bounds
  <2> QED
    BY <1>2, <2>1, GotoTyped, AnswerTyped DEF PayoutLookup
<1>3. CASE PayoutInsert(c)
  <2> DEFINE row == [status |-> "PENDING", manual |-> FALSE, settlement |-> {call[c].s}]
  <2>1. row \in PayoutRow
    BY <1>1, <1>3, CallShapes DEF PayoutInsert, PayoutRow, PayoutStatuses
  <2>2. PICK t \in Payouts : payout' = [payout EXCEPT ![t] = row]
    BY <1>3 DEF PayoutInsert
  <2>3. RowTypes' /\ UNCHANGED transfers
    BY <1>1, <1>3, <2>1, <2>2 DEF PayoutInsert, RowTypes, bank, bounds
  <2> QED
    BY <1>3, <2>3, AnswerTyped DEF PayoutInsert
<1>4. CASE TransferRecord(c)
  <2>1. call[c].t \in Payouts /\ call[c].op = "transfer"
    BY <1>1, <1>4, CallShapes DEF TransferRecord, At
  <2>2. payout' = [payout EXCEPT ![call[c].t] =
                     [payout[call[c].t] EXCEPT !.status = "PROCESSING"]]
    BY <1>4 DEF TransferRecord
  <2>3. payout' \in [Payouts -> PayoutRow]
    BY <1>1, <2>1, <2>2, PayoutRows DEF PayoutStatuses
  <2>4. RowTypes' /\ UNCHANGED transfers
    BY <1>1, <1>4, <2>3 DEF TransferRecord, RowTypes, bank, bounds
  <2> QED
    BY <1>4, <2>1, <2>4, GotoTyped DEF TransferRecord
<1>5. CASE TransferAudit(c)
  <2>1. RowTypes' /\ UNCHANGED transfers
    BY <1>1, <1>5 DEF TransferAudit, RowTypes, rows, bank, bounds
  <2> QED
    BY <1>5, <2>1, AnswerTyped DEF TransferAudit
<1>6. CASE MarkManual(c)
  <2>1. call[c].t \in Payouts
    BY <1>1, <1>6, CallShapes DEF MarkManual, At
  <2>2. payout' = [payout EXCEPT ![call[c].t] =
                     [payout[call[c].t] EXCEPT !.status = "PENDING", !.manual = TRUE]]
    BY <1>1, <1>6, <2>1 DEF MarkManual
  <2>3. payout' \in [Payouts -> PayoutRow]
    BY <1>1, <2>1, <2>2, PayoutRows DEF PayoutStatuses
  <2>4. RowTypes' /\ UNCHANGED transfers
    BY <1>1, <1>6, <2>3 DEF MarkManual, RowTypes, bank, bounds
  <2> QED
    BY <1>6, <2>4, AnswerTyped DEF MarkManual
<1> QED
  BY <1>2, <1>3, <1>4, <1>5, <1>6

(* The bank takes a transfer that was counted when it was begun.             *)
LEMMA PostTyped ==
    ASSUME Typed, NEW c \in Calls, TransferPost(c)
    PROVE  Typed'
<1> DEFINE x == [call[c] EXCEPT !.at = "record"]
           t == call[c].t
<1>1. /\ call[c] \in Call /\ call \in [Calls -> Call] /\ call' = [call EXCEPT ![c] = x]
      /\ call[c].op = "transfer" /\ call[c].at = "post" /\ t \in Payouts
      /\ transfers \in [Payouts -> 0..MaxTransfers]
      /\ transfers' = [transfers EXCEPT ![t] = @ + 1]
  BY CallShapes DEF TransferPost, At, Goto, Typed, TypeOK
<1>2. x \in Call /\ x.op = "transfer" /\ x.at = "record"
  BY <1>1, Relabelled
<1>3. RowTypes' /\ call' \in [Calls -> Call]
  BY <1>1, <1>2 DEF TransferPost, RowTypes, Typed, TypeOK, rows, bounds
<1> HIDE DEF x
<1>4. ASSUME NEW u \in Payouts
      PROVE  transfers'[u] + Cardinality(Posting(u)') =< MaxTransfers
             /\ transfers'[u] \in 0..MaxTransfers
  <2>1. Posting(u)' \subseteq Posting(u) /\ c \notin Posting(u)'
    BY <1>1, <1>2 DEF Posting
  <2>2. u = t => Posting(u)' \subseteq Posting(u) \ {c} /\ c \in Posting(u)
    BY <1>1, <2>1 DEF Posting
  <2>3. /\ Cardinality(Posting(u)') \in Nat /\ Cardinality(Posting(u)) \in Nat
        /\ Cardinality(Posting(u)') =< Cardinality(Posting(u))
    BY <2>1, PostingFinite, FS_Subset, FS_CardinalityType
  <2>4. u = t => Cardinality(Posting(u)') =< Cardinality(Posting(u)) - 1
    <3> SUFFICES ASSUME u = t PROVE Cardinality(Posting(u)') =< Cardinality(Posting(u)) - 1
      OBVIOUS
    <3>1. /\ IsFiniteSet(Posting(u) \ {c})
          /\ Cardinality(Posting(u) \ {c}) = Cardinality(Posting(u)) - 1
      BY <2>2, PostingFinite, FS_RemoveElement
    <3> QED
      BY <2>2, <3>1, FS_Subset
  <2>5. /\ transfers[u] \in Nat /\ MaxTransfers \in Nat
        /\ transfers[u] + Cardinality(Posting(u)) =< MaxTransfers
        /\ transfers'[u] = IF u = t THEN transfers[u] + 1 ELSE transfers[u]
    BY <1>1, ConstantsAssumption DEF Typed, TransfersInBound
  <2> HIDE DEF t
  <2> QED
    BY <2>3, <2>4, <2>5
<1>5. transfers' \in [Payouts -> 0..MaxTransfers]
  BY <1>1, <1>4
<1> QED
  BY <1>3, <1>4, <1>5 DEF Typed, TypeOK, RowTypes, TransfersInBound

(* Errors, deaths, and what administrators write without reading.            *)
LEMMA OthersTyped ==
    ASSUME Typed
    PROVE  /\ \A c \in Calls : CatchError(c) \/ Lose(c) => Typed'
           /\ \A s \in Settlements : SettlementFail(s) => Typed'
           /\ \A t \in Payouts : PayoutDecide(t, "confirm", "COMPLETED") => Typed'
           /\ \A t \in Payouts : PayoutDecide(t, "failPayout", "FAILED") => Typed'
<1>1. RowTypes /\ settlement \in [Settlements -> SettlementRow]
      /\ payout \in [Payouts -> PayoutRow]
  BY DEF Typed, TypeOK, RowTypes
<1>2. ASSUME NEW c \in Calls, CatchError(c) PROVE Typed'
  <2>1. errors' \in 0..MaxErrors
    BY <1>1, <1>2, ConstantsAssumption DEF CatchError, RowTypes
  <2>2. RowTypes' /\ UNCHANGED transfers
    BY <1>1, <1>2, <2>1 DEF CatchError, RowTypes, rows, bank
  <2> QED
    BY <1>2, <2>2, GotoTyped DEF CatchError
<1>3. ASSUME NEW c \in Calls, Lose(c) PROVE Typed'
  <2>1. lost' \in 0..MaxLost
    BY <1>1, <1>3, ConstantsAssumption DEF Lose, RowTypes
  <2>2. RowTypes' /\ UNCHANGED transfers
    BY <1>1, <1>3, <2>1 DEF Lose, RowTypes, rows, bank
  <2> QED
    BY <1>3, <2>2, AnswerTyped DEF Lose
<1>4. ASSUME NEW s \in Settlements, SettlementFail(s) PROVE Typed'
  <2>1. settlement' = [settlement EXCEPT ![s] = [settlement[s] EXCEPT !.status = "FAILED"]]
    BY <1>4 DEF SettlementFail
  <2>2. settlement' \in [Settlements -> SettlementRow]
    BY <1>1, <2>1, SettlementRows DEF SettlementStatuses
  <2>3. RowTypes' /\ UNCHANGED <<call, transfers>>
    BY <1>1, <1>4, <2>2 DEF SettlementFail, RowTypes, bank, bounds
  <2> QED
    BY <2>3, RowsTyped
<1>5. ASSUME NEW t \in Payouts, NEW st \in PayoutStatuses, NEW operation,
             PayoutDecide(t, operation, st)
      PROVE  Typed'
  <2>1. payout' = [payout EXCEPT ![t] = [payout[t] EXCEPT !.status = st]]
    BY <1>5 DEF PayoutDecide
  <2>2. payout' \in [Payouts -> PayoutRow]
    BY <1>1, <2>1, PayoutRows
  <2>3. RowTypes' /\ UNCHANGED <<call, transfers>>
    BY <1>1, <1>5, <2>2 DEF PayoutDecide, RowTypes, bank, bounds
  <2> QED
    BY <2>3, RowsTyped
<1>6. "COMPLETED" \in PayoutStatuses /\ "FAILED" \in PayoutStatuses
  BY DEF PayoutStatuses
<1> QED
  BY <1>2, <1>3, <1>4, <1>5, <1>6

LEMMA TypedStep ==
    ASSUME Typed, [Next]_vars
    PROVE  Typed'
<1>1. CASE UNCHANGED vars
  <2>1. RowTypes' /\ UNCHANGED <<call, transfers>>
    BY <1>1 DEF Typed, TypeOK, RowTypes, vars, rows, bank, bounds
  <2> QED
    BY <2>1, RowsTyped
<1>2. ASSUME NEW c \in Calls, Continue(c) \/ RefundTorn(c) PROVE Typed'
  BY <1>2, MoneyTyped, SettlementTyped, PayoutTyped, PostTyped DEF Continue
<1> QED
  BY <1>1, <1>2, BeginCallTyped, OthersTyped DEF Next

-----------------------------------------------------------------------------
(* One call at a time.                                                       *)
LEMMA IdleKnown ==
    ASSUME NEW bk, NEW pay, NEW esc, NEW po, NEW tr, NEW e
    PROVE  Known(Idle, bk, pay, esc, po, tr, e)
  BY DEF Known, Idle

LEMMA OneCallGoesOn ==
    ASSUME Typed, OneCall, NEW c \in Calls, NEW x, call' = [call EXCEPT ![c] = x],
           Known(x, booking', payment', escrow', payout', transfers', errors' + lost'),
           Covered(x, payout', transfers', errors' + lost'),
           Refunded(booking', payment', escrow'), PaidOnce(payout')
    PROVE  Serial'
<1>1. \A d \in Calls : d = c /\ call'[d] = x
  BY DEF OneCall, Typed, TypeOK
<1> QED
  BY <1>1 DEF Serial

(* A call that does nothing about transfers or payouts.                      *)
LEMMA CoveredStill ==
    ASSUME Typed, Serial, NEW c \in Calls, NEW x,
           call[c].op = "transfer" => call[c].at # "record",
           UNCHANGED <<payout, transfers, errors, lost>>
    PROVE  Covered(x, payout', transfers', errors' + lost')
  BY DEF Serial, Covered

LEMMA BeginSerial ==
    ASSUME Typed, Serial, OneCall, NEW c \in Calls, NEW x, Begin(c, x),
           UNCHANGED <<rows, bank, bounds>>,
           Known(x, booking, payment, escrow, payout, transfers, errors + lost)
    PROVE  Serial'
<1>1. UNCHANGED <<booking, payment, escrow, payout, transfers, errors, lost>>
  BY DEF rows, bank, bounds
<1>2. Covered(x, payout', transfers', errors' + lost')
  BY <1>1, CoveredStill, IdleCall DEF Begin
<1> QED
  BY <1>1, <1>2, OneCallGoesOn DEF Begin, Serial

LEMMA BeginCallSerial ==
    ASSUME Typed, Serial, OneCall, NEW c \in Calls, BeginCall(c)
    PROVE  Serial'
<1>1. CASE CaptureBegin(c)
  <2> DEFINE x == [op |-> "capture", at |-> "commit"]
  <2>1. Known(x, booking, payment, escrow, payout, transfers, errors + lost)
    BY <1>1 DEF CaptureBegin, Known
  <2> QED
    BY <1>1, <2>1, BeginSerial DEF CaptureBegin
<1>2. ASSUME NEW to \in BookingStatuses, UpdateBegin(c, to) PROVE Serial'
  <2> DEFINE x == [op |-> "update", to |-> to]
  <2>1. Known(x, booking, payment, escrow, payout, transfers, errors + lost)
    BY <1>2 DEF UpdateBegin, Known
  <2> QED
    BY <1>2, <2>1, BeginSerial DEF UpdateBegin
<1>3. ASSUME NEW s \in Settlements, NEW cron \in BOOLEAN, ProcessBegin(c, s, cron)
      PROVE  Serial'
  <2> DEFINE x == [op |-> "process", s |-> s, cron |-> cron, at |-> "commit"]
  <2>1. Known(x, booking, payment, escrow, payout, transfers, errors + lost)
    BY DEF Known
  <2> QED
    BY <1>3, <2>1, BeginSerial DEF ProcessBegin
<1>4. ASSUME NEW s \in Settlements, NEW cron \in BOOLEAN, RetryBegin(c, s, cron)
      PROVE  Serial'
  <2> DEFINE x == [op |-> "retry", s |-> s, cron |-> cron, at |-> "commit"]
  <2>1. Known(x, booking, payment, escrow, payout, transfers, errors + lost)
    BY DEF Known
  <2> QED
    BY <1>4, <2>1, BeginSerial DEF RetryBegin
<1>5. ASSUME NEW s \in Settlements, ReopenBegin(c, s) PROVE Serial'
  <2> DEFINE x == [op |-> "reopen", s |-> s]
  <2>1. Known(x, booking, payment, escrow, payout, transfers, errors + lost)
    BY DEF Known
  <2> QED
    BY <1>5, <2>1, BeginSerial DEF ReopenBegin
<1>6. CASE CreateBegin(c)
  <2> DEFINE x == [op |-> "create"]
  <2>1. Known(x, booking, payment, escrow, payout, transfers, errors + lost)
    BY <1>6 DEF CreateBegin, Known
  <2> QED
    BY <1>6, <2>1, BeginSerial DEF CreateBegin
<1>7. ASSUME NEW t \in Payouts, TransferBegin(c, t) PROVE Serial'
  <2>1. PICK label \in {"post", "manual"} : Begin(c, [op |-> "transfer", t |-> t, at |-> label])
    BY <1>7 DEF TransferBegin
  <2> DEFINE x == [op |-> "transfer", t |-> t, at |-> label]
  <2>2. transfers[t] =< errors + lost
    BY <1>7, <2>1, IdleCall DEF TransferBegin, Begin, Serial, Covered
  <2>3. Known(x, booking, payment, escrow, payout, transfers, errors + lost)
    BY <2>2 DEF Known
  <2> QED
    BY <1>7, <2>1, <2>3, BeginSerial DEF TransferBegin
<1>8. ASSUME NEW full \in BOOLEAN, RefundBegin(c, full) PROVE Serial'
  <2> DEFINE x == [op |-> "refund", full |-> full,
                   escrow |-> escrow \notin {"NONE", "REFUNDED"}]
  <2>1. Known(x, booking, payment, escrow, payout, transfers, errors + lost)
    BY DEF Known
  <2> QED
    BY <1>8, <2>1, BeginSerial DEF RefundBegin
<1>9. ASSUME NEW to \in DOMAIN EscrowSources, EscrowBegin(c, to) PROVE Serial'
  <2> DEFINE x == [op |-> "escrow", to |-> to]
  <2>1. escrow \in {"HELD", "DISPUTED", "FROZEN"}
    BY <1>9 DEF EscrowBegin, EscrowSources
  <2>2. Known(x, booking, payment, escrow, payout, transfers, errors + lost)
    BY <2>1 DEF Known
  <2> QED
    BY <1>9, <2>2, BeginSerial DEF EscrowBegin
<1> QED
  BY <1>1, <1>2, <1>3, <1>4, <1>5, <1>6, <1>7, <1>8, <1>9 DEF BeginCall

(* A call that goes on to x, or answers, and pays out and transfers nothing. *)
LEMMA ThenSerial ==
    ASSUME Typed, Serial, OneCall, NEW c \in Calls, NEW x, call' = [call EXCEPT ![c] = x],
           call[c].op = "transfer" => call[c].at # "record",
           UNCHANGED <<payout, transfers, errors, lost>>,
           Known(x, booking', payment', escrow', payout, transfers, errors + lost),
           Refunded(booking', payment', escrow')
    PROVE  Serial'
<1>1. Covered(x, payout', transfers', errors' + lost')
  BY CoveredStill
<1> QED
  BY <1>1, OneCallGoesOn DEF Serial

LEMMA AnswerSerial ==
    ASSUME Typed, Serial, OneCall, NEW c \in Calls, Answer(c),
           call[c].op = "transfer" => call[c].at # "record",
           UNCHANGED <<payout, transfers, errors, lost>>,
           Refunded(booking', payment', escrow')
    PROVE  Serial'
  BY IdleKnown, ThenSerial DEF Answer

LEMMA MoneySerial ==
    ASSUME Typed, Serial, OneCall, NEW c \in Calls,
           \/ CaptureCommit(c) \/ HoldLookup(c) \/ HoldCommit(c) \/ UpdateCommit(c)
           \/ SettleLookup(c) \/ SettleRelease(c)
           \/ RefundCommit(c) \/ RefundRefused(c) \/ EscrowCommit(c)
    PROVE  Serial'
<1>1. /\ call[c] \in Call
      /\ Known(call[c], booking, payment, escrow, payout, transfers, errors + lost)
      /\ Refunded(booking, payment, escrow)
  BY DEF Typed, TypeOK, Serial
<1>2. CASE CaptureCommit(c)
  <2> DEFINE x == [call[c] EXCEPT !.at = "lookup"]
  <2>1. /\ call[c].op = "capture" /\ call' = [call EXCEPT ![c] = x]
        /\ payment' = "CAPTURED" /\ UNCHANGED <<payout, transfers, errors, lost>>
    BY <1>2 DEF CaptureCommit, At, Goto, bank, bounds
  <2>2. x.op = "capture" /\ x.at = "lookup"
    BY <1>1, <2>1, Relabelled
  <2> HIDE DEF x
  <2>3. Known(x, booking', payment', escrow', payout, transfers, errors + lost)
        /\ Refunded(booking', payment', escrow')
    BY <2>1, <2>2 DEF Known, Refunded
  <2> QED
    BY <2>1, <2>3, ThenSerial
<1>3. CASE HoldLookup(c)
  <2> DEFINE x == [call[c] EXCEPT !.at = "hold"]
  <2>1. /\ call[c].op = "capture" /\ call[c].at = "lookup"
        /\ call' = [call EXCEPT ![c] = x] \/ Answer(c)
        /\ UNCHANGED <<booking, payment, escrow, payout, transfers, errors, lost>>
    BY <1>3 DEF HoldLookup, At, Goto, rows, bank, bounds
  <2>2. x.op = "capture" /\ x.at = "hold"
    BY <1>1, <2>1, Relabelled
  <2> HIDE DEF x
  <2>3. Known(x, booking', payment', escrow', payout, transfers, errors + lost)
    BY <1>1, <2>1, <2>2 DEF Known
  <2> QED
    BY <1>1, <2>1, <2>3, ThenSerial, AnswerSerial
<1>4. CASE HoldCommit(c)
  <2>1. call[c].op = "capture" /\ call[c].at = "hold" /\ UNCHANGED <<payment, booking>>
        /\ UNCHANGED <<payout, transfers, errors, lost>>
    BY <1>4 DEF HoldCommit, At, bank, bounds
  <2>2. Refunded(booking', payment', escrow')
    BY <1>1, <2>1 DEF Known, Refunded
  <2> QED
    BY <1>4, <2>1, <2>2, AnswerSerial DEF HoldCommit
<1>5. CASE UpdateCommit(c)
  <2> DEFINE x == [op |-> "settle", at |-> "lookup"]
  <2>1. /\ call[c].op = "update" /\ call[c].to \in BookingStatuses
        /\ booking.status \in BookingStatuses
        /\ booking'.status = call[c].to /\ UNCHANGED <<payment, escrow>>
        /\ UNCHANGED <<payout, transfers, errors, lost>>
        /\ \/ Answer(c)
           \/ call' = [call EXCEPT ![c] = x] /\ call[c].to = "COMPLETED"
    BY <1>1, <1>5, CallShapes DEF UpdateCommit, Become, bank, bounds, Typed, TypeOK
  <2>2. booking.status # "CANCELLED"
    BY <1>1, <2>1 DEF Known, Transitions
  <2>3. Refunded(booking', payment', escrow')
    BY <1>1, <2>1, <2>2 DEF Refunded
  <2>4. CASE call' = [call EXCEPT ![c] = x] /\ call[c].to = "COMPLETED"
    <3>1. Known(x, booking', payment', escrow', payout, transfers, errors + lost)
      BY <2>1, <2>4 DEF Known
    <3> QED
      BY <2>1, <2>3, <2>4, <3>1, ThenSerial
  <2> QED
    BY <2>1, <2>3, <2>4, AnswerSerial
<1>6. CASE SettleLookup(c)
  <2> DEFINE x == [call[c] EXCEPT !.at = "insert"]
  <2>1. /\ call[c].op = "settle"
        /\ call' = [call EXCEPT ![c] = x] \/ Answer(c)
        /\ UNCHANGED <<booking, payment, escrow, payout, transfers, errors, lost>>
    BY <1>6 DEF SettleLookup, At, Goto, rows, bank, bounds
  <2>2. x.op = "settle" /\ x.at = "insert"
    BY <1>1, <2>1, Relabelled
  <2> HIDE DEF x
  <2>3. Known(x, booking', payment', escrow', payout, transfers, errors + lost)
    BY <1>1, <2>1, <2>2 DEF Known
  <2> QED
    BY <1>1, <2>1, <2>3, ThenSerial, AnswerSerial
<1>7. CASE SettleRelease(c)
  <2> DEFINE x == [call[c] EXCEPT !.at = "payoutLookup"]
  <2>1. /\ call[c].op = "settling" /\ call' = [call EXCEPT ![c] = x]
        /\ UNCHANGED <<booking, payment, payout, transfers, errors, lost>>
    BY <1>7 DEF SettleRelease, At, Goto, bank, bounds
  <2>2. x.op = "settling" /\ x.at = "payoutLookup"
    BY <1>1, <2>1, Relabelled
  <2> HIDE DEF x
  <2>3. Known(x, booking', payment', escrow', payout, transfers, errors + lost)
        /\ Refunded(booking', payment', escrow')
    BY <1>1, <2>1, <2>2 DEF Known, Refunded
  <2> QED
    BY <2>1, <2>3, ThenSerial
<1>8. CASE RefundCommit(c)
  <2>1. call[c].op = "refund" /\ Answer(c) /\ UNCHANGED <<payout, transfers, errors, lost>>
    BY <1>8 DEF RefundCommit, bounds
  <2>2. payment' = "REFUNDED" => call[c].full
    BY <1>8 DEF RefundCommit
  <2>3. call[c].full => booking'.status = "CANCELLED"
    <3>1. PICK cancel \in {call[c].full, TRUE} :
            booking' = [status |-> IF cancel THEN "CANCELLED" ELSE booking.status,
                        paid |-> IF call[c].full THEN "REFUNDED" ELSE "PARTIALLY_REFUNDED"]
      BY <1>8 DEF RefundCommit
    <3>2. call[c].full \in BOOLEAN
      BY <1>1, <2>1, CallShapes
    <3>3. call[c].full => cancel
      BY <3>2
    <3> QED
      BY <3>1, <3>3
  <2>4. call[c].full /\ call[c].escrow => escrow' = "REFUNDED"
    BY <1>8 DEF RefundCommit
  <2>5. ~call[c].escrow => escrow' = escrow /\ escrow \in {"NONE", "REFUNDED"}
    BY <1>1, <1>8, <2>1 DEF RefundCommit, Known
  <2>6. Refunded(booking', payment', escrow')
    BY <2>2, <2>3, <2>4, <2>5 DEF Refunded
  <2> QED
    BY <2>1, <2>6, AnswerSerial
<1>9. CASE RefundRefused(c)
  BY <1>1, <1>9, AnswerSerial DEF RefundRefused, rows, bank, bounds
<1>10. CASE EscrowCommit(c)
  <2>1. /\ call[c].op = "escrow" /\ Answer(c)
        /\ UNCHANGED <<booking, payment, payout, transfers, errors, lost>>
    BY <1>10 DEF EscrowCommit, bank, bounds
  <2>2. Refunded(booking', payment', escrow')
    BY <1>1, <2>1 DEF Known, Refunded
  <2> QED
    BY <2>1, <2>2, AnswerSerial
<1> QED
  BY <1>2, <1>3, <1>4, <1>5, <1>6, <1>7, <1>8, <1>9, <1>10

LEMMA SettlementSerial ==
    ASSUME Typed, Serial, OneCall, NEW c \in Calls,
           \/ SettleInsert(c) \/ SettleProcess(c) \/ SettleFailed(c) \/ ProcessCommit(c)
           \/ RetryCommit(c) \/ RetryProcess(c) \/ ReopenCommit(c) \/ CreateInsert(c)
    PROVE  Serial'
<1>1. /\ call[c] \in Call
      /\ Known(call[c], booking, payment, escrow, payout, transfers, errors + lost)
      /\ Refunded(booking, payment, escrow)
  BY DEF Typed, TypeOK, Serial
<1>2. UNCHANGED <<booking, payment, escrow, payout, transfers, errors, lost>>
  BY DEF SettleInsert, SettleProcess, SettleFailed, ProcessCommit, RetryCommit,
         RetryProcess, ReopenCommit, CreateInsert, rows, bank, bounds
<1>3. ASSUME Answer(c), call[c].op # "transfer" PROVE Serial'
  BY <1>1, <1>2, <1>3, AnswerSerial
<1>4. ASSUME NEW label, Goto(c, label),
             \/ call[c].op = "settling" /\ label = "release"
             \/ call[c].op = "process" /\ label = "payoutLookup"
             \/ call[c].op = "retry" /\ label = "reread"
      PROVE  Serial'
  <2> DEFINE x == [call[c] EXCEPT !.at = label]
  <2>1. call' = [call EXCEPT ![c] = x]
    BY <1>4 DEF Goto
  <2>2. x.op = call[c].op /\ x.at = label
    BY <1>1, <1>4, Relabelled
  <2> HIDE DEF x
  <2>3. Known(x, booking', payment', escrow', payout, transfers, errors + lost)
    BY <1>1, <1>2, <1>4, <2>2 DEF Known
  <2> QED
    BY <1>1, <1>2, <1>4, <2>1, <2>3, ThenSerial
<1>5. CASE SettleInsert(c)
  <2>1. PICK s \in Settlements : Become(c, [op |-> "settling", s |-> s, at |-> "process"])
    BY <1>5 DEF SettleInsert, SettlementIn
  <2> DEFINE x == [op |-> "settling", s |-> s, at |-> "process"]
  <2>2. Known(x, booking', payment', escrow', payout, transfers, errors + lost)
    BY <1>1, <1>2, <1>5 DEF SettleInsert, At, Known
  <2>3. call[c].op = "settle" /\ call' = [call EXCEPT ![c] = x]
    BY <1>5, <2>1 DEF SettleInsert, At, Become
  <2> QED
    BY <1>1, <1>2, <2>2, <2>3, ThenSerial
<1>6. CASE SettleProcess(c)
  BY <1>4, <1>6 DEF SettleProcess, At
<1>7. CASE SettleFailed(c)
  BY <1>3, <1>7 DEF SettleFailed, At
<1>8. CASE ProcessCommit(c)
  BY <1>4, <1>8 DEF ProcessCommit, At
<1>9. CASE RetryCommit(c)
  BY <1>3, <1>4, <1>9 DEF RetryCommit, At
<1>10. CASE RetryProcess(c)
  <2> DEFINE x == [op |-> "process", s |-> call[c].s, cron |-> TRUE, at |-> "commit"]
  <2>1. call[c].op = "retry" /\ (call' = [call EXCEPT ![c] = x] \/ Answer(c))
    BY <1>10 DEF RetryProcess, At, Become
  <2>2. Known(x, booking', payment', escrow', payout, transfers, errors + lost)
    BY DEF Known
  <2> QED
    BY <1>1, <1>2, <1>3, <2>1, <2>2, ThenSerial
<1>11. CASE ReopenCommit(c)
  BY <1>3, <1>11 DEF ReopenCommit
<1>12. CASE CreateInsert(c)
  BY <1>3, <1>12 DEF CreateInsert
<1> QED
  BY <1>5, <1>6, <1>7, <1>8, <1>9, <1>10, <1>11, <1>12

LEMMA PayoutSerial ==
    ASSUME Typed, Serial, OneCall, NEW c \in Calls,
           \/ PayoutLookup(c) \/ PayoutInsert(c)
           \/ TransferPost(c) \/ TransferRecord(c) \/ TransferAudit(c) \/ MarkManual(c)
    PROVE  Serial'
<1>1. /\ call[c] \in Call
      /\ Known(call[c], booking, payment, escrow, payout, transfers, errors + lost)
      /\ Covered(call[c], payout, transfers, errors + lost)
      /\ Refunded(booking, payment, escrow) /\ PaidOnce(payout)
      /\ payout \in [Payouts -> PayoutRow] /\ transfers \in [Payouts -> 0..MaxTransfers]
      /\ errors \in Nat /\ lost \in Nat
  BY ConstantsAssumption DEF Typed, TypeOK, Serial
<1>2. CASE PayoutLookup(c)
  <2> DEFINE x == [call[c] EXCEPT !.at = "payout"]
  <2>1. /\ call[c].op \in {"settling", "process"}
        /\ \/ Answer(c)
           \/ call' = [call EXCEPT ![c] = x] /\ PayoutsOf(call[c].s) = {}
        /\ UNCHANGED <<booking, payment, escrow, payout, transfers, errors, lost>>
    BY <1>2 DEF PayoutLookup, Goto, rows, bank, bounds
  <2>2. x.op = call[c].op /\ x.at = "payout" /\ x.s = call[c].s
    BY <1>1, <2>1, Relabelled
  <2> HIDE DEF x
  <2>3. PayoutsOf(call[c].s) = {}
        => Known(x, booking', payment', escrow', payout, transfers, errors + lost)
    BY <1>1, <2>1, <2>2 DEF Known, PayoutsOf
  <2> QED
    BY <1>1, <2>1, <2>3, ThenSerial, AnswerSerial
<1>3. CASE PayoutInsert(c)
  <2> DEFINE row == [status |-> "PENDING", manual |-> FALSE, settlement |-> {call[c].s}]
  <2>1. /\ call[c].op \in {"settling", "process"} /\ call[c].at = "payout" /\ Answer(c)
        /\ UNCHANGED <<booking, payment, escrow, transfers, errors, lost>>
    BY <1>3 DEF PayoutInsert, bank, bounds
  <2>2. PICK t \in Payouts : payout[t].status = "ABSENT" /\ payout' = [payout EXCEPT ![t] = row]
    BY <1>3 DEF PayoutInsert
  <2>3. PaidOnce(payout')
    <3>1. \A u \in Payouts : payout[u].settlement # {call[c].s}
      BY <1>1, <2>1 DEF Known
    <3>2. payout'[t].settlement = {call[c].s} /\ \A u \in Payouts \ {t} : payout'[u] = payout[u]
      BY <1>1, <2>2
    <3> QED
      BY <1>1, <3>1, <3>2 DEF PaidOnce
  <2>4. Covered(Idle, payout', transfers', errors' + lost')
    BY <1>1, <2>1, <2>2 DEF Covered
  <2> QED
    BY <1>1, <2>1, <2>3, <2>4, IdleKnown, OneCallGoesOn DEF Answer
<1>4. CASE TransferPost(c)
  <2> DEFINE x == [call[c] EXCEPT !.at = "record"]  t == call[c].t
  <2>1. /\ call[c].op = "transfer" /\ call[c].at = "post" /\ t \in Payouts
        /\ call' = [call EXCEPT ![c] = x] /\ transfers' = [transfers EXCEPT ![t] = @ + 1]
        /\ UNCHANGED <<booking, payment, escrow, payout, errors, lost>>
    BY <1>1, <1>4, CallShapes DEF TransferPost, At, Goto, rows, bounds
  <2>2. x.op = "transfer" /\ x.at = "record" /\ x.t = t
    BY <1>1, <2>1, Relabelled
  <2>3. transfers[t] =< errors + lost
    BY <1>1, <2>1 DEF Known
  <2> HIDE DEF x
  <2>4. Known(x, booking', payment', escrow', payout', transfers', errors' + lost')
    BY <2>2 DEF Known
  <2>5. Covered(x, payout', transfers', errors' + lost')
    BY <1>1, <2>1, <2>2, <2>3 DEF Covered
  <2> QED
    BY <1>1, <2>1, <2>4, <2>5, OneCallGoesOn
<1>5. CASE TransferRecord(c)
  <2> DEFINE x == [call[c] EXCEPT !.at = "audit"]  t == call[c].t
  <2>1. /\ call[c].op = "transfer" /\ call[c].at = "record" /\ t \in Payouts
        /\ call' = [call EXCEPT ![c] = x]
        /\ payout' = [payout EXCEPT ![t] = [payout[t] EXCEPT !.status = "PROCESSING"]]
        /\ UNCHANGED <<booking, payment, escrow, transfers, errors, lost>>
    BY <1>1, <1>5, CallShapes DEF TransferRecord, At, Goto, bank, bounds
  <2>2. x.op = "transfer" /\ x.at = "audit" /\ x.t = t
    BY <1>1, <2>1, Relabelled
  <2>3. /\ payout'[t].status = "PROCESSING" /\ payout'[t].settlement = payout[t].settlement
        /\ \A u \in Payouts \ {t} : payout'[u] = payout[u]
    BY <1>1, <2>1, PayoutRows DEF PayoutStatuses
  <2> HIDE DEF x
  <2>4. Known(x, booking', payment', escrow', payout', transfers', errors' + lost')
    BY <2>2, <2>3 DEF Known
  <2>5. Covered(x, payout', transfers', errors' + lost')
    BY <1>1, <2>1, <2>2, <2>3 DEF Covered
  <2>6. PaidOnce(payout')
    BY <1>1, <2>3 DEF PaidOnce
  <2> QED
    BY <1>1, <2>1, <2>4, <2>5, <2>6, OneCallGoesOn
<1>6. CASE TransferAudit(c)
  BY <1>1, <1>6, AnswerSerial DEF TransferAudit, At, rows, bank, bounds
<1>7. CASE MarkManual(c)
  <2> DEFINE t == call[c].t
  <2>1. /\ call[c].op = "transfer" /\ call[c].at = "manual" /\ t \in Payouts /\ Answer(c)
        /\ UNCHANGED <<booking, payment, escrow, transfers, errors, lost>>
    BY <1>1, <1>7, CallShapes DEF MarkManual, At, bank, bounds
  <2>2. payout' = [payout EXCEPT ![t] = [payout[t] EXCEPT !.status = "PENDING", !.manual = TRUE]]
    BY <1>1, <1>7, <2>1 DEF MarkManual
  <2>3. /\ payout'[t].settlement = payout[t].settlement
        /\ \A u \in Payouts \ {t} : payout'[u] = payout[u]
    BY <1>1, <2>1, <2>2, PayoutRows DEF PayoutStatuses
  <2>4. transfers[t] =< errors + lost
    BY <1>1, <2>1 DEF Known
  <2>5. Covered(Idle, payout', transfers', errors' + lost')
    BY <1>1, <2>1, <2>3, <2>4 DEF Covered
  <2>6. PaidOnce(payout')
    BY <1>1, <2>3 DEF PaidOnce
  <2> QED
    BY <1>1, <2>1, <2>5, <2>6, IdleKnown, OneCallGoesOn DEF Answer
<1> QED
  BY <1>2, <1>3, <1>4, <1>5, <1>6, <1>7

(* An interruption raises what the transfers may have cost.                  *)
LEMMA OthersSerial ==
    ASSUME Typed, Serial, OneCall
    PROVE  /\ \A c \in Calls : CatchError(c) \/ Lose(c) \/ RefundTorn(c) => Serial'
           /\ \A s \in Settlements : SettlementFail(s) => Serial'
           /\ \A t \in Payouts : PayoutDecide(t, "confirm", "COMPLETED") => Serial'
           /\ \A t \in Payouts : PayoutDecide(t, "failPayout", "FAILED") => Serial'
<1>1. /\ payout \in [Payouts -> PayoutRow] /\ transfers \in [Payouts -> 0..MaxTransfers]
      /\ errors \in Nat /\ lost \in Nat /\ call \in [Calls -> Call]
  BY ConstantsAssumption DEF Typed, TypeOK
<1>2. ASSUME NEW c \in Calls, NEW x, call' = [call EXCEPT ![c] = x],
             UNCHANGED <<booking, payment, escrow, payout, transfers>>,
             errors' + lost' = errors + lost + 1,
             Known(x, booking, payment, escrow, payout, transfers, errors + lost + 1)
      PROVE  Serial'
  <2>1. Covered(x, payout', transfers', errors' + lost')
    BY <1>1, <1>2 DEF Serial, Covered
  <2> QED
    BY <1>2, <2>1, OneCallGoesOn DEF Serial
<1>3. ASSUME NEW c \in Calls, CatchError(c) PROVE Serial'
  <2>0. call[c] \in Call
    BY <1>1
  <2>1. /\ UNCHANGED <<booking, payment, escrow, payout, transfers>>
        /\ errors' + lost' = errors + lost + 1
    BY <1>1, <1>3 DEF CatchError, rows, bank
  <2>2. CASE call[c].op = "settling" /\ Goto(c, "failed")
    <3> DEFINE x == [call[c] EXCEPT !.at = "failed"]
    <3>1. x.op = "settling" /\ x.at = "failed" /\ call' = [call EXCEPT ![c] = x]
      BY <2>0, <2>2, Relabelled DEF Goto
    <3> HIDE DEF x
    <3>2. Known(x, booking, payment, escrow, payout, transfers, errors + lost + 1)
      BY <2>2, <3>1 DEF Known, Serial
    <3> QED
      BY <1>2, <2>1, <3>1, <3>2
  <2>3. CASE call[c].op = "transfer" /\ Goto(c, "manual")
    <3> DEFINE x == [call[c] EXCEPT !.at = "manual"]
    <3>1. /\ x.op = "transfer" /\ x.at = "manual" /\ x.t = call[c].t
          /\ call' = [call EXCEPT ![c] = x]
      BY <2>0, <2>3, Relabelled DEF Goto
    <3>2. call[c].t \in Payouts
      BY <2>0, <2>3, CallShapes
    <3>3. transfers[call[c].t] =< errors + lost + 1
      BY <1>1, <3>2 DEF Serial, Covered
    <3> HIDE DEF x
    <3>4. Known(x, booking, payment, escrow, payout, transfers, errors + lost + 1)
      BY <3>1, <3>3 DEF Known
    <3> QED
      BY <1>2, <2>1, <3>1, <3>4
  <2> QED
    BY <1>3, <2>2, <2>3 DEF CatchError
<1>4. ASSUME NEW c \in Calls, Lose(c) \/ RefundTorn(c) PROVE Serial'
  <2>1. /\ call' = [call EXCEPT ![c] = Idle]
        /\ UNCHANGED <<booking, payment, escrow, payout, transfers>>
        /\ errors' + lost' = errors + lost + 1
    BY <1>1, <1>4 DEF Lose, RefundTorn, Answer, rows, bank
  <2> QED
    BY <1>2, <2>1, IdleKnown
<1>5. ASSUME NEW s \in Settlements, SettlementFail(s) PROVE Serial'
  BY <1>5 DEF SettlementFail, Serial, bank, bounds
<1>6. ASSUME NEW t \in Payouts, NEW operation, NEW st \in {"COMPLETED", "FAILED"},
             PayoutDecide(t, operation, st)
      PROVE  Serial'
  <2>1. UNCHANGED <<booking, payment, escrow, transfers, errors, lost, call>>
    BY <1>6 DEF PayoutDecide, bank, bounds
  <2>2. payout' = [payout EXCEPT ![t] = [payout[t] EXCEPT !.status = st]]
    BY <1>6 DEF PayoutDecide
  <2>0. st \in PayoutStatuses /\ payout[t] \in PayoutRow
    BY <1>1 DEF PayoutStatuses
  <2>3. /\ payout'[t].status = st /\ payout'[t].settlement = payout[t].settlement
        /\ \A u \in Payouts \ {t} : payout'[u] = payout[u]
    BY <1>1, <2>0, <2>2, PayoutRows
  <2>4. ASSUME NEW c \in Calls
        PROVE  /\ Known(call[c], booking, payment, escrow, payout', transfers, errors + lost)
               /\ Covered(call[c], payout', transfers, errors + lost)
    <3>1. /\ Known(call[c], booking, payment, escrow, payout, transfers, errors + lost)
          /\ Covered(call[c], payout, transfers, errors + lost)
      BY DEF Serial
    <3>2. Covered(call[c], payout', transfers, errors + lost)
      BY <2>3, <3>1 DEF Covered
    <3>3. call[c].op = "transfer" => call[c].t \in Payouts
      BY <1>1, CallShapes
    <3>4. Known(call[c], booking, payment, escrow, payout', transfers, errors + lost)
      BY <2>3, <3>1, <3>3 DEF Known
    <3> QED
      BY <3>2, <3>4
  <2>5. PaidOnce(payout')
    BY <2>3 DEF PaidOnce, Serial
  <2> QED
    BY <2>1, <2>4, <2>5 DEF Serial
<1> QED
  BY <1>3, <1>4, <1>5, <1>6

LEMMA SerialStep ==
    ASSUME Typed, Serial, OneCall, [Next]_vars
    PROVE  Serial'
<1>1. CASE UNCHANGED vars
  BY <1>1 DEF Serial, vars, rows, bank, bounds
<1>2. ASSUME NEW c \in Calls, Continue(c) PROVE Serial'
  BY <1>2, MoneySerial, SettlementSerial, PayoutSerial DEF Continue
<1> QED
  BY <1>1, <1>2, BeginCallSerial, OthersSerial DEF Next

-----------------------------------------------------------------------------
LEMMA TypedInit == Init => Typed
<1> SUFFICES ASSUME Init PROVE Typed
  OBVIOUS
<1>1. TypeOK
  BY ConstantsAssumption, IdleCall
     DEF Init, TypeOK, BookingStatuses, PaymentStatuses, EscrowStatuses, SettlementRow,
         SettlementStatuses, MaxRetries, PayoutRow, PayoutStatuses
<1>2. ASSUME NEW t \in Payouts PROVE transfers[t] + Cardinality(Posting(t)) =< MaxTransfers
  <2>1. Posting(t) = {}
    BY IdleCall DEF Init, Posting
  <2> QED
    BY <2>1, FS_EmptySet, ConstantsAssumption DEF Init
<1> QED
  BY <1>1, <1>2 DEF Typed, TransfersInBound

LEMMA SerialInit == Init => Serial
<1> SUFFICES ASSUME Init PROVE Serial
  OBVIOUS
<1>1. ASSUME NEW c \in Calls
      PROVE  /\ Known(call[c], booking, payment, escrow, payout, transfers, errors + lost)
             /\ Covered(call[c], payout, transfers, errors + lost)
  BY IdleKnown DEF Init, Covered
<1> QED
  BY <1>1 DEF Init, Serial, Refunded, PaidOnce

\* A call about a settlement is about one that exists.
OnFile == {"settling", "process", "retry", "reopen"}
Filed == \A c \in Calls : call[c].op \in OnFile => settlement[call[c].s].status # "ABSENT"

LEMMA FiledStep ==
    ASSUME Typed, Filed, [Next]_vars
    PROVE  Filed'
<1> DEFINE Stay == \A s \in Settlements :
                     settlement[s].status # "ABSENT" => settlement'[s].status # "ABSENT"
<1>1. call \in [Calls -> Call] /\ settlement \in [Settlements -> SettlementRow]
  BY DEF Typed, TypeOK
<1>2. \A c \in Calls : call[c].op \in OnFile => call[c].s \in Settlements
  BY <1>1, CallShapes DEF OnFile
<1>3. ASSUME NEW c \in Calls, NEW x, call' = [call EXCEPT ![c] = x], Stay,
             x.op \in OnFile => settlement'[x.s].status # "ABSENT"
      PROVE  Filed'
  BY <1>1, <1>2, <1>3 DEF Filed
<1>4. ASSUME NEW c \in Calls, Answer(c), Stay PROVE Filed'
  BY <1>3, <1>4, IdleCall DEF Answer, OnFile
<1>5. ASSUME NEW c \in Calls, NEW label, Goto(c, label), Stay PROVE Filed'
  <2> DEFINE x == [call[c] EXCEPT !.at = label]
  <2>1. call' = [call EXCEPT ![c] = x]
    BY <1>5 DEF Goto
  <2>2. call[c] \in Call /\ (call[c].op \in OnFile => x.s = call[c].s) /\ x.op = call[c].op
    BY <1>1 DEF Call, Idle, OnFile
  <2> HIDE DEF x
  <2>3. x.op \in OnFile => settlement'[x.s].status # "ABSENT"
    BY <1>2, <1>5, <2>2 DEF Filed
  <2> QED
    BY <1>3, <1>5, <2>1, <2>3
<1>6. ASSUME UNCHANGED <<call, settlement>> PROVE Filed'
  BY <1>6 DEF Filed
<1>7. ASSUME NEW c \in Calls, BeginCall(c) PROVE Filed'
  <2>1. settlement' = settlement
    BY <1>7 DEF BeginCall, CaptureBegin, UpdateBegin, ProcessBegin, RetryBegin, ReopenBegin,
         CreateBegin, TransferBegin, RefundBegin, EscrowBegin, rows
  <2>2. ASSUME NEW x, Begin(c, x), x.op \in OnFile => settlement[x.s].status # "ABSENT"
        PROVE  Filed'
    BY <1>3, <2>1, <2>2 DEF Begin
  <2>3. CASE CaptureBegin(c) \/ CreateBegin(c)
    BY <2>2, <2>3 DEF CaptureBegin, CreateBegin, OnFile
  <2>4. ASSUME NEW to, UpdateBegin(c, to) \/ EscrowBegin(c, to) PROVE Filed'
    BY <2>2, <2>4 DEF UpdateBegin, EscrowBegin, OnFile
  <2>5. ASSUME NEW s \in Settlements, NEW cron \in BOOLEAN,
               ProcessBegin(c, s, cron) \/ RetryBegin(c, s, cron)
        PROVE  Filed'
    BY <2>2, <2>5 DEF ProcessBegin, RetryBegin, OnFile
  <2>6. ASSUME NEW s \in Settlements, ReopenBegin(c, s) PROVE Filed'
    BY <2>2, <2>6 DEF ReopenBegin, OnFile
  <2>7. ASSUME NEW t \in Payouts, TransferBegin(c, t) PROVE Filed'
    BY <2>2, <2>7 DEF TransferBegin, OnFile
  <2>8. ASSUME NEW full \in BOOLEAN, RefundBegin(c, full) PROVE Filed'
    BY <2>2, <2>8 DEF RefundBegin, OnFile
  <2> QED
    BY <1>7, <2>3, <2>4, <2>5, <2>6, <2>7, <2>8 DEF BeginCall
<1>8. ASSUME NEW c \in Calls, CaptureCommit(c) \/ HoldLookup(c) \/ HoldCommit(c)
             \/ SettleLookup(c) \/ SettleRelease(c) \/ PayoutLookup(c) \/ PayoutInsert(c)
             \/ TransferPost(c) \/ TransferRecord(c) \/ TransferAudit(c) \/ MarkManual(c)
             \/ RefundCommit(c) \/ RefundRefused(c) \/ RefundTorn(c) \/ EscrowCommit(c)
             \/ CatchError(c) \/ Lose(c)
      PROVE  Filed'
  <2>1. settlement' = settlement
    BY <1>8 DEF CaptureCommit, HoldLookup, HoldCommit, SettleLookup, SettleRelease,
         PayoutLookup, PayoutInsert, TransferPost, TransferRecord, TransferAudit,
         MarkManual, RefundCommit, RefundRefused, RefundTorn, EscrowCommit, CatchError,
         Lose, rows
  <2>2. Answer(c) \/ \E label : Goto(c, label)
    BY <1>8 DEF CaptureCommit, HoldLookup, HoldCommit, SettleLookup, SettleRelease,
         PayoutLookup, PayoutInsert, TransferPost, TransferRecord, TransferAudit,
         MarkManual, RefundCommit, RefundRefused, RefundTorn, EscrowCommit, CatchError,
         Lose
  <2> QED
    BY <1>4, <1>5, <2>1, <2>2
<1>9. ASSUME NEW c \in Calls, UpdateCommit(c) PROVE Filed'
  BY <1>3, <1>4, <1>9 DEF UpdateCommit, Become, OnFile
<1>10. ASSUME NEW c \in Calls, SettleProcess(c) \/ SettleFailed(c) \/ ProcessCommit(c)
              \/ RetryCommit(c) \/ ReopenCommit(c) \/ CreateInsert(c)
       PROVE  Filed'
  <2>1. Stay
    <3>0. ASSUME NEW s, NEW st \in {"PENDING", "PROCESSED", "REOPENED"},
                 settlement' = [settlement EXCEPT ![s].status = st]
          PROVE  Stay
      BY <1>1, <3>0 DEF SettlementRow
    <3>1. CASE SettleProcess(c) \/ ProcessCommit(c) \/ ReopenCommit(c) \/ CreateInsert(c)
      BY <3>0, <3>1 DEF SettleProcess, ProcessCommit, ReopenCommit, CreateInsert
    <3>2. CASE SettleFailed(c)
      BY <1>1, <3>2 DEF SettleFailed
    <3>3. CASE RetryCommit(c)
      BY <1>1, <3>3 DEF RetryCommit
    <3> QED
      BY <1>10, <3>1, <3>2, <3>3
  <2>2. Answer(c) \/ \E label : Goto(c, label)
    BY <1>10 DEF SettleProcess, SettleFailed, ProcessCommit, RetryCommit,
         ReopenCommit, CreateInsert
  <2> QED
    BY <1>4, <1>5, <2>1, <2>2
<1>11. ASSUME NEW c \in Calls, SettleInsert(c) PROVE Filed'
  <2>1. PICK s \in Settlements :
          /\ settlement' = [settlement EXCEPT ![s].status = "PENDING"]
          /\ call' = [call EXCEPT ![c] = [op |-> "settling", s |-> s, at |-> "process"]]
    BY <1>11 DEF SettleInsert, SettlementIn, Become
  <2>2. Stay /\ settlement'[s].status # "ABSENT"
    BY <1>1, <2>1 DEF SettlementRow
  <2> QED
    BY <1>3, <2>1, <2>2
<1>12. ASSUME NEW c \in Calls, RetryProcess(c) PROVE Filed'
  <2>1. Stay
    BY <1>12 DEF RetryProcess, rows
  <2> DEFINE x == [op |-> "process", s |-> call[c].s, cron |-> TRUE, at |-> "commit"]
  <2>2. \/ Answer(c)
        \/ call' = [call EXCEPT ![c] = x] /\ settlement'[x.s].status # "ABSENT"
    BY <1>12 DEF RetryProcess, Become, rows
  <2> QED
    BY <1>3, <1>4, <2>1, <2>2
<1>13. ASSUME NEW s \in Settlements, SettlementFail(s) PROVE Filed'
  BY <1>1, <1>2, <1>13 DEF SettlementFail, Filed
<1>14. ASSUME NEW t, NEW operation, NEW st, PayoutDecide(t, operation, st) PROVE Filed'
  BY <1>6, <1>14 DEF PayoutDecide
<1>15. CASE UNCHANGED vars
  BY <1>6, <1>15 DEF vars, rows
<1> QED
  BY <1>7, <1>8, <1>9, <1>10, <1>11, <1>12, <1>13, <1>14, <1>15 DEF Next, Continue

(* The type invariant, whatever overlaps; in particular the bound on         *)
(* transfers is one only new transfers meet, never one that has begun.       *)
THEOREM TypeCorrect == Spec => []TypeOK
<1>1. Typed /\ [Next]_vars => Typed'
  BY TypedStep
<1>2. Typed => TypeOK
  BY DEF Typed
<1> QED
  BY TypedInit, <1>1, <1>2, PTL DEF Spec

(* What a call has read is still so, one call at a time; a transferred       *)
(* payout is transferred again only at the price of an interruption.         *)
THEOREM Inductive == ASSUME OneCall PROVE Spec => [](Typed /\ Serial)
<1>1. Typed /\ Serial /\ [Next]_vars => Typed' /\ Serial'
  BY TypedStep, SerialStep
<1> QED
  BY TypedInit, SerialInit, <1>1, PTL DEF Spec

(* One call at a time, a settlement has at most one payout, over failures,   *)
(* retries, reopenings and interruptions.                                    *)
THEOREM OnePayoutStands == ASSUME OneCall PROVE Spec => []OnePayoutPerSettlement
<1>1. ASSUME Serial, NEW s \in Settlements PROVE Cardinality(PayoutsOf(s)) =< 1
  <2>1. CASE PayoutsOf(s) = {}
    BY <2>1, FS_EmptySet
  <2>2. CASE PayoutsOf(s) # {}
    <3>1. PICK t : t \in PayoutsOf(s)
      BY <2>2
    <3>2. PayoutsOf(s) = {t}
      BY <1>1, <3>1 DEF Serial, PaidOnce, PayoutsOf
    <3>3. Cardinality({t}) = 1
      BY FS_Singleton
    <3> QED
      BY <3>2, <3>3
  <2> QED
    BY <2>1, <2>2
<1>2. Serial => OnePayoutPerSettlement
  BY <1>1 DEF OnePayoutPerSettlement
<1> QED
  BY Inductive, <1>2, PTL

(* One call at a time, every transfer of a payout but the first cost an      *)
(* error or a lost call.                                                     *)
THEOREM TransfersAreCovered == ASSUME OneCall PROVE Spec => []RepeatedOnlyAfterInterruption
<1>1. ASSUME Typed, Serial PROVE RepeatedOnlyAfterInterruption
  <2>1. PICK c \in Calls : Covered(call[c], payout, transfers, errors + lost)
    BY <1>1 DEF OneCall, Serial
  <2>2. errors \in Nat /\ lost \in Nat /\ transfers \in [Payouts -> 0..MaxTransfers]
    BY <1>1, ConstantsAssumption DEF Typed, TypeOK
  <2> QED
    BY <2>1, <2>2 DEF Covered, RepeatedOnlyAfterInterruption
<1>2. Typed /\ Serial => RepeatedOnlyAfterInterruption
  BY <1>1
<1> QED
  BY Inductive, <1>2, PTL

(* One call at a time, no escrow is held for a payment wholly refunded.      *)
THEOREM RefundEmptiesEscrow == ASSUME OneCall PROVE Spec => []RefundedNotHeld
<1>1. Serial => RefundedNotHeld
  BY DEF Serial, Refunded, RefundedNotHeld
<1> QED
  BY Inductive, <1>1, PTL

(* One call at a time, a booking wholly refunded is not settled afterwards:  *)
(* it was cancelled with the refund, and its escrow cannot become RELEASED.  *)
THEOREM RefundedStaysUnsettled == ASSUME OneCall PROVE Spec => RefundedNeverSettled
<1>1. ASSUME Typed, Serial, Filed, [Next]_vars, payment = "REFUNDED",
             NEW s \in Settlements, settlement[s].status = "ABSENT"
      PROVE  settlement'[s].status = "ABSENT"
  <2> USE <1>1
  <2>0. /\ \A c \in Calls : /\ call[c] \in Call
                            /\ Known(call[c], booking, payment, escrow, payout, transfers,
                                     errors + lost)
        /\ settlement \in [Settlements -> SettlementRow]
        /\ booking.status = "CANCELLED" /\ escrow \in {"NONE", "REFUNDED"}
    BY DEF Typed, TypeOK, Serial, Refunded
  <2>1. ASSUME settlement' = settlement PROVE settlement'[s].status = "ABSENT"
    BY <2>1
  <2>2. ASSUME NEW c \in Calls, BeginCall(c) PROVE settlement' = settlement
    BY <2>2 DEF BeginCall, CaptureBegin, UpdateBegin, ProcessBegin, RetryBegin,
         ReopenBegin, CreateBegin, TransferBegin, RefundBegin, EscrowBegin, rows
  <2>3. ASSUME NEW c \in Calls, CatchError(c) \/ RefundTorn(c) \/ Lose(c)
        PROVE  settlement' = settlement
    BY <2>3 DEF CatchError, RefundTorn, Lose, rows
  <2>4. ASSUME NEW c \in Calls, Continue(c) PROVE settlement'[s].status = "ABSENT"
    <3>1. call[c].op \notin {"settle", "settling", "create"}
      BY <2>0 DEF Known
    <3>2. CASE ProcessCommit(c) \/ RetryCommit(c) \/ ReopenCommit(c)
      <4>1. call[c].s # s
        BY <3>2 DEF ProcessCommit, RetryCommit, ReopenCommit, At, Filed, OnFile
      <4> QED
        BY <2>0, <3>2, <4>1 DEF ProcessCommit, RetryCommit, ReopenCommit
    <3>3. CASE ~(ProcessCommit(c) \/ RetryCommit(c) \/ ReopenCommit(c))
      <4>1. settlement' = settlement
        BY <2>4, <3>1, <3>3 DEF Continue, CaptureCommit, HoldLookup, HoldCommit,
             UpdateCommit, SettleLookup, SettleInsert, SettleProcess, SettleRelease,
             SettleFailed, PayoutLookup, PayoutInsert, RetryProcess, CreateInsert,
             TransferPost, TransferRecord, TransferAudit, MarkManual, RefundCommit,
             RefundRefused, EscrowCommit, At, rows
      <4> QED
        BY <4>1
    <3> QED
      BY <3>2, <3>3
  <2>5. ASSUME NEW r \in Settlements, SettlementFail(r)
        PROVE  settlement'[s].status = "ABSENT"
    BY <2>0, <2>5 DEF SettlementFail
  <2>6. ASSUME NEW t, NEW operation, NEW st, PayoutDecide(t, operation, st)
        PROVE  settlement' = settlement
    BY <2>6 DEF PayoutDecide
  <2>7. UNCHANGED vars => settlement' = settlement
    BY DEF vars, rows
  <2> QED
    BY <2>1, <2>2, <2>3, <2>4, <2>5, <2>6, <2>7 DEF Next
<1>2. Init => Filed
  BY IdleCall DEF Init, Filed, OnFile
<1>3. Typed /\ Serial /\ Filed /\ [Next]_vars
        => Typed' /\ Serial' /\ Filed'
           /\ [\A s \in Settlements :
                 settlement[s].status = "ABSENT" /\ settlement'[s].status # "ABSENT"
                   => payment # "REFUNDED"]_vars
  BY <1>1, TypedStep, SerialStep, FiledStep
<1> QED
  BY TypedInit, SerialInit, <1>2, <1>3, PTL DEF Spec, RefundedNeverSettled
=============================================================================
