---------------------------- MODULE GocashWallet ----------------------------
(***************************************************************************)
(* One GOCASH wallet: its two balances, the ledger they are kept beside,   *)
(* and redemptions.  GocashService (modules/gocash) with the freeze and    *)
(* unfreeze of WalletApiService.                                           *)
(*                                                                         *)
(* Each operation is a transaction at the database's default isolation: it *)
(* reads the wallet, decides, and commits an entry and the new balances    *)
(* later.  availableBalance is incremented where it is; currentBalance is  *)
(* overwritten with a sum worked out from what was read.                   *)
(***************************************************************************)
EXTENDS Integers, FiniteSets, FiniteSetsExt

CONSTANTS
    Entries,        \* the rows the GOCASH_Transaction table may come to hold
    Redemptions,    \* the rows the GOCASH_Redemption table may come to hold
    Keys,           \* idempotency keys that callers come with
    Calls,          \* requests served at the same time
    Amounts         \* amounts credited, debited and redeemed

ASSUME ConstantsAssumption ==
    /\ Amounts \subseteq Nat \ {0}
    /\ IsFiniteSet(Entries)

VARIABLES
    wallet,         \* currentBalance, availableBalance and status
    entry,          \* the ledger: direction, amount, key, entry it reverses
    redemption,     \* the redemptions: status, amount, entry of their debit
    call,           \* what each call in flight has read and is to commit
    overlapped      \* history: a call has begun amid another one

vars == <<wallet, entry, redemption, call, overlapped>>

-----------------------------------------------------------------------------
Directions == {"CREDIT", "DEBIT"}
Absent == [direction |-> "ABSENT", amount |-> 0, key |-> {}, reverses |-> {}]
Row == [direction: Directions, amount: Nat, key: SUBSET Keys,
        reverses: SUBSET Entries]
NoRedemption == [status |-> "ABSENT", amount |-> 0, debits |-> {}]
Redemption == [status: {"ABSENT", "PENDING", "APPROVED", "REJECTED"},
               amount: Nat, debits: SUBSET Entries]

Idle == [op |-> "idle"]
\* A posting in flight: the balance it has read, the entry it will insert, and
\* the redemption it will approve.
Posting == [op: {"post"}, before: Int, new: Row,
            redemption: SUBSET Redemptions]
Call == {Idle} \cup Posting
    \cup [op: {"redeem"}, amount: Nat]
    \cup [op: {"reject"}, redemption: Redemptions]
    \cup [op: {"status"}, to: {"ACTIVE", "LOCKED"}]

Begin(c, next) ==
    /\ call[c] = Idle
    /\ call' = [call EXCEPT ![c] = next]
    /\ overlapped' = (overlapped \/ \E d \in Calls : call[d] # Idle)

Answer(c) == call' = [call EXCEPT ![c] = Idle] /\ UNCHANGED overlapped

Free == {e \in Entries : entry[e] = Absent}
KeyIn(key) == \E e \in Entries : entry[e].key # {} /\ entry[e].key = key

Signed(row) == IF row.direction = "CREDIT" THEN row.amount
               ELSE IF row.direction = "DEBIT" THEN -row.amount ELSE 0
LedgerSum == MapThenSumSet(LAMBDA e : Signed(entry[e]), Entries)

Init ==
    /\ wallet = [current |-> 0, available |-> 0, status |-> "ACTIVE"]
    /\ entry = [e \in Entries |-> Absent]
    /\ redemption = [r \in Redemptions |-> NoRedemption]
    /\ call = [c \in Calls |-> Idle]
    /\ overlapped = FALSE

-----------------------------------------------------------------------------
\* Bound: no posting begins unless the ledger has a row left for it.
RoomForAnEntry == Cardinality({c \in Calls : call[c].op = "post"}) < Cardinality(Free)

BeginPosting(c, new, approved) ==
    /\ RoomForAnEntry
    /\ Begin(c, [op |-> "post", before |-> wallet.current, new |-> new,
                 redemption |-> approved])
    /\ UNCHANGED <<wallet, entry, redemption>>

\* credit: a locked wallet is credited all the same; a key already in the
\* ledger is answered with the entry it has.  No key is the empty set.
CreditBegin(c, amount, key) ==
    /\ ~KeyIn(key)
    /\ BeginPosting(c, [direction |-> "CREDIT", amount |-> amount, key |-> key,
                        reverses |-> {}], {})

\* Mutant: the available balance is not compared with the amount.
DebitBegin_Overdraft(c, amount, key) ==
    /\ ~KeyIn(key)
    /\ wallet.status = "ACTIVE"
    /\ BeginPosting(c, [direction |-> "DEBIT", amount |-> amount, key |-> key,
                        reverses |-> {}], {})

DebitBegin(c, amount, key) ==
    /\ ~KeyIn(key)
    /\ wallet.status = "ACTIVE"
    /\ wallet.available >= amount
    /\ BeginPosting(c, [direction |-> "DEBIT", amount |-> amount, key |-> key,
                        reverses |-> {}], {})

\* reverse: the original's status is compared with REVERSED, which no statement
\* of the program ever writes; the wallet's status is not looked at.
ReverseBegin(c, e) ==
    /\ entry[e] # Absent
    /\ LET opposite == IF entry[e].direction = "CREDIT" THEN "DEBIT" ELSE "CREDIT"
       IN  /\ opposite = "DEBIT" => wallet.available >= entry[e].amount
           /\ BeginPosting(c, [direction |-> opposite, amount |-> entry[e].amount,
                               key |-> {}, reverses |-> {e}], {})

\* Mutant: an approved redemption may be approved again.
ApproveBegin_NotRejected(c, r) ==
    /\ redemption[r].status \in {"PENDING", "APPROVED"}
    /\ wallet.available >= redemption[r].amount
    /\ BeginPosting(c, [direction |-> "DEBIT", amount |-> redemption[r].amount,
                        key |-> {}, reverses |-> {}], {r})

ApproveBegin(c, r) ==
    /\ redemption[r].status = "PENDING"
    /\ wallet.available >= redemption[r].amount
    /\ BeginPosting(c, [direction |-> "DEBIT", amount |-> redemption[r].amount,
                        key |-> {}, reverses |-> {}], {r})

\* Mutant: both balances are overwritten from what was read.
PostCommit_Overwrite(c) ==
    /\ call[c].op = "post"
    /\ IF KeyIn(call[c].new.key)
         THEN UNCHANGED <<wallet, entry, redemption>>
         ELSE \E e \in Free :
                /\ entry' = [entry EXCEPT ![e] = call[c].new]
                /\ wallet' = [wallet EXCEPT
                     !.current = call[c].before + Signed(call[c].new),
                     !.available = call[c].before + Signed(call[c].new)]
                /\ redemption' = [r \in Redemptions |->
                     IF r \in call[c].redemption
                       THEN [redemption[r] EXCEPT !.status = "APPROVED",
                                                  !.debits = @ \cup {e}]
                       ELSE redemption[r]]
    /\ Answer(c)

\* The commit all postings share.  idempotencyKey is unique, so a key that has
\* come into the ledger meanwhile rolls everything back.
PostCommit(c) ==
    /\ call[c].op = "post"
    /\ IF KeyIn(call[c].new.key)
         THEN UNCHANGED <<wallet, entry, redemption>>
         ELSE \E e \in Free :
                /\ entry' = [entry EXCEPT ![e] = call[c].new]
                /\ wallet' = [current |-> call[c].before + Signed(call[c].new),
                              available |-> wallet.available + Signed(call[c].new),
                              status |-> wallet.status]
                /\ redemption' = [r \in Redemptions |->
                     IF r \in call[c].redemption
                       THEN [redemption[r] EXCEPT !.status = "APPROVED",
                                                  !.debits = @ \cup {e}]
                       ELSE redemption[r]]
    /\ Answer(c)

-----------------------------------------------------------------------------
\* Bound: no redemption is asked for unless the table has a row left for it.
\* Nothing is set aside: the balances stay as they are.
RedeemBegin(c, amount) ==
    /\ wallet.status = "ACTIVE"
    /\ wallet.available >= amount
    /\ Cardinality({d \in Calls : call[d].op = "redeem"})
         < Cardinality({r \in Redemptions : redemption[r] = NoRedemption})
    /\ Begin(c, [op |-> "redeem", amount |-> amount])
    /\ UNCHANGED <<wallet, entry, redemption>>

RedeemCommit(c) ==
    /\ call[c].op = "redeem"
    /\ \E r \in {r \in Redemptions : redemption[r] = NoRedemption} :
         redemption' = [redemption EXCEPT ![r] =
             [status |-> "PENDING", amount |-> call[c].amount, debits |-> {}]]
    /\ Answer(c)
    /\ UNCHANGED <<wallet, entry>>

RejectBegin(c, r) ==
    /\ redemption[r].status = "PENDING"
    /\ Begin(c, [op |-> "reject", redemption |-> r])
    /\ UNCHANGED <<wallet, entry, redemption>>

\* By id, whatever the status has become.
RejectCommit(c) ==
    /\ call[c].op = "reject"
    /\ redemption' = [redemption EXCEPT ![call[c].redemption].status = "REJECTED"]
    /\ Answer(c)
    /\ UNCHANGED <<wallet, entry>>

\* adminFreezeWallet and adminUnfreezeWallet.
StatusBegin(c, to) ==
    /\ wallet.status = IF to = "LOCKED" THEN "ACTIVE" ELSE "LOCKED"
    /\ Begin(c, [op |-> "status", to |-> to])
    /\ UNCHANGED <<wallet, entry, redemption>>

StatusCommit(c) ==
    /\ call[c].op = "status"
    /\ wallet' = [wallet EXCEPT !.status = call[c].to]
    /\ Answer(c)
    /\ UNCHANGED <<entry, redemption>>

\* A call that dies or whose transaction fails leaves nothing behind.
Abort(c) ==
    /\ call[c] # Idle
    /\ Answer(c)
    /\ UNCHANGED <<wallet, entry, redemption>>

-----------------------------------------------------------------------------
KeyArgument == {{}} \cup {{k} : k \in Keys}

BeginCall(c) ==
    \/ \E amount \in Amounts, key \in KeyArgument :
         CreditBegin(c, amount, key) \/ DebitBegin(c, amount, key)
    \/ \E e \in Entries : ReverseBegin(c, e)
    \/ \E r \in Redemptions : ApproveBegin(c, r) \/ RejectBegin(c, r)
    \/ \E amount \in Amounts : RedeemBegin(c, amount)
    \/ \E to \in {"ACTIVE", "LOCKED"} : StatusBegin(c, to)

Commit(c) ==
    PostCommit(c) \/ RedeemCommit(c) \/ RejectCommit(c) \/ StatusCommit(c)

Next == \E c \in Calls : BeginCall(c) \/ Commit(c) \/ Abort(c)

Spec == Init /\ [][Next]_vars

-----------------------------------------------------------------------------
TypeOK ==
    /\ wallet \in [current: Int, available: Int, status: {"ACTIVE", "LOCKED"}]
    /\ entry \in [Entries -> Row \cup {Absent}]
    /\ redemption \in [Redemptions -> Redemption]
    /\ call \in [Calls -> Call]
    /\ overlapped \in BOOLEAN

(* However many calls overlap, abort or repeat, the available balance is what*)
(* the ledger adds up to: it is only ever incremented where it is, in the    *)
(* transaction that inserts the entry.                                       *)
AvailableIsLedgerSum == wallet.available = LedgerSum

(* An idempotency key is in the ledger at most once, although the look-up for*)
(* it and the insert are apart.                                              *)
KeyUsedOnce ==
    \A e, f \in Entries :
        entry[e].key # {} /\ entry[e].key = entry[f].key => e = f

(* As long as no calls have overlapped, both balances agree and neither goes *)
(* below zero, whatever is reversed, redeemed, approved or frozen in between.*)
BalancesAgree ==
    ~overlapped => wallet.current = wallet.available /\ wallet.available >= 0

(* As long as no calls have overlapped, a redemption is debited once when it *)
(* is approved and never otherwise.                                          *)
DebitedIffApproved ==
    ~overlapped =>
        \A r \in Redemptions :
            Cardinality(redemption[r].debits)
                = IF redemption[r].status = "APPROVED" THEN 1 ELSE 0
=============================================================================
