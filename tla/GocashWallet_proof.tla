------------------------- MODULE GocashWallet_proof -------------------------
(***************************************************************************)
(* What TLAPS proves of GocashWallet for every number of entries, calls,   *)
(* keys and amounts.                                                       *)
(***************************************************************************)
EXTENDS GocashWallet, FiniteSetTheorems, TLAPS

(* The kinds of call are told apart by op, and a posting carries an entry.   *)
LEMMA CallKinds ==
    ASSUME NEW r \in Call
    PROVE  /\ r.op = "post" => r \in Posting
           /\ r.op = "redeem" => r.amount \in Nat
           /\ r.op = "reject" => r.redemption \in Redemptions
           /\ r.op = "status" => r.to \in {"ACTIVE", "LOCKED"}
           /\ Idle \in Call
  BY DEF Call, Idle, Posting

(* What an entry adds to a balance is an integer.                            *)
LEMMA SignedInt == ASSUME NEW row \in Row PROVE Signed(row) \in Int
  BY DEF Row, Directions, Signed

(* A posting that begins remembers the balance and a well-formed entry.      *)
LEMMA PostingType ==
    ASSUME TypeOK, NEW c \in Calls, NEW new \in Row,
           NEW approved \in SUBSET Redemptions, BeginPosting(c, new, approved)
    PROVE  TypeOK'
  <1>1. [op |-> "post", before |-> wallet.current, new |-> new,
         redemption |-> approved] \in Call
    BY DEF TypeOK, Call, Posting
  <1> QED BY <1>1 DEF TypeOK, BeginPosting, Begin

(* Beginning a call keeps every row and call well-formed.                    *)
LEMMA BeginType ==
    ASSUME TypeOK, NEW c \in Calls, BeginCall(c)
    PROVE  TypeOK'
  <1>1. ASSUME NEW amount \in Amounts, NEW key \in KeyArgument,
               CreditBegin(c, amount, key) \/ DebitBegin(c, amount, key)
        PROVE  TypeOK'
    <2>1. key \in SUBSET Keys
      BY <1>1 DEF KeyArgument
    <2>2. \A d \in Directions :
            [direction |-> d, amount |-> amount, key |-> key, reverses |-> {}] \in Row
      BY <2>1, ConstantsAssumption DEF Row
    <2>3. CASE CreditBegin(c, amount, key)
      BY <2>2, <2>3, PostingType DEF CreditBegin, Directions
    <2>4. CASE DebitBegin(c, amount, key)
      BY <2>2, <2>4, PostingType DEF DebitBegin, Directions
    <2> QED BY <1>1, <2>3, <2>4
  <1>2. ASSUME NEW e \in Entries, ReverseBegin(c, e)
        PROVE  TypeOK'
    <2>1. entry[e] \in Row
      BY <1>2 DEF ReverseBegin, TypeOK
    <2>2. \A d \in Directions :
            [direction |-> d, amount |-> entry[e].amount, key |-> {},
             reverses |-> {e}] \in Row
      BY <2>1 DEF Row
    <2> QED BY <1>2, <2>2, PostingType DEF ReverseBegin, Directions
  <1>3. ASSUME NEW r \in Redemptions, ApproveBegin(c, r)
        PROVE  TypeOK'
    <2>1. redemption[r] \in Redemption
      BY <1>3 DEF TypeOK
    <2>2. [direction |-> "DEBIT", amount |-> redemption[r].amount, key |-> {},
           reverses |-> {}] \in Row
      BY <2>1 DEF Redemption, Row, Directions
    <2> QED BY <1>3, <2>2, PostingType DEF ApproveBegin
  <1>4. ASSUME NEW r \in Redemptions, RejectBegin(c, r)
        PROVE  TypeOK'
    <2>1. [op |-> "reject", redemption |-> r] \in Call
      BY DEF Call
    <2> QED BY <1>4, <2>1 DEF RejectBegin, Begin, TypeOK
  <1>5. ASSUME NEW amount \in Amounts, RedeemBegin(c, amount)
        PROVE  TypeOK'
    <2>1. [op |-> "redeem", amount |-> amount] \in Call
      BY ConstantsAssumption DEF Call
    <2> QED BY <1>5, <2>1 DEF RedeemBegin, Begin, TypeOK
  <1>6. ASSUME NEW to \in {"ACTIVE", "LOCKED"}, StatusBegin(c, to)
        PROVE  TypeOK'
    <2>1. [op |-> "status", to |-> to] \in Call
      BY DEF Call
    <2> QED BY <1>6, <2>1 DEF StatusBegin, Begin, TypeOK
  <1> QED BY <1>1, <1>2, <1>3, <1>4, <1>5, <1>6 DEF BeginCall

\* A posting committed as entry e.
Posted(c, e) ==
    /\ entry' = [entry EXCEPT ![e] = call[c].new]
    /\ wallet' = [current |-> call[c].before + Signed(call[c].new),
                  available |-> wallet.available + Signed(call[c].new),
                  status |-> wallet.status]
    /\ redemption' = [r \in Redemptions |->
         IF r \in call[c].redemption
           THEN [redemption[r] EXCEPT !.status = "APPROVED", !.debits = @ \cup {e}]
           ELSE redemption[r]]

(* What a posting makes of the balances: one is overwritten, the other moved.*)
LEMMA PostedWallet ==
    ASSUME TypeOK, NEW c \in Calls, NEW e \in Entries, Posted(c, e),
           call[c].before \in Int, Signed(call[c].new) \in Int
    PROVE  /\ wallet' \in [current: Int, available: Int, status: {"ACTIVE", "LOCKED"}]
           /\ wallet'.current = call[c].before + Signed(call[c].new)
           /\ wallet'.available = wallet.available + Signed(call[c].new)
  <1>1. wallet.available \in Int /\ wallet.status \in {"ACTIVE", "LOCKED"}
    BY DEF TypeOK
  <1>2. wallet' = [current |-> call[c].before + Signed(call[c].new),
                   available |-> wallet.available + Signed(call[c].new),
                   status |-> wallet.status]
    BY DEF Posted
  <1> QED BY <1>1, <1>2

(* Committing or aborting a call keeps every row and call well-formed.       *)
LEMMA CommitType ==
    ASSUME TypeOK, NEW c \in Calls, Commit(c) \/ Abort(c)
    PROVE  TypeOK'
  <1>0. call[c] \in Call /\ Idle \in Call
    BY CallKinds DEF TypeOK
  <1>a. call' \in [Calls -> Call]
    BY <1>0 DEF TypeOK, Commit, Abort, PostCommit, RedeemCommit, RejectCommit,
                StatusCommit, Answer
  <1>b. overlapped' \in BOOLEAN
    BY DEF TypeOK, Commit, Abort, PostCommit, RedeemCommit, RejectCommit,
           StatusCommit, Answer
  <1>1. CASE PostCommit(c)
    <2>1. CASE KeyIn(call[c].new.key)
      BY <1>1, <1>a, <1>b, <2>1 DEF PostCommit, TypeOK
    <2>2. CASE ~KeyIn(call[c].new.key)
      <3>1. call[c].new \in Row /\ call[c].before \in Int
        BY <1>0, <1>1, CallKinds DEF PostCommit, Posting
      <3>2. Signed(call[c].new) \in Int
        BY <3>1, SignedInt
      <3>3. PICK e \in Free : Posted(c, e)
        BY <1>1, <2>2 DEF PostCommit, Posted
      <3>4. e \in Entries
        BY DEF Free
      <3>5. entry' \in [Entries -> Row \cup {Absent}]
        BY <3>1, <3>3, <3>4 DEF Posted, TypeOK
      <3>6. wallet' \in [current: Int, available: Int, status: {"ACTIVE", "LOCKED"}]
        BY <3>1, <3>2, <3>3, <3>4, PostedWallet
      <3>7. redemption' \in [Redemptions -> Redemption]
        <4>1. ASSUME NEW r \in Redemptions
              PROVE  redemption[r] \in Redemption
                     /\ [redemption[r] EXCEPT !.status = "APPROVED",
                                             !.debits = @ \cup {e}] \in Redemption
          <5>1. redemption[r] \in Redemption
            BY DEF TypeOK
          <5> QED BY <5>1, <3>4 DEF Redemption
        <4> QED BY <3>3, <4>1 DEF Posted
      <3> QED BY <1>a, <1>b, <3>5, <3>6, <3>7 DEF TypeOK
    <2> QED BY <2>1, <2>2
  <1>2. CASE RedeemCommit(c)
    <2>1. [status |-> "PENDING", amount |-> call[c].amount, debits |-> {}] \in Redemption
      BY <1>0, <1>2, CallKinds DEF RedeemCommit, Redemption
    <2> QED BY <1>2, <1>a, <1>b, <2>1 DEF RedeemCommit, TypeOK
  <1>3. CASE RejectCommit(c)
    <2> DEFINE r == call[c].redemption
    <2>1. r \in Redemptions /\ redemption[r] \in Redemption
      BY <1>0, <1>3, CallKinds DEF RejectCommit, TypeOK
    <2>2. [redemption[r] EXCEPT !.status = "REJECTED"] \in Redemption
      BY <2>1 DEF Redemption
    <2>3. redemption' = [redemption EXCEPT ![r] =
                           [redemption[r] EXCEPT !.status = "REJECTED"]]
      BY <1>3 DEF RejectCommit
    <2> HIDE DEF r
    <2>4. redemption' \in [Redemptions -> Redemption]
      BY <2>2, <2>3 DEF TypeOK
    <2> QED BY <1>3, <1>a, <1>b, <2>4 DEF RejectCommit, TypeOK
  <1>4. CASE StatusCommit(c)
    <2>1. call[c].to \in {"ACTIVE", "LOCKED"}
      BY <1>0, <1>4, CallKinds DEF StatusCommit
    <2>2. wallet' \in [current: Int, available: Int, status: {"ACTIVE", "LOCKED"}]
      BY <1>4, <2>1 DEF StatusCommit, TypeOK
    <2> QED BY <1>4, <1>a, <1>b, <2>2 DEF StatusCommit, TypeOK
  <1>5. CASE Abort(c)
    BY <1>5, <1>a, <1>b DEF Abort, TypeOK
  <1> QED BY <1>1, <1>2, <1>3, <1>4, <1>5 DEF Commit

LEMMA InitType == Init => TypeOK
  <1> SUFFICES ASSUME Init PROVE TypeOK
    OBVIOUS
  <1>1. call \in [Calls -> Call]
    BY DEF Init, Call
  <1>2. overlapped \in BOOLEAN
    BY DEF Init
  <1> QED BY <1>1, <1>2 DEF Init, TypeOK, Redemption, NoRedemption

(* Every row of the wallet, the ledger and the redemptions stays well-formed *)
(* through overlapping, aborted and repeated calls.                          *)
THEOREM TypeCorrect == Spec => []TypeOK
  <1>1. Init => TypeOK
    BY InitType
  <1>2. TypeOK /\ [Next]_vars => TypeOK'
    <2>1. CASE Next
      BY <2>1, BeginType, CommitType DEF Next
    <2>2. CASE UNCHANGED vars
      BY <2>2 DEF vars, TypeOK
    <2> QED BY <2>1, <2>2
  <1> QED BY <1>1, <1>2, PTL DEF Spec

-----------------------------------------------------------------------------
(* The commit of a posting either rolls back or is Posted as a free entry.   *)
LEMMA PostOutcome ==
    ASSUME NEW c \in Calls, PostCommit(c)
    PROVE  \/ UNCHANGED <<wallet, entry, redemption>>
           \/ ~KeyIn(call[c].new.key) /\ \E e \in Free : Posted(c, e)
  BY DEF PostCommit, Posted

(* No step but the commit of a posting touches the ledger.                   *)
LEMMA LedgerSteps ==
    ASSUME [Next]_vars
    PROVE  \/ UNCHANGED entry
           \/ \E c \in Calls : PostCommit(c)
  BY DEF Next, vars, BeginCall, Commit, Abort, CreditBegin, DebitBegin,
         ReverseBegin, ApproveBegin, BeginPosting, RejectBegin, RedeemBegin,
         StatusBegin, RedeemCommit, RejectCommit, StatusCommit

(* However many calls come with an idempotency key, and whatever they have   *)
(* read, the ledger holds the key once: the unique index decides at commit.  *)
THEOREM KeysStayUnique == Spec => []KeyUsedOnce
  <1>1. Init => KeyUsedOnce
    BY DEF Init, KeyUsedOnce, Absent
  <1>2. TypeOK /\ KeyUsedOnce /\ [Next]_vars => KeyUsedOnce'
    <2> SUFFICES ASSUME TypeOK, KeyUsedOnce, [Next]_vars
                 PROVE  KeyUsedOnce'
      OBVIOUS
    <2>1. CASE UNCHANGED entry
      BY <2>1 DEF KeyUsedOnce
    <2>2. ASSUME NEW c \in Calls, PostCommit(c), entry' # entry
          PROVE  KeyUsedOnce'
      <3>1. ~KeyIn(call[c].new.key)
        BY <2>2, PostOutcome
      <3>2. PICK e \in Free : Posted(c, e)
        BY <2>2, PostOutcome
      <3>3. entry' = [entry EXCEPT ![e] = call[c].new]
        BY <3>2 DEF Posted
      <3>4. entry \in [Entries -> Row \cup {Absent}] /\ e \in Entries
        BY DEF TypeOK, Free
      <3>5. \A f \in Entries \ {e} : entry'[f] = entry[f]
        BY <3>3, <3>4
      <3>6. entry'[e] = call[c].new
        BY <3>3, <3>4
      <3> QED BY <3>1, <3>5, <3>6 DEF KeyUsedOnce, KeyIn
    <2> QED BY <2>1, <2>2, LedgerSteps
  <1> QED BY <1>1, <1>2, TypeCorrect, PTL DEF Spec

-----------------------------------------------------------------------------
(* The available balance is the sum of the ledger.  A sum over a set is a    *)
(* recursive function on its subsets; what a proof needs of it is a tally, a *)
(* function that accounts for every row of every subset.  The inductive      *)
(* invariant says that there is one, and that it comes to the balance.       *)
TallyOf(w, value) ==
    /\ w \in [SUBSET Entries -> Int]
    /\ w[{}] = 0
    /\ \A rows \in SUBSET Entries : \A e \in rows :
         w[rows] = value[e] + w[rows \ {e}]

Values == [e \in Entries |-> Signed(entry[e])]

BalanceTallies == \E w : TallyOf(w, Values) /\ wallet.available = w[Entries]

(* Among sets of rows there is one that has none of the others as a subset.  *)
LEMMA SmallestSet ==
    ASSUME NEW T, T \subseteq SUBSET Entries, T # {}
    PROVE  \E x \in T : \A y \in T : ~(y \subseteq x /\ y # x)
  <1>1. IsWellFoundedOn(StrictSubsetOrdering(Entries), SUBSET Entries)
    BY FS_StrictSubsetOrderingWellFounded, FS_FiniteSubsetsOfFinite,
       ConstantsAssumption
  <1>2. \E x \in T : \A y \in T : ~(<<y, x>> \in StrictSubsetOrdering(Entries))
    BY <1>1, WFMin
  <1> QED BY <1>2 DEF StrictSubsetOrdering

(* Any tally is the function that LedgerSum defines by recursion: it meets   *)
(* the same equation, and a smallest set on which they differed would differ *)
(* without the row that is taken from it first.                              *)
LEMMA TallyIsSum ==
    ASSUME NEW w, TallyOf(w, Values)
    PROVE  LedgerSum = w[Entries]
  <1> DEFINE first(rows) == CHOOSE e \in rows : TRUE
  <1> DEFINE step(h, rows) ==
               IF rows = {} THEN 0
               ELSE Signed(entry[first(rows)]) + h[rows \ {first(rows)}]
  <1> DEFINE equation(h) == h = [rows \in SUBSET Entries |-> step(h, rows)]
  <1> DEFINE sum == CHOOSE h : equation(h)
  <1>1. LedgerSum = sum[Entries]
    BY DEF LedgerSum, MapThenSumSet, MapThenFoldSet
  <1>2. \A rows \in SUBSET Entries : rows # {} => first(rows) \in rows
    OBVIOUS
  <1> HIDE DEF first
  <1>3. equation(w)
    <2>1. w = [rows \in SUBSET Entries |-> w[rows]]
      BY DEF TallyOf
    <2>2. ASSUME NEW rows \in SUBSET Entries
          PROVE  w[rows] = step(w, rows)
      <3>1. CASE rows = {}
        BY <3>1 DEF TallyOf
      <3>2. CASE rows # {}
        BY <1>2, <3>2 DEF TallyOf, Values
      <3> QED BY <3>1, <3>2
    <2> QED BY <2>1, <2>2
  <1>4. equation(sum)
    BY <1>3
  <1> HIDE DEF sum
  <1> DEFINE differ == {rows \in SUBSET Entries : sum[rows] # w[rows]}
  <1>5. differ \subseteq SUBSET Entries
    OBVIOUS
  <1>6. ASSUME NEW rows \in differ,
               \A y \in differ : ~(y \subseteq rows /\ y # rows)
        PROVE  FALSE
    <2>1. CASE rows = {}
      BY <1>3, <1>4, <1>6, <2>1
    <2>2. CASE rows # {}
      <3> DEFINE rest == rows \ {first(rows)}
      <3>1. rest \in SUBSET Entries /\ rest \subseteq rows /\ rest # rows
        BY <1>2, <2>2
      <3>2. sum[rest] = w[rest]
        BY <1>6, <3>1
      <3> QED BY <1>3, <1>4, <1>6, <2>2, <3>2
    <2> QED BY <2>1, <2>2
  <1> HIDE DEF differ
  <1>7. differ = {}
    BY <1>5, <1>6, SmallestSet
  <1>8. sum[Entries] = w[Entries]
    BY <1>7 DEF differ
  <1> QED BY <1>1, <1>8

(* A row that comes to count adds its value to every set that has it.        *)
LEMMA TallyGrows ==
    ASSUME NEW value, NEW w, TallyOf(w, value),
           NEW e \in Entries, value[e] = 0,
           NEW amount \in Int, \A f \in Entries : value[f] \in Int,
           NEW after, after[e] = amount,
           \A f \in Entries \ {e} : after[f] = value[f]
    PROVE  \E v : TallyOf(v, after) /\ v[Entries] = w[Entries] + amount
  <1> DEFINE v == [rows \in SUBSET Entries |->
                     IF e \in rows THEN w[rows] + amount ELSE w[rows]]
  <1>1. v \in [SUBSET Entries -> Int] /\ v[{}] = 0
    BY DEF TallyOf
  <1>2. ASSUME NEW rows \in SUBSET Entries, NEW f \in rows
        PROVE  v[rows] = after[f] + v[rows \ {f}]
    <2>1. /\ w[rows] = value[f] + w[rows \ {f}]
          /\ rows \ {f} \in SUBSET Entries /\ f \in Entries
          /\ w[rows] \in Int /\ w[rows \ {f}] \in Int
      BY DEF TallyOf
    <2>2. CASE f = e
      <3>1. v[rows] = w[rows] + amount /\ v[rows \ {f}] = w[rows \ {f}]
        BY <2>1, <2>2
      <3>2. value[f] = 0 /\ after[f] = amount
        BY <2>2
      <3> QED BY <2>1, <3>1, <3>2
    <2>3. CASE f # e /\ e \in rows
      <3>1. v[rows] = w[rows] + amount
        BY <2>3
      <3>2. v[rows \ {f}] = w[rows \ {f}] + amount
        BY <2>1, <2>3
      <3>3. after[f] = value[f] /\ value[f] \in Int
        BY <2>1, <2>3
      <3> QED BY <2>1, <3>1, <3>2, <3>3
    <2>4. CASE f # e /\ e \notin rows
      BY <2>1, <2>4
    <2> QED BY <2>2, <2>3, <2>4
  <1>3. TallyOf(v, after)
    BY <1>1, <1>2 DEF TallyOf
  <1>4. v[Entries] = w[Entries] + amount
    OBVIOUS
  <1> QED BY <1>3, <1>4

(* A row that enters the ledger adds the same to the balance and to the tally*)
(* of every set that has it.                                                 *)
LEMMA PostedTallies ==
    ASSUME TypeOK, BalanceTallies, NEW c \in Calls, PostCommit(c)
    PROVE  BalanceTallies'
  <1>1. CASE UNCHANGED <<wallet, entry, redemption>>
    BY <1>1 DEF BalanceTallies, Values
  <1>2. ASSUME NEW e \in Free, Posted(c, e) PROVE BalanceTallies'
    <2>1. /\ e \in Entries /\ entry[e] = Absent
          /\ entry' = [entry EXCEPT ![e] = call[c].new]
          /\ wallet'.available = wallet.available + Signed(call[c].new)
      BY <1>2 DEF Free, Posted
    <2>2. Signed(call[c].new) \in Int
      <3>1. call[c] \in Posting
        BY CallKinds DEF TypeOK, PostCommit
      <3>2. call[c].new \in Row
        BY <3>1 DEF Posting
      <3> QED BY <3>2, SignedInt
    <2>3. PICK w : TallyOf(w, Values) /\ wallet.available = w[Entries]
      BY DEF BalanceTallies
    <2>4. Values[e] = 0
      BY <2>1 DEF Values, Signed, Absent
    <2>5. /\ Values'[e] = Signed(call[c].new)
          /\ \A f \in Entries \ {e} : Values'[f] = Values[f]
      BY <2>1 DEF Values, TypeOK
    <2>6. \A f \in Entries : Values[f] \in Int
      <3>1. ASSUME NEW f \in Entries PROVE Signed(entry[f]) \in Int
        <4>1. entry[f] \in Row \/ entry[f] = Absent
          BY DEF TypeOK
        <4>2. CASE entry[f] = Absent
          BY <4>2 DEF Signed, Absent
        <4> QED BY <4>1, <4>2, SignedInt
      <3> QED BY <3>1 DEF Values
    <2>7. PICK v : /\ TallyOf(v, Values')
                   /\ v[Entries] = w[Entries] + Signed(call[c].new)
      BY <2>1, <2>2, <2>3, <2>4, <2>5, <2>6, TallyGrows
    <2>8. TallyOf(v, Values)' /\ wallet'.available = v[Entries]
      BY <2>1, <2>3, <2>7 DEF TallyOf
    <2> QED BY <2>8 DEF BalanceTallies
  <1> QED BY <1>1, <1>2, PostOutcome

(* However many calls overlap, abort, repeat or reverse, the available       *)
(* balance is what the whole ledger adds up to.                              *)
THEOREM AvailableFollowsLedger == Spec => []AvailableIsLedgerSum
  <1>1. Init => BalanceTallies
    <2> SUFFICES ASSUME Init PROVE BalanceTallies
      OBVIOUS
    <2> DEFINE w == [rows \in SUBSET Entries |-> 0]
    <2>1. \A e \in Entries : Signed(entry[e]) = 0
      BY DEF Init, Signed, Absent
    <2>2. TallyOf(w, Values) /\ wallet.available = w[Entries]
      BY <2>1 DEF TallyOf, Values, Init
    <2> QED BY <2>2 DEF BalanceTallies
  <1>2. TypeOK /\ BalanceTallies /\ [Next]_vars => BalanceTallies'
    <2> SUFFICES ASSUME TypeOK, BalanceTallies, [Next]_vars
                 PROVE  BalanceTallies'
      OBVIOUS
    <2>1. CASE \E c \in Calls : PostCommit(c)
      BY <2>1, PostedTallies
    <2>2. CASE UNCHANGED <<wallet.available, entry>>
      BY <2>2 DEF BalanceTallies, Values
    <2>3. UNCHANGED <<wallet.available, entry>> \/ \E c \in Calls : PostCommit(c)
      BY DEF Next, vars, BeginCall, Commit, Abort, CreditBegin, DebitBegin,
             ReverseBegin, ApproveBegin, BeginPosting, RejectBegin, RedeemBegin,
             StatusBegin, RedeemCommit, RejectCommit, StatusCommit, TypeOK
    <2> QED BY <2>1, <2>2, <2>3
  <1>3. BalanceTallies => AvailableIsLedgerSum
    BY TallyIsSum DEF BalanceTallies, AvailableIsLedgerSum
  <1> QED BY <1>1, <1>2, <1>3, TypeCorrect, PTL DEF Spec

-----------------------------------------------------------------------------
(* As long as nothing overlapped, one call is in flight at most, and what a  *)
(* posting has read of the wallet still holds, because nobody else is there  *)
(* to change it.                                                             *)
PostingCurrent ==
    ~overlapped =>
        /\ \A c, d \in Calls : call[c] # Idle /\ call[d] # Idle => c = d
        /\ \A c \in Calls : call[c].op = "post" =>
             /\ call[c].before = wallet.current
             /\ call[c].new.direction = "DEBIT" => wallet.available >= call[c].new.amount

SerialInv == TypeOK /\ BalancesAgree /\ PostingCurrent

(* The call that begins is alone, and nobody else has anything in flight.    *)
LEMMA BeginsAlone ==
    ASSUME SerialInv, NEW c \in Calls, NEW x, Begin(c, x), ~overlapped'
    PROVE  ~overlapped /\ call'[c] = x /\ \A d \in Calls \ {c} : call'[d] = Idle
  BY DEF SerialInv, TypeOK, Begin

(* A posting that begins has just read the wallet.                           *)
LEMMA SerialBegin ==
    ASSUME SerialInv, NEW c \in Calls, BeginCall(c)
    PROVE  BalancesAgree' /\ PostingCurrent'
  <1> SUFFICES ASSUME ~overlapped' PROVE BalancesAgree' /\ PostingCurrent'
    BY DEF BalancesAgree, PostingCurrent
  <1>2. UNCHANGED wallet
    BY DEF BeginCall, CreditBegin, DebitBegin, ReverseBegin, ApproveBegin,
           BeginPosting, RejectBegin, RedeemBegin, StatusBegin
  <1>3. ASSUME NEW new, NEW approved, BeginPosting(c, new, approved),
               new.direction = "DEBIT" => wallet.available >= new.amount
        PROVE  ~overlapped /\ PostingCurrent'
    <2> DEFINE x == [op |-> "post", before |-> wallet.current, new |-> new,
                     redemption |-> approved]
    <2>1. ~overlapped /\ call'[c] = x /\ \A d \in Calls \ {c} : call'[d] = Idle
      BY <1>3, BeginsAlone DEF BeginPosting
    <2> QED BY <1>2, <1>3, <2>1 DEF PostingCurrent, Idle
  <1>4. ASSUME NEW x, Begin(c, x), x.op # "post"
        PROVE  ~overlapped /\ PostingCurrent'
    <2>1. ~overlapped /\ call'[c] = x /\ \A d \in Calls \ {c} : call'[d] = Idle
      BY <1>4, BeginsAlone
    <2> QED BY <1>4, <2>1 DEF PostingCurrent, Idle
  <1>5. ASSUME NEW amount \in Amounts, NEW key \in KeyArgument,
               CreditBegin(c, amount, key)
        PROVE  ~overlapped /\ PostingCurrent'
    BY <1>3, <1>5 DEF CreditBegin
  <1>6. ASSUME NEW amount \in Amounts, NEW key \in KeyArgument,
               DebitBegin(c, amount, key)
        PROVE  ~overlapped /\ PostingCurrent'
    BY <1>3, <1>6 DEF DebitBegin
  <1>7. ASSUME NEW e \in Entries, ReverseBegin(c, e)
        PROVE  ~overlapped /\ PostingCurrent'
    BY <1>3, <1>7 DEF ReverseBegin
  <1>8. ASSUME NEW r \in Redemptions, ApproveBegin(c, r)
        PROVE  ~overlapped /\ PostingCurrent'
    BY <1>3, <1>8 DEF ApproveBegin
  <1>9. ASSUME NEW r \in Redemptions, RejectBegin(c, r)
        PROVE  ~overlapped /\ PostingCurrent'
    BY <1>4, <1>9 DEF RejectBegin
  <1>10. ASSUME NEW amount \in Amounts, RedeemBegin(c, amount)
         PROVE  ~overlapped /\ PostingCurrent'
    BY <1>4, <1>10 DEF RedeemBegin
  <1>11. ASSUME NEW to \in {"ACTIVE", "LOCKED"}, StatusBegin(c, to)
         PROVE  ~overlapped /\ PostingCurrent'
    BY <1>4, <1>11 DEF StatusBegin
  <1>12. ~overlapped /\ PostingCurrent'
    BY <1>5, <1>6, <1>7, <1>8, <1>9, <1>10, <1>11 DEF BeginCall
  <1> QED BY <1>2, <1>12 DEF SerialInv, BalancesAgree

(* The commit moves both balances by the same amount and leaves no posting.  *)
LEMMA SerialCommit ==
    ASSUME SerialInv, NEW c \in Calls, Commit(c) \/ Abort(c)
    PROVE  BalancesAgree' /\ PostingCurrent'
  <1>0. Answer(c) /\ call[c] # Idle
    <2>1. CASE Abort(c)
      BY <2>1 DEF Abort
    <2>2. CASE Commit(c)
      <3>1. Answer(c) /\ call[c].op \in {"post", "redeem", "reject", "status"}
        BY <2>2 DEF Commit, PostCommit, RedeemCommit, RejectCommit, StatusCommit
      <3> QED BY <3>1 DEF Idle
    <2> QED BY <2>1, <2>2
  <1> SUFFICES ASSUME ~overlapped' PROVE BalancesAgree' /\ PostingCurrent'
    BY DEF BalancesAgree, PostingCurrent
  <1>1. ~overlapped /\ \A d \in Calls : call'[d] = Idle
    BY <1>0 DEF SerialInv, TypeOK, PostingCurrent, Answer
  <1>2. PostingCurrent'
    BY <1>1 DEF PostingCurrent, Idle
  <1>3. CASE UNCHANGED wallet
    BY <1>1, <1>2, <1>3 DEF SerialInv, BalancesAgree
  <1>4. CASE StatusCommit(c)
    BY <1>1, <1>2, <1>4 DEF StatusCommit, SerialInv, TypeOK, BalancesAgree
  <1>5. ASSUME PostCommit(c), wallet' # wallet
        PROVE  BalancesAgree'
    <2>1. PICK e \in Free : Posted(c, e)
      BY <1>5, PostOutcome
    <2>2. call[c] \in Posting /\ e \in Entries
      BY <1>5, CallKinds DEF PostCommit, SerialInv, TypeOK, Free
    <2>3. call[c].new \in Row /\ call[c].before \in Int
      BY <2>2 DEF Posting
    <2>4. Signed(call[c].new) \in Int
      BY <2>3, SignedInt
    <2>5. /\ wallet'.current = call[c].before + Signed(call[c].new)
          /\ wallet'.available = wallet.available + Signed(call[c].new)
      BY <2>1, <2>2, <2>3, <2>4, PostedWallet DEF SerialInv
    <2>6. /\ call[c].before = wallet.current
          /\ call[c].new.direction = "DEBIT" => wallet.available >= call[c].new.amount
      BY <1>1, <1>5 DEF PostCommit, SerialInv, PostingCurrent
    <2>7. wallet.current = wallet.available /\ wallet.available >= 0
          /\ wallet.available \in Int
      BY <1>1 DEF SerialInv, BalancesAgree, TypeOK
    <2>8. wallet.available + Signed(call[c].new) >= 0
      BY <2>3, <2>6, <2>7 DEF Signed, Row, Directions
    <2> QED BY <2>5, <2>6, <2>7, <2>8 DEF BalancesAgree
  <1> QED BY <1>2, <1>3, <1>4, <1>5 DEF Commit, Abort, RedeemCommit, RejectCommit

(* As long as no calls have overlapped, the two balances agree and are never *)
(* negative, for any ledger, any amounts, any reversals, freezes and         *)
(* redemptions: the service is right but for its isolation.                  *)
THEOREM SerialBalances == Spec => []BalancesAgree
  <1>1. Init => SerialInv
    <2> SUFFICES ASSUME Init PROVE SerialInv
      OBVIOUS
    <2>1. TypeOK
      BY InitType
    <2> QED BY <2>1 DEF Init, SerialInv, BalancesAgree, PostingCurrent, Idle
  <1>2. SerialInv /\ [Next]_vars => SerialInv'
    <2> SUFFICES ASSUME SerialInv, [Next]_vars
                 PROVE  SerialInv'
      OBVIOUS
    <2>1. ASSUME NEW c \in Calls, BeginCall(c)
          PROVE  SerialInv'
      BY <2>1, BeginType, SerialBegin DEF SerialInv
    <2>2. ASSUME NEW c \in Calls, Commit(c) \/ Abort(c)
          PROVE  SerialInv'
      BY <2>2, CommitType, SerialCommit DEF SerialInv
    <2>3. CASE UNCHANGED vars
      BY <2>3 DEF vars, SerialInv, TypeOK, BalancesAgree, PostingCurrent
    <2> QED BY <2>1, <2>2, <2>3 DEF Next
  <1>3. SerialInv => BalancesAgree
    BY DEF SerialInv
  <1> QED BY <1>1, <1>2, <1>3, PTL DEF Spec

-----------------------------------------------------------------------------
\* The debits of a redemption are what its status says.
DebitsFit(status, debits) ==
    IF status = "APPROVED" THEN \E e \in Entries : debits = {e} ELSE debits = {}

(* As long as nothing overlapped, a decision in flight is about a redemption *)
(* that still waits for it.                                                  *)
DecisionsCurrent ==
    ~overlapped =>
        /\ \A r \in Redemptions : DebitsFit(redemption[r].status, redemption[r].debits)
        /\ \A c \in Calls :
             /\ call[c].op = "post" =>
                  \A r \in call[c].redemption : redemption[r].status = "PENDING"
             /\ call[c].op = "reject" =>
                  redemption[call[c].redemption].status = "PENDING"

DecisionInv == SerialInv /\ DecisionsCurrent

(* What begins a decision has just read that the redemption is PENDING.      *)
LEMMA DecisionBegin ==
    ASSUME DecisionInv, NEW c \in Calls, BeginCall(c)
    PROVE  DecisionsCurrent'
  <1> SUFFICES ASSUME ~overlapped' PROVE DecisionsCurrent'
    BY DEF DecisionsCurrent
  <1>1. UNCHANGED redemption
    BY DEF BeginCall, CreditBegin, DebitBegin, ReverseBegin, ApproveBegin,
           BeginPosting, RejectBegin, RedeemBegin, StatusBegin
  <1>2. ASSUME NEW x, Begin(c, x),
               x.op = "post" => \A r \in x.redemption : redemption[r].status = "PENDING",
               x.op = "reject" => redemption[x.redemption].status = "PENDING"
        PROVE  DecisionsCurrent'
    <2>1. ~overlapped /\ call'[c] = x /\ \A d \in Calls \ {c} : call'[d] = Idle
      BY <1>2, BeginsAlone DEF DecisionInv
    <2>2. \A r \in Redemptions : DebitsFit(redemption[r].status, redemption[r].debits)
      BY <2>1 DEF DecisionInv, DecisionsCurrent
    <2>3. ASSUME NEW d \in Calls
          PROVE  /\ call'[d].op = "post" =>
                      \A r \in call'[d].redemption : redemption[r].status = "PENDING"
                 /\ call'[d].op = "reject" =>
                      redemption[call'[d].redemption].status = "PENDING"
      BY <1>2, <2>1 DEF Idle
    <2> QED BY <1>1, <2>2, <2>3 DEF DecisionsCurrent
  <1>3. ASSUME NEW new, NEW approved, BeginPosting(c, new, approved),
               \A r \in approved : redemption[r].status = "PENDING"
        PROVE  DecisionsCurrent'
    BY <1>2, <1>3 DEF BeginPosting
  <1>4. ASSUME NEW amount \in Amounts, NEW key \in KeyArgument,
               CreditBegin(c, amount, key) \/ DebitBegin(c, amount, key)
        PROVE  DecisionsCurrent'
    BY <1>3, <1>4 DEF CreditBegin, DebitBegin
  <1>5. ASSUME NEW e \in Entries, ReverseBegin(c, e)
        PROVE  DecisionsCurrent'
    BY <1>3, <1>5 DEF ReverseBegin
  <1>6. ASSUME NEW r \in Redemptions, ApproveBegin(c, r)
        PROVE  DecisionsCurrent'
    BY <1>3, <1>6 DEF ApproveBegin
  <1>7. ASSUME NEW r \in Redemptions, RejectBegin(c, r)
        PROVE  DecisionsCurrent'
    BY <1>2, <1>7 DEF RejectBegin
  <1>8. ASSUME NEW amount \in Amounts, RedeemBegin(c, amount)
        PROVE  DecisionsCurrent'
    BY <1>2, <1>8 DEF RedeemBegin
  <1>9. ASSUME NEW to \in {"ACTIVE", "LOCKED"}, StatusBegin(c, to)
        PROVE  DecisionsCurrent'
    BY <1>2, <1>9 DEF StatusBegin
  <1> QED BY <1>4, <1>5, <1>6, <1>7, <1>8, <1>9 DEF BeginCall

(* A commit gives a redemption its one debit and APPROVED together.          *)
LEMMA DecisionCommit ==
    ASSUME DecisionInv, NEW c \in Calls, Commit(c) \/ Abort(c)
    PROVE  DecisionsCurrent'
  <1>0. Answer(c) /\ call[c] # Idle
    <2>1. CASE Abort(c)
      BY <2>1 DEF Abort
    <2>2. CASE Commit(c)
      <3>1. Answer(c) /\ call[c].op \in {"post", "redeem", "reject", "status"}
        BY <2>2 DEF Commit, PostCommit, RedeemCommit, RejectCommit, StatusCommit
      <3> QED BY <3>1 DEF Idle
    <2> QED BY <2>1, <2>2
  <1> SUFFICES ASSUME ~overlapped' PROVE DecisionsCurrent'
    BY DEF DecisionsCurrent
  <1>1. ~overlapped /\ \A d \in Calls : call'[d] = Idle
    BY <1>0 DEF DecisionInv, SerialInv, TypeOK, PostingCurrent, Answer
  <1>2. SUFFICES \A r \in Redemptions :
                   DebitsFit(redemption'[r].status, redemption'[r].debits)
    BY <1>1 DEF DecisionsCurrent, Idle
  <1>3. /\ redemption \in [Redemptions -> Redemption]
        /\ \A r \in Redemptions : DebitsFit(redemption[r].status, redemption[r].debits)
        /\ call[c] \in Call
    BY <1>1 DEF DecisionInv, SerialInv, TypeOK, DecisionsCurrent
  <1>4. CASE UNCHANGED redemption
    BY <1>3, <1>4
  <1>5. ASSUME PostCommit(c), redemption' # redemption
        PROVE  \A r \in Redemptions :
                 DebitsFit(redemption'[r].status, redemption'[r].debits)
    <2>1. PICK e \in Free : Posted(c, e)
      BY <1>5, PostOutcome
    <2>2. e \in Entries
      BY DEF Free
    <2>3. \A r \in call[c].redemption : redemption[r].status = "PENDING"
      BY <1>1, <1>5 DEF PostCommit, DecisionInv, DecisionsCurrent
    <2>4. ASSUME NEW r \in Redemptions
          PROVE  DebitsFit(redemption'[r].status, redemption'[r].debits)
      <3>1. redemption[r] \in Redemption
        BY <1>3
      <3>2. CASE r \in call[c].redemption
        <4>1. redemption[r].debits = {}
          BY <1>3, <2>3, <3>2 DEF DebitsFit
        <4>2. redemption'[r] = [redemption[r] EXCEPT !.status = "APPROVED",
                                                     !.debits = @ \cup {e}]
          BY <2>1, <3>2 DEF Posted
        <4>3. redemption'[r].status = "APPROVED" /\ redemption'[r].debits = {e}
          BY <3>1, <4>1, <4>2 DEF Redemption
        <4> QED BY <2>2, <4>3 DEF DebitsFit
      <3>3. CASE r \notin call[c].redemption
        <4>1. redemption'[r] = redemption[r]
          BY <2>1, <3>3 DEF Posted
        <4> QED BY <1>3, <4>1
      <3> QED BY <3>2, <3>3
    <2> QED BY <2>4
  <1>6. CASE RedeemCommit(c)
    <2>1. PICK n \in Redemptions : redemption' = [redemption EXCEPT ![n] =
             [status |-> "PENDING", amount |-> call[c].amount, debits |-> {}]]
      BY <1>6 DEF RedeemCommit
    <2>2. ASSUME NEW r \in Redemptions
          PROVE  DebitsFit(redemption'[r].status, redemption'[r].debits)
      <3>1. CASE r = n
        BY <1>3, <2>1, <3>1 DEF DebitsFit
      <3>2. CASE r # n
        BY <1>3, <2>1, <3>2
      <3> QED BY <3>1, <3>2
    <2> QED BY <2>2
  <1>7. CASE RejectCommit(c)
    <2>1. PICK n \in Redemptions : n = call[c].redemption
      BY <1>3, <1>7, CallKinds DEF RejectCommit
    <2>2. redemption[n].status = "PENDING"
      BY <1>1, <1>7, <2>1 DEF RejectCommit, DecisionInv, DecisionsCurrent
    <2>3. redemption[n].debits = {} /\ redemption[n] \in Redemption
      BY <1>3, <2>2 DEF DebitsFit
    <2>4. redemption' = [redemption EXCEPT ![n] = [redemption[n] EXCEPT !.status = "REJECTED"]]
      BY <1>7, <2>1 DEF RejectCommit
    <2>5. [redemption[n] EXCEPT !.status = "REJECTED"].status = "REJECTED"
          /\ [redemption[n] EXCEPT !.status = "REJECTED"].debits = {}
      BY <2>3 DEF Redemption
    <2>6. ASSUME NEW r \in Redemptions
          PROVE  DebitsFit(redemption'[r].status, redemption'[r].debits)
      <3>1. CASE r = n
        BY <1>3, <2>4, <2>5, <3>1 DEF DebitsFit
      <3>2. CASE r # n
        BY <1>3, <2>4, <3>2
      <3> QED BY <3>1, <3>2
    <2> QED BY <2>6
  <1> QED BY <1>4, <1>5, <1>6, <1>7 DEF Commit, Abort, StatusCommit

(* As long as no calls have overlapped, a redemption has one debit when it   *)
(* is APPROVED and none otherwise, however often a decision is made, lost or *)
(* tried again, and whatever is reversed or frozen in between.               *)
THEOREM SerialRedemptions == Spec => []DebitedIffApproved
  <1>1. Init => DecisionInv
    <2> SUFFICES ASSUME Init PROVE DecisionInv
      OBVIOUS
    <2>1. TypeOK
      BY InitType
    <2>2. SerialInv
      BY <2>1 DEF Init, SerialInv, BalancesAgree, PostingCurrent, Idle
    <2> QED BY <2>2 DEF Init, DecisionInv, DecisionsCurrent, DebitsFit,
                        NoRedemption, Idle
  <1>2. DecisionInv /\ [Next]_vars => DecisionInv'
    <2> SUFFICES ASSUME DecisionInv, [Next]_vars
                 PROVE  DecisionInv'
      OBVIOUS
    <2>0. SerialInv /\ TypeOK
      BY DEF DecisionInv, SerialInv
    <2>1. ASSUME NEW c \in Calls, BeginCall(c)
          PROVE  DecisionInv'
      BY <2>0, <2>1, BeginType, SerialBegin, DecisionBegin DEF SerialInv, DecisionInv
    <2>2. ASSUME NEW c \in Calls, Commit(c) \/ Abort(c)
          PROVE  DecisionInv'
      BY <2>0, <2>2, CommitType, SerialCommit, DecisionCommit DEF SerialInv, DecisionInv
    <2>3. CASE UNCHANGED vars
      BY <2>3 DEF vars, DecisionInv, DecisionsCurrent, DebitsFit, SerialInv, TypeOK,
                  BalancesAgree, PostingCurrent
    <2> QED BY <2>1, <2>2, <2>3 DEF Next
  <1>3. DecisionInv => DebitedIffApproved
    <2> SUFFICES ASSUME DecisionInv, ~overlapped, NEW r \in Redemptions
                 PROVE  Cardinality(redemption[r].debits)
                          = IF redemption[r].status = "APPROVED" THEN 1 ELSE 0
      BY DEF DebitedIffApproved
    <2>1. DebitsFit(redemption[r].status, redemption[r].debits)
      BY DEF DecisionInv, DecisionsCurrent
    <2> QED BY <2>1, FS_EmptySet, FS_Singleton DEF DebitsFit
  <1> QED BY <1>1, <1>2, <1>3, PTL DEF Spec
=============================================================================
