------------------------- MODULE RewardClaims_proof -------------------------
(***************************************************************************)
(* Theorems about RewardClaims, for any number of users, rows and requests *)
(* at the same time and any limits.  What a request has done before it     *)
(* goes on is never taken back, whatever races it or dies; that gives      *)
(* PaidMeansCredited, and with the unique ledger keys that no more uses of *)
(* a code are rewarded than counted.  As long as nothing overlapped, what  *)
(* a request has read of the limits is also true of the rows as they are.  *)
(***************************************************************************)
EXTENDS RewardClaims, FiniteSetTheorems, TLAPS

\* What a request has done already.
Past(x, clm, use, cred, rew) ==
    /\ x.op \in {"creditClaim", "payClaim", "countClaim", "failClaim"}
         => clm[x.id].status # "ABSENT"
    /\ x.op \in {"payClaim", "countClaim"} => clm[x.id].user \in cred
    /\ x.op \in {"countUsage", "creditUsage", "recordReward", "markRewarded"}
         => use[x.id].status # "ABSENT"
    /\ x.op = "recordReward" => x.id \in cred
    /\ x.op = "markRewarded" => x.id \in rew

OpenOf(clm, u) == {i \in Claims : clm[i].status \in Open /\ clm[i].user = u}

\* What a request has read is so now.
Present(x, cmp, clm, cd) ==
    /\ x.op = "edit" => x.remaining = x.budget - cmp.spent
    /\ x.op \in {"claim", "creditClaim", "payClaim", "countClaim"} =>
         /\ cmp.budget > 0 => cmp.remaining > 0
         /\ MaxClaims > 0 => cmp.claims < MaxClaims
    /\ x.op = "claim" /\ PerUserLimit > 0
         => Cardinality(OpenOf(clm, x.user)) < PerUserLimit
    /\ x.op \in {"creditClaim", "payClaim"} => clm[x.id].status = "APPROVED"
    /\ x.op \in {"apply", "countUsage"} /\ MaxUsage > 0 => cd.used < MaxUsage

Knows == \A c \in Calls : Past(call[c], claim, usage, credited, rewarded)

\* Uses that were counted: the rewarded ones and those about to be.
Counted ==
    (credited \cap Usages) \cup {i \in Usages : \E c \in Calls :
        call[c].op = "creditUsage" /\ call[c].id = i}

\* A claim has been credited and is still to be counted.
Uncounted == {"payClaim", "countClaim"}
Pending == \E c \in Calls : call[c].op \in Uncounted

Alone == \A c, d \in Calls : call[c] # Idle /\ call[d] # Idle => c = d

ReadsPresent == \A c \in Calls : Present(call[c], campaign, claim, code)

ClaimsBounded ==
    /\ campaign.remaining = campaign.budget - campaign.spent
    /\ MaxClaims > 0 => campaign.claims =< MaxClaims
UsesBounded == MaxUsage > 0 => code.used =< MaxUsage
OpenBounded ==
    PerUserLimit > 0 => \A u \in Users : Cardinality(OpenOf(claim, u)) =< PerUserLimit
CreditsBounded ==
    ~interrupted =>
        /\ Cardinality(credited \cap Users) =< campaign.claims + 1
        /\ ~Pending => Cardinality(credited \cap Users) =< campaign.claims
Bounded == ClaimsBounded /\ UsesBounded /\ OpenBounded /\ CreditsBounded

Lasting == TypeOK /\ PaidMeansCredited /\ Knows
Serial == ~overlapped => Alone /\ ReadsPresent /\ Bounded

-----------------------------------------------------------------------------
(* The kinds of request tell themselves apart.                               *)
LEMMA CallShapes ==
    ASSUME NEW x \in Call
    PROVE  /\ x.op \in {"creditClaim", "payClaim", "countClaim", "failClaim"}
                => x.id \in Claims
           /\ x.op \in {"countUsage", "creditUsage", "recordReward", "markRewarded"}
                => x.id \in Usages
           /\ x.op = "claim" => x.user \in Users
           /\ x.op = "apply" => x.email \in Emails
           /\ x.op = "edit" => x.budget \in Budgets /\ x.remaining \in Int
           /\ x.op = "idle" => x = Idle
  BY DEF Call, Idle

LEMMA IdleFacts ==
    ASSUME NEW clm, NEW use, NEW cred, NEW rew, NEW cmp, NEW cd
    PROVE  /\ Idle \in Call /\ Idle.op = "idle"
           /\ Past(Idle, clm, use, cred, rew) /\ Present(Idle, cmp, clm, cd)
  BY DEF Call, Idle, Past, Present

LEMMA Amounts ==
    ASSUME TypeOK
    PROVE  /\ campaign.budget \in Nat /\ campaign.remaining \in Int
           /\ campaign.spent \in Nat /\ campaign.claims \in Nat
           /\ \A b \in Budgets : b \in Nat
           /\ Reward \in Nat /\ code.used \in Nat
           /\ MaxClaims \in Nat /\ PerUserLimit \in Nat /\ MaxUsage \in Nat
  BY ConstantsAssumption DEF TypeOK

(* A set grows by one element at most, if by any.                            *)
LEMMA OneMore ==
    ASSUME NEW S, IsFiniteSet(S), NEW x, NEW T, T \subseteq S \cup {x}
    PROVE  /\ IsFiniteSet(T) /\ Cardinality(T) \in Nat /\ Cardinality(S) \in Nat
           /\ Cardinality(T) =< Cardinality(S) + 1
           /\ T \subseteq S => Cardinality(T) =< Cardinality(S)
<1>1. IsFiniteSet(S \cup {x}) /\ Cardinality(S \cup {x}) =< Cardinality(S) + 1
      /\ Cardinality(S) \in Nat
  BY FS_AddElement, FS_CardinalityType
<1>2. IsFiniteSet(T) /\ Cardinality(T) =< Cardinality(S \cup {x})
  BY <1>1, FS_Subset
<1>3. Cardinality(T) \in Nat /\ Cardinality(S \cup {x}) \in Nat
  BY <1>1, <1>2, FS_CardinalityType
<1>4. T \subseteq S => Cardinality(T) =< Cardinality(S)
  BY FS_Subset
<1> QED
  BY <1>1, <1>2, <1>3, <1>4

LEMMA CountedFinite ==
    ASSUME TypeOK
    PROVE  /\ IsFiniteSet(Counted) /\ Cardinality(Counted) \in Nat
           /\ credited \cap Usages \subseteq Counted
<1>1. Counted \subseteq Usages
  BY DEF Counted
<1> QED
  BY <1>1, ConstantsAssumption, FS_Subset, FS_CardinalityType DEF Counted

-----------------------------------------------------------------------------
(* What lasts, whatever overlaps.                                            *)

\* No row goes away, and nothing credited or rewarded is taken back.
Grows ==
    /\ \A i \in Claims : claim[i].status # "ABSENT"
         => claim'[i].status # "ABSENT" /\ claim'[i].user = claim[i].user
    /\ \A i \in Usages : usage[i].status # "ABSENT" => usage'[i].status # "ABSENT"
    /\ credited \subseteq credited'
    /\ rewarded \subseteq rewarded'

LEMMA CallTo ==
    ASSUME Lasting, NEW c \in Calls, NEW x \in Call,
           call' = [call EXCEPT ![c] = x], Grows,
           Past(x, claim', usage', credited', rewarded')
    PROVE  call' \in [Calls -> Call] /\ Knows'
<1>1. call \in [Calls -> Call]
  BY DEF Lasting, TypeOK
<1>2. ASSUME NEW d \in Calls
      PROVE  Past(call'[d], claim', usage', credited', rewarded')
  <2>1. CASE d = c
    BY <1>1, <2>1
  <2>2. CASE d # c
    <3>1. call'[d] = call[d] /\ call[d] \in Call
          /\ Past(call[d], claim, usage, credited, rewarded)
      BY <1>1, <2>2 DEF Lasting, Knows
    <3> QED
      BY <3>1, CallShapes DEF Past, Grows
  <2> QED
    BY <2>1, <2>2
<1> QED
  BY <1>1, <1>2 DEF Knows

LEMMA BeginLasts ==
    ASSUME Lasting, NEW c \in Calls, NEW x \in Call, Begin(c, x),
           Past(x, claim, usage, credited, rewarded)
    PROVE  Lasting'
<1>1. Grows
  BY DEF Begin, rows, Grows
<1>2. call' \in [Calls -> Call] /\ Knows'
  BY <1>1, CallTo DEF Begin, rows
<1> QED
  BY <1>2 DEF Lasting, TypeOK, PaidMeansCredited, Begin, Request, rows

LEMMA BeginsLast ==
    ASSUME Lasting, NEW c \in Calls
    PROVE  /\ \A u \in Users : ClaimBegin(c, u) => Lasting'
           /\ \A e \in Emails : ApplyBegin(c, e) => Lasting'
           /\ \A b \in Budgets : EditBegin(c, b) => Lasting'
<1>1. ASSUME NEW u \in Users, ClaimBegin(c, u) PROVE Lasting'
  <2> DEFINE x == [op |-> "claim", user |-> u]
  <2>1. x \in Call /\ Past(x, claim, usage, credited, rewarded) /\ Begin(c, x)
    BY <1>1 DEF ClaimBegin, Call, Past
  <2> QED
    BY <2>1, BeginLasts
<1>2. ASSUME NEW e \in Emails, ApplyBegin(c, e) PROVE Lasting'
  <2> DEFINE x == [op |-> "apply", email |-> e]
  <2>1. x \in Call /\ Past(x, claim, usage, credited, rewarded) /\ Begin(c, x)
    BY <1>2 DEF ApplyBegin, Call, Past
  <2> QED
    BY <2>1, BeginLasts
<1>3. ASSUME NEW b \in Budgets, EditBegin(c, b) PROVE Lasting'
  <2> DEFINE x == [op |-> "edit", budget |-> b,
                   remaining |-> campaign.remaining + b - campaign.budget]
  <2>1. x.remaining \in Int
    BY Amounts DEF Lasting
  <2>2. x \in Call /\ Past(x, claim, usage, credited, rewarded) /\ Begin(c, x)
    BY <1>3, <2>1 DEF EditBegin, Call, Past
  <2> QED
    BY <2>2, BeginLasts
<1> QED
  BY <1>1, <1>2, <1>3

(* A request that goes on to x and changes neither claims nor usages, nor    *)
(* takes anything back.                                                      *)
LEMMA ThenLasts ==
    ASSUME Lasting, NEW c \in Calls, NEW x \in Call, Then(c, x),
           campaign' \in [status: CampaignStatuses, budget: Budgets, remaining: Int,
                          spent: Nat, claims: Nat],
           code' \in [active: BOOLEAN, used: Nat],
           claim' \in [Claims -> ClaimRow], usage' \in [Usages -> UsageRow],
           rewarded' \subseteq Usages, credited' \subseteq Users \cup Usages,
           Grows, PaidMeansCredited',
           Past(x, claim', usage', credited', rewarded')
    PROVE  Lasting'
<1>1. call' \in [Calls -> Call] /\ Knows'
  BY CallTo DEF Then
<1> QED
  BY <1>1 DEF Lasting, TypeOK, Then, history

LEMMA ClaimRows ==
    ASSUME NEW row \in ClaimRow, row.status # "ABSENT",
           NEW s \in {"APPROVED", "PAID", "FAILED"}
    PROVE  LET new == [row EXCEPT !.status = s]
           IN  new \in ClaimRow /\ new.status = s /\ new.user = row.user
               /\ row.user \in Users
  BY DEF ClaimRow

LEMMA UsageRows ==
    ASSUME NEW row \in UsageRow, row.status # "ABSENT"
    PROVE  LET new == [row EXCEPT !.status = "REWARDED"]
           IN  new \in UsageRow /\ new.status = "REWARDED"
  BY DEF UsageRow

LEMMA ClaimLasts ==
    ASSUME Lasting, NEW c \in Calls,
           \/ \E i \in Claims : ClaimInsert(c, i)
           \/ ClaimCredit(c) \/ ClaimPay(c) \/ ClaimCount(c) \/ ClaimFail(c)
    PROVE  Lasting'
<1> USE DEF Lasting
<1>1. /\ call \in [Calls -> Call] /\ call[c] \in Call
      /\ Past(call[c], claim, usage, credited, rewarded)
      /\ claim \in [Claims -> ClaimRow]
  BY DEF TypeOK, Knows
<1>2. ASSUME NEW i \in Claims, ClaimInsert(c, i) PROVE Lasting'
  <2> DEFINE row == [status |-> "APPROVED", user |-> call[c].user]
             x == [op |-> "creditClaim", id |-> i]
  <2>1. row \in ClaimRow /\ row.status = "APPROVED" /\ claim' = [claim EXCEPT ![i] = row]
    BY <1>1, <1>2, CallShapes DEF ClaimInsert, ClaimRow
  <2> HIDE DEF row
  <2>2. claim' \in [Claims -> ClaimRow] /\ claim'[i].status = "APPROVED"
        /\ \A j \in Claims \ {i} : claim'[j] = claim[j]
    BY <1>1, <2>1
  <2>3. Grows /\ PaidMeansCredited'
    BY <1>2, <2>2 DEF ClaimInsert, Grows, PaidMeansCredited
  <2>4. x \in Call /\ Past(x, claim', usage', credited', rewarded')
    BY <2>2 DEF Call, Past
  <2> QED
    BY <1>2, <2>2, <2>3, <2>4, ThenLasts DEF ClaimInsert, TypeOK
<1>3. CASE ClaimCredit(c)
  <2> DEFINE x == [op |-> "payClaim", id |-> call[c].id]
  <2>1. call[c].id \in Claims /\ claim[call[c].id].status # "ABSENT"
    BY <1>1, <1>3, CallShapes DEF ClaimCredit, Past
  <2>2. claim[call[c].id].user \in Users
    BY <1>1, <2>1 DEF ClaimRow
  <2>3. x \in Call /\ Past(x, claim', usage', credited', rewarded')
    BY <1>3, <2>1 DEF ClaimCredit, Call, Past
  <2>4. Grows /\ PaidMeansCredited'
    BY <1>3 DEF ClaimCredit, Grows, PaidMeansCredited
  <2> QED
    BY <1>3, <2>2, <2>3, <2>4, ThenLasts DEF ClaimCredit, TypeOK
<1>4. CASE ClaimPay(c)
  <2> DEFINE i == call[c].id  x == [op |-> "countClaim", id |-> call[c].id]
  <2>1. i \in Claims /\ claim[i].status # "ABSENT" /\ claim[i].user \in credited
    BY <1>1, <1>4, CallShapes DEF ClaimPay, Past
  <2>2. claim' = [claim EXCEPT ![i] = [claim[i] EXCEPT !.status = "PAID"]]
    BY <1>4 DEF ClaimPay
  <2>3. /\ claim' \in [Claims -> ClaimRow]
        /\ claim'[i].status = "PAID" /\ claim'[i].user = claim[i].user
        /\ \A j \in Claims \ {i} : claim'[j] = claim[j]
    BY <1>1, <2>1, <2>2, ClaimRows
  <2>4. Grows /\ PaidMeansCredited'
    BY <1>4, <2>1, <2>3 DEF ClaimPay, Grows, PaidMeansCredited
  <2>5. x \in Call /\ Past(x, claim', usage', credited', rewarded')
    BY <1>4, <2>1, <2>3 DEF ClaimPay, Call, Past
  <2> QED
    BY <1>4, <2>3, <2>4, <2>5, ThenLasts DEF ClaimPay, TypeOK
<1>5. CASE ClaimCount(c)
  <2>1. /\ campaign.claims + 1 \in Nat /\ campaign.spent + Reward \in Nat
        /\ campaign.remaining - Reward \in Int
    BY Amounts
  <2>3. campaign' \in [status: CampaignStatuses, budget: Budgets, remaining: Int,
                       spent: Nat, claims: Nat]
    BY <1>5, <2>1 DEF ClaimCount, TypeOK
  <2>2. Grows /\ PaidMeansCredited'
    BY <1>5 DEF ClaimCount, Grows, PaidMeansCredited
  <2> QED
    BY <1>5, <2>2, <2>3, IdleFacts, ThenLasts DEF ClaimCount, TypeOK
<1>6. CASE ClaimFail(c)
  <2> DEFINE i == call[c].id
  <2>1. i \in Claims /\ claim[i].status # "ABSENT"
    BY <1>1, <1>6, CallShapes DEF ClaimFail, Past
  <2>2. claim' = [claim EXCEPT ![i] = [claim[i] EXCEPT !.status = "FAILED"]]
    BY <1>6 DEF ClaimFail
  <2>3. /\ claim' \in [Claims -> ClaimRow]
        /\ claim'[i].status = "FAILED" /\ claim'[i].user = claim[i].user
        /\ \A j \in Claims \ {i} : claim'[j] = claim[j]
    BY <1>1, <2>1, <2>2, ClaimRows
  <2>4. Grows /\ PaidMeansCredited'
    BY <1>6, <2>1, <2>3 DEF ClaimFail, Grows, PaidMeansCredited
  <2> QED
    BY <1>6, <2>3, <2>4, IdleFacts, ThenLasts DEF ClaimFail, TypeOK
<1> QED
  BY <1>2, <1>3, <1>4, <1>5, <1>6

LEMMA UsageLasts ==
    ASSUME Lasting, NEW c \in Calls,
           \/ \E i \in Usages : UsageInsert(c, i)
           \/ UsageCount(c) \/ UsageCredit(c) \/ RewardRecord(c) \/ UsageReward(c)
    PROVE  Lasting'
<1> USE DEF Lasting
<1>1. /\ call \in [Calls -> Call] /\ call[c] \in Call
      /\ Past(call[c], claim, usage, credited, rewarded)
      /\ usage \in [Usages -> UsageRow]
  BY DEF TypeOK, Knows
<1>2. ASSUME NEW i \in Usages, UsageInsert(c, i) PROVE Lasting'
  <2> DEFINE row == [status |-> "COMPLETED", email |-> call[c].email]
             x == [op |-> "countUsage", id |-> i]
  <2>1. row \in UsageRow /\ row.status = "COMPLETED" /\ usage' = [usage EXCEPT ![i] = row]
    BY <1>1, <1>2, CallShapes DEF UsageInsert, UsageRow
  <2> HIDE DEF row
  <2>2. usage' \in [Usages -> UsageRow] /\ usage'[i].status = "COMPLETED"
        /\ \A j \in Usages \ {i} : usage'[j] = usage[j]
    BY <1>1, <2>1
  <2>3. Grows /\ PaidMeansCredited'
    BY <1>2, <2>2 DEF UsageInsert, Grows, PaidMeansCredited
  <2>4. x \in Call /\ Past(x, claim', usage', credited', rewarded')
    BY <2>2 DEF Call, Past
  <2> QED
    BY <1>2, <2>2, <2>3, <2>4, ThenLasts DEF UsageInsert, TypeOK
<1>3. CASE UsageCount(c)
  <2> DEFINE x == [op |-> "creditUsage", id |-> call[c].id]
  <2>1. x \in Call /\ Past(x, claim', usage', credited', rewarded')
    BY <1>1, <1>3, CallShapes DEF UsageCount, Call, Past
  <2>2. Grows /\ PaidMeansCredited' /\ code' \in [active: BOOLEAN, used: Nat]
    BY <1>3 DEF UsageCount, Grows, PaidMeansCredited, TypeOK
  <2> QED
    BY <1>3, <2>1, <2>2, ThenLasts DEF UsageCount, TypeOK
<1>4. CASE UsageCredit(c)
  <2> DEFINE x == [op |-> "recordReward", id |-> call[c].id]
  <2>1. call[c].id \in Usages
    BY <1>1, <1>4, CallShapes DEF UsageCredit
  <2>2. Grows /\ PaidMeansCredited'
    BY <1>4 DEF UsageCredit, Grows, PaidMeansCredited
  <2>3. CASE call[c].id \in rewarded
    <3>1. Then(c, Idle) /\ credited' = credited
      BY <1>4, <2>3 DEF UsageCredit
    <3> QED
      BY <1>4, <2>2, <3>1, IdleFacts, ThenLasts DEF UsageCredit, TypeOK
  <2>4. CASE call[c].id \notin rewarded
    <3>1. Then(c, x) /\ credited' = credited \cup {call[c].id}
      BY <1>4, <2>4 DEF UsageCredit
    <3>2. x \in Call /\ Past(x, claim', usage', credited', rewarded')
      BY <1>1, <1>4, <2>1, <3>1 DEF UsageCredit, Call, Past
    <3> QED
      BY <1>4, <2>1, <2>2, <3>1, <3>2, ThenLasts DEF UsageCredit, TypeOK
  <2> QED
    BY <2>3, <2>4
<1>5. CASE RewardRecord(c)
  <2> DEFINE x == [op |-> "markRewarded", id |-> call[c].id]
  <2>1. call[c].id \in Usages /\ call[c].id \in credited
    BY <1>1, <1>5, CallShapes DEF RewardRecord, Past
  <2>2. x \in Call /\ Past(x, claim', usage', credited', rewarded')
    BY <1>1, <1>5, <2>1 DEF RewardRecord, Call, Past
  <2>3. Grows /\ PaidMeansCredited'
    BY <1>5, <2>1 DEF RewardRecord, Grows, PaidMeansCredited
  <2> QED
    BY <1>5, <2>1, <2>2, <2>3, ThenLasts DEF RewardRecord, TypeOK
<1>6. CASE UsageReward(c)
  <2> DEFINE i == call[c].id
  <2>1. i \in Usages /\ usage[i].status # "ABSENT" /\ i \in rewarded
    BY <1>1, <1>6, CallShapes DEF UsageReward, Past
  <2>2. usage' = [usage EXCEPT ![i] = [usage[i] EXCEPT !.status = "REWARDED"]]
    BY <1>6 DEF UsageReward
  <2>3. /\ usage' \in [Usages -> UsageRow] /\ usage'[i].status = "REWARDED"
        /\ \A j \in Usages \ {i} : usage'[j] = usage[j]
    BY <1>1, <2>1, <2>2, UsageRows
  <2>4. Grows /\ PaidMeansCredited'
    BY <1>6, <2>1, <2>3 DEF UsageReward, Grows, PaidMeansCredited
  <2> QED
    BY <1>6, <2>3, <2>4, IdleFacts, ThenLasts DEF UsageReward, TypeOK
<1> QED
  BY <1>2, <1>3, <1>4, <1>5, <1>6

(* Edits, the campaign's moves, the code's end, errors and deaths.           *)
LEMMA OthersLast ==
    ASSUME Lasting
    PROVE  /\ \A c \in Calls : EditCommit(c) => Lasting'
           /\ \A c \in Calls : ClaimError(c) \/ Fail(c) => Lasting'
           /\ \A op \in DOMAIN CampaignMoves : CampaignMove(op) => Lasting'
           /\ \A to \in CampaignStatuses : EditStatus(to) => Lasting'
           /\ CodeExpires => Lasting'
<1> USE DEF Lasting
<1>1. ASSUME NEW c \in Calls, EditCommit(c) PROVE Lasting'
  <2>1. call[c].budget \in Budgets /\ call[c].remaining \in Int
    BY <1>1, CallShapes DEF EditCommit, TypeOK
  <2>2. campaign' \in [status: CampaignStatuses, budget: Budgets, remaining: Int,
                       spent: Nat, claims: Nat]
    BY <1>1, <2>1 DEF EditCommit, TypeOK
  <2>3. Grows /\ PaidMeansCredited'
    BY <1>1 DEF EditCommit, Grows, PaidMeansCredited
  <2> QED
    BY <1>1, <2>2, <2>3, IdleFacts, ThenLasts DEF EditCommit, TypeOK
<1>2. ASSUME NEW c \in Calls, ClaimError(c) \/ Fail(c) PROVE Lasting'
  <2>1. call[c] \in Call /\ Past(call[c], claim, usage, credited, rewarded)
    BY DEF TypeOK, Knows
  <2>2. \/ /\ call' = [call EXCEPT ![c] = [op |-> "failClaim", id |-> call[c].id]]
           /\ call[c].op \in {"creditClaim", "payClaim", "countClaim"}
        \/ call' = [call EXCEPT ![c] = Idle]
    BY <1>2 DEF ClaimError, Fail
  <2>3. Grows /\ UNCHANGED rows
    BY <1>2 DEF ClaimError, Fail, rows, Grows
  <2>4. call' \in [Calls -> Call] /\ Knows'
    <3> DEFINE y == [op |-> "failClaim", id |-> call[c].id]
    <3>1. CASE call[c].op \in {"creditClaim", "payClaim", "countClaim"}
               /\ call' = [call EXCEPT ![c] = y]
      <4>1. y \in Call /\ Past(y, claim', usage', credited', rewarded')
        BY <2>1, <2>3, <3>1, CallShapes DEF Call, Past, rows
      <4> QED
        BY <2>3, <3>1, <4>1, CallTo
    <3>2. CASE call' = [call EXCEPT ![c] = Idle]
      BY <2>3, <3>2, IdleFacts, CallTo
    <3> QED
      BY <2>2, <3>1, <3>2
  <2> QED
    BY <1>2, <2>3, <2>4 DEF ClaimError, Fail, rows, TypeOK, PaidMeansCredited
<1>3. ASSUME NEW op \in DOMAIN CampaignMoves, CampaignMove(op) PROVE Lasting'
  <2>1. CampaignMoves[op].to \in CampaignStatuses
    BY DEF CampaignMoves, CampaignStatuses
  <2> QED
    BY <1>3, <2>1 DEF CampaignMove, Request, TypeOK, PaidMeansCredited, Knows
<1>4. ASSUME NEW to \in CampaignStatuses, EditStatus(to) PROVE Lasting'
  BY <1>4 DEF EditStatus, Request, TypeOK, PaidMeansCredited, Knows
<1>5. ASSUME CodeExpires PROVE Lasting'
  BY <1>5 DEF CodeExpires, history, TypeOK, PaidMeansCredited, Knows
<1> QED
  BY <1>1, <1>2, <1>3, <1>4, <1>5

LEMMA LastingStep ==
    ASSUME Lasting, [Next]_vars
    PROVE  Lasting'
<1>1. CASE UNCHANGED vars
  BY <1>1 DEF vars, rows, history, Lasting, TypeOK, PaidMeansCredited, Knows
<1>2. ASSUME NEW c \in Calls, ServeClaim(c) PROVE Lasting'
  BY <1>2, BeginsLast, ClaimLasts, OthersLast DEF ServeClaim
<1>3. ASSUME NEW c \in Calls, ServeReferral(c) PROVE Lasting'
  BY <1>3, BeginsLast, UsageLasts DEF ServeReferral
<1>4. ASSUME NEW c \in Calls, ServeEdit(c) \/ Fail(c) PROVE Lasting'
  BY <1>4, BeginsLast, OthersLast DEF ServeEdit
<1> QED
  BY <1>1, <1>2, <1>3, <1>4, OthersLast DEF Next

-----------------------------------------------------------------------------
(* The counters: what is credited or about to be was counted, and what was   *)
(* spent is what the counted claims cost.                                    *)
Counters ==
    /\ IsFiniteSet(credited)
    /\ Cardinality(Counted) =< code.used
    /\ campaign.spent = Reward * campaign.claims

LEMMA NoMoreCounted ==
    ASSUME \A d \in Calls : call'[d].op = "creditUsage" => call'[d] = call[d],
           credited' \cap Usages \subseteq credited
    PROVE  Counted' \subseteq Counted
  BY DEF Counted

LEMMA SameCounters ==
    ASSUME Lasting, Counters, Counted' \subseteq Counted, credited' = credited,
           code'.used = code.used,
           campaign'.spent = campaign.spent, campaign'.claims = campaign.claims
    PROVE  Counters'
<1>1. IsFiniteSet(Counted) /\ Cardinality(Counted) \in Nat
  BY CountedFinite DEF Lasting
<1>2. Cardinality(Counted') \in Nat /\ Cardinality(Counted') =< Cardinality(Counted)
  BY <1>1, FS_Subset, FS_CardinalityType
<1>3. code.used \in Nat
  BY Amounts DEF Lasting
<1> QED
  BY <1>1, <1>2, <1>3 DEF Counters

LEMMA CreditCounters ==
    ASSUME Lasting, Counters, NEW c \in Calls
    PROVE  /\ ClaimCredit(c) => Counters'
           /\ UsageCredit(c) => Counters'
<1> USE DEF Lasting, Counters
<1>1. /\ call[c] \in Call /\ claim \in [Claims -> ClaimRow]
      /\ Past(call[c], claim, usage, credited, rewarded)
      /\ code.used \in Nat
  BY Amounts DEF TypeOK, Knows
<1>2. IsFiniteSet(Counted) /\ Cardinality(Counted) \in Nat
  BY CountedFinite
<1>3. ASSUME NEW k, credited' \subseteq credited \cup {k}, Counted' \subseteq Counted,
             UNCHANGED <<code, campaign>>
      PROVE  Counters'
  <2>1. IsFiniteSet(credited')
    BY <1>3, OneMore
  <2>2. Cardinality(Counted') \in Nat /\ Cardinality(Counted') =< Cardinality(Counted)
    BY <1>2, <1>3, FS_Subset, FS_CardinalityType
  <2> QED
    BY <1>1, <1>2, <1>3, <2>1, <2>2
<1>4. ASSUME ClaimCredit(c) PROVE Counters'
  <2> DEFINE u == claim[call[c].id].user
  <2>1. u \in Users
    <3>1. call[c].id \in Claims /\ claim[call[c].id].status # "ABSENT"
      BY <1>1, <1>4, CallShapes DEF ClaimCredit, Past
    <3> QED
      BY <1>1, <3>1 DEF ClaimRow
  <2>2. credited' = credited \cup {u} /\ u \notin Usages
    BY <1>4, <2>1, ConstantsAssumption DEF ClaimCredit
  <2>3. Counted' \subseteq Counted
    BY <1>4, <2>2, NoMoreCounted DEF ClaimCredit, Then, TypeOK
  <2> QED
    BY <1>3, <1>4, <2>2, <2>3 DEF ClaimCredit
<1>5. ASSUME UsageCredit(c) PROVE Counters'
  <2>1. call[c].id \in Usages /\ call[c].id \in Counted
    BY <1>1, <1>5, CallShapes DEF UsageCredit, Counted
  <2>2. credited' \subseteq credited \cup {call[c].id}
    BY <1>5 DEF UsageCredit
  <2>3. \A d \in Calls : call'[d].op = "creditUsage" => call'[d] = call[d]
    BY <1>5, IdleFacts DEF UsageCredit, Then, TypeOK
  <2>4. Counted' \subseteq Counted
    BY <2>1, <2>2, <2>3 DEF Counted
  <2> QED
    BY <1>3, <1>5, <2>2, <2>4 DEF UsageCredit
<1> QED
  BY <1>4, <1>5

LEMMA CountCounters ==
    ASSUME Lasting, Counters, NEW c \in Calls
    PROVE  /\ ClaimCount(c) => Counters'
           /\ UsageCount(c) => Counters'
<1> USE DEF Lasting, Counters
<1>1. /\ campaign.claims \in Nat /\ campaign.spent \in Nat /\ Reward \in Nat
      /\ code.used \in Nat
  BY Amounts
<1>2. IsFiniteSet(Counted) /\ Cardinality(Counted) \in Nat
  BY CountedFinite
<1>3. ASSUME ClaimCount(c) PROVE Counters'
  <2>1. Counted' \subseteq Counted
    BY <1>3, IdleFacts, NoMoreCounted DEF ClaimCount, Then, TypeOK
  <2>2. Cardinality(Counted') \in Nat /\ Cardinality(Counted') =< Cardinality(Counted)
    BY <1>2, <2>1, FS_Subset, FS_CardinalityType
  <2>3. campaign'.spent = campaign.spent + Reward /\ campaign'.claims = campaign.claims + 1
        /\ UNCHANGED <<code, credited>>
    BY <1>3 DEF ClaimCount, TypeOK
  <2>4. Reward * (campaign.claims + 1) = Reward * campaign.claims + Reward
    BY <1>1
  <2> QED
    BY <1>1, <1>2, <2>2, <2>3, <2>4
<1>4. ASSUME UsageCount(c) PROVE Counters'
  <2> DEFINE k == call[c].id  x == [op |-> "creditUsage", id |-> k]
  <2>1. call' = [call EXCEPT ![c] = x] /\ UNCHANGED <<credited, campaign>>
    BY <1>4 DEF UsageCount, Then
  <2>2. \A d \in Calls : call'[d].op = "creditUsage" => call'[d] = call[d] \/ call'[d].id = k
    BY <2>1 DEF TypeOK
  <2>3. Counted' \subseteq Counted \cup {k}
    BY <2>1, <2>2 DEF Counted
  <2>4. Cardinality(Counted') \in Nat /\ Cardinality(Counted') =< Cardinality(Counted) + 1
    BY <1>2, <2>3, OneMore
  <2>5. code'.used = code.used + 1
    BY <1>4 DEF UsageCount, TypeOK
  <2> QED
    BY <1>1, <1>2, <2>1, <2>4, <2>5
<1> QED
  BY <1>3, <1>4

LEMMA CountersStep ==
    ASSUME Lasting, Counters, [Next]_vars
    PROVE  Counters'
<1> USE IdleFacts DEF Lasting, TypeOK
<1>1. ASSUME UNCHANGED call, credited' = credited, code'.used = code.used,
             campaign'.spent = campaign.spent, campaign'.claims = campaign.claims
      PROVE  Counters'
  BY <1>1, SameCounters DEF Counted
<1>2. ASSUME \A d \in Calls : call'[d].op = "creditUsage" => call'[d] = call[d],
             credited' = credited, code'.used = code.used,
             campaign'.spent = campaign.spent, campaign'.claims = campaign.claims
      PROVE  Counters'
  BY <1>2, NoMoreCounted, SameCounters
<1>3. CASE UNCHANGED vars
  BY <1>1, <1>3 DEF vars, rows
<1>4. ASSUME NEW c \in Calls, ServeClaim(c) PROVE Counters'
  <2>1. ASSUME NEW u \in Users, ClaimBegin(c, u) PROVE Counters'
    BY <1>2, <2>1 DEF ClaimBegin, Begin, rows
  <2>2. ASSUME NEW i \in Claims, ClaimInsert(c, i) PROVE Counters'
    BY <1>2, <2>2 DEF ClaimInsert, Then
  <2>3. CASE ClaimPay(c)
    BY <1>2, <2>3 DEF ClaimPay, Then
  <2>4. CASE ClaimError(c)
    BY <1>2, <2>4 DEF ClaimError, rows
  <2>5. CASE ClaimFail(c)
    BY <1>2, <2>5 DEF ClaimFail, Then
  <2> QED
    BY <1>4, <2>1, <2>2, <2>3, <2>4, <2>5, CreditCounters, CountCounters DEF ServeClaim
<1>5. ASSUME NEW c \in Calls, ServeReferral(c) PROVE Counters'
  <2>1. ASSUME NEW e \in Emails, ApplyBegin(c, e) PROVE Counters'
    BY <1>2, <2>1 DEF ApplyBegin, Begin, rows
  <2>2. ASSUME NEW i \in Usages, UsageInsert(c, i) PROVE Counters'
    BY <1>2, <2>2 DEF UsageInsert, Then
  <2>3. CASE RewardRecord(c)
    BY <1>2, <2>3 DEF RewardRecord, Then
  <2>4. CASE UsageReward(c)
    BY <1>2, <2>4 DEF UsageReward, Then
  <2> QED
    BY <1>5, <2>1, <2>2, <2>3, <2>4, CreditCounters, CountCounters DEF ServeReferral
<1>6. ASSUME NEW c \in Calls, ServeEdit(c) \/ Fail(c) PROVE Counters'
  <2>1. ASSUME NEW b \in Budgets, EditBegin(c, b) PROVE Counters'
    BY <1>2, <2>1 DEF EditBegin, Begin, rows
  <2>2. CASE EditCommit(c)
    <3>1. campaign'.spent = campaign.spent /\ campaign'.claims = campaign.claims
      BY <2>2 DEF EditCommit, Lasting, TypeOK
    <3> QED
      BY <1>2, <2>2, <3>1 DEF EditCommit, Then
  <2>3. CASE Fail(c)
    BY <1>2, <2>3 DEF Fail, rows
  <2> QED
    BY <1>6, <2>1, <2>2, <2>3 DEF ServeEdit
<1>7. ASSUME NEW s, campaign' = [campaign EXCEPT !.status = s],
             UNCHANGED <<credited, code, call>>
      PROVE  Counters'
  <2>1. campaign'.spent = campaign.spent /\ campaign'.claims = campaign.claims
    BY <1>7 DEF Lasting, TypeOK
  <2> QED
    BY <1>1, <1>7, <2>1
<1>8. ASSUME CodeExpires PROVE Counters'
  <2>1. code'.used = code.used
    BY <1>8 DEF CodeExpires, Lasting, TypeOK
  <2> QED
    BY <1>1, <1>8, <2>1 DEF CodeExpires
<1> QED
  BY <1>3, <1>4, <1>5, <1>6, <1>7, <1>8 DEF Next, CampaignMove, EditStatus

-----------------------------------------------------------------------------
(* As long as nothing overlapped.                                            *)

(* A request is only ever made between two others.                           *)
LEMMA RequestAlone ==
    ASSUME Lasting, Serial, Request, ~overlapped'
    PROVE  /\ ~overlapped /\ Bounded /\ ~Pending
           /\ \A d \in Calls : call[d] = Idle
  BY IdleFacts DEF Lasting, TypeOK, Serial, Request, Pending, Uncounted

LEMMA SameBounds ==
    ASSUME Bounded, UNCHANGED <<campaign, claim, code>>,
           credited' \cap Users = credited \cap Users,
           interrupted' \/ (UNCHANGED interrupted /\ (Pending => Pending'))
    PROVE  Bounded'
  BY DEF Bounded, ClaimsBounded, UsesBounded, OpenBounded, CreditsBounded

LEMMA BeginSerial ==
    ASSUME Lasting, Serial, NEW c \in Calls, NEW x, Begin(c, x),
           x.op \in {"claim", "apply", "edit"},
           ~overlapped /\ Bounded => Present(x, campaign, claim, code)
    PROVE  Serial'
<1> SUFFICES ASSUME ~overlapped' PROVE Alone' /\ ReadsPresent' /\ Bounded'
  BY DEF Serial
<1>1. ~overlapped /\ Bounded /\ ~Pending /\ \A d \in Calls : call[d] = Idle
  BY RequestAlone DEF Begin
<1>2. call'[c] = x /\ \A d \in Calls \ {c} : call'[d] = Idle
  BY <1>1 DEF Begin, Lasting, TypeOK
<1>3. UNCHANGED rows /\ UNCHANGED interrupted
  BY DEF Begin, Request
<1>4. Alone'
  BY <1>2 DEF Alone
<1>5. ReadsPresent'
  BY <1>1, <1>2, <1>3, IdleFacts DEF ReadsPresent, rows
<1>6. Bounded'
  BY <1>1, <1>3, SameBounds DEF rows
<1> QED
  BY <1>4, <1>5, <1>6

LEMMA BeginsSerial ==
    ASSUME Lasting, Serial, NEW c \in Calls
    PROVE  /\ \A u \in Users : ClaimBegin(c, u) => Serial'
           /\ \A e \in Emails : ApplyBegin(c, e) => Serial'
           /\ \A b \in Budgets : EditBegin(c, b) => Serial'
<1>1. ASSUME NEW u \in Users, ClaimBegin(c, u) PROVE Serial'
  <2> DEFINE x == [op |-> "claim", user |-> u]
  <2>1. x.op = "claim" /\ Present(x, campaign, claim, code) /\ Begin(c, x)
    BY <1>1 DEF ClaimBegin, Present, BudgetLeft, UserMayClaim, OpenClaims, OpenOf
  <2> QED
    BY <2>1, BeginSerial
<1>2. ASSUME NEW e \in Emails, ApplyBegin(c, e) PROVE Serial'
  <2> DEFINE x == [op |-> "apply", email |-> e]
  <2>1. x.op = "apply" /\ Present(x, campaign, claim, code) /\ Begin(c, x)
    BY <1>2 DEF ApplyBegin, Present
  <2> QED
    BY <2>1, BeginSerial
<1>3. ASSUME NEW b \in Budgets, EditBegin(c, b) PROVE Serial'
  <2> DEFINE x == [op |-> "edit", budget |-> b,
                   remaining |-> campaign.remaining + b - campaign.budget]
  <2>1. x.op = "edit" /\ Begin(c, x)
    BY <1>3 DEF EditBegin
  <2>2. campaign.remaining = campaign.budget - campaign.spent
        => campaign.remaining + b - campaign.budget = b - campaign.spent
    BY Amounts DEF Lasting
  <2>3. Bounded => Present(x, campaign, claim, code)
    BY <2>2 DEF Bounded, ClaimsBounded, Present
  <2> QED
    BY <2>1, <2>3, BeginSerial
<1> QED
  BY <1>1, <1>2, <1>3

(* The one request under way goes on to x.                                   *)
LEMMA ThenSerial ==
    ASSUME Lasting, Serial, NEW c \in Calls, NEW x, Then(c, x), call[c] # Idle,
           (/\ Present(call[c], campaign, claim, code) /\ Bounded
            /\ Pending <=> call[c].op \in Uncounted
            /\ Pending' <=> x.op \in Uncounted
            /\ UNCHANGED interrupted)
             => Present(x, campaign', claim', code') /\ Bounded'
    PROVE  Serial'
<1> SUFFICES ASSUME ~overlapped' PROVE Alone' /\ ReadsPresent' /\ Bounded'
  BY DEF Serial
<1>1. ~overlapped /\ UNCHANGED interrupted
  BY DEF Then, history
<1>2. \A d \in Calls \ {c} : call[d] = Idle
  BY <1>1 DEF Serial, Alone
<1>3. call'[c] = x /\ \A d \in Calls \ {c} : call'[d] = Idle
  BY <1>2 DEF Then, Lasting, TypeOK
<1>4. /\ Pending <=> call[c].op \in Uncounted
      /\ Pending' <=> x.op \in Uncounted
  BY <1>2, <1>3, IdleFacts DEF Pending, Uncounted
<1>5. Present(call[c], campaign, claim, code) /\ Bounded
  BY <1>1 DEF Serial, ReadsPresent
<1>6. Present(x, campaign', claim', code') /\ Bounded'
  BY <1>1, <1>4, <1>5
<1>7. Alone' /\ ReadsPresent'
  BY <1>3, <1>6, IdleFacts DEF Alone, ReadsPresent
<1> QED
  BY <1>6, <1>7

LEMMA OpenFinite ==
    ASSUME NEW clm, NEW u
    PROVE  IsFiniteSet(OpenOf(clm, u)) /\ Cardinality(OpenOf(clm, u)) \in Nat
<1>1. OpenOf(clm, u) \subseteq Claims
  BY DEF OpenOf
<1> QED
  BY <1>1, ConstantsAssumption, FS_Subset, FS_CardinalityType

(* No claim opens.                                                           *)
LEMMA FewerOpen ==
    ASSUME Lasting, OpenBounded,
           \A i \in Claims : claim'[i].status \in Open
             => claim[i].status \in Open /\ claim'[i].user = claim[i].user
    PROVE  OpenBounded'
<1> SUFFICES ASSUME PerUserLimit > 0, NEW u \in Users
             PROVE  Cardinality(OpenOf(claim', u)) =< PerUserLimit
  BY DEF OpenBounded
<1>1. OpenOf(claim', u) \subseteq OpenOf(claim, u)
  BY DEF OpenOf
<1>2. /\ Cardinality(OpenOf(claim', u)) =< Cardinality(OpenOf(claim, u))
      /\ Cardinality(OpenOf(claim', u)) \in Nat /\ Cardinality(OpenOf(claim, u)) \in Nat
  BY <1>1, OpenFinite, FS_Subset
<1> QED
  BY <1>2, Amounts DEF OpenBounded, Lasting

LEMMA ClaimInsertSerial ==
    ASSUME Lasting, Serial, NEW c \in Calls, NEW i \in Claims, ClaimInsert(c, i)
    PROVE  Serial'
<1> DEFINE x == [op |-> "creditClaim", id |-> i]
<1>1. /\ call[c] \in Call /\ call[c].op = "claim" /\ call[c] # Idle /\ call[c].user \in Users
      /\ claim \in [Claims -> ClaimRow]
  BY IdleFacts, CallShapes DEF Lasting, TypeOK, ClaimInsert
<1>2. /\ claim'[i] = [status |-> "APPROVED", user |-> call[c].user]
      /\ \A j \in Claims \ {i} : claim'[j] = claim[j]
      /\ UNCHANGED <<campaign, code, credited>>
      /\ Then(c, x)
  BY <1>1 DEF ClaimInsert
<1>3. ASSUME Present(call[c], campaign, claim, code), Bounded,
             Pending <=> call[c].op \in Uncounted, UNCHANGED interrupted
      PROVE  Present(x, campaign', claim', code') /\ Bounded'
  <2>1. Present(x, campaign', claim', code')
    BY <1>1, <1>2, <1>3 DEF Present
  <2>2. ClaimsBounded' /\ UsesBounded' /\ CreditsBounded'
    BY <1>1, <1>2, <1>3 DEF Bounded, ClaimsBounded, UsesBounded, CreditsBounded, Uncounted
  <2>3. ASSUME PerUserLimit > 0, NEW u \in Users
        PROVE  Cardinality(OpenOf(claim', u)) =< PerUserLimit
    <3>1. OpenOf(claim', u) \subseteq OpenOf(claim, u) \cup {i}
      BY <1>2 DEF OpenOf
    <3>2. u # call[c].user => OpenOf(claim', u) \subseteq OpenOf(claim, u)
      BY <1>2 DEF OpenOf
    <3>3. /\ Cardinality(OpenOf(claim, u)) =< PerUserLimit
          /\ u = call[c].user => Cardinality(OpenOf(claim, u)) < PerUserLimit
      BY <1>1, <1>3, <2>3 DEF Bounded, OpenBounded, Present
    <3>4. /\ Cardinality(OpenOf(claim', u)) \in Nat /\ Cardinality(OpenOf(claim, u)) \in Nat
          /\ Cardinality(OpenOf(claim', u)) =< Cardinality(OpenOf(claim, u)) + 1
          /\ u # call[c].user
               => Cardinality(OpenOf(claim', u)) =< Cardinality(OpenOf(claim, u))
      BY <3>1, <3>2, OpenFinite, OneMore
    <3> QED
      BY <3>3, <3>4, Amounts DEF Lasting
  <2> QED
    BY <2>1, <2>2, <2>3 DEF Bounded, OpenBounded
<1> QED
  BY <1>1, <1>2, <1>3, ThenSerial

LEMMA ClaimCreditSerial ==
    ASSUME Lasting, Counters, Serial, NEW c \in Calls, ClaimCredit(c)
    PROVE  Serial'
<1> DEFINE x == [op |-> "payClaim", id |-> call[c].id]
           k == claim[call[c].id].user
<1>1. call[c].op = "creditClaim" /\ call[c] # Idle /\ Then(c, x)
      /\ UNCHANGED <<campaign, claim, code>> /\ credited' = credited \cup {k}
  BY IdleFacts DEF ClaimCredit
<1>2. ASSUME Present(call[c], campaign, claim, code), Bounded,
             Pending <=> call[c].op \in Uncounted, Pending' <=> x.op \in Uncounted,
             UNCHANGED interrupted
      PROVE  Present(x, campaign', claim', code') /\ Bounded'
  <2>1. Present(x, campaign', claim', code')
    BY <1>1, <1>2 DEF Present
  <2>2. ClaimsBounded' /\ UsesBounded' /\ OpenBounded'
    BY <1>1, <1>2 DEF Bounded, ClaimsBounded, UsesBounded, OpenBounded
  <2>3. IsFiniteSet(credited \cap Users)
    BY FS_Subset DEF Counters
  <2>4. credited' \cap Users \subseteq (credited \cap Users) \cup {k}
    BY <1>1
  <2>5. /\ Cardinality(credited' \cap Users) \in Nat /\ Cardinality(credited \cap Users) \in Nat
        /\ Cardinality(credited' \cap Users) =< Cardinality(credited \cap Users) + 1
    BY <2>3, <2>4, OneMore
  <2>6. ~Pending /\ Pending'
    BY <1>1, <1>2 DEF Uncounted
  <2>7. CreditsBounded'
    BY <1>1, <1>2, <2>5, <2>6, Amounts DEF Bounded, CreditsBounded, Lasting
  <2> QED
    BY <2>1, <2>2, <2>7 DEF Bounded
<1> QED
  BY <1>1, <1>2, ThenSerial

LEMMA ClaimPaySerial ==
    ASSUME Lasting, Serial, NEW c \in Calls, ClaimPay(c)
    PROVE  Serial'
<1> DEFINE i == call[c].id  x == [op |-> "countClaim", id |-> call[c].id]
<1>1. /\ call[c].op = "payClaim" /\ call[c] # Idle /\ Then(c, x)
      /\ UNCHANGED <<campaign, code, credited>>
      /\ i \in Claims /\ claim[i].status # "ABSENT"
  BY IdleFacts, CallShapes DEF ClaimPay, Lasting, TypeOK, Knows, Past
<1>2. claim \in [Claims -> ClaimRow] /\ claim' = [claim EXCEPT ![i] = [claim[i] EXCEPT !.status = "PAID"]]
  BY DEF ClaimPay, Lasting, TypeOK
<1>3. /\ claim'[i].user = claim[i].user
      /\ \A j \in Claims \ {i} : claim'[j] = claim[j]
  BY <1>1, <1>2, ClaimRows
<1>4. ASSUME Present(call[c], campaign, claim, code), Bounded,
             Pending <=> call[c].op \in Uncounted, Pending' <=> x.op \in Uncounted,
             UNCHANGED interrupted
      PROVE  Present(x, campaign', claim', code') /\ Bounded'
  <2>1. Present(x, campaign', claim', code')
    BY <1>1, <1>4 DEF Present
  <2>2. claim[i].status \in Open
    BY <1>1, <1>4 DEF Present, Open
  <2>3. OpenBounded'
    BY <1>3, <1>4, <2>2, FewerOpen DEF Bounded
  <2>4. ClaimsBounded' /\ UsesBounded' /\ CreditsBounded'
    BY <1>1, <1>4 DEF Bounded, ClaimsBounded, UsesBounded, CreditsBounded, Uncounted
  <2> QED
    BY <2>1, <2>3, <2>4 DEF Bounded
<1> QED
  BY <1>1, <1>4, ThenSerial

LEMMA ClaimCountSerial ==
    ASSUME Lasting, Counters, Serial, NEW c \in Calls, ClaimCount(c)
    PROVE  Serial'
<1>1. /\ call[c].op = "countClaim" /\ call[c] # Idle /\ Then(c, Idle)
      /\ UNCHANGED <<claim, code, credited>>
  BY IdleFacts DEF ClaimCount
<1>2. /\ campaign'.budget = campaign.budget /\ campaign'.claims = campaign.claims + 1
      /\ campaign'.spent = campaign.spent + Reward
      /\ campaign'.remaining = campaign.remaining - Reward
  BY DEF ClaimCount, Lasting, TypeOK
<1>3. ASSUME Present(call[c], campaign, claim, code), Bounded,
             Pending <=> call[c].op \in Uncounted, UNCHANGED interrupted
      PROVE  Present(Idle, campaign', claim', code') /\ Bounded'
  <2>1. campaign'.remaining = campaign'.budget - campaign'.spent
    BY <1>2, <1>3, Amounts DEF Bounded, ClaimsBounded, Lasting
  <2>2. MaxClaims > 0 => campaign'.claims =< MaxClaims
    BY <1>1, <1>2, <1>3, Amounts DEF Present, Lasting
  <2>3. CreditsBounded'
    <3>1. IsFiniteSet(credited \cap Users)
      BY FS_Subset DEF Counters
    <3>2. Cardinality(credited \cap Users) \in Nat
      BY <3>1, FS_CardinalityType
    <3> QED
      BY <1>1, <1>2, <1>3, <3>2, Amounts DEF Bounded, CreditsBounded, Lasting
  <2> QED
    BY <1>1, <1>3, <2>1, <2>2, <2>3, IdleFacts
       DEF Bounded, ClaimsBounded, UsesBounded, OpenBounded
<1> QED
  BY <1>1, <1>3, ThenSerial

LEMMA ClaimFailSerial ==
    ASSUME Lasting, Serial, NEW c \in Calls, ClaimFail(c)
    PROVE  Serial'
<1> DEFINE i == call[c].id
<1>1. /\ call[c].op = "failClaim" /\ call[c] # Idle /\ Then(c, Idle)
      /\ UNCHANGED <<campaign, code, credited>>
      /\ i \in Claims /\ claim[i].status # "ABSENT"
  BY IdleFacts, CallShapes DEF ClaimFail, Lasting, TypeOK, Knows, Past
<1>2. claim \in [Claims -> ClaimRow] /\ claim' = [claim EXCEPT ![i] = [claim[i] EXCEPT !.status = "FAILED"]]
  BY DEF ClaimFail, Lasting, TypeOK
<1>3. /\ claim'[i].status = "FAILED"
      /\ \A j \in Claims \ {i} : claim'[j] = claim[j]
  BY <1>1, <1>2, ClaimRows
<1>4. ASSUME Bounded, Pending <=> call[c].op \in Uncounted, UNCHANGED interrupted
      PROVE  Present(Idle, campaign', claim', code') /\ Bounded'
  <2>1. OpenBounded'
    BY <1>3, <1>4, FewerOpen DEF Bounded, Open
  <2>2. ClaimsBounded' /\ UsesBounded' /\ CreditsBounded'
    BY <1>1, <1>4 DEF Bounded, ClaimsBounded, UsesBounded, CreditsBounded, Uncounted
  <2> QED
    BY <2>1, <2>2, IdleFacts DEF Bounded
<1> QED
  BY <1>1, <1>4, ThenSerial

LEMMA UsageSerial ==
    ASSUME Lasting, Serial, NEW c \in Calls
    PROVE  /\ \A i \in Usages : UsageInsert(c, i) => Serial'
           /\ UsageCount(c) => Serial'
           /\ UsageCredit(c) => Serial'
           /\ RewardRecord(c) => Serial'
           /\ UsageReward(c) => Serial'
<1> USE IdleFacts
<1>1. ASSUME NEW x, Then(c, x), call[c] # Idle,
             UNCHANGED <<campaign, claim, code>>,
             credited' \cap Users = credited \cap Users,
             call[c].op \notin Uncounted,
             Present(call[c], campaign, claim, code) => Present(x, campaign, claim, code)
      PROVE  Serial'
  BY <1>1, SameBounds, ThenSerial
<1>2. ASSUME NEW i \in Usages, UsageInsert(c, i) PROVE Serial'
  <2> DEFINE x == [op |-> "countUsage", id |-> i]
  <2>1. Then(c, x) /\ call[c].op = "apply" /\ UNCHANGED <<campaign, claim, code, credited>>
    BY <1>2 DEF UsageInsert
  <2>2. Present(call[c], campaign, claim, code) => Present(x, campaign, claim, code)
    BY <2>1 DEF Present
  <2> QED
    BY <1>1, <2>1, <2>2 DEF Uncounted
<1>3. ASSUME UsageCount(c) PROVE Serial'
  <2> DEFINE x == [op |-> "creditUsage", id |-> call[c].id]
  <2>1. Then(c, x) /\ call[c].op = "countUsage" /\ UNCHANGED <<campaign, claim, credited>>
        /\ code'.used = code.used + 1
    BY <1>3 DEF UsageCount, Lasting, TypeOK
  <2>2. ASSUME Present(call[c], campaign, claim, code), Bounded,
               Pending <=> call[c].op \in Uncounted, UNCHANGED interrupted
        PROVE  Present(x, campaign', claim', code') /\ Bounded'
    <3>1. UsesBounded'
      BY <2>1, <2>2, Amounts DEF Present, UsesBounded, Lasting
    <3> QED
      BY <2>1, <2>2, <3>1
         DEF Present, Bounded, ClaimsBounded, OpenBounded, CreditsBounded, Uncounted
  <2> QED
    BY <2>1, <2>2, ThenSerial
<1>4. ASSUME UsageCredit(c) PROVE Serial'
  <2> DEFINE x == [op |-> "recordReward", id |-> call[c].id]
  <2>1. call[c].op = "creditUsage" /\ UNCHANGED <<campaign, claim, code>>
        /\ (Then(c, Idle) \/ Then(c, x))
    BY <1>4 DEF UsageCredit
  <2>2. credited' \cap Users = credited \cap Users
    <3>1. call[c].id \in Usages
      BY <2>1, CallShapes DEF Lasting, TypeOK
    <3> QED
      BY <1>4, <3>1, ConstantsAssumption DEF UsageCredit
  <2>3. Present(x, campaign, claim, code)
    BY DEF Present
  <2> QED
    BY <1>1, <2>1, <2>2, <2>3 DEF Uncounted
<1>5. ASSUME RewardRecord(c) PROVE Serial'
  <2> DEFINE x == [op |-> "markRewarded", id |-> call[c].id]
  <2>1. Then(c, x) /\ call[c].op = "recordReward" /\ UNCHANGED <<campaign, claim, code, credited>>
    BY <1>5 DEF RewardRecord
  <2>2. Present(x, campaign, claim, code)
    BY DEF Present
  <2> QED
    BY <1>1, <2>1, <2>2 DEF Uncounted
<1>6. ASSUME UsageReward(c) PROVE Serial'
  BY <1>1, <1>6 DEF UsageReward, Uncounted
<1> QED
  BY <1>2, <1>3, <1>4, <1>5, <1>6

LEMMA OthersSerial ==
    ASSUME Lasting, Serial
    PROVE  /\ \A c \in Calls : EditCommit(c) => Serial'
           /\ \A c \in Calls : ClaimError(c) \/ Fail(c) => Serial'
           /\ \A op \in DOMAIN CampaignMoves : CampaignMove(op) => Serial'
           /\ \A to \in CampaignStatuses : EditStatus(to) => Serial'
           /\ CodeExpires => Serial'
<1> USE IdleFacts
<1>1. ASSUME NEW c \in Calls, EditCommit(c) PROVE Serial'
  <2>1. Then(c, Idle) /\ call[c].op = "edit" /\ UNCHANGED <<claim, code, credited>>
    BY <1>1 DEF EditCommit
  <2>2. /\ campaign'.budget = call[c].budget /\ campaign'.remaining = call[c].remaining
        /\ campaign'.spent = campaign.spent /\ campaign'.claims = campaign.claims
    BY <1>1 DEF EditCommit, Lasting, TypeOK
  <2>3. ASSUME Present(call[c], campaign, claim, code), Bounded,
               Pending <=> call[c].op \in Uncounted, UNCHANGED interrupted
        PROVE  Present(Idle, campaign', claim', code') /\ Bounded'
    BY <2>1, <2>2, <2>3
       DEF Present, Bounded, ClaimsBounded, UsesBounded, OpenBounded, CreditsBounded, Uncounted
  <2> QED
    BY <2>1, <2>3, ThenSerial
<1>2. ASSUME NEW c \in Calls, ClaimError(c) \/ Fail(c) PROVE Serial'
  <2> SUFFICES ASSUME ~overlapped' PROVE Alone' /\ ReadsPresent' /\ Bounded'
    BY DEF Serial
  <2>1. ~overlapped /\ interrupted' /\ call[c] # Idle /\ UNCHANGED rows
    BY <1>2 DEF ClaimError, Fail
  <2>2. \A d \in Calls \ {c} : call[d] = Idle /\ call'[d] = Idle
    BY <1>2, <2>1 DEF Serial, Alone, ClaimError, Fail, Lasting, TypeOK
  <2>3. Present(call'[c], campaign', claim', code')
    BY <1>2 DEF ClaimError, Fail, Present, Lasting, TypeOK
  <2>4. Bounded'
    BY <2>1, SameBounds DEF Serial, rows
  <2> QED
    BY <2>2, <2>3, <2>4 DEF Alone, ReadsPresent
<1>3. ASSUME NEW s, campaign' = [campaign EXCEPT !.status = s], Request,
             UNCHANGED <<claim, code, usage, rewarded, credited, call>>
      PROVE  Serial'
  <2> SUFFICES ASSUME ~overlapped' PROVE Alone' /\ ReadsPresent' /\ Bounded'
    BY DEF Serial
  <2>1. Bounded /\ ~Pending /\ \A d \in Calls : call[d] = Idle
    BY <1>3, RequestAlone
  <2>2. /\ campaign'.budget = campaign.budget /\ campaign'.remaining = campaign.remaining
        /\ campaign'.spent = campaign.spent /\ campaign'.claims = campaign.claims
    BY <1>3 DEF Lasting, TypeOK
  <2>3. Bounded'
    BY <1>3, <2>1, <2>2
       DEF Bounded, ClaimsBounded, UsesBounded, OpenBounded, CreditsBounded, Request
  <2> QED
    BY <1>3, <2>1, <2>3 DEF Alone, ReadsPresent
<1>4. ASSUME CodeExpires PROVE Serial'
  <2>1. code'.used = code.used
    BY <1>4 DEF CodeExpires, Lasting, TypeOK
  <2>2. UNCHANGED <<campaign, claim, credited, call, overlapped, interrupted>>
    BY <1>4 DEF CodeExpires, history
  <2> QED
    BY <2>1, <2>2 DEF Serial, Alone, ReadsPresent, Present, Bounded, ClaimsBounded,
         UsesBounded, OpenBounded, CreditsBounded, Pending
<1> QED
  BY <1>1, <1>2, <1>3, <1>4 DEF CampaignMove, EditStatus

LEMMA SerialStep ==
    ASSUME Lasting, Counters, Serial, [Next]_vars
    PROVE  Serial'
<1>1. CASE UNCHANGED vars
  BY <1>1 DEF vars, rows, history, Serial, Alone, ReadsPresent, Bounded, ClaimsBounded,
       UsesBounded, OpenBounded, CreditsBounded, Pending
<1>2. ASSUME NEW c \in Calls, ServeClaim(c) PROVE Serial'
  BY <1>2, BeginsSerial, ClaimInsertSerial, ClaimCreditSerial, ClaimPaySerial,
     ClaimCountSerial, ClaimFailSerial, OthersSerial DEF ServeClaim
<1>3. ASSUME NEW c \in Calls, ServeReferral(c) PROVE Serial'
  BY <1>3, BeginsSerial, UsageSerial DEF ServeReferral
<1>4. ASSUME NEW c \in Calls, ServeEdit(c) \/ Fail(c) PROVE Serial'
  BY <1>4, BeginsSerial, OthersSerial DEF ServeEdit
<1> QED
  BY <1>1, <1>2, <1>3, <1>4, OthersSerial DEF Next

-----------------------------------------------------------------------------
IInv == Lasting /\ Counters /\ Serial

LEMMA InitHolds == Init => IInv
<1> SUFFICES ASSUME Init PROVE IInv
  OBVIOUS
<1> USE DEF Init
<1>1. Lasting
  <2>1. /\ \A i \in Claims : claim[i].status = "ABSENT"
        /\ \A i \in Usages : usage[i].status = "ABSENT"
        /\ \A c \in Calls : call[c] = Idle
    OBVIOUS
  <2>2. campaign \in [status: CampaignStatuses, budget: Budgets, remaining: Int,
                      spent: Nat, claims: Nat]
    BY ConstantsAssumption DEF CampaignStatuses
  <2>3. claim \in [Claims -> ClaimRow] /\ usage \in [Usages -> UsageRow]
    BY DEF ClaimRow, UsageRow
  <2>4. TypeOK
    BY <2>2, <2>3, IdleFacts DEF TypeOK
  <2>5. PaidMeansCredited
    BY <2>1 DEF PaidMeansCredited
  <2>6. Knows
    BY <2>1, IdleFacts DEF Knows
  <2> QED
    BY <2>4, <2>5, <2>6 DEF Lasting
<1>2. \A c \in Calls : call[c] = Idle
  OBVIOUS
<1>3. Counters
  <2>1. Counted = {}
    BY <1>2, IdleFacts DEF Counted
  <2>2. Reward * 0 = 0
    BY ConstantsAssumption
  <2>3. campaign.spent = 0 /\ campaign.claims = 0 /\ code.used = 0 /\ credited = {}
    OBVIOUS
  <2> QED
    BY <2>1, <2>2, <2>3, FS_EmptySet DEF Counters
<1>4. Serial
  <2>1. Alone /\ ReadsPresent /\ ~Pending
    BY <1>2, IdleFacts DEF Alone, ReadsPresent, Pending, Uncounted
  <2>2. ClaimsBounded
    <3>1. campaign.remaining = campaign.budget /\ campaign.spent = 0 /\ campaign.claims = 0
      OBVIOUS
    <3> QED
      BY <1>1, <3>1, Amounts DEF ClaimsBounded, Lasting
  <2>3. UsesBounded
    BY ConstantsAssumption DEF UsesBounded
  <2>4. OpenBounded
    <3>1. \A u \in Users : OpenOf(claim, u) = {}
      BY DEF OpenOf, Open
    <3> QED
      BY <3>1, FS_EmptySet, ConstantsAssumption DEF OpenBounded
  <2>5. CreditsBounded
    <3>1. credited \cap Users = {} /\ campaign.claims = 0
      OBVIOUS
    <3> QED
      BY <3>1, FS_EmptySet DEF CreditsBounded
  <2> QED
    BY <2>1, <2>2, <2>3, <2>4, <2>5 DEF Serial, Bounded
<1> QED
  BY <1>1, <1>3, <1>4 DEF IInv

(* What a request has done lasts, the counters count it, and as long as      *)
(* nothing overlapped what a request has read holds of the rows as they are. *)
THEOREM Invariant == Spec => []IInv
<1>1. IInv /\ [Next]_vars => IInv'
  BY LastingStep, CountersStep, SerialStep DEF IInv
<1> QED
  BY InitHolds, <1>1, PTL DEF Spec

(* The type invariant of campaigns, claims, codes, usages and requests.      *)
THEOREM TypeCorrect == Spec => []TypeOK
<1>1. IInv => TypeOK
  BY DEF IInv, Lasting
<1> QED
  BY Invariant, <1>1, PTL

(* claimReward and applyReferral call nothing PAID or REWARDED that the      *)
(* wallet was not credited with, for any number of requests at once.         *)
THEOREM PaidIsCredited == Spec => []PaidMeansCredited
<1>1. IInv => PaidMeansCredited
  BY DEF IInv, Lasting
<1> QED
  BY Invariant, <1>1, PTL

(* What a campaign has spent is what its counted claims cost; one request    *)
(* after the other, what remains is the budget less that, over every edit.   *)
THEOREM CountersStayRight == Spec => []CountersAddUp
<1>1. IInv => CountersAddUp
  BY DEF IInv, Counters, Serial, Bounded, ClaimsBounded, CountersAddUp
<1> QED
  BY Invariant, <1>1, PTL

(* A use of a referral code is counted before it is rewarded; one request    *)
(* after the other, no more are rewarded than the code allows.               *)
THEOREM ReferralLimitStands == Spec => []ReferralLimitHolds
<1>1. ASSUME IInv PROVE ReferralLimitHolds
  <2>1. IsFiniteSet(Counted) /\ Cardinality(Counted) \in Nat
        /\ credited \cap Usages \subseteq Counted
    BY <1>1, CountedFinite DEF IInv, Lasting
  <2>2. /\ Cardinality(credited \cap Usages) \in Nat
        /\ Cardinality(credited \cap Usages) =< Cardinality(Counted)
    BY <2>1, FS_Subset, FS_CardinalityType
  <2>3. Cardinality(credited \cap Usages) =< code.used
    BY <1>1, <2>1, <2>2, Amounts DEF IInv, Counters, Lasting
  <2>4. ~overlapped /\ MaxUsage > 0 => code.used =< MaxUsage
    BY <1>1 DEF IInv, Serial, Bounded, UsesBounded
  <2> QED
    BY <1>1, <2>2, <2>3, <2>4, Amounts DEF ReferralLimitHolds, IInv, Lasting
<1> QED
  BY Invariant, <1>1, PTL

(* One request after the other, no user has more open claims than the        *)
(* per-user limit, whatever failed or died; if nothing did, no more users    *)
(* are credited than the campaign has claims.                                *)
THEOREM CampaignLimitsStand == Spec => []CampaignLimitsHold
<1>1. ASSUME IInv, ~overlapped PROVE Bounded /\ ReadsPresent /\ Alone
  BY <1>1 DEF IInv, Serial
<1>2. ASSUME IInv, ~overlapped, PerUserLimit > 0, NEW u \in Users
      PROVE  Cardinality(OpenClaims(u)) =< PerUserLimit
  BY <1>1, <1>2 DEF Bounded, OpenBounded, OpenOf, OpenClaims
<1>3. ASSUME IInv, ~overlapped, ~interrupted, MaxClaims > 0
      PROVE  Cardinality(credited \cap Users) =< MaxClaims
  <2> USE <1>3 DEF IInv
  <2>1. IsFiniteSet(credited \cap Users)
    BY FS_Subset DEF Counters
  <2>2. Cardinality(credited \cap Users) \in Nat
    BY <2>1, FS_CardinalityType
  <2>3. /\ campaign.claims =< MaxClaims
        /\ Cardinality(credited \cap Users) =< campaign.claims + 1
        /\ ~Pending => Cardinality(credited \cap Users) =< campaign.claims
    BY <1>1 DEF Bounded, ClaimsBounded, CreditsBounded
  <2>4. Pending => campaign.claims < MaxClaims
    BY <1>1 DEF Pending, Uncounted, ReadsPresent, Present
  <2> QED
    BY <2>2, <2>3, <2>4, Amounts DEF Lasting
<1>4. IInv => CampaignLimitsHold
  BY <1>2, <1>3 DEF CampaignLimitsHold
<1> QED
  BY Invariant, <1>4, PTL

(* One request after the other, a claim is only counted while some of the    *)
(* budget is left.                                                           *)
THEOREM BudgetStops == Spec => BudgetStopsClaims
<1>1. ASSUME IInv, [Next]_vars, ~overlapped, campaign'.spent > campaign.spent
      PROVE  campaign.budget = 0 \/ campaign.remaining > 0
  <2> USE <1>1 DEF IInv
  <2>0. campaign.spent \in Nat /\ campaign.budget \in Nat
    BY Amounts DEF Lasting
  <2>1. campaign'.spent # campaign.spent
    BY <2>0
  <2>2. ASSUME NEW c \in Calls, ServeClaim(c) PROVE ClaimCount(c)
    BY <2>1, <2>2 DEF ServeClaim, ClaimBegin, ClaimInsert, ClaimCredit, ClaimPay,
         ClaimError, ClaimFail, Begin, rows
  <2>3. ASSUME NEW c \in Calls PROVE ~ServeReferral(c)
    BY <2>1, <2>3 DEF ServeReferral, ApplyBegin, UsageInsert, UsageCount, UsageCredit,
         RewardRecord, UsageReward, Begin, rows
  <2>4. ASSUME NEW c \in Calls PROVE ~ServeEdit(c) /\ ~Fail(c)
    BY <2>1, <2>4 DEF ServeEdit, EditBegin, EditCommit, Fail, Begin, rows, Lasting, TypeOK
  <2>5. \E c \in Calls : ClaimCount(c)
    <3>1. \A s : campaign' # [campaign EXCEPT !.status = s]
      BY <2>1 DEF Lasting, TypeOK
    <3>2. campaign' # campaign
      BY <2>1
    <3> QED
      BY <2>2, <2>3, <2>4, <3>1, <3>2
         DEF Next, CampaignMove, EditStatus, CodeExpires, vars, rows
  <2>6. PICK c \in Calls : ClaimCount(c)
    BY <2>5
  <2>7. campaign.budget > 0 => campaign.remaining > 0
    BY <2>6 DEF ClaimCount, Serial, ReadsPresent, Present
  <2> QED
    BY <2>0, <2>7
<1>2. IInv /\ [Next]_vars
        => [~overlapped /\ campaign'.spent > campaign.spent
              => campaign.budget = 0 \/ campaign.remaining > 0]_vars
  BY <1>1
<1> QED
  BY Invariant, <1>2, PTL DEF Spec, BudgetStopsClaims
=============================================================================
