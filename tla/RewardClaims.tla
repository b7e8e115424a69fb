---------------------------- MODULE RewardClaims ----------------------------
(***************************************************************************)
(* Rewards paid into GoCash wallets: claims of one campaign                *)
(* (CampaignService.claimReward) and applications of one referral code     *)
(* (ReferralService.applyReferral).  Neither runs in a transaction: each   *)
(* statement commits by itself, in the order of the code, and the request  *)
(* may fail or die after any of them.  What keeps a reward from being paid *)
(* twice is the ledger's unique idempotency key, CAMPAIGN_<campaign>_<user>*)
(* and REFERRAL_<usage>_REFERRER; the wallet itself is module GocashWallet.*)
(*                                                                         *)
(* Left out: dates, daily and per-company limits, edits of the limits and  *)
(* of the reward, blacklists, velocity, analytics and audit rows.  Changes *)
(* of a campaign's status are taken as one step; an eligibility check's    *)
(* reads are too.                                                          *)
(***************************************************************************)
EXTENDS Integers, FiniteSets

CONSTANTS
    Users,          \* users who claim
    Emails,         \* people referred
    Claims,         \* bound: ids of CampaignClaim rows
    Usages,         \* bound: ids of ReferralUsage rows
    Calls,          \* requests served at the same time
    Budgets,        \* campaign.budget as created or edited; 0 is no limit
    Reward,         \* campaign.rewardAmount
    MaxClaims,      \* campaign.maxClaims; 0 is no limit
    PerUserLimit,   \* campaign.perUserLimit; 0 is no limit
    MaxUsage,       \* referralCode.maxUsage; 0 is no limit
    MaxRequests     \* bound: requests made altogether

ASSUME ConstantsAssumption ==
    /\ Budgets \subseteq Nat
    /\ Reward \in Nat \ {0}
    /\ {MaxClaims, PerUserLimit, MaxUsage} \subseteq Nat
    /\ IsFiniteSet(Claims) /\ IsFiniteSet(Usages) /\ Users \cap Usages = {}

VARIABLES
    campaign,       \* status, budget, remaining and spent budget, currentClaims
    claim,          \* CampaignClaim rows: status and user
    code,           \* ReferralCode: whether unexpired, currentUsage
    usage,          \* ReferralUsage rows: status, email
    rewarded,       \* usages with a PAID ReferralReward row
    credited,       \* idempotency keys in the ledger: users and usages
    call,           \* what each request in flight is to do next
    requests,       \* requests made so far
    overlapped,     \* history: something was done amid a request
    interrupted     \* history: a request failed or died half-way

rows == <<campaign, claim, code, usage, rewarded, credited>>
history == <<requests, overlapped, interrupted>>
vars == <<rows, call, history>>

-----------------------------------------------------------------------------
\* DRAFT, COMPLETED and CANCELLED, which nothing tells apart from EXPIRED,
\* are EXPIRED here.
CampaignStatuses == {"ACTIVE", "PAUSED", "ARCHIVED", "EXPIRED"}
Open == {"APPROVED", "PAID"}
ClaimRow == [status: {"ABSENT"}] \cup [status: {"APPROVED", "PAID", "FAILED"}, user: Users]
UsageRow == [status: {"ABSENT"}] \cup [status: {"COMPLETED", "REWARDED"}, email: Emails]

Idle == [op |-> "idle"]
Call ==
    {Idle}
    \cup [op: {"claim"}, user: Users]
    \cup [op: {"creditClaim", "payClaim", "countClaim", "failClaim"}, id: Claims]
    \cup [op: {"edit"}, budget: Budgets, remaining: Int]
    \cup [op: {"apply"}, email: Emails]
    \cup [op: {"countUsage", "creditUsage", "recordReward", "markRewarded"}, id: Usages]

\* Something is asked of the program.
Request ==
    /\ requests < MaxRequests
    /\ requests' = requests + 1
    /\ overlapped' = (overlapped \/ \E c \in Calls : call[c] # Idle)
    /\ UNCHANGED interrupted

Begin(c, next) ==
    /\ call[c] = Idle
    /\ call' = [call EXCEPT ![c] = next]
    /\ Request
    /\ UNCHANGED rows

Then(c, next) == call' = [call EXCEPT ![c] = next] /\ UNCHANGED history

Init ==
    /\ \E b \in Budgets :
         campaign = [status |-> "ACTIVE", budget |-> b, remaining |-> b,
                     spent |-> 0, claims |-> 0]
    /\ claim = [i \in Claims |-> [status |-> "ABSENT"]]
    /\ code = [active |-> TRUE, used |-> 0]
    /\ usage = [i \in Usages |-> [status |-> "ABSENT"]]
    /\ rewarded = {}
    /\ credited = {}
    /\ call = [c \in Calls |-> Idle]
    /\ requests = 0
    /\ overlapped = FALSE
    /\ interrupted = FALSE

-----------------------------------------------------------------------------
(* The campaign and the code, as administrators and time change them.        *)

\* pause, resume, archive (and delete, which archives) and the expiry job.
CampaignMoves ==
    [pause |-> [from |-> {"ACTIVE"}, to |-> "PAUSED"],
     resume |-> [from |-> {"PAUSED"}, to |-> "ACTIVE"],
     archive |-> [from |-> CampaignStatuses \ {"ARCHIVED"}, to |-> "ARCHIVED"],
     expire |-> [from |-> {"ACTIVE"}, to |-> "EXPIRED"]]

CampaignMove(op) ==
    /\ campaign.status \in CampaignMoves[op].from
    /\ campaign' = [campaign EXCEPT !.status = CampaignMoves[op].to]
    /\ Request
    /\ UNCHANGED <<claim, code, usage, rewarded, credited, call>>

\* update writes whatever status it is given.
EditStatus(to) ==
    /\ campaign' = [campaign EXCEPT !.status = to]
    /\ Request
    /\ UNCHANGED <<claim, code, usage, rewarded, credited, call>>

\* It works out what remains from what it read.
EditBegin(c, b) ==
    Begin(c, [op |-> "edit", budget |-> b,
              remaining |-> campaign.remaining + b - campaign.budget])

\* Mutant: what remains is the new budget.
EditCommit_Resets(c) ==
    /\ call[c].op = "edit"
    /\ campaign' = [campaign EXCEPT !.budget = call[c].budget,
                                    !.remaining = call[c].budget]
    /\ Then(c, Idle)
    /\ UNCHANGED <<claim, code, usage, rewarded, credited>>

EditCommit(c) ==
    /\ call[c].op = "edit"
    /\ campaign' = [campaign EXCEPT !.budget = call[c].budget,
                                    !.remaining = call[c].remaining]
    /\ Then(c, Idle)
    /\ UNCHANGED <<claim, code, usage, rewarded, credited>>

\* A code is valid until its expiresAt; nothing else ends it.
CodeExpires ==
    /\ code.active
    /\ code' = [code EXCEPT !.active = FALSE]
    /\ UNCHANGED <<campaign, claim, usage, rewarded, credited, call, history>>

-----------------------------------------------------------------------------
(* claimReward.                                                              *)
OpenClaims(u) == {i \in Claims : claim[i].status \in Open /\ claim[i].user = u}

\* Mutant: a claim counts for its user only once it is PAID.
UserMayClaim_PaidOnly(u) ==
    PerUserLimit > 0 =>
        Cardinality({i \in Claims : claim[i].status = "PAID" /\ claim[i].user = u})
            < PerUserLimit

UserMayClaim(u) == PerUserLimit > 0 => Cardinality(OpenClaims(u)) < PerUserLimit

BudgetLeft == campaign.budget > 0 => campaign.remaining > 0

ClaimBegin(c, u) ==
    /\ campaign.status = "ACTIVE"
    /\ BudgetLeft
    /\ MaxClaims > 0 => campaign.claims < MaxClaims
    /\ UserMayClaim(u)
    /\ Begin(c, [op |-> "claim", user |-> u])

ClaimInsert(c, i) ==
    /\ call[c].op = "claim"
    /\ claim[i].status = "ABSENT"
    /\ claim' = [claim EXCEPT ![i] = [status |-> "APPROVED", user |-> call[c].user]]
    /\ Then(c, [op |-> "creditClaim", id |-> i])
    /\ UNCHANGED <<campaign, code, usage, rewarded, credited>>

\* Mutant: a wallet that is missing or suspended is only logged.
ClaimCredit_LogOnly(c) ==
    /\ call[c].op = "creditClaim"
    /\ \/ credited' = credited \cup {claim[call[c].id].user}
       \/ UNCHANGED credited
    /\ Then(c, [op |-> "payClaim", id |-> call[c].id])
    /\ UNCHANGED <<campaign, claim, code, usage, rewarded>>

\* GocashService.credit: an entry with the key is returned, else one is made.
ClaimCredit(c) ==
    /\ call[c].op = "creditClaim"
    /\ credited' = credited \cup {claim[call[c].id].user}
    /\ Then(c, [op |-> "payClaim", id |-> call[c].id])
    /\ UNCHANGED <<campaign, claim, code, usage, rewarded>>

ClaimPay(c) ==
    /\ call[c].op = "payClaim"
    /\ claim' = [claim EXCEPT ![call[c].id].status = "PAID"]
    /\ Then(c, [op |-> "countClaim", id |-> call[c].id])
    /\ UNCHANGED <<campaign, code, usage, rewarded, credited>>

\* Increments in one statement, which lose nothing.
ClaimCount(c) ==
    /\ call[c].op = "countClaim"
    /\ campaign' = [campaign EXCEPT !.claims = @ + 1, !.spent = @ + Reward,
                                    !.remaining = @ - Reward]
    /\ Then(c, Idle)
    /\ UNCHANGED <<claim, code, usage, rewarded, credited>>

\* An error at one of these steps is caught, and the claim marked FAILED,
\* also when it had been credited.
ClaimError(c) ==
    /\ call[c].op \in {"creditClaim", "payClaim", "countClaim"}
    /\ call' = [call EXCEPT ![c] = [op |-> "failClaim", id |-> call[c].id]]
    /\ interrupted' = TRUE
    /\ UNCHANGED <<rows, requests, overlapped>>

ClaimFail(c) ==
    /\ call[c].op = "failClaim"
    /\ claim' = [claim EXCEPT ![call[c].id].status = "FAILED"]
    /\ Then(c, Idle)
    /\ UNCHANGED <<campaign, code, usage, rewarded, credited>>

-----------------------------------------------------------------------------
(* applyReferral and processReferralReward.                                  *)
ApplyBegin(c, e) ==
    /\ code.active
    /\ MaxUsage > 0 => code.used < MaxUsage
    /\ \A i \in Usages : usage[i].status # "ABSENT" => usage[i].email # e
    /\ Begin(c, [op |-> "apply", email |-> e])

UsageInsert(c, i) ==
    /\ call[c].op = "apply"
    /\ usage[i].status = "ABSENT"
    /\ usage' = [usage EXCEPT ![i] = [status |-> "COMPLETED", email |-> call[c].email]]
    /\ Then(c, [op |-> "countUsage", id |-> i])
    /\ UNCHANGED <<campaign, claim, code, rewarded, credited>>

\* Mutant: the use is counted like a reward, after an error too, or not at all.
UsageCount_Swallowed(c) ==
    /\ call[c].op = "countUsage"
    /\ \/ code' = [code EXCEPT !.used = @ + 1]
       \/ UNCHANGED code
    /\ Then(c, [op |-> "creditUsage", id |-> call[c].id])
    /\ UNCHANGED <<campaign, claim, usage, rewarded, credited>>

UsageCount(c) ==
    /\ call[c].op = "countUsage"
    /\ code' = [code EXCEPT !.used = @ + 1]
    /\ Then(c, [op |-> "creditUsage", id |-> call[c].id])
    /\ UNCHANGED <<campaign, claim, usage, rewarded, credited>>

\* Only if the usage has no PAID reward.
UsageCredit(c) ==
    /\ call[c].op = "creditUsage"
    /\ IF call[c].id \in rewarded
         THEN Then(c, Idle) /\ UNCHANGED credited
         ELSE /\ credited' = credited \cup {call[c].id}
              /\ Then(c, [op |-> "recordReward", id |-> call[c].id])
    /\ UNCHANGED <<campaign, claim, code, usage, rewarded>>

RewardRecord(c) ==
    /\ call[c].op = "recordReward"
    /\ rewarded' = rewarded \cup {call[c].id}
    /\ Then(c, [op |-> "markRewarded", id |-> call[c].id])
    /\ UNCHANGED <<campaign, claim, code, usage, credited>>

UsageReward(c) ==
    /\ call[c].op = "markRewarded"
    /\ usage' = [usage EXCEPT ![call[c].id].status = "REWARDED"]
    /\ Then(c, Idle)
    /\ UNCHANGED <<campaign, claim, code, rewarded, credited>>

-----------------------------------------------------------------------------
\* A request dies; or it fails where nothing is caught, or where an error of
\* the reward is only logged.
Fail(c) ==
    /\ call[c] # Idle
    /\ call' = [call EXCEPT ![c] = Idle]
    /\ interrupted' = TRUE
    /\ UNCHANGED <<rows, requests, overlapped>>

ServeClaim(c) ==
    \/ \E u \in Users : ClaimBegin(c, u)
    \/ \E i \in Claims : ClaimInsert(c, i)
    \/ ClaimCredit(c) \/ ClaimPay(c) \/ ClaimCount(c) \/ ClaimError(c) \/ ClaimFail(c)

ServeReferral(c) ==
    \/ \E e \in Emails : ApplyBegin(c, e)
    \/ \E i \in Usages : UsageInsert(c, i)
    \/ UsageCount(c) \/ UsageCredit(c) \/ RewardRecord(c) \/ UsageReward(c)

ServeEdit(c) == (\E b \in Budgets : EditBegin(c, b)) \/ EditCommit(c)

Next ==
    \/ \E c \in Calls : ServeClaim(c) \/ ServeReferral(c) \/ ServeEdit(c) \/ Fail(c)
    \/ \E op \in DOMAIN CampaignMoves : CampaignMove(op)
    \/ \E to \in CampaignStatuses : EditStatus(to)
    \/ CodeExpires

Spec == Init /\ [][Next]_vars

-----------------------------------------------------------------------------
TypeOK ==
    /\ campaign \in [status: CampaignStatuses, budget: Budgets, remaining: Int,
                     spent: Nat, claims: Nat]
    /\ claim \in [Claims -> ClaimRow]
    /\ code \in [active: BOOLEAN, used: Nat]
    /\ usage \in [Usages -> UsageRow]
    /\ rewarded \subseteq Usages
    /\ credited \subseteq Users \cup Usages
    /\ call \in [Calls -> Call]
    /\ requests \in Nat
    /\ overlapped \in BOOLEAN
    /\ interrupted \in BOOLEAN

(* Whatever overlaps, fails or dies, what is called paid was credited: a     *)
(* PAID claim's user has an entry in the ledger, a REWARDED usage a reward   *)
(* row, and a reward row an entry.                                           *)
PaidMeansCredited ==
    /\ \A i \in Claims : claim[i].status = "PAID" => claim[i].user \in credited
    /\ \A i \in Usages : usage[i].status = "REWARDED" => i \in rewarded
    /\ rewarded \subseteq credited

(* Whatever overlaps, fails or dies, what a campaign has spent is what the   *)
(* claims it counted cost; and, requests one after the other, what remains is*)
(* its budget less that, however often the budget is edited.                 *)
CountersAddUp ==
    /\ campaign.spent = Reward * campaign.claims
    /\ ~overlapped => campaign.remaining = campaign.budget - campaign.spent

(* Requests one after the other: a user has no more open claims than allowed,*)
(* even if some of them failed or died half-way; as long as none did, no     *)
(* more is credited than the campaign has claims.                            *)
CampaignLimitsHold ==
    ~overlapped =>
        /\ PerUserLimit > 0 => \A u \in Users : Cardinality(OpenClaims(u)) =< PerUserLimit
        /\ ~interrupted /\ MaxClaims > 0 => Cardinality(credited \cap Users) =< MaxClaims

(* Whatever overlaps, fails or dies, a use of the code is counted before it  *)
(* is rewarded, so that, requests one after the other, no more uses are      *)
(* rewarded than the code allows.                                            *)
ReferralLimitHolds ==
    /\ Cardinality(credited \cap Usages) =< code.used
    /\ ~overlapped /\ MaxUsage > 0 => Cardinality(credited \cap Usages) =< MaxUsage

(* Requests one after the other: the budget is only ever exceeded by the     *)
(* part of one reward that was not left of it.                               *)
BudgetStopsClaims ==
    [][~overlapped /\ campaign'.spent > campaign.spent
         => campaign.budget = 0 \/ campaign.remaining > 0]_vars
=============================================================================
