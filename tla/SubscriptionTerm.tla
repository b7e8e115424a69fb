-------------------------- MODULE SubscriptionTerm --------------------------
(***************************************************************************)
(* How long a company's subscription lasts: MembershipService's operations *)
(* on the company row, the administrators' edits, and the jobs that look   *)
(* for terms that are over (SubscriptionProcessor and                      *)
(* processExpiredSubscriptions).                                           *)
(*                                                                         *)
(* An operation reads the row, checks it and writes it by id later; a job  *)
(* lists the companies that are due and then writes one after the other by *)
(* id.  Dates are kept as what every comparison makes of them: the days a  *)
(* term has left (0: over), and the days since a grace period began.       *)
(*                                                                         *)
(* Left out: events, plan history but for TRAD UP's, alerts, amounts and   *)
(* plan versions.  The companies share one PAN.                            *)
(***************************************************************************)
EXTENDS Integers

CONSTANTS
    Companies,      \* companies declaring one PAN
    Managed,        \* bound: those that do more than take the free plan
    Calls,          \* requests served at the same time
    Year,           \* days of a paid term
    TrialDays,      \* plan.trialPeriodDays
    FreeDays,       \* days of TRAD UP
    GraceDays,      \* GRACE_PERIOD_DAYS of the nightly job
    AdminGraceDays  \* the 7 days of processExpiredSubscriptions

ASSUME ConstantsAssumption ==
    /\ Managed \subseteq Companies
    /\ {Year, TrialDays, FreeDays, GraceDays, AdminGraceDays} \subseteq Nat \ {0}
    /\ TrialDays =< Year /\ FreeDays =< Year

VARIABLES
    company,    \* status, plan, days left (subscriptionExpiresAt), grace
    benefits,   \* PlanHistory rows "trad-up" of the PAN
    call,       \* what each request in flight is to do
    listed,     \* companies each running job has still to write
    overlapped  \* history: something began amid a request or a job

vars == <<company, benefits, call, listed, overlapped>>

-----------------------------------------------------------------------------
Statuses == {"TRIAL", "ACTIVE", "EXPIRED", "SUSPENDED", "CANCELLED"}
InService == {"TRIAL", "ACTIVE"}
Plans == {"none", "tradup", "core"}
Jobs == {"grace", "expire", "process"}
Undated == -1

Row == [status: Statuses, plan: Plans,
        left: {Undated} \cup 0..Year, grace: {Undated} \cup 0..GraceDays]

Requests == {"cancel", "trial", "upgrade", "renew", "suspend", "reactivate"}
Idle == [op |-> "idle"]
Call ==
    {Idle}
    \cup [op: Requests \cup {"free", "freeChecked"}, k: Companies]
    \cup [op: {"admin"}, k: Companies, to: Statuses, dated: BOOLEAN]

\* A year from now, and the record of a grace period stays.
Renewed(row) ==
    [status |-> "ACTIVE", plan |-> row.plan, left |-> Year, grace |-> row.grace]

\* What an operation writes of the row it finds by id.
Written(row, op) ==
    CASE op = "cancel" ->
           [status |-> "CANCELLED", plan |-> "none", left |-> Undated, grace |-> row.grace]
      [] op = "trial" ->
           [status |-> "TRIAL", plan |-> "core", left |-> TrialDays, grace |-> row.grace]
      [] op = "upgrade" -> [row EXCEPT !.plan = "core"]
      [] op \in {"renew", "reactivate"} -> Renewed(row)
      [] op = "suspend" -> [row EXCEPT !.status = "SUSPENDED"]
      [] op = "activate" ->
           [status |-> "ACTIVE", plan |-> "core", left |-> Year, grace |-> row.grace]
      [] op = "freeChecked" ->
           [status |-> "ACTIVE", plan |-> "tradup", left |-> FreeDays, grace |-> row.grace]
      [] op = "grace" -> [row EXCEPT !.status = "EXPIRED", !.grace = 0]
      [] op = "expire" -> [row EXCEPT !.status = "CANCELLED"]
      [] op = "process" -> [row EXCEPT !.status = "EXPIRED"]

\* What an operation asks of the row it reads.
Allowed(row, op) ==
    CASE op = "cancel" -> row.status = "ACTIVE"
      [] op = "trial" -> row.status \in {"TRIAL", "EXPIRED"}
      [] op = "upgrade" -> row.status \in InService
      [] op = "renew" -> row.status \in {"ACTIVE", "EXPIRED"} /\ row.plan # "none"
      [] op = "suspend" -> row.status \in InService
      [] op = "reactivate" -> row.status \in {"SUSPENDED", "EXPIRED"}

NoteOverlap ==
    overlapped' = (overlapped \/ (\E c \in Calls : call[c] # Idle)
                              \/ (\E j \in Jobs : listed[j] # {}))

Then(c, next) ==
    /\ call' = [call EXCEPT ![c] = next]
    /\ UNCHANGED <<listed, overlapped>>

Begin(c, next) ==
    /\ call[c] = Idle
    /\ call' = [call EXCEPT ![c] = next]
    /\ NoteOverlap
    /\ UNCHANGED <<company, benefits, listed>>

\* A company as it is registered.
Init ==
    /\ company = [k \in Companies |-> [status |-> "TRIAL", plan |-> "none",
                                       left |-> Undated, grace |-> Undated]]
    /\ benefits = 0
    /\ call = [c \in Calls |-> Idle]
    /\ listed = [j \in Jobs |-> {}]
    /\ overlapped = FALSE

-----------------------------------------------------------------------------
(* Requests.                                                                 *)
RequestBegin(c, k, op) ==
    /\ k \in Managed
    /\ Allowed(company[k], op)
    /\ Begin(c, [op |-> op, k |-> k])

RequestCommit(c) ==
    /\ call[c].op \in Requests
    /\ company' = [company EXCEPT ![call[c].k] = Written(@, call[c].op)]
    /\ Then(c, Idle)
    /\ UNCHANGED benefits

\* activateSubscription and confirmPayment ask nothing of the company.
Activates(k) ==
    /\ k \in Managed
    /\ company' = [company EXCEPT ![k] = Written(@, "activate")]
    /\ NoteOverlap
    /\ UNCHANGED <<benefits, call, listed>>

\* CompaniesService.updateSubscription, with an expiry date or without.
AdminBegin(c, k, to, dated) ==
    /\ k \in Managed
    /\ Begin(c, [op |-> "admin", k |-> k, to |-> to, dated |-> dated])

AdminCommit(c) ==
    /\ call[c].op = "admin"
    /\ company' = [company EXCEPT ![call[c].k] =
                     [status |-> call[c].to, plan |-> "core",
                      left |-> IF call[c].dated THEN Year ELSE @.left,
                      grace |-> IF call[c].to = "EXPIRED" THEN 0 ELSE @.grace]]
    /\ Then(c, Idle)
    /\ UNCHANGED benefits

-----------------------------------------------------------------------------
(* activateFreePlan for TRAD UP: eligible when read, eligible again in the   *)
(* transaction, which sees what had been committed by then.                  *)

\* Mutant: only a company that is on the plan has had it.
Eligible_CurrentPlan(k) == company[k].plan # "tradup"

Eligible(k) == benefits = 0

FreeBegin(c, k) ==
    /\ ~(company[k].plan = "tradup" /\ company[k].status = "ACTIVE" /\ company[k].left > 0)
    /\ Eligible(k)
    /\ Begin(c, [op |-> "free", k |-> k])

FreeRecheck(c) ==
    /\ call[c].op = "free"
    /\ Then(c, IF Eligible(call[c].k) THEN [op |-> "freeChecked", k |-> call[c].k] ELSE Idle)
    /\ UNCHANGED <<company, benefits>>

FreeCommit(c) ==
    /\ call[c].op = "freeChecked"
    /\ company' = [company EXCEPT ![call[c].k] = Written(@, "freeChecked")]
    /\ benefits' = benefits + 1
    /\ Then(c, Idle)

\* A request dies, or its transaction fails.
Fail(c) ==
    /\ call[c] # Idle
    /\ Then(c, Idle)
    /\ UNCHANGED <<company, benefits>>

-----------------------------------------------------------------------------
(* Jobs.                                                                     *)
Over(row) == row.left = 0

\* Mutant: trials are not looked at.
GraceDue_ActiveOnly(row) == row.status = "ACTIVE" /\ Over(row) /\ row.grace = Undated

GraceDue(row) == row.status \in InService /\ Over(row) /\ row.grace = Undated

\* Mutant: companies without an expiry date are forgotten.
ExpireDue_Dated(row) == row.status = "EXPIRED" /\ row.grace = GraceDays /\ Over(row)

\* Mutant: whether the company is still EXPIRED is not asked.
ExpireDue_AnyStatus(row) == row.grace = GraceDays

ExpireDue(row) == row.status = "EXPIRED" /\ row.grace = GraceDays

ProcessDue(row) ==
    /\ row.status \in {"ACTIVE", "TRIAL", "SUSPENDED"} /\ Over(row)
    /\ row.grace = Undated \/ row.grace >= AdminGraceDays

Due(row, j) ==
    CASE j = "grace" -> GraceDue(row)
      [] j = "expire" -> ExpireDue(row)
      [] j = "process" -> ProcessDue(row)

JobList(j) ==
    /\ listed[j] = {}
    /\ \E k \in Companies : Due(company[k], j)
    /\ listed' = [listed EXCEPT ![j] = {k \in Companies : Due(company[k], j)}]
    /\ NoteOverlap
    /\ UNCHANGED <<company, benefits, call>>

JobWrite(j, k) ==
    /\ k \in listed[j]
    /\ company' = [company EXCEPT ![k] = Written(@, j)]
    /\ listed' = [listed EXCEPT ![j] = @ \ {k}]
    /\ UNCHANGED <<benefits, call, overlapped>>

\* An error or a death ends the run; what is due is listed in the next one.
JobDies(j) ==
    /\ listed[j] # {}
    /\ listed' = [listed EXCEPT ![j] = {}]
    /\ UNCHANGED <<company, benefits, call, overlapped>>

\* A day passes; GraceDays stands for that many days and more.
Day ==
    /\ company' = [k \in Companies |->
         [company[k] EXCEPT
            !.left = IF @ > 0 THEN @ - 1 ELSE @,
            !.grace = IF @ \in 0..(GraceDays - 1) THEN @ + 1 ELSE @]]
    /\ UNCHANGED <<benefits, call, listed, overlapped>>

-----------------------------------------------------------------------------
Serve(c) ==
    \/ \E k \in Companies :
         \/ FreeBegin(c, k)
         \/ \E op \in Requests : RequestBegin(c, k, op)
         \/ \E to \in Statuses, dated \in BOOLEAN : AdminBegin(c, k, to, dated)
    \/ RequestCommit(c) \/ AdminCommit(c) \/ FreeRecheck(c) \/ FreeCommit(c) \/ Fail(c)

Work(j) == JobList(j) \/ (\E k \in Companies : JobWrite(j, k)) \/ JobDies(j)

Next ==
    \/ \E c \in Calls : Serve(c)
    \/ \E k \in Companies : Activates(k)
    \/ \E j \in Jobs : Work(j)
    \/ Day

Spec == Init /\ [][Next]_vars

\* The two nightly jobs are run, and not every run dies before the same company.
Nightly == {"grace", "expire"}
FairSpec ==
    /\ Spec
    /\ WF_vars(Day)
    /\ \A j \in Nightly :
         /\ WF_vars(JobList(j))
         /\ \A k \in Companies : SF_vars(JobWrite(j, k))

-----------------------------------------------------------------------------
TypeOK ==
    /\ company \in [Companies -> Row]
    /\ benefits \in Nat
    /\ call \in [Calls -> Call]
    /\ listed \in [Jobs -> SUBSET Companies]
    /\ overlapped \in BOOLEAN

(* Requests one after the other: TRAD UP is had once for a PAN, by whichever *)
(* of its companies, and not again after it expired, was cancelled or was    *)
(* replaced by another plan.                                                 *)
FreeBenefitOnce == ~overlapped => benefits =< 1

(* Nothing overlapping: only a request ends a term that still runs, and only *)
(* a request ends a grace period before its last day.                        *)
JobsEndOnlyWhatIsOver ==
    [][~overlapped /\ call' = call =>
         \A k \in Companies :
           company'[k].status \in {"EXPIRED", "CANCELLED"} \ {company[k].status}
             => IF company[k].status = "EXPIRED"
                  THEN company[k].grace = GraceDays ELSE Over(company[k])]_vars

(* Whatever overlaps and whichever runs die: a company that has had no grace *)
(* period does not stay in service after its term.                           *)
LapseEndsService ==
    \A k \in Companies :
        (company[k].status \in InService /\ Over(company[k]) /\ company[k].grace = Undated)
            ~> ~(company[k].status \in InService /\ Over(company[k]))

(* A company does not stay EXPIRED in a grace period for ever, unless an     *)
(* administrator begins it anew again and again.                             *)
GraceEnds ==
    \A k \in Companies :
        <>[](company[k].status = "EXPIRED" /\ company[k].grace # Undated)
            => []<>(company[k].grace = 0)
=============================================================================
