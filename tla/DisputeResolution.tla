------------------------- MODULE DisputeResolution -------------------------
(***************************************************************************)
(* Disputes about one order and what they do to the order's escrow:        *)
(* DisputeService, the dispute queue's processor, and the others who write *)
(* the escrow row meanwhile (EscrowService, PaymentService.createRefund).  *)
(*                                                                         *)
(* Parties, administrators and the nightly job each read a dispute, check  *)
(* it, and write its status by id in a transaction of their own, with what *)
(* they read possibly out of date by then.  As in PaymentCapture, a request*)
(* in flight is a value of "call": an action XBegin reads and checks, and  *)
(* XCommit is the transaction.  Nothing keeps an order from having several *)
(* disputes at once, and all of them write the one escrow.                 *)
(*                                                                         *)
(* adminArbitration and handleArbitrationSlaBreach are not actions: no job *)
(* the code enqueues reaches them, see ProcessorIgnores.  Nor is           *)
(* processAutoRelease: nothing sets the autoReleaseAt it selects by.       *)
(***************************************************************************)
EXTENDS Naturals, FiniteSets

CONSTANTS
    Disputes,       \* the Dispute rows the order may come to have
    Calls,          \* requests served at the same time
    EvidenceLimit,  \* files allowed for a dispute; the code says 10
    MaxRequests     \* bound: requests made altogether

ASSUME ConstantsAssumption ==
    /\ IsFiniteSet(Calls)
    /\ EvidenceLimit \in Nat \ {0}
    /\ MaxRequests \in Nat

VARIABLES
    dispute,    \* Dispute rows; whether they have a DisputeAppeal and a
                \* DisputeResolution (disputeId is unique in both), and how
                \* many rows of DisputeEvidence
    verdicts,   \* decisions on a dispute's timeline that moved money
    escrow,     \* status of the order's Escrow row
    refunded,   \* the escrow was refunded by somebody other than a dispute
    distrusted, \* disputes that have cost the other company trustScore
    jobs,       \* disputes with a job of theirs in the dispute queue
    listed,     \* what processExpiredDisputes found and has not come to yet
    call,       \* what each request in flight has read and does next
    requests    \* requests made so far

vars == <<dispute, verdicts, escrow, refunded, distrusted, jobs, listed, call,
          requests>>

money == <<escrow, refunded>>

-----------------------------------------------------------------------------
STATUS_FLOW ==
    [OPEN |-> {"UNDER_REVIEW", "EVIDENCE_PENDING", "CANCELLED"},
     UNDER_REVIEW |-> {"EVIDENCE_PENDING", "NEGOTIATION", "ESCALATED",
                       "ADMIN_ARBITRATION", "RESOLVED", "REJECTED"},
     EVIDENCE_PENDING |-> {"UNDER_REVIEW", "NEGOTIATION", "CANCELLED"},
     NEGOTIATION |-> {"UNDER_REVIEW", "ESCALATED", "PARTIALLY_RESOLVED",
                      "RESOLVED", "CANCELLED"},
     ESCALATED |-> {"ADMIN_ARBITRATION", "RESOLVED", "REJECTED"},
     ADMIN_ARBITRATION |-> {"RESOLVED", "PARTIALLY_RESOLVED", "REFUNDED",
                            "REJECTED"},
     PARTIALLY_RESOLVED |-> {"RESOLVED", "REFUNDED", "REJECTED"},
     RESOLVED |-> {"APPEALED", "CANCELLED"},
     REFUNDED |-> {"CANCELLED"},
     REJECTED |-> {"APPEALED", "CANCELLED"},
     APPEALED |-> {"UNDER_REVIEW", "RESOLVED", "REJECTED"},
     CANCELLED |-> {},
     EXPIRED |-> {}]

Statuses == DOMAIN STATUS_FLOW
Expirable == {"OPEN", "EVIDENCE_PENDING", "NEGOTIATION"}
Closed == {"CANCELLED", "EXPIRED"}

\* What a decision makes of the escrow, whatever the escrow's status was.
EscrowOf == [RESOLVED |-> "RELEASED", PARTIALLY_RESOLVED |-> "PARTIALLY_RELEASED",
             REFUNDED |-> "REFUNDED", REJECTED |-> "HELD"]
Verdicts == DOMAIN EscrowOf

EscrowStatuses == {"NONE", "HELD", "DISPUTED", "FROZEN", "PARTIALLY_RELEASED",
                   "RELEASED", "REFUNDED"}
DisputeRow == [status: Statuses \cup {"ABSENT"}, appeal: BOOLEAN,
               resolved: BOOLEAN, evidence: Nat]

\* EscrowService: the statuses from which an administrator may make it this.
EscrowSources == [FROZEN |-> {"HELD", "DISPUTED"}, HELD |-> {"FROZEN"},
                  REFUNDED |-> {"HELD", "DISPUTED", "FROZEN"}]

Idle == [op |-> "idle"]
Call ==
    {Idle}
    \cup [op: {"create"}, saw: EscrowStatuses]
    \cup [op: {"update"}, d: Disputes, saw: Statuses, to: Statuses]
    \cup [op: {"evidence"}, d: Disputes, saw: Statuses]
    \cup [op: {"escalate", "appeal", "distrust"}, d: Disputes]
    \cup [op: {"resolve"}, d: Disputes, to: {"RESOLVED", "REFUNDED"}]
    \cup [op: {"review"}, d: Disputes, to: Statuses]
    \cup [op: {"escrow"}, to: DOMAIN EscrowSources]

Status(d) == dispute[d].status
Exists(d) == Status(d) # "ABSENT"

Begin(c, next) ==
    /\ call[c] = Idle
    /\ requests < MaxRequests
    /\ requests' = requests + 1
    /\ call' = [call EXCEPT ![c] = next]
    /\ UNCHANGED <<dispute, verdicts, money, distrusted, jobs, listed>>

\* What a request does after its transaction, if anything.
Then(c, next) == call' = [call EXCEPT ![c] = next] /\ UNCHANGED <<listed, requests>>
Answer(c) == Then(c, Idle)

SetStatus(d, to) == dispute' = [dispute EXCEPT ![d].status = to]

\* The part of a transaction that carries a decision to the escrow.
\* A variant for the mutants: a partial resolution that forgets the escrow.
EscrowAfter_NotPartial(to) ==
    IF escrow # "NONE" /\ to \in Verdicts \ {"PARTIALLY_RESOLVED"}
    THEN EscrowOf[to] ELSE escrow

EscrowAfter(to) ==
    IF escrow # "NONE" /\ to \in Verdicts THEN EscrowOf[to] ELSE escrow

Decide(d, to) ==
    /\ verdicts' = [verdicts EXCEPT ![d] = @ \cup ({to} \cap Verdicts)]
    /\ escrow' = EscrowAfter(to)
    /\ UNCHANGED refunded

Init ==
    /\ dispute = [d \in Disputes |-> [status |-> "ABSENT", appeal |-> FALSE,
                                      resolved |-> FALSE, evidence |-> 0]]
    /\ verdicts = [d \in Disputes |-> {}]
    /\ escrow \in {"NONE", "HELD"}
    /\ refunded = FALSE
    /\ distrusted = {}
    /\ jobs = {}
    /\ listed = {}
    /\ call = [c \in Calls |-> Idle]
    /\ requests = 0

-----------------------------------------------------------------------------
(* create does not look for another dispute of the order, and decides about *)
(* the escrow from what it read before its transaction.                     *)

\* Bound: no more inserts are begun than the table has rows left for.
RoomForADispute ==
    Cardinality({c \in Calls : call[c].op = "create"})
        < Cardinality({d \in Disputes : ~Exists(d)})

CreateBegin(c) ==
    /\ RoomForADispute
    /\ Begin(c, [op |-> "create", saw |-> escrow])

CreateCommit(c) ==
    /\ call[c].op = "create"
    /\ \E d \in Disputes :
         /\ ~Exists(d)
         /\ SetStatus(d, "OPEN")
    /\ escrow' = IF call[c].saw \in {"HELD", "PARTIALLY_RELEASED"}
                 THEN "DISPUTED" ELSE escrow
    /\ Answer(c)
    /\ UNCHANGED <<verdicts, refunded, distrusted, jobs>>

-----------------------------------------------------------------------------
(* updateStatus: either party moves the dispute along STATUS_FLOW.  A        *)
(* decision moves the escrow in the same transaction; RESOLVED and REFUNDED  *)
(* cost the other company trust in a statement after it.                     *)

\* A variant for the mutants: updateStatus without its STATUS_FLOW check.
UpdateBegin_AnyMove(c, d, to) ==
    /\ Exists(d) /\ to # Status(d)
    /\ Begin(c, [op |-> "update", d |-> d, saw |-> Status(d), to |-> to])

UpdateBegin(c, d, to) ==
    /\ Exists(d)
    /\ to \in STATUS_FLOW[Status(d)]
    /\ Begin(c, [op |-> "update", d |-> d, saw |-> Status(d), to |-> to])

UpdateCommit(c) ==
    /\ call[c].op = "update"
    /\ LET d == call[c].d  to == call[c].to
       IN  /\ SetStatus(d, to)
           /\ Decide(d, to)
           /\ IF to \in {"RESOLVED", "REFUNDED"}
              THEN Then(c, [op |-> "distrust", d |-> d]) ELSE Answer(c)
    /\ UNCHANGED <<distrusted, jobs>>

\* company.update; its failure is caught and logged.
Distrust(c) ==
    /\ call[c].op = "distrust"
    /\ distrusted' \in {distrusted, distrusted \cup {call[c].d}}
    /\ Answer(c)
    /\ UNCHANGED <<dispute, verdicts, money, jobs>>

\* addEvidence: the first evidence moves an OPEN dispute on, and OPEN is what
\* the request read, as is the number of files so far.
EvidenceBegin(c, d) ==
    /\ Exists(d)
    /\ dispute[d].evidence < EvidenceLimit
    /\ Begin(c, [op |-> "evidence", d |-> d, saw |-> Status(d)])

EvidenceCommit(c) ==
    /\ call[c].op = "evidence"
    /\ LET r == call[c]
       IN  dispute' = [dispute EXCEPT
                         ![r.d].evidence = @ + 1,
                         ![r.d].status = IF r.saw = "OPEN" THEN "EVIDENCE_PENDING"
                                          ELSE @]
    /\ Answer(c)
    /\ UNCHANGED <<verdicts, money, distrusted, jobs>>

-----------------------------------------------------------------------------
(* escalate puts a job in the queue from inside the transaction, to be       *)
(* delivered in seven days; the queue is not rolled back with the database.  *)

EscalateBegin(c, d) ==
    /\ Exists(d)
    /\ "ESCALATED" \in STATUS_FLOW[Status(d)]
    /\ Begin(c, [op |-> "escalate", d |-> d])

EscalateCommit(c) ==
    /\ call[c].op = "escalate"
    /\ SetStatus(call[c].d, "ESCALATED")
    /\ jobs' = jobs \cup {call[c].d}
    /\ Answer(c)
    /\ UNCHANGED <<verdicts, money, distrusted>>

EscalateTorn(c) ==
    /\ call[c].op = "escalate"
    /\ jobs' = jobs \cup {call[c].d}
    /\ Answer(c)
    /\ UNCHANGED <<dispute, verdicts, money, distrusted>>

\* The job's data is {disputeId}; the processor goes by data.type, finds none,
\* warns, and the job is done.
ProcessorIgnores(d) ==
    /\ d \in jobs
    /\ jobs' = jobs \ {d}
    /\ UNCHANGED <<dispute, verdicts, money, distrusted, listed, call, requests>>

-----------------------------------------------------------------------------
(* resolveDispute asks only that there is no resolution yet: not what status *)
(* the dispute has, nor who asks.  The unique key decides between two.       *)

ResolveBegin(c, d, to) ==
    /\ Exists(d)
    /\ ~dispute[d].resolved
    /\ Begin(c, [op |-> "resolve", d |-> d, to |-> to])

ResolveCommit(c) ==
    /\ call[c].op = "resolve"
    /\ LET d == call[c].d  to == call[c].to
       IN  /\ ~dispute[d].resolved
           /\ dispute' = [dispute EXCEPT ![d].resolved = TRUE, ![d].status = to]
           /\ Decide(d, to)
           /\ Then(c, [op |-> "distrust", d |-> d])
    /\ UNCHANGED <<distrusted, jobs>>

\* A variant for the mutants: an appeal of any dispute.
AppealBegin_Undecided(c, d) ==
    /\ Exists(d)
    /\ ~dispute[d].appeal
    /\ Begin(c, [op |-> "appeal", d |-> d])

AppealBegin(c, d) ==
    /\ Status(d) \in {"RESOLVED", "REJECTED"}
    /\ ~dispute[d].appeal
    /\ Begin(c, [op |-> "appeal", d |-> d])

AppealCommit(c) ==
    /\ call[c].op = "appeal"
    /\ ~dispute[call[c].d].appeal
    /\ dispute' = [dispute EXCEPT ![call[c].d].appeal = TRUE,
                                  ![call[c].d].status = "APPEALED"]
    /\ Answer(c)
    /\ UNCHANGED <<verdicts, money, distrusted, jobs>>

\* reviewAppeal asks for an appeal, reviewed before or not, and nothing else.
\* What it writes in the appeal (any text the request has) is read nowhere.
ReviewBegin(c, d, accepted) ==
    /\ Exists(d)
    /\ dispute[d].appeal
    /\ Begin(c, [op |-> "review", d |-> d,
                 to |-> IF accepted THEN "UNDER_REVIEW"
                        ELSE IF Status(d) = "APPEALED" THEN "RESOLVED"
                        ELSE Status(d)])

\* A variant for the mutants: a review that carries its status to the escrow.
ReviewCommit_PaysOut(c) ==
    /\ call[c].op = "review"
    /\ LET r == call[c]
       IN  /\ SetStatus(r.d, r.to)
           /\ escrow' = EscrowAfter(r.to)
    /\ Answer(c)
    /\ UNCHANGED <<verdicts, refunded, distrusted, jobs>>

ReviewCommit(c) ==
    /\ call[c].op = "review"
    /\ SetStatus(call[c].d, call[c].to)
    /\ Answer(c)
    /\ UNCHANGED <<verdicts, money, distrusted, jobs>>

\* The second insert of a DisputeResolution or DisputeAppeal: rolled back.
UniqueKeyRefused(c) ==
    /\ \/ call[c].op = "resolve" /\ dispute[call[c].d].resolved
       \/ call[c].op = "appeal" /\ dispute[call[c].d].appeal
    /\ Answer(c)
    /\ UNCHANGED <<dispute, verdicts, money, distrusted, jobs>>

-----------------------------------------------------------------------------
(* processExpiredDisputes lists neglected disputes older than thirty days,   *)
(* then expires them one by one by id; an error is logged and the loop goes  *)
(* on.  The worker runs one job at a time.                                   *)

ExpiryList(old) ==
    /\ listed = {}
    /\ old # {} /\ \A d \in old : Status(d) \in Expirable
    /\ listed' = old
    /\ UNCHANGED <<dispute, verdicts, money, distrusted, jobs, call, requests>>

ExpiryNext(d) ==
    /\ d \in listed
    /\ listed' = listed \ {d}
    /\ SetStatus(d, "EXPIRED") \/ UNCHANGED dispute
    /\ UNCHANGED <<verdicts, money, distrusted, jobs, call, requests>>

-----------------------------------------------------------------------------
(* Others who write the escrow: hold when the order is paid for, freeze,     *)
(* reopen and refund by an administrator, and a refund of the payment.       *)

Hold ==
    /\ escrow = "NONE"
    /\ escrow' = "HELD"
    /\ UNCHANGED <<dispute, verdicts, refunded, distrusted, jobs, listed, call,
                   requests>>

EscrowBegin(c, to) ==
    /\ escrow \in EscrowSources[to]
    /\ Begin(c, [op |-> "escrow", to |-> to])

EscrowCommit(c) ==
    /\ call[c].op = "escrow"
    /\ escrow' = call[c].to
    /\ refunded' = (refunded \/ call[c].to = "REFUNDED")
    /\ Answer(c)
    /\ UNCHANGED <<dispute, verdicts, distrusted, jobs>>

\* createRefund's transaction, of any captured payment of the order.
PaymentRefund ==
    /\ escrow \notin {"NONE", "REFUNDED"}
    /\ escrow' = "REFUNDED"
    /\ refunded' = TRUE
    /\ UNCHANGED <<dispute, verdicts, distrusted, jobs, listed, call, requests>>

-----------------------------------------------------------------------------
BeginCall(c) ==
    \/ CreateBegin(c)
    \/ \E d \in Disputes :
         \/ \E to \in Statuses : UpdateBegin(c, d, to)
         \/ EvidenceBegin(c, d)
         \/ EscalateBegin(c, d)
         \/ \E to \in {"RESOLVED", "REFUNDED"} : ResolveBegin(c, d, to)
         \/ AppealBegin(c, d)
         \/ \E accepted \in BOOLEAN : ReviewBegin(c, d, accepted)
    \/ \E to \in DOMAIN EscrowSources : EscrowBegin(c, to)

Continue(c) ==
    \/ CreateCommit(c) \/ UpdateCommit(c) \/ Distrust(c) \/ EvidenceCommit(c)
    \/ EscalateCommit(c) \/ EscalateTorn(c)
    \/ ResolveCommit(c) \/ AppealCommit(c) \/ ReviewCommit(c)
    \/ UniqueKeyRefused(c) \/ EscrowCommit(c)

Next ==
    \/ \E c \in Calls : BeginCall(c) \/ Continue(c)
    \/ \E d \in Disputes : ProcessorIgnores(d) \/ ExpiryNext(d)
    \/ \E old \in SUBSET Disputes : ExpiryList(old)
    \/ Hold \/ PaymentRefund

Spec == Init /\ [][Next]_vars

-----------------------------------------------------------------------------
TypeOK ==
    /\ dispute \in [Disputes -> DisputeRow]
    /\ verdicts \in [Disputes -> SUBSET Verdicts]
    /\ escrow \in EscrowStatuses
    /\ refunded \in BOOLEAN
    /\ distrusted \subseteq Disputes
    /\ jobs \subseteq Disputes
    /\ listed \subseteq Disputes
    /\ call \in [Calls -> Call]
    /\ requests \in 0..MaxRequests

(* An escrow under dispute has a dispute that is still to be decided: however*)
(* many disputes one order has and however requests overlap, no decision     *)
(* leaves the money DISPUTED with every dispute of the order decided.        *)
DisputedAwaitsVerdict ==
    escrow = "DISPUTED" => \E d \in Disputes : Exists(d) /\ verdicts[d] = {}

(* Money leaves escrow only by a decision that says so, or by a refund made  *)
(* outside the dispute: appeals, expiry, cancellation, evidence, and the     *)
(* queue never move it, and every move is on some dispute's timeline.        *)
MoneyMovedByVerdict ==
    /\ escrow = "RELEASED" =>
         \E d \in Disputes : "RESOLVED" \in verdicts[d]
    /\ escrow = "PARTIALLY_RELEASED" =>
         \E d \in Disputes : "PARTIALLY_RESOLVED" \in verdicts[d]
    /\ escrow = "REFUNDED" =>
         refunded \/ \E d \in Disputes : "REFUNDED" \in verdicts[d]

(* An appeal is against something: the dispute it is about was resolved or   *)
(* rejected before, whatever overtook the appeal since.                      *)
AppealFollowsVerdict ==
    \A d \in Disputes :
        dispute[d].appeal => verdicts[d] \cap {"RESOLVED", "REJECTED"} # {}

(* The limit on evidence is passed by no more files than requests overlap:   *)
(* files stored and files on their way are fewer than limit and slots.       *)
Uploads(d) == {c \in Calls : call[c].op = "evidence" /\ call[c].d = d}
EvidenceBounded ==
    \A d \in Disputes :
        dispute[d].evidence + Cardinality(Uploads(d))
            < EvidenceLimit + Cardinality(Calls)

(* A dispute that was cancelled or has expired is opened again only by a     *)
(* resolution, by the review of an appeal, or by a request that had read it  *)
(* before it was closed: STATUS_FLOW leads out of neither.                   *)
MayReopen(c, d) ==
    /\ call[c] # Idle /\ call[c].op \notin {"create", "escrow", "distrust"}
    /\ call[c].d = d
    /\ call[c].op \in {"update", "evidence"} => call[c].saw \notin Closed
ClosedStaysClosed ==
    [][\A d \in Disputes :
         Status(d) \in Closed /\ Status(d)' \notin Closed
             => \E c \in Calls : MayReopen(c, d) /\ call'[c] # call[c]]_vars

=============================================================================
