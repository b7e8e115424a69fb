---------------------- MODULE DisputesAndCatalog_proof ----------------------
(***************************************************************************)
(* Theorems about DisputeResolution, for any number of disputes of one     *)
(* order and of requests in flight, and about CatalogImport, for any       *)
(* workbooks, batches and imports.  The two components share no state:     *)
(* each theorem is about the specification of one of them.                 *)
(***************************************************************************)
EXTENDS DisputeResolution, CatalogImport, FiniteSetTheorems, TLAPS

-----------------------------------------------------------------------------
(***************************************************************************)
(* DisputeResolution                                                       *)
(***************************************************************************)

\* The four decisions and the escrow statuses they write.
LEMMA VerdictFacts ==
    /\ Verdicts = {"RESOLVED", "PARTIALLY_RESOLVED", "REFUNDED", "REJECTED"}
    /\ \A v \in Verdicts : EscrowOf[v] \in EscrowStatuses
    /\ \A v \in Verdicts : EscrowOf[v] # "DISPUTED"
    /\ EscrowOf["RESOLVED"] = "RELEASED"
    /\ EscrowOf["PARTIALLY_RESOLVED"] = "PARTIALLY_RELEASED"
    /\ EscrowOf["REFUNDED"] = "REFUNDED"
    /\ EscrowOf["REJECTED"] = "HELD"
BY DEF Verdicts, EscrowOf, EscrowStatuses

LEMMA StatusFacts ==
    Statuses = {"OPEN", "UNDER_REVIEW", "EVIDENCE_PENDING", "NEGOTIATION",
                "ESCALATED", "ADMIN_ARBITRATION", "PARTIALLY_RESOLVED",
                "RESOLVED", "REFUNDED", "REJECTED", "APPEALED", "CANCELLED",
                "EXPIRED"}
BY DEF Statuses, STATUS_FLOW

LEMMA SourceFacts == DOMAIN EscrowSources = {"FROZEN", "HELD", "REFUNDED"}
BY DEF EscrowSources

(* What a call in flight is known to be, by its op.                          *)
LEMMA CallKinds ==
    ASSUME NEW r \in Call
    PROVE  /\ r.op = "create" => r.saw \in EscrowStatuses
           /\ r.op = "update" => /\ r.d \in Disputes /\ r.to \in Statuses
                                 /\ r.saw \in Statuses
           /\ r.op = "evidence" => r.d \in Disputes /\ r.saw \in Statuses
           /\ r.op \in {"escalate", "appeal", "distrust"} => r.d \in Disputes
           /\ r.op = "resolve" => /\ r.d \in Disputes
                                  /\ r.to \in {"RESOLVED", "REFUNDED"}
           /\ r.op = "review" => r.d \in Disputes /\ r.to \in Statuses
           /\ r.op = "escrow" => r.to \in {"FROZEN", "HELD", "REFUNDED"}
  BY SourceFacts DEF Call, Idle

(* The rows and calls the code writes are well-formed.                       *)
LEMMA CallsMade ==
    /\ Idle \in Call
    /\ \A s \in EscrowStatuses : [op |-> "create", saw |-> s] \in Call
    /\ \A d \in Disputes, s \in Statuses, t \in Statuses :
          [op |-> "update", d |-> d, saw |-> s, to |-> t] \in Call
    /\ \A d \in Disputes, s \in Statuses :
          [op |-> "evidence", d |-> d, saw |-> s] \in Call
    /\ \A o \in {"escalate", "appeal", "distrust"}, d \in Disputes :
          [op |-> o, d |-> d] \in Call
    /\ \A d \in Disputes, t \in {"RESOLVED", "REFUNDED"} :
          [op |-> "resolve", d |-> d, to |-> t] \in Call
    /\ \A d \in Disputes, t \in Statuses :
          [op |-> "review", d |-> d, to |-> t] \in Call
    /\ \A t \in DOMAIN EscrowSources : [op |-> "escrow", to |-> t] \in Call
  BY DEF Call, Idle

(* A request that begins writes nothing but itself.                          *)
LEMMA BeginType ==
    ASSUME TypeOK, NEW c \in Calls, NEW next \in Call, Begin(c, next)
    PROVE  TypeOK'
  BY ConstantsAssumption DEF TypeOK, Begin, money

LEMMA BeginCallType ==
    ASSUME TypeOK, NEW c \in Calls, BeginCall(c)
    PROVE  TypeOK'
  <1>0. \A d \in Disputes : Exists(d) => Status(d) \in Statuses
    BY DEF TypeOK, DisputeRow, Exists, Status
  <1>1. CASE CreateBegin(c)
    BY <1>1, CallsMade, BeginType DEF CreateBegin, TypeOK
  <1>2. ASSUME NEW d \in Disputes, NEW to \in Statuses, UpdateBegin(c, d, to)
        PROVE  TypeOK'
    BY <1>0, <1>2, CallsMade, BeginType DEF UpdateBegin
  <1>3. ASSUME NEW d \in Disputes, EvidenceBegin(c, d) PROVE TypeOK'
    BY <1>0, <1>3, CallsMade, StatusFacts, BeginType DEF EvidenceBegin
  <1>4. ASSUME NEW d \in Disputes, EscalateBegin(c, d) PROVE TypeOK'
    BY <1>4, CallsMade, BeginType DEF EscalateBegin
  <1>5. ASSUME NEW d \in Disputes, NEW to \in {"RESOLVED", "REFUNDED"},
               ResolveBegin(c, d, to)
        PROVE  TypeOK'
    BY <1>5, CallsMade, BeginType DEF ResolveBegin
  <1>6. ASSUME NEW d \in Disputes, AppealBegin(c, d) PROVE TypeOK'
    BY <1>6, CallsMade, BeginType DEF AppealBegin
  <1>7. ASSUME NEW d \in Disputes, NEW accepted \in BOOLEAN,
               ReviewBegin(c, d, accepted)
        PROVE  TypeOK'
    <2>1. PICK to \in Statuses :
            Begin(c, [op |-> "review", d |-> d, to |-> to])
      BY <1>0, <1>7, StatusFacts DEF ReviewBegin
    <2> QED BY <2>1, CallsMade, BeginType
  <1>8. ASSUME NEW to \in DOMAIN EscrowSources, EscrowBegin(c, to) PROVE TypeOK'
    BY <1>8, CallsMade, BeginType DEF EscrowBegin
  <1> QED BY <1>1, <1>2, <1>3, <1>4, <1>5, <1>6, <1>7, <1>8 DEF BeginCall

(* A decision keeps the timeline and the escrow well-formed.                 *)
LEMMA DecideType ==
    ASSUME TypeOK, NEW d \in Disputes, NEW to \in Statuses, Decide(d, to)
    PROVE  /\ verdicts' \in [Disputes -> SUBSET Verdicts]
           /\ escrow' \in EscrowStatuses /\ refunded' \in BOOLEAN
  BY VerdictFacts DEF TypeOK, Decide, EscrowAfter

LEMMA StatusType ==
    ASSUME TypeOK, NEW d \in Disputes, NEW to \in Statuses, SetStatus(d, to)
    PROVE  dispute' \in [Disputes -> DisputeRow]
  BY DEF TypeOK, SetStatus, DisputeRow

\* What AppealCommit makes of a dispute's row, and what EvidenceCommit does.
LEMMA AppealedRow ==
    ASSUME NEW f \in [Disputes -> DisputeRow], NEW d \in Disputes
    PROVE  [f EXCEPT ![d].appeal = TRUE, ![d].status = "APPEALED"]
               \in [Disputes -> DisputeRow]
  BY StatusFacts DEF DisputeRow

LEMMA EvidenceRow ==
    ASSUME NEW f \in [Disputes -> DisputeRow], NEW d \in Disputes, NEW g, NEW saw,
           g = [f EXCEPT ![d].evidence = @ + 1,
                         ![d].status = IF saw = "OPEN" THEN "EVIDENCE_PENDING" ELSE @]
    PROVE  /\ g[d].status \in {f[d].status, "EVIDENCE_PENDING"}
           /\ g[d].appeal = f[d].appeal
           /\ \A k \in Disputes \ {d} : g[k] = f[k]
  BY DEF DisputeRow

LEMMA ContinueType ==
    ASSUME TypeOK, NEW c \in Calls, Continue(c)
    PROVE  TypeOK'
  <1>0. call[c] \in Call
    BY DEF TypeOK
  <1>1. CASE CreateCommit(c)
    BY <1>1, CallsMade, StatusFacts, StatusType
    DEF CreateCommit, Answer, Then, TypeOK, EscrowStatuses
  <1>2. CASE UpdateCommit(c)
    <2>1. call[c].d \in Disputes /\ call[c].to \in Statuses
      BY <1>0, <1>2, CallKinds DEF UpdateCommit
    <2>2. call' \in [Calls -> Call] /\ UNCHANGED <<listed, requests>>
      BY <1>2, <2>1, CallsMade DEF UpdateCommit, Answer, Then, TypeOK
    <2>3. dispute' \in [Disputes -> DisputeRow]
      BY <1>2, <2>1, StatusType DEF UpdateCommit
    <2> QED BY <1>2, <2>1, <2>2, <2>3, DecideType DEF UpdateCommit, TypeOK
  <1>3. CASE Distrust(c)
    BY <1>0, <1>3, CallKinds, CallsMade DEF Distrust, Answer, Then, TypeOK, money
  <1>4. CASE EvidenceCommit(c)
    <2>1. call[c].d \in Disputes
      BY <1>0, <1>4, CallKinds DEF EvidenceCommit
    <2>2. dispute' \in [Disputes -> DisputeRow]
      BY <1>4, <2>1, StatusFacts DEF EvidenceCommit, TypeOK, DisputeRow
    <2> QED BY <1>4, <2>2, CallsMade DEF EvidenceCommit, Answer, Then, TypeOK, money
  <1>5. CASE EscalateCommit(c)
    BY <1>0, <1>5, CallKinds, CallsMade, StatusFacts, StatusType
    DEF EscalateCommit, Answer, Then, TypeOK, money
  <1>6. CASE EscalateTorn(c)
    BY <1>0, <1>6, CallKinds, CallsMade DEF EscalateTorn, Answer, Then, TypeOK, money
  <1>7. CASE ResolveCommit(c)
    <2>1. call[c].d \in Disputes /\ call[c].to \in Statuses
      BY <1>0, <1>7, CallKinds, StatusFacts DEF ResolveCommit
    <2>2. dispute' \in [Disputes -> DisputeRow]
      BY <1>7, <2>1 DEF ResolveCommit, TypeOK, DisputeRow
    <2>3. call' \in [Calls -> Call] /\ UNCHANGED <<listed, requests>>
      BY <1>7, <2>1, CallsMade DEF ResolveCommit, Then, TypeOK
    <2> QED BY <1>7, <2>1, <2>2, <2>3, DecideType DEF ResolveCommit, TypeOK
  <1>8. CASE AppealCommit(c)
    <2>1. call[c].d \in Disputes
      BY <1>0, <1>8, CallKinds DEF AppealCommit
    <2>5. dispute' \in [Disputes -> DisputeRow]
      BY <1>8, <2>1, AppealedRow DEF AppealCommit, TypeOK
    <2> QED BY <1>8, <2>5, CallsMade DEF AppealCommit, Answer, Then, TypeOK, money
  <1>9. CASE ReviewCommit(c)
    <2>1. call[c].d \in Disputes /\ call[c].to \in Statuses
      BY <1>0, <1>9, CallKinds DEF ReviewCommit
    <2>2. dispute' \in [Disputes -> DisputeRow]
      BY <1>9, <2>1, StatusType DEF ReviewCommit
    <2> QED BY <1>9, <2>2, CallsMade DEF ReviewCommit, Answer, Then, TypeOK, money
  <1>10. CASE UniqueKeyRefused(c)
    BY <1>10, CallsMade DEF UniqueKeyRefused, Answer, Then, TypeOK, money
  <1>11. CASE EscrowCommit(c)
    BY <1>0, <1>11, CallKinds, CallsMade
    DEF EscrowCommit, Answer, Then, TypeOK, EscrowStatuses
  <1> QED BY <1>1, <1>2, <1>3, <1>4, <1>5, <1>6, <1>7, <1>8, <1>9, <1>10, <1>11
          DEF Continue

LEMMA NextType == ASSUME TypeOK, [Next]_vars PROVE TypeOK'
  <1>1. ASSUME NEW d \in Disputes, ProcessorIgnores(d) PROVE TypeOK'
    BY <1>1 DEF ProcessorIgnores, TypeOK, money
  <1>2. ASSUME NEW d \in Disputes, ExpiryNext(d) PROVE TypeOK'
    <2>1. dispute' \in [Disputes -> DisputeRow]
      BY <1>2, StatusFacts, StatusType DEF ExpiryNext, TypeOK
    <2> QED BY <1>2, <2>1 DEF ExpiryNext, TypeOK, money
  <1>3. ASSUME NEW old \in SUBSET Disputes, ExpiryList(old) PROVE TypeOK'
    BY <1>3 DEF ExpiryList, TypeOK, money
  <1>4. CASE Hold
    BY <1>4 DEF Hold, TypeOK, EscrowStatuses
  <1>5. CASE PaymentRefund
    BY <1>5 DEF PaymentRefund, TypeOK, EscrowStatuses
  <1>6. CASE UNCHANGED vars
    BY <1>6 DEF vars, TypeOK
  <1> QED BY <1>1, <1>2, <1>3, <1>4, <1>5, <1>6, BeginCallType, ContinueType DEF Next

LEMMA InitType == Init => TypeOK
  <1>1. Idle \in Call
    BY CallsMade
  <1>2. [status |-> "ABSENT", appeal |-> FALSE, resolved |-> FALSE,
         evidence |-> 0] \in DisputeRow
    BY DEF DisputeRow
  <1>3. ASSUME Init
        PROVE  /\ dispute \in [Disputes -> DisputeRow]
               /\ call \in [Calls -> Call]
               /\ verdicts \in [Disputes -> SUBSET Verdicts]
    BY <1>1, <1>2, <1>3 DEF Init
  <1>4. ASSUME Init PROVE requests \in 0..MaxRequests
    BY <1>4, ConstantsAssumption DEF Init
  <1> QED BY <1>3, <1>4 DEF Init, TypeOK, EscrowStatuses

(* Rows and requests stay well-formed.                                       *)
THEOREM TypeCorrect == Spec => []TypeOK
  BY InitType, NextType, PTL DEF Spec

-----------------------------------------------------------------------------
(* The invariant behind the theorems.  None of the three properties of       *)
(* DisputeResolution is inductive alone: a resolved or rejected status and a *)
(* request to appeal or to review must be known to come from a decision, and *)
(* a row nobody created must have no decisions.                              *)
Decided(d) == verdicts[d] \cap {"RESOLVED", "REJECTED"} # {}

AbsentUndecided == \A d \in Disputes : ~Exists(d) => verdicts[d] = {}
StatusFollowsVerdict ==
    \A d \in Disputes : Status(d) \in {"RESOLVED", "REJECTED"} => Decided(d)
CallsJustified ==
    \A c \in Calls :
        /\ call[c].op \in {"appeal", "review"} => Decided(call[c].d)
        /\ call[c].op = "update" => call[c].saw \notin Closed

IInv ==
    /\ TypeOK
    /\ DisputedAwaitsVerdict
    /\ MoneyMovedByVerdict
    /\ AppealFollowsVerdict
    /\ AbsentUndecided
    /\ StatusFollowsVerdict
    /\ CallsJustified

(* Every part of the invariant but the types: what a proof of one step shows.*)
Justified ==
    /\ DisputedAwaitsVerdict /\ MoneyMovedByVerdict /\ AppealFollowsVerdict
    /\ AbsentUndecided /\ StatusFollowsVerdict /\ CallsJustified

(* A request that begins leaves the rows alone; it is justified if what it   *)
(* read is.                                                                  *)
LEMMA BeginJustified ==
    ASSUME IInv, NEW c \in Calls, NEW next \in Call, Begin(c, next),
           next.op \in {"appeal", "review"} => Decided(next.d),
           next.op = "update" => next.saw \notin Closed
    PROVE  Justified'
  <1>1. UNCHANGED <<dispute, verdicts, escrow, refunded>>
    BY DEF Begin, money
  <1>2. CallsJustified'
    BY <1>1 DEF IInv, CallsJustified, Begin, Decided, TypeOK
  <1> QED BY <1>1, <1>2
          DEF IInv, Justified, DisputedAwaitsVerdict, MoneyMovedByVerdict,
              AppealFollowsVerdict, AbsentUndecided, StatusFollowsVerdict,
              Exists, Status, Decided

LEMMA BeginCallJustified ==
    ASSUME IInv, NEW c \in Calls, BeginCall(c)
    PROVE  Justified'
  <1>0. /\ \A d \in Disputes : Exists(d) => Status(d) \in Statuses
        /\ TypeOK
    BY DEF IInv, TypeOK, DisputeRow, Exists, Status
  <1>1. CASE CreateBegin(c)
    BY <1>0, <1>1, CallsMade, BeginJustified DEF CreateBegin, TypeOK
  <1>2. ASSUME NEW d \in Disputes, NEW to \in Statuses, UpdateBegin(c, d, to)
        PROVE  Justified'
    <2>1. Status(d) \notin Closed
      BY <1>2 DEF UpdateBegin, STATUS_FLOW, Closed
    <2> QED BY <1>0, <1>2, <2>1, CallsMade, BeginJustified DEF UpdateBegin
  <1>3. ASSUME NEW d \in Disputes, EvidenceBegin(c, d) PROVE Justified'
    BY <1>0, <1>3, CallsMade, StatusFacts, BeginJustified DEF EvidenceBegin
  <1>4. ASSUME NEW d \in Disputes, EscalateBegin(c, d) PROVE Justified'
    BY <1>4, CallsMade, BeginJustified DEF EscalateBegin
  <1>5. ASSUME NEW d \in Disputes, NEW to \in {"RESOLVED", "REFUNDED"},
               ResolveBegin(c, d, to)
        PROVE  Justified'
    BY <1>5, CallsMade, BeginJustified DEF ResolveBegin
  <1>6. ASSUME NEW d \in Disputes, AppealBegin(c, d) PROVE Justified'
    <2>1. Decided(d)
      BY <1>6 DEF AppealBegin, IInv, StatusFollowsVerdict
    <2> QED BY <1>6, <2>1, CallsMade, BeginJustified DEF AppealBegin
  <1>7. ASSUME NEW d \in Disputes, NEW accepted \in BOOLEAN,
               ReviewBegin(c, d, accepted)
        PROVE  Justified'
    <2>1. PICK to \in Statuses :
            Begin(c, [op |-> "review", d |-> d, to |-> to])
      BY <1>0, <1>7, StatusFacts DEF ReviewBegin
    <2>2. Decided(d)
      BY <1>7 DEF ReviewBegin, IInv, AppealFollowsVerdict, Decided
    <2> QED BY <2>1, <2>2, CallsMade, BeginJustified
  <1>8. ASSUME NEW to \in DOMAIN EscrowSources, EscrowBegin(c, to) PROVE Justified'
    BY <1>8, CallsMade, BeginJustified DEF EscrowBegin
  <1> QED BY <1>1, <1>2, <1>3, <1>4, <1>5, <1>6, <1>7, <1>8 DEF BeginCall

(* A transaction ends its request, or leaves it with the trust score.        *)
LEMMA AnswerJustified ==
    ASSUME IInv, NEW c \in Calls, NEW next, Then(c, next),
           next.op \notin {"appeal", "review", "update"},
           \A d \in Disputes : verdicts[d] \subseteq verdicts'[d]
    PROVE  CallsJustified'
  <1> SUFFICES ASSUME NEW k \in Calls
               PROVE  /\ call'[k].op \in {"appeal", "review"}
                           => verdicts'[call'[k].d] \cap {"RESOLVED", "REJECTED"} # {}
                      /\ call'[k].op = "update" => call'[k].saw \notin Closed
    BY DEF CallsJustified, Decided
  <1>1. CASE k = c
    BY <1>1 DEF Then, IInv, TypeOK
  <1>2. CASE k # c
    <2>1. call'[k] = call[k] /\ call[k] \in Call
      BY <1>2 DEF Then, IInv, TypeOK
    <2>2. call[k].op \in {"appeal", "review"}
            => call[k].d \in Disputes /\ Decided(call[k].d)
      BY <2>1, CallKinds DEF IInv, CallsJustified
    <2> QED BY <2>1, <2>2 DEF Decided, IInv, CallsJustified
  <1> QED BY <1>1, <1>2

(* A decision moves the escrow to what it says and is on the timeline.       *)
LEMMA DecisionJustified ==
    ASSUME IInv, NEW d \in Disputes, NEW to \in Statuses, Decide(d, to),
           dispute' \in [Disputes -> DisputeRow],
           dispute'[d].status = to, dispute'[d].appeal = dispute[d].appeal,
           \A e \in Disputes \ {d} : dispute'[e] = dispute[e]
    PROVE  /\ \A e \in Disputes : verdicts[e] \subseteq verdicts'[e]
           /\ DisputedAwaitsVerdict' /\ MoneyMovedByVerdict'
           /\ AppealFollowsVerdict' /\ AbsentUndecided'
           /\ StatusFollowsVerdict'
  <1>0. TypeOK
    BY DEF IInv
  <1>1. /\ verdicts'[d] = verdicts[d] \cup ({to} \cap Verdicts)
        /\ \A e \in Disputes \ {d} : verdicts'[e] = verdicts[e]
    BY <1>0 DEF Decide, TypeOK
  <1>2. \A e \in Disputes : verdicts[e] \subseteq verdicts'[e]
    BY <1>1
  <1>3. DisputedAwaitsVerdict'
    <2> SUFFICES ASSUME escrow' = "DISPUTED"
                 PROVE  \E e \in Disputes : Exists(e)' /\ verdicts'[e] = {}
      BY DEF DisputedAwaitsVerdict
    <2>1. escrow = "DISPUTED" /\ to \notin Verdicts
      BY VerdictFacts DEF Decide, EscrowAfter
    <2>2. PICK e \in Disputes : Exists(e) /\ verdicts[e] = {}
      BY <2>1 DEF IInv, DisputedAwaitsVerdict
    <2>3. verdicts'[e] = {}
      BY <1>1, <2>1, <2>2
    <2>4. Exists(e)'
      BY <2>2, StatusFacts DEF Exists, Status
    <2> QED BY <2>3, <2>4
  <1>4. MoneyMovedByVerdict'
    <2>1. CASE to \in Verdicts /\ escrow # "NONE"
      <3>1. escrow' = EscrowOf[to] /\ to \in verdicts'[d]
        BY <1>1, <2>1 DEF Decide, EscrowAfter
      <3> QED BY <2>1, <3>1, VerdictFacts DEF MoneyMovedByVerdict
    <2>2. CASE ~(to \in Verdicts /\ escrow # "NONE")
      <3>1. escrow' = escrow /\ refunded' = refunded
        BY <2>2 DEF Decide, EscrowAfter
      <3> QED BY <1>2, <3>1 DEF IInv, MoneyMovedByVerdict
    <2> QED BY <2>1, <2>2
  <1>5. AppealFollowsVerdict'
    <2>1. \A e \in Disputes : dispute'[e].appeal = dispute[e].appeal
      OBVIOUS
    <2> QED BY <1>2, <2>1 DEF IInv, AppealFollowsVerdict
  <1>6. AbsentUndecided'
    BY <1>1, StatusFacts DEF IInv, AbsentUndecided, Exists, Status
  <1>7. StatusFollowsVerdict'
    BY <1>1, <1>2, VerdictFacts DEF IInv, StatusFollowsVerdict, Status, Decided
  <1> QED BY <1>2, <1>3, <1>4, <1>5, <1>6, <1>7

LEMMA ContinueJustified ==
    ASSUME IInv, NEW c \in Calls, Continue(c)
    PROVE  Justified'
  <1>0. TypeOK /\ call[c] \in Call /\ TypeOK'
    BY ContinueType DEF IInv, TypeOK
  <1>idle. Idle.op \notin {"appeal", "review", "update"}
    BY DEF Idle
  <1>1. CASE CreateCommit(c)
    <2>1. PICK d \in Disputes : ~Exists(d) /\ SetStatus(d, "OPEN")
      BY <1>1 DEF CreateCommit
    <2>2. /\ dispute'[d] = [dispute[d] EXCEPT !.status = "OPEN"]
          /\ \A e \in Disputes \ {d} : dispute'[e] = dispute[e]
          /\ dispute[d] \in DisputeRow
      BY <1>0, <2>1 DEF SetStatus, TypeOK
    <2>3. verdicts' = verdicts /\ refunded' = refunded /\ Then(c, Idle)
      BY <1>1 DEF CreateCommit, Answer
    <2>4. CallsJustified'
      BY <1>idle, <2>3, AnswerJustified
    <2>5. DisputedAwaitsVerdict'
      <3>1. Exists(d)' /\ verdicts'[d] = {}
        BY <2>1, <2>2, <2>3 DEF IInv, AbsentUndecided, Exists, Status, DisputeRow
      <3> QED BY <3>1 DEF DisputedAwaitsVerdict
    <2>6. MoneyMovedByVerdict'
      BY <1>1, <2>3 DEF CreateCommit, IInv, MoneyMovedByVerdict
    <2>7. AppealFollowsVerdict'
      <3>1. \A e \in Disputes : dispute'[e].appeal = dispute[e].appeal
        BY <2>2 DEF DisputeRow
      <3> QED BY <2>3, <3>1 DEF IInv, AppealFollowsVerdict
    <2>8. AbsentUndecided' /\ StatusFollowsVerdict'
      BY <2>2, <2>3 DEF IInv, AbsentUndecided, StatusFollowsVerdict, Exists, Status,
                        Decided, DisputeRow
    <2> QED BY <2>4, <2>5, <2>6, <2>7, <2>8 DEF Justified
  <1>2. CASE UpdateCommit(c)
    <2> DEFINE d == call[c].d  to == call[c].to
    <2>1. d \in Disputes /\ to \in Statuses
      BY <1>0, <1>2, CallKinds DEF UpdateCommit
    <2>2. SetStatus(d, to) /\ Decide(d, to)
      BY <1>2 DEF UpdateCommit
    <2>3. /\ dispute' \in [Disputes -> DisputeRow]
          /\ dispute'[d].status = to /\ dispute'[d].appeal = dispute[d].appeal
          /\ \A e \in Disputes \ {d} : dispute'[e] = dispute[e]
      <3> HIDE DEF to
      <3> QED BY <1>0, <2>1, <2>2 DEF SetStatus, TypeOK, DisputeRow
    <2>4. PICK next : /\ Then(c, next)
                      /\ next.op \notin {"appeal", "review", "update"}
      BY <1>2, <1>idle DEF UpdateCommit, Answer
    <2> HIDE DEF d, to
    <2> QED BY <2>1, <2>2, <2>3, <2>4, DecisionJustified, AnswerJustified DEF Justified
  <1>3. CASE ResolveCommit(c)
    <2> DEFINE d == call[c].d  to == call[c].to
    <2>1. d \in Disputes /\ to \in Statuses
      BY <1>0, <1>3, CallKinds, StatusFacts DEF ResolveCommit
    <2>2. /\ Decide(d, to) /\ Then(c, [op |-> "distrust", d |-> d])
          /\ dispute' = [dispute EXCEPT ![d].resolved = TRUE, ![d].status = to]
      BY <1>3 DEF ResolveCommit
    <2>3. /\ dispute' \in [Disputes -> DisputeRow]
          /\ dispute'[d].status = to /\ dispute'[d].appeal = dispute[d].appeal
          /\ \A e \in Disputes \ {d} : dispute'[e] = dispute[e]
      <3> HIDE DEF to
      <3> QED BY <1>0, <2>1, <2>2 DEF TypeOK, DisputeRow
    <2>4. PICK next : /\ Then(c, next)
                      /\ next.op \notin {"appeal", "review", "update"}
      BY <2>2
    <2> HIDE DEF d, to
    <2> QED BY <2>1, <2>2, <2>3, <2>4, DecisionJustified, AnswerJustified DEF Justified
  \* The transactions that decide nothing: the timeline stays, and so does the
  \* money but in EscrowCommit.
  <1>4. ASSUME verdicts' = verdicts, refunded => refunded',
               escrow' = escrow \/ (escrow' \in {"FROZEN", "HELD", "REFUNDED"}
                                    /\ (escrow' = "REFUNDED" => refunded')),
               Then(c, Idle),
               \A d \in Disputes :
                   /\ Exists(d) => Exists(d)'
                   /\ Status(d)' \in {"RESOLVED", "REJECTED"} => Decided(d)
                   /\ dispute'[d].appeal => Decided(d)
                   /\ ~Exists(d)' => verdicts[d] = {}
        PROVE  Justified'
    <2>1. CallsJustified'
      BY <1>4, <1>idle, AnswerJustified
    <2>2. DisputedAwaitsVerdict'
      BY <1>4 DEF IInv, DisputedAwaitsVerdict
    <2>3. MoneyMovedByVerdict'
      BY <1>4 DEF IInv, MoneyMovedByVerdict
    <2>4. AppealFollowsVerdict' /\ AbsentUndecided' /\ StatusFollowsVerdict'
      BY <1>4 DEF AppealFollowsVerdict, AbsentUndecided, StatusFollowsVerdict, Decided
    <2> QED BY <2>1, <2>2, <2>3, <2>4 DEF Justified
  <1>5. ASSUME dispute' = dispute
        PROVE  \A d \in Disputes :
                   /\ Exists(d) => Exists(d)'
                   /\ Status(d)' \in {"RESOLVED", "REJECTED"} => Decided(d)
                   /\ dispute'[d].appeal => Decided(d)
                   /\ ~Exists(d)' => verdicts[d] = {}
    BY <1>5 DEF IInv, Exists, Status, Decided, StatusFollowsVerdict,
                AppealFollowsVerdict, AbsentUndecided
  <1>6. ASSUME NEW e \in Disputes, dispute'[e].status \in Statuses,
               \A d \in Disputes \ {e} : dispute'[d] = dispute[d],
               dispute'[e].status \in {"RESOLVED", "REJECTED"} => Decided(e),
               dispute'[e].appeal => Decided(e)
        PROVE  \A d \in Disputes :
                   /\ Exists(d) => Exists(d)'
                   /\ Status(d)' \in {"RESOLVED", "REJECTED"} => Decided(d)
                   /\ dispute'[d].appeal => Decided(d)
                   /\ ~Exists(d)' => verdicts[d] = {}
    BY <1>6, StatusFacts DEF IInv, Exists, Status, Decided, StatusFollowsVerdict,
                             AppealFollowsVerdict, AbsentUndecided
  <1>7. CASE Distrust(c)
    BY <1>4, <1>5, <1>7 DEF Distrust, Answer, money
  <1>8. CASE EvidenceCommit(c)
    <2> DEFINE e == call[c].d
    <2>1. e \in Disputes
      BY <1>0, <1>8, CallKinds DEF EvidenceCommit
    <2>2. /\ dispute'[e].status \in {dispute[e].status, "EVIDENCE_PENDING"}
          /\ dispute'[e].appeal = dispute[e].appeal
          /\ \A d \in Disputes \ {e} : dispute'[d] = dispute[d]
      <3>1. dispute' = [dispute EXCEPT ![e].evidence = @ + 1,
                          ![e].status = IF call[c].saw = "OPEN" THEN "EVIDENCE_PENDING"
                                        ELSE @]
        BY <1>8 DEF EvidenceCommit
      <3>2. dispute \in [Disputes -> DisputeRow]
        BY DEF IInv, TypeOK
      <3> HIDE DEF e
      <3> QED BY <2>1, <3>1, <3>2, EvidenceRow
    <2>3. \A d \in Disputes :
            /\ Exists(d) => Exists(d)'
            /\ Status(d)' \in {"RESOLVED", "REJECTED"} => Decided(d)
            /\ dispute'[d].appeal => Decided(d)
            /\ ~Exists(d)' => verdicts[d] = {}
      <3> HIDE DEF e
      <3> QED BY <2>1, <2>2
              DEF IInv, Exists, Status, Decided, StatusFollowsVerdict,
                  AppealFollowsVerdict, AbsentUndecided
    <2> QED BY <1>4, <1>8, <2>3 DEF EvidenceCommit, Answer, money
  <1>9. CASE EscalateCommit(c)
    <2> DEFINE e == call[c].d
    <2>1. e \in Disputes
      BY <1>0, <1>9, CallKinds DEF EscalateCommit
    <2>2. /\ dispute'[e].status = "ESCALATED"
          /\ dispute'[e].appeal = dispute[e].appeal
          /\ \A d \in Disputes \ {e} : dispute'[d] = dispute[d]
      BY <1>0, <1>9, <2>1 DEF EscalateCommit, SetStatus, TypeOK, DisputeRow
    <2>3. dispute[e].appeal => Decided(e)
      BY <2>1 DEF IInv, AppealFollowsVerdict, Decided
    <2> HIDE DEF e
    <2>4. \A d \in Disputes :
            /\ Exists(d) => Exists(d)'
            /\ Status(d)' \in {"RESOLVED", "REJECTED"} => Decided(d)
            /\ dispute'[d].appeal => Decided(d)
            /\ ~Exists(d)' => verdicts[d] = {}
      BY <1>6, <2>1, <2>2, <2>3, StatusFacts
    <2> QED BY <1>4, <1>9, <2>4 DEF EscalateCommit, Answer, money
  <1>10. CASE EscalateTorn(c)
    BY <1>4, <1>5, <1>10 DEF EscalateTorn, Answer, money
  <1>11. CASE AppealCommit(c)
    <2> DEFINE e == call[c].d
    <2>1. e \in Disputes /\ Decided(e)
      BY <1>0, <1>11, CallKinds DEF AppealCommit, IInv, CallsJustified
    <2>2. /\ dispute'[e].status = "APPEALED"
          /\ \A d \in Disputes \ {e} : dispute'[d] = dispute[d]
      BY <1>0, <1>11, <2>1 DEF AppealCommit, TypeOK, DisputeRow
    <2> HIDE DEF e
    <2>3. \A d \in Disputes :
            /\ Exists(d) => Exists(d)'
            /\ Status(d)' \in {"RESOLVED", "REJECTED"} => Decided(d)
            /\ dispute'[d].appeal => Decided(d)
            /\ ~Exists(d)' => verdicts[d] = {}
      BY <1>6, <2>1, <2>2, StatusFacts
    <2> QED BY <1>4, <1>11, <2>3 DEF AppealCommit, Answer, money
  <1>12. CASE ReviewCommit(c)
    <2> DEFINE e == call[c].d
    <2>1. e \in Disputes /\ Decided(e) /\ call[c].to \in Statuses
      BY <1>0, <1>12, CallKinds DEF ReviewCommit, IInv, CallsJustified
    <2>2. /\ dispute'[e].status \in Statuses
          /\ \A d \in Disputes \ {e} : dispute'[d] = dispute[d]
      BY <1>0, <1>12, <2>1 DEF ReviewCommit, SetStatus, TypeOK, DisputeRow
    <2> HIDE DEF e
    <2>3. \A d \in Disputes :
            /\ Exists(d) => Exists(d)'
            /\ Status(d)' \in {"RESOLVED", "REJECTED"} => Decided(d)
            /\ dispute'[d].appeal => Decided(d)
            /\ ~Exists(d)' => verdicts[d] = {}
      BY <1>6, <2>1, <2>2
    <2> QED BY <1>4, <1>12, <2>3 DEF ReviewCommit, Answer, money
  <1>13. CASE UniqueKeyRefused(c)
    BY <1>4, <1>5, <1>13 DEF UniqueKeyRefused, Answer, money
  <1>14. CASE EscrowCommit(c)
    <2>1. escrow' \in {"FROZEN", "HELD", "REFUNDED"}
      BY <1>0, <1>14, CallKinds DEF EscrowCommit
    <2> QED BY <1>4, <1>5, <1>14, <2>1 DEF EscrowCommit, Answer
  <1> QED BY <1>1, <1>2, <1>3, <1>7, <1>8, <1>9, <1>10, <1>11, <1>12, <1>13, <1>14
          DEF Continue

LEMMA Inductive ==
    /\ Init => IInv
    /\ IInv /\ [Next]_vars => IInv'
  <1>1. ASSUME Init PROVE IInv
    <2>1. TypeOK
      BY <1>1, InitType
    <2>2. \A d \in Disputes : Status(d) = "ABSENT" /\ ~dispute[d].appeal
                              /\ verdicts[d] = {}
      BY <1>1 DEF Init, Status
    <2>3. \A c \in Calls : call[c].op = "idle"
      BY <1>1 DEF Init, Idle
    <2> QED BY <1>1, <2>1, <2>2, <2>3
            DEF IInv, DisputedAwaitsVerdict, MoneyMovedByVerdict,
                AppealFollowsVerdict, AbsentUndecided, StatusFollowsVerdict,
                CallsJustified, Init
  <1>2. ASSUME IInv, [Next]_vars PROVE Justified'
    <2>1. ASSUME UNCHANGED <<verdicts, call>>, refunded => refunded',
                 escrow' = escrow \/ escrow' = "HELD" \/ (escrow' = "REFUNDED" /\ refunded'),
                 \A d \in Disputes :
                     /\ Status(d)' = Status(d) \/ Status(d)' = "EXPIRED"
                     /\ dispute'[d].appeal = dispute[d].appeal
          PROVE  Justified'
      <3>1. CallsJustified' /\ AbsentUndecided' /\ StatusFollowsVerdict'
                           /\ AppealFollowsVerdict'
        BY <1>2, <2>1 DEF IInv, CallsJustified, AbsentUndecided, Decided, Exists,
                          StatusFollowsVerdict, AppealFollowsVerdict
      <3>2. DisputedAwaitsVerdict' /\ MoneyMovedByVerdict'
        BY <1>2, <2>1 DEF IInv, DisputedAwaitsVerdict, MoneyMovedByVerdict, Exists
      <3> QED BY <3>1, <3>2 DEF Justified
    <2>2. ASSUME NEW d \in Disputes, ProcessorIgnores(d) PROVE Justified'
      BY <2>1, <2>2 DEF ProcessorIgnores, money, Status
    <2>3. ASSUME NEW e \in Disputes, ExpiryNext(e) PROVE Justified'
      <3>1. \A d \in Disputes :
              /\ Status(d)' = Status(d) \/ Status(d)' = "EXPIRED"
              /\ dispute'[d].appeal = dispute[d].appeal
        BY <1>2, <2>3 DEF ExpiryNext, SetStatus, Status, IInv, TypeOK, DisputeRow
      <3> QED BY <2>1, <2>3, <3>1 DEF ExpiryNext, money
    <2>4. ASSUME NEW old \in SUBSET Disputes, ExpiryList(old) PROVE Justified'
      BY <2>1, <2>4 DEF ExpiryList, money, Status
    <2>5. CASE Hold
      BY <2>1, <2>5 DEF Hold, Status
    <2>6. CASE PaymentRefund
      BY <2>1, <2>6 DEF PaymentRefund, Status
    <2>7. CASE UNCHANGED vars
      BY <2>1, <2>7 DEF vars, Status
    <2> QED BY <1>2, <2>2, <2>3, <2>4, <2>5, <2>6, <2>7, BeginCallJustified,
               ContinueJustified DEF Next
  <1> QED BY <1>1, <1>2, NextType DEF IInv, Justified

(* However requests, jobs and disputes overlap, an escrow under dispute has  *)
(* an undecided dispute.                                                     *)
THEOREM DisputedEscrowHasACase == Spec => []DisputedAwaitsVerdict
  <1>1. IInv => DisputedAwaitsVerdict
    BY DEF IInv
  <1> QED BY <1>1, Inductive, PTL DEF Spec

(* Money leaves the escrow by a decision or by a refund, never otherwise.    *)
THEOREM MoneyFollowsVerdicts == Spec => []MoneyMovedByVerdict
  <1>1. IInv => MoneyMovedByVerdict
    BY DEF IInv
  <1> QED BY <1>1, Inductive, PTL DEF Spec

(* Every appeal is of a dispute that was resolved or rejected.               *)
THEOREM AppealsFollowVerdicts == Spec => []AppealFollowsVerdict
  <1>1. IInv => AppealFollowsVerdict
    BY DEF IInv
  <1> QED BY <1>1, Inductive, PTL DEF Spec

-----------------------------------------------------------------------------
(* Only the transactions about a dispute write its status.                   *)
LEMMA WhoReopens ==
    ASSUME IInv, NEW c \in Calls, Continue(c), NEW d \in Disputes,
           Status(d) \in Closed, Status(d)' \notin Closed
    PROVE  MayReopen(c, d) /\ call'[c] # call[c]
  <1>0. /\ TypeOK /\ dispute \in [Disputes -> DisputeRow]
        /\ call \in [Calls -> Call] /\ call[c] \in Call
        /\ "ABSENT" \notin Closed /\ "OPEN" \notin Closed
    BY DEF IInv, TypeOK, Closed
  <1>1. CASE CreateCommit(c)
    BY <1>0, <1>1 DEF CreateCommit, SetStatus, Status, Exists
  <1>2. CASE UpdateCommit(c)
    <2>1. d = call[c].d /\ call[c].op = "update" /\ call[c].saw \notin Closed
      BY <1>0, <1>2 DEF UpdateCommit, SetStatus, Status, IInv, CallsJustified
    <2>2. call'[c].op \in {"distrust", "idle"}
      BY <1>0, <1>2 DEF UpdateCommit, Answer, Then, Idle
    <2> QED BY <2>1, <2>2 DEF MayReopen, Idle
  <1>3. CASE Distrust(c) \/ EscalateTorn(c) \/ UniqueKeyRefused(c) \/ EscrowCommit(c)
    BY <1>3 DEF Distrust, EscalateTorn, UniqueKeyRefused, EscrowCommit, Status
  <1>4. CASE EvidenceCommit(c)
    <2>1. d = call[c].d /\ call[c].op = "evidence" /\ call[c].saw = "OPEN"
      BY <1>0, <1>4 DEF EvidenceCommit, Status, DisputeRow
    <2>2. call'[c].op = "idle"
      BY <1>0, <1>4 DEF EvidenceCommit, Answer, Then, Idle
    <2> QED BY <1>0, <2>1, <2>2 DEF MayReopen, Idle
  <1>5. CASE EscalateCommit(c) \/ ResolveCommit(c) \/ AppealCommit(c) \/ ReviewCommit(c)
    <2>1. call[c].op \in {"escalate", "resolve", "appeal", "review"}
      BY <1>5 DEF EscalateCommit, ResolveCommit, AppealCommit, ReviewCommit
    <2>2. d = call[c].d
      BY <1>0, <1>5, CallKinds
      DEF EscalateCommit, ResolveCommit, AppealCommit, ReviewCommit, SetStatus,
          Status, DisputeRow
    <2>3. call'[c].op \in {"distrust", "idle"}
      BY <1>0, <1>5
      DEF EscalateCommit, ResolveCommit, AppealCommit, ReviewCommit, Answer, Then, Idle
    <2> QED BY <2>1, <2>2, <2>3 DEF MayReopen, Idle
  <1> QED BY <1>1, <1>2, <1>3, <1>4, <1>5 DEF Continue

(* A cancelled or expired dispute is opened again only by a resolution, an   *)
(* appeal's review, or a request that had read it earlier.                   *)
THEOREM ClosedDisputesStayClosed == Spec => ClosedStaysClosed
  <1> DEFINE Reopening ==
        \A d \in Disputes :
            Status(d) \in Closed /\ Status(d)' \notin Closed
                => \E c \in Calls : MayReopen(c, d) /\ call'[c] # call[c]
  <1>1. ASSUME IInv, [Next]_vars PROVE Reopening
    <2> SUFFICES ASSUME NEW d \in Disputes, Status(d) \in Closed,
                        Status(d)' \notin Closed
                 PROVE  \E c \in Calls : MayReopen(c, d) /\ call'[c] # call[c]
      OBVIOUS
    <2>1. ASSUME NEW c \in Calls, Continue(c)
          PROVE  \E k \in Calls : MayReopen(k, d) /\ call'[k] # call[k]
      BY <1>1, <2>1, WhoReopens
    <2>2. ASSUME NEW e \in Disputes, ExpiryNext(e) PROVE FALSE
      BY <1>1, <2>2 DEF ExpiryNext, SetStatus, Status, Closed, IInv, TypeOK, DisputeRow
    <2>3. dispute' # dispute
      BY DEF Status
    <2>4. ASSUME NEW c \in Calls, BeginCall(c) PROVE FALSE
      BY <2>3, <2>4 DEF BeginCall, CreateBegin, UpdateBegin, EvidenceBegin,
        EscalateBegin, ResolveBegin, AppealBegin, ReviewBegin, EscrowBegin, Begin
    <2> QED BY <1>1, <2>1, <2>2, <2>3, <2>4
            DEF Next, vars, ProcessorIgnores, ExpiryList, Hold, PaymentRefund
  <1> QED BY <1>1, Inductive, PTL DEF Spec, ClosedStaysClosed

-----------------------------------------------------------------------------
(* A request that neither was nor becomes an upload leaves the uploads.      *)
LEMMA UploadsStay ==
    ASSUME TypeOK, NEW c \in Calls, NEW next, call' = [call EXCEPT ![c] = next],
           call[c].op # "evidence", next.op # "evidence"
    PROVE  \A d \in Disputes : Uploads(d)' = Uploads(d)
  BY DEF TypeOK, Uploads

LEMMA EvidenceStep ==
    ASSUME TypeOK, EvidenceBounded, [Next]_vars
    PROVE  EvidenceBounded'
  <1>0. /\ IsFiniteSet(Calls) /\ Cardinality(Calls) \in Nat
        /\ EvidenceLimit \in Nat
        /\ \A d \in Disputes : dispute[d].evidence \in Nat
        /\ Idle.op = "idle"
    BY ConstantsAssumption, FS_CardinalityType DEF TypeOK, DisputeRow, Idle
  <1>1. \A d \in Disputes : /\ IsFiniteSet(Uploads(d))
                            /\ Cardinality(Uploads(d)) \in Nat
                            /\ Cardinality(Uploads(d))' =< Cardinality(Calls)
                            /\ Cardinality(Uploads(d))' \in Nat
    <2>1. \A d \in Disputes : /\ Uploads(d) \subseteq Calls
                              /\ Uploads(d)' \subseteq Calls
      BY DEF Uploads
    <2> QED BY <1>0, <2>1, FS_Subset, FS_CardinalityType
  <1>2. ASSUME \A d \in Disputes : /\ dispute'[d].evidence = dispute[d].evidence
                                   /\ Uploads(d)' = Uploads(d)
        PROVE  EvidenceBounded'
    BY <1>2 DEF EvidenceBounded
  <1>3. ASSUME NEW c \in Calls, BeginCall(c) PROVE EvidenceBounded'
    <2>0. call[c].op = "idle" /\ dispute' = dispute
      BY <1>0, <1>3 DEF BeginCall, CreateBegin, UpdateBegin, EvidenceBegin,
        EscalateBegin, ResolveBegin, AppealBegin, ReviewBegin, EscrowBegin, Begin
    <2>1. ASSUME NEW e \in Disputes, EvidenceBegin(c, e) PROVE EvidenceBounded'
      <3> SUFFICES ASSUME NEW d \in Disputes
                   PROVE  dispute[d].evidence + Cardinality(Uploads(d))'
                            < EvidenceLimit + Cardinality(Calls)
        BY <2>0 DEF EvidenceBounded
      <3>1. CASE d = e
        BY <1>0, <1>1, <2>1, <3>1 DEF EvidenceBegin
      <3>2. CASE d # e
        <4>1. Uploads(d)' = Uploads(d)
          BY <2>0, <2>1, <3>2 DEF EvidenceBegin, Begin, Uploads, TypeOK
        <4> QED BY <4>1 DEF EvidenceBounded
      <3> QED BY <3>1, <3>2
    <2>2. ASSUME NEW next, Begin(c, next), next.op # "evidence" PROVE EvidenceBounded'
      BY <1>2, <2>0, <2>2, UploadsStay DEF Begin
    <2> QED BY <1>3, <2>1, <2>2
            DEF BeginCall, CreateBegin, UpdateBegin, EscalateBegin,
                ResolveBegin, AppealBegin, ReviewBegin, EscrowBegin
  <1>4. ASSUME NEW c \in Calls, Continue(c) PROVE EvidenceBounded'
    <2>1. CASE EvidenceCommit(c)
      <3>1. PICK e \in Disputes : e = call[c].d /\ c \in Uploads(e)
        BY <2>1, CallKinds DEF EvidenceCommit, TypeOK, Uploads
      <3>2. /\ call' = [call EXCEPT ![c] = Idle]
            /\ dispute'[e].evidence = dispute[e].evidence + 1
            /\ \A d \in Disputes \ {e} : dispute'[d].evidence = dispute[d].evidence
        BY <2>1, <3>1 DEF EvidenceCommit, Answer, Then, TypeOK, DisputeRow
      <3>3. Uploads(e)' = Uploads(e) \ {c}
        BY <1>0, <3>2 DEF TypeOK, Uploads
      <3>4. \A d \in Disputes \ {e} : Uploads(d)' = Uploads(d)
        BY <1>0, <3>1, <3>2 DEF TypeOK, Uploads
      <3>5. Cardinality(Uploads(e))' = Cardinality(Uploads(e)) - 1
        BY <1>1, <3>1, <3>3, FS_RemoveElement
      <3> SUFFICES ASSUME NEW d \in Disputes
                   PROVE  dispute'[d].evidence + Cardinality(Uploads(d))'
                            < EvidenceLimit + Cardinality(Calls)
        BY DEF EvidenceBounded
      <3>6. dispute[d].evidence + Cardinality(Uploads(d))
              < EvidenceLimit + Cardinality(Calls)
        BY DEF EvidenceBounded
      <3>7. CASE d = e
        <4>1. dispute[e].evidence \in Nat /\ Cardinality(Uploads(e)) \in Nat
          BY <1>0, <1>1
        <4> QED BY <3>2, <3>5, <3>6, <3>7, <4>1
      <3>8. CASE d # e
        <4>1. Cardinality(Uploads(d))' = Cardinality(Uploads(d))
          BY <3>4, <3>8
        <4> QED BY <3>2, <3>6, <3>8, <4>1
      <3> QED BY <3>7, <3>8
    <2>2. CASE ~EvidenceCommit(c)
      <3>1. \A d \in Disputes : dispute'[d].evidence = dispute[d].evidence
        BY <1>4, <2>2 DEF Continue, CreateCommit, UpdateCommit, Distrust,
          EscalateCommit, EscalateTorn, ResolveCommit, AppealCommit, ReviewCommit,
          UniqueKeyRefused, EscrowCommit, SetStatus, TypeOK, DisputeRow
      <3>2. call[c].op # "evidence"
        BY <1>4, <2>2 DEF Continue, CreateCommit, UpdateCommit, Distrust,
          EscalateCommit, EscalateTorn, ResolveCommit, AppealCommit, ReviewCommit,
          UniqueKeyRefused, EscrowCommit
      <3>3. PICK next : Then(c, next) /\ next.op # "evidence"
        BY <1>0, <1>4, <2>2 DEF Continue, CreateCommit, UpdateCommit, Distrust,
          EscalateCommit, EscalateTorn, ResolveCommit, AppealCommit, ReviewCommit,
          UniqueKeyRefused, EscrowCommit, Answer
      <3> QED BY <1>2, <3>1, <3>2, <3>3, UploadsStay DEF Then
    <2> QED BY <2>1, <2>2
  <1>5. ASSUME NEW e \in Disputes, ProcessorIgnores(e) \/ ExpiryNext(e)
        PROVE  EvidenceBounded'
    BY <1>2, <1>5 DEF ProcessorIgnores, ExpiryNext, SetStatus, Uploads, TypeOK, DisputeRow
  <1>6. ASSUME NEW old \in SUBSET Disputes, ExpiryList(old) PROVE EvidenceBounded'
    BY <1>2, <1>6 DEF ExpiryList, Uploads
  <1>7. CASE Hold \/ PaymentRefund \/ UNCHANGED vars
    BY <1>2, <1>7 DEF Hold, PaymentRefund, vars, Uploads
  <1> QED BY <1>3, <1>4, <1>5, <1>6, <1>7 DEF Next

(* Files stored for a dispute pass the limit by no more than requests in     *)
(* flight can add: fewer than limit and slots together.                      *)
THEOREM EvidenceStaysBounded ==
    ASSUME Calls # {}
    PROVE  Spec => []EvidenceBounded
  <1>1. ASSUME Init PROVE EvidenceBounded
    <2>1. \A d \in Disputes : dispute[d].evidence = 0 /\ Uploads(d) = {}
      BY <1>1 DEF Init, Uploads, Idle
    <2>2. Cardinality(Calls) \in Nat /\ Cardinality({}) = 0
      BY ConstantsAssumption, FS_CardinalityType, FS_EmptySet
    <2>3. Cardinality(Calls) # 0
      BY ConstantsAssumption, FS_EmptySet
    <2>4. \A d \in Disputes : dispute[d].evidence = 0 /\ Cardinality(Uploads(d)) = 0
      BY <2>1, <2>2
    <2>5. EvidenceLimit \in Nat /\ 0 + 0 < EvidenceLimit + Cardinality(Calls)
      BY <2>2, <2>3, ConstantsAssumption
    <2> QED BY <2>4, <2>5 DEF EvidenceBounded
  <1> QED BY <1>1, InitType, NextType, EvidenceStep, PTL DEF Spec

-----------------------------------------------------------------------------
(***************************************************************************)
(* CatalogImport                                                           *)
(***************************************************************************)

(* Rows of a workbook, of CatalogItem and of ImportJob.                       *)
Row == [name: DOMAIN BaseSlug, parent: STRING, kind: {"plain", "preserved"}]
Item == [slug: Seq(Nat), name: DOMAIN BaseSlug, parent: STRING]
Progress == {"waiting", "orphan", "fresh", "known", "collides", "created",
             "mapped"} \cup Settled
Job == [at: {"new", "parents", "items", "end", "ended", "dead"},
        status: {"NONE", "RUNNING", "COMPLETED", "PARTIAL", "FAILED"},
        book: Seq(Row), batch: Nat, errors: BOOLEAN, created: BOOLEAN]
Parents == STRING \ {Blank}
Rows(i) == DOMAIN job[i].book

(* The slug of an item is unique, and no parent is blank.                    *)
CatalogTypes ==
    /\ items \in SUBSET Item
    /\ \A a, b \in items : a.slug = b.slug => a = b
    /\ parents \in SUBSET Parents
    /\ job \in [Imports -> Job]
    /\ DOMAIN row = Imports
    /\ \A i \in Imports : row[i] \in [Rows(i) -> Progress]
    /\ start \in [Imports -> [items: SUBSET Item, parents: SUBSET Parents]]
    /\ overlapped \in BOOLEAN

(* The rows of an import go batch by batch.                                  *)
Follow(i) ==
    /\ job[i].at = "new" => job[i].status = "NONE"
    /\ job[i].at \in {"new", "parents"} =>
          /\ job[i].batch = 0
          /\ \A r \in Rows(i) : row[i][r] = "waiting"
    /\ job[i].at = "items" => \A r \in Rows(i) :
          /\ Batch(r) < job[i].batch => row[i][r] \in Settled
          /\ Batch(r) > job[i].batch => row[i][r] = "waiting"
    /\ job[i].at = "end" \/ job[i].status = "COMPLETED" =>
          \A r \in Rows(i) : row[i][r] \in Settled
    /\ job[i].status = "COMPLETED" => job[i].at = "ended" /\ ~job[i].errors

(* An import without an error has an item under the slug of every row that    *)
(* has come past "fresh", and the parents it asked for.                      *)
Complete(i) ==
    ~job[i].errors =>
       /\ \A r \in Rows(i) : row[i][r] \notin {"waiting", "fresh"} =>
             \E item \in items : item.slug = SlugOf(job[i].book, r)
       /\ job[i].at \in {"items", "end"} \/ job[i].status = "COMPLETED" =>
             \A r \in Rows(i) : job[i].book[r].parent \in parents \cup {Blank}

Progressing == CatalogTypes /\ \A i \in Imports : Follow(i) /\ Complete(i)

-----------------------------------------------------------------------------
(* The rest is so as long as no imports have overlapped.  What an import found *)
(* stays, and no row is about to write over it but with the same name.       *)
OneAtATime == \A i, k \in Imports : Running(i) /\ Running(k) => i = k
FoundStays == \A k \in Imports : /\ start[k].items \subseteq items
                                 /\ start[k].parents \subseteq parents

ReadOfOthers ==
    \A i, k \in Imports : \A r \in Rows(i) : \A p \in start[k].items :
       Running(i) /\ p.slug = SlugOf(job[i].book, r) =>
          /\ row[i][r] # "fresh"
          /\ row[i][r] = "known" => p.name = job[i].book[r].name

(* The item under the slug of a row that wrote has the name of a row of the   *)
(* import that has read: names being distinct, a later row collides with it. *)
Written == {"created", "mapped", "IMPORTED", "MAPPED_TO_EXISTING"}
NamedHere ==
    \A i \in Imports : \A r \in Rows(i) :
       Running(i) /\ row[i][r] \in Written =>
          \E item \in items : \E q \in Rows(i) :
             /\ item.slug = SlugOf(job[i].book, r)
             /\ SlugOf(job[i].book, q) = SlugOf(job[i].book, r)
             /\ item.name = job[i].book[q].name
             /\ row[i][q] # "waiting"

SharedInBatch ==
    \A i \in Imports : \A r, q \in Rows(i) :
       /\ r # q
       /\ row[i][r] \in Written
       /\ row[i][q] \in Written \cup {"fresh", "known"}
       /\ SlugOf(job[i].book, r) = SlugOf(job[i].book, q)
       => Batch(r) = Batch(q)

(* Every item was found at the start or has the slug of a row that has read.  *)
NewItems ==
    \A i \in Imports : Running(i) => \A item \in items :
       \/ \E p \in start[i].items : p.slug = item.slug
       \/ \E r \in Rows(i) : /\ row[i][r] # "waiting"
                             /\ item.slug = SlugOf(job[i].book, r)

AsPlanned ==
    \A i \in Imports : \A r \in Rows(i) : PlainRow(i, r) =>
       LET planned == Planned(start[i], job[i].book, r)
       IN  /\ row[i][r] \in {"fresh", "created", "IMPORTED"} => planned = "IMPORTED"
           /\ row[i][r] \in {"known", "mapped", "MAPPED_TO_EXISTING"}
                => planned = "MAPPED_TO_EXISTING"
           /\ row[i][r] \in {"collides", "FOUNDER_REVIEW"} => planned = "FOUNDER_REVIEW"
           /\ row[i][r] # "orphan"

(* Every later import finds the items of a COMPLETED job.                     *)
RerunFinds ==
    \A i, k \in Imports : job[i].status = "COMPLETED" /\ Running(k) =>
       \A r \in Rows(i) : \E p \in start[k].items : p.slug = SlugOf(job[i].book, r)

Serially == /\ OneAtATime /\ FoundStays /\ ReadOfOthers /\ NamedHere
            /\ SharedInBatch /\ NewItems /\ AsPlanned /\ RerunFinds
CatalogInv == Progressing /\ (~overlapped => Serially)

-----------------------------------------------------------------------------
LEMMA BatchType == \A r \in Nat \ {0} : Batch(r) \in Nat
  BY BatchSizeAssumption DEF Batch

LEMMA RowFacts ==
    ASSUME NEW book \in Seq(Row), NEW r \in DOMAIN book
    PROVE  /\ book[r] \in Row
           /\ r \in Nat \ {0}
           /\ book[r].name \in DOMAIN BaseSlug
           /\ BaseSlug[book[r].name] \in Seq(Nat)
  <1>1. Len(book) \in Nat /\ DOMAIN book = 1..Len(book) /\ book[r] \in Row
    OBVIOUS
  <1>2. book[r].name \in DOMAIN BaseSlug
    BY <1>1 DEF Row
  <1>3. QED
    BY <1>1, <1>2, BaseSlugAssumption

(* The rows before one of the same base slug are finitely many.              *)
LEMMA SeenFinite ==
    ASSUME NEW book \in Seq(Row), NEW r \in DOMAIN book, NEW base
    PROVE  LET seen == {q \in 1..r - 1 : BaseSlug[book[q].name] = base}
           IN  IsFiniteSet(seen) /\ Cardinality(seen) \in Nat
  <1> DEFINE seen == {q \in 1..r - 1 : BaseSlug[book[q].name] = base}
  <1>1. r - 1 \in Int
    BY RowFacts
  <1>2. IsFiniteSet(1..r - 1)
    BY <1>1, FS_Interval
  <1>3. IsFiniteSet(seen)
    BY <1>2, FS_Subset
  <1>4. QED
    BY <1>3, FS_CardinalityType

LEMMA SlugType ==
    ASSUME NEW book \in Seq(Row), NEW r \in DOMAIN book
    PROVE  SlugOf(book, r) \in Seq(Nat)
  <1> DEFINE base == BaseSlug[book[r].name]
             seen == {q \in 1..r - 1 : BaseSlug[book[q].name] = base}
  <1>1. Cardinality(seen) + 1 \in Nat
    <2>1. Cardinality(seen) \in Nat
      BY SeenFinite
    <2> HIDE DEF seen
    <2>2. QED
      BY <2>1
  <1>2. base \in Seq(Nat)
    BY RowFacts
  <1>3. Append(base, Cardinality(seen) + 1) \in Seq(Nat)
    BY <1>1, <1>2
  <1>4. QED
    BY <1>2, <1>3 DEF SlugOf

(* SlugAssigner gives rows whose names are spelt alike different slugs.      *)
LEMMA LaterSlugDiffers ==
    ASSUME NEW book \in Seq(Row), NEW r \in DOMAIN book, NEW q \in DOMAIN book,
           r < q, book[r].name = book[q].name
    PROVE  SlugOf(book, r) # SlugOf(book, q)
  <1> DEFINE base == BaseSlug[book[r].name]
             seen(p) == {o \in 1..p - 1 : BaseSlug[book[o].name] = base}
  <1>1. /\ IsFiniteSet(seen(q))
        /\ Cardinality(seen(q)) \in Nat
        /\ Cardinality(seen(r)) \in Nat
    BY SeenFinite
  <1>2. r \in Nat \ {0} /\ q \in Nat \ {0} /\ base \in Seq(Nat)
    BY RowFacts
  <1>3. r \in seen(q) /\ r \notin seen(r) /\ seen(r) \subseteq seen(q)
    BY <1>2
  <1>4. Cardinality(seen(r)) < Cardinality(seen(q))
    <2> HIDE DEF seen
    <2>1. Cardinality(seen(r)) =< Cardinality(seen(q))
      BY <1>1, <1>3, FS_Subset
    <2>2. Cardinality(seen(r)) # Cardinality(seen(q))
      BY <1>1, <1>3, FS_Subset
    <2>3. QED
      BY <1>1, <2>1, <2>2
  <1>5. SlugOf(book, q) = Append(base, Cardinality(seen(q)) + 1)
    BY <1>3 DEF SlugOf
  <1>6. SlugOf(book, r) \in {base, Append(base, Cardinality(seen(r)) + 1)}
    BY DEF SlugOf
  <1> HIDE DEF seen, base
  <1>7. Append(base, Cardinality(seen(q)) + 1) # base
    <2>1. Len(Append(base, Cardinality(seen(q)) + 1)) = Len(base) + 1
      BY <1>1, <1>2
    <2>2. QED
      BY <1>2, <2>1
  <1>8. Append(base, Cardinality(seen(q)) + 1)
          # Append(base, Cardinality(seen(r)) + 1)
    <2>1. Append(base, Cardinality(seen(q)) + 1)[Len(base) + 1]
             = Cardinality(seen(q)) + 1
      BY <1>1, <1>2
    <2>2. Append(base, Cardinality(seen(r)) + 1)[Len(base) + 1]
             = Cardinality(seen(r)) + 1
      BY <1>1, <1>2
    <2>3. QED
      BY <1>1, <1>4, <2>1, <2>2
  <1>9. QED
    BY <1>5, <1>6, <1>7, <1>8

LEMMA SlugDistinct ==
    ASSUME NEW book \in Seq(Row), NEW r \in DOMAIN book, NEW q \in DOMAIN book,
           r # q, SlugOf(book, r) = SlugOf(book, q)
    PROVE  book[r].name # book[q].name
  <1>1. r \in Nat /\ q \in Nat
    BY RowFacts
  <1>2. r < q \/ q < r
    BY <1>1
  <1>3. QED
    BY <1>2, LaterSlugDiffers

(* The upsert of a row.                                                      *)
LEMMA UpsertFacts ==
    ASSUME CatalogTypes, NEW book \in Seq(Row), NEW r \in DOMAIN book,
           NEW new, new = Upserted(book, r)
    PROVE  /\ new \in SUBSET Item
           /\ \A a, b \in new : a.slug = b.slug => a = b
           /\ \A a \in items : a.slug # SlugOf(book, r) => a \in new
           /\ \A a \in new : a.slug # SlugOf(book, r) => a \in items
           /\ \E a \in new : a.slug = SlugOf(book, r) /\ a.name = book[r].name
           /\ \A a \in items : \E b \in new : b.slug = a.slug
           /\ \A a \in items : a.slug = SlugOf(book, r) /\ a.name = book[r].name
                                 => new = items
  <1> DEFINE slug == SlugOf(book, r)
             found == {item \in items : item.slug = slug}
             made == [slug |-> slug, name |-> book[r].name, parent |-> book[r].parent]
  <1>1. slug \in Seq(Nat) /\ book[r] \in Row /\ made \in Item
    BY SlugType, RowFacts DEF Row, Item
  <1>2. items \in SUBSET Item /\ \A a, b \in items : a.slug = b.slug => a = b
    BY DEF CatalogTypes
  <1>3. CASE found = {}
    <2>1. new = items \cup {made}
      BY <1>3 DEF Upserted
    <2>2. \A a \in items : a.slug # slug
      BY <1>3
    <2>3. made.slug = slug /\ made.name = book[r].name
      OBVIOUS
    <2> HIDE DEF made, slug, found
    <2>4. QED
      BY <1>1, <1>2, <2>1, <2>2, <2>3 DEF slug
  <1>4. CASE found # {}
    <2>1. PICK old \in items : old.slug = slug
      BY <1>4
    <2>2. found = {old}
      BY <1>2, <2>1
    <2> DEFINE now == [old EXCEPT !.name = book[r].name]
    <2>3. new = (items \ {old}) \cup {now}
      BY <1>4, <2>2 DEF Upserted
    <2>4. now \in Item /\ now.slug = slug /\ now.name = book[r].name
      BY <1>1, <1>2, <2>1 DEF Item, Row
    <2>5. old.name = book[r].name => now = old
      BY <1>2, <2>1 DEF Item
    <2> HIDE DEF now, slug, found
    <2>6. \A a \in items : a.slug = slug => a = old
      BY <1>2, <2>1
    <2>7. \A a \in items : a # old => a \in new
      BY <2>3
    <2>8. \A a \in new : a = now \/ (a \in items /\ a.slug # slug)
      BY <2>3, <2>6
    <2>9. now \in new
      BY <2>3
    <2>10. old.name = book[r].name => new = items
      BY <2>1, <2>3, <2>5
    <2>11. \A a \in items : \E b \in new : b.slug = a.slug
      BY <2>1, <2>4, <2>7, <2>9
    <2>12. new \in SUBSET Item
      BY <1>2, <2>4, <2>8
    <2>13. \A a, b \in new : a.slug = b.slug => a = b
      BY <1>2, <2>4, <2>8
    <2>14. /\ \A a \in items : a.slug # slug => a \in new
           /\ \A a \in new : a.slug # slug => a \in items
           /\ \E a \in new : a.slug = slug /\ a.name = book[r].name
      BY <2>1, <2>4, <2>7, <2>8, <2>9
    <2>15. \A a \in items : a.slug = slug /\ a.name = book[r].name => new = items
      BY <2>6, <2>10
    <2>16. QED
      BY <2>11, <2>12, <2>13, <2>14, <2>15 DEF slug
  <1>5. QED
    BY <1>3, <1>4

(* What a row finds out and what becomes of it are among its progress.       *)
LEMMA ProgressMade ==
    /\ \A i, r : Seen(i, r) \in {"orphan", "fresh", "known", "collides"}
    /\ \A p, kind : Outcome(p, kind) \in Recorded
    /\ Recorded \subseteq Progress /\ Settled \subseteq Progress
    /\ {"waiting", "orphan", "fresh", "known", "collides", "created", "mapped",
        "unrecorded", "failed"} \subseteq Progress
  BY DEF Seen, Outcome, Recorded, Settled, Progress

(* Only the row's own progress changes.                                      *)
LEMMA RowType ==
    ASSUME CatalogTypes, NEW i \in Imports, NEW r \in Rows(i), NEW p \in Progress,
           NEW w, w = [row EXCEPT ![i][r] = p]
    PROVE  /\ DOMAIN w = Imports
           /\ \A k \in Imports : k # i => w[k] = row[k]
           /\ w[i] \in [Rows(i) -> Progress]
           /\ w[i][r] = p
           /\ \A q \in Rows(i) : q # r => w[i][q] = row[i][q]
  BY DEF CatalogTypes

(* The fields of a job that the steps write.                                 *)
JobBegun(f, i, book, j) ==
    j = [f EXCEPT ![i].at = "parents", ![i].status = "RUNNING", ![i].book = book]

LEMMA JobBegins ==
    ASSUME NEW f \in [Imports -> Job], NEW i \in Imports, NEW book \in Seq(Row),
           NEW j, JobBegun(f, i, book, j)
    PROVE  j \in [Imports -> Job] /\ j[i].book = book
  <1>1. f[i] \in Job
    OBVIOUS
  <1>2. j[i] \in Job /\ j[i].book = book
    BY <1>1 DEF Job, JobBegun
  <1>3. QED
    BY <1>1, <1>2 DEF JobBegun

JobWritten(f, i, j) ==
    \/ \E e \in BOOLEAN :
         j = [f EXCEPT ![i].at = "items", ![i].errors = e]
    \/ \E e \in BOOLEAN :
         j = [f EXCEPT ![i].errors = e]
    \/ \E c \in BOOLEAN :
         j = [f EXCEPT ![i].created = c]
    \/ j = [f EXCEPT ![i].batch = @ + 1]
    \/ \E e \in BOOLEAN :
         j = [f EXCEPT ![i].at = "end", ![i].errors = e]
    \/ \E s \in {"COMPLETED", "PARTIAL", "FAILED"} :
         j = [f EXCEPT ![i].at = "ended", ![i].status = s]
    \/ j = [f EXCEPT ![i].at = "dead"]
    \/ j = f

LEMMA JobWrites ==
    ASSUME NEW f \in [Imports -> Job], NEW i \in Imports, NEW j,
           JobWritten(f, i, j)
    PROVE  /\ j \in [Imports -> Job]
           /\ \A k \in Imports : j[k].book = f[k].book
           /\ \A k \in Imports : k # i => j[k] = f[k]
  <1> DEFINE good == j[i] \in Job /\ j[i].book = f[i].book
  <1>1. f[i] \in Job /\ f[i].batch + 1 \in Nat
    BY DEF Job
  <1>2. ASSUME NEW e \in BOOLEAN,
               j = [f EXCEPT ![i].at = "items", ![i].errors = e]
        PROVE  good
    BY <1>1, <1>2 DEF Job
  <1>3. ASSUME NEW e \in BOOLEAN,
               j = [f EXCEPT ![i].errors = e]
        PROVE  good
    BY <1>1, <1>3 DEF Job
  <1>4. ASSUME NEW c \in BOOLEAN,
               j = [f EXCEPT ![i].created = c]
        PROVE  good
    BY <1>1, <1>4 DEF Job
  <1>5. ASSUME j = [f EXCEPT ![i].batch = @ + 1]
        PROVE  good
    BY <1>1, <1>5 DEF Job
  <1>6. ASSUME NEW e \in BOOLEAN,
               j = [f EXCEPT ![i].at = "end", ![i].errors = e]
        PROVE  good
    BY <1>1, <1>6 DEF Job
  <1>7. ASSUME NEW s \in {"COMPLETED", "PARTIAL", "FAILED"},
               j = [f EXCEPT ![i].at = "ended", ![i].status = s]
        PROVE  good
    BY <1>1, <1>7 DEF Job
  <1>8. ASSUME j = [f EXCEPT ![i].at = "dead"]
        PROVE  good
    BY <1>1, <1>8 DEF Job
  <1>9. ASSUME j = f
        PROVE  good
    BY <1>1, <1>9 DEF Job
  <1>10. good
    BY <1>2, <1>3, <1>4, <1>5, <1>6, <1>7, <1>8, <1>9 DEF JobWritten
  <1>11. \E g : j = [f EXCEPT ![i] = g]
    BY DEF JobWritten
  <1>12. QED
    BY <1>10, <1>11

LEMMA NextTypes ==
    ASSUME CatalogTypes, [CatalogNext]_catalogVars
    PROVE  CatalogTypes'
  <1> USE DEF CatalogTypes
  <1>0. /\ job \in [Imports -> Job]
        /\ \A k \in Imports : /\ job[k] \in Job
                              /\ row[k] \in [Rows(k) -> Progress]
                              /\ job[k].book \in Seq(Row)
    BY DEF Job
  <1>1. ASSUME NEW i \in Imports, NEW book \in Books, BeginImport(i, book)
        PROVE  CatalogTypes'
    <2>1. book \in Seq(Row)
      BY BooksAssumption DEF Row
    <2>2. job' \in [Imports -> Job] /\ job'[i].book = book
      <3>1. JobBegun(job, i, book, job')
        BY <1>1 DEF BeginImport, JobBegun
      <3>2. QED
        BY <1>0, <2>1, <3>1, JobBegins
    <2>3. row'[i] \in [DOMAIN book -> Progress]
      BY <1>1, ProgressMade DEF BeginImport
    <2>4. \A k \in Imports : k # i => row'[k] = row[k] /\ job'[k] = job[k]
      BY <1>1 DEF BeginImport
    <2>5. \A k \in Imports : row'[k] \in [Rows(k)' -> Progress]
      BY <1>0, <2>2, <2>3, <2>4 DEF Rows
    <2>6. /\ items' = items /\ parents' = parents /\ DOMAIN row' = Imports
          /\ overlapped' \in BOOLEAN
      BY <1>1 DEF BeginImport
    <2>7. start' \in [Imports -> [items: SUBSET Item, parents: SUBSET Parents]]
      BY <1>1 DEF BeginImport
    <2>8. QED
      BY <2>2, <2>5, <2>6, <2>7
  <1>2. ASSUME NEW i \in Imports, ImportParents(i)
        PROVE  CatalogTypes'
    <2>1. parents' \in SUBSET Parents
      <3> DEFINE asked == {job[i].book[r].parent : r \in Rows(i)} \ {Blank}
      <3>1. \A r \in Rows(i) : job[i].book[r].parent \in STRING
        BY <1>0, RowFacts DEF Row, Rows
      <3>2. asked \subseteq Parents
        BY <3>1 DEF Parents
      <3>3. \E done \in SUBSET asked : parents' = parents \cup done
        BY <1>2 DEF ImportParents, Rows
      <3>4. QED
        BY <3>2, <3>3
    <2>2. job' \in [Imports -> Job] /\ \A k \in Imports : job'[k].book = job[k].book
      <3>1. JobWritten(job, i, job')
        BY <1>2 DEF ImportParents, JobWritten
      <3>2. QED
        BY <1>0, <3>1, JobWrites
    <2>3. UNCHANGED <<items, row, start, overlapped>>
      BY <1>2 DEF ImportParents
    <2>4. QED
      BY <1>0, <2>1, <2>2, <2>3 DEF Rows
  <1>3. ASSUME NEW i \in Imports, NEW r \in DOMAIN row[i],
               \/ ReadRow(i, r) \/ WriteRow(i, r) \/ RecordRow(i, r) \/ FailRow(i, r)
        PROVE  CatalogTypes'
    <2>1. r \in Rows(i)
      BY <1>0
    <2>2. \E p \in Progress : row' = [row EXCEPT ![i][r] = p]
      BY <1>3, ProgressMade DEF ReadRow, WriteRow, RecordRow, FailRow
    <2>3. /\ DOMAIN row' = Imports
          /\ \A k \in Imports : row'[k] \in [Rows(k) -> Progress]
      BY <1>0, <2>1, <2>2, RowType
    <2>4. job' \in [Imports -> Job] /\ \A k \in Imports : job'[k].book = job[k].book
      <3>1. JobWritten(job, i, job')
        <4>1. job[i].errors \in BOOLEAN /\ job[i].created \in BOOLEAN
          BY <1>0 DEF Job
        <4>2. QED
          BY <1>3, <4>1 DEF ReadRow, WriteRow, RecordRow, FailRow, JobWritten
      <3>2. QED
        BY <1>0, <3>1, JobWrites
    <2>5. /\ items' \in SUBSET Item
          /\ \A a, b \in items' : a.slug = b.slug => a = b
      <3>1. CASE WriteRow(i, r)
        <4>1. items' = Upserted(job[i].book, r)
          BY <3>1 DEF WriteRow
        <4>2. QED
          BY <1>0, <2>1, <4>1, UpsertFacts DEF Rows
      <3>2. CASE ReadRow(i, r) \/ RecordRow(i, r) \/ FailRow(i, r)
        BY <3>2 DEF ReadRow, RecordRow, FailRow
      <3>3. QED
        BY <1>3, <3>1, <3>2
    <2>6. UNCHANGED <<parents, start, overlapped>>
      BY <1>3 DEF ReadRow, WriteRow, RecordRow, FailRow
    <2>7. QED
      BY <2>3, <2>4, <2>5, <2>6 DEF Rows
  <1>4. ASSUME NEW i \in Imports, NextBatch(i) \/ End(i) \/ Die(i)
        PROVE  CatalogTypes'
    <2>1. job' \in [Imports -> Job] /\ \A k \in Imports : job'[k].book = job[k].book
      <3>1. job[i].errors \in BOOLEAN
        BY <1>0 DEF Job
      <3>2. JobWritten(job, i, job')
        BY <1>4, <3>1 DEF NextBatch, End, Die, JobWritten
      <3>3. QED
        BY <1>0, <3>2, JobWrites
    <2>2. UNCHANGED <<items, parents, row, start, overlapped>>
      BY <1>4 DEF NextBatch, End, Die
    <2>3. QED
      BY <2>1, <2>2 DEF Rows
  <1>5. CASE UNCHANGED catalogVars
    BY <1>5 DEF catalogVars, Rows
  <1>6. QED
    BY <1>1, <1>2, <1>3, <1>4, <1>5 DEF CatalogNext

RowAction(i, r) == ReadRow(i, r) \/ WriteRow(i, r) \/ RecordRow(i, r) \/ FailRow(i, r)

(* What the four steps of a row have in common.                              *)
LEMMA RowStep ==
    ASSUME CatalogTypes, NEW i \in Imports, NEW r \in DOMAIN row[i], RowAction(i, r)
    PROVE  /\ r \in Rows(i)
           /\ job[i].at = "items"
           /\ \A k \in Imports : k # i => job'[k] = job[k] /\ row'[k] = row[k]
           /\ \A q \in Rows(i) : q # r => row'[i][q] = row[i][q]
           /\ \A k \in Imports : /\ job'[k].at = job[k].at
                                 /\ job'[k].status = job[k].status
                                 /\ job'[k].book = job[k].book
                                 /\ job'[k].batch = job[k].batch
                                 /\ job[k].errors => job'[k].errors
           /\ UNCHANGED <<parents, start, overlapped>>
           /\ \A a \in items : \E b \in items' : b.slug = a.slug
  <1>0. /\ job \in [Imports -> Job] /\ job[i] \in Job
        /\ DOMAIN row = Imports /\ row[i] \in [Rows(i) -> Progress]
        /\ job[i].book \in Seq(Row) /\ job[i].errors \in BOOLEAN
    BY DEF CatalogTypes, Job
  <1>1. r \in Rows(i) /\ job[i].at = "items"
    BY <1>0 DEF RowAction, ReadRow, WriteRow, RecordRow, FailRow
  <1>2. UNCHANGED <<parents, start, overlapped>>
    BY DEF RowAction, ReadRow, WriteRow, RecordRow, FailRow
  <1>3. \E p : row' = [row EXCEPT ![i][r] = p]
    BY DEF RowAction, ReadRow, WriteRow, RecordRow, FailRow
  <1>4. /\ \A k \in Imports : k # i => row'[k] = row[k]
        /\ \A q \in Rows(i) : q # r => row'[i][q] = row[i][q]
    BY <1>0, <1>3
  <1>5. \/ \E e \in BOOLEAN : /\ job' = [job EXCEPT ![i].errors = e]
                              /\ job[i].errors => e
        \/ \E c : job' = [job EXCEPT ![i].created = c]
        \/ job' = job
    BY <1>0 DEF RowAction, ReadRow, WriteRow, RecordRow, FailRow
  <1>6. /\ \A k \in Imports : k # i => job'[k] = job[k]
        /\ job'[i].at = job[i].at
        /\ job'[i].status = job[i].status
        /\ job'[i].book = job[i].book
        /\ job'[i].batch = job[i].batch
        /\ job[i].errors => job'[i].errors
    <2>1. CASE \E e \in BOOLEAN : /\ job' = [job EXCEPT ![i].errors = e]
                                  /\ job[i].errors => e
      BY <1>0, <2>1 DEF Job
    <2>2. CASE \E c : job' = [job EXCEPT ![i].created = c]
      BY <1>0, <2>2 DEF Job
    <2>3. CASE job' = job
      BY <2>3
    <2>4. QED
      BY <1>5, <2>1, <2>2, <2>3
  <1>7. \A a \in items : \E b \in items' : b.slug = a.slug
    <2>1. CASE WriteRow(i, r)
      <3>1. items' = Upserted(job[i].book, r)
        BY <2>1 DEF WriteRow
      <3>2. QED
        BY <1>0, <1>1, <3>1, UpsertFacts DEF Rows
    <2>2. CASE items' = items
      BY <2>2
    <2>3. QED
      BY <2>1, <2>2 DEF RowAction, ReadRow, RecordRow, FailRow
  <1>8. QED
    BY <1>1, <1>2, <1>4, <1>6, <1>7

(* What each of them does to the row.                                        *)
LEMMA RowMove ==
    ASSUME CatalogTypes, NEW i \in Imports, NEW r \in DOMAIN row[i]
    PROVE  /\ ReadRow(i, r) =>
                /\ row[i][r] = "waiting" /\ Batch(r) = job[i].batch
                /\ row'[i][r] = Seen(i, r) /\ items' = items
                /\ Seen(i, r) = "orphan" => job'[i].errors
           /\ WriteRow(i, r) =>
                /\ items' = Upserted(job[i].book, r)
                /\ \/ row[i][r] = "fresh" /\ row'[i][r] = "created"
                   \/ row[i][r] = "known" /\ row'[i][r] = "mapped"
           /\ RecordRow(i, r) =>
                /\ row[i][r] \in {"orphan", "collides", "created", "mapped"}
                /\ \/ row'[i][r] = Outcome(row[i][r], job[i].book[r].kind)
                   \/ row'[i][r] = "unrecorded"
                /\ items' = items
           /\ FailRow(i, r) =>
                /\ row[i][r] \in {"waiting", "fresh", "known", "created", "mapped"}
                /\ row'[i][r] = "failed" /\ job'[i].errors /\ items' = items
                /\ Batch(r) = job[i].batch
  <1>1. /\ job \in [Imports -> Job] /\ job[i] \in Job
        /\ DOMAIN row = Imports /\ row[i] \in [Rows(i) -> Progress]
        /\ job[i].errors \in BOOLEAN
    BY DEF CatalogTypes, Job
  <1>2. ReadRow(i, r) =>
                /\ row[i][r] = "waiting" /\ Batch(r) = job[i].batch
                /\ row'[i][r] = Seen(i, r) /\ items' = items
                /\ Seen(i, r) = "orphan" => job'[i].errors
    BY <1>1 DEF ReadRow, InBatch, Job
  <1>3. WriteRow(i, r) =>
                /\ items' = Upserted(job[i].book, r)
                /\ \/ row[i][r] = "fresh" /\ row'[i][r] = "created"
                   \/ row[i][r] = "known" /\ row'[i][r] = "mapped"
    BY <1>1 DEF WriteRow
  <1>4. RecordRow(i, r) =>
                /\ row[i][r] \in {"orphan", "collides", "created", "mapped"}
                /\ \/ row'[i][r] = Outcome(row[i][r], job[i].book[r].kind)
                   \/ row'[i][r] = "unrecorded"
                /\ items' = items
    BY <1>1 DEF RecordRow
  <1>5. FailRow(i, r) =>
                /\ row[i][r] \in {"waiting", "fresh", "known", "created", "mapped"}
                /\ row'[i][r] = "failed" /\ job'[i].errors /\ items' = items
                /\ Batch(r) = job[i].batch
    BY <1>1 DEF FailRow, InBatch, Job
  <1>6. QED
    BY <1>2, <1>3, <1>4, <1>5

(* The steps of an import as a whole.                                        *)
LEMMA BeginStep ==
    ASSUME CatalogTypes, NEW i \in Imports, NEW book \in Books, BeginImport(i, book)
    PROVE  /\ book \in Seq(Row)
           /\ job[i].at = "new"
           /\ \A k \in Imports : k # i => /\ job'[k] = job[k] /\ row'[k] = row[k]
                                          /\ start'[k] = start[k]
           /\ job'[i].at = "parents" /\ job'[i].status = "RUNNING"
           /\ job'[i].book = book /\ job'[i].batch = job[i].batch
           /\ \A r \in DOMAIN book : row'[i][r] = "waiting"
           /\ start'[i].items = items /\ start'[i].parents = parents
           /\ items' = items /\ parents' = parents
           /\ overlapped' = (overlapped \/ \E k \in Imports : Running(k))
  <1>1. /\ job \in [Imports -> Job] /\ job[i] \in Job /\ DOMAIN row = Imports
        /\ start \in [Imports -> [items: SUBSET Item, parents: SUBSET Parents]]
    BY DEF CatalogTypes
  <1>2. book \in Seq(Row)
    BY BooksAssumption DEF Row
  <1>3. /\ \A k \in Imports : k # i => job'[k] = job[k]
        /\ job'[i].at = "parents" /\ job'[i].status = "RUNNING"
        /\ job'[i].book = book /\ job'[i].batch = job[i].batch
    <2>1. job' = [job EXCEPT ![i].at = "parents", ![i].status = "RUNNING",
                             ![i].book = book]
      BY DEF BeginImport
    <2>2. QED
      BY <1>1, <2>1 DEF Job
  <1>4. /\ \A k \in Imports : k # i => row'[k] = row[k] /\ start'[k] = start[k]
        /\ \A r \in DOMAIN book : row'[i][r] = "waiting"
        /\ start'[i].items = items /\ start'[i].parents = parents
    BY <1>1 DEF BeginImport
  <1>5. QED
    BY <1>2, <1>3, <1>4 DEF BeginImport

LEMMA ParentsStep ==
    ASSUME CatalogTypes, NEW i \in Imports, ImportParents(i)
    PROVE  /\ job[i].at = "parents" /\ job'[i].at = "items"
           /\ \A k \in Imports : /\ k # i => job'[k] = job[k]
                                 /\ job'[k].status = job[k].status
                                 /\ job'[k].book = job[k].book
                                 /\ job'[k].batch = job[k].batch
           /\ UNCHANGED <<items, row, start, overlapped>>
           /\ parents \subseteq parents'
           /\ \A p \in parents' \ parents : \E r \in Rows(i) : p = job[i].book[r].parent
           /\ ~job'[i].errors =>
                \A r \in Rows(i) : job[i].book[r].parent \in parents' \cup {Blank}
  <1>1. job \in [Imports -> Job] /\ job[i] \in Job
    BY DEF CatalogTypes
  <1> DEFINE asked == {job[i].book[r].parent : r \in Rows(i)} \ {Blank}
  <1>2. PICK done \in SUBSET asked :
           /\ parents' = parents \cup done
           /\ job' = [job EXCEPT ![i].at = "items", ![i].errors = done # asked]
    BY DEF ImportParents, Rows
  <1>3. /\ \A k \in Imports : k # i => job'[k] = job[k]
        /\ job'[i].status = job[i].status /\ job'[i].book = job[i].book
        /\ job'[i].batch = job[i].batch /\ job'[i].at = "items"
        /\ job'[i].errors = (done # asked)
    BY <1>1, <1>2 DEF Job
  <1>4. /\ parents \subseteq parents'
        /\ \A p \in parents' \ parents : \E r \in Rows(i) : p = job[i].book[r].parent
        /\ done = asked =>
             \A r \in Rows(i) : job[i].book[r].parent \in parents' \cup {Blank}
    BY <1>2
  <1>5. job[i].at = "parents" /\ UNCHANGED <<items, row, start, overlapped>>
    BY DEF ImportParents
  <1> HIDE DEF asked
  <1>6. QED
    BY <1>3, <1>4, <1>5

LEMMA BatchStep ==
    ASSUME CatalogTypes, NEW i \in Imports, NextBatch(i)
    PROVE  /\ job[i].at = "items"
           /\ \A r \in InBatch(i) : row[i][r] \in Settled
           /\ \A k \in Imports : /\ k # i => job'[k] = job[k]
                                 /\ job'[k].book = job[k].book
                                 /\ job'[k].status = job[k].status
                                 /\ job[k].errors => job'[k].errors
           /\ \/ /\ job'[i].at = "items"
                 /\ job'[i].batch = job[i].batch + 1
              \/ /\ job'[i].at = "end"
                 /\ \A r \in Rows(i) : ~(Batch(r) > job[i].batch)
           /\ UNCHANGED <<items, parents, row, start, overlapped>>
  <1>1. job \in [Imports -> Job] /\ job[i] \in Job /\ job[i].errors \in BOOLEAN
    BY DEF CatalogTypes, Job
  <1>2. /\ job[i].at = "items"
        /\ \A r \in InBatch(i) : row[i][r] \in Settled
        /\ UNCHANGED <<items, parents, row, start, overlapped>>
    BY DEF NextBatch
  <1>3. CASE job' = [job EXCEPT ![i].batch = @ + 1]
    BY <1>1, <1>2, <1>3 DEF Job
  <1>4. ASSUME NEW e \in BOOLEAN, job[i].errors => e,
               job' = [job EXCEPT ![i].at = "end", ![i].errors = e],
               ~ \E r \in Rows(i) : Batch(r) > job[i].batch
        PROVE  /\ job'[i].at = "end"
               /\ \A k \in Imports : /\ k # i => job'[k] = job[k]
                                     /\ job'[k].book = job[k].book
                                     /\ job'[k].status = job[k].status
                                     /\ job[k].errors => job'[k].errors
    BY <1>1, <1>4 DEF Job
  <1>5. \/ job' = [job EXCEPT ![i].batch = @ + 1]
        \/ \E e \in BOOLEAN :
             /\ job[i].errors => e
             /\ job' = [job EXCEPT ![i].at = "end", ![i].errors = e]
             /\ ~ \E r \in Rows(i) : Batch(r) > job[i].batch
    BY <1>1 DEF NextBatch, Rows
  <1>6. QED
    BY <1>2, <1>3, <1>4, <1>5

LEMMA EndStep ==
    ASSUME CatalogTypes, NEW i \in Imports, End(i) \/ Die(i)
    PROVE  /\ Running(i) /\ job'[i].at \in {"ended", "dead"}
           /\ \A k \in Imports : /\ k # i => job'[k] = job[k]
                                 /\ job'[k].book = job[k].book
                                 /\ job'[k].errors = job[k].errors
           /\ \/ job'[i].status = job[i].status
              \/ /\ job[i].at = "end" /\ job'[i].at = "ended"
                 /\ job'[i].status = "COMPLETED" => ~job[i].errors
           /\ UNCHANGED <<items, parents, row, start, overlapped>>
  <1>1. job \in [Imports -> Job] /\ job[i] \in Job
    BY DEF CatalogTypes
  <1>2. UNCHANGED <<items, parents, row, start, overlapped>> /\ Running(i)
    BY DEF End, Die, Running
  <1>3. CASE Die(i)
    <2>1. job' = [job EXCEPT ![i].at = "dead"]
      BY <1>3 DEF Die
    <2>2. /\ \A k \in Imports : k # i => job'[k] = job[k]
          /\ job'[i].at = "dead" /\ job'[i].status = job[i].status
          /\ job'[i].book = job[i].book /\ job'[i].errors = job[i].errors
      BY <1>1, <2>1 DEF Job
    <2>3. QED
      BY <1>2, <2>2
  <1>4. CASE End(i)
    <2>1. job[i].at = "end"
      BY <1>4 DEF End
    <2>2. PICK s \in {"COMPLETED", "PARTIAL", "FAILED"} :
             /\ job' = [job EXCEPT ![i].at = "ended", ![i].status = s]
             /\ s = "COMPLETED" => ~job[i].errors
      BY <1>4 DEF End
    <2>3. /\ \A k \in Imports : k # i => job'[k] = job[k]
          /\ job'[i].at = "ended" /\ job'[i].status = s
          /\ job'[i].book = job[i].book /\ job'[i].errors = job[i].errors
      BY <1>1, <2>2 DEF Job
    <2>4. QED
      BY <1>2, <2>1, <2>2, <2>3
  <1>5. QED
    BY <1>3, <1>4

(* What a row reads when the slug is free, and when it is not.               *)
LEMMA SeenFacts ==
    ASSUME NEW i, NEW r
    PROVE  /\ Seen(i, r) \in {"known", "collides"} =>
                \E item \in items : item.slug = SlugOf(job[i].book, r)
           /\ Seen(i, r) = "fresh" =>
                \A item \in items : item.slug # SlugOf(job[i].book, r)
           /\ Seen(i, r) = "known" =>
                \E item \in items : /\ item.slug = SlugOf(job[i].book, r)
                                    /\ Known(item, job[i].book, r)
           /\ Seen(i, r) = "collides" =>
                \A item \in items : item.slug = SlugOf(job[i].book, r)
                                      => ~Known(item, job[i].book, r)
           /\ Seen(i, r) = "orphan" <=> job[i].book[r].parent \notin parents
  <1> DEFINE book == job[i].book
             found == {item \in items : item.slug = SlugOf(book, r)}
  <1>1. CASE book[r].parent \notin parents
    <2>1. Seen(i, r) = "orphan"
      BY <1>1 DEF Seen
    <2>2. QED
      BY <1>1, <2>1
  <1>2. CASE book[r].parent \in parents /\ found = {}
    <2>1. Seen(i, r) = "fresh"
      BY <1>2 DEF Seen
    <2>2. QED
      BY <1>2, <2>1
  <1>3. CASE /\ book[r].parent \in parents
             /\ \E item \in found : Known(item, book, r)
    <2>1. Seen(i, r) = "known"
      BY <1>3 DEF Seen
    <2>2. QED
      BY <1>3, <2>1
  <1>4. CASE /\ book[r].parent \in parents /\ found # {}
             /\ ~ \E item \in found : Known(item, book, r)
    <2>1. Seen(i, r) = "collides"
      BY <1>4 DEF Seen
    <2>2. QED
      BY <1>4, <2>1
  <1>5. QED
    BY <1>1, <1>2, <1>3, <1>4

LEMMA NextFollows ==
    ASSUME Progressing, [CatalogNext]_catalogVars
    PROVE  \A i \in Imports : Follow(i)'
  <1>0. CatalogTypes /\ \A k \in Imports : Follow(k)
    BY DEF Progressing
  <1>a. \A k \in Imports : /\ job[k] \in Job /\ job[k].batch \in Nat
                           /\ \A r \in Rows(k) : Batch(r) \in Nat
                           /\ Rows(k) = DOMAIN row[k]
    <2>1. ASSUME NEW k \in Imports, NEW r \in Rows(k)
          PROVE  Batch(r) \in Nat
      <3>1. job[k].book \in Seq(Row)
        BY <1>0 DEF CatalogTypes, Job
      <3>2. QED
        BY <3>1, RowFacts, BatchType DEF Rows
    <2>2. QED
      BY <1>0, <2>1 DEF CatalogTypes, Job
  <1>1. ASSUME NEW i \in Imports, NEW book \in Books, BeginImport(i, book)
        PROVE  \A k \in Imports : Follow(k)'
    <2>1. ASSUME NEW k \in Imports, k # i
          PROVE  Follow(k)'
      BY <1>0, <1>1, <2>1, BeginStep DEF Follow, Rows
    <2>2. Follow(i)'
      BY <1>0, <1>1, BeginStep DEF Follow, Rows
    <2>3. QED
      BY <2>1, <2>2
  <1>2. ASSUME NEW i \in Imports, ImportParents(i)
        PROVE  \A k \in Imports : Follow(k)'
    <2>1. ASSUME NEW k \in Imports, k # i
          PROVE  Follow(k)'
      BY <1>0, <1>2, <2>1, ParentsStep DEF Follow, Rows
    <2>2. Follow(i)'
      BY <1>0, <1>a, <1>2, ParentsStep DEF Follow, Rows
    <2>3. QED
      BY <2>1, <2>2
  <1>3. ASSUME NEW i \in Imports, NEW r \in DOMAIN row[i], RowAction(i, r)
        PROVE  \A k \in Imports : Follow(k)'
    <2>1. ASSUME NEW k \in Imports, k # i
          PROVE  Follow(k)'
      BY <1>0, <1>3, <2>1, RowStep DEF Follow, Rows
    <2>2. /\ job[i].at = "items" /\ job'[i].at = "items"
          /\ job'[i].status = job[i].status /\ job'[i].book = job[i].book
          /\ job'[i].batch = job[i].batch /\ r \in Rows(i)
          /\ \A q \in Rows(i) : q # r => row'[i][q] = row[i][q]
      BY <1>0, <1>3, RowStep
    <2>3. /\ row[i][r] \notin Settled
          /\ row[i][r] = "waiting" => Batch(r) = job[i].batch
      BY <1>0, <1>3, RowMove DEF RowAction, Settled, Recorded
    <2>4. /\ job[i].status # "COMPLETED"
          /\ \A q \in Rows(i) : /\ Batch(q) < job[i].batch => row[i][q] \in Settled
                                /\ Batch(q) > job[i].batch => row[i][q] = "waiting"
      BY <1>0, <2>2 DEF Follow
    <2>5. Batch(r) = job[i].batch
      BY <1>a, <2>2, <2>3, <2>4
    <2>6. \A q \in Rows(i) : /\ Batch(q) < job[i].batch => row'[i][q] \in Settled
                             /\ Batch(q) > job[i].batch => row'[i][q] = "waiting"
      BY <1>a, <2>2, <2>4, <2>5
    <2>7. Follow(i)'
      BY <2>2, <2>4, <2>6 DEF Follow, Rows
    <2>8. QED
      BY <2>1, <2>7
  <1>4. ASSUME NEW i \in Imports, NextBatch(i)
        PROVE  \A k \in Imports : Follow(k)'
    <2>1. ASSUME NEW k \in Imports, k # i
          PROVE  Follow(k)'
      BY <1>0, <1>4, <2>1, BatchStep DEF Follow, Rows
    <2>2. /\ job[i].at = "items" /\ job'[i].status = job[i].status
          /\ job'[i].book = job[i].book /\ row' = row
          /\ job[i].status # "COMPLETED"
      BY <1>0, <1>4, BatchStep DEF Follow
    <2>3. \A q \in Rows(i) : /\ Batch(q) =< job[i].batch => row[i][q] \in Settled
                             /\ Batch(q) > job[i].batch => row[i][q] = "waiting"
      BY <1>0, <1>a, <1>4, <2>2, BatchStep DEF Follow, InBatch, Rows
    <2>4. ASSUME job'[i].at = "items", job'[i].batch = job[i].batch + 1
          PROVE  Follow(i)'
      <3>1. \A q \in Rows(i) : /\ Batch(q) < job[i].batch + 1 => row[i][q] \in Settled
                               /\ Batch(q) > job[i].batch + 1 => row[i][q] = "waiting"
        BY <1>a, <2>3
      <3>2. QED
        BY <2>2, <2>4, <3>1 DEF Follow, Rows
    <2>5. ASSUME job'[i].at = "end", \A q \in Rows(i) : ~(Batch(q) > job[i].batch)
          PROVE  Follow(i)'
      <3>1. \A q \in Rows(i) : row[i][q] \in Settled
        BY <1>a, <2>3, <2>5
      <3>2. QED
        BY <2>2, <2>5, <3>1 DEF Follow, Rows
    <2>6. \/ job'[i].at = "items" /\ job'[i].batch = job[i].batch + 1
          \/ job'[i].at = "end" /\ \A q \in Rows(i) : ~(Batch(q) > job[i].batch)
      BY <1>0, <1>4, BatchStep
    <2>7. Follow(i)'
      BY <2>4, <2>5, <2>6
    <2>8. QED
      BY <2>1, <2>7
  <1>5. ASSUME NEW i \in Imports, End(i) \/ Die(i)
        PROVE  \A k \in Imports : Follow(k)'
    <2>1. ASSUME NEW k \in Imports, k # i
          PROVE  Follow(k)'
      BY <1>0, <1>5, <2>1, EndStep DEF Follow, Rows
    <2>2. Follow(i)'
      BY <1>0, <1>5, EndStep DEF Follow, Rows, Running
    <2>3. QED
      BY <2>1, <2>2
  <1>6. CASE UNCHANGED catalogVars
    BY <1>0, <1>6 DEF catalogVars, Follow, Rows
  <1>7. QED
    BY <1>1, <1>2, <1>3, <1>4, <1>5, <1>6 DEF CatalogNext, RowAction

LEMMA NextCompletes ==
    ASSUME Progressing, [CatalogNext]_catalogVars
    PROVE  \A i \in Imports : Complete(i)'
  <1>0. CatalogTypes /\ \A k \in Imports : Follow(k) /\ Complete(k)
    BY DEF Progressing
  <1>a. \A k \in Imports : Rows(k) = DOMAIN row[k] /\ job[k].book \in Seq(Row)
    BY <1>0 DEF CatalogTypes, Job
  <1>1. ASSUME NEW i \in Imports, NEW book \in Books, BeginImport(i, book)
        PROVE  \A k \in Imports : Complete(k)'
    <2>1. ASSUME NEW k \in Imports, k # i
          PROVE  Complete(k)'
      BY <1>0, <1>1, <2>1, BeginStep DEF Complete, Rows
    <2>2. Complete(i)'
      BY <1>0, <1>1, BeginStep DEF Complete, Rows
    <2>3. QED
      BY <2>1, <2>2
  <1>2. ASSUME NEW i \in Imports, ImportParents(i)
        PROVE  \A k \in Imports : Complete(k)'
    <2>1. ASSUME NEW k \in Imports, k # i
          PROVE  Complete(k)'
      BY <1>0, <1>2, <2>1, ParentsStep DEF Complete, Rows
    <2>2. \A q \in Rows(i) : row[i][q] = "waiting"
      BY <1>0, <1>2, ParentsStep DEF Follow
    <2>3. Complete(i)'
      BY <1>0, <1>2, <2>2, ParentsStep DEF Complete, Rows
    <2>4. QED
      BY <2>1, <2>3
  <1>3. ASSUME NEW i \in Imports, NEW r \in DOMAIN row[i], RowAction(i, r)
        PROVE  \A k \in Imports : Complete(k)'
    <2>1. /\ \A k \in Imports : k # i => row'[k] = row[k]
          /\ \A q \in Rows(i) : q # r => row'[i][q] = row[i][q]
          /\ \A k \in Imports : /\ job'[k].at = job[k].at
                                /\ job'[k].status = job[k].status
                                /\ job'[k].book = job[k].book
                                /\ job[k].errors => job'[k].errors
          /\ parents' = parents /\ r \in Rows(i)
          /\ \A a \in items : \E b \in items' : b.slug = a.slug
      BY <1>0, <1>3, RowStep
    <2>2. ASSUME ~job'[i].errors, row'[i][r] \notin {"waiting", "fresh"}
          PROVE  \E item \in items' : item.slug = SlugOf(job[i].book, r)
      <3>1. CASE ReadRow(i, r)
        <4>1. Seen(i, r) \in {"known", "collides"} /\ items' = items
          BY <1>0, <2>2, <3>1, RowMove, ProgressMade
        <4>2. QED
          BY <4>1, SeenFacts
      <3>2. CASE WriteRow(i, r)
        <4>1. items' = Upserted(job[i].book, r)
          BY <1>0, <3>2, RowMove
        <4>2. QED
          BY <1>0, <1>a, <2>1, <4>1, UpsertFacts DEF Rows
      <3>3. CASE RecordRow(i, r)
        <4>1. row[i][r] \notin {"waiting", "fresh"} /\ items' = items
          BY <1>0, <3>3, RowMove
        <4>2. QED
          BY <1>0, <2>1, <2>2, <4>1 DEF Complete
      <3>4. CASE FailRow(i, r)
        BY <1>0, <2>2, <3>4, RowMove
      <3>5. QED
        BY <1>3, <3>1, <3>2, <3>3, <3>4 DEF RowAction
    <2>3. ASSUME NEW k \in Imports, ~job'[k].errors, NEW q \in Rows(k),
                 row'[k][q] \notin {"waiting", "fresh"}
          PROVE  \E item \in items' : item.slug = SlugOf(job[k].book, q)
      <3>1. CASE k = i /\ q = r
        BY <2>2, <2>3, <3>1
      <3>2. CASE ~(k = i /\ q = r)
        <4>1. row'[k][q] = row[k][q]
          BY <2>1, <3>2
        <4>2. QED
          BY <1>0, <2>1, <2>3, <4>1 DEF Complete
      <3>3. QED
        BY <3>1, <3>2
    <2>4. ASSUME NEW k \in Imports
          PROVE  Complete(k)'
      <3>1. Rows(k)' = Rows(k) /\ job'[k].book = job[k].book
        BY <2>1 DEF Rows
      <3>2. ~job'[k].errors =>
              \A q \in Rows(k) : row'[k][q] \notin {"waiting", "fresh"} =>
                 \E item \in items' : item.slug = SlugOf(job[k].book, q)
        BY <2>3
      <3>3. ~job'[k].errors =>
              (job[k].at \in {"items", "end"} \/ job[k].status = "COMPLETED" =>
                 \A q \in Rows(k) : job[k].book[q].parent \in parents \cup {Blank})
        BY <1>0, <2>1 DEF Complete
      <3>4. QED
        BY <2>1, <3>1, <3>2, <3>3 DEF Complete
    <2>5. QED
      BY <2>4
  <1>4. ASSUME NEW i \in Imports, NextBatch(i)
        PROVE  \A k \in Imports : Complete(k)'
    BY <1>0, <1>4, BatchStep DEF Complete, Rows
  <1>5. ASSUME NEW i \in Imports, End(i) \/ Die(i)
        PROVE  \A k \in Imports : Complete(k)'
    BY <1>0, <1>5, EndStep DEF Complete, Rows, Running
  <1>6. CASE UNCHANGED catalogVars
    BY <1>0, <1>6 DEF catalogVars, Complete, Rows
  <1>7. QED
    BY <1>1, <1>2, <1>3, <1>4, <1>5, <1>6 DEF CatalogNext, RowAction

LEMMA PlannedFacts ==
    ASSUME NEW was, NEW book, NEW r, book[r].parent # Blank,
           book[r].kind = "plain", book[r].parent \in was.parents
    PROVE  /\ (\A item \in was.items : item.slug # SlugOf(book, r))
                => Planned(was, book, r) = "IMPORTED"
           /\ (\E item \in was.items : item.slug = SlugOf(book, r) /\ Known(item, book, r))
                => Planned(was, book, r) = "MAPPED_TO_EXISTING"
           /\ (/\ \E item \in was.items : item.slug = SlugOf(book, r)
               /\ \A item \in was.items : item.slug = SlugOf(book, r)
                                            => ~Known(item, book, r))
                => Planned(was, book, r) = "FOUNDER_REVIEW"
  <1> DEFINE found == {item \in was.items : item.slug = SlugOf(book, r)}
             match == \E item \in found :
                         /\ item.name = book[r].name
                         /\ book[r].parent \in was.parents => item.parent = book[r].parent
  <1>1. match <=> \E item \in found : Known(item, book, r)
    BY DEF Known
  <1>2. Planned(was, book, r) =
          CASE found = {} -> "IMPORTED"
            [] match -> "MAPPED_TO_EXISTING"
            [] OTHER -> "FOUNDER_REVIEW"
    BY DEF Planned
  <1>3. CASE found = {}
    <2>1. ~match
      BY <1>3
    <2> HIDE DEF match
    <2>2. Planned(was, book, r) = "IMPORTED"
      BY <1>2, <1>3, <2>1
    <2>3. QED
      BY <1>3, <2>2
  <1>4. CASE found # {} /\ match
    <2> HIDE DEF match
    <2>1. Planned(was, book, r) = "MAPPED_TO_EXISTING"
      BY <1>2, <1>4
    <2>2. QED
      BY <1>1, <1>4, <2>1
  <1>5. CASE found # {} /\ ~match
    <2> HIDE DEF match
    <2>1. Planned(was, book, r) = "FOUNDER_REVIEW"
      BY <1>2, <1>5
    <2>2. QED
      BY <1>1, <1>5, <2>1
  <1>6. QED
    BY <1>3, <1>4, <1>5

(* Steps that touch no row and no item.                                      *)
LEMMA SerialQuiet ==
    ASSUME Progressing, Serially, NEW i \in Imports,
           ImportParents(i) \/ NextBatch(i) \/ End(i) \/ Die(i)
    PROVE  Serially'
  <1>0. CatalogTypes /\ \A k \in Imports : Follow(k)
    BY DEF Progressing
  <1>1. /\ UNCHANGED <<items, row, start, overlapped>> /\ parents \subseteq parents'
        /\ \A k \in Imports : job'[k].book = job[k].book /\ (Running(k)' => Running(k))
    <2>1. CASE ImportParents(i)
      BY <1>0, <2>1, ParentsStep DEF Running
    <2>2. CASE NextBatch(i)
      BY <1>0, <2>2, BatchStep DEF Running
    <2>3. CASE End(i) \/ Die(i)
      BY <1>0, <2>3, EndStep DEF Running
    <2>4. QED
      BY <2>1, <2>2, <2>3
  <1>2. \A k \in Imports : job'[k].status = "COMPLETED" =>
           \/ job[k].status = "COMPLETED"
           \/ k = i /\ Running(i) /\ ~Running(i)'
    <2>1. CASE ImportParents(i)
      BY <1>0, <2>1, ParentsStep
    <2>2. CASE NextBatch(i)
      BY <1>0, <2>2, BatchStep
    <2>3. CASE End(i) \/ Die(i)
      BY <1>0, <2>3, EndStep DEF Running
    <2>4. QED
      BY <2>1, <2>2, <2>3
  <1>3. \A k \in Imports : Rows(k)' = Rows(k) /\ \A r : PlainRow(k, r)' <=> PlainRow(k, r)
    BY <1>1 DEF Rows, PlainRow
  <1>4. OneAtATime'
    BY <1>1 DEF Serially, OneAtATime
  <1>5. FoundStays'
    BY <1>1 DEF Serially, FoundStays
  <1>6. ReadOfOthers'
    BY <1>1, <1>3 DEF Serially, ReadOfOthers
  <1>7. NamedHere'
    BY <1>1, <1>3 DEF Serially, NamedHere
  <1>8. SharedInBatch'
    BY <1>1, <1>3 DEF Serially, SharedInBatch
  <1>9. NewItems'
    BY <1>1, <1>3 DEF Serially, NewItems
  <1>10. AsPlanned'
    BY <1>1, <1>3 DEF Serially, AsPlanned
  <1>11. RerunFinds'
    BY <1>1, <1>2, <1>3 DEF Serially, RerunFinds, OneAtATime
  <1>12. QED
    BY <1>4, <1>5, <1>6, <1>7, <1>8, <1>9, <1>10, <1>11 DEF Serially

(* An import that begins when no other runs.                                 *)
LEMMA SerialBegin ==
    ASSUME Progressing, Serially, NEW i \in Imports, NEW book \in Books,
           BeginImport(i, book), ~overlapped'
    PROVE  Serially'
  <1>0. CatalogTypes /\ \A k \in Imports : Follow(k) /\ Complete(k)
    BY DEF Progressing
  <1>1. /\ \A k \in Imports : k # i => /\ job'[k] = job[k] /\ row'[k] = row[k]
                                       /\ start'[k] = start[k]
        /\ job'[i].status = "RUNNING" /\ job'[i].book = book
        /\ \A r \in DOMAIN book : row'[i][r] = "waiting"
        /\ start'[i].items = items /\ start'[i].parents = parents
        /\ items' = items /\ parents' = parents
        /\ \A k \in Imports : ~Running(k)
    BY <1>0, BeginStep
  <1>2. \A k \in Imports : k # i => ~Running(k)'
    BY <1>1 DEF Running
  <1>3. \A k \in Imports : k # i =>
           Rows(k)' = Rows(k) /\ \A r : PlainRow(k, r)' <=> PlainRow(k, r)
    BY <1>1 DEF Rows, PlainRow
  <1>4. \A r \in Rows(i)' : row'[i][r] = "waiting"
    BY <1>1 DEF Rows
  <1>5. OneAtATime'
    BY <1>2 DEF OneAtATime
  <1>6. FoundStays'
    BY <1>1 DEF Serially, FoundStays
  <1>7. ReadOfOthers'
    BY <1>2, <1>4 DEF ReadOfOthers
  <1>8. NamedHere'
    BY <1>2, <1>4 DEF NamedHere, Written
  <1>9. SharedInBatch'
    BY <1>1, <1>3, <1>4 DEF Serially, SharedInBatch, Written
  <1>10. NewItems'
    BY <1>1, <1>2 DEF NewItems
  <1>11. AsPlanned'
    BY <1>1, <1>3, <1>4 DEF Serially, AsPlanned
  <1>12. RerunFinds'
    <2>1. ASSUME NEW a \in Imports, a # i, job[a].status = "COMPLETED", NEW r \in Rows(a)
          PROVE  \E item \in items : item.slug = SlugOf(job[a].book, r)
      <3>1. row[a][r] \in Settled /\ ~job[a].errors
        BY <1>0, <2>1 DEF Follow
      <3>2. row[a][r] \notin {"waiting", "fresh"}
        BY <3>1 DEF Settled, Recorded
      <3>3. QED
        BY <1>0, <2>1, <3>1, <3>2 DEF Complete
    <2>2. QED
      BY <1>1, <1>2, <1>3, <2>1 DEF RerunFinds
  <1>13. QED
    BY <1>5, <1>6, <1>7, <1>8, <1>9, <1>10, <1>11, <1>12 DEF Serially

(* A row that may write does not write over what an import found.            *)
LEMMA WriteSpares ==
    ASSUME CatalogTypes, ReadOfOthers, FoundStays, NEW i \in Imports,
           NEW r \in DOMAIN row[i], WriteRow(i, r)
    PROVE  \A k \in Imports : \A p \in start[k].items :
              p.slug = SlugOf(job[i].book, r) => items' = items
  <1>1. /\ Running(i) /\ r \in Rows(i) /\ job[i].book \in Seq(Row)
        /\ row[i][r] \in {"fresh", "known"}
        /\ items' = Upserted(job[i].book, r)
    BY DEF WriteRow, Running, CatalogTypes, Job
  <1>2. ASSUME NEW k \in Imports, NEW p \in start[k].items,
               p.slug = SlugOf(job[i].book, r)
        PROVE  items' = items
    <2>1. p.name = job[i].book[r].name
      BY <1>1, <1>2 DEF ReadOfOthers
    <2>2. p \in items
      BY <1>2 DEF FoundStays
    <2>3. QED
      BY <1>1, <1>2, <2>1, <2>2, UpsertFacts DEF Rows
  <1>3. QED
    BY <1>2

(* Where the progress of a row after a step comes from.                      *)
LEMMA RowOrigin ==
    ASSUME CatalogTypes, NEW i \in Imports, NEW r \in DOMAIN row[i], RowAction(i, r)
    PROVE  /\ row'[i][r] # "waiting"
           /\ row'[i][r] \in {"fresh", "known", "collides", "orphan"} =>
                ReadRow(i, r) /\ row'[i][r] = Seen(i, r)
           /\ row'[i][r] \in Written => row[i][r] \in Written \/ WriteRow(i, r)
           /\ ReadRow(i, r) => row[i][r] = "waiting" /\ row'[i][r] \notin Written
           /\ ~WriteRow(i, r) => items' = items
           /\ WriteRow(i, r) => row[i][r] \in {"fresh", "known"} /\ row'[i][r] \in Written
  <1>1. CASE ReadRow(i, r)
    <2>1. row[i][r] = "waiting" /\ row'[i][r] = Seen(i, r) /\ items' = items
      BY <1>1, RowMove
    <2>2. row'[i][r] \in {"orphan", "fresh", "known", "collides"}
      BY <2>1, ProgressMade
    <2>3. ~WriteRow(i, r)
      BY <2>1 DEF WriteRow
    <2>4. QED
      BY <1>1, <2>1, <2>2, <2>3 DEF Written
  <1>2. CASE WriteRow(i, r)
    <2>1. \/ row[i][r] = "fresh" /\ row'[i][r] = "created"
          \/ row[i][r] = "known" /\ row'[i][r] = "mapped"
      BY <1>2, RowMove
    <2>2. ~ReadRow(i, r)
      BY <2>1 DEF ReadRow
    <2>3. QED
      BY <1>2, <2>1, <2>2 DEF Written
  <1>3. CASE RecordRow(i, r)
    <2>1. /\ row[i][r] \in {"orphan", "collides", "created", "mapped"}
          /\ \/ row'[i][r] = Outcome(row[i][r], job[i].book[r].kind)
             \/ row'[i][r] = "unrecorded"
          /\ items' = items
      BY <1>3, RowMove
    <2>2. row'[i][r] \in Recorded \cup {"unrecorded"}
      BY <2>1, ProgressMade
    <2>3. row'[i][r] \in Written => row[i][r] \in {"created", "mapped"}
      BY <2>1 DEF Outcome, Written
    <2>4. ~ReadRow(i, r) /\ ~WriteRow(i, r)
      BY <2>1 DEF ReadRow, WriteRow
    <2>5. QED
      BY <2>1, <2>2, <2>3, <2>4 DEF Recorded, Written
  <1>4. CASE FailRow(i, r)
    <2>1. row'[i][r] = "failed" /\ items' = items
      BY <1>4, RowMove
    <2>2. ~ReadRow(i, r) /\ ~WriteRow(i, r)
      <3>1. ReadRow(i, r) => row'[i][r] \in {"orphan", "fresh", "known", "collides"}
        BY RowMove, ProgressMade
      <3>2. WriteRow(i, r) => row'[i][r] \in {"created", "mapped"}
        BY RowMove
      <3>3. QED
        BY <2>1, <3>1, <3>2
    <2>3. QED
      BY <2>1, <2>2 DEF Written
  <1>5. QED
    BY <1>1, <1>2, <1>3, <1>4 DEF RowAction

(* Steps of a row, when no other import runs.                                *)
LEMMA SerialRow ==
    ASSUME Progressing, Serially, NEW i \in Imports, NEW r \in DOMAIN row[i],
           RowAction(i, r)
    PROVE  Serially'
  <1>0. CatalogTypes /\ \A k \in Imports : Follow(k)
    BY DEF Progressing
  <1>1. /\ r \in Rows(i) /\ job[i].at = "items" /\ Running(i)
        /\ \A k \in Imports : k # i => row'[k] = row[k]
        /\ \A q \in Rows(i) : q # r => row'[i][q] = row[i][q]
        /\ \A k \in Imports : /\ job'[k].book = job[k].book
                              /\ job'[k].status = job[k].status
                              /\ Running(k)' <=> Running(k)
        /\ parents' = parents /\ start' = start
    BY <1>0, RowStep DEF Running
  <1>2. /\ \A k \in Imports : Rows(k)' = Rows(k) /\ \A q : PlainRow(k, q)' <=> PlainRow(k, q)
        /\ \A k \in Imports : Running(k) => k = i
    BY <1>1 DEF Rows, PlainRow, Serially, OneAtATime
  <1>3. job[i].book \in Seq(Row) /\ \A a, b \in items : a.slug = b.slug => a = b
    BY <1>0 DEF CatalogTypes, Job
  <1>4. /\ row'[i][r] # "waiting"
        /\ row'[i][r] \in {"fresh", "known", "collides", "orphan"} =>
             ReadRow(i, r) /\ row'[i][r] = Seen(i, r)
        /\ row'[i][r] \in Written => row[i][r] \in Written \/ WriteRow(i, r)
        /\ ReadRow(i, r) => row[i][r] = "waiting" /\ row'[i][r] \notin Written
        /\ ~WriteRow(i, r) => items' = items
        /\ WriteRow(i, r) => row[i][r] \in {"fresh", "known"} /\ row'[i][r] \in Written
    BY <1>0, RowOrigin
  <1>5. WriteRow(i, r) => items' = Upserted(job[i].book, r)
    BY <1>0, RowMove
  <1>6. OneAtATime'
    BY <1>1 DEF Serially, OneAtATime
  <1>7. FoundStays'
    <2>1. ASSUME NEW k \in Imports, NEW p \in start[k].items
          PROVE  p \in items'
      <3>1. p \in items
        BY <2>1 DEF Serially, FoundStays
      <3>2. CASE ~WriteRow(i, r)
        BY <1>4, <3>1, <3>2
      <3>3. CASE WriteRow(i, r) /\ p.slug = SlugOf(job[i].book, r)
        BY <1>0, <2>1, <3>1, <3>3, WriteSpares DEF Serially
      <3>4. CASE WriteRow(i, r) /\ p.slug # SlugOf(job[i].book, r)
        BY <1>0, <1>1, <1>3, <1>5, <3>1, <3>4, UpsertFacts DEF Rows
      <3>5. QED
        BY <3>2, <3>3, <3>4
    <2>2. QED
      BY <1>1, <2>1 DEF Serially, FoundStays
  <1>8. ReadOfOthers'
    <2>1. ASSUME NEW k \in Imports, NEW q \in Rows(i), NEW p \in start[k].items,
                 p.slug = SlugOf(job[i].book, q)
          PROVE  /\ row'[i][q] # "fresh"
                 /\ row'[i][q] = "known" => p.name = job[i].book[q].name
      <3>1. CASE q # r
        BY <1>1, <2>1, <3>1 DEF Serially, ReadOfOthers
      <3>2. CASE q = r
        <4>1. p \in items
          BY <2>1 DEF Serially, FoundStays
        <4>2. row'[i][r] # "fresh"
          BY <1>4, <2>1, <3>2, <4>1, SeenFacts
        <4>3. ASSUME row'[i][r] = "known"
              PROVE  p.name = job[i].book[r].name
          <5>1. Seen(i, r) = "known"
            BY <1>4, <4>3
          <5>2. PICK item \in items : /\ item.slug = SlugOf(job[i].book, r)
                                      /\ Known(item, job[i].book, r)
            BY <5>1, SeenFacts
          <5>3. p = item
            BY <1>3, <2>1, <3>2, <4>1, <5>2
          <5>4. QED
            BY <5>2, <5>3 DEF Known
        <4>4. QED
          BY <3>2, <4>2, <4>3
      <3>3. QED
        BY <3>1, <3>2
    <2>2. QED
      BY <1>1, <1>2, <2>1 DEF ReadOfOthers
  <1>9. NamedHere'
    <2>1. ASSUME NEW q \in Rows(i), row'[i][q] \in Written
          PROVE  \E item \in items' : \E o \in Rows(i) :
                    /\ item.slug = SlugOf(job[i].book, q)
                    /\ SlugOf(job[i].book, o) = SlugOf(job[i].book, q)
                    /\ item.name = job[i].book[o].name
                    /\ row'[i][o] # "waiting"
      <3>1. CASE WriteRow(i, r) /\ SlugOf(job[i].book, r) = SlugOf(job[i].book, q)
        <4>1. \E item \in items' : /\ item.slug = SlugOf(job[i].book, r)
                                   /\ item.name = job[i].book[r].name
          BY <1>0, <1>1, <1>3, <1>5, <3>1, UpsertFacts DEF Rows
        <4>2. QED
          BY <1>1, <1>4, <3>1, <4>1
      <3>2. CASE ~(WriteRow(i, r) /\ SlugOf(job[i].book, r) = SlugOf(job[i].book, q))
        <4>1. row[i][q] \in Written
          BY <1>1, <1>4, <2>1, <3>2
        <4>2. PICK item \in items, o \in Rows(i) :
                    /\ item.slug = SlugOf(job[i].book, q)
                    /\ SlugOf(job[i].book, o) = SlugOf(job[i].book, q)
                    /\ item.name = job[i].book[o].name
                    /\ row[i][o] # "waiting"
          BY <1>1, <4>1 DEF Serially, NamedHere
        <4>3. item \in items'
          <5>1. CASE WriteRow(i, r)
            BY <1>0, <1>1, <1>3, <1>5, <3>2, <4>2, <5>1, UpsertFacts DEF Rows
          <5>2. QED
            BY <1>4, <5>1
        <4>4. row'[i][o] # "waiting"
          BY <1>1, <1>4, <4>2
        <4>5. QED
          BY <4>2, <4>3, <4>4
      <3>3. QED
        BY <3>1, <3>2
    <2>2. QED
      BY <1>1, <1>2, <2>1 DEF NamedHere
  <1>10. SharedInBatch'
    <2>1. ASSUME NEW q \in Rows(i), NEW o \in Rows(i), q # o,
                 row'[i][q] \in Written, row'[i][o] \in Written \cup {"fresh", "known"},
                 SlugOf(job[i].book, q) = SlugOf(job[i].book, o)
          PROVE  Batch(q) = Batch(o)
      <3>1. CASE row[i][q] \in Written /\ row[i][o] \in Written \cup {"fresh", "known"}
        BY <2>1, <3>1 DEF Serially, SharedInBatch
      <3>2. CASE ReadRow(i, r) /\ o = r
        <4>1. row[i][q] \in Written /\ Seen(i, r) \in {"fresh", "known"}
          BY <1>1, <1>4, <2>1, <3>2
        <4>2. PICK item \in items, p \in Rows(i) :
                    /\ item.slug = SlugOf(job[i].book, q)
                    /\ SlugOf(job[i].book, p) = SlugOf(job[i].book, q)
                    /\ item.name = job[i].book[p].name
                    /\ row[i][p] # "waiting"
          BY <1>1, <4>1 DEF Serially, NamedHere
        <4>3. p # r /\ SlugOf(job[i].book, p) = SlugOf(job[i].book, r)
          BY <1>4, <2>1, <3>2, <4>2
        <4>4. job[i].book[p].name # job[i].book[r].name
          BY <1>1, <1>3, <4>3, SlugDistinct DEF Rows
        <4>5. Seen(i, r) = "known"
          BY <2>1, <3>2, <4>1, <4>2, SeenFacts
        <4>6. PICK found \in items : /\ found.slug = SlugOf(job[i].book, r)
                                     /\ Known(found, job[i].book, r)
          BY <4>5, SeenFacts
        <4>7. found = item
          BY <1>3, <4>2, <4>3, <4>6
        <4>8. QED
          BY <4>2, <4>4, <4>6, <4>7 DEF Known
      <3>3. CASE WriteRow(i, r) /\ (q = r \/ o = r)
        <4>1. row[i][r] \in {"fresh", "known"}
          BY <1>4, <3>3
        <4>2. \A p \in Rows(i) : row[i][p] \in {"fresh", "known"} => Batch(p) = job[i].batch
          <5>1. ASSUME NEW p \in Rows(i), row[i][p] \in {"fresh", "known"}
                PROVE  Batch(p) = job[i].batch
            <6>1. row[i][p] \notin Settled /\ row[i][p] # "waiting"
              BY <5>1 DEF Settled, Recorded
            <6>2. ~(Batch(p) < job[i].batch) /\ ~(Batch(p) > job[i].batch)
              BY <1>0, <1>1, <6>1 DEF Follow
            <6>3. Batch(p) \in Nat /\ job[i].batch \in Nat
              BY <1>0, <1>3, RowFacts, BatchType DEF Rows, CatalogTypes, Job
            <6>4. QED
              BY <6>2, <6>3
          <5>2. QED
            BY <5>1
        <4>3. CASE q = r
          <5>1. row[i][o] \in Written \cup {"fresh", "known"}
            BY <1>1, <2>1, <4>3
          <5>2. CASE row[i][o] \in Written
            BY <1>1, <2>1, <4>1, <4>3, <5>2 DEF Serially, SharedInBatch
          <5>3. CASE row[i][o] \in {"fresh", "known"}
            BY <1>1, <4>1, <4>2, <4>3, <5>3
          <5>4. QED
            BY <5>1, <5>2, <5>3
        <4>4. CASE o = r
          <5>1. row[i][q] \in Written
            BY <1>1, <2>1, <4>4
          <5>2. QED
            BY <2>1, <4>1, <4>4, <5>1 DEF Serially, SharedInBatch
        <4>5. QED
          BY <3>3, <4>3, <4>4
      <3>4. \/ row[i][q] \in Written \/ (WriteRow(i, r) /\ q = r)
        BY <1>1, <1>4, <2>1
      <3>5. \/ row[i][o] \in Written \cup {"fresh", "known"}
            \/ o = r /\ (ReadRow(i, r) \/ WriteRow(i, r))
        BY <1>1, <1>4, <2>1
      <3>6. QED
        BY <3>1, <3>2, <3>3, <3>4, <3>5
    <2>2. QED
      BY <1>1, <1>2, <2>1 DEF Serially, SharedInBatch
  <1>11. NewItems'
    <2>1. ASSUME NEW item \in items'
          PROVE  \/ \E p \in start[i].items : p.slug = item.slug
                 \/ \E q \in Rows(i) : /\ row'[i][q] # "waiting"
                                       /\ item.slug = SlugOf(job[i].book, q)
      <3>1. CASE item \in items
        <4>1. \A q \in Rows(i) : row[i][q] # "waiting" => row'[i][q] # "waiting"
          BY <1>1, <1>4
        <4>2. QED
          BY <1>1, <3>1, <4>1 DEF Serially, NewItems
      <3>2. CASE item \notin items
        <4>1. WriteRow(i, r)
          BY <1>4, <2>1, <3>2
        <4>2. item.slug = SlugOf(job[i].book, r)
          BY <1>0, <1>1, <1>3, <1>5, <2>1, <3>2, <4>1, UpsertFacts DEF Rows
        <4>3. QED
          BY <1>1, <1>4, <4>2
      <3>3. QED
        BY <3>1, <3>2
    <2>2. QED
      BY <1>1, <1>2, <2>1 DEF NewItems
  <1>12. AsPlanned'
    <2> DEFINE planned == Planned(start[i], job[i].book, r)
    <2>1. ASSUME PlainRow(i, r)
          PROVE  /\ row'[i][r] \in {"fresh", "created", "IMPORTED"} => planned = "IMPORTED"
                 /\ row'[i][r] \in {"known", "mapped", "MAPPED_TO_EXISTING"}
                      => planned = "MAPPED_TO_EXISTING"
                 /\ row'[i][r] \in {"collides", "FOUNDER_REVIEW"}
                      => planned = "FOUNDER_REVIEW"
                 /\ row'[i][r] # "orphan"
      <3>1. CASE ReadRow(i, r)
        <4>1. /\ row[i][r] = "waiting" /\ row'[i][r] = Seen(i, r)
              /\ Seen(i, r) \in {"orphan", "fresh", "known", "collides"}
          BY <1>0, <3>1, RowMove, ProgressMade
        <4>2. /\ job[i].book[r].parent \in start[i].parents
              /\ job[i].book[r].parent \in parents
              /\ job[i].book[r].parent # Blank
              /\ job[i].book[r].kind = "plain"
          BY <1>0, <2>1 DEF PlainRow, Serially, FoundStays, CatalogTypes, Parents
        <4>3. ASSUME NEW item \in items, item.slug = SlugOf(job[i].book, r)
              PROVE  item \in start[i].items
          <5>1. \A q \in Rows(i) : row[i][q] # "waiting" =>
                   SlugOf(job[i].book, q) # SlugOf(job[i].book, r)
            BY <2>1, <4>1 DEF PlainRow, Rows
          <5>2. PICK p \in start[i].items : p.slug = item.slug
            BY <1>1, <4>3, <5>1 DEF Serially, NewItems
          <5>3. p = item
            BY <1>3, <5>2 DEF Serially, FoundStays
          <5>4. QED
            BY <5>2, <5>3
        <4>4. start[i].items \subseteq items
          BY DEF Serially, FoundStays
        <4>5. Seen(i, r) # "orphan"
          BY <4>2, SeenFacts
        <4>6. Seen(i, r) = "fresh" => planned = "IMPORTED"
          BY <4>2, <4>4, SeenFacts, PlannedFacts
        <4>7. Seen(i, r) = "known" => planned = "MAPPED_TO_EXISTING"
          BY <4>2, <4>3, SeenFacts, PlannedFacts
        <4>8. Seen(i, r) = "collides" => planned = "FOUNDER_REVIEW"
          BY <4>2, <4>3, <4>4, SeenFacts, PlannedFacts
        <4>9. QED
          BY <4>1, <4>5, <4>6, <4>7, <4>8
      <3>2. CASE ~ReadRow(i, r)
        <4>1. /\ row[i][r] \in {"fresh", "created", "IMPORTED"} => planned = "IMPORTED"
              /\ row[i][r] \in {"known", "mapped", "MAPPED_TO_EXISTING"}
                   => planned = "MAPPED_TO_EXISTING"
              /\ row[i][r] \in {"collides", "FOUNDER_REVIEW"}
                   => planned = "FOUNDER_REVIEW"
              /\ row[i][r] # "orphan"
          BY <1>1, <2>1 DEF Serially, AsPlanned
        <4>2. CASE WriteRow(i, r)
          <5>1. \/ row[i][r] = "fresh" /\ row'[i][r] = "created"
                \/ row[i][r] = "known" /\ row'[i][r] = "mapped"
            BY <1>0, <4>2, RowMove
          <5>2. QED
            BY <4>1, <5>1
        <4>3. CASE RecordRow(i, r)
          <5>1. /\ row[i][r] \in {"orphan", "collides", "created", "mapped"}
                /\ \/ row'[i][r] = Outcome(row[i][r], "plain")
                   \/ row'[i][r] = "unrecorded"
            BY <1>0, <2>1, <4>3, RowMove DEF PlainRow
          <5>2. /\ Outcome("collides", "plain") = "FOUNDER_REVIEW"
                /\ Outcome("created", "plain") = "IMPORTED"
                /\ Outcome("mapped", "plain") = "MAPPED_TO_EXISTING"
            BY DEF Outcome
          <5>3. QED
            BY <4>1, <5>1, <5>2
        <4>4. CASE FailRow(i, r)
          BY <1>0, <4>4, RowMove
        <4>5. QED
          BY <3>2, <4>2, <4>3, <4>4 DEF RowAction
      <3>3. QED
        BY <3>1, <3>2
    <2> HIDE DEF planned
    <2>2. QED
      BY <1>1, <1>2, <2>1 DEF Serially, AsPlanned, planned
  <1>13. RerunFinds'
    BY <1>1, <1>2 DEF Serially, RerunFinds
  <1>14. QED
    BY <1>6, <1>7, <1>8, <1>9, <1>10, <1>11, <1>12, <1>13 DEF Serially

LEMMA CatalogStarts == CatalogInit => CatalogInv
  <1> SUFFICES ASSUME CatalogInit PROVE CatalogInv
    OBVIOUS
  <1>1. /\ items = {} /\ parents = {} /\ overlapped = FALSE
        /\ \A i \in Imports : /\ job[i].at = "new" /\ job[i].status = "NONE"
                              /\ job[i].book = << >> /\ job[i].batch = 0
                              /\ start[i].items = {} /\ start[i].parents = {}
                              /\ ~Running(i) /\ Rows(i) = {}
    BY DEF CatalogInit, Running, Rows
  <1>2. job \in [Imports -> Job]
    BY DEF CatalogInit, Job
  <1>3. CatalogTypes
    <2>1. << >> \in [{} -> Progress]
      OBVIOUS
    <2>2. DOMAIN row = Imports /\ \A i \in Imports : row[i] \in [Rows(i) -> Progress]
      BY <1>1, <2>1 DEF CatalogInit
    <2>3. start \in [Imports -> [items: SUBSET Item, parents: SUBSET Parents]]
      BY DEF CatalogInit
    <2>4. QED
      BY <1>1, <1>2, <2>2, <2>3 DEF CatalogTypes
  <1>4. \A i \in Imports : Follow(i) /\ Complete(i)
    BY <1>1 DEF Follow, Complete
  <1>5. Serially
    BY <1>1 DEF Serially, OneAtATime, FoundStays, ReadOfOthers, NamedHere,
                SharedInBatch, NewItems, AsPlanned, RerunFinds
  <1>6. QED
    BY <1>3, <1>4, <1>5 DEF CatalogInv, Progressing

LEMMA CatalogSteps ==
    ASSUME CatalogInv, [CatalogNext]_catalogVars
    PROVE  CatalogInv'
  <1>0. Progressing /\ CatalogTypes
    BY DEF CatalogInv, Progressing
  <1>1. Progressing'
    BY <1>0, NextTypes, NextFollows, NextCompletes DEF Progressing
  <1>2. ASSUME ~overlapped'
        PROVE  Serially'
    <2>1. CASE \E i \in Imports, book \in Books : BeginImport(i, book)
      <3>1. PICK i \in Imports, book \in Books : BeginImport(i, book)
        BY <2>1
      <3>2. ~overlapped
        BY <1>0, <1>2, <3>1, BeginStep
      <3>3. QED
        BY <1>0, <1>2, <3>1, <3>2, SerialBegin DEF CatalogInv
    <2>2. CASE \E i \in Imports : ImportParents(i) \/ NextBatch(i) \/ End(i) \/ Die(i)
      <3>1. PICK i \in Imports : ImportParents(i) \/ NextBatch(i) \/ End(i) \/ Die(i)
        BY <2>2
      <3>2. ~overlapped
        BY <1>2, <3>1 DEF ImportParents, NextBatch, End, Die
      <3>3. QED
        BY <1>0, <3>1, <3>2, SerialQuiet DEF CatalogInv
    <2>3. CASE \E i \in Imports : \E r \in DOMAIN row[i] : RowAction(i, r)
      <3>1. PICK i \in Imports : \E r \in DOMAIN row[i] : RowAction(i, r)
        BY <2>3
      <3>2. PICK r \in DOMAIN row[i] : RowAction(i, r)
        BY <3>1
      <3>3. ~overlapped
        BY <1>0, <1>2, <3>2, RowStep
      <3>4. QED
        BY <1>0, <3>2, <3>3, SerialRow DEF CatalogInv
    <2>4. CASE UNCHANGED catalogVars
      <3>1. Serially
        BY <1>2, <2>4 DEF CatalogInv, catalogVars
      <3>2. QED
        BY <2>4, <3>1 DEF catalogVars, Serially, OneAtATime, FoundStays, ReadOfOthers,
                          NamedHere, SharedInBatch, NewItems, AsPlanned, RerunFinds,
                          Running, Rows, PlainRow
    <2>5. QED
      BY <2>1, <2>2, <2>3, <2>4 DEF CatalogNext, RowAction
  <1>3. QED
    BY <1>1, <1>2 DEF CatalogInv

(* However imports overlap, fail and die, every row follows its batch and     *)
(* leaves an item or an error behind; as long as none overlapped, what an     *)
(* import found in the catalogue stays as it was found.                       *)
THEOREM CatalogInvariant == CatalogSpec => []CatalogInv
  <1>1. CatalogInit => CatalogInv
    BY CatalogStarts
  <1>2. CatalogInv /\ [CatalogNext]_catalogVars => CatalogInv'
    BY CatalogSteps
  <1>3. QED
    BY <1>1, <1>2, PTL DEF CatalogSpec

(* The slug of an item is unique, and items, jobs and rows keep their types,  *)
(* for any workbooks, batches and imports, overlapping or not.                *)
THEOREM CatalogTypeCorrect == CatalogSpec => []CatalogTypes
  <1>1. CatalogInv => CatalogTypes
    BY DEF CatalogInv, Progressing
  <1>2. QED
    BY <1>1, CatalogInvariant, PTL

(* However imports overlap and fail: a COMPLETED job left an item under the   *)
(* slug of every row.                                                         *)
THEOREM CompletedIsPresent == CatalogSpec => []CompletedMeansPresent
  <1>1. CatalogInv => CompletedMeansPresent
    <2> SUFFICES ASSUME CatalogInv, NEW i \in Imports, job[i].status = "COMPLETED",
                        NEW r \in DOMAIN job[i].book
                 PROVE  \E item \in items : item.slug = SlugOf(job[i].book, r)
      BY DEF CompletedMeansPresent
    <2>1. Follow(i) /\ Complete(i)
      BY DEF CatalogInv, Progressing
    <2>2. row[i][r] \in Settled /\ ~job[i].errors
      BY <2>1 DEF Follow, Rows
    <2>3. row[i][r] \notin {"waiting", "fresh"}
      BY <2>2 DEF Settled, Recorded
    <2>4. QED
      BY <2>1, <2>2, <2>3 DEF Complete, Rows
  <1>2. QED
    BY <1>1, CatalogInvariant, PTL

(* Imports one after the other never merge a row into a record that was there *)
(* before its batch.                                                          *)
THEOREM RecordsStayApart == CatalogSpec => []NeverMergedAcrossBatches
  <1>1. CatalogInv => NeverMergedAcrossBatches
    <2> SUFFICES ASSUME CatalogInv, ~overlapped
                 PROVE  NeverMergedAcrossBatches
      BY DEF NeverMergedAcrossBatches
    <2>1. Serially /\ CatalogTypes
      BY DEF CatalogInv, Progressing
    <2>2. \A i \in Imports : start[i].items \subseteq items
      BY <2>1 DEF Serially, FoundStays
    <2>3. \A i \in Imports : \A r \in Claims(i) : r \in Rows(i) /\ row[i][r] \in Written
      BY <2>1 DEF Claims, CatalogTypes, Written
    <2>4. QED
      BY <2>1, <2>2, <2>3 DEF Serially, SharedInBatch, NeverMergedAcrossBatches
  <1>2. QED
    BY <1>1, CatalogInvariant, PTL

(* Imports one after the other give a plain row the outcome planned for it.   *)
THEOREM PlanIsKept == CatalogSpec => []PlainRowsGoAsPlanned
  <1>1. CatalogInv => PlainRowsGoAsPlanned
    <2> SUFFICES ASSUME CatalogInv, ~overlapped, NEW i \in Imports,
                        NEW r \in DOMAIN row[i], row[i][r] \in Recorded, PlainRow(i, r)
                 PROVE  row[i][r] = Planned(start[i], job[i].book, r)
      BY DEF PlainRowsGoAsPlanned
    <2>1. AsPlanned /\ r \in Rows(i)
      BY DEF CatalogInv, Progressing, Serially, CatalogTypes
    <2> DEFINE planned == Planned(start[i], job[i].book, r)
    <2>2. /\ row[i][r] = "IMPORTED" => planned = "IMPORTED"
          /\ row[i][r] = "MAPPED_TO_EXISTING" => planned = "MAPPED_TO_EXISTING"
          /\ row[i][r] = "FOUNDER_REVIEW" => planned = "FOUNDER_REVIEW"
      BY <2>1 DEF AsPlanned
    <2>3. QED
      BY <2>2 DEF Recorded
  <1>2. QED
    BY <1>1, CatalogInvariant, PTL

(* Imports one after the other: importing again what was imported without an  *)
(* error changes neither items nor parents.                                   *)
THEOREM RerunIsIdle == CatalogSpec => RerunChangesNothing
  <1> DEFINE Idles == ~overlapped => \A i, k \in Imports :
         job[i].status = "COMPLETED" /\ Running(k) /\ job[k].book = job[i].book
           => items' = items /\ parents' = parents
  <1>1. CatalogInv /\ [CatalogNext]_catalogVars => [Idles]_catalogVars
    <2> SUFFICES ASSUME CatalogInv, CatalogNext, ~overlapped,
                        NEW i \in Imports, NEW k \in Imports,
                        job[i].status = "COMPLETED", Running(k),
                        job[k].book = job[i].book
                 PROVE  items' = items /\ parents' = parents
      OBVIOUS
    <2>1. CatalogTypes /\ Serially /\ Follow(i) /\ Complete(i)
      BY DEF CatalogInv, Progressing
    <2>2. \A j \in Imports : Running(j) => j = k
      BY <2>1 DEF Serially, OneAtATime
    <2>3. ASSUME NEW j \in Imports, NEW book \in Books, BeginImport(j, book)
          PROVE  items' = items /\ parents' = parents
      BY <2>3 DEF BeginImport
    <2>4. ASSUME NEW j \in Imports, ImportParents(j)
          PROVE  items' = items /\ parents' = parents
      <3>1. j = k
        BY <2>2, <2>4 DEF ImportParents, Running
      <3>2. /\ items' = items /\ parents \subseteq parents'
            /\ \A p \in parents' \ parents : \E r \in Rows(k) : p = job[k].book[r].parent
        BY <2>1, <2>4, <3>1, ParentsStep
      <3>3. \A r \in Rows(k) : job[k].book[r].parent \in parents \cup {Blank}
        BY <2>1 DEF Follow, Complete, Rows
      <3>4. Blank \notin parents'
        BY <2>1, <2>4, NextTypes DEF CatalogTypes, Parents, CatalogNext
      <3>5. QED
        BY <3>2, <3>3, <3>4
    <2>5. ASSUME NEW j \in Imports, NEW r \in DOMAIN row[j], RowAction(j, r)
          PROVE  items' = items /\ parents' = parents
      <3>1. /\ parents' = parents /\ r \in Rows(j) /\ j = k
            /\ ~WriteRow(j, r) => items' = items
        BY <2>1, <2>2, <2>5, RowStep, RowOrigin DEF Running
      <3>2. \E p \in start[k].items : p.slug = SlugOf(job[k].book, r)
        BY <2>1, <3>1 DEF Serially, RerunFinds, Rows
      <3>3. WriteRow(j, r) => items' = items
        BY <2>1, <3>1, <3>2, WriteSpares DEF Serially
      <3>4. QED
        BY <3>1, <3>3
    <2>6. ASSUME NEW j \in Imports, NextBatch(j) \/ End(j) \/ Die(j)
          PROVE  items' = items /\ parents' = parents
      BY <2>6 DEF NextBatch, End, Die
    <2>7. QED
      BY <2>3, <2>4, <2>5, <2>6 DEF CatalogNext, RowAction
  <1>2. QED
    BY <1>1, CatalogInvariant, PTL DEF CatalogSpec, RerunChangesNothing
=============================================================================
