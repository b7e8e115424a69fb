------------------------- MODULE Procurement_proof --------------------------
(***************************************************************************)
(* Theorems about Procurement, for any number of quotes and requests at the*)
(* same time.  What a request has read of a purchase order stays on file,  *)
(* whatever races it, which is what OrdersComeFromAgreement needs; as long *)
(* as nothing overlapped it is also true of the rows as they are, which the*)
(* other properties need.                                                  *)
(***************************************************************************)
EXTENDS Procurement, TLAPS

Prior ==
    [BUYER_CONFIRMED |-> "DRAFT", SELLER_PENDING |-> "BUYER_CONFIRMED",
     SELLER_ACCEPTED |-> "SELLER_PENDING", LOCKED |-> "SELLER_ACCEPTED"]

\* The statuses of a quote that may still be accepted or negotiated.
Live == {"ABSENT", "DRAFT"} \cup Offered

\* What a request knows of the versions on file, the purchase orders and the
\* negotiations, for good.
Past(x, v, p, n) ==
    /\ x.op = "rfq" => x.to # "QUOTED"
    /\ x.op = "negotiation" => x.to # "ABSENT"
    /\ x.op = "generate" => n[x.q] # "ABSENT"
    /\ x.op \in {"po", "revise", "convert"} => p[x.q] # "ABSENT"
    /\ x.op = "po" =>
         /\ x.to \notin {"ABSENT", "CONVERTED_TO_ORDER"}
         /\ x.to \in DOMAIN Prior => Prior[x.to] \in v[x.q]
    /\ x.op = "revise" => x.saw = "CONVERTED_TO_ORDER" \/ x.saw \in v[x.q]
    /\ x.op = "convert" => "LOCKED" \in v[x.q]

\* What a request has read is so now, of the RFQ, the quotes, the negotiations,
\* the purchase orders and the orders.
Present(x, r, qt, n, p, o) ==
    /\ x.op = "create" => r.status = "ACTIVE" /\ qt[x.q] = "ABSENT"
    /\ x.op = "quote" => qt[x.q] \in {"DRAFT"} \cup Offered
    /\ x.op = "award" => r.status = "ACTIVE"
    /\ x.op \in {"award", "order", "start"} => qt[x.q] \in Offered
    /\ x.op = "start" => n[x.q] = "ABSENT"
    /\ x.op = "negotiation" => n[x.q] = "OPEN"
    /\ x.op = "po" => p[x.q] \notin PoClosed
    /\ x.op = "generate" => p[x.q] = "ABSENT"
    /\ x.op = "convert" => p[x.q] = "LOCKED" /\ o[x.q].fromPo = 0

ReadsPast == \A c \in Calls : Past(call[c], versions, po, negotiation)

ReadsPresent ==
    ~overlapped =>
        /\ \A c, d \in Calls : call[c] # Idle /\ call[d] # Idle => c = d
        /\ \A c \in Calls : Present(call[c], rfq, quote, negotiation, po, orders)

OnFile ==
    \A q \in Quotes :
        /\ \A s \in DOMAIN Prior : s \in versions[q] => Prior[s] \in versions[q]
        /\ po[q] = "ABSENT" => versions[q] = {}
        /\ po[q] = "CONVERTED_TO_ORDER" => "LOCKED" \in versions[q]
        /\ po[q] \notin {"ABSENT", "CONVERTED_TO_ORDER"} => po[q] \in versions[q]
        /\ po[q] # "ABSENT" => negotiation[q] # "ABSENT"
        /\ orders[q].fromPo > 0 => "LOCKED" \in versions[q]

OneWay ==
    ~overlapped =>
        \A q \in Quotes :
            /\ negotiation[q] # "ABSENT" => quote[q] \notin Live
            /\ orders[q].accepted = 1 => quote[q] \notin Live /\ negotiation[q] = "ABSENT"
            /\ orders[q].fromPo =< 1

IInv ==
    /\ TypeOK
    /\ ReadsPast
    /\ ReadsPresent
    /\ OnFile
    /\ OneWay
    /\ AwardHolds

-----------------------------------------------------------------------------
(* What the tables of moves say of those they allow.                         *)
LEMMA PoMovesFacts ==
    ASSUME NEW op \in DOMAIN PoMoves, NEW s \in PoMoves[op].from
    PROVE  /\ s \notin PoClosed /\ s \in PoStatuses
           /\ PoMoves[op].to \in PoStatuses \ {"ABSENT", "CONVERTED_TO_ORDER"}
           /\ PoMoves[op].to \in DOMAIN Prior => Prior[PoMoves[op].to] = s
<1>1. op \in {"confirm", "markSellerPending", "accept", "requestRevision", "lock",
              "reject", "cancel"}
  BY DEF PoMoves
<1>2. CASE op \in {"confirm", "markSellerPending", "accept"}
  BY <1>2 DEF PoMoves, PoClosed, PoStatuses, Prior
<1>3. CASE op \in {"requestRevision", "lock"}
  BY <1>3 DEF PoMoves, PoClosed, PoStatuses, Prior
<1>4. CASE op \in {"reject", "cancel"}
  BY <1>4 DEF PoMoves, PoClosed, PoStatuses, Prior
<1> QED
  BY <1>1, <1>2, <1>3, <1>4

LEMMA OtherMovesFacts ==
    /\ \A op \in DOMAIN RfqMoves : RfqMoves[op].to \in RfqStatuses \ {"QUOTED"}
    /\ \A op \in DOMAIN QuoteMoves :
         /\ QuoteMoves[op].to \in QuoteStatuses
         /\ QuoteMoves[op].from \subseteq {"DRAFT"} \cup Offered
    /\ \A op \in DOMAIN NegotiationMoves :
         /\ NegotiationMoves[op].to \in NegotiationStatuses \ {"ABSENT"}
         /\ NegotiationMoves[op].from = {"OPEN"}
<1>1. \A op \in DOMAIN RfqMoves : RfqMoves[op].to \in RfqStatuses \ {"QUOTED"}
  BY DEF RfqMoves, RfqStatuses
<1>2. \A op \in DOMAIN QuoteMoves :
         /\ QuoteMoves[op].to \in QuoteStatuses
         /\ QuoteMoves[op].from \subseteq {"DRAFT"} \cup Offered
  BY DEF QuoteMoves, QuoteStatuses, Offered
<1>3. \A op \in DOMAIN NegotiationMoves :
         /\ NegotiationMoves[op].to \in NegotiationStatuses \ {"ABSENT"}
         /\ NegotiationMoves[op].from = {"OPEN"}
  BY DEF NegotiationMoves, NegotiationStatuses
<1> QED
  BY <1>1, <1>2, <1>3

(* The kinds of request tell themselves apart.                               *)
LEMMA CallShapes ==
    ASSUME NEW x \in Call
    PROVE  /\ x.op = "rfq" => x.to \in RfqStatuses
           /\ x.op \in {"create", "award", "order", "start", "generate", "convert",
                        "quote", "negotiation", "po", "revise"} => x.q \in Quotes
           /\ x.op = "quote" => x.to \in QuoteStatuses
           /\ x.op = "negotiation" => x.to \in NegotiationStatuses
           /\ x.op = "po" => x.to \in PoStatuses
           /\ x.op = "revise" => x.saw \in PoStatuses
  BY DEF Call, Idle

LEMMA IdleKnowsNothing ==
    ASSUME NEW v, NEW p, NEW n, NEW r, NEW qt, NEW o
    PROVE  Idle \in Call /\ Past(Idle, v, p, n) /\ Present(Idle, r, qt, n, p, o)
  BY DEF Call, Idle, Past, Present

-----------------------------------------------------------------------------
LEMMA InitHolds == Init => IInv
<1> SUFFICES ASSUME Init PROVE IInv
  OBVIOUS
<1>1. call \in [Calls -> Call] /\ ReadsPast /\ ReadsPresent
  BY IdleKnowsNothing DEF ReadsPast, ReadsPresent, Init
<1>2. overlapped \in BOOLEAN /\ rfq \in [status: RfqStatuses, reopened: BOOLEAN,
                                          accepted: SUBSET Quotes]
  BY DEF Init, RfqStatuses
<1>3. TypeOK
  BY <1>1, <1>2 DEF TypeOK, Init, QuoteStatuses, NegotiationStatuses, PoStatuses
<1>4. OnFile /\ OneWay
  BY DEF OnFile, OneWay, Init, Prior
<1>5. AwardHolds
  BY DEF AwardHolds, Init
<1> QED
  BY <1>1, <1>3, <1>4, <1>5 DEF IInv

\* Nothing on file is lost, and what there is stays.
Kept ==
    \A q \in Quotes :
        /\ versions[q] \subseteq versions'[q]
        /\ po[q] # "ABSENT" => po'[q] # "ABSENT"
        /\ negotiation[q] # "ABSENT" => negotiation'[q] # "ABSENT"

(* A request that goes on to x, in a step that loses nothing on file.        *)
LEMMA CallStep ==
    ASSUME IInv, NEW c \in Calls, NEW x \in Call, Kept,
           call' = [call EXCEPT ![c] = x], Past(x, versions', po', negotiation')
    PROVE  call' \in [Calls -> Call] /\ ReadsPast'
<1>1. call \in [Calls -> Call]
  BY DEF IInv, TypeOK
<1>2. ASSUME NEW d \in Calls PROVE Past(call'[d], versions', po', negotiation')
  <2>1. CASE d = c
    BY <1>1, <2>1
  <2>2. CASE d # c
    <3>1. call'[d] = call[d] /\ call[d] \in Call
             /\ Past(call[d], versions, po, negotiation)
      BY <1>1, <2>2 DEF IInv, ReadsPast
    <3>2. call[d].op \in {"generate", "po", "revise", "convert"} => call[d].q \in Quotes
      BY <3>1, CallShapes
    <3> QED
      BY <3>1, <3>2 DEF Past, Kept
  <2> QED
    BY <2>1, <2>2
<1> QED
  BY <1>1, <1>2 DEF ReadsPast

(* A step that ends a request: nothing else was in flight, if nothing had    *)
(* overlapped.                                                               *)
LEMMA AnswerStep ==
    ASSUME IInv, NEW c \in Calls, call[c] # Idle, Answer(c), Kept
    PROVE  /\ call' \in [Calls -> Call] /\ ReadsPast' /\ ReadsPresent'
           /\ requests' \in Nat /\ overlapped' \in BOOLEAN /\ overlapped' = overlapped
<1>1. call' \in [Calls -> Call] /\ ReadsPast'
  BY CallStep, IdleKnowsNothing DEF Answer
<1>2. ~overlapped => \A d \in Calls : call'[d] = Idle
  BY DEF IInv, TypeOK, ReadsPresent, Answer
<1>3. requests' \in Nat
  BY DEF IInv, TypeOK, Answer, history
<1>4. overlapped' \in BOOLEAN /\ overlapped' = overlapped
  BY DEF IInv, TypeOK, Answer, history
<1>5. ReadsPresent'
  BY <1>2, <1>4, IdleKnowsNothing DEF ReadsPresent
<1> QED
  BY <1>1, <1>3, <1>4, <1>5

(* A request begins, having read what Past and Present say of it.            *)
LEMMA BeginStep ==
    ASSUME IInv, NEW c \in Calls, NEW x \in Call, Begin(c, x),
           Past(x, versions, po, negotiation),
           Present(x, rfq, quote, negotiation, po, orders)
    PROVE  IInv'
<1> USE DEF Begin, NoteOverlap, rows
<1>1. Kept
  BY DEF Kept
<1>2. call' \in [Calls -> Call] /\ ReadsPast'
  BY <1>1, CallStep
<1>3. overlapped' \in BOOLEAN
  BY DEF IInv, TypeOK
<1>4. TypeOK'
  BY <1>2, <1>3 DEF IInv, TypeOK
<1>5. OnFile'
  BY DEF IInv, OnFile
<1>6. ~overlapped' => ~overlapped /\ \A d \in Calls : call[d] = Idle
  OBVIOUS
<1>7. ReadsPresent'
  <2> SUFFICES ASSUME ~overlapped'
               PROVE  /\ \A d, e \in Calls :
                           call'[d] # Idle /\ call'[e] # Idle => d = e
                      /\ \A d \in Calls :
                           Present(call'[d], rfq', quote', negotiation', po', orders')
    BY DEF ReadsPresent
  <2>1. call \in [Calls -> Call]
    BY DEF IInv, TypeOK
  <2>2. \A d \in Calls \ {c} : call'[d] = Idle
    BY <1>6, <2>1
  <2>3. \A d \in Calls : Present(call'[d], rfq', quote', negotiation', po', orders')
    BY <2>1, <2>2, IdleKnowsNothing
  <2> QED
    BY <2>2, <2>3
<1>8. OneWay'
  BY <1>6 DEF IInv, OneWay
<1>9. AwardHolds'
  BY <1>6 DEF IInv, AwardHolds
<1> QED
  BY <1>2, <1>4, <1>5, <1>7, <1>8, <1>9 DEF IInv

LEMMA BeginCallKeeps ==
    ASSUME IInv, NEW c \in Calls, BeginCall(c)
    PROVE  IInv'
<1> USE DEF IInv
<1>1. ASSUME NEW op \in DOMAIN RfqMoves, RfqBegin(c, op) PROVE IInv'
  <2> DEFINE x == [op |-> "rfq", to |-> RfqMoves[op].to]
  <2>1. Begin(c, x) /\ RfqMoves[op].to \in RfqStatuses \ {"QUOTED"}
    BY <1>1, OtherMovesFacts DEF RfqBegin
  <2>2. x \in Call /\ Past(x, versions, po, negotiation)
          /\ Present(x, rfq, quote, negotiation, po, orders)
    BY <2>1 DEF Call, Past, Present
  <2> QED
    BY <2>1, <2>2, BeginStep
<1>2. ASSUME NEW q \in Quotes, CreateBegin(c, q) PROVE IInv'
  <2> DEFINE x == [op |-> "create", q |-> q]
  <2>2. x \in Call /\ Past(x, versions, po, negotiation)
          /\ Present(x, rfq, quote, negotiation, po, orders)
    BY <1>2 DEF CreateBegin, Call, Past, Present
  <2> QED
    BY <1>2, <2>2, BeginStep DEF CreateBegin
<1>3. ASSUME NEW q \in Quotes, AwardBegin(c, q) PROVE IInv'
  <2> DEFINE x == [op |-> "award", q |-> q]
  <2>2. x \in Call /\ Past(x, versions, po, negotiation)
          /\ Present(x, rfq, quote, negotiation, po, orders)
    BY <1>3 DEF AwardBegin, Call, Past, Present
  <2> QED
    BY <1>3, <2>2, BeginStep DEF AwardBegin
<1>4. ASSUME NEW q \in Quotes, OrderBegin(c, q) PROVE IInv'
  <2> DEFINE x == [op |-> "order", q |-> q]
  <2>2. x \in Call /\ Past(x, versions, po, negotiation)
          /\ Present(x, rfq, quote, negotiation, po, orders)
    BY <1>4 DEF OrderBegin, Call, Past, Present
  <2> QED
    BY <1>4, <2>2, BeginStep DEF OrderBegin
<1>5. ASSUME NEW q \in Quotes, StartBegin(c, q) PROVE IInv'
  <2> DEFINE x == [op |-> "start", q |-> q]
  <2>2. x \in Call /\ Past(x, versions, po, negotiation)
          /\ Present(x, rfq, quote, negotiation, po, orders)
    BY <1>5 DEF StartBegin, Call, Past, Present
  <2> QED
    BY <1>5, <2>2, BeginStep DEF StartBegin
<1>6. ASSUME NEW q \in Quotes, GenerateBegin(c, q) PROVE IInv'
  <2> DEFINE x == [op |-> "generate", q |-> q]
  <2>2. x \in Call /\ Past(x, versions, po, negotiation)
          /\ Present(x, rfq, quote, negotiation, po, orders)
    BY <1>6 DEF GenerateBegin, Call, Past, Present
  <2> QED
    BY <1>6, <2>2, BeginStep DEF GenerateBegin
<1>7. ASSUME NEW q \in Quotes, ReviseBegin(c, q) PROVE IInv'
  <2> DEFINE x == [op |-> "revise", q |-> q, saw |-> po[q]]
  <2>1. po[q] \in PoStatuses
    BY DEF TypeOK
  <2>2. x \in Call /\ Past(x, versions, po, negotiation)
          /\ Present(x, rfq, quote, negotiation, po, orders)
    BY <1>7, <2>1 DEF ReviseBegin, Call, Past, Present, OnFile
  <2> QED
    BY <1>7, <2>2, BeginStep DEF ReviseBegin
<1>8. ASSUME NEW q \in Quotes, ConvertBegin(c, q) PROVE IInv'
  <2> DEFINE x == [op |-> "convert", q |-> q]
  <2>1. "LOCKED" \in versions[q]
    BY <1>8 DEF ConvertBegin, OnFile
  <2>2. x \in Call /\ Past(x, versions, po, negotiation)
          /\ Present(x, rfq, quote, negotiation, po, orders)
    BY <1>8, <2>1 DEF ConvertBegin, Call, Past, Present
  <2> QED
    BY <1>8, <2>2, BeginStep DEF ConvertBegin
<1>9. ASSUME NEW q \in Quotes, NEW op \in DOMAIN QuoteMoves, QuoteBegin(c, q, op)
      PROVE IInv'
  <2> DEFINE x == [op |-> "quote", q |-> q, to |-> QuoteMoves[op].to]
  <2>1. /\ Begin(c, x) /\ QuoteMoves[op].to \in QuoteStatuses
        /\ quote[q] \in {"DRAFT"} \cup Offered
    BY <1>9, OtherMovesFacts DEF QuoteBegin
  <2>2. x \in Call /\ Past(x, versions, po, negotiation)
          /\ Present(x, rfq, quote, negotiation, po, orders)
    BY <2>1 DEF Call, Past, Present
  <2> QED
    BY <2>1, <2>2, BeginStep
<1>10. ASSUME NEW q \in Quotes, NEW op \in DOMAIN NegotiationMoves,
              NegotiationBegin(c, q, op)
       PROVE IInv'
  <2> DEFINE x == [op |-> "negotiation", q |-> q, to |-> NegotiationMoves[op].to]
  <2>1. /\ Begin(c, x) /\ NegotiationMoves[op].to \in NegotiationStatuses \ {"ABSENT"}
        /\ negotiation[q] = "OPEN"
    BY <1>10, OtherMovesFacts DEF NegotiationBegin
  <2>2. x \in Call /\ Past(x, versions, po, negotiation)
          /\ Present(x, rfq, quote, negotiation, po, orders)
    BY <2>1 DEF Call, Past, Present
  <2> QED
    BY <2>1, <2>2, BeginStep
<1>11. ASSUME NEW q \in Quotes, NEW op \in DOMAIN PoMoves, PoBegin(c, q, op)
       PROVE IInv'
  <2> DEFINE x == [op |-> "po", q |-> q, to |-> PoMoves[op].to]
  <2>1. /\ Begin(c, x) /\ po[q] \notin PoClosed
        /\ PoMoves[op].to \in PoStatuses \ {"ABSENT", "CONVERTED_TO_ORDER"}
        /\ PoMoves[op].to \in DOMAIN Prior => Prior[PoMoves[op].to] = po[q]
    BY <1>11, PoMovesFacts DEF PoBegin
  <2>2. po[q] \in versions[q] /\ po[q] # "ABSENT"
    BY <2>1 DEF OnFile, PoClosed
  <2>3. x \in Call /\ Past(x, versions, po, negotiation)
          /\ Present(x, rfq, quote, negotiation, po, orders)
    BY <2>1, <2>2 DEF Call, Past, Present
  <2> QED
    BY <2>1, <2>3, BeginStep
<1> QED
  BY <1>1, <1>2, <1>3, <1>4, <1>5, <1>6, <1>7, <1>8, <1>9, <1>10, <1>11 DEF BeginCall

-----------------------------------------------------------------------------
(* What a request in flight knows when it commits.                           *)
LEMMA Knows ==
    ASSUME IInv, NEW c \in Calls
    PROVE  /\ call[c] \in Call
           /\ Past(call[c], versions, po, negotiation)
           /\ ~overlapped => Present(call[c], rfq, quote, negotiation, po, orders)
  BY DEF IInv, TypeOK, ReadsPast, ReadsPresent

LEMMA RfqCommitKeeps ==
    ASSUME IInv, NEW c \in Calls, RfqCommit(c)
    PROVE  IInv'
<1> USE DEF IInv, RfqCommit
<1>1. call[c] # Idle /\ call[c].to \in RfqStatuses /\ call[c].to # "QUOTED"
  BY Knows, CallShapes DEF Idle, Past
<1>2. Kept
  BY DEF Kept
<1>3. /\ call' \in [Calls -> Call] /\ ReadsPast' /\ ReadsPresent'
      /\ requests' \in Nat /\ overlapped' \in BOOLEAN /\ overlapped' = overlapped
  BY <1>1, <1>2, AnswerStep
<1>4. rfq.reopened \in BOOLEAN /\ rfq.accepted \in SUBSET Quotes
  BY DEF TypeOK
<1>5. rfq' \in [status: RfqStatuses, reopened: BOOLEAN, accepted: SUBSET Quotes]
        /\ rfq'.status # "QUOTED"
  BY <1>1, <1>4 DEF TypeOK
<1>6. TypeOK'
  BY <1>3, <1>5 DEF TypeOK
<1>7. OnFile' /\ OneWay'
  BY <1>3 DEF OnFile, OneWay
<1>8. AwardHolds'
  BY <1>5 DEF AwardHolds
<1> QED
  BY <1>3, <1>6, <1>7, <1>8

\* A step that only writes quotes, of which one that is not Live is not made so
\* while nothing has overlapped, and none is changed after an award.
LEMMA QuoteStep ==
    ASSUME IInv, NEW c \in Calls, call[c] # Idle, Answer(c),
           UNCHANGED <<rfq, negotiation, po, versions, orders>>,
           quote' \in [Quotes -> QuoteStatuses],
           ~overlapped => \A q \in Quotes :
               quote'[q] # quote[q] =>
                 quote[q] \in Live /\ (quote[q] = "ABSENT" => rfq.status = "ACTIVE")
    PROVE  IInv'
<1> USE DEF IInv
<1>2. Kept
  BY DEF Kept
<1>3. /\ call' \in [Calls -> Call] /\ ReadsPast' /\ ReadsPresent'
      /\ requests' \in Nat /\ overlapped' \in BOOLEAN /\ overlapped' = overlapped
  BY <1>2, AnswerStep
<1>4. TypeOK' /\ OnFile'
  BY <1>3 DEF TypeOK, OnFile
<1>5. OneWay'
  BY <1>3 DEF OneWay
<1>6. AwardHolds'
  <2> SUFFICES ASSUME ~overlapped, rfq.status = "QUOTED", NEW q \in Quotes
               PROVE  quote'[q] = quote[q]
    <3>1. rfq' = rfq /\ negotiation' = negotiation /\ rfq.accepted \subseteq Quotes
      BY DEF TypeOK
    <3> QED
      BY <1>3, <3>1 DEF AwardHolds
  <2>1. q \in rfq.accepted => quote[q] \notin Live
    BY DEF AwardHolds, Live, Offered
  <2>2. q \notin rfq.accepted => quote[q] \notin Live \/ quote[q] = "ABSENT"
    BY DEF AwardHolds, Live, Offered, Settled, OneWay
  <2> QED
    BY <2>1, <2>2
<1> QED
  BY <1>3, <1>4, <1>5, <1>6

LEMMA CreateCommitKeeps ==
    ASSUME IInv, NEW c \in Calls, CreateCommit(c)
    PROVE  IInv'
<1> USE DEF CreateCommit
<1>1. call[c] # Idle /\ call[c].q \in Quotes
  BY Knows, CallShapes DEF Idle
<1>2. ~overlapped => quote[call[c].q] = "ABSENT" /\ rfq.status = "ACTIVE"
  BY Knows DEF Present
<1>3. quote \in [Quotes -> QuoteStatuses]
  BY DEF IInv, TypeOK
<1>4. quote' \in [Quotes -> QuoteStatuses]
  BY <1>3 DEF QuoteStatuses
<1>5. \A q \in Quotes : quote'[q] # quote[q] => q = call[c].q
  BY <1>3
<1> QED
  BY <1>1, <1>2, <1>4, <1>5, QuoteStep DEF Live

LEMMA QuoteCommitKeeps ==
    ASSUME IInv, NEW c \in Calls, QuoteCommit(c)
    PROVE  IInv'
<1> USE DEF QuoteCommit
<1>1. call[c] # Idle /\ call[c].q \in Quotes /\ call[c].to \in QuoteStatuses
  BY Knows, CallShapes DEF Idle
<1>2. ~overlapped => quote[call[c].q] \in {"DRAFT"} \cup Offered
  BY Knows DEF Present
<1>3. quote \in [Quotes -> QuoteStatuses]
  BY DEF IInv, TypeOK
<1>4. quote' \in [Quotes -> QuoteStatuses]
  BY <1>1, <1>3
<1>5. \A q \in Quotes : quote'[q] # quote[q] => q = call[c].q
  BY <1>3
<1> QED
  BY <1>1, <1>2, <1>4, <1>5, QuoteStep DEF Live, Offered

LEMMA AwardCommitKeeps ==
    ASSUME IInv, NEW c \in Calls, AwardCommit(c)
    PROVE  IInv'
<1> USE DEF IInv, AwardCommit
<1>1. call[c] # Idle /\ call[c].q \in Quotes
  BY Knows, CallShapes DEF Idle
<1>2. Kept
  BY DEF Kept
<1>3. /\ call' \in [Calls -> Call] /\ ReadsPast' /\ ReadsPresent'
      /\ requests' \in Nat /\ overlapped' \in BOOLEAN /\ overlapped' = overlapped
  BY <1>1, <1>2, AnswerStep
<1>4. rfq.reopened \in BOOLEAN
  BY DEF TypeOK
<1>5. rfq' \in [status: RfqStatuses, reopened: BOOLEAN, accepted: SUBSET Quotes]
        /\ rfq'.accepted = {call[c].q}
  BY <1>1, <1>4 DEF TypeOK, RfqStatuses
<1>6. quote' \in [Quotes -> QuoteStatuses]
  BY DEF TypeOK, QuoteStatuses
<1>7. TypeOK' /\ OnFile'
  BY <1>3, <1>5, <1>6 DEF TypeOK, OnFile
<1>8. \A q \in Quotes : quote'[q] = quote[q] \/ quote'[q] \notin Live
  BY DEF Live, Offered
<1>9. ~overlapped => negotiation[call[c].q] = "ABSENT"
  BY <1>1, Knows DEF Present, OneWay, Live
<1>10. OneWay'
  BY <1>3, <1>8 DEF OneWay
<1>11. AwardHolds'
  BY <1>5 DEF AwardHolds, Settled
<1> QED
  BY <1>3, <1>7, <1>10, <1>11

LEMMA OrderCommitKeeps ==
    ASSUME IInv, NEW c \in Calls, OrderCommit(c)
    PROVE  IInv'
<1> USE DEF IInv, OrderCommit
<1>1. call[c] # Idle /\ call[c].q \in Quotes
  BY Knows, CallShapes DEF Idle
<1>2. Kept
  BY DEF Kept
<1>3. /\ call' \in [Calls -> Call] /\ ReadsPast' /\ ReadsPresent'
      /\ requests' \in Nat /\ overlapped' \in BOOLEAN /\ overlapped' = overlapped
  BY <1>1, <1>2, AnswerStep
<1>4. CASE UNCHANGED <<rfq, quote, orders>>
  BY <1>3, <1>4 DEF TypeOK, OnFile, OneWay, AwardHolds
<1>5. CASE orders[call[c].q].accepted # 1
  <2>1. rfq.reopened \in BOOLEAN /\ rfq.accepted \in SUBSET Quotes
    BY DEF TypeOK
  <2>2. rfq' \in [status: RfqStatuses, reopened: BOOLEAN, accepted: SUBSET Quotes]
          /\ rfq'.status = "CLOSED"
    BY <1>5, <2>1 DEF TypeOK, RfqStatuses
  <2>3. quote' \in [Quotes -> QuoteStatuses]
    BY <1>5 DEF TypeOK, QuoteStatuses
  <2>4. \A q \in Quotes : orders[q] \in [accepted: {0, 1}, fromPo: Nat]
    BY DEF TypeOK
  <2>5. orders' = [orders EXCEPT ![call[c].q].accepted = 1]
    BY <1>5
  <2>6. /\ orders' \in [Quotes -> [accepted: {0, 1}, fromPo: Nat]]
        /\ \A q \in Quotes : orders'[q].fromPo = orders[q].fromPo
        /\ \A q \in Quotes \ {call[c].q} : orders'[q].accepted = orders[q].accepted
    <3>1. orders' = [q \in Quotes |-> IF q = call[c].q
                                       THEN [orders[q] EXCEPT !.accepted = 1]
                                       ELSE orders[q]]
      BY <2>5 DEF TypeOK
    <3> HIDE DEF IInv, OrderCommit
    <3>2. \A q \in Quotes : /\ orders'[q] \in [accepted: {0, 1}, fromPo: Nat]
                            /\ orders'[q].fromPo = orders[q].fromPo
                            /\ q # call[c].q => orders'[q] = orders[q]
      BY <2>4, <3>1
    <3> QED
      BY <3>1, <3>2
  <2>7. TypeOK' /\ OnFile'
    BY <1>3, <2>2, <2>3, <2>6 DEF TypeOK, OnFile
  <2>8. quote'[call[c].q] \notin Live
          /\ \A q \in Quotes : quote'[q] = quote[q] \/ quote'[q] \notin Live
    BY <1>1, <1>5 DEF Live, Offered
  <2>9. ~overlapped => negotiation[call[c].q] = "ABSENT"
    BY <1>1, Knows DEF Present, OneWay, Live
  <2>10. OneWay'
    BY <1>3, <2>6, <2>8, <2>9 DEF OneWay
  <2>11. AwardHolds'
    BY <2>2 DEF AwardHolds
  <2> QED
    BY <1>3, <2>7, <2>10, <2>11
<1> QED
  BY <1>4, <1>5

LEMMA StartCommitKeeps ==
    ASSUME IInv, NEW c \in Calls, StartCommit(c)
    PROVE  IInv'
<1> USE DEF IInv, StartCommit
<1>1. call[c] # Idle /\ call[c].q \in Quotes
  BY Knows, CallShapes DEF Idle
<1>2. negotiation \in [Quotes -> NegotiationStatuses] /\ quote \in [Quotes -> QuoteStatuses]
  BY DEF TypeOK
<1>3. Kept
  BY <1>2 DEF Kept
<1>4. /\ call' \in [Calls -> Call] /\ ReadsPast' /\ ReadsPresent'
      /\ requests' \in Nat /\ overlapped' \in BOOLEAN /\ overlapped' = overlapped
  BY <1>1, <1>3, AnswerStep
<1>5. negotiation' \in [Quotes -> NegotiationStatuses] /\ quote' \in [Quotes -> QuoteStatuses]
  BY <1>2 DEF NegotiationStatuses, QuoteStatuses
<1>6. TypeOK' /\ OnFile'
  BY <1>3, <1>4, <1>5 DEF TypeOK, OnFile, Kept
<1>7. ~overlapped => quote[call[c].q] \in Offered /\ negotiation[call[c].q] = "ABSENT"
  BY Knows DEF Present
<1>8. \A q \in Quotes : \/ quote'[q] = quote[q] /\ negotiation'[q] = negotiation[q]
                        \/ q = call[c].q /\ quote'[q] = "NEGOTIATING"
  BY <1>2
<1>9. OneWay'
  BY <1>4, <1>7, <1>8 DEF OneWay, Live, Offered
<1>10. ~overlapped => rfq.status # "QUOTED"
  BY <1>1, <1>7 DEF AwardHolds, Offered, Settled
<1>11. AwardHolds'
  BY <1>4, <1>10 DEF AwardHolds
<1> QED
  BY <1>4, <1>6, <1>9, <1>11

LEMMA NegotiationCommitKeeps ==
    ASSUME IInv, NEW c \in Calls, NegotiationCommit(c)
    PROVE  IInv'
<1> USE DEF IInv, NegotiationCommit
<1>1. /\ call[c] # Idle /\ call[c].q \in Quotes
      /\ call[c].to \in NegotiationStatuses /\ call[c].to # "ABSENT"
  BY Knows, CallShapes DEF Idle, Past
<1>2. negotiation \in [Quotes -> NegotiationStatuses] /\ quote \in [Quotes -> QuoteStatuses]
  BY DEF TypeOK
<1>3. Kept
  BY <1>1, <1>2 DEF Kept
<1>4. /\ call' \in [Calls -> Call] /\ ReadsPast' /\ ReadsPresent'
      /\ requests' \in Nat /\ overlapped' \in BOOLEAN /\ overlapped' = overlapped
  BY <1>1, <1>3, AnswerStep
<1>5. negotiation' \in [Quotes -> NegotiationStatuses] /\ quote' \in [Quotes -> QuoteStatuses]
  BY <1>1, <1>2 DEF QuoteStatuses
<1>6. TypeOK' /\ OnFile'
  BY <1>3, <1>4, <1>5 DEF TypeOK, OnFile, Kept
<1>7. ~overlapped => negotiation[call[c].q] = "OPEN"
  BY Knows DEF Present
<1>8. /\ \A q \in Quotes \ {call[c].q} :
           quote'[q] = quote[q] /\ negotiation'[q] = negotiation[q]
      /\ negotiation'[call[c].q] = call[c].to
      /\ \/ quote'[call[c].q] = quote[call[c].q]
         \/ quote'[call[c].q] = "ACCEPTED" /\ call[c].to = "ACCEPTED"
  BY <1>1, <1>2
<1>9. OneWay'
  BY <1>1, <1>4, <1>7, <1>8 DEF OneWay, Live, Offered
<1>10. AwardHolds'
  <2> SUFFICES ASSUME ~overlapped, rfq.status = "QUOTED"
               PROVE  /\ \A q \in rfq.accepted : quote'[q] = "ACCEPTED"
                      /\ \A q \in Quotes \ rfq.accepted :
                           quote'[q] \in Settled \/ negotiation'[q] = "ACCEPTED"
    BY <1>4 DEF AwardHolds
  <2>1. rfq.accepted \subseteq Quotes
    BY DEF TypeOK
  <2> QED
    BY <1>7, <1>8, <2>1 DEF AwardHolds
<1> QED
  BY <1>4, <1>6, <1>9, <1>10

\* A step that only writes purchase orders and their versions.
LEMMA PoStep ==
    ASSUME IInv, NEW c \in Calls, call[c] # Idle, Answer(c), Kept,
           UNCHANGED <<rfq, quote, negotiation, orders>>,
           po' \in [Quotes -> PoStatuses], versions' \in [Quotes -> SUBSET PoStatuses],
           OnFile'
    PROVE  IInv'
<1> USE DEF IInv
<1>1. /\ call' \in [Calls -> Call] /\ ReadsPast' /\ ReadsPresent'
      /\ requests' \in Nat /\ overlapped' \in BOOLEAN /\ overlapped' = overlapped
  BY AnswerStep
<1>2. TypeOK'
  BY <1>1 DEF TypeOK
<1>3. OneWay' /\ AwardHolds'
  BY <1>1 DEF OneWay, AwardHolds
<1> QED
  BY <1>1, <1>2, <1>3

LEMMA GenerateCommitKeeps ==
    ASSUME IInv, NEW c \in Calls, GenerateCommit(c)
    PROVE  IInv'
<1> USE DEF IInv, GenerateCommit
<1>1. call[c] # Idle /\ call[c].q \in Quotes /\ negotiation[call[c].q] # "ABSENT"
  BY Knows, CallShapes DEF Idle, Past
<1>2. po \in [Quotes -> PoStatuses] /\ versions \in [Quotes -> SUBSET PoStatuses]
  BY DEF TypeOK
<1>3. po[call[c].q] = "ABSENT" => versions[call[c].q] = {}
  BY <1>1 DEF OnFile
<1>4. po' \in [Quotes -> PoStatuses] /\ versions' \in [Quotes -> SUBSET PoStatuses]
  BY <1>2 DEF PoStatuses
<1>5. Kept
  BY <1>2, <1>3 DEF Kept
<1>6. \A q \in Quotes : \/ po'[q] = po[q] /\ versions'[q] = versions[q]
                        \/ /\ q = call[c].q /\ versions[q] = {}
                           /\ po'[q] = "DRAFT" /\ versions'[q] = {"DRAFT"}
  BY <1>2, <1>3
<1>7. OnFile'
  BY <1>1, <1>6 DEF OnFile, Prior
<1> QED
  BY <1>1, <1>4, <1>5, <1>7, PoStep

LEMMA PoCommitKeeps ==
    ASSUME IInv, NEW c \in Calls, PoCommit(c)
    PROVE  IInv'
<1> USE DEF IInv, PoCommit
<1>1. /\ call[c] # Idle /\ call[c].q \in Quotes /\ call[c].to \in PoStatuses
      /\ call[c].to \notin {"ABSENT", "CONVERTED_TO_ORDER"}
      /\ call[c].to \in DOMAIN Prior => Prior[call[c].to] \in versions[call[c].q]
      /\ po[call[c].q] # "ABSENT"
  BY Knows, CallShapes DEF Idle, Past
<1>2. po \in [Quotes -> PoStatuses] /\ versions \in [Quotes -> SUBSET PoStatuses]
  BY DEF TypeOK
<1>3. po' \in [Quotes -> PoStatuses] /\ versions' \in [Quotes -> SUBSET PoStatuses]
  BY <1>1, <1>2
<1>4. Kept
  BY <1>1, <1>2 DEF Kept
<1>5. \A q \in Quotes : \/ po'[q] = po[q] /\ versions'[q] = versions[q]
                        \/ /\ q = call[c].q /\ po'[q] = call[c].to
                           /\ versions'[q] = versions[q] \cup {call[c].to}
  BY <1>2
<1>6. OnFile'
  BY <1>1, <1>5 DEF OnFile
<1> QED
  BY <1>1, <1>3, <1>4, <1>6, PoStep

LEMMA ReviseCommitKeeps ==
    ASSUME IInv, NEW c \in Calls, ReviseCommit(c)
    PROVE  IInv'
<1> USE DEF IInv, ReviseCommit
<1>1. /\ call[c] # Idle /\ call[c].q \in Quotes /\ call[c].saw \in PoStatuses
      /\ call[c].saw = "CONVERTED_TO_ORDER" \/ call[c].saw \in versions[call[c].q]
      /\ po[call[c].q] # "ABSENT"
  BY Knows, CallShapes DEF Idle, Past
<1>2. versions \in [Quotes -> SUBSET PoStatuses]
  BY DEF TypeOK
<1>3. po' \in [Quotes -> PoStatuses] /\ versions' \in [Quotes -> SUBSET PoStatuses]
  BY <1>1, <1>2 DEF TypeOK
<1>4. Kept
  BY <1>1, <1>2 DEF Kept
<1>5. \A q \in Quotes : \/ versions'[q] = versions[q]
                        \/ /\ q = call[c].q
                           /\ versions'[q] = versions[q] \cup {"CONVERTED_TO_ORDER"}
  BY <1>1, <1>2
<1>6. OnFile'
  BY <1>1, <1>5 DEF OnFile, Prior
<1> QED
  BY <1>1, <1>3, <1>4, <1>6, PoStep

LEMMA ConvertCommitKeeps ==
    ASSUME IInv, NEW c \in Calls, ConvertCommit(c)
    PROVE  IInv'
<1> USE DEF IInv, ConvertCommit
<1>1. /\ call[c] # Idle /\ call[c].q \in Quotes /\ po[call[c].q] # "ABSENT"
      /\ "LOCKED" \in versions[call[c].q]
      /\ ~overlapped => orders[call[c].q].fromPo = 0
  BY Knows, CallShapes DEF Idle, Past, Present
<1>2. po \in [Quotes -> PoStatuses]
        /\ \A q \in Quotes : orders[q] \in [accepted: {0, 1}, fromPo: Nat]
        /\ orders \in [Quotes -> [accepted: {0, 1}, fromPo: Nat]]
  BY DEF TypeOK
<1>3. Kept
  BY <1>1, <1>2 DEF Kept
<1>4. /\ call' \in [Calls -> Call] /\ ReadsPast' /\ ReadsPresent'
      /\ requests' \in Nat /\ overlapped' \in BOOLEAN /\ overlapped' = overlapped
  BY <1>1, <1>3, AnswerStep
<1>5. /\ orders' \in [Quotes -> [accepted: {0, 1}, fromPo: Nat]]
      /\ \A q \in Quotes : orders'[q].accepted = orders[q].accepted
      /\ \A q \in Quotes \ {call[c].q} : orders'[q].fromPo = orders[q].fromPo
      /\ orders'[call[c].q].fromPo = orders[call[c].q].fromPo + 1
  BY <1>1, <1>2
<1>6. po' \in [Quotes -> PoStatuses]
  BY <1>2 DEF PoStatuses
<1>7. TypeOK'
  BY <1>4, <1>5, <1>6 DEF TypeOK
<1>8. \A q \in Quotes : po'[q] = po[q] \/ (q = call[c].q /\ po'[q] = "CONVERTED_TO_ORDER")
  BY <1>2
<1>9. OnFile'
  BY <1>1, <1>5, <1>8 DEF OnFile
<1>10. OneWay'
  BY <1>1, <1>4, <1>5 DEF OneWay
<1>11. AwardHolds'
  BY <1>4 DEF AwardHolds
<1> QED
  BY <1>4, <1>7, <1>9, <1>10, <1>11

LEMMA FailKeeps ==
    ASSUME IInv, NEW c \in Calls, Fail(c)
    PROVE  IInv'
<1> USE DEF IInv, Fail, rows
<1>1. Kept
  BY DEF Kept
<1>2. /\ call' \in [Calls -> Call] /\ ReadsPast' /\ ReadsPresent'
      /\ requests' \in Nat /\ overlapped' \in BOOLEAN /\ overlapped' = overlapped
  BY <1>1, AnswerStep
<1>3. TypeOK' /\ OnFile'
  BY <1>2 DEF TypeOK, OnFile
<1>4. OneWay' /\ AwardHolds'
  BY <1>2 DEF OneWay, AwardHolds
<1> QED
  BY <1>2, <1>3, <1>4

(* The jobs: with a request in flight they overlap it.                       *)
LEMMA JobReads ==
    ASSUME IInv, NoteOverlap, UNCHANGED <<call, negotiation, po, versions>>
    PROVE  /\ ReadsPast' /\ ReadsPresent' /\ overlapped' \in BOOLEAN
           /\ ~overlapped' => ~overlapped
<1> USE DEF IInv, NoteOverlap
<1>1. ~overlapped' => ~overlapped /\ \A c \in Calls : call'[c] = Idle
  OBVIOUS
<1>2. overlapped' \in BOOLEAN
  BY DEF TypeOK
<1>3. ReadsPast'
  BY DEF ReadsPast
<1>4. ReadsPresent'
  BY <1>1, IdleKnowsNothing DEF ReadsPresent
<1> QED
  BY <1>1, <1>2, <1>3, <1>4

LEMMA RfqExpiresKeeps ==
    ASSUME IInv, RfqExpires
    PROVE  IInv'
<1> USE DEF IInv, RfqExpires
<1>1. /\ ReadsPast' /\ ReadsPresent' /\ overlapped' \in BOOLEAN
      /\ ~overlapped' => ~overlapped
  BY JobReads
<1>2. rfq' \in [status: RfqStatuses, reopened: BOOLEAN, accepted: SUBSET Quotes]
        /\ rfq'.status = "EXPIRED"
  BY DEF TypeOK, RfqStatuses
<1>3. TypeOK' /\ OnFile'
  BY <1>1, <1>2 DEF TypeOK, OnFile
<1>4. OneWay'
  BY <1>1 DEF OneWay
<1>5. AwardHolds'
  BY <1>2 DEF AwardHolds
<1> QED
  BY <1>1, <1>3, <1>4, <1>5

LEMMA QuoteExpiresKeeps ==
    ASSUME IInv, NEW q \in Quotes, QuoteExpires(q)
    PROVE  IInv'
<1> USE DEF IInv, QuoteExpires
<1>1. /\ ReadsPast' /\ ReadsPresent' /\ overlapped' \in BOOLEAN
      /\ ~overlapped' => ~overlapped
  BY JobReads
<1>2. quote' \in [Quotes -> QuoteStatuses]
  BY DEF TypeOK, QuoteStatuses
<1>3. TypeOK' /\ OnFile'
  BY <1>1, <1>2 DEF TypeOK, OnFile
<1>4. \A r \in Quotes : \/ quote'[r] = quote[r]
                        \/ r = q /\ quote'[r] = "EXPIRED" /\ quote[r] \in Offered
  BY DEF TypeOK
<1>5. OneWay'
  BY <1>1, <1>4 DEF OneWay, Live, Offered
<1>6. AwardHolds'
  <2>1. rfq.accepted \subseteq Quotes
    BY DEF TypeOK
  <2> QED
    BY <1>1, <1>4, <2>1 DEF AwardHolds, Offered, Settled
<1> QED
  BY <1>1, <1>3, <1>5, <1>6

LEMMA NextKeeps == IInv /\ [Next]_vars => IInv'
<1> SUFFICES ASSUME IInv, [Next]_vars PROVE IInv'
  OBVIOUS
<1>1. ASSUME NEW c \in Calls, BeginCall(c) PROVE IInv'
  BY <1>1, BeginCallKeeps
<1>2. ASSUME NEW c \in Calls, Commit(c) PROVE IInv'
  BY <1>2, RfqCommitKeeps, CreateCommitKeeps, QuoteCommitKeeps, AwardCommitKeeps,
     OrderCommitKeeps, StartCommitKeeps, NegotiationCommitKeeps, GenerateCommitKeeps,
     PoCommitKeeps, ReviseCommitKeeps, ConvertCommitKeeps DEF Commit
<1>3. ASSUME NEW c \in Calls, Fail(c) PROVE IInv'
  BY <1>3, FailKeeps
<1>4. CASE RfqExpires
  BY <1>4, RfqExpiresKeeps
<1>5. ASSUME NEW q \in Quotes, QuoteExpires(q) PROVE IInv'
  BY <1>5, QuoteExpiresKeeps
<1>6. CASE UNCHANGED vars
  BY <1>6 DEF vars, rows, history, IInv, TypeOK, ReadsPast, ReadsPresent, OnFile,
              OneWay, AwardHolds
<1> QED
  BY <1>1, <1>2, <1>3, <1>4, <1>5, <1>6 DEF Next

-----------------------------------------------------------------------------
(* The invariant that carries all the others: what requests have read stays  *)
(* on file, and is still so as long as nothing overlapped.                   *)
THEOREM Invariant == Spec => []IInv
  BY InitHolds, NextKeeps, PTL DEF Spec

(* The rows keep to the statuses of the schema, for any number of quotes.    *)
THEOREM TypeCorrect == Spec => []TypeOK
<1>1. IInv => TypeOK
  BY DEF IInv
<1> QED
  BY <1>1, Invariant, PTL

(* For any number of requests racing in any way, an order made from a        *)
(* purchase order has every version of its agreement on file.                *)
THEOREM AgreementFirst == Spec => []OrdersComeFromAgreement
<1>1. IInv => OrdersComeFromAgreement
  BY DEF IInv, OnFile, OrdersComeFromAgreement, Prior
<1> QED
  BY <1>1, Invariant, PTL

(* Served one after the other, the two ways to an order exclude each other:  *)
(* acceptance needs a quote that is offered, and a purchase order one that   *)
(* was negotiated.                                                           *)
THEOREM SingleOrder == Spec => []OneOrderPerQuote
<1>1. IInv => OneOrderPerQuote
  <2> SUFFICES ASSUME IInv, ~overlapped, NEW q \in Quotes
               PROVE  orders[q].accepted + orders[q].fromPo =< 1
    BY DEF OneOrderPerQuote
  <2>1. orders[q] \in [accepted: {0, 1}, fromPo: Nat] /\ orders[q].fromPo =< 1
    BY DEF IInv, TypeOK, OneWay
  <2>2. orders[q].accepted = 1 => negotiation[q] = "ABSENT"
    BY DEF IInv, OneWay
  <2>3. negotiation[q] = "ABSENT" => orders[q].fromPo = 0
    BY <2>1 DEF IInv, OnFile
  <2> QED
    BY <2>1, <2>2, <2>3
<1> QED
  BY <1>1, Invariant, PTL

(* Served one after the other, an award is final while the RFQ is QUOTED.    *)
THEOREM AwardStays == Spec => []AwardHolds
<1>1. IInv => AwardHolds
  BY DEF IInv
<1> QED
  BY <1>1, Invariant, PTL

(* Served one after the other, a closed purchase order stays closed: what a  *)
(* request in flight read of it is still so when it writes.                  *)
THEOREM ClosedPosStay == Spec => ClosedPoStays
<1> DEFINE Stays ==
       ~overlapped =>
         \A q \in Quotes :
           po[q] \in PoClosed \ {"ABSENT"} /\ po'[q] # po[q]
             => /\ po[q] = "LOCKED" /\ po'[q] = "CONVERTED_TO_ORDER"
                /\ orders'[q].fromPo = orders[q].fromPo + 1
<1>1. ASSUME IInv, [Next]_vars PROVE [Stays]_vars
  <2>1. CASE UNCHANGED po
    BY <2>1
  <2>2. ASSUME NEW c \in Calls, GenerateCommit(c) PROVE Stays
    <3>1. ~overlapped => po[call[c].q] = "ABSENT"
      BY <1>1, <2>2, Knows DEF Present, GenerateCommit
    <3> QED
      BY <1>1, <2>2, <3>1 DEF GenerateCommit, IInv, TypeOK
  <2>3. ASSUME NEW c \in Calls, PoCommit(c) PROVE Stays
    <3>1. ~overlapped => po[call[c].q] \notin PoClosed
      BY <1>1, <2>3, Knows DEF Present, PoCommit
    <3> QED
      BY <1>1, <2>3, <3>1 DEF PoCommit, IInv, TypeOK
  <2>4. ASSUME NEW c \in Calls, ConvertCommit(c) PROVE Stays
    <3>1. call[c].q \in Quotes /\ (~overlapped => po[call[c].q] = "LOCKED")
      BY <1>1, <2>4, Knows, CallShapes DEF Present, ConvertCommit
    <3>2. orders[call[c].q] \in [accepted: {0, 1}, fromPo: Nat]
            /\ po \in [Quotes -> PoStatuses]
            /\ orders \in [Quotes -> [accepted: {0, 1}, fromPo: Nat]]
      BY <1>1, <3>1 DEF IInv, TypeOK
    <3>3. orders'[call[c].q].fromPo = orders[call[c].q].fromPo + 1
            /\ po'[call[c].q] = "CONVERTED_TO_ORDER"
            /\ \A q \in Quotes \ {call[c].q} : po'[q] = po[q]
      BY <2>4, <3>1, <3>2 DEF ConvertCommit
    <3> QED
      BY <3>1, <3>3
  <2>5. ASSUME NEW c \in Calls, Commit(c), ~GenerateCommit(c), ~PoCommit(c),
               ~ConvertCommit(c)
        PROVE UNCHANGED po
    BY <2>5 DEF Commit, RfqCommit, CreateCommit, QuoteCommit, AwardCommit, OrderCommit,
                StartCommit, NegotiationCommit, ReviseCommit
  <2>6. ASSUME NEW c \in Calls, BeginCall(c) PROVE UNCHANGED po
    BY <2>6 DEF BeginCall, RfqBegin, CreateBegin, AwardBegin, OrderBegin, StartBegin,
                GenerateBegin, ReviseBegin, ConvertBegin, QuoteBegin, NegotiationBegin,
                PoBegin, Begin, rows
  <2>7. RfqExpires \/ (\E c \in Calls : Fail(c)) \/ (\E q \in Quotes : QuoteExpires(q))
          => UNCHANGED po
    BY DEF RfqExpires, Fail, QuoteExpires, rows
  <2> QED
    BY <1>1, <2>1, <2>2, <2>3, <2>4, <2>5, <2>6, <2>7 DEF Next, vars, rows
<1>2. ClosedPoStays <=> [][Stays]_vars
  BY DEF ClosedPoStays
<1> QED
  BY <1>1, <1>2, Invariant, PTL DEF Spec
=============================================================================
