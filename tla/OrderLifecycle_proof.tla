------------------------ MODULE OrderLifecycle_proof ------------------------
(***************************************************************************)
(* Theorems about OrderLifecycle, for any number of locations, returns and *)
(* requests at the same time.  The argument: what a request has read stays *)
(* true of the order's past, whatever races it, which is all that          *)
(* NoStageSkipped needs; and as long as nothing overlapped it is true of   *)
(* the order as it is, which the other properties need.                    *)
(***************************************************************************)
EXTENDS OrderLifecycle, TLAPS

\* What a request read was so at some time: "seen" holds the statuses so far.
Past(x, seen) ==
    /\ x.op = "status" =>
         /\ x.to \in DOMAIN Before => Before[x.to] \in seen
         /\ x.to = "RETURNED" => "DELIVERED" \in seen
    /\ x.op = "dispatch" => "PROCESSING" \in seen
    /\ x.op = "deliver" => "DISPATCHED" \in seen
    /\ x.op \in {"return", "review"} => "DELIVERED" \in seen

\* What a request read is so now, of the order's status and its returns.
Present(x, now, ret) ==
    /\ x.op = "status" => x.to \in STATUS_FLOW[now]
    /\ x.op = "cancel" => now \notin Closed
    /\ x.op \in {"deliver", "count", "finish"} => now = "DISPATCHED"
    /\ x.op = "review" => ret[x.r] = "PENDING"

ReadsPast == \A c \in Calls : Past(call[c], visited)

ReadsPresent ==
    ~overlapped =>
        /\ \A c, d \in Calls : call[c] # Idle /\ call[d] # Idle => c = d
        /\ \A c \in Calls : Present(call[c], status, return)

IInv ==
    /\ TypeOK
    /\ {"PENDING", status} \subseteq visited
    /\ NoStageSkipped
    /\ ReadsPast
    /\ ReadsPresent
    /\ CancelledOnce

-----------------------------------------------------------------------------
(* What STATUS_FLOW says of a transition it allows.                          *)
LEMMA FlowStep ==
    ASSUME NEW s \in Statuses, NEW t \in STATUS_FLOW[s]
    PROVE  /\ t \in Statuses
           /\ s \notin Closed
           /\ t \in DOMAIN Before => Before[t] = s
           /\ t = "RETURNED" => s = "DELIVERED"
           /\ t = "DELIVERED" => s # "DISPATCHED"
<1>1. CASE s \in {"PENDING", "CONFIRMED", "PROCESSING", "PACKED"}
  BY <1>1 DEF STATUS_FLOW, Statuses, Closed, Before
<1>2. CASE s \in {"READY_FOR_DISPATCH", "DISPATCHED", "IN_TRANSIT", "DELIVERED"}
  BY <1>2 DEF STATUS_FLOW, Statuses, Closed, Before
<1>3. CASE s \in Closed
  BY <1>3 DEF STATUS_FLOW, Closed
<1> QED
  BY <1>1, <1>2, <1>3 DEF Statuses, Closed

(* The kinds of request tell themselves apart.                               *)
LEMMA CallShapes ==
    ASSUME NEW x \in Call
    PROVE  /\ x.op = "status" => x = [op |-> "status", to |-> x.to] /\ x.to \in Statuses
           /\ x.op \in {"dispatch", "deliver"} => x.l \in Locations /\ x.read \in BOOLEAN
           /\ x.op = "review" => x.r \in Returns /\ x.verdict \in {"APPROVED", "REJECTED"}
           /\ x.op = "idle" => x = Idle
           /\ x.op \in {"idle", "status", "cancel", "return", "count", "finish",
                        "dispatch", "deliver", "review"}
  BY DEF Call, Idle

-----------------------------------------------------------------------------
LEMMA IdleKnowsNothing ==
    ASSUME NEW seen, NEW now, NEW ret
    PROVE  Idle \in Call /\ Past(Idle, seen) /\ Present(Idle, now, ret)
  BY DEF Call, Idle, Past, Present

-----------------------------------------------------------------------------
LEMMA InitHolds == Init => IInv
<1> SUFFICES ASSUME Init PROVE IInv
  OBVIOUS
<1>1. TypeOK
  BY IdleKnowsNothing DEF TypeOK, Init, Statuses
<1>2. NoStageSkipped /\ {"PENDING", status} \subseteq visited
  BY DEF NoStageSkipped, Before, Init
<1>3. ReadsPast /\ ReadsPresent
  BY IdleKnowsNothing DEF ReadsPast, ReadsPresent, Init
<1>4. CancelledOnce
  BY DEF CancelledOnce, Init
<1> QED
  BY <1>1, <1>2, <1>3, <1>4 DEF IInv

(* A request that goes on to x, in a step that forgets no status.            *)
LEMMA CallStep ==
    ASSUME IInv, NEW c \in Calls, NEW x \in Call,
           call' = [call EXCEPT ![c] = x],
           visited \subseteq visited', Past(x, visited')
    PROVE  call' \in [Calls -> Call] /\ ReadsPast'
<1>1. call \in [Calls -> Call]
  BY DEF IInv, TypeOK
<1>2. ASSUME NEW d \in Calls PROVE Past(call'[d], visited')
  <2>1. CASE d = c
    BY <1>1, <2>1
  <2>2. CASE d # c
    <3>1. call'[d] = call[d] /\ Past(call[d], visited)
      BY <1>1, <2>2 DEF IInv, ReadsPast
    <3> QED
      BY <3>1 DEF Past
  <2> QED
    BY <2>1, <2>2
<1> QED
  BY <1>1, <1>2 DEF ReadsPast

(* While nothing has overlapped, the one request in flight goes on to x.     *)
LEMMA AloneStep ==
    ASSUME IInv, NEW c \in Calls, NEW x \in Call, call[c] # Idle,
           call' = [call EXCEPT ![c] = x], overlapped' = overlapped,
           ~overlapped => Present(x, status', return')
    PROVE  ReadsPresent'
<1> SUFFICES ASSUME ~overlapped'
             PROVE  /\ \A d, e \in Calls : call'[d] # Idle /\ call'[e] # Idle => d = e
                    /\ \A d \in Calls : Present(call'[d], status', return')
  BY DEF ReadsPresent
<1>1. call \in [Calls -> Call]
  BY DEF IInv, TypeOK
<1>2. \A d \in Calls \ {c} : call'[d] = Idle
  BY <1>1 DEF IInv, ReadsPresent
<1>3. \A d \in Calls : Present(call'[d], status', return')
  BY <1>1, <1>2, IdleKnowsNothing
<1> QED
  BY <1>2, <1>3

(* A request begins, having read what Past and Present say of it.            *)
LEMMA BeginStep ==
    ASSUME IInv, NEW c \in Calls, NEW x \in Call, Begin(c, x),
           Past(x, visited), Present(x, status, return)
    PROVE  IInv'
<1> USE DEF Begin, NoteOverlap, rows
<1>1. call' \in [Calls -> Call] /\ ReadsPast'
  BY CallStep
<1>2. TypeOK'
  BY <1>1 DEF IInv, TypeOK
<1>3. NoStageSkipped' /\ ({"PENDING", status} \subseteq visited)'
  BY DEF IInv, NoStageSkipped
<1>4. ReadsPresent'
  <2> SUFFICES ASSUME ~overlapped'
               PROVE  /\ \A d, e \in Calls :
                           call'[d] # Idle /\ call'[e] # Idle => d = e
                      /\ \A d \in Calls : Present(call'[d], status', return')
    BY DEF ReadsPresent
  <2>1. call \in [Calls -> Call] /\ \A d \in Calls : call[d] = Idle
    BY DEF IInv, TypeOK
  <2>2. \A d \in Calls \ {c} : call'[d] = Idle
    BY <2>1
  <2>3. \A d \in Calls : Present(call'[d], status', return')
    BY <2>1, <2>2, IdleKnowsNothing
  <2> QED
    BY <2>2, <2>3
<1>5. CancelledOnce'
  <2> SUFFICES ASSUME ~overlapped' PROVE CancelledOnce'
    BY DEF CancelledOnce
  <2> QED
    BY DEF IInv, TypeOK, CancelledOnce
<1> QED
  BY <1>1, <1>2, <1>3, <1>4, <1>5 DEF IInv

LEMMA BeginCallKeeps ==
    ASSUME IInv, NEW c \in Calls, BeginCall(c)
    PROVE  IInv'
<1> USE DEF IInv
<1>1. ASSUME NEW to \in Statuses, UpdateBegin(c, to) PROVE IInv'
  <2> DEFINE x == [op |-> "status", to |-> to]
  <2>1. status \in Statuses /\ to \in STATUS_FLOW[status] /\ Begin(c, x)
    BY <1>1 DEF UpdateBegin, TypeOK
  <2>2. x \in Call /\ Past(x, visited) /\ Present(x, status, return)
    BY <2>1, FlowStep DEF Call, Past, Present
  <2> QED
    BY <2>1, <2>2, BeginStep
<1>2. ASSUME NEW l \in Locations, NEW op \in {"dispatch", "deliver"},
             LocationBegin(c, op, l)
      PROVE  IInv'
  <2> DEFINE x == [op |-> op, l |-> l, read |-> FALSE]
  <2>1. x \in Call /\ Past(x, visited) /\ Present(x, status, return)
    BY <1>2 DEF LocationBegin, Call, Past, Present
  <2> QED
    BY <1>2, <2>1, BeginStep DEF LocationBegin
<1>3. ASSUME CancelBegin(c) PROVE IInv'
  <2> DEFINE x == [op |-> "cancel"]
  <2>1. x \in Call /\ Past(x, visited) /\ Present(x, status, return)
    BY <1>3 DEF CancelBegin, Call, Past, Present
  <2> QED
    BY <1>3, <2>1, BeginStep DEF CancelBegin
<1>4. ASSUME ReturnBegin(c) PROVE IInv'
  <2> DEFINE x == [op |-> "return"]
  <2>1. x \in Call /\ Past(x, visited) /\ Present(x, status, return)
    BY <1>4 DEF ReturnBegin, Call, Past, Present
  <2> QED
    BY <1>4, <2>1, BeginStep DEF ReturnBegin
<1>5. ASSUME NEW r \in Returns, NEW v \in {"APPROVED", "REJECTED"},
             ReviewBegin(c, r, v)
      PROVE  IInv'
  <2> DEFINE x == [op |-> "review", r |-> r, verdict |-> v]
  <2>1. x \in Call /\ Past(x, visited) /\ Present(x, status, return)
    BY <1>5 DEF ReviewBegin, Call, Past, Present, NoStageSkipped
  <2> QED
    BY <1>5, <2>1, BeginStep DEF ReviewBegin
<1> QED
  BY <1>1, <1>2, <1>3, <1>4, <1>5 DEF BeginCall

-----------------------------------------------------------------------------
(* A step of a request in flight that leaves the rows alone.                 *)
LEMMA StepAside ==
    ASSUME IInv, NEW c \in Calls, NEW x \in Call, call[c] # Idle, Then(c, x),
           Past(x, visited), ~overlapped => Present(x, status, return),
           UNCHANGED rows
    PROVE  IInv'
<1> USE DEF Then, rows, history
<1>1. call' \in [Calls -> Call] /\ ReadsPast'
  BY CallStep
<1>2. ReadsPresent'
  BY AloneStep
<1>3. TypeOK' /\ NoStageSkipped' /\ ({"PENDING", status} \subseteq visited)' /\ CancelledOnce'
  BY <1>1 DEF IInv, TypeOK, NoStageSkipped, CancelledOnce
<1> QED
  BY <1>1, <1>2, <1>3 DEF IInv

(* A step that ends a request, whatever it writes.                           *)
LEMMA AnswerStep ==
    ASSUME IInv, NEW c \in Calls, call[c] # Idle, Answer(c),
           visited \subseteq visited'
    PROVE  call' \in [Calls -> Call] /\ ReadsPast' /\ ReadsPresent'
  BY CallStep, AloneStep, IdleKnowsNothing DEF Answer, Then, history

LEMMA UpdateCommitKeeps ==
    ASSUME IInv, NEW c \in Calls, UpdateCommit(c)
    PROVE  IInv'
<1> USE DEF IInv, UpdateCommit
<1> DEFINE to == call[c].to
<1>1. call[c] \in Call /\ call[c] # Idle /\ to \in Statuses
  BY CallShapes DEF TypeOK, Idle
<1>2. status' = to /\ visited' = visited \cup {to}
  BY DEF SetStatus
<1>3. call' \in [Calls -> Call] /\ ReadsPast' /\ ReadsPresent'
  BY <1>1, <1>2, AnswerStep
<1>4. TypeOK'
  BY <1>1, <1>2, <1>3 DEF TypeOK, Answer, Then, history
<1>5. Past(call[c], visited)
  BY DEF ReadsPast
<1>6. NoStageSkipped'
  BY <1>2, <1>5 DEF NoStageSkipped, Past
<1>7. CancelledOnce'
  <2> SUFFICES ASSUME ~overlapped, payments.captured = 0, cancellations > 0
               PROVE  FALSE
    BY DEF CancelledOnce, Answer, Then, history
  <2>1. to \in STATUS_FLOW[status] /\ status \in Closed /\ status \in Statuses
    BY <1>1 DEF ReadsPresent, Present, CancelledOnce, Closed, TypeOK
  <2> QED
    BY <2>1, FlowStep
<1> QED
  BY <1>2, <1>3, <1>4, <1>6, <1>7

LEMMA LocationKeeps ==
    ASSUME IInv, NEW c \in Calls,
           LocationRead(c) \/ DispatchCommit(c) \/ DeliverCommit(c)
    PROVE  IInv'
<1> USE DEF IInv
<1>1. call[c] \in Call /\ Past(call[c], visited)
         /\ (~overlapped => Present(call[c], status, return))
  BY DEF TypeOK, ReadsPast, ReadsPresent
<1>2. CASE LocationRead(c)
  <2>1. call[c] # Idle
    BY <1>2 DEF LocationRead, Idle
  <2>2. CASE Answer(c)
    BY <1>2, <2>1, <2>2, StepAside, IdleKnowsNothing DEF LocationRead, Answer
  <2> DEFINE x == [op |-> call[c].op, l |-> call[c].l, read |-> TRUE]
  <2>3. CASE Then(c, x)
    <3>1. call[c].l \in Locations /\ call[c].op \in {"dispatch", "deliver"}
      BY <1>1, <1>2, CallShapes DEF LocationRead
    <3>2. x \in Call
      BY <3>1 DEF Call
    <3>3. Past(x, visited) /\ (~overlapped => Present(x, status, return))
      BY <1>1, <3>1 DEF Past, Present
    <3> QED
      BY <1>2, <2>1, <2>3, <3>2, <3>3, StepAside DEF LocationRead
  <2> QED
    BY <1>2, <2>2, <2>3 DEF LocationRead
<1>3. CASE DispatchCommit(c)
  <2>1. call[c] # Idle /\ call[c].l \in Locations /\ "PROCESSING" \in visited
    BY <1>1, <1>3, CallShapes DEF DispatchCommit, Idle, Past
  <2>2. call' \in [Calls -> Call] /\ ReadsPast' /\ ReadsPresent'
    BY <1>3, <2>1, AnswerStep DEF DispatchCommit
  <2>3. TypeOK' /\ ({"PENDING", status} \subseteq visited)' /\ CancelledOnce'
    BY <1>3, <2>1, <2>2
    DEF DispatchCommit, TypeOK, CancelledOnce, Answer, Then, history
  <2>4. NoStageSkipped'
    BY <1>3, <2>1 DEF DispatchCommit, NoStageSkipped, TypeOK
  <2> QED
    BY <2>2, <2>3, <2>4
<1>4. CASE DeliverCommit(c)
  <2> DEFINE x == [op |-> "count"]
  <2>1. call[c] # Idle /\ call[c].l \in Locations /\ "DISPATCHED" \in visited
    BY <1>1, <1>4, CallShapes DEF DeliverCommit, Idle, Past
  <2>2. x \in Call /\ Past(x, visited') /\ (~overlapped => Present(x, status', return'))
    BY <1>1, <1>4 DEF DeliverCommit, Call, Past, Present
  <2>3. call' \in [Calls -> Call] /\ ReadsPast' /\ ReadsPresent'
    BY <1>4, <2>1, <2>2, CallStep, AloneStep DEF DeliverCommit, Then, history
  <2>4. TypeOK' /\ ({"PENDING", status} \subseteq visited)' /\ CancelledOnce'
    BY <1>4, <2>1, <2>3
    DEF DeliverCommit, TypeOK, CancelledOnce, Then, history
  <2>5. "PROCESSING" \in visited
    BY <2>1 DEF NoStageSkipped, Before
  <2>6. NoStageSkipped'
    BY <1>4, <2>1, <2>5 DEF DeliverCommit, NoStageSkipped, TypeOK
  <2> QED
    BY <2>3, <2>4, <2>6
<1> QED
  BY <1>2, <1>3, <1>4

LEMMA DeliverKeeps ==
    ASSUME IInv, NEW c \in Calls, DeliverCount(c) \/ DeliverFinish(c)
    PROVE  IInv'
<1>1. call[c] # Idle /\ (~overlapped => Present(call[c], status, return))
  BY DEF DeliverCount, DeliverFinish, Idle, IInv, ReadsPresent
<1>2. CASE Answer(c) /\ UNCHANGED rows
  BY <1>1, <1>2, StepAside, IdleKnowsNothing DEF Answer
<1>3. CASE DeliverCount(c) /\ Then(c, [op |-> "finish"]) /\ UNCHANGED rows
  <2> DEFINE x == [op |-> "finish"]
  <2>1. x \in Call /\ Past(x, visited) /\ (~overlapped => Present(x, status, return))
    BY <1>1, <1>3 DEF DeliverCount, Call, Past, Present
  <2> QED
    BY <1>1, <1>3, <2>1, StepAside
<1>4. CASE /\ "DELIVERED" \in STATUS_FLOW[status] /\ UNCHANGED rows
           /\ Then(c, [op |-> "status", to |-> "DELIVERED"])
  <2> DEFINE x == [op |-> "status", to |-> "DELIVERED"]
  <2>1. status \in Statuses /\ status \in visited
    BY DEF IInv, TypeOK
  <2>2. x \in Call /\ Past(x, visited) /\ Present(x, status, return)
    BY <1>4, <2>1, FlowStep DEF Call, Past, Present, Statuses
  <2> QED
    BY <1>1, <1>4, <2>2, StepAside
<1> QED
  BY <1>2, <1>3, <1>4 DEF DeliverCount, DeliverFinish

LEMMA CancelCommitKeeps ==
    ASSUME IInv, NEW c \in Calls, CancelCommit(c)
    PROVE  IInv'
<1> USE DEF CancelCommit, SetStatus
<1>1. call[c] # Idle /\ (~overlapped => Present(call[c], status, return))
  BY DEF Idle, IInv, ReadsPresent
<1>2. call' \in [Calls -> Call] /\ ReadsPast' /\ ReadsPresent'
  BY <1>1, AnswerStep
<1>3. TypeOK'
  <2>1. status' \in Statuses /\ visited' \subseteq Statuses /\ cancellations' \in Nat
    BY DEF IInv, TypeOK, Statuses
  <2>2. reserved' \in BOOLEAN
    OBVIOUS
  <2> QED
    BY <1>2, <2>1, <2>2 DEF IInv, TypeOK, Answer, Then, history
<1>4. NoStageSkipped' /\ ({"PENDING", status} \subseteq visited)'
  BY DEF IInv, NoStageSkipped, Before
<1>5. CancelledOnce'
  <2> SUFFICES ASSUME ~overlapped, payments.captured = 0 PROVE cancellations = 0
    BY DEF CancelledOnce, Answer, Then, history
  <2>1. status \notin Closed
    BY <1>1 DEF Present
  <2> QED
    BY <2>1 DEF IInv, TypeOK, CancelledOnce, Closed
<1> QED
  BY <1>2, <1>3, <1>4, <1>5 DEF IInv

LEMMA ReturnKeeps ==
    ASSUME IInv, NEW c \in Calls, ReturnCommit(c) \/ ReviewCommit(c)
    PROVE  IInv'
<1>1. /\ call[c] \in Call /\ call[c] # Idle /\ Past(call[c], visited)
      /\ ~overlapped => Present(call[c], status, return)
  BY DEF ReturnCommit, ReviewCommit, Idle, IInv, TypeOK, ReadsPast, ReadsPresent
<1>2. Answer(c) /\ visited \subseteq visited' /\ "DELIVERED" \in visited
  BY <1>1 DEF ReturnCommit, ReviewCommit, SetStatus, Past
<1>3. call' \in [Calls -> Call] /\ ReadsPast' /\ ReadsPresent'
  BY <1>1, <1>2, AnswerStep
<1>4. ({"PENDING", status} \subseteq visited)'
  BY DEF ReturnCommit, ReviewCommit, SetStatus, IInv
<1>5. CASE ReturnCommit(c)
  <2>1. TypeOK' /\ CancelledOnce'
    BY <1>2, <1>3, <1>5
    DEF ReturnCommit, IInv, TypeOK, CancelledOnce, Answer, Then, history
  <2>2. NoStageSkipped'
    BY <1>2, <1>5 DEF ReturnCommit, IInv, NoStageSkipped
  <2> QED
    BY <1>3, <1>4, <2>1, <2>2 DEF IInv
<1>6. CASE ReviewCommit(c)
  <2>1. call[c].r \in Returns /\ call[c].verdict \in {"APPROVED", "REJECTED"}
    BY <1>1, <1>6, CallShapes DEF ReviewCommit
  <2>2. TypeOK'
    BY <1>2, <1>3, <1>6, <2>1
    DEF ReviewCommit, SetStatus, IInv, TypeOK, Answer, Then, history, Statuses
  <2>3. CancelledOnce'
    BY <1>2, <1>6
    DEF ReviewCommit, SetStatus, IInv, CancelledOnce, Answer, Then, history
  <2>4. NoStageSkipped'
    BY <1>2, <1>6 DEF ReviewCommit, SetStatus, IInv, NoStageSkipped, Before
  <2> QED
    BY <1>3, <1>4, <2>2, <2>3, <2>4 DEF IInv
<1> QED
  BY <1>5, <1>6

LEMMA FailKeeps ==
    ASSUME IInv, NEW c \in Calls, Fail(c)
    PROVE  IInv'
  BY StepAside, IdleKnowsNothing DEF Fail, Answer

LEMMA PaymentKeeps ==
    ASSUME IInv, PaymentConfirms \/ PaymentRefunds
    PROVE  IInv'
<1> USE DEF PaymentConfirms, PaymentRefunds, SetStatus
<1>1. TypeOK'
  <2>1. overlapped' \in BOOLEAN
    BY DEF NoteOverlap
  <2>2. status' \in Statuses /\ visited' \subseteq Statuses
    BY DEF IInv, TypeOK, Statuses
  <2>3. payments' \in [captured: Nat, refunded: Nat]
    BY DEF IInv, TypeOK
  <2> QED
    BY <2>1, <2>2, <2>3 DEF IInv, TypeOK
<1>2. ({"PENDING", status} \subseteq visited)'
  BY DEF IInv
<1>3. NoStageSkipped'
  <2>1. CASE PaymentConfirms
    BY <2>1 DEF IInv, NoStageSkipped, Before, TypeOK
  <2>2. CASE PaymentRefunds
    BY <2>2 DEF IInv, NoStageSkipped, Before, TypeOK
  <2> QED
    BY <2>1, <2>2
<1>4. ReadsPast'
  BY DEF IInv, ReadsPast, Past
<1>5. ReadsPresent'
  <2> SUFFICES ASSUME ~overlapped' PROVE \A c \in Calls : call'[c] = Idle
    BY IdleKnowsNothing DEF ReadsPresent
  <2> QED
    BY DEF NoteOverlap, IInv, TypeOK
<1>6. CancelledOnce'
  BY DEF IInv, TypeOK, CancelledOnce
<1> QED
  BY <1>1, <1>2, <1>3, <1>4, <1>5, <1>6 DEF IInv

-----------------------------------------------------------------------------
LEMMA NextKeeps == IInv /\ [Next]_vars => IInv'
<1> SUFFICES ASSUME IInv, [Next]_vars PROVE IInv'
  OBVIOUS
<1>1. CASE UNCHANGED vars
  BY <1>1 DEF vars, rows, history, IInv, TypeOK, NoStageSkipped, ReadsPast,
              ReadsPresent, CancelledOnce
<1>2. ASSUME NEW c \in Calls, BeginCall(c) PROVE IInv'
  BY <1>2, BeginCallKeeps
<1>3. ASSUME NEW c \in Calls, Continue(c) PROVE IInv'
  BY <1>3, UpdateCommitKeeps, CancelCommitKeeps, LocationKeeps, DeliverKeeps,
     ReturnKeeps DEF Continue
<1>4. ASSUME NEW c \in Calls, Fail(c) PROVE IInv'
  BY <1>4, FailKeeps
<1> QED
  BY <1>1, <1>2, <1>3, <1>4, PaymentKeeps DEF Next

THEOREM Invariant == Spec => []IInv
  BY InitHolds, NextKeeps, PTL DEF Spec

(* Every variable keeps its type.                                            *)
THEOREM TypeCorrect == Spec => []TypeOK
<1>1. IInv => TypeOK
  BY DEF IInv
<1> QED
  BY <1>1, Invariant, PTL

(* Whatever races, dies or is paid late, no stage of an order is skipped.    *)
THEOREM StagesInOrder == Spec => []NoStageSkipped
<1>1. IInv => NoStageSkipped
  BY DEF IInv
<1> QED
  BY <1>1, Invariant, PTL

(* One request at a time, an unpaid order is cancelled once and for good.    *)
THEOREM CancelledForGood == Spec => []CancelledOnce
<1>1. IInv => CancelledOnce
  BY DEF IInv
<1> QED
  BY <1>1, Invariant, PTL

(* One request at a time, deliverLocation never makes the order DELIVERED.   *)
THEOREM LastLocationNeverSuffices == Spec => LastLocationIsNotEnough
<1>1. IInv /\ [Next]_vars
        => [\A c \in Calls : call[c].op = "finish" /\ call'[c].op = "status"
                               => overlapped]_vars
  <2> SUFFICES ASSUME IInv, Next, NEW c \in Calls,
                      call[c].op = "finish", call'[c].op = "status", ~overlapped
               PROVE  FALSE
    OBVIOUS
  <2>1. status = "DISPATCHED" /\ call \in [Calls -> Call] /\ call[c] # Idle
    BY DEF IInv, ReadsPresent, Present, TypeOK, Idle
  <2>2. \A d \in Calls \ {c} : call[d] = Idle
    BY <2>1 DEF IInv, ReadsPresent
  <2>3. "DELIVERED" \notin STATUS_FLOW["DISPATCHED"]
    BY DEF STATUS_FLOW
  <2>4. CASE PaymentConfirms \/ PaymentRefunds
    BY <2>4 DEF PaymentConfirms, PaymentRefunds
  <2>5. ASSUME NEW d \in Calls, BeginCall(d) PROVE FALSE
    <3>1. \E x : Begin(d, x)
      BY <2>5 DEF BeginCall, UpdateBegin, LocationBegin, CancelBegin,
                  ReturnBegin, ReviewBegin
    <3>2. d # c /\ call'[c] = call[c]
      BY <2>1, <3>1 DEF Begin
    <3> QED
      BY <3>2
  <2>6. ASSUME NEW d \in Calls, Continue(d) \/ Fail(d) PROVE FALSE
    <3>1. d = c
      BY <2>1, <2>2, <2>6
      DEF Continue, Fail, UpdateCommit, CancelCommit, LocationRead,
          DispatchCommit, DeliverCommit, DeliverCount, DeliverFinish,
          ReturnCommit, ReviewCommit, Idle
    <3>2. DeliverFinish(c) \/ Fail(c)
      BY <2>6, <3>1
      DEF Continue, UpdateCommit, CancelCommit, LocationRead, DispatchCommit,
          DeliverCommit, DeliverCount, ReturnCommit, ReviewCommit
    <3>3. call' = [call EXCEPT ![c] = Idle]
      BY <2>1, <2>3, <3>2 DEF DeliverFinish, Fail, Answer, Then
    <3> QED
      BY <2>1, <3>3 DEF Idle
  <2> QED
    BY <2>4, <2>5, <2>6 DEF Next
<1> QED
  BY <1>1, Invariant, PTL DEF Spec, LastLocationIsNotEnough

(* One request at a time and no payment, a closed order moves only by an     *)
(* approved return.                                                          *)
THEOREM ClosedOrdersStay == Spec => ClosedStaysClosed
<1> DEFINE Stays == ~overlapped /\ payments' = payments /\ status \in Closed
                      => status' = status \/ (status' = "RETURNED" /\ ReturnApproved)
<1>1. IInv /\ [Next]_vars => [Stays]_vars
  <2> SUFFICES ASSUME IInv, Next, ~overlapped, payments' = payments,
                      status \in Closed, status' # status
               PROVE  status' = "RETURNED" /\ ReturnApproved
    OBVIOUS
  <2>1. \A c \in Calls : call[c] \in Call /\ Present(call[c], status, return)
    BY DEF IInv, TypeOK, ReadsPresent
  <2>2. CASE PaymentConfirms \/ PaymentRefunds
    BY <2>2 DEF PaymentConfirms, PaymentRefunds, IInv, TypeOK
  <2>3. ASSUME NEW c \in Calls, BeginCall(c) PROVE FALSE
    BY <2>3 DEF BeginCall, UpdateBegin, LocationBegin, CancelBegin,
                ReturnBegin, ReviewBegin, Begin, rows
  <2>4. ASSUME NEW c \in Calls, Continue(c) \/ Fail(c)
        PROVE  UpdateCommit(c) \/ CancelCommit(c) \/ ReviewCommit(c)
    BY <2>4 DEF Continue, Fail, LocationRead, DispatchCommit, DeliverCommit,
                DeliverCount, DeliverFinish, ReturnCommit, rows
  <2>5. ASSUME NEW c \in Calls, UpdateCommit(c) PROVE FALSE
    <3>1. call[c].to \in STATUS_FLOW[status] /\ status \in Statuses
      BY <2>1, <2>5 DEF UpdateCommit, Present, IInv, TypeOK
    <3> QED
      BY <3>1, FlowStep
  <2>6. ASSUME NEW c \in Calls, CancelCommit(c) PROVE FALSE
    BY <2>1, <2>6 DEF CancelCommit, Present
  <2>7. ASSUME NEW c \in Calls, ReviewCommit(c)
        PROVE  status' = "RETURNED" /\ ReturnApproved
    <3>1. call[c].verdict = "APPROVED" /\ status' = "RETURNED"
      BY <2>7 DEF ReviewCommit, SetStatus
    <3>2. call[c].r \in Returns /\ return[call[c].r] = "PENDING"
      BY <2>1, <2>7, CallShapes DEF ReviewCommit, Present
    <3>3. return'[call[c].r] = "APPROVED"
      BY <2>7, <3>1, <3>2 DEF ReviewCommit, IInv, TypeOK
    <3> QED
      BY <3>1, <3>2, <3>3 DEF ReturnApproved
  <2> QED
    BY <2>2, <2>3, <2>4, <2>5, <2>6, <2>7 DEF Next
<1> QED
  BY <1>1, Invariant, PTL DEF Spec, ClosedStaysClosed

=============================================================================
