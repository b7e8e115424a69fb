----------------------- MODULE SubscriptionTerm_proof -----------------------
(***************************************************************************)
(* Theorems about SubscriptionTerm, for any number of companies and        *)
(* requests at the same time and terms of any length.  As long as nothing  *)
(* overlapped, one request or one job is under way: the free benefit it    *)
(* has read to be untouched still is, and the companies a job has listed   *)
(* are still due, although days pass.                                      *)
(***************************************************************************)
EXTENDS SubscriptionTerm, TLAPS

\* A request to take the free plan has seen that it was never had.
FreeUntouched ==
    /\ benefits =< 1
    /\ \A c \in Calls : call[c].op \in {"free", "freeChecked"} => benefits = 0

\* One request or one job is under way.
Alone ==
    /\ \A c, d \in Calls : call[c] # Idle /\ call[d] # Idle => c = d
    /\ \A i, j \in Jobs : listed[i] # {} /\ listed[j] # {} => i = j
    /\ \A c \in Calls, j \in Jobs : call[c] = Idle \/ listed[j] = {}

\* What a job has listed is due when it comes to write it.
StillDue == \A j \in Jobs : \A k \in listed[j] : Due(company[k], j)

Orderly == ~overlapped => FreeUntouched /\ Alone /\ StillDue

IInv == TypeOK /\ Orderly

-----------------------------------------------------------------------------
(* What an operation writes is a row, and neither a request's nor an         *)
(* activation's is of a status the jobs write.                               *)
LEMMA WrittenRow ==
    ASSUME NEW row \in Row,
           NEW op \in Requests \cup {"activate", "freeChecked"} \cup Jobs
    PROVE  Written(row, op) \in Row
<1>1. 0 \in 0..Year /\ Year \in 0..Year /\ TrialDays \in 0..Year
      /\ FreeDays \in 0..Year /\ 0 \in 0..GraceDays
  BY ConstantsAssumption
<1>2. CASE op = "cancel"
  BY <1>1, <1>2 DEF Written, Row, Statuses, Plans
<1>3. CASE op = "trial"
  BY <1>1, <1>3 DEF Written, Row, Statuses, Plans
<1>4. CASE op = "upgrade"
  BY <1>1, <1>4 DEF Written, Row, Statuses, Plans
<1>5. CASE op \in {"renew", "reactivate"}
  BY <1>1, <1>5 DEF Written, Renewed, Row, Statuses, Plans
<1>6. CASE op = "suspend"
  BY <1>1, <1>6 DEF Written, Row, Statuses, Plans
<1>7. CASE op \in {"activate", "freeChecked"}
  BY <1>1, <1>7 DEF Written, Row, Statuses, Plans
<1>8. CASE op \in Jobs
  BY <1>1, <1>8 DEF Written, Row, Statuses, Plans, Jobs
<1> QED
  BY <1>2, <1>3, <1>4, <1>5, <1>6, <1>7, <1>8 DEF Requests

(* What a request in flight is about.                                        *)
LEMMA CallShapes ==
    ASSUME NEW x \in Call
    PROVE  /\ x.op \in Requests \cup {"idle", "free", "freeChecked", "admin"}
           /\ x.op # "idle" => x.k \in Companies
           /\ x.op = "idle" => x = Idle
           /\ x.op = "admin" => x.to \in Statuses /\ x.dated \in BOOLEAN
  BY DEF Call, Idle, Requests

LEMMA IdleCall == Idle \in Call /\ Idle.op = "idle"
  BY DEF Call, Idle

-----------------------------------------------------------------------------
LEMMA InitHolds == Init => IInv
<1> SUFFICES ASSUME Init PROVE IInv
  OBVIOUS
<1>1. TypeOK
  BY IdleCall DEF Init, TypeOK, Row, Statuses, Plans, Undated, Jobs
<1>2. Orderly
  BY IdleCall DEF Init, Orderly, FreeUntouched, Alone, StillDue
<1> QED
  BY <1>1, <1>2 DEF IInv

(* A request begins.                                                         *)
LEMMA BeginKeeps ==
    ASSUME IInv, NEW c \in Calls, NEW x \in Call, Begin(c, x),
           x.op \in {"free", "freeChecked"} => benefits = 0
    PROVE  IInv'
<1> USE DEF IInv, Begin
<1>1. TypeOK'
  BY DEF TypeOK, NoteOverlap
<1>2. Orderly'
  <2> SUFFICES ASSUME ~overlapped' PROVE FreeUntouched' /\ Alone' /\ StillDue'
    BY DEF Orderly
  <2>1. /\ \A d \in Calls : call[d] = Idle
        /\ \A j \in Jobs : listed[j] = {}
        /\ Orderly /\ ~overlapped
    BY DEF NoteOverlap, TypeOK
  <2>2. call' \in [Calls -> Call] /\ call'[c] = x
        /\ \A d \in Calls \ {c} : call'[d] = Idle
    BY <2>1 DEF TypeOK
  <2>3. FreeUntouched'
    BY <2>1, <2>2, IdleCall DEF Orderly, FreeUntouched
  <2>4. Alone' /\ StillDue'
    BY <2>1, <2>2 DEF Alone, StillDue
  <2> QED
    BY <2>3, <2>4
<1> QED
  BY <1>1, <1>2

(* A request goes on to x, the rows as they must be.                         *)
LEMMA ThenKeeps ==
    ASSUME IInv, NEW c \in Calls, NEW x \in Call, call[c] # Idle, Then(c, x),
           company' \in [Companies -> Row], benefits' \in Nat,
           ~overlapped => \/ x.op \notin {"free", "freeChecked"} /\ benefits' =< 1
                          \/ benefits' = 0
    PROVE  IInv'
<1> USE DEF IInv, Then
<1>1. TypeOK'
  BY DEF TypeOK
<1>2. Orderly'
  <2> SUFFICES ASSUME ~overlapped' PROVE FreeUntouched' /\ Alone' /\ StillDue'
    BY DEF Orderly
  <2>1. ~overlapped /\ FreeUntouched /\ Alone
    BY DEF Orderly
  <2>2. call' \in [Calls -> Call] /\ call'[c] = x
        /\ \A d \in Calls \ {c} : call'[d] = Idle
    BY <2>1 DEF TypeOK, Alone
  <2>3. \A j \in Jobs : listed'[j] = {}
    BY <2>1 DEF Alone
  <2>4. FreeUntouched'
    BY <2>1, <2>2, IdleCall DEF FreeUntouched
  <2>5. Alone' /\ StillDue'
    BY <2>2, <2>3 DEF Alone, StillDue
  <2> QED
    BY <2>4, <2>5
<1> QED
  BY <1>1, <1>2

-----------------------------------------------------------------------------
(* Requests.                                                                 *)
LEMMA BeginsKeep ==
    ASSUME IInv, NEW c \in Calls, NEW k \in Companies,
           \/ FreeBegin(c, k)
           \/ \E op \in Requests : RequestBegin(c, k, op)
           \/ \E to \in Statuses, dated \in BOOLEAN : AdminBegin(c, k, to, dated)
    PROVE  IInv'
<1>1. CASE FreeBegin(c, k)
  <2> DEFINE x == [op |-> "free", k |-> k]
  <2>1. x \in Call /\ benefits = 0 /\ Begin(c, x)
    BY <1>1 DEF FreeBegin, Eligible, Call
  <2> QED
    BY <2>1, BeginKeeps
<1>2. ASSUME NEW op \in Requests, RequestBegin(c, k, op) PROVE IInv'
  <2> DEFINE x == [op |-> op, k |-> k]
  <2>1. x \in Call /\ x.op \notin {"free", "freeChecked"} /\ Begin(c, x)
    BY <1>2 DEF RequestBegin, Call, Requests
  <2> QED
    BY <2>1, BeginKeeps
<1>3. ASSUME NEW to \in Statuses, NEW dated \in BOOLEAN, AdminBegin(c, k, to, dated)
      PROVE  IInv'
  <2> DEFINE x == [op |-> "admin", k |-> k, to |-> to, dated |-> dated]
  <2>1. x \in Call /\ x.op \notin {"free", "freeChecked"} /\ Begin(c, x)
    BY <1>3 DEF AdminBegin, Call
  <2> QED
    BY <2>1, BeginKeeps
<1> QED
  BY <1>1, <1>2, <1>3

LEMMA CommitsKeep ==
    ASSUME IInv, NEW c \in Calls,
           RequestCommit(c) \/ AdminCommit(c) \/ FreeRecheck(c) \/ FreeCommit(c)
             \/ Fail(c)
    PROVE  IInv'
<1>1. /\ company \in [Companies -> Row] /\ benefits \in Nat
      /\ call[c] \in Call
      /\ ~overlapped => FreeUntouched
  BY DEF IInv, TypeOK, Orderly
<1>2. CASE RequestCommit(c)
  <2>1. call[c].k \in Companies /\ call[c] # Idle
    BY <1>1, <1>2, CallShapes DEF RequestCommit, Requests, Idle
  <2>2. company' \in [Companies -> Row]
    BY <1>1, <1>2, <2>1, WrittenRow DEF RequestCommit
  <2> QED
    BY <1>1, <1>2, <2>1, <2>2, ThenKeeps, IdleCall DEF RequestCommit, FreeUntouched
<1>3. CASE AdminCommit(c)
  <2>1. call[c].k \in Companies /\ call[c] # Idle /\ call[c].to \in Statuses
    BY <1>1, <1>3, CallShapes DEF AdminCommit, Idle
  <2>2. company' \in [Companies -> Row]
    BY <1>1, <1>3, <2>1, ConstantsAssumption DEF AdminCommit, Row, Plans
  <2> QED
    BY <1>1, <1>3, <2>1, <2>2, ThenKeeps, IdleCall DEF AdminCommit, FreeUntouched
<1>4. CASE FreeRecheck(c)
  <2>1. call[c].k \in Companies /\ call[c] # Idle
    BY <1>1, <1>4, CallShapes DEF FreeRecheck, Idle
  <2> DEFINE x == [op |-> "freeChecked", k |-> call[c].k]
  <2>2. x \in Call
    BY <2>1 DEF Call
  <2>3. CASE benefits = 0
    <3>1. Then(c, x)
      BY <1>4, <2>3 DEF FreeRecheck, Eligible
    <3> QED
      BY <1>1, <1>4, <2>1, <2>2, <2>3, <3>1, ThenKeeps DEF FreeRecheck
  <2>4. CASE benefits # 0
    <3>1. Then(c, Idle)
      BY <1>4, <2>4 DEF FreeRecheck, Eligible
    <3> QED
      BY <1>1, <1>4, <2>1, <3>1, ThenKeeps, IdleCall DEF FreeRecheck, FreeUntouched
  <2> QED
    BY <2>3, <2>4
<1>5. CASE FreeCommit(c)
  <2>1. call[c].k \in Companies /\ call[c] # Idle
    BY <1>1, <1>5, CallShapes DEF FreeCommit, Idle
  <2>2. company' \in [Companies -> Row]
    BY <1>1, <1>5, <2>1, WrittenRow DEF FreeCommit
  <2>3. benefits' \in Nat /\ (~overlapped => benefits' =< 1)
    BY <1>1, <1>5 DEF FreeCommit, FreeUntouched
  <2> QED
    BY <1>5, <2>1, <2>2, <2>3, ThenKeeps, IdleCall DEF FreeCommit
<1>6. CASE Fail(c)
  BY <1>1, <1>6, ThenKeeps, IdleCall DEF Fail, FreeUntouched
<1> QED
  BY <1>2, <1>3, <1>4, <1>5, <1>6

LEMMA ActivatesKeeps ==
    ASSUME IInv, NEW k \in Companies, Activates(k)
    PROVE  IInv'
<1>1. TypeOK'
  <2>1. company' \in [Companies -> Row]
    BY WrittenRow DEF IInv, TypeOK, Activates
  <2> QED
    BY <2>1 DEF IInv, TypeOK, Activates, NoteOverlap
<1>2. Orderly'
  <2> SUFFICES ASSUME ~overlapped' PROVE FreeUntouched' /\ Alone' /\ StillDue'
    BY DEF Orderly
  <2>1. ~overlapped /\ \A j \in Jobs : listed[j] = {}
    BY DEF Activates, NoteOverlap, IInv, TypeOK
  <2> QED
    BY <2>1 DEF IInv, Orderly, Activates, FreeUntouched, Alone, StillDue
<1> QED
  BY <1>1, <1>2 DEF IInv

-----------------------------------------------------------------------------
(* Jobs and days.                                                            *)
LEMMA JobListKeeps ==
    ASSUME IInv, NEW j \in Jobs, JobList(j)
    PROVE  IInv'
<1>1. TypeOK'
  BY DEF IInv, TypeOK, JobList, NoteOverlap
<1>2. Orderly'
  <2> SUFFICES ASSUME ~overlapped' PROVE FreeUntouched' /\ Alone' /\ StillDue'
    BY DEF Orderly
  <2>1. /\ ~overlapped /\ FreeUntouched
        /\ \A d \in Calls : call[d] = Idle
        /\ \A i \in Jobs : listed[i] = {}
    BY DEF JobList, NoteOverlap, IInv, TypeOK, Orderly
  <2>2. /\ listed'[j] = {k \in Companies : Due(company[k], j)}
        /\ \A i \in Jobs \ {j} : listed'[i] = {}
    BY <2>1 DEF IInv, TypeOK, JobList
  <2>3. FreeUntouched' /\ Alone'
    BY <2>1, <2>2 DEF JobList, FreeUntouched, Alone
  <2>4. StillDue'
    BY <2>2 DEF JobList, StillDue
  <2> QED
    BY <2>3, <2>4
<1> QED
  BY <1>1, <1>2 DEF IInv

LEMMA JobWriteKeeps ==
    ASSUME IInv, NEW j \in Jobs, NEW k \in Companies, JobWrite(j, k)
    PROVE  IInv'
<1>1. TypeOK'
  <2>1. company' \in [Companies -> Row]
    BY WrittenRow DEF IInv, TypeOK, JobWrite
  <2>2. listed' \in [Jobs -> SUBSET Companies]
    BY DEF IInv, TypeOK, JobWrite
  <2> QED
    BY <2>1, <2>2 DEF IInv, TypeOK, JobWrite
<1>2. Orderly'
  <2> SUFFICES ASSUME ~overlapped' PROVE FreeUntouched' /\ Alone' /\ StillDue'
    BY DEF Orderly
  <2>1. ~overlapped /\ FreeUntouched /\ Alone /\ StillDue /\ k \in listed[j]
    BY DEF IInv, Orderly, JobWrite
  <2>2. /\ listed'[j] = listed[j] \ {k}
        /\ \A i \in Jobs \ {j} : listed'[i] = {} /\ listed[i] = {}
    BY <2>1 DEF IInv, TypeOK, JobWrite, Alone
  <2>3. \A m \in Companies \ {k} : company'[m] = company[m]
    BY DEF IInv, TypeOK, JobWrite
  <2>4. listed[j] \subseteq Companies
    BY DEF IInv, TypeOK
  <2>5. FreeUntouched' /\ Alone'
    BY <2>1, <2>2 DEF JobWrite, FreeUntouched, Alone
  <2>6. StillDue'
    BY <2>1, <2>2, <2>3, <2>4 DEF StillDue
  <2> QED
    BY <2>5, <2>6
<1> QED
  BY <1>1, <1>2 DEF IInv

LEMMA JobDiesKeeps ==
    ASSUME IInv, NEW j \in Jobs, JobDies(j)
    PROVE  IInv'
<1>1. listed' \in [Jobs -> SUBSET Companies]
      /\ \A i \in Jobs : listed'[i] = listed[i] \/ listed'[i] = {}
  BY DEF IInv, TypeOK, JobDies
<1> QED
  BY <1>1 DEF JobDies, IInv, TypeOK, Orderly, FreeUntouched, Alone, StillDue

(* What is due stays due when a day passes.                                  *)
LEMMA DayKeeps ==
    ASSUME IInv, Day
    PROVE  IInv'
<1>1. company \in [Companies -> Row] /\ GraceDays \in Nat /\ Year \in Nat
  BY ConstantsAssumption DEF IInv, TypeOK
<1>2. ASSUME NEW k \in Companies
      PROVE  /\ company'[k] \in Row
             /\ company'[k].status = company[k].status
             /\ company[k].left = 0 => company'[k].left = 0
             /\ company[k].grace = Undated => company'[k].grace = Undated
             /\ company[k].grace = GraceDays => company'[k].grace = GraceDays
             /\ company'[k].grace >= company[k].grace
  <2> DEFINE row == company[k]
             left == IF row.left > 0 THEN row.left - 1 ELSE row.left
             grace == IF row.grace \in 0..(GraceDays - 1) THEN row.grace + 1 ELSE row.grace
  <2>1. /\ row.left \in {Undated} \cup 0..Year
        /\ row.grace \in {Undated} \cup 0..GraceDays
        /\ row.status \in Statuses /\ row.plan \in Plans
        /\ row = [status |-> row.status, plan |-> row.plan,
                  left |-> row.left, grace |-> row.grace]
    BY <1>1 DEF Row
  <2>2. company'[k] = [status |-> row.status, plan |-> row.plan,
                       left |-> left, grace |-> grace]
    BY <1>1, <2>1 DEF Day, Row
  <2>3. left \in {Undated} \cup 0..Year /\ (row.left = 0 => left = 0)
    BY <1>1, <2>1 DEF Undated
  <2>4. /\ grace \in {Undated} \cup 0..GraceDays /\ grace >= row.grace
        /\ row.grace = Undated => grace = Undated
        /\ row.grace = GraceDays => grace = GraceDays
    BY <1>1, <2>1 DEF Undated
  <2> HIDE DEF left, grace
  <2> QED
    BY <2>1, <2>2, <2>3, <2>4 DEF Row
<1>3. TypeOK'
  <2>1. company' \in [Companies -> Row]
    BY <1>2 DEF Day
  <2> QED
    BY <2>1 DEF IInv, TypeOK, Day
<1>4. Orderly'
  <2> SUFFICES ASSUME ~overlapped' PROVE FreeUntouched' /\ Alone' /\ StillDue'
    BY DEF Orderly
  <2>1. ~overlapped /\ FreeUntouched /\ Alone /\ StillDue
    BY DEF IInv, Orderly, Day
  <2>2. FreeUntouched' /\ Alone'
    BY <2>1 DEF Day, FreeUntouched, Alone
  <2>3. ASSUME NEW j \in Jobs, NEW k \in listed[j] PROVE Due(company'[k], j)
    <3>1. k \in Companies /\ Due(company[k], j)
      BY <2>1 DEF StillDue, IInv, TypeOK
    <3>2. AdminGraceDays \in Nat /\ company[k].grace \in Int /\ company'[k].grace \in Int
      BY <1>1, <1>2, <3>1, ConstantsAssumption DEF Row, Undated
    <3>3. CASE j = "grace"
      BY <1>2, <3>1, <3>3 DEF Due, GraceDue, Over
    <3>4. CASE j = "expire"
      BY <1>2, <3>1, <3>4 DEF Due, ExpireDue, Over
    <3>5. CASE j = "process"
      <4>1. ProcessDue(company[k])
        BY <3>1, <3>5 DEF Due
      <4>2. ProcessDue(company'[k])
        BY <1>2, <3>1, <3>2, <4>1 DEF ProcessDue, Over
      <4> QED
        BY <3>5, <4>2 DEF Due
    <3> QED
      BY <3>3, <3>4, <3>5 DEF Jobs
  <2> QED
    BY <2>2, <2>3 DEF StillDue, Day
<1> QED
  BY <1>3, <1>4 DEF IInv

-----------------------------------------------------------------------------
LEMMA NextKeeps == IInv /\ [Next]_vars => IInv'
<1> SUFFICES ASSUME IInv, [Next]_vars PROVE IInv'
  OBVIOUS
<1>1. CASE UNCHANGED vars
  BY <1>1 DEF vars, IInv, TypeOK, Orderly, FreeUntouched, Alone, StillDue
<1>2. ASSUME NEW c \in Calls, Serve(c) PROVE IInv'
  BY <1>2, BeginsKeep, CommitsKeep DEF Serve
<1>3. ASSUME NEW k \in Companies, Activates(k) PROVE IInv'
  BY <1>3, ActivatesKeeps
<1>4. ASSUME NEW j \in Jobs, Work(j) PROVE IInv'
  BY <1>4, JobListKeeps, JobWriteKeeps, JobDiesKeeps DEF Work
<1> QED
  BY <1>1, <1>2, <1>3, <1>4, DayKeeps DEF Next

THEOREM Invariant == Spec => []IInv
  BY InitHolds, NextKeeps, PTL DEF Spec

(* Company rows, requests and jobs keep their types.                         *)
THEOREM TypeCorrect == Spec => []TypeOK
<1>1. IInv => TypeOK
  BY DEF IInv
<1> QED
  BY <1>1, Invariant, PTL

(* One request after the other, TRAD UP is had once for a PAN.               *)
THEOREM FreeOnce == Spec => []FreeBenefitOnce
<1>1. IInv => FreeBenefitOnce
  BY DEF IInv, Orderly, FreeUntouched, FreeBenefitOnce
<1> QED
  BY <1>1, Invariant, PTL

(* Nothing overlapping, a job ends only a term or a grace period that is     *)
(* over.                                                                     *)
THEOREM JobsEndWhatIsOver == Spec => JobsEndOnlyWhatIsOver
<1> DEFINE Ends ==
      ~overlapped /\ call' = call =>
         \A k \in Companies :
           company'[k].status \in {"EXPIRED", "CANCELLED"} \ {company[k].status}
             => IF company[k].status = "EXPIRED"
                  THEN company[k].grace = GraceDays ELSE Over(company[k])
<1>1. IInv /\ [Next]_vars => [Ends]_vars
  <2> SUFFICES ASSUME IInv, Next, ~overlapped, call' = call, NEW k \in Companies,
                      company'[k].status \in {"EXPIRED", "CANCELLED"} \ {company[k].status}
               PROVE  IF company[k].status = "EXPIRED"
                        THEN company[k].grace = GraceDays ELSE Over(company[k])
    OBVIOUS
  <2>1. company \in [Companies -> Row] /\ call \in [Calls -> Call] /\ StillDue
    BY DEF IInv, TypeOK, Orderly
  <2>2. ASSUME NEW c \in Calls, Serve(c) PROVE company' = company
    <3>1. \A x : call[c] # x => call' # [call EXCEPT ![c] = x]
      BY <2>1
    <3>2. call[c].op \in Requests \cup {"admin", "freeChecked"} => call[c] # Idle
      BY DEF Idle, Requests
    <3> QED
      BY <2>2, <3>1, <3>2
      DEF Serve, FreeBegin, RequestBegin, AdminBegin, Begin, RequestCommit,
          AdminCommit, FreeRecheck, FreeCommit, Fail, Then
  <2>3. ASSUME NEW m \in Companies, Activates(m) PROVE company'[k] = company[k]
                                                    \/ company'[k].status = "ACTIVE"
    BY <2>1, <2>3 DEF Activates, Written
  <2>4. CASE Day
    BY <2>1, <2>4 DEF Day, Row
  <2>5. ASSUME NEW j \in Jobs, Work(j)
        PROVE  IF company[k].status = "EXPIRED"
                 THEN company[k].grace = GraceDays ELSE Over(company[k])
    <3>1. JobWrite(j, k)
      BY <2>1, <2>5 DEF Work, JobList, JobDies, JobWrite
    <3>2. Due(company[k], j) /\ company'[k] = Written(company[k], j)
      BY <2>1, <3>1 DEF JobWrite, StillDue
    <3>3. company[k] \in Row
      BY <2>1
    <3>4. CASE j = "grace"
      BY <3>2, <3>4 DEF Due, GraceDue, InService
    <3>5. CASE j = "expire"
      BY <3>2, <3>5 DEF Due, ExpireDue
    <3>6. CASE j = "process"
      BY <3>2, <3>6 DEF Due, ProcessDue
    <3> QED
      BY <3>4, <3>5, <3>6 DEF Jobs
  <2> QED
    BY <2>2, <2>3, <2>4, <2>5 DEF Next
<1> QED
  BY <1>1, Invariant, PTL DEF Spec, JobsEndOnlyWhatIsOver
=============================================================================
