---------------------------- MODULE GatewayTypes ----------------------------
(***************************************************************************)
(* Type correctness of the gateway, for every set of partners, keys,       *)
(* orders, threads, processes and sessions.                                *)
(***************************************************************************)
EXTENDS Gateway, TLAPS

(* Every row update keeps the table well formed. *)
LEMMA RowTypes ==
  ASSUME TxTypeOK, NEW m \in MaGiaodich
  PROVE  /\ \A o \in Owner : Insert(m, o) => TxTypeOK'
         /\ SetSubmitted(m) => TxTypeOK'
         /\ SetFailed(m) => TxTypeOK'
         /\ \A p \in PolicyNumber : SetIssued(m, p) => TxTypeOK'
         /\ \A p \in PolicyNumber : SetReconciled(m, p) => TxTypeOK'
         /\ \A n \in Nat : SetAttempts(m, n) => TxTypeOK'
         /\ Age(m) => TxTypeOK'
<1>0. tx[m] \in Row
  BY DEF TxTypeOK
<1>u. ASSUME NEW row \in Row, Update(m, row)
      PROVE  TxTypeOK'
  <2>1. [row EXCEPT !.fresh = TRUE] \in Row
    BY DEF Row
  <2>2. QED
    BY <1>u, <2>1 DEF Update, TxTypeOK
<1>1. ASSUME NEW o \in Owner, Insert(m, o)
      PROVE  TxTypeOK'
  <2>1. [NoRow EXCEPT !.status = "SUBMITTING", !.owner = o, !.fresh = TRUE] \in Row
    BY DEF NoRow, Row, TxStatus
  <2>2. QED
    BY <1>1, <2>1 DEF Insert, TxTypeOK
<1>2. ASSUME SetSubmitted(m) PROVE TxTypeOK'
  <2>1. [tx[m] EXCEPT !.status = "SUBMITTED_OK", !.prKey = TRUE] \in Row
    BY <1>0 DEF Row, TxStatus
  <2>2. QED
    BY <1>2, <1>u, <2>1 DEF SetSubmitted
<1>3. ASSUME SetFailed(m) PROVE TxTypeOK'
  <2>1. [tx[m] EXCEPT !.status = "SUBMITTED_FAIL"] \in Row
    BY <1>0 DEF Row, TxStatus
  <2>2. QED
    BY <1>3, <1>u, <2>1 DEF SetFailed
<1>4. ASSUME NEW p \in PolicyNumber, SetIssued(m, p) PROVE TxTypeOK'
  <2>1. [tx[m] EXCEPT !.status = "ISSUED", !.policyNumber = p] \in Row
    BY <1>0 DEF Row, TxStatus
  <2>2. QED
    BY <1>4, <1>u, <2>1 DEF SetIssued
<1>5. ASSUME NEW p \in PolicyNumber, SetReconciled(m, p) PROVE TxTypeOK'
  <2>1. tx[m].reconcileAttempts + 1 \in Nat
    BY <1>0 DEF Row
  <2>2. \A n \in Nat : [tx[m] EXCEPT !.status = "ISSUED", !.policyNumber = p,
                                    !.reconcileAttempts = n] \in Row
    BY <1>0 DEF Row, TxStatus
  <2>3. [tx[m] EXCEPT !.status = "ISSUED", !.policyNumber = p,
                      !.reconcileAttempts = tx[m].reconcileAttempts + 1] \in Row
    BY <2>1, <2>2, Zenon
  <2>4. QED
    BY <1>5, <1>u, <2>3 DEF SetReconciled
<1>6. ASSUME NEW n \in Nat, SetAttempts(m, n) PROVE TxTypeOK'
  <2>1. [tx[m] EXCEPT !.reconcileAttempts = n, !.status = StatusAfter(n)] \in Row
    BY <1>0 DEF Row, TxStatus, StatusAfter
  <2>2. QED
    BY <1>6, <1>u, <2>1 DEF SetAttempts
<1>7. ASSUME Age(m) PROVE TxTypeOK'
  <2>1. [tx[m] EXCEPT !.fresh = FALSE] \in Row
    BY <1>0 DEF Row
  <2>2. QED
    BY <1>7, <2>1 DEF Age, TxTypeOK
<1>8. QED
  BY <1>1, <1>2, <1>3, <1>4, <1>5, <1>6, <1>7

(* So does every step of PVI for its order book. *)
LEMMA PviTypes ==
  ASSUME PviTypeOK, NEW m \in MaGiaodich
  PROVE  /\ \A o \in Owner : PviSend(m, o) => PviTypeOK'
         /\ PviTake(m) => PviTypeOK'
         /\ PviRefuse(m) => PviTypeOK'
         /\ \A p \in PolicyNumber : PviIssue(m, p) => PviTypeOK'
  BY DEF PviTypeOK, PviOrder, PviSend, PviTake, PviRefuse, PviIssue

LEMMA InitTypes == Init => TypeOK
<1> SUFFICES ASSUME Init PROVE TypeOK
  OBVIOUS
<1>1. PviTypeOK
  BY DEF Init, PviInit, PviTypeOK, PviOrder
<1>2. TxTypeOK
  BY DEF Init, TxInit, TxTypeOK, NoRow, Row
<1>3. IntakeTypeOK
  BY DEF Init, IntakeInit, IntakeTypeOK, IdleIntake, IntakeJob, IntakePc
<1>4. HandlerTypeOK
  BY DEF Init, HandlerInit, HandlerTypeOK, IdleHandler, HandlerJob
<1>5. CronTypeOK
  BY DEF Init, CronInit, CronTypeOK, IdlePass, PassJob, PassPc, LockState, Unlocked
<1>6. QED
  BY <1>1, <1>2, <1>3, <1>4, <1>5 DEF TypeOK

(* createOrder: one step per await. *)
LEMMA IntakeTypes ==
  ASSUME TypeOK, IntakeNext
  PROVE  PviTypeOK' /\ TxTypeOK' /\ IntakeTypeOK'
<1> USE DEF TypeOK
<1> DEFINE Goal == PviTypeOK' /\ TxTypeOK' /\ IntakeTypeOK'
<1>0. PviTypeOK /\ TxTypeOK /\ IntakeTypeOK
  OBVIOUS
<1> USE DEF At, Goto, Done, IdleIntake, IntakeTypeOK, IntakeJob, IntakePc
<1>u. (UNCHANGED pvi => PviTypeOK') /\ (UNCHANGED tx => TxTypeOK')
  BY <1>0 DEF PviTypeOK, TxTypeOK
<1>r. \A a \in Owner, m \in MaGiaodich :
        [owner |-> a, ma |-> m, prKey |-> tx[m].prKey] \in Reply
  BY DEF Reply, TxTypeOK, Row
<1>1. ASSUME NEW r \in Request, NEW o \in Owner, NEW m \in MaGiaodich, Arrive(r, o, m)
      PROVE  Goal
  BY <1>0, <1>1, <1>u DEF Arrive
<1>2. ASSUME NEW r \in Request, FindReplay(r) \/ FindWinner(r)
      PROVE  Goal
  <2>1. PICK m \in MaGiaodich : replies' = replies \cup {ToResult(r, m)}
    BY <1>2 DEF FindReplay, FindWinner, RowsOf
  <2>2. intake[r].owner \in Owner
    BY <1>0, <1>2 DEF FindReplay, FindWinner
  <2>3. replies' \subseteq Reply
    BY <1>0, <1>r, <2>1, <2>2 DEF ToResult
  <2>4. intake' = [intake EXCEPT ![r] = IdleIntake]
    BY <1>2 DEF FindReplay, FindWinner
  <2>5. QED
    BY <1>0, <1>2, <1>u, <2>3, <2>4 DEF FindReplay, FindWinner
<1>3. ASSUME NEW r \in Request, FindNone(r) \/ InsertConflict(r)
      PROVE  Goal
  BY <1>0, <1>3, <1>u DEF FindNone, InsertConflict
<1>4. ASSUME NEW r \in Request, InsertRow(r)
      PROVE  Goal
  <2>1. intake[r].ma \in MaGiaodich /\ intake[r].owner \in Owner
    BY <1>0, <1>4 DEF InsertRow
  <2>2. TxTypeOK'
    BY <1>0, <1>4, <2>1, RowTypes DEF InsertRow
  <2>3. QED
    BY <1>0, <1>4, <1>u, <2>2 DEF InsertRow
<1>5. ASSUME NEW r \in Request, SendOrder(r)
      PROVE  Goal
  <2>1. intake[r].ma \in MaGiaodich /\ intake[r].owner \in Owner
    BY <1>0, <1>5 DEF SendOrder
  <2>2. PviTypeOK'
    BY <1>0, <1>5, <2>1, PviTypes DEF SendOrder
  <2>3. QED
    BY <1>0, <1>5, <1>u, <2>2 DEF SendOrder
<1>6. ASSUME NEW r \in Request, OrderTaken(r) \/ OrderRefused(r) \/ OrderTimeout(r)
      PROVE  Goal
  BY <1>0, <1>6, <1>u DEF OrderTaken, OrderRefused, OrderTimeout
<1>7. ASSUME NEW r \in Request, RecordSubmitted(r) \/ RecordSubmittedThrows(r)
      PROVE  Goal
  <2>1. intake[r].ma \in MaGiaodich
    BY <1>0, <1>7 DEF RecordSubmitted, RecordSubmittedThrows
  <2>2. TxTypeOK'
    BY <1>0, <1>7, <1>u, <2>1, RowTypes DEF RecordSubmitted, RecordSubmittedThrows
  <2>3. QED
    BY <1>0, <1>7, <1>u, <2>2 DEF RecordSubmitted, RecordSubmittedThrows
<1>8. ASSUME NEW r \in Request, ReplyCreated(r)
      PROVE  Goal
  <2>1. intake[r].ma \in MaGiaodich /\ intake[r].owner \in Owner
    BY <1>0, <1>8 DEF ReplyCreated
  <2>2. [owner |-> intake[r].owner, ma |-> intake[r].ma, prKey |-> TRUE] \in Reply
    BY <2>1 DEF Reply
  <2>3. replies' \subseteq Reply
    BY <1>0, <1>8, <2>2, Zenon DEF ReplyCreated, IntakeTypeOK
  <2>4. QED
    BY <1>0, <1>8, <1>u, <2>3 DEF ReplyCreated
<1>9. ASSUME NEW r \in Request, RecordFailed(r)
      PROVE  Goal
  <2>1. intake[r].ma \in MaGiaodich
    BY <1>0, <1>9 DEF RecordFailed
  <2>2. TxTypeOK'
    BY <1>0, <1>9, <2>1, RowTypes DEF RecordFailed
  <2>3. QED
    BY <1>0, <1>9, <1>u, <2>2 DEF RecordFailed
<1>10. ASSUME NEW r \in Request, AbandonIntake(r)
       PROVE  Goal
  BY <1>0, <1>10, <1>u DEF AbandonIntake
<1>11. QED
  BY <1>1, <1>2, <1>3, <1>4, <1>5, <1>6, <1>7, <1>8, <1>9, <1>10
  DEF IntakeNext, IntakeProgress

(* Callbacks, polls and pulls. *)
LEMMA HandlerTypes ==
  ASSUME TypeOK, HandlerNext
  PROVE  PviTypeOK' /\ TxTypeOK' /\ HandlerTypeOK'
<1> DEFINE Goal == PviTypeOK' /\ TxTypeOK' /\ HandlerTypeOK'
<1>0. PviTypeOK /\ TxTypeOK /\ HandlerTypeOK
  BY DEF TypeOK
<1> USE DEF HandlerAt, HandlerGoto, HandlerDone, IdleHandler, HandlerTypeOK, HandlerJob
<1>u. (UNCHANGED pvi => PviTypeOK') /\ (UNCHANGED tx => TxTypeOK')
  BY <1>0 DEF PviTypeOK, TxTypeOK
<1>1. ASSUME NEW h \in Handler, NEW m \in MaGiaodich, NEW p \in PolicyNumber,
             CallbackArrives(h, m, p)
      PROVE  Goal
  BY <1>0, <1>1, <1>u DEF CallbackArrives
<1>2. ASSUME NEW h \in Handler, NEW m \in MaGiaodich, NEW a \in Partner,
             PollArrives(h, m, a)
      PROVE  Goal
  BY <1>0, <1>2, <1>u DEF PollArrives
<1>2b. ASSUME NEW h \in Handler, NEW m \in MaGiaodich, PullArrives(h, m)
      PROVE  Goal
  BY <1>0, <1>2b, <1>u DEF PullArrives
<1>3. ASSUME NEW h \in Handler, CallbackUnknown(h) \/ CallbackAnswer(h)
      PROVE  Goal
  <2>1. handler[h].ma \in MaGiaodich /\ handler[h].policy \in PolicyNumber
    BY <1>0, <1>3 DEF CallbackUnknown, CallbackAnswer
  <2>2. PICK code \in {"00", "-404"} : Answered(h, code)
    BY <1>3 DEF CallbackUnknown, CallbackAnswer
  <2>3. answered' \subseteq Answer
    BY <1>0, <2>1, <2>2 DEF Answered, Answer
  <2>4. handler' = [handler EXCEPT ![h] = IdleHandler] /\ UNCHANGED <<tx, pvi>>
    BY <1>3 DEF CallbackUnknown, CallbackAnswer
  <2>5. QED
    BY <1>0, <1>u, <2>3, <2>4
<1>4. ASSUME NEW h \in Handler, CallbackRepeated(h) \/ CallbackFound(h)
      PROVE  Goal
  BY <1>0, <1>4, <1>u DEF CallbackRepeated, CallbackFound
<1>5. ASSUME NEW h \in Handler, CallbackUpdate(h) \/ PollUpdate(h) \/ PullUpdate(h)
      PROVE  Goal
  <2>1. handler[h].ma \in MaGiaodich /\ handler[h].policy \in PolicyNumber
    BY <1>0, <1>5 DEF CallbackUpdate, PollUpdate, PullUpdate
  <2>2. TxTypeOK'
    BY <1>0, <1>5, <2>1, RowTypes DEF CallbackUpdate, PollUpdate, PullUpdate
  <2>3. QED
    BY <1>0, <1>5, <1>u, <2>2 DEF CallbackUpdate, PollUpdate, PullUpdate
<1>6. ASSUME NEW h \in Handler, PolicyFound(h)
      PROVE  Goal
  <2>1. handler[h].ma \in MaGiaodich
    BY <1>0, <1>6 DEF PolicyFound
  <2>2. pvi[handler[h].ma].current \in PolicyNumber
    BY <1>0, <1>6, <2>1 DEF PolicyFound, PviTypeOK, PviOrder
  <2>3. QED
    BY <1>0, <1>6, <1>u, <2>2 DEF PolicyFound
<1>7. ASSUME NEW h \in Handler, PolicyNotFound(h) \/ AbandonHandler(h)
      PROVE  Goal
  BY <1>0, <1>7, <1>u DEF PolicyNotFound, AbandonHandler
<1>8. QED
  BY <1>1, <1>2, <1>2b, <1>3, <1>4, <1>5, <1>6, <1>7 DEF HandlerNext, HandlerProgress

(* The cron. *)
LEMMA CronTypes ==
  ASSUME TypeOK, CronNext
  PROVE  PviTypeOK' /\ TxTypeOK' /\ CronTypeOK'
<1> DEFINE Goal == PviTypeOK' /\ TxTypeOK' /\ CronTypeOK'
<1>0. PviTypeOK /\ TxTypeOK /\ CronTypeOK
  BY DEF TypeOK
<1>u. (UNCHANGED pvi => PviTypeOK') /\ (UNCHANGED tx => TxTypeOK')
  BY <1>0 DEF PviTypeOK, TxTypeOK
<1>i. IdlePass \in PassJob /\ [IdlePass EXCEPT !.pc = "unlock"] \in PassJob
  BY DEF IdlePass, PassJob, PassPc
<1>l. (lock \in LockState /\ (lock.depth = 0 <=> lock.holder = NoSession))
  BY <1>0 DEF CronTypeOK
<1>p. ASSUME NEW c \in Pass, NEW job \in PassJob,
             pass' = [pass EXCEPT ![c] = job],
             job.pc \in {"issue", "count", "recount"} => job.ma \in MaGiaodich,
             job.pc = "issue" => job.policy \in PolicyNumber,
             lock' \in LockState, lock'.depth = 0 <=> lock'.holder = NoSession
      PROVE  CronTypeOK'
  BY <1>0, <1>p DEF CronTypeOK
<1>1. ASSUME NEW c \in Pass, NEW s \in Session, StartPass(c, s)
      PROVE  Goal
  <2>1. [pass[c] EXCEPT !.pc = "list"] \in PassJob
    BY <1>0 DEF CronTypeOK, PassJob, PassPc
  <2>2. lock' \in LockState /\ lock'.depth # 0 /\ lock'.holder # NoSession
    BY <1>1, <1>l, CronAssumption DEF StartPass, LockState
  <2>3. pass' = [pass EXCEPT ![c] = [pass[c] EXCEPT !.pc = "list"]]
    BY <1>1, <1>0 DEF StartPass, CronTypeOK
  <2>4. CronTypeOK'
    BY <1>p, <2>1, <2>2, <2>3 DEF PassJob
  <2>5. QED
    BY <1>1, <1>u, <2>4 DEF StartPass
<1>2. ASSUME NEW c \in Pass, ListPending(c)
      PROVE  Goal
  <2> DEFINE found == {m \in MaGiaodich : IsPending(m)}
             seen == [m \in MaGiaodich |->
                        IF m \in found THEN tx[m].reconcileAttempts ELSE 0]
             job == [pass[c] EXCEPT !.pc = "next", !.pending = found, !.seen = seen]
  <2>1. seen \in [MaGiaodich -> Nat]
    BY <1>0 DEF TxTypeOK, Row
  <2>2. job \in PassJob /\ job.pc = "next"
    <3> HIDE DEF seen
    <3> QED
      BY <1>0, <2>1 DEF CronTypeOK, PassJob, PassPc
  <2>3. pass' = [pass EXCEPT ![c] = job] /\ lock' = lock
    BY <1>2, <1>0 DEF ListPending, CronTypeOK
  <2>4. CronTypeOK'
    <3> HIDE DEF job
    <3> QED
      BY <1>l, <1>p, <2>2, <2>3
  <2>5. QED
    BY <1>2, <1>u, <2>4 DEF ListPending
<1>3. ASSUME NEW c \in Pass, NEW m \in MaGiaodich, AskPolicy(c, m) \/ AskPolicyThrows(c, m)
      PROVE  Goal
  BY <1>0, <1>3, <1>u
  DEF AskPolicy, AskPolicyThrows, CronTypeOK, PassJob, PassPc, PviTypeOK, PviOrder
<1>n. ASSUME NEW c \in Pass, NextRow(c), UNCHANGED lock
      PROVE  CronTypeOK'
  <2> DEFINE seen == [pass[c].seen EXCEPT ![pass[c].ma] = 0]
             job == [pass[c] EXCEPT !.pc = "next", !.ma = NoMa, !.policy = NoPolicy,
                                    !.seen = seen]
  <2>1. seen \in [MaGiaodich -> Nat]
    BY <1>0 DEF CronTypeOK, PassJob
  <2>2. job \in PassJob /\ job.pc = "next"
    <3> HIDE DEF seen
    <3> QED
      BY <1>0, <2>1 DEF CronTypeOK, PassJob, PassPc
  <2>3. pass' = [pass EXCEPT ![c] = job] /\ lock' = lock
    BY <1>n, <1>0 DEF NextRow, CronTypeOK
  <2>4. QED
    <3> HIDE DEF job
    <3> QED
      BY <1>l, <1>p, <2>2, <2>3
<1>4. ASSUME NEW c \in Pass, IssueRow(c)
      PROVE  Goal
  <2>1. pass[c].ma \in MaGiaodich /\ pass[c].policy \in PolicyNumber
    BY <1>0, <1>4 DEF IssueRow, PassAt, CronTypeOK
  <2>2. TxTypeOK'
    BY <1>0, <1>4, <2>1, RowTypes DEF IssueRow
  <2>3. QED
    BY <1>4, <1>u, <1>n, <2>2 DEF IssueRow
<1>5. ASSUME NEW c \in Pass, IssueRowThrows(c)
      PROVE  Goal
  <2>1. pass[c].ma \in MaGiaodich /\ pass[c].policy \in PolicyNumber
    BY <1>0, <1>5 DEF IssueRowThrows, PassAt, CronTypeOK
  <2>2. TxTypeOK'
    BY <1>0, <1>5, <1>u, <2>1, RowTypes DEF IssueRowThrows
  <2>3. CronTypeOK'
    BY <1>0, <1>5, <2>1 DEF IssueRowThrows, CronTypeOK, PassJob, PassPc
  <2>4. QED
    BY <1>5, <1>u, <2>2, <2>3 DEF IssueRowThrows
<1>c. ASSUME NEW c \in Pass, pass[c].pc \in {"count", "recount"}, CountAttempt(c)
      PROVE  TxTypeOK'
  <2>1. pass[c].ma \in MaGiaodich /\ pass[c].seen[pass[c].ma] + 1 \in Nat
    BY <1>0, <1>c DEF CronTypeOK, PassJob
  <2>2. QED
    BY <1>0, <1>c, <2>1, RowTypes DEF CountAttempt
<1>6. ASSUME NEW c \in Pass, CountRow(c)
      PROVE  Goal
  BY <1>6, <1>c, <1>n, <1>u DEF CountRow
<1>7. ASSUME NEW c \in Pass, CountRowThrows(c)
      PROVE  Goal
  <2>1. TxTypeOK'
    BY <1>7, <1>c, <1>u DEF CountRowThrows
  <2>2. CASE PassAt(c, "count")
    BY <1>0, <1>7, <1>u, <2>1, <2>2
    DEF CountRowThrows, CronTypeOK, PassJob, PassPc
  <2>3. CASE ~PassAt(c, "count")
    <3>1. pass' = [pass EXCEPT ![c] = [IdlePass EXCEPT !.pc = "unlock"]] /\ UNCHANGED lock
      BY <1>7, <2>3 DEF CountRowThrows
    <3>2. CronTypeOK'
      BY <1>i, <1>l, <1>p, <3>1 DEF IdlePass
    <3>3. QED
      BY <1>7, <1>u, <2>1, <3>2 DEF CountRowThrows
  <2>4. QED
    BY <2>2, <2>3
<1>8. ASSUME NEW c \in Pass, EndPass(c)
      PROVE  Goal
  BY <1>0, <1>8, <1>u DEF EndPass, CronTypeOK, PassJob, PassPc
<1>9. ASSUME NEW c \in Pass, NEW s \in Session, Unlock(c, s)
      PROVE  Goal
  <2>1. lock' \in LockState /\ (lock'.depth = 0 <=> lock'.holder = NoSession)
    BY <1>9, <1>l, CronAssumption DEF Unlock, OneLevelUp, Unlocked, LockState, PoolOf
  <2>2. CronTypeOK'
    BY <1>9, <1>i, <1>p, <2>1 DEF Unlock, IdlePass
  <2>3. QED
    BY <1>9, <1>u, <2>2 DEF Unlock
<1>10. ASSUME NEW c \in Pass, UnlockThrows(c)
       PROVE  Goal
  <2>1. CronTypeOK'
    BY <1>10, <1>i, <1>l, <1>p DEF UnlockThrows, IdlePass
  <2>2. QED
    BY <1>10, <1>u, <2>1 DEF UnlockThrows
<1>11. ASSUME CloseIdleSession
       PROVE  Goal
  BY <1>0, <1>11, <1>u DEF CloseIdleSession, CronTypeOK, Unlocked, LockState
<1>12. ASSUME NEW p \in Process, CronCrash(p)
       PROVE  Goal
  <2>1. lock' \in LockState /\ (lock'.depth = 0 <=> lock'.holder = NoSession)
    BY <1>12, <1>l DEF CronCrash, Unlocked, LockState
  <2>2. pass' = [c \in Pass |-> IF HomeOf[c] = p THEN IdlePass ELSE pass[c]]
    BY <1>12 DEF CronCrash
  <2>3. pass' \in [Pass -> PassJob]
    BY <1>0, <1>i, <2>2 DEF CronTypeOK
  <2>4. \A c \in Pass : pass'[c] = IdlePass \/ pass'[c] = pass[c]
    BY <2>2
  <2>5. CronTypeOK'
    BY <1>0, <2>1, <2>3, <2>4 DEF CronTypeOK, IdlePass
  <2>6. QED
    BY <1>12, <1>u, <2>5 DEF CronCrash
<1>13. QED
  BY <1>1, <1>2, <1>3, <1>4, <1>5, <1>6, <1>7, <1>8, <1>9, <1>10, <1>11, <1>12
  DEF CronNext, PassProgress

(* TypeCorrect.  Every variable of the gateway keeps its type, and every   *)
(* thread holds what its next step needs, in every reachable state.        *)
THEOREM TypeCorrect == Spec => []TypeOK
<1>1. Init => TypeOK
  BY InitTypes
<1>2. ASSUME TypeOK, [Next]_vars
      PROVE  TypeOK'
  <2> USE DEF intakeVars, issuanceVars, cronVars
  <2>u. /\ UNCHANGED <<intake, replies>> => IntakeTypeOK'
        /\ UNCHANGED <<handler, answered>> => HandlerTypeOK'
        /\ UNCHANGED <<pass, lock>> => CronTypeOK'
        /\ UNCHANGED tx => TxTypeOK'
        /\ UNCHANGED pvi => PviTypeOK'
    BY <1>2 DEF TypeOK, IntakeTypeOK, HandlerTypeOK, CronTypeOK, TxTypeOK, PviTypeOK
  <2>1. CASE PviStep
    BY <1>2, <2>1, <2>u, PviTypes DEF PviStep, TypeOK
  <2>2. CASE TimePasses
    BY <1>2, <2>2, <2>u, RowTypes DEF TimePasses, TypeOK
  <2>3. CASE IntakeStep
    BY <1>2, <2>3, <2>u, IntakeTypes DEF IntakeStep, TypeOK
  <2>4. CASE HandlerStep
    BY <1>2, <2>4, <2>u, HandlerTypes DEF HandlerStep, TypeOK
  <2>5. CASE CronStep
    BY <1>2, <2>5, <2>u, CronTypes DEF CronStep, TypeOK
  <2>6. CASE UNCHANGED vars
    BY <2>6, <2>u DEF vars, TypeOK
  <2>7. QED
    BY <1>2, <2>1, <2>2, <2>3, <2>4, <2>5, <2>6 DEF Next
<1>3. QED
  BY <1>1, <1>2, PTL DEF Spec
=============================================================================
