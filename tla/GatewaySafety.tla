---------------------------- MODULE GatewaySafety ----------------------------
(***************************************************************************)
(* The idempotency of createOrder, for every set of partners, keys,        *)
(* orders, threads, processes and sessions: OrderInv is inductive, and it  *)
(* implies AtMostOncePerKey, SameKeySameOrder and OneOrderOneKey.  Then    *)
(* the policies: PolicyInv, that whatever a thread has in hand PVI said,   *)
(* is inductive too, and it implies what rows, statuses and answers say.   *)
(* LinkInv adds, where customers pay before PVI issues, that no row waits  *)
(* for its policy out of the reconcile query's sight.  Last, the gateway   *)
(* implements OrderPromise.                                                *)
(***************************************************************************)
EXTENDS GatewayTypes

(* What the steps of handlers, passes and time leave alone in a table:     *)
(* which rows exist and whose they are.                                    *)
RowsStay ==
  \A m \in MaGiaodich :
    (tx'[m].status # "ABSENT" <=> Exists(m)) /\ tx'[m].owner = tx[m].owner

(* No UPDATE creates a row or changes its owner. *)
LEMMA UpdatesKeepRows ==
  ASSUME TxTypeOK, NEW m \in MaGiaodich, Exists(m)
  PROVE  /\ SetSubmitted(m) => RowsStay
         /\ SetFailed(m) => RowsStay
         /\ \A p \in PolicyNumber : SetIssued(m, p) => RowsStay
         /\ \A p \in PolicyNumber : SetReconciled(m, p) => RowsStay
         /\ \A n \in Nat : SetAttempts(m, n) => RowsStay
<1>0. tx \in [MaGiaodich -> Row] /\ tx[m] \in Row
  BY DEF TxTypeOK
<1>u. ASSUME NEW row \in Row, row.status # "ABSENT", row.owner = tx[m].owner,
             Update(m, row)
      PROVE  RowsStay
  <2>1. tx' = [tx EXCEPT ![m] = [row EXCEPT !.fresh = TRUE]]
    BY <1>u DEF Update
  <2>2. [row EXCEPT !.fresh = TRUE].status # "ABSENT"
        /\ [row EXCEPT !.fresh = TRUE].owner = tx[m].owner
    BY <1>u DEF Row
  <2>3. QED
    BY <1>0, <2>1, <2>2 DEF RowsStay, Exists
<1>1. ASSUME SetSubmitted(m) PROVE RowsStay
  <2> DEFINE row == [tx[m] EXCEPT !.status = "SUBMITTED_OK", !.prKey = TRUE]
  <2>1. row \in Row /\ row.status # "ABSENT" /\ row.owner = tx[m].owner
    BY <1>0 DEF Row, TxStatus
  <2>2. QED
    BY <1>1, <1>u, <2>1 DEF SetSubmitted
<1>2. ASSUME SetFailed(m) PROVE RowsStay
  <2> DEFINE row == [tx[m] EXCEPT !.status = "SUBMITTED_FAIL"]
  <2>1. row \in Row /\ row.status # "ABSENT" /\ row.owner = tx[m].owner
    BY <1>0 DEF Row, TxStatus
  <2>2. QED
    BY <1>2, <1>u, <2>1 DEF SetFailed
<1>3. ASSUME NEW p \in PolicyNumber, SetIssued(m, p) PROVE RowsStay
  <2> DEFINE row == [tx[m] EXCEPT !.status = "ISSUED", !.policyNumber = p]
  <2>1. row \in Row /\ row.status # "ABSENT" /\ row.owner = tx[m].owner
    BY <1>0 DEF Row, TxStatus
  <2>2. QED
    BY <1>3, <1>u, <2>1 DEF SetIssued
<1>4. ASSUME NEW p \in PolicyNumber, SetReconciled(m, p) PROVE RowsStay
  <2> DEFINE row(n) == [tx[m] EXCEPT !.status = "ISSUED", !.policyNumber = p,
                                     !.reconcileAttempts = n]
  <2>1. tx[m].reconcileAttempts + 1 \in Nat
    BY <1>0 DEF Row
  <2>2. \A n \in Nat : row(n) \in Row /\ row(n).status # "ABSENT"
                         /\ row(n).owner = tx[m].owner
    BY <1>0 DEF Row, TxStatus
  <2>3. Update(m, row(tx[m].reconcileAttempts + 1))
    BY <1>4 DEF SetReconciled
  <2>4. QED
    <3> HIDE DEF row
    <3> QED
      BY <1>u, <2>1, <2>2, <2>3
<1>5. ASSUME NEW n \in Nat, SetAttempts(m, n) PROVE RowsStay
  <2> DEFINE row == [tx[m] EXCEPT !.reconcileAttempts = n, !.status = StatusAfter(n)]
  <2>1. row \in Row /\ row.status # "ABSENT" /\ row.owner = tx[m].owner
    BY <1>0 DEF Row, TxStatus, StatusAfter
  <2>2. QED
    BY <1>5, <1>u, <2>1 DEF SetAttempts
<1>6. QED
  BY <1>1, <1>2, <1>3, <1>4, <1>5

LEMMA AgeKeepsRows ==
  ASSUME TxTypeOK, NEW m \in MaGiaodich, Age(m)
  PROVE  RowsStay
  BY DEF TxTypeOK, Row, Age, RowsStay, Exists

LEMMA InitOrder == Init => OrderInv
<1> SUFFICES ASSUME Init PROVE OrderInv
  OBVIOUS
<1>1. \A m \in MaGiaodich : ~Exists(m)
  BY DEF Init, TxInit, NoRow, Exists
<1>2. OneRowPerOwner /\ SentOrdersHaveRows
  BY <1>1, ForeignAssumption
  DEF OneRowPerOwner, SentOrdersHaveRows, Init, PviInit
<1>3. ThreadsKnowTheirRow /\ RepliesNameRows
  BY DEF ThreadsKnowTheirRow, RepliesNameRows, Init, IntakeInit, IdleIntake
<1>4. WorkersHaveRows
  BY DEF WorkersHaveRows, Init, HandlerInit, IdleHandler, CronInit, IdlePass
<1>5. QED
  BY <1>1, <1>2, <1>3, <1>4 DEF OrderInv

(* Steps that change neither threads of createOrder nor whose a row is     *)
(* keep the part of OrderInv that is about orders.                         *)
LEMMA OrdersFrame ==
  ASSUME OrderInv, TypeOK, RowsStay, UNCHANGED <<intake, replies>>,
         \A m \in MaGiaodich : pvi'[m].owner = pvi[m].owner
                                 /\ (pvi'[m].order = "none" <=> pvi[m].order = "none")
  PROVE  /\ OneRowPerOwner' /\ ThreadsKnowTheirRow'
         /\ SentOrdersHaveRows' /\ RepliesNameRows'
<1>1. \A r \in Request : intake[r].pc # "idle" => intake[r].ma \in MaGiaodich
  BY DEF TypeOK, IntakeTypeOK
<1>2. \A a \in replies : a.ma \in MaGiaodich
  BY DEF TypeOK, IntakeTypeOK, Reply
<1>3. OneRowPerOwner'
  BY DEF OrderInv, OneRowPerOwner, RowsStay, Exists
<1>4. ThreadsKnowTheirRow'
  BY <1>1 DEF OrderInv, ThreadsKnowTheirRow, RowsStay, Exists, Submitting
<1>5. SentOrdersHaveRows'
  BY DEF OrderInv, SentOrdersHaveRows, RowsStay, Exists
<1>6. RepliesNameRows'
  BY <1>2 DEF OrderInv, RepliesNameRows, RowsStay, Exists
<1>7. QED
  BY <1>3, <1>4, <1>5, <1>6

LEMMA WorkersFrame ==
  ASSUME OrderInv, TypeOK, RowsStay, UNCHANGED <<handler, pass>>
  PROVE  WorkersHaveRows'
<1>1. \A h \in Handler : handler[h].pc # "idle" => handler[h].ma \in MaGiaodich
  BY DEF TypeOK, HandlerTypeOK
<1>2. \A c \in Pass :
        /\ pass[c].pending \subseteq MaGiaodich
        /\ pass[c].pc \in {"issue", "count", "recount"} => pass[c].ma \in MaGiaodich
  BY DEF TypeOK, CronTypeOK, PassJob
<1>3. QED
  BY <1>1, <1>2 DEF OrderInv, WorkersHaveRows, RowsStay, Exists

(* PVI's own steps ask for nothing and change no row. *)
LEMMA PviKeepsRows ==
  ASSUME OrderInv, TypeOK, PviStep
  PROVE  /\ RowsStay
         /\ \A m \in MaGiaodich : pvi'[m].owner = pvi[m].owner
              /\ (pvi'[m].order = "none" <=> pvi[m].order = "none")
<1>1. RowsStay
  BY DEF PviStep, RowsStay, Exists
<1>2. \A m \in MaGiaodich : pvi'[m].owner = pvi[m].owner
                              /\ (pvi'[m].order = "none" <=> pvi[m].order = "none")
  <2>0. pvi \in [MaGiaodich -> PviOrder]
    BY DEF TypeOK, PviTypeOK
  <2>1. ASSUME NEW n \in MaGiaodich, PviTake(n) \/ PviRefuse(n)
        PROVE  \A m \in MaGiaodich : pvi'[m].owner = pvi[m].owner
                 /\ (pvi'[m].order = "none" <=> pvi[m].order = "none")
    BY <2>0, <2>1 DEF PviTake, PviRefuse, PviOrder
  <2>2. ASSUME NEW n \in MaGiaodich, NEW p \in PolicyNumber, PviIssue(n, p)
        PROVE  \A m \in MaGiaodich : pvi'[m].owner = pvi[m].owner
                 /\ (pvi'[m].order = "none" <=> pvi[m].order = "none")
    BY <2>0, <2>2 DEF PviIssue, PviOrder
  <2>3. QED
    BY <2>1, <2>2 DEF PviStep
<1>3. QED
  BY <1>1, <1>2

LEMMA PviOrderInv ==
  ASSUME OrderInv, TypeOK, PviStep
  PROVE  OrderInv'
<1>1. UNCHANGED <<intake, replies, handler, pass>>
  BY DEF PviStep, intakeVars, issuanceVars, cronVars
<1>2. QED
  BY <1>1, PviKeepsRows, OrdersFrame, WorkersFrame DEF OrderInv

LEMMA TimeKeepsRows ==
  ASSUME OrderInv, TypeOK, TimePasses
  PROVE  RowsStay /\ UNCHANGED pvi
  BY AgeKeepsRows DEF TimePasses, TypeOK

LEMMA TimeOrderInv ==
  ASSUME OrderInv, TypeOK, TimePasses
  PROVE  OrderInv'
<1>1. UNCHANGED <<pvi, intake, replies, handler, pass>>
  BY DEF TimePasses, intakeVars, issuanceVars, cronVars
<1>2. QED
  BY <1>1, TimeKeepsRows, OrdersFrame, WorkersFrame DEF OrderInv

(* After the step, the row handler h works on is one that was there before. *)
HasRow(h) ==
  handler'[h].pc \in {"ask", "update", "answer"} => Exists(handler'[h].ma)

(* A row a handler looked up stays there while the handler waits. *)
LEMMA HandlersKeepRows ==
  ASSUME OrderInv, TypeOK, HandlerStep
  PROVE  /\ RowsStay /\ UNCHANGED <<pvi, intake, replies, pass>>
         /\ \A h \in Handler : HasRow(h)
<1> USE DEF HasRow, HandlerAt, HandlerGoto, HandlerDone
<1>0. /\ TxTypeOK
      /\ handler \in [Handler -> HandlerJob]
      /\ \A h \in Handler :
           /\ handler[h].pc # "idle" => handler[h].ma \in MaGiaodich
           /\ handler[h].pc = "update" => handler[h].policy \in PolicyNumber
           /\ handler[h].pc \in {"ask", "update", "answer"} => Exists(handler[h].ma)
  BY DEF TypeOK, HandlerTypeOK, OrderInv, WorkersHaveRows
<1>s. (UNCHANGED tx) => RowsStay
  BY DEF RowsStay, Exists
<1>1. ASSUME NEW h \in Handler, NEW m \in MaGiaodich, NEW p \in PolicyNumber,
             CallbackArrives(h, m, p)
      PROVE  RowsStay /\ \A g \in Handler : HasRow(g)
  BY <1>0, <1>1, <1>s DEF CallbackArrives, HandlerJob
<1>2. ASSUME NEW h \in Handler, NEW m \in MaGiaodich, NEW a \in Partner,
             PollArrives(h, m, a)
      PROVE  RowsStay /\ \A g \in Handler : HasRow(g)
  BY <1>0, <1>2, <1>s DEF PollArrives, HandlerJob
<1>3. ASSUME NEW h \in Handler, NEW m \in MaGiaodich, PullArrives(h, m)
      PROVE  RowsStay /\ \A g \in Handler : HasRow(g)
  BY <1>0, <1>3, <1>s DEF PullArrives, HandlerJob
<1>4. ASSUME NEW h \in Handler,
             CallbackUnknown(h) \/ CallbackAnswer(h) \/ PolicyNotFound(h)
               \/ AbandonHandler(h)
      PROVE  RowsStay /\ \A g \in Handler : HasRow(g)
  BY <1>0, <1>4, <1>s
  DEF CallbackUnknown, CallbackAnswer, PolicyNotFound, AbandonHandler, IdleHandler,
      HandlerJob
<1>5. ASSUME NEW h \in Handler, CallbackRepeated(h)
      PROVE  RowsStay /\ \A g \in Handler : HasRow(g)
  BY <1>0, <1>5, <1>s DEF CallbackRepeated, AlreadyIssued, Exists, HandlerJob
<1>6. ASSUME NEW h \in Handler, CallbackFound(h) \/ PolicyFound(h)
      PROVE  RowsStay /\ \A g \in Handler : HasRow(g)
  BY <1>0, <1>6, <1>s DEF CallbackFound, PolicyFound, HandlerJob
<1>7. ASSUME NEW h \in Handler, CallbackUpdate(h) \/ PollUpdate(h) \/ PullUpdate(h)
      PROVE  RowsStay /\ \A g \in Handler : HasRow(g)
  <2>1. /\ handler[h].ma \in MaGiaodich /\ Exists(handler[h].ma)
        /\ handler[h].policy \in PolicyNumber
    BY <1>0, <1>7 DEF CallbackUpdate, PollUpdate, PullUpdate
  <2>2. RowsStay
    BY <1>0, <1>7, <2>1, UpdatesKeepRows DEF CallbackUpdate, PollUpdate, PullUpdate
  <2>3. QED
    BY <1>0, <1>7, <2>1, <2>2
    DEF CallbackUpdate, PollUpdate, PullUpdate, IdleHandler, HandlerJob
<1>8. RowsStay /\ \A g \in Handler : HasRow(g)
  BY <1>1, <1>2, <1>3, <1>4, <1>5, <1>6, <1>7
  DEF HandlerStep, HandlerNext, HandlerProgress
<1>9. UNCHANGED <<pvi, intake, replies, pass>>
  BY DEF HandlerStep, HandlerNext, HandlerProgress, intakeVars, cronVars,
         CallbackArrives, PollArrives, PullArrives, CallbackUnknown, CallbackAnswer,
         PolicyNotFound, AbandonHandler, CallbackRepeated, CallbackFound, PolicyFound,
         CallbackUpdate, PollUpdate, PullUpdate
<1>10. QED
  BY <1>8, <1>9

LEMMA HandlerOrderInv ==
  ASSUME OrderInv, TypeOK, HandlerStep
  PROVE  OrderInv'
<1>1. /\ RowsStay /\ UNCHANGED <<pvi, intake, replies, pass>>
      /\ \A h \in Handler : HasRow(h)
  BY HandlersKeepRows
<1>2. \A h \in Handler : handler'[h].pc # "idle" => handler'[h].ma \in MaGiaodich
  BY HandlerTypes DEF HandlerStep, HandlerTypeOK
<1>3. \A c \in Pass :
        /\ pass[c].pending \subseteq MaGiaodich
        /\ pass[c].pc \in {"issue", "count", "recount"} => pass[c].ma \in MaGiaodich
  BY DEF TypeOK, CronTypeOK, PassJob
<1>4. WorkersHaveRows'
  BY <1>1, <1>2, <1>3 DEF OrderInv, WorkersHaveRows, HasRow, RowsStay, Exists
<1>5. QED
  BY <1>1, <1>4, OrdersFrame DEF OrderInv

(* After the step, the rows pass c works on are ones that were there. *)
HasRows(c) ==
  /\ \A m \in pass'[c].pending : m \in MaGiaodich /\ Exists(m)
  /\ pass'[c].pc \in {"issue", "count", "recount"} =>
       pass'[c].ma \in MaGiaodich /\ Exists(pass'[c].ma)

(* A pass works on rows it read; rows are never deleted. *)
LEMMA PassesKeepRows ==
  ASSUME OrderInv, TypeOK, CronStep
  PROVE  /\ RowsStay /\ UNCHANGED <<pvi, intake, replies, handler>>
         /\ \A c \in Pass : HasRows(c)
<1> DEFINE Goal == RowsStay /\ \A c \in Pass : HasRows(c)
<1> USE DEF HasRows
<1>0. /\ TxTypeOK
      /\ pass \in [Pass -> PassJob]
      /\ \A c \in Pass :
           /\ \A m \in pass[c].pending : m \in MaGiaodich /\ Exists(m)
           /\ pass[c].pc \in {"issue", "count", "recount"} =>
                pass[c].ma \in MaGiaodich /\ Exists(pass[c].ma)
           /\ pass[c].pc = "issue" => pass[c].policy \in PolicyNumber
           /\ pass[c].ma \in MaGiaodich => pass[c].seen[pass[c].ma] + 1 \in Nat
  BY DEF TypeOK, CronTypeOK, PassJob, OrderInv, WorkersHaveRows
<1>s. (UNCHANGED tx) => RowsStay
  BY DEF RowsStay, Exists
<1>n. ASSUME NEW c \in Pass, NEW d \in Pass, NextRow(c)
      PROVE  HasRows(d)
  BY <1>0, <1>n DEF NextRow, PassJob
<1>1. ASSUME NEW c \in Pass, NEW s \in Session, StartPass(c, s)
      PROVE  Goal
  BY <1>0, <1>1, <1>s DEF StartPass, PassJob
<1>2. ASSUME NEW c \in Pass, ListPending(c)
      PROVE  Goal
  BY <1>0, <1>2, <1>s DEF ListPending, IsPending, Exists, PassJob
<1>3. ASSUME NEW c \in Pass, NEW m \in MaGiaodich, AskPolicy(c, m) \/ AskPolicyThrows(c, m)
      PROVE  Goal
  BY <1>0, <1>3, <1>s DEF AskPolicy, AskPolicyThrows, PassJob
<1>4. ASSUME NEW c \in Pass, IssueRow(c) \/ IssueRowThrows(c)
      PROVE  Goal
  <2>1. /\ pass[c].ma \in MaGiaodich /\ Exists(pass[c].ma)
        /\ pass[c].policy \in PolicyNumber
    BY <1>0, <1>4 DEF IssueRow, IssueRowThrows, PassAt
  <2>2. RowsStay
    BY <1>0, <1>4, <1>s, <2>1, UpdatesKeepRows DEF IssueRow, IssueRowThrows
  <2>3. CASE IssueRow(c)
    BY <1>n, <2>2, <2>3 DEF IssueRow
  <2>4. CASE IssueRowThrows(c)
    BY <1>0, <2>1, <2>2, <2>4 DEF IssueRowThrows, PassJob
  <2>5. QED
    BY <1>4, <2>3, <2>4
<1>5. ASSUME NEW c \in Pass, CountRow(c) \/ CountRowThrows(c)
      PROVE  Goal
  <2>1. /\ pass[c].ma \in MaGiaodich /\ Exists(pass[c].ma)
        /\ pass[c].seen[pass[c].ma] + 1 \in Nat
    BY <1>0, <1>5 DEF CountRow, CountRowThrows
  <2>2. RowsStay
    BY <1>0, <1>5, <1>s, <2>1, UpdatesKeepRows DEF CountRow, CountRowThrows, CountAttempt
  <2>3. CASE CountRow(c)
    BY <1>n, <2>2, <2>3 DEF CountRow
  <2>4. CASE CountRowThrows(c)
    BY <1>0, <2>1, <2>2, <2>4 DEF CountRowThrows, IdlePass, PassJob
  <2>5. QED
    BY <1>5, <2>3, <2>4
<1>6. ASSUME NEW c \in Pass, EndPass(c)
      PROVE  Goal
  BY <1>0, <1>6, <1>s DEF EndPass, PassJob
<1>7. ASSUME NEW c \in Pass, NEW s \in Session, Unlock(c, s)
      PROVE  Goal
  BY <1>0, <1>7, <1>s DEF Unlock, IdlePass, PassJob
<1>7b. ASSUME NEW c \in Pass, UnlockThrows(c)
       PROVE  Goal
  BY <1>0, <1>7b, <1>s DEF UnlockThrows, IdlePass, PassJob
<1>8. ASSUME CloseIdleSession
      PROVE  Goal
  BY <1>0, <1>8, <1>s DEF CloseIdleSession
<1>9. ASSUME NEW p \in Process, CronCrash(p)
      PROVE  Goal
  BY <1>0, <1>9, <1>s DEF CronCrash, IdlePass
<1>10. Goal
  BY <1>1, <1>2, <1>3, <1>4, <1>5, <1>6, <1>7, <1>7b, <1>8, <1>9
  DEF CronStep, CronNext, PassProgress
<1>11. UNCHANGED <<pvi, intake, replies, handler>>
  BY DEF CronStep, CronNext, PassProgress, intakeVars, issuanceVars, StartPass,
         ListPending, AskPolicy, AskPolicyThrows, IssueRow, IssueRowThrows, CountRow,
         CountRowThrows, EndPass, Unlock, UnlockThrows, CloseIdleSession, CronCrash
<1>12. QED
  BY <1>10, <1>11

LEMMA CronOrderInv ==
  ASSUME OrderInv, TypeOK, CronStep
  PROVE  OrderInv'
<1>1. /\ RowsStay /\ UNCHANGED <<pvi, intake, replies, handler>>
      /\ \A c \in Pass : HasRows(c)
  BY PassesKeepRows
<1>2. \A h \in Handler : handler[h].pc # "idle" => handler[h].ma \in MaGiaodich
  BY DEF TypeOK, HandlerTypeOK
<1>3. WorkersHaveRows'
  BY <1>1, <1>2 DEF OrderInv, WorkersHaveRows, HasRows, RowsStay, Exists
<1>4. QED
  BY <1>1, <1>3, OrdersFrame DEF OrderInv

(* createOrder: the unique index is what keeps OneRowPerOwner, and the     *)
(* INSERT before the send is what keeps SentOrdersHaveRows.                *)
LEMMA IntakeOrderInv ==
  ASSUME OrderInv, TypeOK, IntakeStep
  PROVE  OrderInv'
<1> DEFINE Goal == /\ OneRowPerOwner' /\ ThreadsKnowTheirRow'
                   /\ SentOrdersHaveRows' /\ RepliesNameRows' /\ WorkersHaveRows'
<1> USE DEF At, Goto, Done
<1>0. /\ PviTypeOK /\ TxTypeOK
      /\ pvi \in [MaGiaodich -> PviOrder] /\ tx \in [MaGiaodich -> Row]
      /\ intake \in [Request -> IntakeJob]
      /\ \A r \in Request : intake[r].pc # "idle" =>
           intake[r].owner \in Owner /\ intake[r].ma \in MaGiaodich
      /\ \A a \in replies : a.ma \in MaGiaodich
      /\ OneRowPerOwner /\ ThreadsKnowTheirRow /\ SentOrdersHaveRows
      /\ RepliesNameRows /\ WorkersHaveRows
  BY DEF TypeOK, PviTypeOK, TxTypeOK, IntakeTypeOK, Reply, OrderInv
<1>h. UNCHANGED <<handler, pass>>
  BY DEF IntakeStep, issuanceVars, cronVars
<1>w. ASSUME RowsStay PROVE WorkersHaveRows'
  BY <1>h, <1>w, WorkersFrame
<1>u. ASSUME UNCHANGED <<tx, pvi>>
      PROVE  OneRowPerOwner' /\ SentOrdersHaveRows' /\ WorkersHaveRows'
  BY <1>0, <1>u, <1>h, <1>w
  DEF OneRowPerOwner, SentOrdersHaveRows, RowsStay, Exists
<1>r. ASSUME UNCHANGED <<tx, replies>>
      PROVE  RepliesNameRows'
  BY <1>0, <1>r DEF RepliesNameRows, Exists
<1>m. ASSUME NEW r \in Request, intake' = [intake EXCEPT ![r] = IdleIntake],
             UNCHANGED <<tx, pvi>>
      PROVE  ThreadsKnowTheirRow'
  BY <1>0, <1>m DEF IdleIntake, ThreadsKnowTheirRow, Submitting, Exists
<1>s. (UNCHANGED tx) => RowsStay
  BY DEF RowsStay, Exists
<1>1. ASSUME NEW r \in Request, NEW o \in Owner, NEW m \in MaGiaodich, Arrive(r, o, m)
      PROVE  Goal
  <2>1. ThreadsKnowTheirRow'
    BY <1>0, <1>1 DEF Arrive, ThreadsKnowTheirRow, Submitting, Exists
  <2>2. QED
    BY <1>1, <1>u, <1>r, <2>1 DEF Arrive
<1>2. ASSUME NEW r \in Request, FindReplay(r) \/ FindWinner(r)
      PROVE  Goal
  <2>1. PICK m \in RowsOf(intake[r].owner) : replies' = replies \cup {ToResult(r, m)}
    BY <1>2 DEF FindReplay, FindWinner
  <2>2. RepliesNameRows'
    BY <1>0, <1>2, <2>1
    DEF FindReplay, FindWinner, RepliesNameRows, RowsOf, ToResult, Exists
  <2>3. ThreadsKnowTheirRow'
    BY <1>2, <1>m DEF FindReplay, FindWinner
  <2>4. QED
    BY <1>2, <1>u, <2>2, <2>3 DEF FindReplay, FindWinner
<1>3. ASSUME NEW r \in Request, FindNone(r) \/ InsertConflict(r)
      PROVE  Goal
  <2>1. ThreadsKnowTheirRow'
    BY <1>0, <1>3 DEF FindNone, InsertConflict, ThreadsKnowTheirRow, Submitting,
                      Exists, IntakeJob
  <2>2. QED
    BY <1>3, <1>u, <1>r, <2>1 DEF FindNone, InsertConflict
<1>4. ASSUME NEW r \in Request, InsertRow(r)
      PROVE  Goal
  <2> DEFINE ma == intake[r].ma
             own == intake[r].owner
  <2>1. /\ ma \in MaGiaodich /\ own \in Owner /\ ~Exists(ma) /\ ma \notin Foreign
        /\ intake[r].pc = "insert" /\ RowsOf(own) = {}
        /\ \A q \in Request : intake[q].pc # "idle" /\ intake[q].ma = ma => q = r
        /\ pvi[ma].order = "none"
    BY <1>0, <1>4, NullsAreDistinct
    DEF InsertRow, CanInsert, ThreadsKnowTheirRow, SentOrdersHaveRows, Submitting, PviOrder
  <2>2. /\ \A m \in MaGiaodich \ {ma} : tx'[m] = tx[m]
        /\ tx'[ma].status = "SUBMITTING" /\ tx'[ma].owner = own
    BY <1>0, <1>4, <2>1 DEF InsertRow, Insert, NoRow
  <2>3. OneRowPerOwner'
    BY <1>0, <2>1, <2>2 DEF OneRowPerOwner, RowsOf, Exists
  <2>4. ThreadsKnowTheirRow'
    <3>1. /\ \A q \in Request \ {r} : intake'[q] = intake[q]
          /\ intake'[r].pc = "send" /\ intake'[r].ma = ma /\ intake'[r].owner = own
          /\ UNCHANGED pvi
      BY <1>0, <1>4 DEF InsertRow, IntakeJob
    <3>2. QED
      BY <1>0, <2>1, <2>2, <3>1 DEF ThreadsKnowTheirRow, Submitting, Exists
  <2>5. SentOrdersHaveRows'
    BY <1>0, <1>4, <2>1, <2>2 DEF InsertRow, SentOrdersHaveRows, Exists
  <2>6. RepliesNameRows'
    BY <1>0, <1>4, <2>1, <2>2 DEF InsertRow, RepliesNameRows, Exists
  <2>7. WorkersHaveRows'
    <3>1. \A m \in MaGiaodich : Exists(m) => tx'[m].status # "ABSENT"
      BY <2>2 DEF Exists
    <3>2. \A h \in Handler : handler[h].pc # "idle" => handler[h].ma \in MaGiaodich
      BY DEF TypeOK, HandlerTypeOK
    <3>3. \A c \in Pass :
            /\ pass[c].pending \subseteq MaGiaodich
            /\ pass[c].pc \in {"issue", "count", "recount"} => pass[c].ma \in MaGiaodich
      BY DEF TypeOK, CronTypeOK, PassJob
    <3>4. QED
      BY <1>0, <1>h, <3>1, <3>2, <3>3 DEF WorkersHaveRows, Exists
  <2>8. QED
    BY <2>3, <2>4, <2>5, <2>6, <2>7
<1>5. ASSUME NEW r \in Request, SendOrder(r)
      PROVE  Goal
  <2> DEFINE ma == intake[r].ma
             own == intake[r].owner
  <2>1. /\ ma \in MaGiaodich /\ own \in Owner /\ Exists(ma) /\ ma \notin Foreign
        /\ intake[r].pc = "send" /\ tx[ma].owner = own /\ own # NoOwner
        /\ \A q \in Request : intake[q].pc # "idle" /\ intake[q].ma = ma => q = r
    BY <1>0, <1>5, NullsAreDistinct DEF SendOrder, ThreadsKnowTheirRow, Submitting
  <2>2. /\ \A m \in MaGiaodich \ {ma} : pvi'[m] = pvi[m]
        /\ pvi'[ma].order = "sent" /\ pvi'[ma].owner = own
    BY <1>0, <1>5, <2>1 DEF SendOrder, PviSend, PviOrder
  <2>3. /\ \A q \in Request \ {r} : intake'[q] = intake[q]
        /\ intake'[r].pc = "await" /\ intake'[r].ma = ma /\ intake'[r].owner = own
        /\ UNCHANGED <<tx, replies>>
    BY <1>0, <1>5 DEF SendOrder, IntakeJob
  <2>4. ThreadsKnowTheirRow'
    BY <1>0, <2>1, <2>2, <2>3 DEF ThreadsKnowTheirRow, Submitting, Exists
  <2>5. SentOrdersHaveRows'
    BY <1>0, <2>1, <2>2, <2>3 DEF SentOrdersHaveRows, Exists
  <2>6. OneRowPerOwner' /\ WorkersHaveRows' /\ RepliesNameRows'
    BY <1>0, <1>r, <1>s, <1>w, <2>3 DEF OneRowPerOwner, Exists
  <2>7. QED
    BY <2>4, <2>5, <2>6
<1>6. ASSUME NEW r \in Request, OrderTaken(r) \/ OrderRefused(r) \/ OrderTimeout(r)
      PROVE  Goal
  <2>1. ThreadsKnowTheirRow'
    BY <1>0, <1>6 DEF OrderTaken, OrderRefused, OrderTimeout, ThreadsKnowTheirRow,
                      Submitting, Exists, IntakeJob
  <2>2. QED
    BY <1>6, <1>u, <1>r, <2>1 DEF OrderTaken, OrderRefused, OrderTimeout
<1>7. ASSUME NEW r \in Request,
             RecordSubmitted(r) \/ RecordSubmittedThrows(r) \/ RecordFailed(r)
      PROVE  Goal
  <2>1. intake[r].ma \in MaGiaodich /\ Exists(intake[r].ma)
    BY <1>0, <1>7
    DEF RecordSubmitted, RecordSubmittedThrows, RecordFailed, ThreadsKnowTheirRow, Submitting
  <2>2. RowsStay
    BY <1>0, <1>7, <1>s, <2>1, UpdatesKeepRows
    DEF RecordSubmitted, RecordSubmittedThrows, RecordFailed
  <2>3. UNCHANGED <<pvi, replies>>
    BY <1>7 DEF RecordSubmitted, RecordSubmittedThrows, RecordFailed
  <2>4. ThreadsKnowTheirRow'
    BY <1>0, <1>7, <2>2, <2>3
    DEF RecordSubmitted, RecordSubmittedThrows, RecordFailed, IdleIntake,
        ThreadsKnowTheirRow, Submitting, RowsStay, Exists, IntakeJob
  <2>5. OneRowPerOwner' /\ SentOrdersHaveRows' /\ RepliesNameRows'
    BY <1>0, <2>2, <2>3
    DEF OneRowPerOwner, SentOrdersHaveRows, RepliesNameRows, RowsStay, Exists
  <2>6. QED
    BY <1>w, <2>2, <2>4, <2>5
<1>8. ASSUME NEW r \in Request, ReplyCreated(r)
      PROVE  Goal
  <2>1. intake[r].ma \in MaGiaodich /\ Exists(intake[r].ma)
        /\ tx[intake[r].ma].owner = intake[r].owner
    BY <1>0, <1>8 DEF ReplyCreated, ThreadsKnowTheirRow, Submitting
  <2>2. RepliesNameRows'
    BY <1>0, <1>8, <2>1 DEF ReplyCreated, RepliesNameRows, Exists
  <2>3. ThreadsKnowTheirRow'
    BY <1>8, <1>m DEF ReplyCreated
  <2>4. QED
    BY <1>8, <1>u, <2>2, <2>3 DEF ReplyCreated
<1>9. ASSUME NEW r \in Request, AbandonIntake(r)
      PROVE  Goal
  <2>1. ThreadsKnowTheirRow'
    BY <1>9, <1>m DEF AbandonIntake
  <2>2. QED
    BY <1>9, <1>u, <1>r, <2>1 DEF AbandonIntake
<1>10. QED
  BY <1>1, <1>2, <1>3, <1>4, <1>5, <1>6, <1>7, <1>8, <1>9
  DEF IntakeStep, IntakeNext, IntakeProgress, OrderInv

LEMMA NextOrderInv == TypeOK /\ OrderInv /\ [Next]_vars => OrderInv'
<1> SUFFICES ASSUME TypeOK, OrderInv, [Next]_vars PROVE OrderInv'
  OBVIOUS
<1>1. CASE UNCHANGED vars
  <2>1. RowsStay /\ UNCHANGED <<pvi, intake, replies, handler, pass>>
    BY <1>1 DEF vars, RowsStay, Exists
  <2>2. QED
    BY <2>1, OrdersFrame, WorkersFrame DEF OrderInv
<1>2. CASE Next
  BY <1>2, PviOrderInv, TimeOrderInv, IntakeOrderInv, HandlerOrderInv, CronOrderInv
  DEF Next
<1>3. QED
  BY <1>1, <1>2

(* OrderCorrect.  Threads, rows, PVI's orders and replies stay tied        *)
(* together as OrderInv says, in every reachable state.                    *)
THEOREM OrderCorrect == Spec => []OrderInv
<1>1. TypeOK /\ OrderInv /\ [Next]_vars => OrderInv'
  BY NextOrderInv
<1>2. QED
  BY InitOrder, TypeCorrect, <1>1, PTL DEF Spec

(* AskedOnce.  PVI never holds two orders of one partner and key, however  *)
(* many calls race, time out, are retried or die.                          *)
THEOREM AskedOnce == Spec => []AtMostOncePerKey
<1>1. OrderInv => AtMostOncePerKey
  <2> SUFFICES ASSUME OrderInv, NEW m \in MaGiaodich, NEW n \in MaGiaodich,
                      pvi[m].owner # NoOwner, pvi[m].owner = pvi[n].owner
               PROVE  m = n
    BY DEF AtMostOncePerKey
  <2>1. Exists(m) /\ Exists(n) /\ tx[m].owner = tx[n].owner
    BY DEF OrderInv, SentOrdersHaveRows
  <2>2. QED
    BY <2>1 DEF OrderInv, OneRowPerOwner
<1>2. QED
  BY <1>1, OrderCorrect, PTL

(* A reply's row is there, and is the row of the partner and key it is     *)
(* for.                                                                    *)
LEMMA RepliesHaveRows ==
  ASSUME TypeOK, OrderInv, NEW a \in replies
  PROVE  a.ma \in MaGiaodich /\ Exists(a.ma) /\ tx[a.ma].owner = a.owner
  BY DEF TypeOK, IntakeTypeOK, Reply, OrderInv, RepliesNameRows

(* AnswersAgree.  All replies to one partner and key name one order, in    *)
(* every interleaving of first calls, retries and parallel duplicates.     *)
THEOREM AnswersAgree == Spec => []SameKeySameOrder
<1>1. TypeOK /\ OrderInv => SameKeySameOrder
  BY RepliesHaveRows DEF SameKeySameOrder, OrderInv, OneRowPerOwner
<1>2. QED
  BY <1>1, TypeCorrect, OrderCorrect, PTL

(* OneCallerEach.  No order is named to two callers: replays read the row  *)
(* of the key that asked, and no UPDATE moves a row to another key.        *)
THEOREM OneCallerEach == Spec => []OneOrderOneKey
<1>1. TypeOK /\ OrderInv => OneOrderOneKey
  BY RepliesHaveRows DEF OneOrderOneKey
<1>2. QED
  BY <1>1, TypeCorrect, OrderCorrect, PTL

-----------------------------------------------------------------------------
(* PolicyInv is the inductive invariant behind what rows and answers say   *)
(* of policies: whatever a thread has in hand when it awaits, PVI said.    *)

Taken(m) == pvi[m].order = "taken"

PoliciesAreTaken ==
  \A m \in MaGiaodich :
    /\ pvi[m].issued # {} => Taken(m)
    /\ pvi[m].current # NoPolicy => pvi[m].current \in pvi[m].issued

RowIsEarned(m) ==
  /\ tx[m].prKey \/ tx[m].status \in {"SUBMITTED_OK", "ISSUED", "CALLBACK_TIMEOUT"} => Taken(m)
  /\ tx[m].policyNumber # NoPolicy => tx[m].policyNumber \in pvi[m].issued
  /\ tx[m].status = "ISSUED" => tx[m].policyNumber # NoPolicy
  /\ tx[m].status = "CALLBACK_TIMEOUT" => tx[m].reconcileAttempts >= MaxAttempts
  /\ tx[m].status = "ABSENT" => tx[m].policyNumber = NoPolicy

CallsHoldTaken ==
  \A r \in Request : intake[r].pc \in {"record", "reply"} => Taken(intake[r].ma)

HandlersHoldPolicies ==
  \A h \in Handler :
    /\ handler[h].policy # NoPolicy =>
         handler[h].pc # "idle" /\ handler[h].policy \in pvi[handler[h].ma].issued
    /\ handler[h].pc = "answer" => tx[handler[h].ma].policyNumber # NoPolicy

PassesHoldTaken ==
  \A c \in Pass :
    /\ \A m \in pass[c].pending : Taken(m)
    /\ pass[c].pc \in {"issue", "count", "recount"} => Taken(pass[c].ma)
    /\ pass[c].pc = "issue" => pass[c].policy \in pvi[pass[c].ma].issued

AnswersAreTrue ==
  \A a \in answered :
    /\ a.code = "00" => tx[a.ma].policyNumber # NoPolicy
    /\ a.code = "-404" => a.ma \in Foreign

PolicyInv ==
  /\ PoliciesAreTaken
  /\ \A m \in MaGiaodich : RowIsEarned(m)
  /\ CallsHoldTaken /\ HandlersHoldPolicies /\ PassesHoldTaken
  /\ AnswersAreTrue /\ PrKeyMeansTaken

(* Rows stay earned and keep their policies. *)
RowsStayEarned ==
  \A m \in MaGiaodich :
    /\ RowIsEarned(m)'
    /\ tx[m].policyNumber # NoPolicy => tx'[m].policyNumber # NoPolicy

LEMMA InitPolicy == Init => PolicyInv
<1> SUFFICES ASSUME Init PROVE PolicyInv
  OBVIOUS
<1>1. PoliciesAreTaken /\ \A m \in MaGiaodich : RowIsEarned(m)
  BY DEF Init, PviInit, TxInit, NoRow, PoliciesAreTaken, RowIsEarned
<1>2. CallsHoldTaken /\ HandlersHoldPolicies /\ PassesHoldTaken
  BY DEF Init, IntakeInit, IdleIntake, HandlerInit, IdleHandler, CronInit, IdlePass,
         CallsHoldTaken, HandlersHoldPolicies, PassesHoldTaken
<1>3. AnswersAreTrue /\ PrKeyMeansTaken
  BY DEF Init, IntakeInit, HandlerInit, AnswersAreTrue, PrKeyMeansTaken
<1>4. QED
  BY <1>1, <1>2, <1>3 DEF PolicyInv

(* An UPDATE changes its own row only. *)
LEMMA Updated ==
  ASSUME TxTypeOK, NEW m \in MaGiaodich, NEW row \in Row, Update(m, row)
  PROVE  /\ \A n \in MaGiaodich \ {m} : tx'[n] = tx[n]
         /\ tx'[m].status = row.status /\ tx'[m].prKey = row.prKey
         /\ tx'[m].policyNumber = row.policyNumber
         /\ tx'[m].reconcileAttempts = row.reconcileAttempts
  BY DEF Update, TxTypeOK, Row

LEMMA UpdateEarns ==
  ASSUME TypeOK, UNCHANGED pvi, \A n \in MaGiaodich : RowIsEarned(n), NEW m \in MaGiaodich,
         NEW row \in Row, Update(m, row), row.status # "ABSENT",
         row.prKey \/ row.status \in {"SUBMITTED_OK", "ISSUED", "CALLBACK_TIMEOUT"} => Taken(m),
         \/ row.policyNumber = tx[m].policyNumber
         \/ row.policyNumber \in PolicyNumber /\ row.policyNumber \in pvi[m].issued,
         row.status = "ISSUED" => row.policyNumber # NoPolicy,
         row.status = "CALLBACK_TIMEOUT" => row.reconcileAttempts >= MaxAttempts
  PROVE  RowsStayEarned /\ tx'[m].policyNumber = row.policyNumber
<1>1. /\ \A n \in MaGiaodich \ {m} : tx'[n] = tx[n]
      /\ tx'[m].status = row.status /\ tx'[m].prKey = row.prKey
      /\ tx'[m].policyNumber = row.policyNumber
      /\ tx'[m].reconcileAttempts = row.reconcileAttempts
  BY Updated DEF TypeOK
<1>2. RowIsEarned(m)' /\ (tx[m].policyNumber # NoPolicy => tx'[m].policyNumber # NoPolicy)
  BY <1>1, NullsAreDistinct DEF RowIsEarned, Taken
<1>3. \A n \in MaGiaodich \ {m} : RowIsEarned(n)'
  BY <1>1 DEF RowIsEarned, Taken
<1>4. QED
  BY <1>1, <1>2, <1>3 DEF RowsStayEarned

(* The UPDATEs of the handlers, given what they rely on. *)
LEMMA SetsEarn ==
  ASSUME TypeOK, UNCHANGED pvi, \A n \in MaGiaodich : RowIsEarned(n), NEW m \in MaGiaodich
  PROVE  /\ Taken(m) /\ SetSubmitted(m) => RowsStayEarned
         /\ SetFailed(m) => RowsStayEarned
         /\ Taken(m) => \A p \in PolicyNumber : p \in pvi[m].issued /\
              (SetIssued(m, p) \/ SetReconciled(m, p)) =>
                 RowsStayEarned /\ tx'[m].policyNumber # NoPolicy
         /\ Taken(m) => \A n \in Nat : SetAttempts(m, n) => RowsStayEarned
<1>0. tx[m] \in Row
  BY DEF TypeOK, TxTypeOK
<1>1. ASSUME Taken(m), SetSubmitted(m) PROVE RowsStayEarned
  <2> DEFINE row == [tx[m] EXCEPT !.status = "SUBMITTED_OK", !.prKey = TRUE]
  <2>1. row \in Row /\ row.status = "SUBMITTED_OK" /\ row.policyNumber = tx[m].policyNumber
    BY <1>0 DEF Row, TxStatus
  <2>2. Update(m, row)
    BY <1>1 DEF SetSubmitted
  <2> HIDE DEF row
  <2>3. QED
    BY <1>1, <2>1, <2>2, UpdateEarns
<1>2. ASSUME SetFailed(m) PROVE RowsStayEarned
  <2> DEFINE row == [tx[m] EXCEPT !.status = "SUBMITTED_FAIL"]
  <2>1. row \in Row /\ row.status = "SUBMITTED_FAIL" /\ row.policyNumber = tx[m].policyNumber
        /\ row.prKey = tx[m].prKey
    BY <1>0 DEF Row, TxStatus
  <2>2. Update(m, row)
    BY <1>2 DEF SetFailed
  <2>3. row.prKey => Taken(m)
    BY <2>1 DEF RowIsEarned
  <2> HIDE DEF row
  <2>4. QED
    BY <2>1, <2>2, <2>3, UpdateEarns
<1>3. ASSUME Taken(m), NEW p \in PolicyNumber, p \in pvi[m].issued, SetIssued(m, p)
      PROVE  RowsStayEarned /\ tx'[m].policyNumber # NoPolicy
  <2> DEFINE row == [tx[m] EXCEPT !.status = "ISSUED", !.policyNumber = p]
  <2>1. row \in Row /\ row.status = "ISSUED" /\ row.policyNumber = p
    BY <1>0 DEF Row, TxStatus
  <2>2. Update(m, row)
    BY <1>3 DEF SetIssued
  <2> HIDE DEF row
  <2>3. QED
    BY <1>3, <2>1, <2>2, UpdateEarns, NullsAreDistinct
<1>4. ASSUME Taken(m), NEW p \in PolicyNumber, p \in pvi[m].issued, SetReconciled(m, p)
      PROVE  RowsStayEarned /\ tx'[m].policyNumber # NoPolicy
  <2> DEFINE row(n) == [tx[m] EXCEPT !.status = "ISSUED", !.policyNumber = p,
                                     !.reconcileAttempts = n]
  <2>1. tx[m].reconcileAttempts + 1 \in Nat
    BY <1>0 DEF Row
  <2>2. \A n \in Nat : row(n) \in Row /\ row(n).status = "ISSUED" /\ row(n).policyNumber = p
    BY <1>0 DEF Row, TxStatus
  <2>3. Update(m, row(tx[m].reconcileAttempts + 1))
    BY <1>4 DEF SetReconciled
  <2> HIDE DEF row
  <2>4. QED
    BY <1>4, <2>1, <2>2, <2>3, UpdateEarns, NullsAreDistinct
<1>5. ASSUME Taken(m), NEW n \in Nat, SetAttempts(m, n) PROVE RowsStayEarned
  <2> DEFINE row == [tx[m] EXCEPT !.reconcileAttempts = n, !.status = StatusAfter(n)]
  <2>1. /\ row \in Row /\ row.status = StatusAfter(n) /\ row.reconcileAttempts = n
        /\ row.policyNumber = tx[m].policyNumber
    BY <1>0 DEF Row, TxStatus, StatusAfter
  <2>2. Update(m, row)
    BY <1>5 DEF SetAttempts
  <2>3. /\ StatusAfter(n) \in {"SUBMITTED_OK", "CALLBACK_TIMEOUT"}
        /\ StatusAfter(n) = "CALLBACK_TIMEOUT" => n >= MaxAttempts
    BY DEF StatusAfter
  <2> HIDE DEF row
  <2>4. QED
    BY <1>5, <2>1, <2>2, <2>3, UpdateEarns
<1>6. QED
  BY <1>1, <1>2, <1>3, <1>4, <1>5

(* A policy in hand is one of an order PVI took. *)
LEMMA PolicyInHand ==
  ASSUME TypeOK, PolicyInv, NEW m \in MaGiaodich, NEW p \in pvi[m].issued
  PROVE  Taken(m) /\ p \in PolicyNumber
  BY DEF PolicyInv, PoliciesAreTaken, TypeOK, PviTypeOK, PviOrder

(* What PVI said stays said: orders stay taken, policies issued. *)
PviMovesOn ==
  \A m \in MaGiaodich :
    /\ Taken(m) => Taken(m)' /\ pvi'[m].owner = pvi[m].owner
    /\ pvi[m].issued \subseteq pvi'[m].issued

LEMMA PviStepMovesOn ==
  ASSUME TypeOK, PolicyInv, PviStep
  PROVE  PviMovesOn /\ PoliciesAreTaken'
<1>0. pvi \in [MaGiaodich -> PviOrder] /\ PoliciesAreTaken
  BY DEF TypeOK, PviTypeOK, PolicyInv
<1>1. ASSUME NEW n \in MaGiaodich, PviTake(n)
      PROVE  PviMovesOn /\ PoliciesAreTaken'
  BY <1>0, <1>1 DEF PviTake, PviOrder, PviMovesOn, PoliciesAreTaken, Taken
<1>2. ASSUME NEW n \in MaGiaodich, PviRefuse(n)
      PROVE  PviMovesOn /\ PoliciesAreTaken'
  BY <1>0, <1>2 DEF PviRefuse, PviOrder, PviMovesOn, PoliciesAreTaken, Taken
<1>3. ASSUME NEW n \in MaGiaodich, NEW p \in PolicyNumber, PviIssue(n, p)
      PROVE  PviMovesOn /\ PoliciesAreTaken'
  BY <1>0, <1>3 DEF PviIssue, PviOrder, PviMovesOn, PoliciesAreTaken, Taken
<1>4. QED
  BY <1>1, <1>2, <1>3 DEF PviStep

(* When PVI moves on, all that the rest has in hand stays true. *)
LEMMA PolicyFrame ==
  ASSUME TypeOK, PolicyInv, PviMovesOn, PoliciesAreTaken',
         UNCHANGED <<tx, replies, handler, answered, pass>>, CallsHoldTaken'
  PROVE  PolicyInv'
<1>1. \A m \in MaGiaodich : RowIsEarned(m)'
  BY DEF PolicyInv, RowIsEarned, PviMovesOn
<1>2. HandlersHoldPolicies'
  <2> SUFFICES ASSUME NEW h \in Handler, handler[h].policy # NoPolicy
               PROVE  handler[h].pc # "idle" /\ handler[h].policy \in pvi'[handler[h].ma].issued
    BY DEF PolicyInv, HandlersHoldPolicies
  <2>1. handler[h].pc # "idle" /\ handler[h].policy \in pvi[handler[h].ma].issued
    BY DEF PolicyInv, HandlersHoldPolicies
  <2>2. handler[h].ma \in MaGiaodich
    BY <2>1 DEF TypeOK, HandlerTypeOK
  <2>3. QED
    BY <2>1, <2>2 DEF PviMovesOn
<1>3. PassesHoldTaken'
  <2>1. \A c \in Pass : pass[c].pending \subseteq MaGiaodich
    BY DEF TypeOK, CronTypeOK, PassJob
  <2>2. \A c \in Pass : pass[c].pc \in {"issue", "count", "recount"} => pass[c].ma \in MaGiaodich
    BY DEF TypeOK, CronTypeOK
  <2>3. QED
    BY <2>1, <2>2 DEF PolicyInv, PassesHoldTaken, PviMovesOn
<1>4. AnswersAreTrue' /\ PrKeyMeansTaken'
  <2>1. \A a \in replies : a.ma \in MaGiaodich
    BY DEF TypeOK, IntakeTypeOK, Reply
  <2>2. QED
    BY <2>1 DEF PolicyInv, AnswersAreTrue, PrKeyMeansTaken, PviMovesOn, Taken
<1>5. QED
  BY <1>1, <1>2, <1>3, <1>4 DEF PolicyInv

LEMMA PviPolicyInv ==
  ASSUME TypeOK, PolicyInv, PviStep
  PROVE  PolicyInv'
<1>1. UNCHANGED <<tx, intake, replies, handler, answered, pass>>
  BY DEF PviStep, intakeVars, issuanceVars, cronVars
<1>2. PviMovesOn /\ PoliciesAreTaken'
  BY PviStepMovesOn
<1>3. CallsHoldTaken'
  BY <1>1, <1>2 DEF PolicyInv, CallsHoldTaken, PviMovesOn, TypeOK, IntakeTypeOK
<1>4. QED
  BY <1>1, <1>2, <1>3, PolicyFrame

(* Where PVI stands still, the order of what the parts of PolicyInv need:  *)
(* rows stay earned, and what the other threads have in hand stays real.   *)
LEMMA StillHolds ==
  ASSUME TypeOK, PolicyInv, UNCHANGED pvi, RowsStayEarned
  PROVE  /\ PoliciesAreTaken' /\ \A m \in MaGiaodich : RowIsEarned(m)'
         /\ UNCHANGED intake => CallsHoldTaken'
         /\ UNCHANGED handler => HandlersHoldPolicies'
         /\ UNCHANGED pass => PassesHoldTaken'
         /\ UNCHANGED answered => AnswersAreTrue'
         /\ UNCHANGED replies => PrKeyMeansTaken'
<1>1. PoliciesAreTaken' /\ \A m \in MaGiaodich : RowIsEarned(m)'
  BY DEF PolicyInv, PoliciesAreTaken, RowsStayEarned, Taken
<1>2. UNCHANGED intake => CallsHoldTaken'
  BY DEF PolicyInv, CallsHoldTaken, Taken
<1>3. UNCHANGED handler => HandlersHoldPolicies'
  <2>1. \A h \in Handler : handler[h].pc # "idle" => handler[h].ma \in MaGiaodich
    BY DEF TypeOK, HandlerTypeOK
  <2>2. QED
    BY <2>1 DEF PolicyInv, HandlersHoldPolicies, RowsStayEarned
<1>4. UNCHANGED pass => PassesHoldTaken'
  BY DEF PolicyInv, PassesHoldTaken, Taken
<1>5. UNCHANGED answered => AnswersAreTrue'
  <2>1. \A a \in answered : a.ma \in MaGiaodich
    BY DEF TypeOK, HandlerTypeOK, Answer
  <2>2. QED
    BY <2>1 DEF PolicyInv, AnswersAreTrue, RowsStayEarned
<1>6. UNCHANGED replies => PrKeyMeansTaken'
  BY DEF PolicyInv, PrKeyMeansTaken
<1>7. QED
  BY <1>1, <1>2, <1>3, <1>4, <1>5, <1>6

LEMMA SameRowsEarned ==
  ASSUME PolicyInv, UNCHANGED <<tx, pvi>>
  PROVE  RowsStayEarned
  BY DEF PolicyInv, RowsStayEarned, RowIsEarned, Taken

LEMMA TimePolicyInv ==
  ASSUME TypeOK, PolicyInv, TimePasses
  PROVE  PolicyInv' /\ RowsStayEarned
<1>1. UNCHANGED <<pvi, intake, replies, handler, answered, pass>>
  BY DEF TimePasses, intakeVars, issuanceVars, cronVars
<1>2. RowsStayEarned
  BY <1>1 DEF TimePasses, Age, TypeOK, TxTypeOK, Row, PolicyInv, RowsStayEarned, RowIsEarned,
              Taken
<1>3. QED
  BY <1>1, <1>2, StillHolds DEF PolicyInv

(* Callbacks, polls and pulls. *)
LEMMA HandlerPolicyInv ==
  ASSUME TypeOK, OrderInv, PolicyInv, HandlerStep
  PROVE  PolicyInv' /\ RowsStayEarned
<1> DEFINE Good(h) ==
      /\ handler'[h].policy # NoPolicy =>
           handler'[h].pc # "idle" /\ handler'[h].policy \in pvi[handler'[h].ma].issued
      /\ handler'[h].pc = "answer" => tx'[handler'[h].ma].policyNumber # NoPolicy
    Goal == RowsStayEarned /\ (\A h \in Handler : Good(h)) /\ AnswersAreTrue'
<1> USE DEF HandlerAt, HandlerGoto, HandlerDone
<1>0. /\ handler \in [Handler -> HandlerJob] /\ PoliciesAreTaken
      /\ \A h \in Handler :
           /\ handler[h].pc # "idle" => handler[h].ma \in MaGiaodich
           /\ handler[h].kind = "callback" \/ handler[h].pc = "update" =>
                handler[h].policy \in PolicyNumber
           /\ handler[h].policy # NoPolicy =>
                handler[h].pc # "idle" /\ handler[h].policy \in pvi[handler[h].ma].issued
           /\ handler[h].pc = "answer" => tx[handler[h].ma].policyNumber # NoPolicy
      /\ AnswersAreTrue
  BY DEF TypeOK, HandlerTypeOK, PolicyInv, HandlersHoldPolicies
<1>p. UNCHANGED <<pvi, intake, replies, pass>>
  BY HandlersKeepRows
<1>s. (UNCHANGED tx) => RowsStayEarned
  BY <1>p, SameRowsEarned
<1>a. UNCHANGED answered /\ RowsStayEarned => AnswersAreTrue'
  BY <1>p, StillHolds
<1>n. \A p \in PolicyNumber : p # NoPolicy
  BY NullsAreDistinct
<1>1. ASSUME NEW h \in Handler, NEW m \in MaGiaodich, NEW p \in PolicyNumber,
             CallbackArrives(h, m, p)
      PROVE  Goal
  BY <1>0, <1>1, <1>s, <1>a DEF CallbackArrives, SignatureIsValid, HandlerJob
<1>2. ASSUME NEW h \in Handler, NEW m \in MaGiaodich, NEW a \in Partner,
             PollArrives(h, m, a)
      PROVE  Goal
  BY <1>0, <1>2, <1>s, <1>a DEF PollArrives, HandlerJob
<1>3. ASSUME NEW h \in Handler, NEW m \in MaGiaodich, PullArrives(h, m)
      PROVE  Goal
  BY <1>0, <1>3, <1>s, <1>a DEF PullArrives, HandlerJob
<1>4. ASSUME NEW h \in Handler, PolicyNotFound(h) \/ AbandonHandler(h)
      PROVE  Goal
  BY <1>0, <1>4, <1>s, <1>a DEF PolicyNotFound, AbandonHandler, IdleHandler, HandlerJob
<1>5. ASSUME NEW h \in Handler, CallbackUnknown(h)
      PROVE  Goal
  <2>1. /\ handler[h].ma \in MaGiaodich /\ ~Exists(handler[h].ma)
        /\ handler[h].policy \in pvi[handler[h].ma].issued
    BY <1>0, <1>5, <1>n DEF CallbackUnknown
  <2>2. handler[h].ma \in Foreign
    <3>1. Taken(handler[h].ma)
      BY <1>0, <2>1 DEF PoliciesAreTaken
    <3>2. QED
      BY <2>1, <3>1 DEF OrderInv, SentOrdersHaveRows, Taken
  <2>3. AnswersAreTrue'
    BY <1>0, <1>5, <2>2 DEF CallbackUnknown, Answered, AnswersAreTrue
  <2>4. \A g \in Handler : Good(g)
    BY <1>0, <1>5 DEF CallbackUnknown, IdleHandler
  <2>5. QED
    BY <1>5, <1>s, <2>3, <2>4 DEF CallbackUnknown
<1>6. ASSUME NEW h \in Handler, CallbackRepeated(h)
      PROVE  Goal
  <2>1. handler[h].policy # NoPolicy /\ tx[handler[h].ma].policyNumber = handler[h].policy
    BY <1>0, <1>6, <1>n DEF CallbackRepeated, AlreadyIssued
  <2>2. \A g \in Handler : Good(g)
    BY <1>0, <1>6, <2>1 DEF CallbackRepeated, HandlerJob
  <2>3. QED
    BY <1>6, <1>s, <1>a, <2>2 DEF CallbackRepeated
<1>7. ASSUME NEW h \in Handler, CallbackFound(h)
      PROVE  Goal
  BY <1>0, <1>7, <1>s, <1>a DEF CallbackFound, HandlerJob
<1>8. ASSUME NEW h \in Handler, PolicyFound(h)
      PROVE  Goal
  <2>1. /\ handler[h].ma \in MaGiaodich /\ pvi[handler[h].ma].current # NoPolicy
        /\ UNCHANGED <<tx, answered>>
        /\ handler' = [handler EXCEPT ![h].pc = "update",
                                      ![h].policy = pvi[handler[h].ma].current]
    BY <1>0, <1>8 DEF PolicyFound
  <2>2. pvi[handler[h].ma].current \in pvi[handler[h].ma].issued
    BY <1>0, <2>1 DEF PoliciesAreTaken
  <2>3. \A g \in Handler : Good(g)
    BY <1>0, <2>1, <2>2 DEF HandlerJob
  <2>4. QED
    BY <1>s, <1>a, <2>1, <2>3
<1>9. ASSUME NEW h \in Handler, CallbackUpdate(h) \/ PollUpdate(h) \/ PullUpdate(h)
      PROVE  Goal
  <2> DEFINE ma == handler[h].ma
             p == handler[h].policy
  <2>1. ma \in MaGiaodich /\ p \in PolicyNumber /\ p \in pvi[ma].issued
    BY <1>0, <1>9, <1>n DEF CallbackUpdate, PollUpdate, PullUpdate
  <2>2. SetIssued(ma, p) \/ SetReconciled(ma, p)
    BY <1>9 DEF CallbackUpdate, PollUpdate, PullUpdate
  <2>3. Taken(ma)
    BY <2>1, PolicyInHand
  <2>4. RowsStayEarned /\ tx'[ma].policyNumber # NoPolicy
    BY <1>p, <2>1, <2>2, <2>3, SetsEarn DEF PolicyInv
  <2>5. \A g \in Handler : handler[g].pc = "answer" => tx'[handler[g].ma].policyNumber # NoPolicy
    BY <1>0, <2>4 DEF RowsStayEarned
  <2>6. \A g \in Handler : Good(g)
    <3>1. CASE CallbackUpdate(h)
      BY <1>0, <2>4, <2>5, <3>1 DEF CallbackUpdate, HandlerJob
    <3>2. CASE PollUpdate(h) \/ PullUpdate(h)
      BY <1>0, <2>5, <3>2 DEF PollUpdate, PullUpdate, IdleHandler
    <3>3. QED
      BY <1>9, <3>1, <3>2
  <2>7. UNCHANGED answered
    BY <1>9 DEF CallbackUpdate, PollUpdate, PullUpdate
  <2>8. QED
    BY <1>a, <2>4, <2>6, <2>7
<1>10. ASSUME NEW h \in Handler, CallbackAnswer(h)
       PROVE  Goal
  <2>1. tx[handler[h].ma].policyNumber # NoPolicy
    BY <1>0, <1>10 DEF CallbackAnswer
  <2>2. AnswersAreTrue'
    BY <1>0, <1>10, <2>1 DEF CallbackAnswer, Answered, AnswersAreTrue
  <2>3. \A g \in Handler : Good(g)
    BY <1>0, <1>10 DEF CallbackAnswer, IdleHandler
  <2>4. QED
    BY <1>10, <1>s, <2>2, <2>3 DEF CallbackAnswer
<1>11. Goal
  BY <1>1, <1>2, <1>3, <1>4, <1>5, <1>6, <1>7, <1>8, <1>9, <1>10
  DEF HandlerStep, HandlerNext, HandlerProgress
<1>12. HandlersHoldPolicies'
  BY <1>p, <1>11 DEF HandlersHoldPolicies
<1>13. QED
  BY <1>p, <1>11, <1>12, StillHolds DEF PolicyInv

(* Passes. *)
LEMMA CronPolicyInv ==
  ASSUME TypeOK, OrderInv, PolicyInv, CronStep
  PROVE  PolicyInv' /\ RowsStayEarned
<1> DEFINE Good(c) ==
      /\ \A m \in pass'[c].pending : Taken(m)
      /\ pass'[c].pc \in {"issue", "count", "recount"} => Taken(pass'[c].ma)
      /\ pass'[c].pc = "issue" => pass'[c].policy \in pvi[pass'[c].ma].issued
    Goal == RowsStayEarned /\ \A c \in Pass : Good(c)
<1>0. /\ pass \in [Pass -> PassJob] /\ PoliciesAreTaken
      /\ \A m \in MaGiaodich : RowIsEarned(m)
      /\ \A c \in Pass :
           /\ \A m \in pass[c].pending : Taken(m)
           /\ pass[c].pc \in {"issue", "count", "recount"} =>
                pass[c].ma \in MaGiaodich /\ Taken(pass[c].ma)
           /\ pass[c].pc = "issue" =>
                pass[c].policy \in PolicyNumber /\ pass[c].policy \in pvi[pass[c].ma].issued
           /\ pass[c].ma \in MaGiaodich => pass[c].seen[pass[c].ma] + 1 \in Nat
  BY DEF TypeOK, CronTypeOK, PassJob, PolicyInv, PassesHoldTaken
<1>p. UNCHANGED <<pvi, intake, replies, handler>>
  BY PassesKeepRows
<1>q. UNCHANGED answered
  BY DEF CronStep, issuanceVars
<1>s. (UNCHANGED tx) => RowsStayEarned
  BY <1>p, SameRowsEarned
<1>n. ASSUME NEW c \in Pass, NEW d \in Pass, NextRow(c)
      PROVE  Good(d)
  BY <1>0, <1>n DEF NextRow, PassJob
<1>1. ASSUME NEW c \in Pass, NEW s \in Session, StartPass(c, s)
      PROVE  Goal
  BY <1>0, <1>1, <1>s DEF StartPass, PassJob
<1>2. ASSUME NEW c \in Pass, ListPending(c)
      PROVE  Goal
  <2>1. \A m \in MaGiaodich : IsPending(m) => Taken(m)
    BY <1>0 DEF IsPending, RowIsEarned
  <2>2. QED
    BY <1>0, <1>2, <1>s, <2>1 DEF ListPending, PassJob
<1>3. ASSUME NEW c \in Pass, NEW m \in MaGiaodich, AskPolicy(c, m)
      PROVE  Goal
  <2>1. pvi[m].current # NoPolicy => pvi[m].current \in pvi[m].issued
    BY <1>0 DEF PoliciesAreTaken
  <2>2. m \in pass[c].pending /\ Taken(m) /\ UNCHANGED tx
    BY <1>0, <1>3 DEF AskPolicy
  <2>3. CASE pvi[m].current # NoPolicy
    <3>1. pass' = [pass EXCEPT ![c].pc = "issue", ![c].ma = m, ![c].pending = @ \ {m},
                               ![c].policy = pvi[m].current]
      BY <1>3, <2>3 DEF AskPolicy
    <3>2. QED
      BY <1>0, <1>s, <2>1, <2>2, <2>3, <3>1 DEF PassJob
  <2>4. CASE ~(pvi[m].current # NoPolicy)
    <3>1. pass' = [pass EXCEPT ![c].pc = "count", ![c].ma = m, ![c].pending = @ \ {m}]
      BY <1>3, <2>4 DEF AskPolicy
    <3>2. QED
      BY <1>0, <1>s, <2>2, <3>1 DEF PassJob
  <2>5. QED
    BY <2>3, <2>4
<1>4. ASSUME NEW c \in Pass, NEW m \in MaGiaodich, AskPolicyThrows(c, m)
      PROVE  Goal
  BY <1>0, <1>4, <1>s DEF AskPolicyThrows, PassJob
<1>5. ASSUME NEW c \in Pass, IssueRow(c) \/ IssueRowThrows(c)
      PROVE  Goal
  <2>1. /\ pass[c].ma \in MaGiaodich /\ Taken(pass[c].ma)
        /\ pass[c].policy \in PolicyNumber /\ pass[c].policy \in pvi[pass[c].ma].issued
    BY <1>0, <1>5 DEF IssueRow, IssueRowThrows, PassAt
  <2>2. RowsStayEarned
    BY <1>0, <1>p, <1>5, <1>s, <2>1, SetsEarn DEF IssueRow, IssueRowThrows
  <2>3. CASE IssueRow(c)
    BY <1>n, <2>2, <2>3 DEF IssueRow
  <2>4. CASE IssueRowThrows(c)
    BY <1>0, <2>1, <2>2, <2>4 DEF IssueRowThrows, PassJob
  <2>5. QED
    BY <1>5, <2>3, <2>4
<1>6. ASSUME NEW c \in Pass, CountRow(c) \/ CountRowThrows(c)
      PROVE  Goal
  <2>1. /\ pass[c].ma \in MaGiaodich /\ Taken(pass[c].ma)
        /\ pass[c].seen[pass[c].ma] + 1 \in Nat
    BY <1>0, <1>6 DEF CountRow, CountRowThrows
  <2>2. RowsStayEarned
    BY <1>0, <1>p, <1>6, <1>s, <2>1, SetsEarn DEF CountRow, CountRowThrows, CountAttempt
  <2>3. CASE CountRow(c)
    BY <1>n, <2>2, <2>3 DEF CountRow
  <2>4. CASE CountRowThrows(c)
    BY <1>0, <2>1, <2>2, <2>4 DEF CountRowThrows, IdlePass, PassJob
  <2>5. QED
    BY <1>6, <2>3, <2>4
<1>7. ASSUME NEW c \in Pass, EndPass(c)
      PROVE  Goal
  BY <1>0, <1>7, <1>s DEF EndPass, PassJob
<1>8. ASSUME NEW c \in Pass, NEW s \in Session, Unlock(c, s) \/ UnlockThrows(c)
      PROVE  Goal
  BY <1>0, <1>8, <1>s DEF Unlock, UnlockThrows, IdlePass, PassJob
<1>9. ASSUME NEW c \in Pass, UnlockThrows(c)
      PROVE  Goal
  BY <1>0, <1>9, <1>s DEF UnlockThrows, IdlePass, PassJob
<1>10. ASSUME CloseIdleSession
       PROVE  Goal
  BY <1>0, <1>10, <1>s DEF CloseIdleSession
<1>11. ASSUME NEW p \in Process, CronCrash(p)
       PROVE  Goal
  BY <1>0, <1>11, <1>s DEF CronCrash, IdlePass
<1>12. Goal
  BY <1>1, <1>2, <1>3, <1>4, <1>5, <1>6, <1>7, <1>8, <1>9, <1>10, <1>11
  DEF CronStep, CronNext, PassProgress
<1>13. PassesHoldTaken'
  BY <1>p, <1>12 DEF PassesHoldTaken, Taken
<1>14. QED
  BY <1>p, <1>q, <1>12, <1>13, StillHolds DEF PolicyInv

(* An order PVI took is one of the partner and key of its row. *)
LEMMA TakenIsOwned ==
  ASSUME OrderInv, NEW m \in MaGiaodich, Exists(m), Taken(m)
  PROVE  pvi[m].owner = tx[m].owner
  BY DEF OrderInv, SentOrdersHaveRows, Taken

(* createOrder. *)
LEMMA IntakePolicyInv ==
  ASSUME TypeOK, OrderInv, PolicyInv, IntakeStep
  PROVE  PolicyInv' /\ RowsStayEarned
<1> USE DEF At, Goto, Done
<1>0. /\ pvi \in [MaGiaodich -> PviOrder] /\ tx \in [MaGiaodich -> Row]
      /\ intake \in [Request -> IntakeJob]
      /\ \A r \in Request : intake[r].pc # "idle" =>
           intake[r].owner \in Owner /\ intake[r].ma \in MaGiaodich
      /\ ThreadsKnowTheirRow
      /\ \A m \in MaGiaodich : RowIsEarned(m)
      /\ CallsHoldTaken /\ PrKeyMeansTaken /\ PoliciesAreTaken
  BY DEF TypeOK, PviTypeOK, TxTypeOK, IntakeTypeOK, OrderInv, PolicyInv
<1>h. UNCHANGED <<handler, answered, pass>>
  BY DEF IntakeStep, issuanceVars, cronVars
<1>s. UNCHANGED <<tx, pvi>> => RowsStayEarned
  BY SameRowsEarned
<1>q. ASSUME UNCHANGED pvi, RowsStayEarned, CallsHoldTaken', PrKeyMeansTaken'
      PROVE  PolicyInv' /\ RowsStayEarned
  BY <1>h, <1>q, StillHolds DEF PolicyInv
<1>k. UNCHANGED <<pvi, replies>> => PrKeyMeansTaken'
  BY <1>0 DEF PrKeyMeansTaken
<1>d. ASSUME NEW r \in Request, intake' = [intake EXCEPT ![r] = IdleIntake], UNCHANGED pvi
      PROVE  CallsHoldTaken'
  BY <1>0, <1>d DEF IdleIntake, CallsHoldTaken, Taken
<1>1. ASSUME NEW r \in Request, NEW o \in Owner, NEW m \in MaGiaodich, Arrive(r, o, m)
      PROVE  PolicyInv' /\ RowsStayEarned
  <2>1. CallsHoldTaken'
    BY <1>0, <1>1 DEF Arrive, CallsHoldTaken, Taken
  <2>2. QED
    BY <1>1, <1>s, <1>q, <1>k, <2>1 DEF Arrive
<1>2. ASSUME NEW r \in Request, FindReplay(r) \/ FindWinner(r)
      PROVE  PolicyInv' /\ RowsStayEarned
  <2>1. PICK m \in RowsOf(intake[r].owner) : replies' = replies \cup {ToResult(r, m)}
    BY <1>2 DEF FindReplay, FindWinner
  <2>2. m \in MaGiaodich /\ Exists(m) /\ tx[m].owner = intake[r].owner
    BY DEF RowsOf
  <2>3. tx[m].prKey => Taken(m) /\ pvi[m].owner = intake[r].owner
    BY <1>0, <2>2, TakenIsOwned DEF RowIsEarned
  <2>4. UNCHANGED <<tx, pvi>> /\ CallsHoldTaken'
    BY <1>2, <1>d DEF FindReplay, FindWinner
  <2>5. PrKeyMeansTaken'
    BY <1>0, <2>1, <2>3, <2>4 DEF PrKeyMeansTaken, ToResult, Taken
  <2>6. QED
    BY <1>s, <1>q, <2>4, <2>5
<1>3. ASSUME NEW r \in Request,
             FindNone(r) \/ InsertConflict(r) \/ OrderTaken(r) \/ OrderRefused(r) \/ OrderTimeout(r)
      PROVE  PolicyInv' /\ RowsStayEarned
  <2>1. CallsHoldTaken'
    BY <1>0, <1>3 DEF FindNone, InsertConflict, OrderTaken, OrderRefused, OrderTimeout,
                      CallsHoldTaken, Taken, IntakeJob
  <2>2. QED
    BY <1>3, <1>s, <1>q, <1>k, <2>1
    DEF FindNone, InsertConflict, OrderTaken, OrderRefused, OrderTimeout
<1>4. ASSUME NEW r \in Request, InsertRow(r)
      PROVE  PolicyInv' /\ RowsStayEarned
  <2> DEFINE ma == intake[r].ma
  <2>1. ma \in MaGiaodich /\ ~Exists(ma) /\ UNCHANGED <<pvi, replies>>
    BY <1>0, <1>4 DEF InsertRow, CanInsert
  <2>2. /\ \A m \in MaGiaodich \ {ma} : tx'[m] = tx[m]
        /\ tx'[ma].status = "SUBMITTING" /\ ~tx'[ma].prKey /\ tx'[ma].policyNumber = NoPolicy
    BY <1>0, <1>4, <2>1 DEF InsertRow, Insert, NoRow
  <2>3. RowsStayEarned
    <3>1. tx[ma].policyNumber = NoPolicy
      BY <1>0, <2>1 DEF RowIsEarned, Exists
    <3>2. QED
      BY <1>0, <2>1, <2>2, <3>1 DEF RowsStayEarned, RowIsEarned, Taken
  <2>4. CallsHoldTaken'
    BY <1>0, <1>4, <2>1 DEF InsertRow, CallsHoldTaken, Taken, IntakeJob
  <2>5. QED
    BY <1>q, <1>k, <2>1, <2>3, <2>4
<1>5. ASSUME NEW r \in Request, SendOrder(r)
      PROVE  PolicyInv' /\ RowsStayEarned
  <2> DEFINE ma == intake[r].ma
  <2>1. ma \in MaGiaodich /\ pvi[ma].order = "none"
    BY <1>0, <1>5 DEF SendOrder, ThreadsKnowTheirRow
  <2>2. /\ \A m \in MaGiaodich \ {ma} : pvi'[m] = pvi[m]
        /\ pvi'[ma].issued = pvi[ma].issued /\ pvi'[ma].current = pvi[ma].current
    BY <1>0, <1>5, <2>1 DEF SendOrder, PviSend, PviOrder
  <2>3. pvi[ma].issued = {} /\ ~Taken(ma)
    BY <1>0, <2>1 DEF PoliciesAreTaken, Taken
  <2>4. PviMovesOn /\ PoliciesAreTaken'
    BY <1>0, <2>1, <2>2, <2>3 DEF PviMovesOn, PoliciesAreTaken, Taken
  <2>5. CallsHoldTaken'
    BY <1>0, <1>5, <2>4 DEF SendOrder, CallsHoldTaken, PviMovesOn, IntakeJob
  <2>6. PolicyInv' /\ UNCHANGED tx
    BY <1>5, <1>h, <2>4, <2>5, PolicyFrame DEF SendOrder
  <2>7. QED
    BY <2>6 DEF PolicyInv, RowsStayEarned
<1>6. ASSUME NEW r \in Request, RecordSubmitted(r) \/ RecordSubmittedThrows(r)
      PROVE  PolicyInv' /\ RowsStayEarned
  <2>1. /\ intake[r].ma \in MaGiaodich /\ Taken(intake[r].ma) /\ UNCHANGED <<pvi, replies>>
        /\ SetSubmitted(intake[r].ma) \/ UNCHANGED tx
    BY <1>0, <1>6 DEF RecordSubmitted, RecordSubmittedThrows, CallsHoldTaken
  <2>2. RowsStayEarned
    BY <1>0, <1>s, <2>1, SetsEarn
  <2>3. CallsHoldTaken'
    BY <1>0, <1>6, <2>1
    DEF RecordSubmitted, RecordSubmittedThrows, CallsHoldTaken, Taken, IntakeJob
  <2>4. QED
    BY <1>q, <1>k, <2>1, <2>2, <2>3
<1>7. ASSUME NEW r \in Request, RecordFailed(r)
      PROVE  PolicyInv' /\ RowsStayEarned
  <2>1. intake[r].ma \in MaGiaodich /\ SetFailed(intake[r].ma) /\ UNCHANGED <<pvi, replies>>
    BY <1>0, <1>7 DEF RecordFailed
  <2>2. RowsStayEarned
    BY <1>0, <2>1, SetsEarn
  <2>3. CallsHoldTaken'
    BY <1>7, <1>d, <2>1 DEF RecordFailed
  <2>4. QED
    BY <1>q, <1>k, <2>1, <2>2, <2>3
<1>8. ASSUME NEW r \in Request, ReplyCreated(r)
      PROVE  PolicyInv' /\ RowsStayEarned
  <2>1. /\ intake[r].ma \in MaGiaodich /\ Exists(intake[r].ma) /\ Taken(intake[r].ma)
        /\ tx[intake[r].ma].owner = intake[r].owner
    BY <1>0, <1>8 DEF ReplyCreated, ThreadsKnowTheirRow, Submitting, CallsHoldTaken
  <2>2. pvi[intake[r].ma].owner = intake[r].owner
    BY <2>1, TakenIsOwned
  <2>3. PrKeyMeansTaken'
    BY <1>0, <1>8, <2>1, <2>2 DEF ReplyCreated, PrKeyMeansTaken, Taken
  <2>4. CallsHoldTaken'
    BY <1>8, <1>d DEF ReplyCreated
  <2>5. QED
    BY <1>8, <1>s, <1>q, <2>3, <2>4 DEF ReplyCreated
<1>9. ASSUME NEW r \in Request, AbandonIntake(r)
      PROVE  PolicyInv' /\ RowsStayEarned
  BY <1>9, <1>s, <1>q, <1>k, <1>d DEF AbandonIntake
<1>10. QED
  BY <1>1, <1>2, <1>3, <1>4, <1>5, <1>6, <1>7, <1>8, <1>9
  DEF IntakeStep, IntakeNext, IntakeProgress

LEMMA NextPolicyInv ==
  TypeOK /\ OrderInv /\ PolicyInv /\ [Next]_vars => PolicyInv' /\ RowsStayEarned
<1> SUFFICES ASSUME TypeOK, OrderInv, PolicyInv, [Next]_vars
             PROVE  PolicyInv' /\ RowsStayEarned
  OBVIOUS
<1>1. CASE UNCHANGED vars
  BY <1>1, SameRowsEarned, StillHolds DEF vars, PolicyInv
<1>2. CASE PviStep
  <2>1. PolicyInv' /\ UNCHANGED tx
    BY <1>2, PviPolicyInv DEF PviStep
  <2>2. QED
    BY <2>1 DEF PolicyInv, RowsStayEarned
<1>3. CASE Next /\ ~PviStep
  BY <1>3, TimePolicyInv, IntakePolicyInv, HandlerPolicyInv, CronPolicyInv DEF Next
<1>4. QED
  BY <1>1, <1>2, <1>3

(* PolicyCorrect.  Whatever a thread, a row or an answer says of a policy, *)
(* PVI said of that order, in every reachable state.                       *)
THEOREM PolicyCorrect == Spec => []PolicyInv
<1>1. TypeOK /\ OrderInv /\ PolicyInv /\ [Next]_vars => PolicyInv'
  BY NextPolicyInv
<1>2. QED
  BY InitPolicy, TypeCorrect, OrderCorrect, <1>1, PTL DEF Spec

(* PoliciesAreReal.  However callbacks, polls, pulls and passes interleave, *)
(* rows carry policies PVI issued for them, and ISSUED rows carry one.     *)
THEOREM PoliciesAreReal == Spec => []RecordedPolicyIsReal
<1>1. PolicyInv => RecordedPolicyIsReal
  BY DEF PolicyInv, RowIsEarned, RecordedPolicyIsReal
<1>2. QED
  BY <1>1, PolicyCorrect, PTL

(* NoPolicyIsLost.  No handler, however late, takes a policy off a row.    *)
THEOREM NoPolicyIsLost == Spec => PolicyNeverErased
<1>1. TypeOK /\ OrderInv /\ PolicyInv /\ [Next]_vars =>
        [\A m \in MaGiaodich :
           tx[m].policyNumber # NoPolicy => tx'[m].policyNumber # NoPolicy]_tx
  BY NextPolicyInv DEF RowsStayEarned
<1>2. QED
  BY <1>1, TypeCorrect, OrderCorrect, PolicyCorrect, PTL DEF Spec, PolicyNeverErased

(* StatusesAreEarned.  No timeout, retry, crash or late write makes up a   *)
(* status: PVI took the order, for the partner and key of the row.         *)
THEOREM StatusesAreEarned == Spec => []StatusIsEarned
<1>1. OrderInv /\ PolicyInv => StatusIsEarned
  BY TakenIsOwned DEF PolicyInv, RowIsEarned, StatusIsEarned, Exists, Taken
<1>2. QED
  BY <1>1, OrderCorrect, PolicyCorrect, PTL

(* GivenUpIsEarned.  Copies of the counter, however stale, give no row up  *)
(* before the configured number of attempts stands in it.                  *)
THEOREM GivenUpIsEarned == Spec => []TimeoutIsEarned
<1>1. PolicyInv => TimeoutIsEarned
  BY DEF PolicyInv, RowIsEarned, TimeoutIsEarned
<1>2. QED
  BY <1>1, PolicyCorrect, PTL

(* AnswersNameOrders.  An answer is of an order the gateway may draw.      *)
LEMMA AnswersNameOrders ==
  ASSUME TypeOK
  PROVE  \A a \in answered : a.ma \in MaGiaodich
  BY DEF TypeOK, HandlerTypeOK, Answer

(* CallbacksFindOrders.  A callback is turned away as unknown only if its  *)
(* order is not of this deployment: rows are stored before PVI is asked.   *)
THEOREM CallbacksFindOrders == Spec => []CallbackFindsItsOrder
<1>1. PolicyInv => CallbackFindsItsOrder
  BY DEF PolicyInv, AnswersAreTrue, CallbackFindsItsOrder
<1>2. QED
  BY <1>1, PolicyCorrect, PTL

(* AcksAreKept.  "00", which ends PVI's retries, means that the row keeps  *)
(* a policy PVI issued for it, whatever handlers write after.              *)
THEOREM AcksAreKept == Spec => []AckedPolicyIsKept
<1>1. TypeOK /\ PolicyInv => AckedPolicyIsKept
  BY AnswersNameOrders DEF PolicyInv, AnswersAreTrue, RowIsEarned, AckedPolicyIsKept
<1>2. QED
  BY <1>1, TypeCorrect, PolicyCorrect, PTL

(* LinksAreReal.  A reply with a payment link names an order PVI took for  *)
(* the partner and key that asked.                                         *)
THEOREM LinksAreReal == Spec => []PrKeyMeansTaken
<1>1. PolicyInv => PrKeyMeansTaken
  BY DEF PolicyInv
<1>2. QED
  BY <1>1, PolicyCorrect, PTL

-----------------------------------------------------------------------------
(* LinkInv is the inductive invariant behind PendingKeepsAttempts, where   *)
(* customers pay first: until the link is stored PVI issues nothing and no *)
(* pass sees the row, so the call that stores it finds no attempt counted. *)

UnlinkedHasNoPolicy ==
  \A m \in MaGiaodich \ Foreign : ~tx[m].prKey => pvi[m].issued = {}

RowIsLinked(m) ==
  /\ ~tx[m].prKey => tx[m].reconcileAttempts = 0 /\ tx[m].status # "SUBMITTED_OK"
  /\ tx[m].status = "SUBMITTED_OK" => tx[m].reconcileAttempts < MaxAttempts
  /\ tx[m].status = "ABSENT" => ~tx[m].prKey

CallsAwaitTheLink ==
  \A r \in Request :
    intake[r].pc \in {"send", "await", "record"} => ~tx[intake[r].ma].prKey

PassesHoldLinked ==
  \A c \in Pass :
    /\ \A m \in pass[c].pending : tx[m].prKey
    /\ pass[c].pc \in {"issue", "count", "recount"} => tx[pass[c].ma].prKey

LinkInv ==
  /\ UnlinkedHasNoPolicy
  /\ \A m \in MaGiaodich : RowIsLinked(m)
  /\ CallsAwaitTheLink /\ PassesHoldLinked

(* What every thread but createOrder's does to rows. *)
LinksStay ==
  \A m \in MaGiaodich : tx'[m].prKey = tx[m].prKey /\ RowIsLinked(m)'

LEMMA InitLink == Init => LinkInv
  BY DEF Init, PviInit, TxInit, NoRow, IntakeInit, IdleIntake, CronInit, IdlePass, LinkInv,
         UnlinkedHasNoPolicy, RowIsLinked, CallsAwaitTheLink, PassesHoldLinked

LEMMA UpdateKeepsLinks ==
  ASSUME TypeOK, \A n \in MaGiaodich : RowIsLinked(n), NEW m \in MaGiaodich,
         NEW row \in Row, Update(m, row), row.prKey = tx[m].prKey, row.status # "ABSENT",
         \/ row.prKey
         \/ row.reconcileAttempts = tx[m].reconcileAttempts /\ row.status # "SUBMITTED_OK",
         row.status = "SUBMITTED_OK" => row.reconcileAttempts < MaxAttempts
  PROVE  LinksStay
<1>1. /\ \A n \in MaGiaodich \ {m} : tx'[n] = tx[n]
      /\ tx'[m].status = row.status /\ tx'[m].prKey = row.prKey
      /\ tx'[m].reconcileAttempts = row.reconcileAttempts
  BY Updated DEF TypeOK
<1>2. RowIsLinked(m)'
  BY <1>1 DEF RowIsLinked
<1>3. QED
  BY <1>1, <1>2 DEF LinksStay, RowIsLinked

(* The UPDATEs of all threads but the one that stores the link. *)
LEMMA SetsKeepLinks ==
  ASSUME TypeOK, \A n \in MaGiaodich : RowIsLinked(n), NEW m \in MaGiaodich
  PROVE  /\ SetFailed(m) => LinksStay
         /\ tx[m].prKey => \A p \in PolicyNumber :
              SetIssued(m, p) \/ SetReconciled(m, p) => LinksStay
         /\ tx[m].prKey => \A n \in Nat : SetAttempts(m, n) => LinksStay
<1>0. tx[m] \in Row
  BY DEF TypeOK, TxTypeOK
<1>1. ASSUME SetFailed(m) PROVE LinksStay
  <2> DEFINE row == [tx[m] EXCEPT !.status = "SUBMITTED_FAIL"]
  <2>1. /\ row \in Row /\ row.status = "SUBMITTED_FAIL" /\ row.prKey = tx[m].prKey
        /\ row.reconcileAttempts = tx[m].reconcileAttempts
    BY <1>0 DEF Row, TxStatus
  <2>2. Update(m, row)
    BY <1>1 DEF SetFailed
  <2> HIDE DEF row
  <2>3. QED
    BY <2>1, <2>2, UpdateKeepsLinks
<1>2. ASSUME tx[m].prKey, NEW p \in PolicyNumber, SetIssued(m, p) PROVE LinksStay
  <2> DEFINE row == [tx[m] EXCEPT !.status = "ISSUED", !.policyNumber = p]
  <2>1. row \in Row /\ row.status = "ISSUED" /\ row.prKey = tx[m].prKey
    BY <1>0 DEF Row, TxStatus
  <2>2. Update(m, row)
    BY <1>2 DEF SetIssued
  <2> HIDE DEF row
  <2>3. QED
    BY <1>2, <2>1, <2>2, UpdateKeepsLinks
<1>3. ASSUME tx[m].prKey, NEW p \in PolicyNumber, SetReconciled(m, p) PROVE LinksStay
  <2> DEFINE row(n) == [tx[m] EXCEPT !.status = "ISSUED", !.policyNumber = p,
                                     !.reconcileAttempts = n]
  <2>1. tx[m].reconcileAttempts + 1 \in Nat
    BY <1>0 DEF Row
  <2>2. \A n \in Nat : row(n) \in Row /\ row(n).status = "ISSUED" /\ row(n).prKey = tx[m].prKey
    BY <1>0 DEF Row, TxStatus
  <2>3. Update(m, row(tx[m].reconcileAttempts + 1))
    BY <1>3 DEF SetReconciled
  <2> HIDE DEF row
  <2>4. QED
    BY <1>3, <2>1, <2>2, <2>3, UpdateKeepsLinks
<1>4. ASSUME tx[m].prKey, NEW n \in Nat, SetAttempts(m, n) PROVE LinksStay
  <2> DEFINE row == [tx[m] EXCEPT !.reconcileAttempts = n, !.status = StatusAfter(n)]
  <2>1. /\ row \in Row /\ row.status = StatusAfter(n) /\ row.reconcileAttempts = n
        /\ row.prKey = tx[m].prKey
    BY <1>0 DEF Row, TxStatus, StatusAfter
  <2>2. Update(m, row)
    BY <1>4 DEF SetAttempts
  <2>3. /\ StatusAfter(n) # "ABSENT"
        /\ StatusAfter(n) = "SUBMITTED_OK" => n < MaxAttempts
    BY AttemptsAssumption DEF StatusAfter
  <2> HIDE DEF row
  <2>4. QED
    BY <1>4, <2>1, <2>2, <2>3, UpdateKeepsLinks
<1>5. QED
  BY <1>1, <1>2, <1>3, <1>4

(* A policy in hand for a row of this deployment is one of a stored link. *)
LEMMA PolicyMeansLink ==
  ASSUME OrderInv, LinkInv, NEW m \in MaGiaodich, Exists(m), pvi[m].issued # {}
  PROVE  tx[m].prKey
  BY DEF OrderInv, SentOrdersHaveRows, LinkInv, UnlinkedHasNoPolicy

LEMMA LinkFrame ==
  ASSUME TypeOK, LinkInv, LinksStay, UNCHANGED <<pvi, intake>>, PassesHoldLinked'
  PROVE  LinkInv'
<1>1. UnlinkedHasNoPolicy'
  BY DEF LinkInv, LinksStay, UnlinkedHasNoPolicy
<1>2. CallsAwaitTheLink'
  BY DEF LinkInv, LinksStay, CallsAwaitTheLink, TypeOK, IntakeTypeOK
<1>3. QED
  BY <1>1, <1>2 DEF LinkInv, LinksStay

LEMMA PassesStayLinked ==
  ASSUME TypeOK, LinkInv, UNCHANGED pass,
         \A m \in MaGiaodich : tx[m].prKey => tx'[m].prKey
  PROVE  PassesHoldLinked'
<1>1. \A c \in Pass : pass[c].pending \subseteq MaGiaodich
  BY DEF TypeOK, CronTypeOK, PassJob
<1>2. \A c \in Pass : pass[c].pc \in {"issue", "count", "recount"} => pass[c].ma \in MaGiaodich
  BY DEF TypeOK, CronTypeOK
<1>3. QED
  BY <1>1, <1>2 DEF LinkInv, PassesHoldLinked

LEMMA SameRowsLinked ==
  ASSUME LinkInv, UNCHANGED tx
  PROVE  LinksStay
  BY DEF LinkInv, LinksStay, RowIsLinked

(* PVI, where customers pay first. *)
LEMMA PviLinkInv ==
  ASSUME PayFirst, TypeOK, LinkInv, PviStep
  PROVE  LinkInv'
<1>0. pvi \in [MaGiaodich -> PviOrder] /\ UnlinkedHasNoPolicy
  BY DEF TypeOK, PviTypeOK, LinkInv
<1>1. UNCHANGED <<tx, intake, pass>>
  BY DEF PviStep, intakeVars, cronVars
<1>2. ASSUME NEW n \in MaGiaodich, PviTake(n) \/ PviRefuse(n) PROVE UnlinkedHasNoPolicy'
  BY <1>0, <1>1, <1>2 DEF PviTake, PviRefuse, PviOrder, UnlinkedHasNoPolicy
<1>3. ASSUME NEW n \in MaGiaodich, NEW p \in PolicyNumber, LinkIsOut(n), PviIssue(n, p)
      PROVE  UnlinkedHasNoPolicy'
  BY <1>0, <1>1, <1>3 DEF PviIssue, PviOrder, UnlinkedHasNoPolicy, LinkIsOut
<1>4. UnlinkedHasNoPolicy'
  BY <1>2, <1>3 DEF PviStep
<1>5. QED
  BY <1>1, <1>4 DEF LinkInv, RowIsLinked, CallsAwaitTheLink, PassesHoldLinked

LEMMA TimeLinkInv ==
  ASSUME TypeOK, LinkInv, TimePasses
  PROVE  LinkInv'
<1>1. UNCHANGED <<pvi, intake, pass>>
  BY DEF TimePasses, intakeVars, cronVars
<1>2. LinksStay
  BY DEF TimePasses, Age, TypeOK, TxTypeOK, Row, LinkInv, LinksStay, RowIsLinked
<1>3. PassesHoldLinked'
  BY <1>1, <1>2, PassesStayLinked DEF LinksStay
<1>4. QED
  BY <1>1, <1>2, <1>3, LinkFrame

LEMMA HandlerLinkInv ==
  ASSUME TypeOK, OrderInv, PolicyInv, LinkInv, HandlerStep
  PROVE  LinkInv'
<1>1. UNCHANGED <<pvi, intake, pass>>
  BY HandlersKeepRows
<1>2. ASSUME NEW h \in Handler, CallbackUpdate(h) \/ PollUpdate(h) \/ PullUpdate(h)
      PROVE  LinksStay
  <2> DEFINE ma == handler[h].ma
             p == handler[h].policy
  <2>1. handler[h].pc = "update" /\ (SetIssued(ma, p) \/ SetReconciled(ma, p))
    BY <1>2 DEF CallbackUpdate, PollUpdate, PullUpdate, HandlerAt
  <2>2. ma \in MaGiaodich /\ p \in PolicyNumber
    BY <2>1 DEF TypeOK, HandlerTypeOK
  <2>3. p \in pvi[ma].issued
    BY <2>2, NullsAreDistinct DEF PolicyInv, HandlersHoldPolicies
  <2>4. Exists(ma)
    BY <2>1 DEF SetIssued, SetReconciled, Update
  <2>5. tx[ma].prKey
    BY <2>2, <2>3, <2>4, PolicyMeansLink
  <2>6. QED
    BY <2>1, <2>2, <2>5, SetsKeepLinks DEF LinkInv
<1>3. (UNCHANGED tx) => LinksStay
  BY SameRowsLinked
<1>4. LinksStay
  BY <1>2, <1>3
  DEF HandlerStep, HandlerNext, HandlerProgress, CallbackArrives, PollArrives, PullArrives,
      CallbackUnknown, CallbackRepeated, CallbackFound, CallbackAnswer, PolicyFound,
      PolicyNotFound, AbandonHandler
<1>5. PassesHoldLinked'
  BY <1>1, <1>4, PassesStayLinked DEF LinksStay
<1>6. QED
  BY <1>1, <1>4, <1>5, LinkFrame

LEMMA CronLinkInv ==
  ASSUME TypeOK, OrderInv, PolicyInv, LinkInv, CronStep
  PROVE  LinkInv'
<1> DEFINE Good(c) ==
      /\ \A m \in pass'[c].pending : m \in MaGiaodich /\ tx[m].prKey
      /\ pass'[c].pc \in {"issue", "count", "recount"} =>
           pass'[c].ma \in MaGiaodich /\ tx[pass'[c].ma].prKey
    Goal == LinksStay /\ \A c \in Pass : Good(c)
<1>0. /\ pass \in [Pass -> PassJob]
      /\ \A m \in MaGiaodich : RowIsLinked(m)
      /\ \A c \in Pass :
           /\ \A m \in pass[c].pending : m \in MaGiaodich /\ tx[m].prKey
           /\ pass[c].pc \in {"issue", "count", "recount"} =>
                pass[c].ma \in MaGiaodich /\ tx[pass[c].ma].prKey
           /\ pass[c].pc = "issue" => pass[c].policy \in PolicyNumber
           /\ pass[c].ma \in MaGiaodich => pass[c].seen[pass[c].ma] + 1 \in Nat
  BY DEF TypeOK, CronTypeOK, PassJob, LinkInv, PassesHoldLinked
<1>p. UNCHANGED <<pvi, intake>>
  BY PassesKeepRows
<1>s. (UNCHANGED tx) => LinksStay
  BY SameRowsLinked
<1>n. ASSUME NEW c \in Pass, NEW d \in Pass, NextRow(c)
      PROVE  Good(d)
  BY <1>0, <1>n DEF NextRow, PassJob
<1>1. ASSUME NEW c \in Pass, NEW s \in Session,
             StartPass(c, s) \/ Unlock(c, s)
      PROVE  Goal
  <2>1. CASE StartPass(c, s)
    BY <1>0, <1>s, <2>1 DEF StartPass, PassJob
  <2>2. CASE Unlock(c, s)
    BY <1>0, <1>s, <2>2 DEF Unlock, IdlePass, PassJob
  <2>3. QED
    BY <1>1, <2>1, <2>2
<1>2. ASSUME NEW c \in Pass, ListPending(c)
      PROVE  Goal
  <2>1. \A m \in MaGiaodich : IsPending(m) => tx[m].prKey
    BY <1>0 DEF IsPending, RowIsLinked
  <2>2. QED
    BY <1>0, <1>2, <1>s, <2>1 DEF ListPending, PassJob
<1>3. ASSUME NEW c \in Pass, NEW m \in MaGiaodich, AskPolicy(c, m) \/ AskPolicyThrows(c, m)
      PROVE  Goal
  BY <1>0, <1>3, <1>s DEF AskPolicy, AskPolicyThrows, PassJob
<1>4. ASSUME NEW c \in Pass, IssueRow(c) \/ IssueRowThrows(c)
      PROVE  Goal
  <2>1. /\ pass[c].ma \in MaGiaodich /\ tx[pass[c].ma].prKey /\ pass[c].policy \in PolicyNumber
    BY <1>0, <1>4 DEF IssueRow, IssueRowThrows, PassAt
  <2>2. LinksStay
    BY <1>0, <1>4, <1>s, <2>1, SetsKeepLinks DEF IssueRow, IssueRowThrows
  <2>3. CASE IssueRow(c)
    BY <1>n, <2>2, <2>3 DEF IssueRow
  <2>4. CASE IssueRowThrows(c)
    BY <1>0, <2>1, <2>2, <2>4 DEF IssueRowThrows, PassJob
  <2>5. QED
    BY <1>4, <2>3, <2>4
<1>5. ASSUME NEW c \in Pass, CountRow(c) \/ CountRowThrows(c)
      PROVE  Goal
  <2>1. /\ pass[c].ma \in MaGiaodich /\ tx[pass[c].ma].prKey
        /\ pass[c].seen[pass[c].ma] + 1 \in Nat
    BY <1>0, <1>5 DEF CountRow, CountRowThrows
  <2>2. LinksStay
    BY <1>0, <1>5, <1>s, <2>1, SetsKeepLinks DEF CountRow, CountRowThrows, CountAttempt
  <2>3. CASE CountRow(c)
    BY <1>n, <2>2, <2>3 DEF CountRow
  <2>4. CASE CountRowThrows(c)
    BY <1>0, <2>1, <2>2, <2>4 DEF CountRowThrows, IdlePass, PassJob
  <2>5. QED
    BY <1>5, <2>3, <2>4
<1>6. ASSUME NEW c \in Pass, EndPass(c) \/ UnlockThrows(c)
      PROVE  Goal
  BY <1>0, <1>6, <1>s DEF EndPass, UnlockThrows, IdlePass, PassJob
<1>7. ASSUME CloseIdleSession
      PROVE  Goal
  BY <1>0, <1>7, <1>s DEF CloseIdleSession
<1>8. ASSUME NEW p \in Process, CronCrash(p)
      PROVE  Goal
  BY <1>0, <1>8, <1>s DEF CronCrash, IdlePass
<1>9. Goal
  BY <1>1, <1>2, <1>3, <1>4, <1>5, <1>6, <1>7, <1>8 DEF CronStep, CronNext, PassProgress
<1>10. PassesHoldLinked'
  BY <1>9 DEF PassesHoldLinked, LinksStay
<1>11. QED
  BY <1>p, <1>9, <1>10, LinkFrame

(* createOrder: the one thread of an order stores its link, once. *)
LEMMA IntakeLinkInv ==
  ASSUME TypeOK, OrderInv, LinkInv, IntakeStep
  PROVE  LinkInv'
<1> USE DEF At, Goto, Done
<1>0. /\ pvi \in [MaGiaodich -> PviOrder] /\ tx \in [MaGiaodich -> Row]
      /\ intake \in [Request -> IntakeJob]
      /\ \A r \in Request : intake[r].pc # "idle" => intake[r].ma \in MaGiaodich
      /\ \A r, q \in Request :
           intake[r].pc # "idle" /\ intake[q].pc # "idle" /\ intake[q].ma = intake[r].ma => q = r
      /\ \A m \in MaGiaodich : RowIsLinked(m)
      /\ CallsAwaitTheLink /\ UnlinkedHasNoPolicy
  BY DEF TypeOK, PviTypeOK, TxTypeOK, IntakeTypeOK, OrderInv, ThreadsKnowTheirRow, LinkInv
<1>p. UNCHANGED pass
  BY DEF IntakeStep, cronVars
<1>s. ASSUME LinksStay, UNCHANGED pvi, CallsAwaitTheLink' PROVE LinkInv'
  <2>1. PassesHoldLinked'
    BY <1>p, <1>s, PassesStayLinked DEF LinksStay
  <2>2. UnlinkedHasNoPolicy'
    BY <1>0, <1>s DEF UnlinkedHasNoPolicy, LinksStay
  <2>3. QED
    BY <1>s, <2>1, <2>2 DEF LinkInv, LinksStay
<1>d. ASSUME NEW r \in Request, intake' = [intake EXCEPT ![r] = IdleIntake], LinksStay
      PROVE  CallsAwaitTheLink'
  BY <1>0, <1>d DEF IdleIntake, CallsAwaitTheLink, LinksStay
<1>1. ASSUME NEW r \in Request, NEW o \in Owner, NEW m \in MaGiaodich, Arrive(r, o, m)
      PROVE  LinkInv'
  <2>1. LinksStay /\ CallsAwaitTheLink'
    BY <1>0, <1>1, SameRowsLinked DEF Arrive, CallsAwaitTheLink
  <2>2. QED
    BY <1>1, <1>s, <2>1 DEF Arrive
<1>2. ASSUME NEW r \in Request,
             FindReplay(r) \/ FindWinner(r) \/ ReplyCreated(r) \/ AbandonIntake(r)
      PROVE  LinkInv'
  BY <1>2, <1>s, <1>d, SameRowsLinked DEF FindReplay, FindWinner, ReplyCreated, AbandonIntake
<1>3. ASSUME NEW r \in Request,
             FindNone(r) \/ InsertConflict(r) \/ OrderTaken(r) \/ OrderRefused(r) \/ OrderTimeout(r)
      PROVE  LinkInv'
  <2>1. LinksStay /\ CallsAwaitTheLink'
    BY <1>0, <1>3, SameRowsLinked DEF FindNone, InsertConflict, OrderTaken, OrderRefused, OrderTimeout,
                      CallsAwaitTheLink, IntakeJob
  <2>2. QED
    BY <1>3, <1>s, <2>1 DEF FindNone, InsertConflict, OrderTaken, OrderRefused, OrderTimeout
<1>4. ASSUME NEW r \in Request, InsertRow(r)
      PROVE  LinkInv'
  <2> DEFINE ma == intake[r].ma
  <2>1. ma \in MaGiaodich /\ ~Exists(ma) /\ UNCHANGED pvi
    BY <1>0, <1>4 DEF InsertRow, CanInsert
  <2>2. /\ \A m \in MaGiaodich \ {ma} : tx'[m] = tx[m]
        /\ tx'[ma].status = "SUBMITTING" /\ ~tx'[ma].prKey /\ tx'[ma].reconcileAttempts = 0
    BY <1>0, <1>4, <2>1 DEF InsertRow, Insert, NoRow
  <2>3. tx'[ma].prKey = tx[ma].prKey
    <3>1. ~tx[ma].prKey /\ tx[ma].prKey \in BOOLEAN /\ tx'[ma].prKey \in BOOLEAN
      BY <1>0, <1>4, <2>1 DEF RowIsLinked, Exists, Row, InsertRow, Insert, NoRow
    <3>2. QED
      BY <2>2, <3>1
  <2>4. LinksStay
    BY <1>0, <2>1, <2>2, <2>3 DEF LinksStay, RowIsLinked
  <2>5. CallsAwaitTheLink'
    BY <1>0, <1>4, <2>1, <2>2, <2>4 DEF InsertRow, CallsAwaitTheLink, IntakeJob, LinksStay
  <2>6. QED
    BY <1>s, <2>1, <2>4, <2>5
<1>5. ASSUME NEW r \in Request, SendOrder(r)
      PROVE  LinkInv'
  <2>1. \A m \in MaGiaodich : pvi'[m].issued = pvi[m].issued
    BY <1>0, <1>5 DEF SendOrder, PviSend, PviOrder
  <2>2. UNCHANGED tx /\ CallsAwaitTheLink'
    BY <1>0, <1>5 DEF SendOrder, CallsAwaitTheLink, IntakeJob
  <2>3. PassesHoldLinked'
    BY <1>p, <2>2, PassesStayLinked
  <2>4. QED
    BY <1>0, <2>1, <2>2, <2>3 DEF LinkInv, RowIsLinked, UnlinkedHasNoPolicy
<1>6. ASSUME NEW r \in Request, RecordSubmitted(r) \/ RecordSubmittedThrows(r)
      PROVE  LinkInv'
  <2> DEFINE ma == intake[r].ma
             row == [tx[ma] EXCEPT !.status = "SUBMITTED_OK", !.prKey = TRUE]
  <2>1. /\ ma \in MaGiaodich /\ ~tx[ma].prKey /\ UNCHANGED pvi
        /\ SetSubmitted(ma) \/ UNCHANGED tx
    BY <1>0, <1>6 DEF RecordSubmitted, RecordSubmittedThrows, CallsAwaitTheLink
  <2>2. \E pc \in {"reply", "fail"} : intake' = [intake EXCEPT ![r].pc = pc]
    BY <1>6 DEF RecordSubmitted, RecordSubmittedThrows
  <2>3. CASE UNCHANGED tx
    <3>1. LinksStay /\ CallsAwaitTheLink'
      BY <1>0, <2>2, <2>3, SameRowsLinked DEF CallsAwaitTheLink, IntakeJob
    <3>2. QED
      BY <1>s, <2>1, <3>1
  <2>4. CASE SetSubmitted(ma)
    <3>0. tx[ma] \in Row
      BY <1>0, <2>1
    <3>1. /\ row \in Row /\ row.status = "SUBMITTED_OK" /\ row.prKey
          /\ row.reconcileAttempts = tx[ma].reconcileAttempts
      BY <3>0 DEF Row, TxStatus
    <3>2. Update(ma, row)
      BY <2>4 DEF SetSubmitted
    <3> HIDE DEF row
    <3>3. /\ \A n \in MaGiaodich \ {ma} : tx'[n] = tx[n]
          /\ tx'[ma].status = "SUBMITTED_OK" /\ tx'[ma].prKey
          /\ tx'[ma].reconcileAttempts = tx[ma].reconcileAttempts
      BY <2>1, <3>1, <3>2, Updated DEF TypeOK
    <3>4. tx[ma].reconcileAttempts = 0 /\ 0 < MaxAttempts
      BY <1>0, <2>1, AttemptsAssumption DEF RowIsLinked
    <3>5. \A m \in MaGiaodich : RowIsLinked(m)' /\ (tx[m].prKey => tx'[m].prKey)
      BY <1>0, <3>3, <3>4 DEF RowIsLinked
    <3>6. UnlinkedHasNoPolicy' /\ PassesHoldLinked'
      BY <1>0, <1>p, <2>1, <3>5, PassesStayLinked DEF UnlinkedHasNoPolicy
    <3>7. CallsAwaitTheLink'
      <4> SUFFICES ASSUME NEW q \in Request, intake'[q].pc \in {"send", "await", "record"}
                   PROVE  ~tx'[intake'[q].ma].prKey
        BY DEF CallsAwaitTheLink
      <4>1. q # r /\ intake'[q] = intake[q]
        BY <1>0, <2>2 DEF IntakeJob
      <4>2. intake[q].ma \in MaGiaodich /\ intake[q].ma # ma
        BY <1>0, <1>6, <4>1 DEF RecordSubmitted, RecordSubmittedThrows
      <4>3. QED
        BY <1>0, <3>3, <4>1, <4>2 DEF CallsAwaitTheLink
    <3>8. QED
      BY <3>5, <3>6, <3>7 DEF LinkInv
  <2>5. QED
    BY <2>1, <2>3, <2>4
<1>7. ASSUME NEW r \in Request, RecordFailed(r)
      PROVE  LinkInv'
  <2>1. intake[r].ma \in MaGiaodich /\ SetFailed(intake[r].ma) /\ UNCHANGED pvi
    BY <1>0, <1>7 DEF RecordFailed
  <2>2. LinksStay
    BY <1>0, <2>1, SetsKeepLinks
  <2>3. QED
    BY <1>7, <1>s, <1>d, <2>1, <2>2 DEF RecordFailed
<1>8. QED
  BY <1>1, <1>2, <1>3, <1>4, <1>5, <1>6, <1>7 DEF IntakeStep, IntakeNext, IntakeProgress

LEMMA NextLinkInv ==
  ASSUME PayFirst, TypeOK, OrderInv, PolicyInv, LinkInv, [Next]_vars
  PROVE  LinkInv'
<1>1. CASE UNCHANGED vars
  BY <1>1 DEF vars, LinkInv, UnlinkedHasNoPolicy, RowIsLinked, CallsAwaitTheLink,
              PassesHoldLinked
<1>2. QED
  BY <1>1, PviLinkInv, TimeLinkInv, IntakeLinkInv, HandlerLinkInv, CronLinkInv DEF Next

(* PendingIsFound.  Where customers pay first, a row that waits for its    *)
(* policy has attempts left, whatever calls, callbacks, passes and crashes *)
(* come between: the reconcile query never loses sight of it.              *)
THEOREM PendingIsFound ==
  ASSUME PayFirst
  PROVE  Spec => []PendingKeepsAttempts
<1>1. TypeOK /\ OrderInv /\ PolicyInv /\ LinkInv /\ [Next]_vars => LinkInv'
  BY NextLinkInv
<1>2. LinkInv => PendingKeepsAttempts
  BY DEF LinkInv, RowIsLinked, PendingKeepsAttempts
<1>3. QED
  BY InitLink, TypeCorrect, OrderCorrect, PolicyCorrect, <1>1, <1>2, PTL DEF Spec

-----------------------------------------------------------------------------
(* createOrder, with every other handler at work, implements OrderPromise: *)
(* every step of the gateway is a step of the promise or leaves it alone.  *)


promiseNow == <<placedNow, askedNow, answersNow>>

(* A row is what its owner's key stands for. *)
LEMMA RowIsPlaced ==
  ASSUME OneRowPerOwner, NEW m \in MaGiaodich, Exists(m), tx[m].owner \in Owner
  PROVE  placedNow[tx[m].owner] = m
<1> DEFINE own == tx[m].owner
<1>1. RowsOf(own) = {m}
  BY DEF RowsOf, OneRowPerOwner
<1>2. OrderIn({m}) = m
  BY DEF OrderIn
<1>3. QED
  BY <1>1, <1>2 DEF placedNow

(* The promise sees only who owns which row, which orders PVI was asked    *)
(* for, and the replies.                                                   *)
LEMMA PromiseFrame ==
  ASSUME RowsStay, UNCHANGED replies,
         \A m \in MaGiaodich : pvi'[m].order = "none" <=> pvi[m].order = "none"
  PROVE  UNCHANGED promiseNow
<1>1. \A o \in Owner : RowsOf(o)' = RowsOf(o)
  BY DEF RowsOf, RowsStay, Exists
<1>2. placedNow' = placedNow
  BY <1>1 DEF placedNow
<1>3. askedNow' = askedNow
  BY DEF askedNow
<1>4. answersNow' = answersNow
  BY DEF answersNow
<1>5. QED
  BY <1>2, <1>3, <1>4 DEF promiseNow

LEMMA InitPromise == Init => Promise!Init
<1> SUFFICES ASSUME Init PROVE Promise!Init
  OBVIOUS
<1>1. \A o \in Owner : RowsOf(o) = {}
  BY DEF Init, TxInit, NoRow, Exists, RowsOf
<1>2. placedNow = [o \in Owner |-> NoMa]
  BY <1>1 DEF placedNow, OrderIn
<1>3. askedNow = {}
  BY DEF askedNow, Init, PviInit
<1>4. answersNow = {}
  BY DEF answersNow, Init, IntakeInit
<1>5. QED
  BY <1>2, <1>3, <1>4 DEF Promise!Init

(* The INSERT of the row is the moment the key comes to stand for it. *)
LEMMA InsertPlaces ==
  ASSUME TypeOK, OrderInv, NEW r \in Request, InsertRow(r)
  PROVE  Promise!Place(intake[r].owner, intake[r].ma) /\ intake[r].owner \in Owner
<1> DEFINE ma == intake[r].ma
           own == intake[r].owner
<1>1. /\ ma \in MaGiaodich /\ own \in Owner /\ ~Exists(ma) /\ RowsOf(own) = {}
      /\ tx \in [MaGiaodich -> Row]
  BY DEF TypeOK, TxTypeOK, IntakeTypeOK, At, InsertRow, CanInsert
<1>2. /\ \A m \in MaGiaodich \ {ma} : tx'[m] = tx[m]
      /\ tx'[ma].status = "SUBMITTING" /\ tx'[ma].owner = own
  BY <1>1 DEF InsertRow, Insert, NoRow
<1>3. placedNow[own] = NoMa
  BY <1>1 DEF placedNow, OrderIn
<1>4. \A q \in Owner : placedNow[q] # ma
  <2> SUFFICES ASSUME NEW q \in Owner PROVE placedNow[q] # ma
    OBVIOUS
  <2>1. CASE RowsOf(q) = {}
    BY <1>1, <2>1, NullsAreDistinct DEF placedNow, OrderIn
  <2>2. CASE RowsOf(q) # {}
    <3>1. OrderIn(RowsOf(q)) \in RowsOf(q)
      BY <2>2 DEF OrderIn
    <3>2. QED
      BY <1>1, <3>1 DEF placedNow, RowsOf
  <2>3. QED
    BY <2>1, <2>2
<1>5. placedNow' = [placedNow EXCEPT ![own] = ma]
  <2>1. \A q \in Owner : RowsOf(q)' = IF q = own THEN {ma} ELSE RowsOf(q)
    BY <1>1, <1>2 DEF RowsOf, Exists
  <2>2. OrderIn({ma}) = ma
    BY DEF OrderIn
  <2>3. \A q \in Owner : placedNow'[q] = IF q = own THEN ma ELSE placedNow[q]
    BY <2>1, <2>2 DEF placedNow
  <2>4. QED
    BY <1>1, <2>3 DEF placedNow
<1>6. UNCHANGED <<askedNow, answersNow>>
  BY DEF InsertRow, askedNow, answersNow
<1>7. QED
  BY <1>1, <1>3, <1>4, <1>5, <1>6 DEF Promise!Place

LEMMA SendAsks ==
  ASSUME TypeOK, OrderInv, NEW r \in Request, SendOrder(r)
  PROVE  Promise!Ask(intake[r].owner) /\ intake[r].owner \in Owner
<1> DEFINE ma == intake[r].ma
           own == intake[r].owner
<1>1. /\ ma \in MaGiaodich \ Foreign /\ own \in Owner /\ Exists(ma)
      /\ tx[ma].owner = own /\ pvi[ma].order = "none"
      /\ pvi \in [MaGiaodich -> PviOrder]
  BY DEF TypeOK, PviTypeOK, IntakeTypeOK, OrderInv, ThreadsKnowTheirRow, Submitting,
         At, SendOrder
<1>2. placedNow[own] = ma
  BY <1>1, RowIsPlaced DEF OrderInv
<1>3. /\ \A m \in MaGiaodich \ {ma} : pvi'[m] = pvi[m]
      /\ pvi'[ma].order = "sent"
  BY <1>1 DEF SendOrder, PviSend, PviOrder
<1>4. askedNow' = askedNow \cup {ma} /\ ma \notin askedNow
  BY <1>1, <1>3 DEF askedNow
<1>5. placedNow' = placedNow /\ answersNow' = answersNow
  BY DEF SendOrder, placedNow, answersNow, RowsOf, Exists
<1>6. placedNow[own] # NoMa
  BY <1>1, <1>2, NullsAreDistinct
<1>7. QED
  BY <1>1, <1>2, <1>4, <1>5, <1>6 DEF Promise!Ask

LEMMA ReplyAnswers ==
  ASSUME TypeOK, OrderInv, NEW r \in Request,
         FindReplay(r) \/ FindWinner(r) \/ ReplyCreated(r)
  PROVE  Promise!Answer(intake[r].owner) /\ intake[r].owner \in Owner
<1> DEFINE own == intake[r].owner
<1>1. own \in Owner /\ intake[r].ma \in MaGiaodich
  BY DEF TypeOK, IntakeTypeOK, At, FindReplay, FindWinner, ReplyCreated
<1>2. PICK m \in MaGiaodich :
        /\ Exists(m) /\ tx[m].owner = own
        /\ \E b \in BOOLEAN :
             replies' = replies \cup {[owner |-> own, ma |-> m, prKey |-> b]}
  <2>1. CASE FindReplay(r) \/ FindWinner(r)
    <3>1. \A m \in MaGiaodich : tx[m].prKey \in BOOLEAN
      BY DEF TypeOK, TxTypeOK, Row
    <3>2. QED
      BY <2>1, <3>1 DEF FindReplay, FindWinner, RowsOf, ToResult
  <2>2. CASE ReplyCreated(r)
    BY <1>1, <2>2 DEF ReplyCreated, OrderInv, ThreadsKnowTheirRow, Submitting, At
  <2>3. QED
    BY <2>1, <2>2
<1>3. placedNow[own] = m
  BY <1>1, <1>2, RowIsPlaced DEF OrderInv
<1>4. answersNow' = answersNow \cup {<<own, m>>}
  <2>1. PICK b \in BOOLEAN :
          replies' = replies \cup {[owner |-> own, ma |-> m, prKey |-> b]}
    BY <1>2
  <2>2. answersNow' = {<<a.owner, a.ma>> : a \in replies'}
    BY DEF answersNow
  <2>3. \A x : x \in answersNow' <=> x \in answersNow \cup {<<own, m>>}
    <3>1. \A x : x \in answersNow' <=> \E a \in replies' : x = <<a.owner, a.ma>>
      BY <2>2
    <3>2. \A x : x \in answersNow <=> \E a \in replies : x = <<a.owner, a.ma>>
      BY DEF answersNow
    <3>3. LET a == [owner |-> own, ma |-> m, prKey |-> b]
          IN  a.owner = own /\ a.ma = m
      OBVIOUS
    <3>4. QED
      BY <2>1, <3>1, <3>2, <3>3
  <2>4. QED
    BY <2>3
<1>5. placedNow' = placedNow /\ askedNow' = askedNow
  <2>1. UNCHANGED <<tx, pvi>>
    BY DEF FindReplay, FindWinner, ReplyCreated
  <2>2. \A o \in Owner : RowsOf(o)' = RowsOf(o)
    BY <2>1 DEF RowsOf, Exists
  <2>3. QED
    BY <2>1, <2>2 DEF placedNow, askedNow
<1>6. m # NoMa
  BY NullsAreDistinct
<1>7. QED
  BY <1>1, <1>3, <1>4, <1>5, <1>6 DEF Promise!Answer

(* Everything else createOrder does is invisible to partners. *)
LEMMA IntakeStutters ==
  ASSUME TypeOK, OrderInv, NEW r \in Request,
         \/ \E o \in Owner, m \in MaGiaodich : Arrive(r, o, m)
         \/ FindNone(r) \/ InsertConflict(r)
         \/ OrderTaken(r) \/ OrderRefused(r) \/ OrderTimeout(r)
         \/ RecordSubmitted(r) \/ RecordSubmittedThrows(r) \/ RecordFailed(r)
         \/ AbandonIntake(r)
  PROVE  UNCHANGED promiseNow
<1>s. (UNCHANGED tx) => RowsStay
  BY DEF RowsStay, Exists
<1>1. RowsStay
  <2>1. CASE RecordSubmitted(r) \/ RecordSubmittedThrows(r) \/ RecordFailed(r)
    <3>1. intake[r].ma \in MaGiaodich /\ Exists(intake[r].ma) /\ TxTypeOK
      BY <2>1 DEF RecordSubmitted, RecordSubmittedThrows, RecordFailed, At, OrderInv,
                  ThreadsKnowTheirRow, Submitting, TypeOK, IntakeTypeOK
    <3>2. QED
      BY <1>s, <2>1, <3>1, UpdatesKeepRows
      DEF RecordSubmitted, RecordSubmittedThrows, RecordFailed
  <2>2. CASE ~(RecordSubmitted(r) \/ RecordSubmittedThrows(r) \/ RecordFailed(r))
    BY <1>s, <2>2 DEF Arrive, FindNone, InsertConflict, OrderTaken, OrderRefused,
                      OrderTimeout, AbandonIntake
  <2>3. QED
    BY <2>1, <2>2
<1>2. UNCHANGED <<pvi, replies>>
  BY DEF Arrive, FindNone, InsertConflict, OrderTaken, OrderRefused, OrderTimeout,
         RecordSubmitted, RecordSubmittedThrows, RecordFailed, AbandonIntake
<1>3. QED
  BY <1>1, <1>2, PromiseFrame

(* Nothing the other handlers, time or PVI do is visible to the promise. *)
LEMMA OthersStutter ==
  ASSUME TypeOK, OrderInv, PviStep \/ TimePasses \/ HandlerStep \/ CronStep
  PROVE  UNCHANGED promiseNow
<1>1. RowsStay
  BY PviKeepsRows, TimeKeepsRows, HandlersKeepRows, PassesKeepRows
<1>2. UNCHANGED replies
  BY DEF PviStep, TimePasses, HandlerStep, CronStep, intakeVars
<1>3. \A m \in MaGiaodich : pvi'[m].order = "none" <=> pvi[m].order = "none"
  BY PviKeepsRows, TimeKeepsRows, HandlersKeepRows, PassesKeepRows
<1>4. QED
  BY <1>1, <1>2, <1>3, PromiseFrame

(* PromiseKept.  The gateway implements OrderPromise: seen through its     *)
(* rows, PVI's order book and the replies, a key stands for one order for  *)
(* ever, PVI is asked for it at most once, and every reply names it.       *)
THEOREM PromiseKept == Spec => KeepsPromise
<1>1. TypeOK /\ OrderInv /\ [Next]_vars => [Promise!Next]_promiseNow
  <2> SUFFICES ASSUME TypeOK, OrderInv, [Next]_vars
               PROVE  Promise!Next \/ UNCHANGED promiseNow
    OBVIOUS
  <2>1. CASE PviStep \/ TimePasses \/ HandlerStep \/ CronStep
    BY <2>1, OthersStutter
  <2>2. CASE IntakeStep
    <3>1. PICK r \in Request :
            \/ \E o \in Owner, m \in MaGiaodich : Arrive(r, o, m)
            \/ IntakeProgress(r)
            \/ AbandonIntake(r)
      BY <2>2 DEF IntakeStep, IntakeNext
    <3>2. CASE InsertRow(r)
      <4>1. intake[r].ma \in MaGiaodich
        BY <3>2 DEF InsertRow, At, TypeOK, IntakeTypeOK
      <4>2. QED
        BY <3>2, <4>1, InsertPlaces DEF Promise!Next
    <3>3. CASE SendOrder(r)
      BY <3>3, SendAsks DEF Promise!Next
    <3>4. CASE FindReplay(r) \/ FindWinner(r) \/ ReplyCreated(r)
      BY <3>4, ReplyAnswers DEF Promise!Next
    <3>5. QED
      BY <3>1, <3>2, <3>3, <3>4, IntakeStutters DEF IntakeProgress
  <2>3. CASE UNCHANGED vars
    <3>1. RowsStay /\ UNCHANGED <<pvi, replies>>
      BY <2>3 DEF vars, RowsStay, Exists
    <3>2. QED
      BY <3>1, PromiseFrame
  <2>4. QED
    BY <2>1, <2>2, <2>3 DEF Next
<1>2. [Promise!Next]_promiseNow <=> [Promise!Next]_Promise!promiseVars
  BY DEF promiseNow, Promise!promiseVars
<1>3. QED
  BY <1>1, <1>2, InitPromise, TypeCorrect, OrderCorrect, PTL
  DEF Spec, KeepsPromise, Promise!Spec
=============================================================================
