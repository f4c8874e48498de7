------------------------------ MODULE Gateway ------------------------------
(***************************************************************************)
(* The order path of the insurance gateway as one system: partners' order  *)
(* requests (OrderIntake), callbacks, polls and manual reconciles          *)
(* (Issuance) and the reconcile cron (ReconcileCron) run side by side on   *)
(* one Transaction table against PVI.  Every await of the code is a point  *)
(* where any other thread may run.                                         *)
(***************************************************************************)
EXTENDS OrderIntake, Issuance, ReconcileCron

CONSTANT
  PayFirst   \* TRUE: PVI issues a policy only after the customer has paid
             \* through the payment link (docs/motor-insurance-flow.md:244);
             \* FALSE: it may issue as soon as it has taken the order

ASSUME PayFirstAssumption == PayFirst \in BOOLEAN

vars == <<tx, pvi, intake, replies, handler, answered, pass, lock>>

intakeVars == <<intake, replies>>
issuanceVars == <<handler, answered>>
cronVars == <<pass, lock>>

Init == PviInit /\ TxInit /\ IntakeInit /\ HandlerInit /\ CronInit

(* The customer gets the payment link from a reply or a poll, both of      *)
(* which read it from the stored answer.                                   *)
LinkIsOut(m) == tx[m].prKey \/ m \in Foreign

PviStep ==
  /\ \E m \in MaGiaodich :
       \/ PviTake(m)
       \/ PviRefuse(m)
       \/ \E p \in PolicyNumber :
            (PayFirst => LinkIsOut(m)) /\ PviIssue(m, p)
  /\ UNCHANGED <<tx, intakeVars, issuanceVars, cronVars>>

TimePasses ==
  /\ \E m \in MaGiaodich : Age(m)
  /\ UNCHANGED <<pvi, intakeVars, issuanceVars, cronVars>>

IntakeStep == IntakeNext /\ UNCHANGED <<issuanceVars, cronVars>>

HandlerStep == HandlerNext /\ UNCHANGED <<intakeVars, cronVars>>

CronStep == CronNext /\ UNCHANGED <<intakeVars, issuanceVars>>

Next == PviStep \/ TimePasses \/ IntakeStep \/ HandlerStep \/ CronStep

Spec == Init /\ [][Next]_vars

-----------------------------------------------------------------------------
TypeOK == PviTypeOK /\ TxTypeOK /\ IntakeTypeOK /\ HandlerTypeOK /\ CronTypeOK

(* StatusIsEarned.  A row is told to be with PVI, issued or given up only  *)
(* if PVI really took its order, for the partner and key of the row; no    *)
(* timeout, retry or late write of another handler makes up such a status. *)
StatusIsEarned ==
  \A m \in MaGiaodich :
    tx[m].status \in {"SUBMITTED_OK", "ISSUED", "CALLBACK_TIMEOUT"} =>
      pvi[m].order = "taken" /\ pvi[m].owner = tx[m].owner

(* SubmittingIsInFlight.  docs/architecture.md:304 "SUBMITTING // dang goi *)
(* TaoDon": while a row says SUBMITTING a createOrder call is at work on   *)
(* it.                                                                     *)
SubmittingIsInFlight ==
  \A m \in MaGiaodich :
    tx[m].status = "SUBMITTING" => \E r \in Submitting : intake[r].ma = m

(* FailedMeansRefused.  docs/architecture.md:306 "SUBMITTED_FAIL // PVI    *)
(* Status # 00": an order the gateway calls failed is not with PVI.        *)
FailedMeansRefused ==
  \A m \in MaGiaodich : tx[m].status = "SUBMITTED_FAIL" => pvi[m].order # "taken"

(* SubmittedOkAwaitsCallback.  docs/architecture.md:305 "SUBMITTED_OK //   *)
(* PVI Status=00, cho callback": the callback of such a row has not been   *)
(* received and answered "00" yet.                                         *)
SubmittedOkAwaitsCallback ==
  \A a \in answered : a.code = "00" => tx[a.ma].status # "SUBMITTED_OK"

-----------------------------------------------------------------------------
(* OrderInv is the inductive invariant behind AtMostOncePerKey,            *)
(* SameKeySameOrder and OneOrderOneKey: what ties threads, rows, PVI's     *)
(* orders and replies together between any two awaits.                     *)

(* The unique index at work: one row for each partner and key. *)
OneRowPerOwner ==
  \A m, n \in MaGiaodich :
    Exists(m) /\ Exists(n) /\ tx[m].owner = tx[n].owner => m = n

(* A createOrder call holds a UUID no other call has; its row is there     *)
(* once it is past the INSERT, not before, and PVI has not heard of the    *)
(* order before the call sends it.                                         *)
ThreadsKnowTheirRow ==
  \A r \in Request : intake[r].pc # "idle" =>
    /\ intake[r].ma \notin Foreign
    /\ \A q \in Request :
         intake[q].pc # "idle" /\ intake[q].ma = intake[r].ma => q = r
    /\ Exists(intake[r].ma) <=> r \in Submitting
    /\ r \in Submitting => tx[intake[r].ma].owner = intake[r].owner
    /\ intake[r].pc = "send" => pvi[intake[r].ma].order = "none"

(* PVI knows only orders whose row was stored first, and only for the      *)
(* partner and key of the row.                                             *)
SentOrdersHaveRows ==
  \A m \in MaGiaodich :
    /\ pvi[m].owner = NoOwner <=> m \in Foreign \/ pvi[m].order = "none"
    /\ m \in Foreign => ~Exists(m)
    /\ pvi[m].owner # NoOwner => Exists(m) /\ tx[m].owner = pvi[m].owner

(* A reply names a row of the partner and key that asked. *)
RepliesNameRows ==
  \A a \in replies : Exists(a.ma) /\ tx[a.ma].owner = a.owner

(* Callbacks past their lookup, polls, pulls and passes work on rows that  *)
(* exist: their UPDATEs create none.                                       *)
WorkersHaveRows ==
  /\ \A h \in Handler :
       handler[h].pc \in {"ask", "update", "answer"} => Exists(handler[h].ma)
  /\ \A c \in Pass :
       /\ \A m \in pass[c].pending : Exists(m)
       /\ pass[c].pc \in {"issue", "count", "recount"} => Exists(pass[c].ma)

OrderInv ==
  /\ OneRowPerOwner
  /\ ThreadsKnowTheirRow
  /\ SentOrdersHaveRows
  /\ RepliesNameRows
  /\ WorkersHaveRows

-----------------------------------------------------------------------------
(* The rows, PVI's order book and the replies seen as the promise made to  *)
(* partners: a key stands for the order whose row carries it.              *)
OrderIn(rows) == IF rows = {} THEN NoMa ELSE CHOOSE m \in rows : TRUE

placedNow == [o \in Owner |-> OrderIn(RowsOf(o))]

askedNow == {m \in MaGiaodich \ Foreign : pvi[m].order # "none"}

answersNow == {<<a.owner, a.ma>> : a \in replies}

Promise == INSTANCE OrderPromise
             WITH placed <- placedNow, asked <- askedNow, answers <- answersNow

(* KeepsPromise.  createOrder, with all its races, retries, timeouts and   *)
(* crashes and with every other handler at work, implements OrderPromise.  *)
KeepsPromise == Promise!Spec

-----------------------------------------------------------------------------
(* Fairness.  Time goes on, every minute brings a pass, sessions that are  *)
(* idle long enough are closed, and neither the database nor the process   *)
(* fails at the same await for ever (hence strong fairness: failures may   *)
(* come between, but not each time).  Nothing is assumed of partners, of   *)
(* customers, of PVI or of the order of handlers.                          *)
Fairness ==
  /\ \A m \in MaGiaodich :
       WF_vars(Age(m) /\ UNCHANGED <<pvi, intakeVars, issuanceVars, cronVars>>)
  /\ WF_vars(CloseIdleSession /\ UNCHANGED <<intakeVars, issuanceVars>>)
  /\ \A c \in Pass :
       /\ SF_vars((\E s \in Session : StartPass(c, s)) /\ UNCHANGED <<intakeVars, issuanceVars>>)
       /\ SF_vars(ListPending(c) /\ UNCHANGED <<intakeVars, issuanceVars>>)
       /\ \A m \in MaGiaodich :
            SF_vars((AskPolicy(c, m) \/ AskPolicyThrows(c, m))
                      /\ UNCHANGED <<intakeVars, issuanceVars>>)
       /\ SF_vars(IssueRow(c) /\ UNCHANGED <<intakeVars, issuanceVars>>)
       /\ SF_vars(CountRow(c) /\ UNCHANGED <<intakeVars, issuanceVars>>)
       /\ SF_vars(EndPass(c) /\ UNCHANGED <<intakeVars, issuanceVars>>)
       /\ SF_vars((\E s \in Session : Unlock(c, s)) /\ UNCHANGED <<intakeVars, issuanceVars>>)

FairSpec == Spec /\ Fairness

(* PendingIsSettled.  An order PVI took does not wait for its policy for   *)
(* ever: the cron finds it, and by a policy or by the maximum of attempts  *)
(* it leaves SUBMITTED_OK.                                                 *)
PendingIsSettled ==
  \A m \in MaGiaodich :
    tx[m].status = "SUBMITTED_OK" ~> tx[m].status # "SUBMITTED_OK"
=============================================================================
