---------------------------- MODULE OrderIntake ----------------------------
(***************************************************************************)
(* POST /api/pvi/order: createOrder of src/src/proxy/order.controller.ts.  *)
(* order-moto.controller.ts runs the same steps.                           *)
(*                                                                         *)
(* A request is a thread; it is at "pc" between two awaits.                *)
(*   idle   -> find    the request arrives, maGiaodich is drawn            *)
(*   find   -> insert  no row for (partnerId, idempotencyKey)              *)
(*   insert -> send    the SUBMITTING row is written                       *)
(*   insert -> winner  P2002: a parallel request inserted first            *)
(*   send   -> await   TaoDon is on its way to PVI                         *)
(*   await  -> record  PVI answered "00"                                   *)
(*   await  -> fail    PVI refused, or the call timed out                  *)
(*   record -> reply   the answer is stored, the HTTP reply is due         *)
(*   record -> fail    storing the answer threw: same catch block          *)
(*   fail   -> idle    SUBMITTED_FAIL is stored and the error rethrown     *)
(* A replayed request goes from find or winner to idle with its reply.     *)
(* A thread that is done serves a new request: clients retry at will.      *)
(***************************************************************************)
EXTENDS Transactions

CONSTANT Request   \* createOrder calls that can be in flight at once

VARIABLES
  intake,    \* the threads
  replies    \* every successful reply ever sent

IntakePc == {"idle", "find", "insert", "winner", "send", "await", "record",
             "reply", "fail"}

IntakeJob == [pc    : IntakePc,
              owner : Owner \cup {NoOwner},
              ma    : MaGiaodich \cup {NoMa}]

Reply == [owner : Owner, ma : MaGiaodich, prKey : BOOLEAN]

(* A thread at work knows whom it works for and the UUID it drew. *)
IntakeTypeOK ==
  /\ intake \in [Request -> IntakeJob]
  /\ replies \subseteq Reply
  /\ \A r \in Request :
       intake[r].pc # "idle" =>
         intake[r].owner \in Owner /\ intake[r].ma \in MaGiaodich

IdleIntake == [pc |-> "idle", owner |-> NoOwner, ma |-> NoMa]

IntakeInit == intake = [r \in Request |-> IdleIntake] /\ replies = {}

At(r, pc) == intake[r].pc = pc

Goto(r, pc) == intake' = [intake EXCEPT ![r].pc = pc]

Done(r) == intake' = [intake EXCEPT ![r] = IdleIntake]

(* Seeded fault: the replay answers with the UUID drawn for this request. *)
ToResultOwnId(r, m) == [owner |-> intake[r].owner, ma |-> intake[r].ma,
                        prKey |-> tx[m].prKey]

(* toResult: the stored order, whatever its status. *)
ToResult(r, m) == [owner |-> intake[r].owner, ma |-> m, prKey |-> tx[m].prKey]

(* The request of a partner with its key; a fresh UUID is no other's. *)
Arrive(r, owner, m) ==
  /\ At(r, "idle")
  /\ m \notin Foreign /\ ~Exists(m)
  /\ \A q \in Request : intake[q].ma # m
  /\ intake' = [intake EXCEPT ![r] = [pc |-> "find", owner |-> owner, ma |-> m]]
  /\ UNCHANGED <<tx, pvi, replies>>

FindReplay(r) ==
  /\ At(r, "find")
  /\ \E m \in RowsOf(intake[r].owner) : replies' = replies \cup {ToResult(r, m)}
  /\ Done(r)
  /\ UNCHANGED <<tx, pvi>>

FindNone(r) ==
  /\ At(r, "find")
  /\ RowsOf(intake[r].owner) = {}
  /\ Goto(r, "insert")
  /\ UNCHANGED <<tx, pvi, replies>>

(* Seeded fault: the row is left to be written when PVI has answered. *)
InsertRowLater(r) ==
  /\ At(r, "insert")
  /\ CanInsert(intake[r].ma, intake[r].owner)
  /\ Goto(r, "send")
  /\ UNCHANGED <<tx, pvi, replies>>

InsertRow(r) ==
  /\ At(r, "insert")
  /\ CanInsert(intake[r].ma, intake[r].owner)
  /\ Insert(intake[r].ma, intake[r].owner)
  /\ Goto(r, "send")
  /\ UNCHANGED <<pvi, replies>>

InsertConflict(r) ==
  /\ At(r, "insert")
  /\ ~CanInsert(intake[r].ma, intake[r].owner)
  /\ Goto(r, "winner")
  /\ UNCHANGED <<tx, pvi, replies>>

(* Rows are never deleted, so the winner is always found and the rethrow   *)
(* of P2002 that follows the lookup in the code is never reached.          *)
FindWinner(r) ==
  /\ At(r, "winner")
  /\ \E m \in RowsOf(intake[r].owner) : replies' = replies \cup {ToResult(r, m)}
  /\ Done(r)
  /\ UNCHANGED <<tx, pvi>>

SendOrder(r) ==
  /\ At(r, "send")
  /\ PviSend(intake[r].ma, intake[r].owner)
  /\ Goto(r, "await")
  /\ UNCHANGED <<tx, replies>>

(* Seeded fault: PviClient.call does not look at Status. *)
OrderAnswered(r) ==
  /\ At(r, "await")
  /\ pvi[intake[r].ma].order \in {"taken", "refused"}
  /\ Goto(r, "record")
  /\ UNCHANGED <<tx, pvi, replies>>

OrderTaken(r) ==
  /\ At(r, "await")
  /\ pvi[intake[r].ma].order = "taken"
  /\ Goto(r, "record")
  /\ UNCHANGED <<tx, pvi, replies>>

(* PviClient.call throws: PviBusinessError for a Status other than "00". *)
OrderRefused(r) ==
  /\ At(r, "await")
  /\ pvi[intake[r].ma].order = "refused"
  /\ Goto(r, "fail")
  /\ UNCHANGED <<tx, pvi, replies>>

(* PviClient.call throws: the answer did not arrive within timeoutMs, and  *)
(* PVI may or may not have taken the order, now or later.                  *)
OrderTimeout(r) ==
  /\ At(r, "await")
  /\ Goto(r, "fail")
  /\ UNCHANGED <<tx, pvi, replies>>

RecordSubmitted(r) ==
  /\ At(r, "record")
  /\ SetSubmitted(intake[r].ma)
  /\ Goto(r, "reply")
  /\ UNCHANGED <<pvi, replies>>

(* The update rejects; the database may have applied it all the same. *)
RecordSubmittedThrows(r) ==
  /\ At(r, "record")
  /\ SetSubmitted(intake[r].ma) \/ UNCHANGED tx
  /\ Goto(r, "fail")
  /\ UNCHANGED <<pvi, replies>>

ReplyCreated(r) ==
  /\ At(r, "reply")
  /\ replies' = replies \cup {[owner |-> intake[r].owner, ma |-> intake[r].ma,
                               prKey |-> TRUE]}
  /\ Done(r)
  /\ UNCHANGED <<tx, pvi>>

RecordFailed(r) ==
  /\ At(r, "fail")
  /\ SetFailed(intake[r].ma)
  /\ Done(r)
  /\ UNCHANGED <<pvi, replies>>

(* The process dies, or an await outside the try block rejects. *)
AbandonIntake(r) ==
  /\ ~At(r, "idle")
  /\ Done(r)
  /\ UNCHANGED <<tx, pvi, replies>>

IntakeProgress(r) ==
  \/ FindReplay(r) \/ FindNone(r)
  \/ InsertRow(r) \/ InsertConflict(r) \/ FindWinner(r)
  \/ SendOrder(r) \/ OrderTaken(r) \/ OrderRefused(r) \/ OrderTimeout(r)
  \/ RecordSubmitted(r) \/ RecordSubmittedThrows(r) \/ ReplyCreated(r)
  \/ RecordFailed(r)

IntakeNext ==
  \E r \in Request :
    \/ \E owner \in Owner, m \in MaGiaodich : Arrive(r, owner, m)
    \/ IntakeProgress(r)
    \/ AbandonIntake(r)

-----------------------------------------------------------------------------
(* Threads past their INSERT: each owns the row it wrote. *)
Submitting == {r \in Request :
                 intake[r].pc \in {"send", "await", "record", "reply", "fail"}}

(* AtMostOncePerKey.  However many requests carry one (partnerId,          *)
(* idempotencyKey), in parallel, after timeouts, crashes or failed         *)
(* updates, PVI is asked for at most one order on its behalf.              *)
AtMostOncePerKey ==
  \A m, n \in MaGiaodich :
    pvi[m].owner # NoOwner /\ pvi[m].owner = pvi[n].owner => m = n

(* SameKeySameOrder.  All successful replies for one (partnerId,           *)
(* idempotencyKey), first answers and replays alike, name one order.       *)
SameKeySameOrder ==
  \A a, b \in replies : a.owner = b.owner => a.ma = b.ma

(* OneOrderOneKey.  No order is ever handed to two callers: a reply's      *)
(* maGiaodich belongs to the partner and key that asked for it.            *)
OneOrderOneKey ==
  \A a, b \in replies : a.ma = b.ma => a.owner = b.owner

(* PrKeyMeansTaken.  A reply that carries a Pr_key and a payment link      *)
(* names an order PVI took for that very partner and key.                  *)
PrKeyMeansTaken ==
  \A a \in replies :
    a.prKey => pvi[a.ma].order = "taken" /\ pvi[a.ma].owner = a.owner
=============================================================================
