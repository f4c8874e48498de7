---------------------------- MODULE Transactions ----------------------------
(***************************************************************************)
(* The "Transaction" table every handler of the gateway shares             *)
(* (src/prisma/schema.prisma), and the row updates they make.  Each        *)
(* operator below is one SQL statement, atomic in the database; none of    *)
(* the UPDATEs has a condition on the row's current status.                *)
(*                                                                         *)
(* tx[m] is the row whose maGiaodich is m.  prKey stands for the columns   *)
(* written together from TaoDon's answer (pviPrKey, pviResponse,           *)
(* paymentUrl, serialNumber): TRUE once they are stored.  fresh says that  *)
(* updatedAt lies inside the reconcile grace period.                       *)
(***************************************************************************)
EXTENDS PviOrders

CONSTANTS
  MaxAttempts,   \* RECONCILE_MAX_ATTEMPTS
  AttemptCap     \* bound of the model: no increment beyond this value

ASSUME AttemptsAssumption ==
  MaxAttempts \in Nat \ {0} /\ AttemptCap \in Nat /\ AttemptCap >= MaxAttempts

VARIABLE tx

(* "ABSENT" stands for a maGiaodich that has no row. *)
TxStatus == {"SUBMITTING", "SUBMITTED_OK", "SUBMITTED_FAIL", "ISSUED",
             "CALLBACK_TIMEOUT"}

Row == [status            : TxStatus \cup {"ABSENT"},
        owner             : Owner \cup {NoOwner},
        prKey             : BOOLEAN,
        policyNumber      : PolicyNumber \cup {NoPolicy},
        reconcileAttempts : Nat,
        fresh             : BOOLEAN]

NoRow == [status |-> "ABSENT", owner |-> NoOwner, prKey |-> FALSE,
          policyNumber |-> NoPolicy, reconcileAttempts |-> 0, fresh |-> FALSE]

TxTypeOK == tx \in [MaGiaodich -> Row]

TxInit == tx = [m \in MaGiaodich |-> NoRow]

Exists(m) == tx[m].status # "ABSENT"

(* Seeded fault: the lookup and the index forget the partner. *)
RowsOfKeyAlone(owner) ==
  {m \in MaGiaodich : Exists(m) /\ tx[m].owner[2] = owner[2]}

(* The rows findUnique can return for (partnerId, idempotencyKey). *)
RowsOf(owner) == {m \in MaGiaodich : Exists(m) /\ tx[m].owner = owner}

(* Seeded fault: the table has no unique index on the pair. *)
CanInsertUnindexed(m, owner) == ~Exists(m)

(* INSERT; the unique index on (partnerId, idempotencyKey) admits it. *)
CanInsert(m, owner) == ~Exists(m) /\ RowsOf(owner) = {}

Insert(m, owner) ==
  tx' = [tx EXCEPT ![m] = [NoRow EXCEPT !.status = "SUBMITTING",
                                        !.owner  = owner,
                                        !.fresh  = TRUE]]

(* UPDATE of one row, which must be there; @updatedAt makes it fresh. *)
Update(m, row) ==
  /\ Exists(m)
  /\ tx' = [tx EXCEPT ![m] = [row EXCEPT !.fresh = TRUE]]

(* Seeded fault: the update writes every column TaoDon's answer lacks. *)
SetSubmittedWhole(m) ==
  Update(m, [tx[m] EXCEPT !.status = "SUBMITTED_OK", !.prKey = TRUE,
                          !.policyNumber = NoPolicy])

(* createOrder stores TaoDon's answer. *)
SetSubmitted(m) ==
  Update(m, [tx[m] EXCEPT !.status = "SUBMITTED_OK", !.prKey = TRUE])

(* createOrder's catch. *)
SetFailed(m) == Update(m, [tx[m] EXCEPT !.status = "SUBMITTED_FAIL"])

(* The callback and the partner's poll record a policy. *)
SetIssued(m, p) ==
  Update(m, [tx[m] EXCEPT !.status = "ISSUED", !.policyNumber = p])

(* The reconcile paths record a policy and increment reconcileAttempts in  *)
(* the database.  The bound AttemptCap stands in the guard.                *)
SetReconciled(m, p) ==
  /\ tx[m].reconcileAttempts < AttemptCap
  /\ Update(m, [tx[m] EXCEPT !.status = "ISSUED", !.policyNumber = p,
                             !.reconcileAttempts = tx[m].reconcileAttempts + 1])

(* Seeded faults: the comparison with the maximum is off by one. *)
StatusTooEarly(n) ==
  IF n + 1 >= MaxAttempts THEN "CALLBACK_TIMEOUT" ELSE "SUBMITTED_OK"

StatusTooLate(n) ==
  IF n > MaxAttempts THEN "CALLBACK_TIMEOUT" ELSE "SUBMITTED_OK"

StatusAfter(n) ==
  IF n >= MaxAttempts THEN "CALLBACK_TIMEOUT" ELSE "SUBMITTED_OK"

(* incrementAttempts: writes the value computed from the caller's copy of  *)
(* the row, and the status that follows from that value alone.             *)
SetAttempts(m, n) ==
  Update(m, [tx[m] EXCEPT !.reconcileAttempts = n, !.status = StatusAfter(n)])

(* Time passes: the row's last update falls behind the grace cutoff.  Only *)
(* the reconcile query reads updatedAt, and only of SUBMITTED_OK rows.     *)
Age(m) ==
  /\ tx[m].status = "SUBMITTED_OK" /\ tx[m].fresh
  /\ tx' = [tx EXCEPT ![m] = [@ EXCEPT !.fresh = FALSE]]
=============================================================================
