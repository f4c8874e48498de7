----------------------------- MODULE PviOrders -----------------------------
(***************************************************************************)
(* The insurer's side (PVI), as far as the gateway can see it.  PVI is not *)
(* part of the repository: this module is external and is modelled from    *)
(* how src/src/pvi/pvi.client.ts uses it.                                  *)
(*                                                                         *)
(* pvi[m] is PVI's record of the order the gateway calls m (ma_giaodich):  *)
(*   order    how far the TaoDon request for m has come,                   *)
(*   owner    the (partner, idempotencyKey) whose customer data it carries *)
(*   issued   every policy number PVI ever issued for m (it may re-issue), *)
(*   current  the number GetPolicyNumber answers with now.                 *)
(***************************************************************************)
EXTENDS Integers, FiniteSets

CONSTANTS
  Partner,       \* authenticated partners
  Key,           \* idempotency keys the partners choose
  MaGiaodich,    \* order ids the gateway can draw (randomUUID)
  Foreign,       \* orders PVI holds under the gateway's CpId that this
                 \* deployment never created (another one shares the CpId)
  PolicyNumber,  \* policy numbers PVI can issue
  NoMa,          \* no order id
  NoPolicy,      \* policyNumber IS NULL
  NoOwner        \* no partner and key

Owner == Partner \X Key

ASSUME ForeignAssumption == Foreign \subseteq MaGiaodich

ASSUME NullsAreDistinct ==
  NoMa \notin MaGiaodich /\ NoPolicy \notin PolicyNumber /\ NoOwner \notin Owner

VARIABLE pvi

PviOrder == [order   : {"none", "sent", "taken", "refused"},
             owner   : Owner \cup {NoOwner},
             issued  : SUBSET PolicyNumber,
             current : PolicyNumber \cup {NoPolicy}]

PviTypeOK == pvi \in [MaGiaodich -> PviOrder]

PviInit ==
  pvi = [m \in MaGiaodich |->
           [order   |-> IF m \in Foreign THEN "taken" ELSE "none",
            owner   |-> NoOwner,
            issued  |-> {},
            current |-> NoPolicy]]

(* The TaoDon request of order m leaves the gateway. *)
PviSend(m, owner) ==
  pvi' = [pvi EXCEPT ![m].order = "sent", ![m].owner = owner]

(* PVI processes the request: it takes the order (Status "00") or refuses  *)
(* it (any other Status).  The gateway may have given up waiting.          *)
PviTake(m) ==
  /\ pvi[m].order = "sent"
  /\ pvi' = [pvi EXCEPT ![m].order = "taken"]

PviRefuse(m) ==
  /\ pvi[m].order = "sent"
  /\ pvi' = [pvi EXCEPT ![m].order = "refused"]

(* PVI issues policy p for an order it took; a second issue replaces the   *)
(* first.  Policy numbers are never used twice.                            *)
PviIssue(m, p) ==
  /\ pvi[m].order = "taken"
  /\ \A n \in MaGiaodich : p \notin pvi[n].issued
  /\ pvi' = [pvi EXCEPT ![m].issued = @ \cup {p}, ![m].current = p]
=============================================================================
