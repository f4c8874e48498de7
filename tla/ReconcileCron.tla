--------------------------- MODULE ReconcileCron ---------------------------
(***************************************************************************)
(* The reconcile cron: reconcile(), runReconcile() and incrementAttempts() *)
(* of src/src/reconcile/reconcile.service.ts.                              *)
(*                                                                         *)
(* Every server process starts a pass each minute; a pass that is still    *)
(* running does not keep the next from starting.  A pass first asks        *)
(* Postgres for a session-level advisory lock.  The queries of a process   *)
(* go through its connection pool (PrismaService: PrismaPg over pg.Pool),  *)
(* so the lock, the row updates and the unlock of one pass may each run in *)
(* another session of the pool.                                            *)
(*                                                                         *)
(*   idle -> list         the lock was granted                             *)
(*   list -> next         the pending rows were read                       *)
(*   next -> issue        PVI answered with a policy                       *)
(*   next -> count        PVI answered without one                         *)
(*   next -> recount      the call threw: incrementAttempts in the catch   *)
(*   issue -> next | recount,  count -> next | recount                     *)
(*   recount -> next | unlock                                              *)
(*   next, list -> unlock the loop is over, or an error left runReconcile  *)
(*   unlock -> idle                                                        *)
(***************************************************************************)
EXTENDS Transactions

CONSTANTS
  Process,    \* server processes (pm2 workers of all backend servers)
  Pass,       \* passes that can run at once
  Session,    \* Postgres sessions the pools can hold
  HomeOf,     \* the process of each pass and of each session
  NoSession,
  DepthCap    \* bound of the model: how often one session may stack the lock

ASSUME CronAssumption ==
  /\ HomeOf \in [Pass \cup Session -> Process]
  /\ NoSession \notin Session
  /\ DepthCap \in Nat \ {0}

VARIABLES
  pass,    \* the passes
  lock     \* RECONCILE_LOCK_KEY in pg_locks: the session, and how often

PassPc == {"idle", "list", "next", "issue", "count", "recount", "unlock"}

(* pending: rows of findMany not visited yet; seen: their reconcileAttempts *)
(* when they were read; ma, policy: the row in hand and PVI's answer.       *)
PassJob == [pc      : PassPc,
            pending : SUBSET MaGiaodich,
            seen    : [MaGiaodich -> Nat],
            ma      : MaGiaodich \cup {NoMa},
            policy  : PolicyNumber \cup {NoPolicy}]

LockState == [holder : Session \cup {NoSession}, depth : Nat]

(* A pass that visits a row has it in hand; a lock that is held is held at *)
(* some depth.                                                             *)
CronTypeOK ==
  /\ pass \in [Pass -> PassJob]
  /\ lock \in LockState
  /\ lock.depth = 0 <=> lock.holder = NoSession
  /\ \A c \in Pass :
       /\ pass[c].pc \in {"issue", "count", "recount"} => pass[c].ma \in MaGiaodich
       /\ pass[c].pc = "issue" => pass[c].policy \in PolicyNumber

IdlePass == [pc |-> "idle", pending |-> {}, seen |-> [m \in MaGiaodich |-> 0],
             ma |-> NoMa, policy |-> NoPolicy]

Unlocked == [holder |-> NoSession, depth |-> 0]

CronInit == pass = [c \in Pass |-> IdlePass] /\ lock = Unlocked

PassAt(c, pc) == pass[c].pc = pc

PoolOf(c) == {s \in Session : HomeOf[s] = HomeOf[c]}

(* pg_try_advisory_lock in session s: granted when no session holds the    *)
(* lock, and again, one level deeper, when s itself holds it.              *)
LockIsGranted(s) == lock.holder \in {NoSession, s}

(* The minute strikes.  A refused pass returns at once and changes         *)
(* nothing.  The bound DepthCap stands in the guard.                       *)
StartPass(c, s) ==
  /\ PassAt(c, "idle")
  /\ s \in PoolOf(c)
  /\ LockIsGranted(s) /\ lock.depth < DepthCap
  /\ lock' = [holder |-> s, depth |-> lock.depth + 1]
  /\ pass' = [pass EXCEPT ![c].pc = "list"]
  /\ UNCHANGED <<tx, pvi>>

(* Seeded fault: the query takes every row that is not issued. *)
IsNotIssued(m) ==
  Exists(m) /\ tx[m].status # "ISSUED" /\ tx[m].reconcileAttempts < MaxAttempts

(* The WHERE clause of findMany. *)
IsPending(m) ==
  /\ tx[m].status = "SUBMITTED_OK"
  /\ ~tx[m].fresh
  /\ tx[m].reconcileAttempts < MaxAttempts

ListPending(c) ==
  LET found == {m \in MaGiaodich : IsPending(m)} IN
  /\ PassAt(c, "list")
  /\ pass' = [pass EXCEPT ![c].pc = "next",
                          ![c].pending = found,
                          ![c].seen = [m \in MaGiaodich |->
                             IF m \in found THEN tx[m].reconcileAttempts ELSE 0]]
  /\ UNCHANGED <<tx, pvi, lock>>

(* getPolicy of the next row; findMany states no order. *)
AskPolicy(c, m) ==
  /\ PassAt(c, "next") /\ m \in pass[c].pending
  /\ IF pvi[m].current # NoPolicy
       THEN pass' = [pass EXCEPT ![c].pc = "issue", ![c].ma = m,
                                 ![c].pending = @ \ {m},
                                 ![c].policy = pvi[m].current]
       ELSE pass' = [pass EXCEPT ![c].pc = "count", ![c].ma = m,
                                 ![c].pending = @ \ {m}]
  /\ UNCHANGED <<tx, pvi, lock>>

AskPolicyThrows(c, m) ==
  /\ PassAt(c, "next") /\ m \in pass[c].pending
  /\ pass' = [pass EXCEPT ![c].pc = "recount", ![c].ma = m,
                          ![c].pending = @ \ {m}]
  /\ UNCHANGED <<tx, pvi, lock>>

(* The row is done with: the loop goes on to the next. *)
NextRow(c) ==
  pass' = [pass EXCEPT ![c].pc = "next", ![c].ma = NoMa, ![c].policy = NoPolicy,
                       ![c].seen[pass[c].ma] = 0]

IssueRow(c) ==
  /\ PassAt(c, "issue")
  /\ SetReconciled(pass[c].ma, pass[c].policy)
  /\ NextRow(c)
  /\ UNCHANGED <<pvi, lock>>

(* The update rejects, applied or not: the catch counts an attempt. *)
IssueRowThrows(c) ==
  /\ PassAt(c, "issue")
  /\ SetReconciled(pass[c].ma, pass[c].policy) \/ UNCHANGED tx
  /\ pass' = [pass EXCEPT ![c].pc = "recount", ![c].policy = NoPolicy]
  /\ UNCHANGED <<pvi, lock>>

(* Seeded fault: the number read is written back without the increment. *)
CountAttemptUnchanged(c) == SetAttempts(pass[c].ma, pass[c].seen[pass[c].ma])

(* incrementAttempts with the number read by ListPending, not the row's. *)
CountAttempt(c) == SetAttempts(pass[c].ma, pass[c].seen[pass[c].ma] + 1)

CountRow(c) ==
  /\ pass[c].pc \in {"count", "recount"}
  /\ CountAttempt(c)
  /\ NextRow(c)
  /\ UNCHANGED <<pvi, lock>>

(* A count that rejects is repeated by the catch; one that rejects in the  *)
(* catch leaves the loop.                                                  *)
CountRowThrows(c) ==
  /\ pass[c].pc \in {"count", "recount"}
  /\ CountAttempt(c) \/ UNCHANGED tx
  /\ pass' = IF PassAt(c, "count")
               THEN [pass EXCEPT ![c].pc = "recount"]
               ELSE [pass EXCEPT ![c] = [IdlePass EXCEPT !.pc = "unlock"]]
  /\ UNCHANGED <<pvi, lock>>

(* No row is left; or the query of ListPending rejected. *)
EndPass(c) ==
  /\ PassAt(c, "list") \/ (PassAt(c, "next") /\ pass[c].pending = {})
  /\ pass' = [pass EXCEPT ![c].pc = "unlock"]
  /\ UNCHANGED <<tx, pvi, lock>>

OneLevelUp ==
  IF lock.depth = 1 THEN Unlocked ELSE [lock EXCEPT !.depth = @ - 1]

(* pg_advisory_unlock in session s: a session that does not hold the lock  *)
(* gets FALSE and a warning, which reconcile() ignores.                    *)
Unlock(c, s) ==
  /\ PassAt(c, "unlock")
  /\ s \in PoolOf(c)
  /\ lock' = IF lock.holder = s THEN OneLevelUp ELSE lock
  /\ pass' = [pass EXCEPT ![c] = IdlePass]
  /\ UNCHANGED <<tx, pvi>>

(* The unlock query itself rejects, applied or not, and the error leaves   *)
(* reconcile().                                                            *)
UnlockThrows(c) ==
  /\ PassAt(c, "unlock")
  /\ pass' = [pass EXCEPT ![c] = IdlePass]
  /\ UNCHANGED <<tx, pvi, lock>>

(* The pass makes no query: it waits for PVI, for up to HTTP_TIMEOUT_MS. *)
MakesNoQuery(c) ==
  PassAt(c, "idle") \/ (PassAt(c, "next") /\ pass[c].pending # {})

(* pg.Pool closes a client that sits unused for idleTimeoutMillis (10 s by *)
(* default), as the lock's session may during a slow getPolicy; Postgres   *)
(* then releases the session's lock.                                       *)
CloseIdleSession ==
  /\ lock.holder # NoSession
  /\ \A c \in Pass : HomeOf[c] = HomeOf[lock.holder] => MakesNoQuery(c)
  /\ lock' = Unlocked
  /\ UNCHANGED <<tx, pvi, pass>>

(* A process dies: its passes end and its sessions drop their lock. *)
CronCrash(p) ==
  /\ \E c \in Pass : HomeOf[c] = p /\ ~PassAt(c, "idle")
  /\ pass' = [c \in Pass |-> IF HomeOf[c] = p THEN IdlePass ELSE pass[c]]
  /\ lock' = IF lock.holder # NoSession /\ HomeOf[lock.holder] = p
               THEN Unlocked ELSE lock
  /\ UNCHANGED <<tx, pvi>>

PassProgress(c) ==
  \/ \E s \in Session : StartPass(c, s) \/ Unlock(c, s)
  \/ ListPending(c)
  \/ \E m \in MaGiaodich : AskPolicy(c, m) \/ AskPolicyThrows(c, m)
  \/ IssueRow(c) \/ IssueRowThrows(c)
  \/ CountRow(c) \/ CountRowThrows(c)
  \/ EndPass(c) \/ UnlockThrows(c)

CronNext ==
  \/ \E c \in Pass : PassProgress(c)
  \/ CloseIdleSession
  \/ \E p \in Process : CronCrash(p)

-----------------------------------------------------------------------------
Working(c) == pass[c].pc \notin {"idle", "unlock"}

(* OnePassAtATime.  "phai dam bao chi 1 cai thuc su chay moi phut"         *)
(* (reconcile.service.ts:16-18): of all passes on all processes at most    *)
(* one is past the lock and not yet at the unlock.                         *)
OnePassAtATime == \A c, d \in Pass : Working(c) /\ Working(d) => c = d

(* TimeoutIsEarned.  A row is given up (CALLBACK_TIMEOUT) only after the   *)
(* configured number of attempts, and a row that is still pending has      *)
(* attempts left, so the cron's query keeps finding it.  Holds however     *)
(* many passes run at once, with whatever copies of the row.               *)
TimeoutIsEarned ==
  \A m \in MaGiaodich :
    tx[m].status = "CALLBACK_TIMEOUT" => tx[m].reconcileAttempts >= MaxAttempts

PendingKeepsAttempts ==
  \A m \in MaGiaodich :
    tx[m].status = "SUBMITTED_OK" => tx[m].reconcileAttempts < MaxAttempts
=============================================================================
