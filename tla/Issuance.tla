------------------------------ MODULE Issuance ------------------------------
(***************************************************************************)
(* The handlers through which a policy reaches a row, other than the cron: *)
(*   callback  POST /pvi/callback, handleCallback of                       *)
(*             src/src/callback/callback.controller.ts                     *)
(*   poll      GET /api/pvi/order/:maGiaodich, getPolicy of                *)
(*             src/src/proxy/policy.controller.ts                          *)
(*   pull      POST .../:maGiaodich/reconcile, reconcileOne of             *)
(*             src/src/reconcile/reconcile.service.ts                      *)
(*                                                                         *)
(* A handler is a thread; it is at "pc" between two awaits.                *)
(*   callback  idle -> find -> update -> answer -> idle                    *)
(*   poll      idle -> ask -> update -> idle                               *)
(*   pull      idle -> ask -> update -> idle                               *)
(* Polls that end at the row's status without asking PVI, and callbacks    *)
(* with a bad signature, change no row.                                    *)
(***************************************************************************)
EXTENDS Transactions

CONSTANT Handler   \* callback, poll and pull calls that can be in flight at once

VARIABLES
  handler,   \* the threads
  answered   \* every answer ever given to a callback PVI sent

HandlerJob == [pc     : {"idle", "find", "ask", "update", "answer"},
               kind   : {"none", "callback", "poll", "pull"},
               ma     : MaGiaodich \cup {NoMa},
               policy : PolicyNumber \cup {NoPolicy}]

(* Only genuine callbacks are remembered: the ones PVI sent. *)
Answer == [ma : MaGiaodich, policy : PolicyNumber, code : {"00", "-404"}]

(* A callback carries a policy, and so does a thread about to write one. *)
HandlerTypeOK ==
  /\ handler \in [Handler -> HandlerJob]
  /\ answered \subseteq Answer
  /\ \A h \in Handler :
       /\ handler[h].pc # "idle" => handler[h].ma \in MaGiaodich
       /\ handler[h].kind = "callback" \/ handler[h].pc = "update" =>
            handler[h].policy \in PolicyNumber

IdleHandler == [pc |-> "idle", kind |-> "none", ma |-> NoMa, policy |-> NoPolicy]

HandlerInit == handler = [h \in Handler |-> IdleHandler] /\ answered = {}

HandlerAt(h, kind, pc) == handler[h].kind = kind /\ handler[h].pc = pc

HandlerGoto(h, pc) == handler' = [handler EXCEPT ![h].pc = pc]

HandlerDone(h) == handler' = [handler EXCEPT ![h] = IdleHandler]

(* Seeded fault: the signature is not checked. *)
SignatureUnchecked(m, p) == TRUE

(* verifyCallback: the signature covers RequestId, PolicyNumber and URL    *)
(* with the key PVI and the gateway share, so only what PVI issued passes. *)
SignatureIsValid(m, p) == p \in pvi[m].issued

(* A message at the callback endpoint.  PVI repeats its callbacks, and     *)
(* they arrive in any order, however late; other messages fail the         *)
(* signature check, are answered -105 and change nothing.                  *)
CallbackArrives(h, m, p) ==
  /\ HandlerAt(h, "none", "idle")
  /\ SignatureIsValid(m, p)
  /\ handler' = [handler EXCEPT ![h] =
                   [pc |-> "find", kind |-> "callback", ma |-> m, policy |-> p]]
  /\ UNCHANGED <<tx, pvi, answered>>

Answered(h, code) ==
  answered' = answered \cup {[ma     |-> handler[h].ma,
                              policy |-> handler[h].policy,
                              code   |-> code]}

CallbackUnknown(h) ==
  /\ HandlerAt(h, "callback", "find")
  /\ ~Exists(handler[h].ma)
  /\ Answered(h, "-404")
  /\ HandlerDone(h)
  /\ UNCHANGED <<tx, pvi>>

AlreadyIssued(h) ==
  /\ tx[handler[h].ma].status = "ISSUED"
  /\ tx[handler[h].ma].policyNumber = handler[h].policy

CallbackRepeated(h) ==
  /\ HandlerAt(h, "callback", "find")
  /\ AlreadyIssued(h)
  /\ HandlerGoto(h, "answer")
  /\ UNCHANGED <<tx, pvi, answered>>

(* Seeded fault: the update is not awaited, and is lost. *)
CallbackFoundUnawaited(h) ==
  /\ HandlerAt(h, "callback", "find")
  /\ Exists(handler[h].ma)
  /\ ~AlreadyIssued(h)
  /\ HandlerGoto(h, "answer")
  /\ UNCHANGED <<tx, pvi, answered>>

CallbackFound(h) ==
  /\ HandlerAt(h, "callback", "find")
  /\ Exists(handler[h].ma)
  /\ ~AlreadyIssued(h)
  /\ HandlerGoto(h, "update")
  /\ UNCHANGED <<tx, pvi, answered>>

CallbackUpdate(h) ==
  /\ HandlerAt(h, "callback", "update")
  /\ SetIssued(handler[h].ma, handler[h].policy)
  /\ HandlerGoto(h, "answer")
  /\ UNCHANGED <<pvi, answered>>

(* After the audit row is written; an audit failure is AbandonHandler. *)
CallbackAnswer(h) ==
  /\ HandlerAt(h, "callback", "answer")
  /\ Answered(h, "00")
  /\ HandlerDone(h)
  /\ UNCHANGED <<tx, pvi>>

(* Only the owner reaches PVI, and only for a row that may yet be issued. *)
PollArrives(h, m, partner) ==
  /\ HandlerAt(h, "none", "idle")
  /\ Exists(m) /\ tx[m].owner[1] = partner
  /\ tx[m].status \in {"SUBMITTED_OK", "CALLBACK_TIMEOUT"}
  /\ handler' = [handler EXCEPT ![h] = [pc |-> "ask", kind |-> "poll", ma |-> m,
                                        policy |-> NoPolicy]]
  /\ UNCHANGED <<tx, pvi, answered>>

(* reconcileOne loads the row but never looks at its status. *)
PullArrives(h, m) ==
  /\ HandlerAt(h, "none", "idle")
  /\ Exists(m)
  /\ handler' = [handler EXCEPT ![h] = [pc |-> "ask", kind |-> "pull", ma |-> m,
                                        policy |-> NoPolicy]]
  /\ UNCHANGED <<tx, pvi, answered>>

(* Seeded fault: result.PolicyNumber is not tested. *)
PolicyUntested(h) ==
  /\ handler[h].pc = "ask"
  /\ handler' = [handler EXCEPT ![h].pc = "update",
                                ![h].policy = pvi[handler[h].ma].current]
  /\ UNCHANGED <<tx, pvi, answered>>

(* PVI's answer to getPolicy carries a PolicyNumber. *)
PolicyFound(h) ==
  /\ handler[h].pc = "ask"
  /\ pvi[handler[h].ma].current # NoPolicy
  /\ handler' = [handler EXCEPT ![h].pc = "update",
                                ![h].policy = pvi[handler[h].ma].current]
  /\ UNCHANGED <<tx, pvi, answered>>

(* Not yet issued, or the call failed: the poll swallows the error and the *)
(* pull reports it; neither writes.                                        *)
PolicyNotFound(h) ==
  /\ handler[h].pc = "ask"
  /\ HandlerDone(h)
  /\ UNCHANGED <<tx, pvi, answered>>

PollUpdate(h) ==
  /\ HandlerAt(h, "poll", "update")
  /\ SetIssued(handler[h].ma, handler[h].policy)
  /\ HandlerDone(h)
  /\ UNCHANGED <<pvi, answered>>

PullUpdate(h) ==
  /\ HandlerAt(h, "pull", "update")
  /\ SetReconciled(handler[h].ma, handler[h].policy)
  /\ HandlerDone(h)
  /\ UNCHANGED <<pvi, answered>>

(* The process dies or an await rejects; an update that rejects may have   *)
(* been applied, which is the update step followed by this one.            *)
AbandonHandler(h) ==
  /\ handler[h].pc # "idle"
  /\ HandlerDone(h)
  /\ UNCHANGED <<tx, pvi, answered>>

HandlerProgress(h) ==
  \/ CallbackUnknown(h) \/ CallbackRepeated(h) \/ CallbackFound(h)
  \/ CallbackUpdate(h) \/ CallbackAnswer(h)
  \/ PolicyFound(h) \/ PolicyNotFound(h) \/ PollUpdate(h) \/ PullUpdate(h)

HandlerNext ==
  \E h \in Handler :
    \/ \E m \in MaGiaodich, p \in PolicyNumber : CallbackArrives(h, m, p)
    \/ \E m \in MaGiaodich, partner \in Partner : PollArrives(h, m, partner)
    \/ \E m \in MaGiaodich : PullArrives(h, m)
    \/ HandlerProgress(h)
    \/ AbandonHandler(h)

-----------------------------------------------------------------------------
(* RecordedPolicyIsReal.  Whatever order callbacks, polls and reconciles   *)
(* complete in, a row only ever carries a policy number that PVI issued    *)
(* for that very order, and a row that says ISSUED carries one.            *)
RecordedPolicyIsReal ==
  \A m \in MaGiaodich :
    /\ tx[m].policyNumber # NoPolicy => tx[m].policyNumber \in pvi[m].issued
    /\ tx[m].status = "ISSUED" => tx[m].policyNumber # NoPolicy

(* CallbackFindsItsOrder.  A callback PVI sends is never turned away as    *)
(* unknown if this deployment made the order: the row is stored before PVI  *)
(* can know of it, so no policy is lost to a -404.                         *)
CallbackFindsItsOrder ==
  \A a \in answered : a.code = "-404" => a.ma \in Foreign

(* AckedPolicyIsKept.  Once a callback has been answered "00", which stops *)
(* PVI's retries, its order carries a policy for ever after.               *)
AckedPolicyIsKept ==
  \A a \in answered : a.code = "00" => tx[a.ma].policyNumber \in pvi[a.ma].issued

(* PolicyNeverErased.  No handler takes a recorded policy away from a row. *)
PolicyNeverErased ==
  [][\A m \in MaGiaodich :
       tx[m].policyNumber # NoPolicy => tx'[m].policyNumber # NoPolicy]_tx
=============================================================================
