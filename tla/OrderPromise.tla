---------------------------- MODULE OrderPromise ----------------------------
(***************************************************************************)
(* What a partner may rely on when it creates orders with an idempotency   *)
(* key (docs of CreateOrderDto.idempotencyKey in                           *)
(* src/src/proxy/dto/create-order.dto.ts): the key stands for one order    *)
(* for ever, PVI is asked for that order at most once, and every answer    *)
(* names it.  Nothing is said of threads, rows, retries or failures.       *)
(***************************************************************************)
CONSTANTS Owner, MaGiaodich, NoMa

VARIABLES
  placed,    \* the order each (partner, key) stands for, or NoMa
  asked,     \* orders PVI was asked for
  answers    \* pairs <<owner, order>> answered so far

promiseVars == <<placed, asked, answers>>

Init == /\ placed = [o \in Owner |-> NoMa]
        /\ asked = {}
        /\ answers = {}

(* A key is used for the first time: an order no other key stands for. *)
Place(o, m) ==
  /\ placed[o] = NoMa
  /\ \A q \in Owner : placed[q] # m
  /\ placed' = [placed EXCEPT ![o] = m]
  /\ UNCHANGED <<asked, answers>>

Ask(o) ==
  /\ placed[o] # NoMa
  /\ placed[o] \notin asked
  /\ asked' = asked \cup {placed[o]}
  /\ UNCHANGED <<placed, answers>>

Answer(o) ==
  /\ placed[o] # NoMa
  /\ answers' = answers \cup {<<o, placed[o]>>}
  /\ UNCHANGED <<placed, asked>>

Next == \E o \in Owner : \/ \E m \in MaGiaodich : Place(o, m)
                         \/ Ask(o)
                         \/ Answer(o)

Spec == Init /\ [][Next]_promiseVars
=============================================================================
