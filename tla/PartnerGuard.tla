---------------------------- MODULE PartnerGuard ---------------------------
(***************************************************************************)
(* PartnerAuthGuard with its nonce store and rate limit in Redis, run by   *)
(* the API servers for every request of a partner.  The network may bring  *)
(* a request more than once (a retry of a proxy or of the partner), late,  *)
(* and with another path or body than was signed; every copy is a Delivery *)
(* with a handler of its own.  The database and Redis answer whenever they *)
(* do, and the clock runs on.                                              *)
(*                                                                         *)
(* Servers and Redis share one clock, in ticks; a partner's may run ahead. *)
(***************************************************************************)
EXTENDS PartnerKeys

CONSTANTS
  Request,               \* what partners sign; each has a nonce of its own
  Delivery,              \* the copies the network brings
  Second, Minute,        \* in ticks
  Skew,                  \* PARTNER_AUTH_SKEW_SECONDS
  NonceTtl,              \* PARTNER_AUTH_NONCE_TTL_SECONDS
  RateTtl,               \* RATE_BUCKET_TTL_SEC
  Ahead,                 \* ticks a partner's clock may run ahead
  Stall,                 \* ticks a handler may take between reading the clock and
                         \* the Redis command that relies on it
  Horizon                \* bound of the clock

ASSUME ClockAssumption ==
  /\ {Second, Minute} \subseteq Nat \ {0} /\ Minute % Second = 0
  /\ {Skew, NonceTtl, RateTtl, Ahead, Stall, Horizon} \subseteq Nat

\* A counter outlives its minute.
ASSUME RateAssumption == RateTtl * Second >= Minute + Stall

Never == Horizon + (NonceTtl + RateTtl) * Second + 1

VARIABLES
  now,
  sent,       \* requests partners have signed
  delivery,   \* handlers of the copies
  counter,    \* auth:rl:{clientId}:{minute}
  nonce       \* when auth:nonce:{clientId}:{minute}:{nonce} expires

guardVars == <<now, sent, delivery, counter, nonce>>
partnerVars == <<keysVars, guardVars>>

Bucket == 0 .. Horizon \div Minute

Signed == [key : Key, client : Partner, timestamp : Nat]

(* find: asks for the partner.  count, expire: INCR and EXPIRE of the rate *)
(* limit.  check: the timestamp.  secret: asks for the key.  claim: SET NX *)
(* of the nonce.                                                           *)
InFlight == {"find", "count", "expire", "check", "secret", "claim"}

Handler == [step : InFlight \cup {"none", "passed", "refused", "limited", "failed"},
            request : Request,
            intact : BOOLEAN,               \* is the signature that of the content?
            limit : Limit \cup {0},
            bucket : Bucket,
            place : Nat,                    \* what INCR returned, 0 before
            read : 0 .. Horizon,            \* the clock value its next command relies on;
                                            \* history: when it passed
            late : BOOLEAN]                 \* history: came after its key was rotated out

GuardInit ==
  /\ now = 0
  /\ sent = [r \in Request |-> [key |-> NoKey, client |-> NoPartner, timestamp |-> 0]]
  /\ delivery \in [Delivery -> {[step |-> "none", request |-> r, intact |-> TRUE,
        limit |-> 0, bucket |-> 0, place |-> 0, read |-> 0, late |-> FALSE]
        : r \in Request}]
  /\ counter = [p \in Partner |-> [b \in Bucket |-> [count |-> 0, expires |-> Never]]]
  /\ nonce = [r \in Request |-> 0]

-----------------------------------------------------------------------------
(* Partners and the network. *)

IsSigned(r) == sent[r].key # NoKey

\* A partner signs with a key it was given, revoked meanwhile or not.
Sign(r, k) ==
  /\ ~IsSigned(r)
  /\ secret[k].status # "absent"
  /\ \E ts \in 0 .. (now + Ahead) \div Second :
       sent' = [sent EXCEPT ![r] = [key |-> k, client |-> secret[k].owner, timestamp |-> ts]]
  /\ UNCHANGED <<keysVars, now, delivery, counter, nonce>>

\* A revoking rotation was answered whose partner had the key before.
RotatedOut(k) ==
  \E a \in Rotation :
    rotation[a].step = "done" /\ rotation[a].revokeOld /\ k \in rotation[a].older

Arrive(d, r) ==
  /\ d \in crowd /\ delivery[d].step = "none"
  /\ IsSigned(r)
  /\ \E intact \in BOOLEAN :
       delivery' = [delivery EXCEPT ![d].step = "find", ![d].request = r, ![d].intact = intact,
                                    ![d].late = RotatedOut(sent[r].key)]
  /\ UNCHANGED <<keysVars, now, sent, counter, nonce>>

\* A header is missing, or the signature version is another.
ArriveMalformed(d, r) ==
  /\ d \in crowd /\ delivery[d].step = "none"
  /\ IsSigned(r)
  /\ delivery' = [delivery EXCEPT ![d].step = "refused", ![d].request = r]
  /\ UNCHANGED <<keysVars, now, sent, counter, nonce>>

-----------------------------------------------------------------------------
(* The guard. *)

Waits(step) == step \in {"count", "secret", "claim"}

\* A clock value is kept only while a command relies on it.
Goes(d, step) ==
  delivery' = [delivery EXCEPT ![d].step = step, ![d].read = IF Waits(step) THEN @ ELSE 0]

ClientOf(d) == sent[delivery[d].request].client
KeyOf(d) == sent[delivery[d].request].key

\* Fault: seconds are taken for minutes.
BucketOfSecond(t) == t \div Second

BucketOf(t) == t \div Minute

\* Which of req.ip and the first of x-forwarded-for the partner may come from.
isAllowedIp(from, p) == partner[p].allowedIps = {} \/ from \cap partner[p].allowedIps # {}

\* findActivePartnerByClientId, the addresses, and the bucket of this moment.
FindPartner(d, from) ==
  /\ delivery[d].step = "find"
  /\ LET p == ClientOf(d)
     IN IF partner[p].status = "ACTIVE" /\ isAllowedIp(from, p)
        THEN delivery' = [delivery EXCEPT
               ![d].step = IF partner[p].rateLimit = 0 THEN "check" ELSE "count",
               ![d].limit = partner[p].rateLimit,
               ![d].bucket = BucketOf(now),
               ![d].read = IF partner[p].rateLimit = 0 THEN 0 ELSE now]
        ELSE Goes(d, "refused")
  /\ UNCHANGED <<keysVars, now, sent, counter, nonce>>

\* Redis forgets what has expired.
Count(p, b) == IF counter[p][b].expires > now THEN counter[p][b].count ELSE 0

\* Faults: the limit itself is turned away; one more than the limit is let through.
AfterCountEarly(place, limit) == IF place >= limit THEN "limited" ELSE "check"
AfterCountLate(place, limit) == IF place > limit + 1 THEN "limited" ELSE "check"

AfterCount(place, limit) == IF place > limit THEN "limited" ELSE "check"

Incr(d) ==
  LET p == ClientOf(d)
      b == delivery[d].bucket
      place == Count(p, b) + 1
  IN /\ delivery[d].step = "count"
     /\ counter' = [counter EXCEPT ![p][b].count = place,
                                   ![p][b].expires = IF place = 1 THEN Never ELSE @]
     /\ delivery' = [delivery EXCEPT
          ![d].step = IF place = 1 THEN "expire" ELSE AfterCount(place, delivery[d].limit),
          ![d].place = place, ![d].read = 0]
     /\ UNCHANGED <<keysVars, now, sent, nonce>>

\* EXPIRE on a counter that is gone does nothing.
Expire(d) ==
  LET p == ClientOf(d)
      b == delivery[d].bucket
  IN /\ delivery[d].step = "expire"
     /\ counter' = IF Count(p, b) > 0
                   THEN [counter EXCEPT ![p][b].expires = now + RateTtl * Second]
                   ELSE counter
     /\ Goes(d, AfterCount(delivery[d].place, delivery[d].limit))
     /\ UNCHANGED <<keysVars, now, sent, nonce>>

Abs(x) == IF x < 0 THEN -x ELSE x

CheckTimestamp(d) ==
  /\ delivery[d].step = "check"
  /\ IF Abs(now \div Second - sent[delivery[d].request].timestamp) > Skew
     THEN Goes(d, "refused")
     ELSE delivery' = [delivery EXCEPT ![d].step = "secret", ![d].read = now]
  /\ UNCHANGED <<keysVars, now, sent, counter, nonce>>

\* Faults: the nonce is claimed before signatures are compared; the status of the key
\* is not asked for.
VerifiedLater(d) == KeyOf(d) \in ActiveKeys(ClientOf(d))
VerifiedAnyKey(d) == KeyOf(d) \in KeysOf(ClientOf(d)) /\ delivery[d].intact

\* getActiveSecret, then the HMAC.
Verified(d) == KeyOf(d) \in ActiveKeys(ClientOf(d)) /\ delivery[d].intact

VerifySignature(d) ==
  /\ delivery[d].step = "secret"
  /\ Goes(d, IF Verified(d) THEN "claim" ELSE "refused")
  /\ UNCHANGED <<keysVars, now, sent, counter, nonce>>

\* Fault: the minute in the Redis key is the server's, not that of the timestamp.
IsFreshThisMinute(r) ==
  nonce[r] <= now \/ BucketOf(nonce[r] - NonceTtl * Second) # BucketOf(now)

IsFresh(r) == nonce[r] <= now

\* checkAndSet: SET NX EX.
ClaimNonce(d) ==
  LET r == delivery[d].request
  IN /\ delivery[d].step = "claim"
     /\ IF IsFresh(r)
        THEN /\ nonce' = [nonce EXCEPT ![r] = now + NonceTtl * Second]
             /\ delivery' = [delivery EXCEPT ![d].step = "passed", ![d].read = now]
        ELSE nonce' = nonce /\ Goes(d, "refused")
     /\ UNCHANGED <<keysVars, now, sent, counter>>

\* The database or Redis fails, or the server dies: what was counted stays.
HandlerFails(d) ==
  /\ delivery[d].step \in InFlight
  /\ Goes(d, "failed")
  /\ UNCHANGED <<keysVars, now, sent, counter, nonce>>

Tick ==
  /\ now < Horizon
  /\ \A d \in Delivery : Waits(delivery[d].step) => now < delivery[d].read + Stall
  /\ now' = now + 1
  /\ UNCHANGED <<keysVars, sent, delivery, counter, nonce>>

Init == KeysInit /\ GuardInit

Next ==
  \/ KeysNext /\ UNCHANGED guardVars
  \/ \E r \in Request, k \in Key : Sign(r, k)
  \/ \E d \in Delivery, r \in Request : Arrive(d, r) \/ ArriveMalformed(d, r)
  \/ \E d \in Delivery, from \in SUBSET Ip : FindPartner(d, from)
  \/ \E d \in Delivery : \/ Incr(d) \/ Expire(d) \/ CheckTimestamp(d)
                         \/ VerifySignature(d) \/ ClaimNonce(d) \/ HandlerFails(d)
  \/ Tick

Spec == Init /\ [][Next]_partnerVars

-----------------------------------------------------------------------------
Passed(d) == delivery[d].step = "passed"

GuardTypeOK ==
  /\ KeysTypeOK
  /\ now \in 0 .. Horizon
  /\ sent \in [Request -> Signed \cup {[key |-> NoKey, client |-> NoPartner, timestamp |-> 0]}]
  /\ delivery \in [Delivery -> Handler]
  /\ counter \in [Partner -> [Bucket -> [count : Nat, expires : 0 .. Never]]]
  /\ nonce \in [Request -> Nat]

\* However often, late or together its copies arrive, between two of them that pass
\* lies the time a nonce is kept.
PassesAreApart ==
  \A d, e \in Delivery :
    Passed(d) /\ Passed(e) /\ d # e /\ delivery[d].request = delivery[e].request =>
      \/ delivery[d].read + NonceTtl * Second <= delivery[e].read
      \/ delivery[e].read + NonceTtl * Second <= delivery[d].read

\* A nonce outlives the timestamps it goes with: from a second stamped ahead of the
\* clock until that second is out of date and the last handler that read the clock
\* before has claimed.
NonceOutlivesTimestamps == NonceTtl * Second >= (Skew + 1) * Second + Ahead + Stall

\* docs/partner-auth-plan.md:29 "Nonce must be unique per clientId in the allowed
\* window": a request passes once.  Only settings with NonceOutlivesTimestamps
\* give this, and the defaults (config/env.ts:27-28) do not.
AtMostOnce ==
  \A d, e \in Delivery :
    Passed(d) /\ Passed(e) /\ delivery[d].request = delivery[e].request => d = e

\* What the defaults do give, to partners whose clocks are not a whole skew ahead: two
\* lives of a nonce outlive its timestamps, and a request passes twice at most.
TwoNoncesOutliveTimestamps ==
  2 * (NonceTtl * Second) >= (Skew + 1) * Second + Ahead + Stall

AtMostTwice ==
  \A r \in Request :
    ~ \E d, e, f \in {g \in Delivery : Passed(g) /\ delivery[g].request = r} :
        d # e /\ e # f /\ d # f

\* A mangled copy uses up no nonce: the claim comes after the signature check.
NonceNeedsSignature ==
  \A r \in Request : nonce[r] # 0 =>
    \E d \in Delivery : Passed(d) /\ delivery[d].request = r /\ delivery[d].intact

\* A request that arrives after the rotation that took its key away was answered
\* does not pass.
RotatedOutStops ==
  \A d \in Delivery : Passed(d) => ~delivery[d].late

\* In no minute do more requests get by a limit than it says, although it is counted
\* in two steps, counters expire and an admin may change it meanwhile.
SameMinute(d, e) == ClientOf(d) = ClientOf(e) /\ delivery[d].bucket = delivery[e].bucket

RateHolds ==
  \A d \in Delivery :
    LET within == {e \in Delivery : /\ delivery[e].step \in {"check", "secret", "claim", "passed"}
                                    /\ delivery[e].limit \in 1 .. delivery[d].limit
                                    /\ SameMinute(d, e)}
    IN delivery[d].limit > 0 => Cardinality(within) <= delivery[d].limit

\* Nobody is turned away before the limit of that very minute is used up, also when
\* a crash left the counter of another minute without an expiry.
LimitedOnlyWhenFull ==
  \A d \in Delivery : delivery[d].step = "limited" =>
    Cardinality({e \in Delivery \ {d} : delivery[e].place > 0 /\ SameMinute(d, e)})
      >= delivery[d].limit
=============================================================================
